---------------------------- MODULE LoopTheorems ----------------------------
(***************************************************************************)
(* What the proofs about loops rest on.  The code walks over its events,   *)
(* its samples and its intervals in a loop with an accumulator, which the  *)
(* modules write as a recursive function on 0..N: the accumulator after    *)
(* the first n turns.  Here is that such a function exists, and induction  *)
(* over the turns.                                                         *)
(***************************************************************************)
EXTENDS Integers, WellFoundedInduction, TLAPS

(***************************************************************************)
(* Every set of numbers that is not empty has a least one.                 *)
(***************************************************************************)
LEMMA LeastOf ==
  ASSUME NEW T \in SUBSET Nat, T # {}
  PROVE  \E x \in T : \A y \in T : x <= y
<1> DEFINE R == OpToRel(<, Nat)
<1>1. IsWellFoundedOn(R, Nat)
  BY NatLessThanWellFounded, Zenon
<1> HIDE DEF R
<1>2. PICK x \in T : \A y \in T : <<y, x>> \notin R
  BY <1>1, WFMin
<1>3. ASSUME NEW y \in T  PROVE x <= y
  <2>1. CASE y < x
    <3>1. <<y, x>> \in R
      BY <2>1 DEF R, OpToRel
    <3> QED BY <3>1, <1>2
  <2> QED BY <2>1
<1> QED BY <1>3

(***************************************************************************)
(* Induction: a set of numbers that holds 0 and with each number the next  *)
(* holds all of them.  Otherwise the numbers it lacks had a least one.     *)
(***************************************************************************)
LEMMA InductionOnSet ==
  ASSUME NEW S \in SUBSET Nat, 0 \in S, \A n \in S : n + 1 \in S
  PROVE  S = Nat
<1> DEFINE T == Nat \ S
<1>1. SUFFICES ASSUME T # {}  PROVE FALSE
  OBVIOUS
<1>2. T \subseteq Nat
  OBVIOUS
<1>3. PICK x \in T : \A y \in T : x <= y
  BY <1>1, <1>2, LeastOf
<1>4. x - 1 \in Nat /\ x - 1 < x /\ (x - 1) + 1 = x
  BY <1>3
<1>5. x - 1 \in T
  BY <1>4
<1> QED BY <1>3, <1>4, <1>5

(***************************************************************************)
(* The same for the turns of one loop.                                     *)
(***************************************************************************)
LEMMA InductionOnTurns ==
  ASSUME NEW N \in Nat, NEW S, 0 \in S, \A n \in 1..N : n - 1 \in S => n \in S
  PROVE  0..N \subseteq S
<1> DEFINE T == {n \in Nat : n \in 0..N => n \in S}
<1>1. 0 \in T
  OBVIOUS
<1>2. ASSUME NEW n \in T  PROVE n + 1 \in T
  <2>1. n \in Nat /\ (n \in 0..N => n \in S)
    OBVIOUS
  <2>2. SUFFICES ASSUME n + 1 \in 0..N  PROVE n + 1 \in S
    OBVIOUS
  <2>3. n \in 0..N /\ n + 1 \in 1..N /\ (n + 1) - 1 = n
    BY <2>1, <2>2
  <2>4. (n + 1) - 1 \in S
    BY <2>1, <2>3
  <2> QED BY <2>3, <2>4
<1>3. T \in SUBSET Nat
  OBVIOUS
<1> HIDE DEF T
<1>4. T = Nat
  BY <1>1, <1>2, <1>3, InductionOnSet
<1> QED BY <1>4 DEF T

(***************************************************************************)
(* What a loop computes is of its kind after every turn.                   *)
(***************************************************************************)
LEMMA LoopTyped ==
  ASSUME NEW N \in Nat, NEW A, NEW f, f = [n \in 0..N |-> f[n]],
         f[0] \in A, \A n \in 1..N : f[n - 1] \in A => f[n] \in A
  PROVE  f \in [0..N -> A]
<1> DEFINE S == {n \in 0..N : f[n] \in A}
<1>1. 0 \in S
  OBVIOUS
<1>2. \A n \in 1..N : n - 1 \in S => n \in S
  OBVIOUS
<1> HIDE DEF S
<1>3. 0..N \subseteq S
  BY <1>1, <1>2, InductionOnTurns
<1> QED BY <1>3 DEF S

(***************************************************************************)
(* f is the history of a loop of N turns: f[n] is the accumulator after    *)
(* the first n of them.                                                    *)
(***************************************************************************)
IsHistory(f, N, A, start, body) ==
  /\ f \in [0..N -> A]
  /\ f[0] = start
  /\ \A n \in 1..N : f[n] = body[<<f[n - 1], n>>]

(***************************************************************************)
(* A loop of N turns whose body is a function of the accumulator and the   *)
(* number of the turn has a history.                                       *)
(***************************************************************************)
LEMMA LoopHasHistory ==
  ASSUME NEW N \in Nat, NEW A, NEW start \in A, NEW body \in [A \X (1..N) -> A]
  PROVE  \E f : IsHistory(f, N, A, start, body)
<1> DEFINE Upto(n, f) ==
             /\ f \in [0..n -> A]
             /\ f[0] = start
             /\ \A i \in 1..n : f[i] = body[<<f[i - 1], i>>]
           S == {n \in 0..N : \E f \in [0..n -> A] : Upto(n, f)}
<1>1. 0 \in S
  <2> DEFINE f == [i \in 0..0 |-> start]
  <2>1. Upto(0, f) /\ f \in [0..0 -> A]
    OBVIOUS
  <2> HIDE DEF f, Upto
  <2>2. \E g \in [0..0 -> A] : Upto(0, g)
    BY <2>1
  <2> QED BY <2>2
<1>2. ASSUME NEW n \in 1..N, n - 1 \in S  PROVE n \in S
  <2>1. PICK g \in [0..(n - 1) -> A] : Upto(n - 1, g)
    BY <1>2
  <2> DEFINE f == [i \in 0..n |-> IF i = n THEN body[<<g[n - 1], n>>] ELSE g[i]]
  <2>2. g[n - 1] \in A
    BY <2>1
  <2>3. body[<<g[n - 1], n>>] \in A
    BY <2>2
  <2>4. f \in [0..n -> A] /\ f[0] = start
    BY <2>1, <2>3
  <2>5. ASSUME NEW i \in 1..n  PROVE f[i] = body[<<f[i - 1], i>>]
    <3>1. f[i - 1] = g[i - 1]
      OBVIOUS
    <3>2. CASE i = n
      BY <3>1, <3>2
    <3>3. CASE i # n
      <4>1. i \in 1..(n - 1) /\ f[i] = g[i]
        BY <3>3
      <4> QED BY <3>1, <4>1, <2>1
    <3> QED BY <3>2, <3>3
  <2>6. Upto(n, f)
    BY <2>4, <2>5
  <2> HIDE DEF f, Upto
  <2>7. \E h \in [0..n -> A] : Upto(n, h)
    BY <2>4, <2>6
  <2> QED BY <2>7
<1> HIDE DEF S
<1>3. N \in S
  <2>1. 0..N \subseteq S
    BY <1>1, <1>2, InductionOnTurns
  <2> QED BY <2>1
<1>4. PICK f \in [0..N -> A] : Upto(N, f)
  BY <1>3 DEF S
<1>5. IsHistory(f, N, A, start, body)
  BY <1>4 DEF IsHistory
<1> QED BY <1>5
=============================================================================
