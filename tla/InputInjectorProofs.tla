------------------------- MODULE InputInjectorProofs -------------------------
(***************************************************************************)
(* What WindowsInputInjector promises for every alphabet and texts of any  *)
(* length.  First what its loops over a batch compute: the code replays    *)
(* the events that went through to find the keys that are still down.      *)
(***************************************************************************)
EXTENDS InputInjector, LoopTheorems, SequenceTheorems

NoRepeat(s) == \A i, j \in DOMAIN s : s[i] = s[j] => i = j

Prefix(events, n) == SubSeq(events, 1, n)

-----------------------------------------------------------------------------
(***************************************************************************)
(* RemoveFirst, which the code's pressed.remove is.                        *)
(***************************************************************************)
LEMMA RemoveFirstElements ==
  ASSUME NEW S, NEW s \in Seq(S), NEW k
  PROVE  \/ /\ k \notin ToSet(s)
            /\ RemoveFirst(s, k) = s
         \/ \E i \in 1..Len(s) :
              /\ s[i] = k
              /\ RemoveFirst(s, k) \in Seq(S)
              /\ Len(RemoveFirst(s, k)) = Len(s) - 1
              /\ \A j \in 1..(Len(s) - 1) :
                   RemoveFirst(s, k)[j] = IF j < i THEN s[j] ELSE s[j + 1]
<1> DEFINE n == Len(s)
<1>1. n \in Nat /\ DOMAIN s = 1..n
  BY LenProperties
<1>2. CASE k \notin ToSet(s)
  <2>1. ~ \E i \in 1..n : s[i] = k
    BY <1>1, <1>2 DEF ToSet
  <2> QED BY <2>1, <1>2 DEF RemoveFirst
<1>3. CASE k \in ToSet(s)
  <2> DEFINE I == {i \in 1..n : s[i] = k}
             i == SelectInSeq(s, LAMBDA v : v = k)
  <2>1. I # {}
    BY <1>1, <1>3 DEF ToSet
  <2>2. RemoveFirst(s, k) = SubSeq(s, 1, i - 1) \o SubSeq(s, i + 1, n)
    BY <2>1 DEF RemoveFirst, RemoveAt
  <2>3. i = Min(I)
    BY <2>1 DEF SelectInSeq
  <2>4. I \subseteq Nat
    BY <1>1
  <2> HIDE DEF i, n
  <2>5. \E x \in I : \A y \in I : x <= y
    BY <2>1, <2>4, LeastOf
  <2>6. i \in I
    BY <2>3, <2>5 DEF Min
  <2>7. i \in 1..n /\ s[i] = k
    BY <2>6
  <2> DEFINE a == SubSeq(s, 1, i - 1)
             b == SubSeq(s, i + 1, n)
  <2>8. /\ a \in Seq(S) /\ Len(a) = i - 1
        /\ \A j \in 1..(i - 1) : a[j] = s[j]
    BY <2>7, <1>1 DEF n
  <2>9. /\ b \in Seq(S) /\ Len(b) = n - i
        /\ \A j \in 1..(n - i) : b[j] = s[i + j]
    <3>1. \A j \in (i + 1)..n : s[j] \in S
      BY <2>7, <1>1 DEF n
    <3>2. /\ b \in Seq(S)
          /\ Len(b) = IF i + 1 <= n THEN n - (i + 1) + 1 ELSE 0
          /\ \A j \in 1..(n - (i + 1) + 1) : b[j] = s[(i + 1) + j - 1]
      BY <3>1, <2>7, <1>1, SubSeqProperties
    <3> HIDE DEF b
    <3>3. Len(b) = n - i
      BY <3>2, <2>7, <1>1
    <3>4. ASSUME NEW j \in 1..(n - i)  PROVE b[j] = s[i + j]
      <4>1. j \in 1..(n - (i + 1) + 1) /\ (i + 1) + j - 1 = i + j
        BY <2>7, <1>1
      <4> QED BY <4>1, <3>2
    <3> QED BY <3>2, <3>3, <3>4
  <2> HIDE DEF a, b
  <2>10. /\ a \o b \in Seq(S) /\ Len(a \o b) = n - 1
         /\ \A j \in 1..(n - 1) :
              (a \o b)[j] = IF j < i THEN s[j] ELSE s[j + 1]
    <3>1. a \o b \in Seq(S) /\ Len(a \o b) = n - 1
      <4>1. a \in Seq(S) /\ b \in Seq(S)
        BY <2>8, <2>9
      <4>2. a \o b \in Seq(S) /\ Len(a \o b) = Len(a) + Len(b)
        BY <4>1, ConcatProperties
      <4> QED BY <4>2, <2>7, <2>8, <2>9, <1>1
    <3>2. ASSUME NEW j \in 1..(n - 1)
          PROVE  (a \o b)[j] = IF j < i THEN s[j] ELSE s[j + 1]
      <4>1. CASE j < i
        <5>1. (a \o b)[j] = a[j]
          BY <4>1, <2>7, <2>8, <2>9, <1>1, ConcatProperties
        <5> QED BY <5>1, <4>1, <2>8, <2>7, <1>1
      <4>2. CASE ~(j < i)
        <5>1. (a \o b)[j] = b[j - (i - 1)]
          BY <4>2, <2>7, <2>8, <2>9, <1>1, ConcatProperties
        <5>2. j - (i - 1) \in 1..(n - i) /\ i + (j - (i - 1)) = j + 1
          BY <4>2, <2>7, <1>1
        <5> QED BY <5>1, <5>2, <4>2, <2>9
      <4> QED BY <4>1, <4>2
    <3> QED BY <3>1, <3>2
  <2> QED BY <2>2, <2>7, <2>10 DEF a, b, n
<1> QED BY <1>2, <1>3

(***************************************************************************)
(* A list with one element removed is a list of the same kind.             *)
(***************************************************************************)
LEMMA RemoveFirstTyped ==
  ASSUME NEW S, NEW s \in Seq(S), NEW k
  PROVE  RemoveFirst(s, k) \in Seq(S)
BY RemoveFirstElements

(***************************************************************************)
(* From a sequence that repeats nothing it takes just that element.        *)
(***************************************************************************)
LEMMA RemoveFirstRemoves ==
  ASSUME NEW S, NEW s \in Seq(S), NoRepeat(s), NEW k
  PROVE  /\ ToSet(RemoveFirst(s, k)) = ToSet(s) \ {k}
         /\ NoRepeat(RemoveFirst(s, k))
<1> DEFINE n == Len(s)
           r == RemoveFirst(s, k)
<1>1. n \in Nat /\ DOMAIN s = 1..n
  BY LenProperties
<1>2. CASE k \notin ToSet(s) /\ r = s
  BY <1>2
<1>3. ASSUME NEW i \in 1..n, s[i] = k, r \in Seq(S), Len(r) = n - 1,
             \A j \in 1..(n - 1) : r[j] = IF j < i THEN s[j] ELSE s[j + 1]
      PROVE  ToSet(r) = ToSet(s) \ {k} /\ NoRepeat(r)
  <2> HIDE DEF n, r
  <2>1. DOMAIN r = 1..(n - 1)
    BY <1>1, <1>3
  <2>2. \A j \in 1..n : s[j] = k => j = i
    BY <1>1, <1>3 DEF NoRepeat
  <2>3. ToSet(r) \subseteq ToSet(s) \ {k}
    <3>1. ASSUME NEW j \in 1..(n - 1)  PROVE r[j] \in ToSet(s) \ {k}
      <4>1. CASE j < i
        <5>1. j \in 1..n /\ j # i /\ r[j] = s[j]
          BY <4>1, <1>3, <1>1
        <5> QED BY <5>1, <2>2, <1>1 DEF ToSet
      <4>2. CASE ~(j < i)
        <5>1. j + 1 \in 1..n /\ j + 1 # i /\ r[j] = s[j + 1]
          BY <4>2, <1>3, <1>1
        <5> QED BY <5>1, <2>2, <1>1 DEF ToSet
      <4> QED BY <4>1, <4>2
    <3> QED BY <3>1, <2>1 DEF ToSet
  <2>4. ToSet(s) \ {k} \subseteq ToSet(r)
    <3>1. ASSUME NEW j \in 1..n, s[j] # k  PROVE s[j] \in ToSet(r)
      <4>1. j # i
        BY <3>1, <1>3
      <4>2. CASE j < i
        <5>1. j \in 1..(n - 1) /\ r[j] = s[j]
          BY <4>2, <1>1, <1>3
        <5> QED BY <5>1, <2>1 DEF ToSet
      <4>3. CASE j > i
        <5>1. j - 1 \in 1..(n - 1) /\ ~(j - 1 < i) /\ (j - 1) + 1 = j
          BY <4>3, <1>1
        <5>2. r[j - 1] = s[j]
          BY <5>1, <1>3
        <5> QED BY <5>1, <5>2, <2>1 DEF ToSet
      <4> QED BY <4>1, <4>2, <4>3, <1>1
    <3> QED BY <3>1, <1>1 DEF ToSet
  <2>5. NoRepeat(r)
    <3> DEFINE at(j) == IF j < i THEN j ELSE j + 1
    <3>1. ASSUME NEW j \in 1..(n - 1)  PROVE at(j) \in 1..n /\ r[j] = s[at(j)]
      BY <1>1, <1>3
    <3>2. ASSUME NEW j \in 1..(n - 1), NEW l \in 1..(n - 1), at(j) = at(l)
          PROVE  j = l
      BY <3>2, <1>1
    <3> HIDE DEF at
    <3>3. ASSUME NEW j \in 1..(n - 1), NEW l \in 1..(n - 1), r[j] = r[l]
          PROVE  j = l
      BY <3>1, <3>2, <3>3, <1>1 DEF NoRepeat
    <3> QED BY <3>3, <2>1 DEF NoRepeat
  <2> QED BY <2>3, <2>4, <2>5
<1> QED BY <1>2, <1>3, RemoveFirstElements

(***************************************************************************)
(* An element more at the end: what list.append does to the keys held      *)
(* down.                                                                   *)
(***************************************************************************)
LEMMA AppendAdds ==
  ASSUME NEW S, NEW s \in Seq(S), NEW k \in S
  PROVE  /\ Append(s, k) \in Seq(S)
         /\ ToSet(Append(s, k)) = ToSet(s) \cup {k}
         /\ NoRepeat(s) /\ k \notin ToSet(s) => NoRepeat(Append(s, k))
<1> DEFINE n == Len(s)
           t == Append(s, k)
<1>1. n \in Nat /\ DOMAIN s = 1..n
  BY LenProperties
<1>2. t \in Seq(S) /\ Len(t) = n + 1 /\ t[n + 1] = k /\ \A i \in 1..n : t[i] = s[i]
  BY AppendProperties
<1>3. DOMAIN t = 1..(n + 1)
  BY <1>2, LenProperties
<1> HIDE DEF n, t
<1>4. 1..(n + 1) = 1..n \cup {n + 1}
  BY <1>1
<1>5. ToSet(t) = ToSet(s) \cup {k}
  BY <1>1, <1>2, <1>3, <1>4 DEF ToSet
<1>6. ASSUME NoRepeat(s), k \notin ToSet(s)  PROVE NoRepeat(t)
  <2>1. \A i \in 1..n : t[i] # k
    BY <1>1, <1>2, <1>6 DEF ToSet
  <2> QED BY <1>1, <1>2, <1>3, <1>4, <1>6, <2>1 DEF NoRepeat
<1> QED BY <1>2, <1>5, <1>6 DEF t

-----------------------------------------------------------------------------
(***************************************************************************)
(* The loops over the events, turn by turn: the keys still pressed, and    *)
(* the events that press one.                                              *)
(***************************************************************************)
LEMMA PressedHistory ==
  ASSUME NEW events \in Seq(KeyEvent)
  PROVE  \E h \in [0..Len(events) -> Seq(Keys)] :
           /\ h[0] = <<>>
           /\ \A n \in 1..Len(events) : h[n] = IF events[n].up THEN RemoveFirst(h[n - 1], events[n].key)
                    ELSE Append(h[n - 1], events[n].key)
           /\ Pressed(events) = h[Len(events)]
<1> DEFINE N == Len(events)
           Turn(acc, n) == IF events[n].up THEN RemoveFirst(acc, events[n].key)
                    ELSE Append(acc, events[n].key)
           body == [x \in Seq(Keys) \X (1..N) |-> Turn(x[1], x[2])]
           Solves(f) == f = [n \in 0..N |-> IF n = 0 THEN <<>> ELSE Turn(f[n - 1], n)]
           h == CHOOSE f : Solves(f)
<1>1. N \in Nat /\ <<>> \in Seq(Keys)
  OBVIOUS
<1>2. ASSUME NEW acc \in Seq(Keys), NEW n \in 1..N  PROVE Turn(acc, n) \in Seq(Keys)
  <2>1. events[n] \in KeyEvent
    BY ElementOfSeq
  <2>2. events[n].key \in Keys /\ events[n].up \in BOOLEAN
    BY <2>1 DEF KeyEvent
  <2> QED BY <2>2, RemoveFirstTyped, AppendProperties
<1>3. Pressed(events) = h[N]
  BY DEF Pressed
<1> HIDE DEF N, Turn
<1>4. body \in [Seq(Keys) \X (1..N) -> Seq(Keys)]
  BY <1>2
<1>5. PICK f : IsHistory(f, N, Seq(Keys), <<>>, body)
  <2> HIDE DEF body
  <2> QED BY <1>1, <1>4, LoopHasHistory
<1>6. Solves(f)
  <2>1. f \in [0..N -> Seq(Keys)] /\ f[0] = <<>>
    BY <1>5 DEF IsHistory
  <2>2. ASSUME NEW n \in 1..N  PROVE f[n] = Turn(f[n - 1], n)
    <3>1. n - 1 \in 0..N
      BY <1>1
    <3>2. f[n - 1] \in Seq(Keys)
      BY <2>1, <3>1
    <3> QED BY <3>2, <1>5 DEF IsHistory
  <2> QED BY <1>1, <2>1, <2>2
<1>7. Solves(h)
  <2> HIDE DEF Solves
  <2> QED BY <1>6
<1> HIDE DEF h
<1>8. h[0] = <<>> /\ \A n \in 1..N : h[n] = Turn(h[n - 1], n)
  BY <1>1, <1>7
<1>9. h \in [0..N -> Seq(Keys)]
  <2>1. h = [n \in 0..N |-> h[n]]
    BY <1>7
  <2>2. \A n \in 1..N : h[n - 1] \in Seq(Keys) => h[n] \in Seq(Keys)
    BY <1>2, <1>8
  <2> QED BY <1>1, <1>8, <2>1, <2>2, LoopTyped
<1> QED BY <1>3, <1>8, <1>9 DEF N, Turn

(***************************************************************************)
(* KeyDowns, too, is what its loop computes, turn by turn.                 *)
(***************************************************************************)
LEMMA KeyDownsHistory ==
  ASSUME NEW events \in Seq(KeyEvent)
  PROVE  \E h \in [0..Len(events) -> Seq(KeyEvent)] :
           /\ h[0] = <<>>
           /\ \A n \in 1..Len(events) : h[n] = IF events[n].up THEN h[n - 1]
                    ELSE Append(h[n - 1], events[n])
           /\ KeyDowns(events) = h[Len(events)]
<1> DEFINE N == Len(events)
           Turn(acc, n) == IF events[n].up THEN acc
                    ELSE Append(acc, events[n])
           body == [x \in Seq(KeyEvent) \X (1..N) |-> Turn(x[1], x[2])]
           Solves(f) == f = [n \in 0..N |-> IF n = 0 THEN <<>> ELSE Turn(f[n - 1], n)]
           h == CHOOSE f : Solves(f)
<1>1. N \in Nat /\ <<>> \in Seq(KeyEvent)
  OBVIOUS
<1>2. ASSUME NEW acc \in Seq(KeyEvent), NEW n \in 1..N  PROVE Turn(acc, n) \in Seq(KeyEvent)
  <2>1. events[n] \in KeyEvent
    BY ElementOfSeq
  <2>2. Append(acc, events[n]) \in Seq(KeyEvent)
    BY <2>1, AppendProperties
  <2> QED BY <2>2
<1>3. KeyDowns(events) = h[N]
  BY DEF KeyDowns
<1> HIDE DEF N, Turn
<1>4. body \in [Seq(KeyEvent) \X (1..N) -> Seq(KeyEvent)]
  BY <1>2
<1>5. PICK f : IsHistory(f, N, Seq(KeyEvent), <<>>, body)
  <2> HIDE DEF body
  <2> QED BY <1>1, <1>4, LoopHasHistory
<1>6. Solves(f)
  <2>1. f \in [0..N -> Seq(KeyEvent)] /\ f[0] = <<>>
    BY <1>5 DEF IsHistory
  <2>2. ASSUME NEW n \in 1..N  PROVE f[n] = Turn(f[n - 1], n)
    <3>1. n - 1 \in 0..N
      BY <1>1
    <3>2. f[n - 1] \in Seq(KeyEvent)
      BY <2>1, <3>1
    <3> QED BY <3>2, <1>5 DEF IsHistory
  <2> QED BY <1>1, <2>1, <2>2
<1>7. Solves(h)
  <2> HIDE DEF Solves
  <2> QED BY <1>6
<1> HIDE DEF h
<1>8. h[0] = <<>> /\ \A n \in 1..N : h[n] = Turn(h[n - 1], n)
  BY <1>1, <1>7
<1>9. h \in [0..N -> Seq(KeyEvent)]
  <2>1. h = [n \in 0..N |-> h[n]]
    BY <1>7
  <2>2. \A n \in 1..N : h[n - 1] \in Seq(KeyEvent) => h[n] \in Seq(KeyEvent)
    BY <1>2, <1>8
  <2> QED BY <1>1, <1>8, <2>1, <2>2, LoopTyped
<1> QED BY <1>3, <1>8, <1>9 DEF N, Turn

-----------------------------------------------------------------------------
(***************************************************************************)
(* What one more event does to the keys that are down.                     *)
(***************************************************************************)
LEMMA PrefixElements ==
  ASSUME NEW S, NEW events \in Seq(S), NEW n \in 0..Len(events)
  PROVE  /\ Prefix(events, n) \in Seq(S)
         /\ Len(Prefix(events, n)) = n
         /\ \A i \in 1..n : Prefix(events, n)[i] = events[i]
<1>1. \A i \in 1..n : events[i] \in S
  OBVIOUS
<1> QED BY <1>1, SubSeqProperties DEF Prefix

(***************************************************************************)
(* The keys that the first n events of a batch leave down.                 *)
(***************************************************************************)
LEMMA DownAfterPrefix ==
  ASSUME NEW events \in Seq(KeyEvent), NEW n \in 0..Len(events)
  PROVE  DownAfter(Prefix(events, n)) =
           { k \in Keys : \E i \in 1..n :
               /\ events[i] = Press(k)
               /\ \A j \in i..n : events[j] # Lift(k) }
<1> DEFINE s == Prefix(events, n)
<1>1. DOMAIN s = 1..n /\ Len(s) = n /\ \A i \in 1..n : s[i] = events[i]
  BY PrefixElements, LenProperties
<1> HIDE DEF s
<1>2. DownAfter(s) = { k \in Keys : \E i \in 1..n :
               /\ s[i] = Press(k)
               /\ \A j \in i..n : s[j] # Lift(k) }
  BY <1>1 DEF DownAfter
<1>3. \A i \in 1..n : \A j \in i..n : j \in 1..n
  OBVIOUS
<1>4. \A k \in Keys :
        (\E i \in 1..n : s[i] = Press(k) /\ \A j \in i..n : s[j] # Lift(k)) <=>
        (\E i \in 1..n : events[i] = Press(k) /\ \A j \in i..n : events[j] # Lift(k))
  BY <1>1, <1>3
<1> QED BY <1>2, <1>4 DEF s

(***************************************************************************)
(* A press and a release of a key, and that they differ.                   *)
(***************************************************************************)
LEMMA EventFields ==
  \A k : /\ ~Press(k).up /\ Press(k).key = k
         /\ Lift(k).up /\ Lift(k).key = k
BY DEF Press, Lift

LEMMA EventsDiffer ==
  \A k, l : /\ Lift(k) # Press(l) /\ Press(k) # Lift(l)
            /\ Lift(k) = Lift(l) <=> k = l
            /\ Press(k) = Press(l) <=> k = l
<1> TAKE k, l
<1>1. /\ Lift(k).up = TRUE /\ Press(k).up = FALSE
      /\ Lift(l).up = TRUE /\ Press(l).up = FALSE
      /\ Lift(k).key = k /\ Press(k).key = k
      /\ Lift(l).key = l /\ Press(l).key = l
  BY DEF Lift, Press
<1> QED BY <1>1, Zenon

(***************************************************************************)
(* One event more: a press adds its key to those that are down, a release  *)
(* takes it away.                                                          *)
(***************************************************************************)
LEMMA DownAfterNext ==
  ASSUME NEW events \in Seq(KeyEvent), NEW n \in 1..Len(events)
  PROVE  DownAfter(Prefix(events, n)) =
           IF events[n].up THEN DownAfter(Prefix(events, n - 1)) \ {events[n].key}
           ELSE DownAfter(Prefix(events, n - 1)) \cup {events[n].key}
<1> DEFINE Held(k, m) == \E i \in 1..m : /\ events[i] = Press(k)
                                         /\ \A j \in i..m : events[j] # Lift(k)
<1>1. events[n] \in KeyEvent /\ n - 1 \in 0..Len(events)
  BY ElementOfSeq
<1>2. PICK key \in Keys, up \in BOOLEAN : events[n] = [key |-> key, up |-> up]
  BY <1>1 DEF KeyEvent
<1>3. /\ DownAfter(Prefix(events, n)) = {k \in Keys : Held(k, n)}
      /\ DownAfter(Prefix(events, n - 1)) = {k \in Keys : Held(k, n - 1)}
  BY <1>1, DownAfterPrefix
<1>4. ASSUME NEW k \in Keys, events[n] # Lift(k), Held(k, n - 1)  PROVE Held(k, n)
  BY <1>4
<1>5. ASSUME NEW k \in Keys, events[n] # Press(k), Held(k, n)  PROVE Held(k, n - 1)
  BY <1>5
<1>6. ASSUME NEW k \in Keys, events[n] = Lift(k)  PROVE ~Held(k, n)
  BY <1>6
<1>7. ASSUME NEW k \in Keys, events[n] = Press(k)  PROVE Held(k, n)
  BY <1>7, EventsDiffer
<1> HIDE DEF Held
<1>8. CASE up
  <2>1. events[n] = Lift(key)
    BY <1>2, <1>8, Zenon DEF Lift
  <2>2. \A k \in Keys : /\ events[n] = Lift(k) <=> k = key
                        /\ events[n] # Press(k)
    BY <2>1, EventsDiffer
  <2>3. \A k \in Keys : Held(k, n) <=> Held(k, n - 1) /\ k # key
    BY <2>2, <1>4, <1>5, <1>6
  <2>4. events[n].up /\ events[n].key = key
    BY <2>1 DEF Lift
  <2> QED BY <2>3, <2>4, <1>3
<1>9. CASE ~up
  <2>1. events[n] = Press(key)
    BY <1>2, <1>9, Zenon DEF Press
  <2>2. \A k \in Keys : /\ events[n] = Press(k) <=> k = key
                        /\ events[n] # Lift(k)
    BY <2>1, EventsDiffer
  <2>3. \A k \in Keys : Held(k, n) <=> Held(k, n - 1) \/ k = key
    BY <2>2, <1>4, <1>5, <1>7
  <2>4. ~events[n].up /\ events[n].key = key
    BY <2>1 DEF Press
  <2> QED BY <2>3, <2>4, <1>3
<1> QED BY <1>8, <1>9

(***************************************************************************)
(* Before the first event no key is down.                                  *)
(***************************************************************************)
LEMMA NothingDownAtFirst ==
  ASSUME NEW events \in Seq(KeyEvent)
  PROVE  DownAfter(Prefix(events, 0)) = {}
<1>1. 0 \in 0..Len(events)
  OBVIOUS
<1> QED BY <1>1, DownAfterPrefix

(***************************************************************************)
(* A batch that presses only keys that are up.  What the injector finds    *)
(* still pressed is then what is down in the system, each key once.        *)
(***************************************************************************)
PressesOnlyUp(events) ==
  /\ events \in Seq(KeyEvent)
  /\ \A n \in 1..Len(events) :
       ~events[n].up => events[n].key \notin DownAfter(Prefix(events, n - 1))

(***************************************************************************)
(* What _release_synthetic_keys replays is right: the list it finds has    *)
(* each key that is down, once.                                            *)
(***************************************************************************)
LEMMA PressedIsDown ==
  ASSUME NEW events, PressesOnlyUp(events)
  PROVE  /\ Pressed(events) \in Seq(Keys)
         /\ NoRepeat(Pressed(events))
         /\ ToSet(Pressed(events)) = DownAfter(events)
<1> DEFINE N == Len(events)
           D(n) == DownAfter(Prefix(events, n))
<1>1. events \in Seq(KeyEvent) /\ N \in Nat
  BY DEF PressesOnlyUp
<1>2. PICK h \in [0..N -> Seq(Keys)] :
        /\ h[0] = <<>>
        /\ \A n \in 1..N :
             h[n] = IF events[n].up THEN RemoveFirst(h[n - 1], events[n].key)
                    ELSE Append(h[n - 1], events[n].key)
        /\ Pressed(events) = h[N]
  BY <1>1, PressedHistory
<1>3. \A n \in 1..N : events[n] \in KeyEvent
  BY <1>1, ElementOfSeq
<1>4. \A n \in 1..N : ~events[n].up => events[n].key \notin D(n - 1)
  BY DEF PressesOnlyUp
<1>5. \A n \in 1..N : D(n) = IF events[n].up THEN D(n - 1) \ {events[n].key}
                             ELSE D(n - 1) \cup {events[n].key}
  BY <1>1, DownAfterNext
<1>6. D(0) = {}
  BY <1>1, NothingDownAtFirst
<1>7. D(N) = DownAfter(events)
  BY <1>1, SubSeqFull DEF Prefix
<1> DEFINE S == {n \in 0..N : NoRepeat(h[n]) /\ ToSet(h[n]) = D(n)}
<1> HIDE DEF N, D
<1>8. 0 \in S
  BY <1>1, <1>2, <1>6 DEF NoRepeat, ToSet
<1>9. ASSUME NEW n \in 1..N, n - 1 \in S  PROVE n \in S
  <2>1. /\ h[n - 1] \in Seq(Keys)
        /\ NoRepeat(h[n - 1])
        /\ ToSet(h[n - 1]) = D(n - 1)
    BY <1>2, <1>9
  <2> DEFINE k == events[n].key
             before == h[n - 1]
             after == h[n]
  <2>2. k \in Keys
    BY <1>3 DEF KeyEvent
  <2>3. after = IF events[n].up THEN RemoveFirst(before, k) ELSE Append(before, k)
    BY <1>2
  <2>4. D(n) = IF events[n].up THEN D(n - 1) \ {k} ELSE D(n - 1) \cup {k}
    BY <1>5
  <2>5. ~events[n].up => k \notin ToSet(before)
    BY <2>1, <1>4
  <2> HIDE DEF k, before, after
  <2>6. NoRepeat(after) /\ ToSet(after) = D(n)
    <3>1. before \in Seq(Keys) /\ NoRepeat(before) /\ ToSet(before) = D(n - 1)
      BY <2>1 DEF before
    <3>2. CASE events[n].up
      BY <3>1, <3>2, <2>3, <2>4, RemoveFirstRemoves
    <3>3. CASE ~events[n].up
      BY <3>1, <3>3, <2>2, <2>3, <2>4, <2>5, AppendAdds
    <3> QED BY <3>2, <3>3
  <2> QED BY <2>6, <1>1 DEF after
<1> HIDE DEF S
<1>10. N \in S
  <2>1. 0..N \subseteq S
    BY <1>1, <1>8, <1>9, InductionOnTurns
  <2> QED BY <2>1, <1>1
<1> QED BY <1>1, <1>2, <1>7, <1>10 DEF S

-----------------------------------------------------------------------------
(***************************************************************************)
(* FlattenSeq, turn by turn.                                               *)
(***************************************************************************)
LEMMA FlattenHistory ==
  ASSUME NEW A, NEW seqs \in Seq(Seq(A))
  PROVE  \E h \in [0..Len(seqs) -> Seq(A)] :
           /\ h[0] = <<>>
           /\ \A n \in 1..Len(seqs) : h[n] = h[n - 1] \o seqs[n]
           /\ FlattenSeq(seqs) = h[Len(seqs)]
<1> DEFINE N == Len(seqs)
           body == [x \in Seq(A) \X (1..N) |-> x[1] \o seqs[x[2]]]
           Solves(f) == f = [i \in 1..N |-> IF i = 1 THEN seqs[i] ELSE f[i - 1] \o seqs[i]]
           flat == CHOOSE f : Solves(f)
           h == [n \in 0..N |-> IF n = 0 THEN <<>> ELSE flat[n]]
<1>1. N \in Nat /\ <<>> \in Seq(A)
  OBVIOUS
<1>2. \A n \in 1..N : seqs[n] \in Seq(A)
  BY ElementOfSeq
<1>3. FlattenSeq(seqs) = h[N]
  <2>1. CASE N = 0
    <3>1. seqs = <<>>
      BY <2>1, EmptySeq
    <3>2. FlattenSeq(seqs) = seqs
      BY <2>1 DEF FlattenSeq
    <3> QED BY <2>1, <3>1, <3>2
  <2>2. CASE N # 0
    <3>1. FlattenSeq(seqs) = flat[N]
      BY <2>2 DEF FlattenSeq
    <3> QED BY <2>2, <3>1, <1>1
  <2> QED BY <2>1, <2>2
<1> HIDE DEF N
<1>4. ASSUME NEW acc \in Seq(A), NEW n \in 1..N  PROVE acc \o seqs[n] \in Seq(A)
  BY <1>2, ConcatProperties
<1>5. body \in [Seq(A) \X (1..N) -> Seq(A)]
  BY <1>4
<1>6. PICK g : IsHistory(g, N, Seq(A), <<>>, body)
  <2> HIDE DEF body
  <2> QED BY <1>1, <1>5, LoopHasHistory
<1>7. \E f : Solves(f)
  <2> DEFINE f == [i \in 1..N |-> g[i]]
  <2>1. g \in [0..N -> Seq(A)] /\ g[0] = <<>>
    BY <1>6 DEF IsHistory
  <2>2. ASSUME NEW n \in 1..N  PROVE g[n] = g[n - 1] \o seqs[n]
    <3>1. n - 1 \in 0..N
      BY <1>1
    <3>2. g[n - 1] \in Seq(A)
      BY <2>1, <3>1
    <3> QED BY <3>2, <1>6 DEF IsHistory
  <2>3. ASSUME NEW n \in 1..N
        PROVE  f[n] = IF n = 1 THEN seqs[n] ELSE f[n - 1] \o seqs[n]
    <3>1. CASE n = 1
      <4>1. g[1] = <<>> \o seqs[1]
        <5>1. 1 \in 1..N /\ 1 - 1 = 0
          BY <3>1
        <5>2. g[1] = g[1 - 1] \o seqs[1]
          BY <5>1, <2>2
        <5> QED BY <5>1, <5>2, <2>1
      <4>2. seqs[1] \in Seq(A)
        BY <1>2, <3>1
      <4> QED BY <3>1, <4>1, <4>2, ConcatEmptySeq
    <3>2. CASE n # 1
      <4>1. n - 1 \in 1..N
        BY <3>2, <1>1
      <4> QED BY <4>1, <3>2, <2>2
    <3> QED BY <3>1, <3>2
  <2>4. Solves(f)
    BY <2>3
  <2> HIDE DEF f, Solves
  <2> QED BY <2>4
<1>8. Solves(flat)
  <2> HIDE DEF Solves
  <2> QED BY <1>7
<1> HIDE DEF flat
<1>9. h[0] = <<>> /\ \A n \in 1..N : h[n] = h[n - 1] \o seqs[n]
  <2>1. h[0] = <<>>
    BY <1>1
  <2>2. ASSUME NEW n \in 1..N  PROVE h[n] = h[n - 1] \o seqs[n]
    <3>1. h[n] = flat[n]
      OBVIOUS
    <3>2. CASE n = 1
      <4>1. flat[1] = seqs[1] /\ h[1 - 1] = <<>>
        <5>1. 1 \in 1..N /\ 1 - 1 = 0
          BY <3>2
        <5> QED BY <5>1, <2>1, <1>8
      <4>2. seqs[1] \in Seq(A)
        BY <1>2, <3>2
      <4> HIDE DEF h
      <4> QED BY <3>1, <3>2, <4>1, <4>2, ConcatEmptySeq
    <3>3. CASE n # 1
      <4>1. h[n - 1] = flat[n - 1]
        BY <3>3, <1>1
      <4>2. flat[n] = flat[n - 1] \o seqs[n]
        BY <3>3, <1>8
      <4> QED BY <3>1, <4>1, <4>2
    <3> QED BY <3>2, <3>3
  <2> QED BY <2>1, <2>2
<1>10. h \in [0..N -> Seq(A)]
  <2>1. h = [n \in 0..N |-> h[n]]
    OBVIOUS
  <2> HIDE DEF h
  <2>2. \A n \in 1..N : h[n - 1] \in Seq(A) => h[n] \in Seq(A)
    BY <1>4, <1>9
  <2> QED BY <1>1, <1>9, <2>1, <2>2, LoopTyped
<1> HIDE DEF h
<1> QED BY <1>3, <1>9, <1>10 DEF N

(***************************************************************************)
(* The sequences of a list put one after the other are of the same kind.   *)
(***************************************************************************)
LEMMA FlattenTyped ==
  ASSUME NEW A, NEW seqs \in Seq(Seq(A))
  PROVE  FlattenSeq(seqs) \in Seq(A)
<1>1. Len(seqs) \in 0..Len(seqs)
  OBVIOUS
<1>2. PICK h \in [0..Len(seqs) -> Seq(A)] : FlattenSeq(seqs) = h[Len(seqs)]
  BY FlattenHistory
<1> QED BY <1>1, <1>2

-----------------------------------------------------------------------------
(***************************************************************************)
(* The events of a text: for each code unit a press and its key-up.        *)
(***************************************************************************)
LEMMA UnitsTyped ==
  ASSUME NEW text \in SeqOf(Chars, MaxChars)
  PROVE  _utf16_code_units(text) \in Seq(Units)
<1> DEFINE beforeLf(i) == i < Len(text) /\ text[i + 1] = "lf"
           units(i) == CASE text[i] = "astral" -> <<"high", "low">>
                         [] text[i] = "cr" -> IF beforeLf(i) THEN <<>> ELSE <<"lf">>
                         [] OTHER -> <<text[i]>>
           seqs == [i \in DOMAIN text |-> units(i)]
<1>1. PICK m \in 0..MaxChars : text \in [1..m -> Chars]
  BY DEF SeqOf
<1>2. m \in Nat /\ DOMAIN text = 1..m
  BY <1>1, InjectorAssumption
<1>3. ASSUME NEW i \in 1..m  PROVE units(i) \in Seq(Units)
  <2>1. text[i] \in Chars
    BY <1>1
  <2>2. <<"high", "low">> \in Seq(Units) /\ <<"lf">> \in Seq(Units) /\ <<>> \in Seq(Units)
    BY DEF Units
  <2>3. ASSUME text[i] # "astral", text[i] # "cr"  PROVE <<text[i]>> \in Seq(Units)
    <3>1. text[i] \in Units
      BY <2>1, <2>3 DEF Chars, Units
    <3> QED BY <3>1
  <2> HIDE DEF beforeLf
  <2> QED BY <2>2, <2>3
<1> HIDE DEF units
<1>4. seqs \in [1..m -> Seq(Units)]
  BY <1>2, <1>3
<1>5. seqs \in Seq(Seq(Units))
  BY <1>2, <1>4
<1>6. _utf16_code_units(text) = FlattenSeq(seqs)
  BY DEF _utf16_code_units, units
<1> HIDE DEF seqs
<1> QED BY <1>5, <1>6, FlattenTyped

(***************************************************************************)
(* The events of a text: a press and a release of each code unit in turn.  *)
(***************************************************************************)
LEMMA UnicodeEventsAlternate ==
  ASSUME NEW units \in Seq(Units), NEW events,
         events = FlattenSeq([i \in DOMAIN units |-> <<Press(units[i]), Lift(units[i])>>])
  PROVE  /\ events \in Seq(KeyEvent)
         /\ Len(events) = 2 * Len(units)
         /\ \A j \in 1..Len(units) : /\ events[2 * j - 1] = Press(units[j])
                                     /\ events[2 * j] = Lift(units[j])
<1> DEFINE N == Len(units)
           pairs == [i \in DOMAIN units |-> <<Press(units[i]), Lift(units[i])>>]
<1>1. N \in Nat /\ DOMAIN units = 1..N /\ \A i \in 1..N : units[i] \in Units
  BY LenProperties, ElementOfSeq
<1>2. \A k \in Units : Press(k) \in KeyEvent /\ Lift(k) \in KeyEvent
  BY DEF Press, Lift, KeyEvent, Keys
<1>3. \A i \in 1..N : <<Press(units[i]), Lift(units[i])>> \in Seq(KeyEvent)
  BY <1>1, <1>2
<1> HIDE DEF N
<1>4. /\ pairs \in Seq(Seq(KeyEvent)) /\ Len(pairs) = N
      /\ \A i \in 1..N : pairs[i] = <<Press(units[i]), Lift(units[i])>>
  <2>1. pairs \in [1..N -> Seq(KeyEvent)]
    BY <1>1, <1>3
  <2>2. \A i \in 1..N : pairs[i] = <<Press(units[i]), Lift(units[i])>>
    BY <1>1
  <2> HIDE DEF pairs
  <2>3. pairs \in Seq(Seq(KeyEvent)) /\ Len(pairs) = N
    BY <2>1, <1>1
  <2> QED BY <2>2, <2>3
<1>5. events = FlattenSeq(pairs)
  OBVIOUS
<1> HIDE DEF pairs
<1>6. PICK h \in [0..N -> Seq(KeyEvent)] :
        /\ h[0] = <<>>
        /\ \A n \in 1..N : h[n] = h[n - 1] \o pairs[n]
        /\ events = h[N]
  BY <1>4, <1>5, FlattenHistory
<1> DEFINE Typed(n) == /\ Len(h[n]) = 2 * n
                       /\ \A j \in 1..n : /\ h[n][2 * j - 1] = Press(units[j])
                                          /\ h[n][2 * j] = Lift(units[j])
           S == {n \in 0..N : Typed(n)}
<1>7. 0 \in S
  BY <1>1, <1>6
<1>8. ASSUME NEW n \in 1..N, n - 1 \in S  PROVE n \in S
  <2> DEFINE before == h[n - 1]
             p == Press(units[n])
             l == Lift(units[n])
             after == before \o <<p, l>>
  <2>1. before \in Seq(KeyEvent) /\ Typed(n - 1)
    BY <1>1, <1>6, <1>8
  <2>2. p \in KeyEvent /\ l \in KeyEvent
    BY <1>1, <1>2
  <2>3. h[n] = after
    BY <1>4, <1>6
  <2>4. Len(before) = 2 * (n - 1)
    BY <2>1
  <2>5. \A j \in 1..(n - 1) : /\ before[2 * j - 1] = Press(units[j])
                              /\ before[2 * j] = Lift(units[j])
    BY <2>1
  <2> HIDE DEF before, p, l
  <2>6. /\ Len(after) = Len(before) + 2
        /\ \A i \in 1..Len(before) : after[i] = before[i]
        /\ after[Len(before) + 1] = p
        /\ after[Len(before) + 2] = l
    BY <2>1, <2>2
  <2> HIDE DEF after
  <2>7. Len(after) = 2 * n /\ after[2 * n - 1] = p /\ after[2 * n] = l
    <3>1. 2 * (n - 1) + 2 = 2 * n /\ 2 * (n - 1) + 1 = 2 * n - 1
      BY <1>1
    <3> QED BY <3>1, <2>4, <2>6
  <2>8. ASSUME NEW j \in 1..(n - 1)
        PROVE  after[2 * j - 1] = Press(units[j]) /\ after[2 * j] = Lift(units[j])
    <3>1. 2 * j - 1 \in 1..(2 * (n - 1)) /\ 2 * j \in 1..(2 * (n - 1))
      BY <1>1
    <3> QED BY <3>1, <2>4, <2>5, <2>6
  <2>9. Typed(n)
    <3>1. \A j \in 1..n : j \in 1..(n - 1) \/ j = n
      BY <1>1
    <3> QED BY <3>1, <2>3, <2>7, <2>8 DEF p, l
  <2> QED BY <2>9, <1>1
<1> HIDE DEF S
<1>9. N \in S
  <2>1. 0..N \subseteq S
    BY <1>1, <1>7, <1>8, InductionOnTurns
  <2> QED BY <2>1, <1>1
<1>10. Typed(N) /\ h[N] \in Seq(KeyEvent)
  BY <1>1, <1>9 DEF S
<1> QED BY <1>6, <1>10 DEF N

(***************************************************************************)
(* Such events press a key only when it is up, and leave none down.        *)
(***************************************************************************)
LEMMA AlternatingIsClean ==
  ASSUME NEW units \in Seq(Units), NEW events \in Seq(KeyEvent),
         Len(events) = 2 * Len(units),
         \A j \in 1..Len(units) : /\ events[2 * j - 1] = Press(units[j])
                                  /\ events[2 * j] = Lift(units[j])
  PROVE  PressesOnlyUp(events) /\ DownAfter(events) = {}
<1> DEFINE N == Len(units)
           D(n) == DownAfter(Prefix(events, n))
           S == {j \in 0..N : D(2 * j) = {}}
<1>1. N \in Nat
  BY LenProperties
<1>2. D(0) = {} /\ D(2 * N) = DownAfter(events)
  BY NothingDownAtFirst, SubSeqFull DEF Prefix
<1>3. \A n \in 1..(2 * N) : D(n) = IF events[n].up THEN D(n - 1) \ {events[n].key}
                                   ELSE D(n - 1) \cup {events[n].key}
  BY DownAfterNext
<1>4. \A j \in 1..N : /\ events[2 * j - 1] = Press(units[j])
                      /\ events[2 * j] = Lift(units[j])
  OBVIOUS
<1> HIDE DEF N, D
<1>5. 0 \in S
  BY <1>1, <1>2
<1>6. ASSUME NEW j \in 1..N, j - 1 \in S  PROVE j \in S
  <2>1. D(2 * (j - 1)) = {}
    BY <1>6
  <2>2. /\ 2 * j - 1 \in 1..(2 * N) /\ (2 * j - 1) - 1 = 2 * (j - 1)
        /\ 2 * j \in 1..(2 * N) /\ (2 * j) - 1 = 2 * j - 1
    BY <1>1
  <2>3. /\ ~events[2 * j - 1].up /\ events[2 * j - 1].key = units[j]
        /\ events[2 * j].up /\ events[2 * j].key = units[j]
    <3>1. events[2 * j - 1] = Press(units[j]) /\ events[2 * j] = Lift(units[j])
      BY <1>4
    <3> QED BY <3>1, EventFields
  <2>4. D(2 * j - 1) = {units[j]}
    BY <2>1, <2>2, <2>3, <1>3
  <2>5. D(2 * j) = {}
    BY <2>2, <2>3, <2>4, <1>3
  <2> QED BY <2>5, <1>1
<1> HIDE DEF S
<1>7. 0..N \subseteq S
  BY <1>1, <1>5, <1>6, InductionOnTurns
<1>8. \A j \in 0..N : D(2 * j) = {}
  BY <1>7 DEF S
<1>9. ASSUME NEW n \in 1..(2 * N), ~events[n].up  PROVE D(n - 1) = {}
  <2>1. PICK j \in 1..N : n = 2 * j - 1 \/ n = 2 * j
    <3> DEFINE half == (n + 1) \div 2
    <3>1. half \in Int /\ (n + 1 = 2 * half \/ n + 1 = 2 * half + 1)
      BY <1>1
    <3> HIDE DEF half
    <3>2. half \in 1..N /\ (n = 2 * half - 1 \/ n = 2 * half)
      BY <3>1, <1>1
    <3> QED BY <3>2
  <2>2. n # 2 * j
    <3>1. events[2 * j] = Lift(units[j])
      BY <1>4
    <3> QED BY <3>1, <1>9, EventFields
  <2>3. n - 1 = 2 * (j - 1) /\ j - 1 \in 0..N
    BY <2>1, <2>2, <1>1
  <2> QED BY <2>3, <1>8
<1>10. DownAfter(events) = {}
  <2>1. N \in 0..N
    BY <1>1
  <2> QED BY <2>1, <1>2, <1>8
<1> QED BY <1>9, <1>10 DEF PressesOnlyUp, D, N

(***************************************************************************)
(* So do the four events of Ctrl+V.                                        *)
(***************************************************************************)
LEMMA PasteIsClean ==
  PasteEvents \in Seq(KeyEvent) /\ PressesOnlyUp(PasteEvents) /\ DownAfter(PasteEvents) = {}
<1> DEFINE E == PasteEvents
           D(n) == DownAfter(Prefix(E, n))
<1>1. E \in Seq(KeyEvent) /\ Len(E) = 4
  BY DEF PasteEvents, KeyEvent, Press, Lift, Keys
<1>2. E[1] = Press("ctrl") /\ E[2] = Press("v") /\ E[3] = Lift("v") /\ E[4] = Lift("ctrl")
  BY DEF PasteEvents
<1>3. /\ ~E[1].up /\ E[1].key = "ctrl" /\ ~E[2].up /\ E[2].key = "v"
      /\ E[3].up /\ E[3].key = "v" /\ E[4].up /\ E[4].key = "ctrl"
  BY <1>2, EventFields
<1>4. \A n \in 1..4 : D(n) = IF E[n].up THEN D(n - 1) \ {E[n].key}
                             ELSE D(n - 1) \cup {E[n].key}
  BY <1>1, DownAfterNext
<1>5. D(0) = {} /\ D(4) = DownAfter(E)
  BY <1>1, NothingDownAtFirst, SubSeqFull DEF Prefix
<1> HIDE DEF E, D
<1>6. D(1) = {"ctrl"}
  <2>1. D(1) = IF E[1].up THEN D(0) \ {E[1].key} ELSE D(0) \cup {E[1].key}
    BY <1>4
  <2> QED BY <2>1, <1>3, <1>5
<1>7. D(2) = {"ctrl", "v"}
  <2>1. D(2) = IF E[2].up THEN D(1) \ {E[2].key} ELSE D(1) \cup {E[2].key}
    BY <1>4
  <2> QED BY <2>1, <1>3, <1>6
<1>8. D(3) = {"ctrl"}
  <2>1. D(3) = IF E[3].up THEN D(2) \ {E[3].key} ELSE D(2) \cup {E[3].key}
    BY <1>4
  <2> QED BY <2>1, <1>3, <1>7
<1>9. D(4) = {}
  <2>1. D(4) = IF E[4].up THEN D(3) \ {E[4].key} ELSE D(3) \cup {E[4].key}
    BY <1>4
  <2> QED BY <2>1, <1>3, <1>8
<1>10. \A n \in 1..4 : ~E[n].up => E[n].key \notin D(n - 1)
  <2>1. E[1].key \notin D(1 - 1)
    BY <1>3, <1>5
  <2>2. E[2].key \notin D(2 - 1)
    BY <1>3, <1>6
  <2>3. \A n \in 1..4 : n = 1 \/ n = 2 \/ n = 3 \/ n = 4
    OBVIOUS
  <2> QED BY <2>1, <2>2, <2>3, <1>3
<1> QED BY <1>1, <1>5, <1>9, <1>10 DEF PressesOnlyUp, E, D

(***************************************************************************)
(* Every batch the injector sends presses only keys that are up and leaves *)
(* none down when it goes through as a whole.                              *)
(***************************************************************************)
LEMMA BatchIsClean ==
  ASSUME NEW events \in Batches \cup {<<>>}
  PROVE  /\ events \in Seq(KeyEvent)
         /\ PressesOnlyUp(events)
         /\ DownAfter(events) = {}
<1>1. CASE events = <<>>
  <2>1. events \in Seq(KeyEvent) /\ Len(events) = 0
    BY <1>1
  <2> QED BY <1>1, <2>1 DEF PressesOnlyUp, DownAfter
<1>2. CASE events = PasteEvents
  BY <1>2, PasteIsClean
<1>3. ASSUME NEW text \in SeqOf(Chars, MaxChars), events = UnicodeEvents(text)
      PROVE  PressesOnlyUp(events) /\ DownAfter(events) = {}
  <2> DEFINE units == _utf16_code_units(text)
  <2>1. units \in Seq(Units)
    BY UnitsTyped
  <2>2. events = FlattenSeq([i \in DOMAIN units |-> <<Press(units[i]), Lift(units[i])>>])
    BY <1>3 DEF UnicodeEvents
  <2> HIDE DEF units
  <2>3. /\ events \in Seq(KeyEvent)
        /\ Len(events) = 2 * Len(units)
        /\ \A j \in 1..Len(units) : /\ events[2 * j - 1] = Press(units[j])
                                    /\ events[2 * j] = Lift(units[j])
    BY <2>1, <2>2, UnicodeEventsAlternate
  <2> QED BY <2>1, <2>3, AlternatingIsClean
<1>4. events = <<>> \/ events = PasteEvents \/ \E text \in SeqOf(Chars, MaxChars) : events = UnicodeEvents(text)
  BY DEF Batches
<1>5. PressesOnlyUp(events) /\ DownAfter(events) = {}
  BY <1>1, <1>2, <1>3, <1>4
<1> QED BY <1>5 DEF PressesOnlyUp

(***************************************************************************)
(* The events before a failure press a key only when it is up, as well.    *)
(***************************************************************************)
LEMMA PrefixIsClean ==
  ASSUME NEW events, PressesOnlyUp(events), NEW n \in 0..Len(events)
  PROVE  PressesOnlyUp(Prefix(events, n))
<1> DEFINE s == Prefix(events, n)
<1>1. events \in Seq(KeyEvent)
  BY DEF PressesOnlyUp
<1>2. s \in Seq(KeyEvent) /\ Len(s) = n /\ \A i \in 1..n : s[i] = events[i]
  BY <1>1, PrefixElements
<1> HIDE DEF s
<1>3. ASSUME NEW m \in 1..n, ~s[m].up
      PROVE  s[m].key \notin DownAfter(Prefix(s, m - 1))
  <2>1. m - 1 \in 0..Len(s) /\ m - 1 \in 0..Len(events)
        /\ m \in 1..Len(events)
    BY <1>2
  <2>2. Prefix(s, m - 1) = Prefix(events, m - 1)
    <3>1. /\ Prefix(s, m - 1) \in Seq(KeyEvent)
          /\ Len(Prefix(s, m - 1)) = m - 1
          /\ \A i \in 1..(m - 1) : Prefix(s, m - 1)[i] = s[i]
      BY <1>2, <2>1, PrefixElements
    <3>2. /\ Prefix(events, m - 1) \in Seq(KeyEvent)
          /\ Len(Prefix(events, m - 1)) = m - 1
          /\ \A i \in 1..(m - 1) : Prefix(events, m - 1)[i] = events[i]
      BY <1>1, <2>1, PrefixElements
    <3>3. \A i \in 1..(m - 1) : s[i] = events[i]
      BY <1>2
    <3> QED BY <3>1, <3>2, <3>3, SeqEqual
  <2>3. s[m] = events[m]
    BY <1>2
  <2> QED BY <2>1, <2>2, <2>3, <1>3 DEF PressesOnlyUp
<1> QED BY <1>2, <1>3 DEF PressesOnlyUp, s

-----------------------------------------------------------------------------
(***************************************************************************)
(* After a send that raised, the presses of the whole batch are released:  *)
(* among them is every key that any prefix of it left down.                *)
(***************************************************************************)
LEMMA KeyDownsAreThePresses ==
  ASSUME NEW events \in Seq(KeyEvent)
  PROVE  /\ KeyDowns(events) \in Seq(KeyEvent)
         /\ ToSet(KeyDowns(events)) = {e \in ToSet(events) : ~e.up}
<1> DEFINE N == Len(events)
           Downs(n) == {events[i] : i \in {j \in 1..n : ~events[j].up}}
<1>1. N \in Nat /\ DOMAIN events = 1..N /\ \A i \in 1..N : events[i] \in KeyEvent
  BY LenProperties, ElementOfSeq
<1>2. PICK h \in [0..N -> Seq(KeyEvent)] :
        /\ h[0] = <<>>
        /\ \A n \in 1..N : h[n] = IF events[n].up THEN h[n - 1]
                                  ELSE Append(h[n - 1], events[n])
        /\ KeyDowns(events) = h[N]
  BY KeyDownsHistory
<1> DEFINE S == {n \in 0..N : ToSet(h[n]) = Downs(n)}
<1> HIDE DEF N
<1>3. 0 \in S
  BY <1>1, <1>2 DEF ToSet
<1>4. ASSUME NEW n \in 1..N, n - 1 \in S  PROVE n \in S
  <2> DEFINE before == h[n - 1]
             after == h[n]
             e == events[n]
  <2>1. before \in Seq(KeyEvent) /\ ToSet(before) = Downs(n - 1) /\ e \in KeyEvent
    BY <1>1, <1>2, <1>4
  <2>2. after = IF e.up THEN before ELSE Append(before, e)
    BY <1>2
  <2>3. Downs(n) = IF e.up THEN Downs(n - 1) ELSE Downs(n - 1) \cup {e}
    <3>1. 1..n = 1..(n - 1) \cup {n}
      BY <1>1
    <3> QED BY <3>1
  <2> HIDE DEF before, after, e, Downs
  <2>4. ToSet(Append(before, e)) = ToSet(before) \cup {e}
    BY <2>1, AppendAdds
  <2>5. ToSet(after) = Downs(n)
    BY <2>1, <2>2, <2>3, <2>4, Zenon
  <2> QED BY <2>5, <1>1 DEF after
<1> HIDE DEF S
<1>5. N \in S
  <2>1. 0..N \subseteq S
    BY <1>1, <1>3, <1>4, InductionOnTurns
  <2> QED BY <2>1, <1>1
<1>6. ToSet(h[N]) = Downs(N) /\ h[N] \in Seq(KeyEvent)
  BY <1>1, <1>2, <1>5 DEF S
<1>7. Downs(N) = {e \in ToSet(events) : ~e.up}
  BY <1>1 DEF ToSet
<1> QED BY <1>2, <1>6, <1>7

(***************************************************************************)
(* Of a list of presses alone every key stays down.                        *)
(***************************************************************************)
LEMMA PressesStayPressed ==
  ASSUME NEW events \in Seq(KeyEvent), \A e \in ToSet(events) : ~e.up
  PROVE  /\ Pressed(events) \in Seq(Keys)
         /\ ToSet(Pressed(events)) = {e.key : e \in ToSet(events)}
<1> DEFINE N == Len(events)
           Ks(n) == {events[i].key : i \in 1..n}
<1>1. N \in Nat /\ DOMAIN events = 1..N
      /\ \A i \in 1..N : events[i] \in KeyEvent /\ ~events[i].up
  BY LenProperties, ElementOfSeq DEF ToSet
<1>2. PICK h \in [0..N -> Seq(Keys)] :
        /\ h[0] = <<>>
        /\ \A n \in 1..N :
             h[n] = IF events[n].up THEN RemoveFirst(h[n - 1], events[n].key)
                    ELSE Append(h[n - 1], events[n].key)
        /\ Pressed(events) = h[N]
  BY PressedHistory
<1> DEFINE S == {n \in 0..N : ToSet(h[n]) = Ks(n)}
<1> HIDE DEF N
<1>3. 0 \in S
  BY <1>1, <1>2 DEF ToSet
<1>4. ASSUME NEW n \in 1..N, n - 1 \in S  PROVE n \in S
  <2> DEFINE before == h[n - 1]
             after == h[n]
             k == events[n].key
  <2>1. before \in Seq(Keys) /\ ToSet(before) = Ks(n - 1) /\ k \in Keys
    BY <1>1, <1>2, <1>4 DEF KeyEvent
  <2>2. after = Append(before, k)
    BY <1>1, <1>2
  <2>3. Ks(n) = Ks(n - 1) \cup {k}
    <3>1. 1..n = 1..(n - 1) \cup {n}
      BY <1>1
    <3> QED BY <3>1
  <2> HIDE DEF before, after, k, Ks
  <2>4. ToSet(after) = Ks(n)
    BY <2>1, <2>2, <2>3, AppendAdds
  <2> QED BY <2>4, <1>1 DEF after
<1> HIDE DEF S
<1>5. N \in S
  <2>1. 0..N \subseteq S
    BY <1>1, <1>3, <1>4, InductionOnTurns
  <2> QED BY <2>1, <1>1
<1>6. ToSet(h[N]) = Ks(N) /\ h[N] \in Seq(Keys)
  BY <1>1, <1>2, <1>5 DEF S
<1>7. Ks(N) = {e.key : e \in ToSet(events)}
  BY <1>1 DEF ToSet
<1> QED BY <1>2, <1>6, <1>7

(***************************************************************************)
(* Taking all presses of a batch for done, which the code does when        *)
(* SendInput raised, covers whatever part of it was done.                  *)
(***************************************************************************)
LEMMA AllPressesCoverPrefix ==
  ASSUME NEW events \in Seq(KeyEvent), NEW n \in 0..Len(events)
  PROVE  /\ Pressed(KeyDowns(events)) \in Seq(Keys)
         /\ DownAfter(Prefix(events, n)) \subseteq ToSet(Pressed(KeyDowns(events)))
<1>1. /\ KeyDowns(events) \in Seq(KeyEvent)
      /\ ToSet(KeyDowns(events)) = {e \in ToSet(events) : ~e.up}
  BY KeyDownsAreThePresses
<1>2. /\ Pressed(KeyDowns(events)) \in Seq(Keys)
      /\ ToSet(Pressed(KeyDowns(events))) = {e.key : e \in {f \in ToSet(events) : ~f.up}}
  BY <1>1, PressesStayPressed
<1>3. ASSUME NEW k \in DownAfter(Prefix(events, n))
      PROVE  \E e \in ToSet(events) : ~e.up /\ e.key = k
  <2>1. PICK i \in 1..n : events[i] = Press(k)
    BY DownAfterPrefix
  <2>2. i \in DOMAIN events
    BY LenProperties
  <2>3. events[i] \in ToSet(events)
    BY <2>2 DEF ToSet
  <2> QED BY <2>1, <2>3, EventFields
<1> QED BY <1>2, <1>3

(***************************************************************************)
(* The keys in the order of their release are the same keys.               *)
(***************************************************************************)
LEMMA ReverseElements ==
  ASSUME NEW S, NEW s \in Seq(S)
  PROVE  /\ Reverse(s) \in Seq(S)
         /\ ToSet(Reverse(s)) = ToSet(s)
         /\ NoRepeat(s) => NoRepeat(Reverse(s))
<1> DEFINE n == Len(s)
           r == Reverse(s)
<1>1. n \in Nat /\ DOMAIN s = 1..n /\ \A i \in 1..n : s[i] \in S
  BY LenProperties, ElementOfSeq
<1>2. r = [i \in 1..n |-> s[(n - i) + 1]]
  BY DEF Reverse
<1> HIDE DEF n, r
<1>3. \A i \in 1..n : (n - i) + 1 \in 1..n /\ (n - ((n - i) + 1)) + 1 = i
  BY <1>1
<1>4. r \in [1..n -> S] /\ DOMAIN r = 1..n
  BY <1>1, <1>2, <1>3
<1>5. r \in Seq(S)
  BY <1>1, <1>4
<1>6. ToSet(r) = ToSet(s)
  BY <1>1, <1>2, <1>3, <1>4 DEF ToSet
<1>7. ASSUME NoRepeat(s)  PROVE NoRepeat(r)
  <2>1. ASSUME NEW i \in 1..n, NEW j \in 1..n, r[i] = r[j]  PROVE i = j
    <3>1. (n - i) + 1 = (n - j) + 1
      BY <1>1, <1>2, <1>3, <1>7, <2>1 DEF NoRepeat
    <3> QED BY <3>1, <1>1
  <2> QED BY <2>1, <1>4 DEF NoRepeat
<1> QED BY <1>5, <1>6, <1>7 DEF r

(***************************************************************************)
(* The next key to release, and the others.                                *)
(***************************************************************************)
LEMMA HeadAndTail ==
  ASSUME NEW S, NEW s \in Seq(S), s # <<>>
  PROVE  /\ Head(s) \in S /\ Tail(s) \in Seq(S)
         /\ ToSet(s) = {Head(s)} \cup ToSet(Tail(s))
         /\ NoRepeat(s) => NoRepeat(Tail(s)) /\ Head(s) \notin ToSet(Tail(s))
<1> DEFINE n == Len(s)
           t == Tail(s)
<1>1. n \in Nat \ {0} /\ DOMAIN s = 1..n /\ \A i \in 1..n : s[i] \in S
  BY LenProperties, ElementOfSeq
<1>2. /\ Head(s) = s[1] /\ t \in Seq(S) /\ Len(t) = n - 1
      /\ \A i \in 1..(n - 1) : t[i] = s[i + 1]
  BY HeadTailProperties
<1>3. DOMAIN t = 1..(n - 1)
  BY <1>2, LenProperties
<1> HIDE DEF n, t
<1>4. \A i \in 1..(n - 1) : i + 1 \in 1..n /\ i + 1 # 1
  BY <1>1
<1>5. ToSet(s) = {s[1]} \cup ToSet(t)
  <2>1. ASSUME NEW i \in 1..n  PROVE s[i] \in {s[1]} \cup ToSet(t)
    <3>1. CASE i = 1
      BY <3>1
    <3>2. CASE i # 1
      <4>1. i - 1 \in 1..(n - 1) /\ (i - 1) + 1 = i
        BY <3>2, <1>1
      <4>2. s[i] = t[i - 1]
        BY <4>1, <1>2
      <4> QED BY <4>1, <4>2, <1>3 DEF ToSet
    <3> QED BY <3>1, <3>2
  <2>2. ASSUME NEW i \in 1..(n - 1)  PROVE t[i] \in ToSet(s)
    <3>1. t[i] = s[i + 1] /\ i + 1 \in 1..n
      BY <1>2, <1>4
    <3> QED BY <3>1, <1>1 DEF ToSet
  <2>3. s[1] \in ToSet(s)
    <3>1. 1 \in 1..n
      BY <1>1
    <3> QED BY <3>1, <1>1 DEF ToSet
  <2>4. ToSet(t) \subseteq ToSet(s)
    BY <2>2, <1>3 DEF ToSet
  <2>5. ToSet(s) \subseteq {s[1]} \cup ToSet(t)
    <3>1. \A x \in ToSet(s) : \E i \in 1..n : x = s[i]
      BY <1>1 DEF ToSet
    <3> QED BY <2>1, <3>1
  <2> QED BY <2>3, <2>4, <2>5
<1>6. ASSUME NoRepeat(s)  PROVE NoRepeat(t) /\ s[1] \notin ToSet(t)
  <2>1. 1 \in 1..n
    BY <1>1
  <2>2. \A i \in 1..(n - 1) : s[i + 1] # s[1]
    BY <1>4, <2>1, <1>1, <1>6 DEF NoRepeat
  <2>3. s[1] \notin ToSet(t)
    BY <2>2, <1>2, <1>3 DEF ToSet
  <2>4. ASSUME NEW i \in 1..(n - 1), NEW j \in 1..(n - 1), t[i] = t[j]  PROVE i = j
    <3>1. t[i] = s[i + 1] /\ t[j] = s[j + 1]
      BY <1>2
    <3>2. i + 1 \in 1..n /\ j + 1 \in 1..n /\ s[i + 1] = s[j + 1]
      BY <3>1, <2>4, <1>4
    <3>3. i + 1 = j + 1
      BY <3>2, <1>1, <1>6 DEF NoRepeat
    <3> QED BY <3>3, <1>1
  <2> QED BY <2>3, <2>4, <1>3 DEF NoRepeat
<1> QED BY <1>1, <1>2, <1>5, <1>6 DEF t

(***************************************************************************)
(* What a send leaves behind, whatever prefix of the batch went through,   *)
(* against the keys that the cleanup is about to release.                  *)
(***************************************************************************)
LEMMA CleanupKnowsWhatIsDown ==
  ASSUME NEW events \in Batches \cup {<<>>}, NEW prefix \in send(events)
  PROVE  /\ DownAfter(prefix) \subseteq Keys
         /\ Reverse(Pressed(prefix)) \in Seq(Keys)
         /\ NoRepeat(Reverse(Pressed(prefix)))
         /\ ToSet(Reverse(Pressed(prefix))) = DownAfter(prefix)
         /\ Reverse(Pressed(KeyDowns(events))) \in Seq(Keys)
         /\ DownAfter(prefix) \subseteq ToSet(Reverse(Pressed(KeyDowns(events))))
<1>1. events \in Seq(KeyEvent) /\ PressesOnlyUp(events)
  BY BatchIsClean
<1>2. PICK n \in 0..Len(events) : prefix = Prefix(events, n)
  BY DEF send, Prefix
<1>3. PressesOnlyUp(prefix)
  BY <1>1, <1>2, PrefixIsClean
<1>4. /\ Pressed(prefix) \in Seq(Keys)
      /\ NoRepeat(Pressed(prefix))
      /\ ToSet(Pressed(prefix)) = DownAfter(prefix)
  BY <1>3, PressedIsDown
<1>5. /\ Pressed(KeyDowns(events)) \in Seq(Keys)
      /\ DownAfter(prefix) \subseteq ToSet(Pressed(KeyDowns(events)))
  BY <1>1, <1>2, AllPressesCoverPrefix
<1>6. DownAfter(prefix) \subseteq Keys
  BY DEF DownAfter
<1> QED BY <1>4, <1>5, <1>6, ReverseElements

-----------------------------------------------------------------------------
(***************************************************************************)
(* The inductive invariant: a call that goes on found the injector sound   *)
(* and the keyboard clean.                                                 *)
(***************************************************************************)
CallFoundSound ==
  pc \in {"wait", "gate", "send"} => ~poisoned /\ clean /\ counted /\ ~unreleased

ReleasesInCleanup ==
  /\ pc # "cleanup" => todo = <<>>
  /\ todo = <<>> => tries = 0

(***************************************************************************)
(* During the cleanup the injector counts as poisoned, and unless a key    *)
(* was given up, every key that is down is still to be released.           *)
(***************************************************************************)
CleanupCovers ==
  pc = "cleanup" => /\ poisoned /\ clean
                    /\ ~unreleased => down \subseteq ToSet(todo)

LeftoversPoison == pc # "cleanup" /\ down # {} => poisoned

ReleasesEachOnce == pc = "cleanup" /\ counted => NoRepeat(todo)

ReadyIsSound == ready => ~poisoned /\ pc \in {"idle", "preflight"}

IInv ==
  /\ TypeOK
  /\ todo \in Seq(Keys)
  /\ CallFoundSound
  /\ ReleasesInCleanup
  /\ CleanupCovers
  /\ LeftoversPoison
  /\ ReleasesEachOnce
  /\ ReleasesOnlyPressed
  /\ ReadyIsSound
  /\ KeepsContract

(***************************************************************************)
(* A fresh injector.                                                       *)
(***************************************************************************)
LEMMA IInvInit == Init => IInv
<1> SUFFICES ASSUME Init  PROVE IInv
  OBVIOUS
<1>1. todo = <<>> /\ todo \in Seq(Keys) /\ ToSet(todo) \subseteq Keys
  BY EmptySeq DEF Init, ToSet
<1>2. Idle \in DispatchResult
  BY DEF Idle, DispatchResult
<1>3. tries \in 0..(Attempts - 1) /\ calls \in 0..MaxCalls
  BY InjectorAssumption DEF Init, Attempts
<1>4. TypeOK
  BY <1>1, <1>2, <1>3 DEF Init, TypeOK
<1> QED
  BY <1>1, <1>4
  DEF Init, IInv, CallFoundSound, ReleasesInCleanup, CleanupCovers,
      LeftoversPoison, ReleasesEachOnce, ReleasesOnlyPressed, ReadyIsSound,
      KeepsContract

\* prepare_dispatch is called: nothing but the counter and the place move.
(***************************************************************************)
(* Each step keeps the invariant. First the calls before a batch is sent,  *)
(***************************************************************************)
LEMMA PrepareKeeps ==
  ASSUME IInv, Prepare
  PROVE  IInv'
<1>a. (calls \in 0..MaxCalls)'
  BY InjectorAssumption DEF IInv, TypeOK, Prepare
<1>1. TypeOK'
  BY <1>a DEF IInv, TypeOK, Prepare
<1>2. (todo \in Seq(Keys))'
  BY DEF IInv, Prepare
<1>3. /\ CallFoundSound' /\ ReleasesInCleanup' /\ CleanupCovers'
      /\ LeftoversPoison' /\ ReleasesEachOnce' /\ ReleasesOnlyPressed'
      /\ ReadyIsSound' /\ KeepsContract'
  BY <1>a DEF IInv, TypeOK, Prepare,
      CallFoundSound, ReleasesInCleanup, CleanupCovers, LeftoversPoison,
      ReleasesEachOnce, ReleasesOnlyPressed, ReadyIsSound, KeepsContract
<1> QED BY <1>1, <1>2, <1>3 DEF IInv

\* Its answer is True only if the injector is not poisoned.
LEMMA PreflightKeeps ==
  ASSUME IInv, Preflight
  PROVE  IInv'
<1>1. TypeOK'
  BY DEF IInv, TypeOK, Preflight, prepare_dispatch
<1>2. (todo \in Seq(Keys))'
  BY DEF IInv, Preflight, prepare_dispatch
<1>3. /\ CallFoundSound' /\ ReleasesInCleanup' /\ CleanupCovers'
      /\ LeftoversPoison' /\ ReleasesEachOnce' /\ ReleasesOnlyPressed'
      /\ ReadyIsSound' /\ KeepsContract'
  BY DEF IInv, TypeOK, Preflight, prepare_dispatch,
      CallFoundSound, ReleasesInCleanup, CleanupCovers, LeftoversPoison,
      ReleasesEachOnce, ReleasesOnlyPressed, ReadyIsSound, KeepsContract
<1> QED BY <1>1, <1>2, <1>3 DEF IInv

\* What a call that leaves nothing pressed or a refused one returns.
(***************************************************************************)
(* what a call hands back,                                                 *)
(***************************************************************************)
LEMMA Returned ==
  ASSUME NEW code \in {"ok", "dispatch_failed", "cleanup_failed", "raised"},
         NEW sent \in BOOLEAN, poisoned' \in BOOLEAN, Return(code, sent)
  PROVE  /\ pc' = "done" /\ result' \in DispatchResult
         /\ result'.code = code /\ result'.sent = sent
         /\ result'.poisons = poisoned'
BY DEF Return, DispatchResult

\* A dispatch on a poisoned injector is refused at once; any other finds all
\* keys up.
(***************************************************************************)
(* the ways into a dispatch,                                               *)
(***************************************************************************)
LEMMA DispatchKeeps ==
  ASSUME IInv, NEW events \in Batches, NEW prepared \in BOOLEAN,
         Dispatch(events, prepared)
  PROVE  IInv'
<1>1. (calls \in 0..MaxCalls)'
  BY InjectorAssumption DEF IInv, TypeOK, Dispatch
<1>2. /\ UNCHANGED <<poisoned, held, down, todo, tries>>
      /\ batch' = events /\ ready' = FALSE /\ counted' = TRUE
      /\ unreleased' = FALSE /\ clean' = ~poisoned /\ pc = "idle"
      /\ lifted' \in BOOLEAN
  BY DEF Dispatch
<1>3. CASE poisoned
  <2>1. /\ pc' = "done" /\ result' \in DispatchResult
        /\ result'.code = "cleanup_failed" /\ result'.sent = FALSE
        /\ result'.poisons = TRUE
    <3>1. /\ pc' = "done"
          /\ result' = [code |-> "cleanup_failed", sent |-> FALSE, poisons |-> TRUE]
      BY <1>3 DEF Dispatch
    <3> QED BY <3>1 DEF DispatchResult
  <2>2. TypeOK' /\ (todo \in Seq(Keys))'
    BY <1>1, <1>2, <2>1 DEF IInv, TypeOK
  <2>3. /\ CallFoundSound' /\ ReleasesInCleanup' /\ CleanupCovers'
        /\ LeftoversPoison' /\ ReleasesEachOnce' /\ ReleasesOnlyPressed'
        /\ ReadyIsSound' /\ KeepsContract'
    BY <1>2, <1>3, <2>1
    DEF IInv, TypeOK, DispatchContract,
      CallFoundSound, ReleasesInCleanup, CleanupCovers, LeftoversPoison,
      ReleasesEachOnce, ReleasesOnlyPressed, ReadyIsSound, KeepsContract
  <2> QED BY <2>2, <2>3 DEF IInv
<1>4. CASE ~poisoned
  <2>1. pc' \in {"gate", "wait"} /\ UNCHANGED result
    BY <1>4 DEF Dispatch
  <2>2. TypeOK' /\ (todo \in Seq(Keys))'
    BY <1>1, <1>2, <2>1 DEF IInv, TypeOK
  <2>3. /\ CallFoundSound' /\ ReleasesInCleanup' /\ CleanupCovers'
        /\ LeftoversPoison' /\ ReleasesEachOnce' /\ ReleasesOnlyPressed'
        /\ ReadyIsSound' /\ KeepsContract'
    BY <1>2, <1>4, <2>1
    DEF IInv, TypeOK,
      CallFoundSound, ReleasesInCleanup, CleanupCovers, LeftoversPoison,
      ReleasesEachOnce, ReleasesOnlyPressed, ReadyIsSound, KeepsContract
  <2> QED BY <2>2, <2>3 DEF IInv
<1> QED BY <1>3, <1>4

\* A refusal or an interrupt of the wait leaves the injector as it was.
LEMMA WaitKeeps ==
  ASSUME IInv, Wait
  PROVE  IInv'
<1>1. /\ UNCHANGED <<poisoned, held, down, batch, todo, tries, unreleased,
                     ready, clean, counted, lifted, calls>>
      /\ pc = "wait"
  BY DEF Wait
<1>2. \/ pc' = "gate" /\ UNCHANGED result
      \/ /\ pc' = "done" /\ result' \in DispatchResult
         /\ result'.code \in {"dispatch_failed", "raised"}
         /\ result'.sent = FALSE /\ result'.poisons = poisoned'
  <2>1. poisoned' \in BOOLEAN
    BY <1>1 DEF IInv, TypeOK
  <2> QED BY <2>1, Returned DEF Wait
<1>3. TypeOK' /\ (todo \in Seq(Keys))'
  BY <1>1, <1>2 DEF IInv, TypeOK
<1>4. /\ CallFoundSound' /\ ReleasesInCleanup' /\ CleanupCovers'
      /\ LeftoversPoison' /\ ReleasesEachOnce' /\ ReleasesOnlyPressed'
      /\ ReadyIsSound' /\ KeepsContract'
  <2>1. CASE pc' = "gate" /\ UNCHANGED result
    BY <1>1, <2>1
    DEF IInv, TypeOK,
      CallFoundSound, ReleasesInCleanup, CleanupCovers, LeftoversPoison,
      ReleasesEachOnce, ReleasesOnlyPressed, ReadyIsSound, KeepsContract
  <2>2. CASE /\ pc' = "done" /\ result' \in DispatchResult
             /\ result'.code \in {"dispatch_failed", "raised"}
             /\ result'.sent = FALSE /\ result'.poisons = poisoned'
    BY <1>1, <2>2
    DEF IInv, TypeOK, DispatchContract,
      CallFoundSound, ReleasesInCleanup, CleanupCovers, LeftoversPoison,
      ReleasesEachOnce, ReleasesOnlyPressed, ReadyIsSound, KeepsContract
  <2> QED BY <1>2, <2>1, <2>2
<1> QED BY <1>3, <1>4 DEF IInv

\* The check right before the input sends nothing itself.
LEMMA GateKeeps ==
  ASSUME IInv, Gate
  PROVE  IInv'
<1>1. /\ UNCHANGED <<poisoned, held, down, batch, todo, tries, unreleased,
                     ready, clean, counted, lifted, calls>>
      /\ pc = "gate"
  BY DEF Gate
<1>2. \/ pc' = "send" /\ UNCHANGED result
      \/ /\ pc' = "done" /\ result' \in DispatchResult
         /\ result'.code \in {"dispatch_failed", "raised"}
         /\ result'.sent = FALSE /\ result'.poisons = poisoned'
  <2>1. poisoned' \in BOOLEAN
    BY <1>1 DEF IInv, TypeOK
  <2> QED BY <2>1, Returned DEF Gate
<1>3. TypeOK' /\ (todo \in Seq(Keys))'
  BY <1>1, <1>2 DEF IInv, TypeOK
<1>4. /\ CallFoundSound' /\ ReleasesInCleanup' /\ CleanupCovers'
      /\ LeftoversPoison' /\ ReleasesEachOnce' /\ ReleasesOnlyPressed'
      /\ ReadyIsSound' /\ KeepsContract'
  <2>1. CASE pc' = "send" /\ UNCHANGED result
    BY <1>1, <2>1
    DEF IInv, TypeOK,
      CallFoundSound, ReleasesInCleanup, CleanupCovers, LeftoversPoison,
      ReleasesEachOnce, ReleasesOnlyPressed, ReadyIsSound, KeepsContract
  <2>2. CASE /\ pc' = "done" /\ result' \in DispatchResult
             /\ result'.code \in {"dispatch_failed", "raised"}
             /\ result'.sent = FALSE /\ result'.poisons = poisoned'
    BY <1>1, <2>2
    DEF IInv, TypeOK, DispatchContract,
      CallFoundSound, ReleasesInCleanup, CleanupCovers, LeftoversPoison,
      ReleasesEachOnce, ReleasesOnlyPressed, ReadyIsSound, KeepsContract
  <2> QED BY <1>2, <2>1, <2>2
<1> QED BY <1>3, <1>4 DEF IInv

\* A complete batch leaves no key down and the poison lifted.
(***************************************************************************)
(* a batch that went through,                                              *)
(***************************************************************************)
LEMMA SendAllKeeps ==
  ASSUME IInv, SendAll
  PROVE  IInv'
<1>a. DownAfter(batch) = {}
  BY BatchIsClean DEF IInv, TypeOK
<1>1. TypeOK'
  BY <1>a DEF IInv, TypeOK, SendAll, Return, DispatchResult, DispatchContract
<1>2. (todo \in Seq(Keys))'
  BY DEF IInv, SendAll, Return, DispatchResult, DispatchContract
<1>3. /\ CallFoundSound' /\ ReleasesInCleanup' /\ CleanupCovers'
      /\ LeftoversPoison' /\ ReleasesEachOnce' /\ ReleasesOnlyPressed'
      /\ ReadyIsSound' /\ KeepsContract'
  BY <1>a DEF IInv, TypeOK, SendAll, Return, DispatchResult, DispatchContract,
      CallFoundSound, ReleasesInCleanup, CleanupCovers, LeftoversPoison,
      ReleasesEachOnce, ReleasesOnlyPressed, ReadyIsSound, KeepsContract
<1> QED BY <1>1, <1>2, <1>3 DEF IInv

\* The poison is lifted when every key that was down was released.
(***************************************************************************)
(* the two ends of the cleanup,                                            *)
(***************************************************************************)
LEMMA CleanupDoneKeeps ==
  ASSUME IInv, CleanupDone
  PROVE  IInv'
<1>a. ToSet(<<>>) = {}
  BY DEF ToSet
<1>1. TypeOK'
  BY <1>a DEF IInv, TypeOK, CleanupDone, Return, DispatchResult, DispatchContract
<1>2. (todo \in Seq(Keys))'
  BY DEF IInv, CleanupDone, Return, DispatchResult, DispatchContract
<1>3. /\ CallFoundSound' /\ ReleasesInCleanup' /\ CleanupCovers'
      /\ LeftoversPoison' /\ ReleasesEachOnce' /\ ReleasesOnlyPressed'
      /\ ReadyIsSound' /\ KeepsContract'
  BY <1>a DEF IInv, TypeOK, CleanupDone, Return, DispatchResult, DispatchContract,
      CallFoundSound, ReleasesInCleanup, CleanupCovers, LeftoversPoison,
      ReleasesEachOnce, ReleasesOnlyPressed, ReadyIsSound, KeepsContract
<1> QED BY <1>1, <1>2, <1>3 DEF IInv

\* An interrupted cleanup leaves the injector poisoned.
LEMMA CleanupInterruptedKeeps ==
  ASSUME IInv, CleanupInterrupted
  PROVE  IInv'
<1>a. /\ ToSet(<<>>) = {} /\ ToSet(<<>>) \subseteq Keys /\ <<>> \in Seq(Keys)
      /\ (tries \in 0..(Attempts - 1))'
  BY EmptySeq DEF ToSet, CleanupInterrupted, Attempts
<1>1. TypeOK'
  BY <1>a DEF IInv, TypeOK, CleanupInterrupted, Return, DispatchResult, DispatchContract
<1>2. (todo \in Seq(Keys))'
  BY <1>a DEF IInv, CleanupInterrupted, Return, DispatchResult, DispatchContract
<1>3. /\ CallFoundSound' /\ ReleasesInCleanup' /\ CleanupCovers'
      /\ LeftoversPoison' /\ ReleasesEachOnce' /\ ReleasesOnlyPressed'
      /\ ReadyIsSound' /\ KeepsContract'
  BY <1>a DEF IInv, TypeOK, CleanupInterrupted, Return, DispatchResult, DispatchContract,
      CallFoundSound, ReleasesInCleanup, CleanupCovers, LeftoversPoison,
      ReleasesEachOnce, ReleasesOnlyPressed, ReadyIsSound, KeepsContract
<1> QED BY <1>1, <1>2, <1>3 DEF IInv

\* The call returns.
(***************************************************************************)
(* and the return to the caller and what the user does.                    *)
(***************************************************************************)
LEMMA BackKeeps ==
  ASSUME IInv, Back
  PROVE  IInv'
<1>1. TypeOK'
  BY DEF IInv, TypeOK, Back, Idle, DispatchResult, DispatchContract
<1>2. (todo \in Seq(Keys))'
  BY DEF IInv, Back, Idle, DispatchResult, DispatchContract
<1>3. /\ CallFoundSound' /\ ReleasesInCleanup' /\ CleanupCovers'
      /\ LeftoversPoison' /\ ReleasesEachOnce' /\ ReleasesOnlyPressed'
      /\ ReadyIsSound' /\ KeepsContract'
  BY DEF IInv, TypeOK, Back, Idle, DispatchResult, DispatchContract,
      CallFoundSound, ReleasesInCleanup, CleanupCovers, LeftoversPoison,
      ReleasesEachOnce, ReleasesOnlyPressed, ReadyIsSound, KeepsContract
<1> QED BY <1>1, <1>2, <1>3 DEF IInv

\* The user presses or lets go of a modifier.
LEMMA UserKeeps ==
  ASSUME IInv, User
  PROVE  IInv'
<1>1. TypeOK'
  BY DEF IInv, TypeOK, User
<1>2. (todo \in Seq(Keys))'
  BY DEF IInv, User
<1>3. /\ CallFoundSound' /\ ReleasesInCleanup' /\ CleanupCovers'
      /\ LeftoversPoison' /\ ReleasesEachOnce' /\ ReleasesOnlyPressed'
      /\ ReadyIsSound' /\ KeepsContract'
  BY DEF IInv, TypeOK, User,
      CallFoundSound, ReleasesInCleanup, CleanupCovers, LeftoversPoison,
      ReleasesEachOnce, ReleasesOnlyPressed, ReadyIsSound, KeepsContract
<1> QED BY <1>1, <1>2, <1>3 DEF IInv

(***************************************************************************)
(* A send that was cut short: what it left pressed is what is released.    *)
(***************************************************************************)
LEMMA SendPartKeeps ==
  ASSUME IInv, NEW taken \in send(batch), SendPart(taken)
  PROVE  IInv'
<1>1. /\ UNCHANGED <<held, batch, tries, unreleased, result, ready, clean,
                     counted, lifted, calls>>
      /\ pc = "send" /\ pc' = "cleanup" /\ poisoned' = TRUE
      /\ down' = DownAfter(taken) /\ todo' = Reverse(Pressed(taken))
  BY DEF SendPart
<1>2. /\ DownAfter(taken) \subseteq Keys
      /\ Reverse(Pressed(taken)) \in Seq(Keys)
      /\ NoRepeat(Reverse(Pressed(taken)))
      /\ ToSet(Reverse(Pressed(taken))) = DownAfter(taken)
  BY CleanupKnowsWhatIsDown DEF IInv, TypeOK
<1>3. /\ down' \subseteq Keys /\ todo' \in Seq(Keys) /\ ToSet(todo') = down'
      /\ NoRepeat(todo')
  BY <1>1, <1>2
<1>4. todo' # <<>> => /\ Head(todo') \in down'
                      /\ ToSet(Tail(todo')) \subseteq down'
  <2>1. ASSUME todo' # <<>>
        PROVE  ToSet(todo') = {Head(todo')} \cup ToSet(Tail(todo'))
    BY <2>1, <1>3, HeadAndTail
  <2> QED BY <2>1, <1>3
<1>5. TypeOK'
  BY <1>1, <1>3 DEF IInv, TypeOK
<1>6. tries' = 0
  BY <1>1 DEF IInv, ReleasesInCleanup
<1>7. /\ CallFoundSound' /\ ReleasesInCleanup' /\ CleanupCovers'
      /\ LeftoversPoison' /\ ReleasesEachOnce' /\ ReleasesOnlyPressed'
      /\ ReadyIsSound' /\ KeepsContract'
  BY <1>1, <1>3, <1>4, <1>6
  DEF IInv, TypeOK,
      CallFoundSound, ReleasesInCleanup, CleanupCovers, LeftoversPoison,
      ReleasesEachOnce, ReleasesOnlyPressed, ReadyIsSound, KeepsContract
<1> QED BY <1>3, <1>5, <1>7 DEF IInv

(***************************************************************************)
(* A send that raised: every key of the batch is released, whatever went   *)
(* through.                                                                *)
(***************************************************************************)
LEMMA SendRaisesKeeps ==
  ASSUME IInv, NEW taken \in send(batch), SendRaises(taken)
  PROVE  IInv'
<1>1. /\ UNCHANGED <<held, batch, tries, unreleased, result, ready, clean,
                     lifted, calls>>
      /\ pc = "send" /\ pc' = "cleanup" /\ poisoned' = TRUE /\ counted' = FALSE
      /\ down' = DownAfter(taken) /\ todo' = Reverse(Pressed(KeyDowns(batch)))
  BY DEF SendRaises
<1>2. /\ DownAfter(taken) \subseteq Keys
      /\ Reverse(Pressed(KeyDowns(batch))) \in Seq(Keys)
      /\ DownAfter(taken) \subseteq ToSet(Reverse(Pressed(KeyDowns(batch))))
  BY CleanupKnowsWhatIsDown DEF IInv, TypeOK
<1>3. /\ down' \subseteq Keys /\ todo' \in Seq(Keys)
      /\ down' \subseteq ToSet(todo')
  BY <1>1, <1>2
<1>4. ToSet(todo') \subseteq Keys
  BY <1>3, LenProperties, ElementOfSeq DEF ToSet
<1>5. TypeOK'
  BY <1>1, <1>3, <1>4 DEF IInv, TypeOK
<1>6. tries' = 0
  BY <1>1 DEF IInv, ReleasesInCleanup
<1>7. /\ CallFoundSound' /\ ReleasesInCleanup' /\ CleanupCovers'
      /\ LeftoversPoison' /\ ReleasesEachOnce' /\ ReleasesOnlyPressed'
      /\ ReadyIsSound' /\ KeepsContract'
  BY <1>1, <1>3, <1>6
  DEF IInv, TypeOK,
      CallFoundSound, ReleasesInCleanup, CleanupCovers, LeftoversPoison,
      ReleasesEachOnce, ReleasesOnlyPressed, ReadyIsSound, KeepsContract
<1> QED BY <1>3, <1>5, <1>7 DEF IInv

(***************************************************************************)
(* One try at a release: the key that is given up or released leaves the   *)
(* list, and the ones still to be released keep their place.               *)
(***************************************************************************)
LEMMA ReleaseTryKeeps ==
  ASSUME IInv, ReleaseTry
  PROVE  IInv'
<1> DEFINE key == Head(todo)
           rest == Tail(todo)
<1>1. /\ UNCHANGED <<pc, poisoned, held, batch, result, ready, clean, counted,
                     lifted, calls>>
      /\ pc = "cleanup" /\ todo # <<>>
  BY DEF ReleaseTry
<1>2. /\ key \in Keys /\ rest \in Seq(Keys)
      /\ ToSet(todo) = {key} \cup ToSet(rest)
      /\ NoRepeat(todo) => NoRepeat(rest) /\ key \notin ToSet(rest)
  BY <1>1, HeadAndTail DEF IInv
<1>3. \/ /\ down' = down \ {key} /\ todo' = rest /\ tries' = 0
         /\ unreleased' = unreleased
      \/ /\ down' \in {down, down \ {key}} /\ todo' = rest /\ tries' = 0
         /\ unreleased' = TRUE
      \/ /\ down' \in {down, down \ {key}} /\ todo' = todo
         /\ tries + 1 < Attempts /\ tries' = tries + 1
         /\ unreleased' = unreleased
  <2>1. unreleased \in BOOLEAN
    BY DEF IInv, TypeOK
  <2> QED BY <2>1 DEF ReleaseTry, NextKey
<1>4. ToSet(rest) \subseteq Keys /\ down \subseteq Keys
  BY <1>2 DEF IInv, TypeOK
<1>5. rest # <<>> => /\ Head(rest) \in ToSet(rest)
                     /\ ToSet(Tail(rest)) \subseteq ToSet(rest)
  <2>1. ASSUME rest # <<>>
        PROVE  ToSet(rest) = {Head(rest)} \cup ToSet(Tail(rest))
    BY <2>1, <1>2, HeadAndTail
  <2> QED BY <2>1
<1> HIDE DEF key, rest
<1>6. tries' \in 0..(Attempts - 1)
  <2>1. tries \in 0..(Attempts - 1)
    BY DEF IInv, TypeOK
  <2> QED BY <2>1, <1>3 DEF Attempts
<1>7. TypeOK' /\ (todo \in Seq(Keys))'
  <2>1. down' \subseteq Keys /\ ToSet(todo') \subseteq Keys /\ todo' \in Seq(Keys)
        /\ unreleased' \in BOOLEAN
    BY <1>2, <1>3, <1>4 DEF IInv, TypeOK
  <2> QED BY <2>1, <1>1, <1>6 DEF IInv, TypeOK
<1>8. counted => /\ NoRepeat(todo) /\ ToSet(rest) \subseteq down
                 /\ tries = 0 => key \in down
  BY <1>1 DEF IInv, ReleasesEachOnce, ReleasesOnlyPressed, key, rest
<1>9. counted => /\ NoRepeat(todo')
                 /\ todo' # <<>> => /\ ToSet(Tail(todo')) \subseteq down'
                                    /\ tries' = 0 => Head(todo') \in down'
  <2>1. CASE todo' = rest /\ down' \in {down, down \ {key}}
    BY <2>1, <1>2, <1>5, <1>8
  <2>2. CASE /\ down' \in {down, down \ {key}} /\ todo' = todo
             /\ tries + 1 < Attempts /\ tries' = tries + 1
    <3>1. tries' # 0
      <4>1. tries \in 0..(Attempts - 1)
        BY DEF IInv, TypeOK
      <4> QED BY <4>1, <2>2 DEF Attempts
    <3>2. counted => ToSet(rest) \subseteq down'
      BY <2>2, <1>2, <1>8
    <3> QED BY <2>2, <3>1, <3>2, <1>8 DEF rest
  <2> QED BY <1>3, <2>1, <2>2
<1>10. ~unreleased' => down' \subseteq ToSet(todo')
  <2>1. ~unreleased => down \subseteq ToSet(todo)
    BY <1>1 DEF IInv, CleanupCovers
  <2> QED BY <2>1, <1>2, <1>3
<1>11. todo' = <<>> => tries' = 0
  BY <1>1, <1>3
<1>12. /\ CallFoundSound' /\ ReleasesInCleanup' /\ CleanupCovers'
      /\ LeftoversPoison' /\ ReleasesEachOnce' /\ ReleasesOnlyPressed'
      /\ ReadyIsSound' /\ KeepsContract'
  BY <1>1, <1>9, <1>10, <1>11
  DEF IInv, TypeOK,
      CallFoundSound, ReleasesInCleanup, CleanupCovers, LeftoversPoison,
      ReleasesEachOnce, ReleasesOnlyPressed, ReadyIsSound, KeepsContract
<1> QED BY <1>7, <1>12 DEF IInv

(***************************************************************************)
(* The invariant holds of every reachable state.                           *)
(***************************************************************************)
LEMMA IInvNext == IInv /\ [Next]_vars => IInv'
<1> SUFFICES ASSUME IInv, [Next]_vars  PROVE IInv'
  OBVIOUS
<1>1. CASE Prepare
  BY <1>1, PrepareKeeps
<1>2. CASE \E events \in Batches, prepared \in BOOLEAN : Dispatch(events, prepared)
  BY <1>2, DispatchKeeps
<1>3. CASE Preflight
  BY <1>3, PreflightKeeps
<1>4. CASE Wait
  BY <1>4, WaitKeeps
<1>5. CASE Gate
  BY <1>5, GateKeeps
<1>6. CASE Send
  BY <1>6, SendAllKeeps, SendPartKeeps, SendRaisesKeeps DEF Send
<1>7. CASE ReleaseTry
  BY <1>7, ReleaseTryKeeps
<1>8. CASE CleanupDone
  BY <1>8, CleanupDoneKeeps
<1>9. CASE CleanupInterrupted
  BY <1>9, CleanupInterruptedKeeps
<1>10. CASE Back
  BY <1>10, BackKeeps
<1>11. CASE User
  BY <1>11, UserKeeps
<1>12. CASE UNCHANGED vars
  BY <1>12
  DEF vars, IInv, TypeOK,
      CallFoundSound, ReleasesInCleanup, CleanupCovers, LeftoversPoison,
      ReleasesEachOnce, ReleasesOnlyPressed, ReadyIsSound, KeepsContract
<1> QED
  BY <1>1, <1>2, <1>3, <1>4, <1>5, <1>6, <1>7, <1>8, <1>9, <1>10, <1>11, <1>12
  DEF Next, Step

(***************************************************************************)
(* The invariant holds at all times.                                       *)
(***************************************************************************)
LEMMA InjectorInvariant == Spec => []IInv
<1> QED BY IInvInit, IInvNext, PTL DEF Spec

(***************************************************************************)
(* Every state of the injector is well-typed, for any text, any number of  *)
(* calls and any prefix a send takes.                                      *)
(***************************************************************************)
THEOREM InjectorTyped == Spec => []TypeOK
<1>1. IInv => TypeOK
  BY DEF IInv
<1> QED BY <1>1, InjectorInvariant, PTL

(***************************************************************************)
(* A key that may still be down after a call means a poisoned injector.    *)
(***************************************************************************)
THEOREM StuckKeysPoison == Spec => []StuckMeansPoisoned
<1>1. IInv => StuckMeansPoisoned
  BY DEF IInv, StuckMeansPoisoned, LeftoversPoison
<1> QED BY <1>1, InjectorInvariant, PTL

(***************************************************************************)
(* Every call returns what the service was verified with.                  *)
(***************************************************************************)
THEOREM InjectorKeepsContract == Spec => []KeepsContract
<1>1. IInv => KeepsContract
  BY DEF IInv
<1> QED BY <1>1, InjectorInvariant, PTL

(***************************************************************************)
(* After a send that was counted only keys the batch left pressed are      *)
(* released.                                                               *)
(***************************************************************************)
THEOREM OnlyPressedReleased == Spec => []ReleasesOnlyPressed
<1>1. IInv => ReleasesOnlyPressed
  BY DEF IInv
<1> QED BY <1>1, InjectorInvariant, PTL

(***************************************************************************)
(* From a dispatch's start on, a moment without any modifier is noted: no  *)
(* synthetic Ctrl is down then, so that only the user's own matter, and    *)
(* the last look only lets a batch pass after such a moment.               *)
(***************************************************************************)
LiftedIsSeen ==
  /\ pc \in {"wait", "gate"} /\ ~held => lifted
  /\ pc = "send" => lifted

LEMMA LiftedIsSeenNext == IInv /\ LiftedIsSeen /\ [Next]_vars => LiftedIsSeen'
<1> SUFFICES ASSUME IInv, LiftedIsSeen, [Next]_vars  PROVE LiftedIsSeen'
  OBVIOUS
<1>1. pc \in {"wait", "gate", "send"} => down = {}
  BY DEF IInv, CallFoundSound, LeftoversPoison
<1>2. ASSUME NEW events \in Batches, NEW prepared \in BOOLEAN,
             Dispatch(events, prepared)
      PROVE  LiftedIsSeen'
  <2>1. CASE poisoned
    <3>1. pc' = "done"
      BY <1>2, <2>1 DEF Dispatch
    <3> QED BY <3>1 DEF LiftedIsSeen
  <2>2. CASE ~poisoned
    <3>1. /\ down = {} /\ held' = held /\ lifted' = ~ModifiersDown
          /\ pc' \in {"gate", "wait"}
      BY <1>2, <2>2 DEF IInv, LeftoversPoison, Dispatch
    <3> QED BY <3>1 DEF LiftedIsSeen, ModifiersDown
  <2> QED BY <2>1, <2>2
<1>3. CASE Wait
  BY <1>3 DEF LiftedIsSeen, Wait, Return
<1>4. CASE Gate
  BY <1>4 DEF LiftedIsSeen, Gate, Return, ModifiersDown
<1>5. CASE User
  <2>1. pc' = pc /\ lifted' = (lifted \/ ~(held' \/ "ctrl" \in down))
    BY <1>5 DEF User
  <2> QED BY <1>1, <2>1 DEF LiftedIsSeen
<1>6. CASE Prepare \/ Preflight \/ Send \/ ReleaseTry \/ CleanupDone
           \/ CleanupInterrupted \/ Back
  <2>1. pc' \notin {"wait", "gate", "send"}
    BY <1>6
    DEF Prepare, Preflight, Send, SendAll, SendPart, SendRaises, ReleaseTry,
        CleanupDone, CleanupInterrupted, Back, Return
  <2> QED BY <2>1 DEF LiftedIsSeen
<1>7. CASE UNCHANGED vars
  BY <1>7 DEF vars, LiftedIsSeen
<1> QED BY <1>2, <1>3, <1>4, <1>5, <1>6, <1>7 DEF Next, Step

(***************************************************************************)
(* A batch is never typed over a key that an earlier call left down, nor   *)
(* over a modifier the user has held since before the dispatch.            *)
(***************************************************************************)
THEOREM NewKeysOnCleanKeyboard == Spec => PressesOnCleanKeyboard
<1>1. Init => LiftedIsSeen
  BY DEF Init, LiftedIsSeen
<1>2. IInv /\ LiftedIsSeen /\ [Next]_vars
        => [~(down' \subseteq down) => down = {} /\ lifted]_vars
  <2> SUFFICES ASSUME IInv, LiftedIsSeen, Next, ~(down' \subseteq down)
               PROVE  down = {} /\ lifted
    BY DEF vars
  <2>1. CASE Send
    <3>1. pc = "send"
      BY <2>1 DEF Send, SendAll, SendPart, SendRaises
    <3> QED BY <3>1 DEF IInv, CallFoundSound, LeftoversPoison, LiftedIsSeen
  <2>2. CASE ~Send
    BY <2>2
    DEF Next, Step, Prepare, Dispatch, Preflight, Wait, Gate, ReleaseTry,
        CleanupDone, CleanupInterrupted, Back, User
  <2> QED BY <2>1, <2>2
<1> QED
  BY <1>1, <1>2, LiftedIsSeenNext, InjectorInvariant, PTL
  DEF Spec, PressesOnCleanKeyboard
=============================================================================
