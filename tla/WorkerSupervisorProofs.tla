------------------------ MODULE WorkerSupervisorProofs ------------------------
(***************************************************************************)
(* What WorkerSupervisor promises for any clock, any number of samples and *)
(* any backend.  The argument follows the parent: which of its program     *)
(* counters come after the worker was reaped, and that a timeout leaves a  *)
(* mark in _missed_reasons that no later step removes.                     *)
(***************************************************************************)
EXTENDS WorkerSupervisor, LoopTheorems, SequenceTheorems

CollectPC == {"read", "stamp", "append"}

\* The part of TypeOK the argument needs; verdict takes no other value.
ControlTyped ==
  /\ pc \in [parent : ParentPC, thread : ThreadPC]
  /\ verdict \in {"completed", "timeout", "terminated", "killed"}
  /\ stop \in BOOLEAN

\* The stop event tells the collection after the worker from the one before.
StopFollowsParent ==
  /\ pc.parent = "join" => stop
  /\ stop => pc.parent \in {"join", "report", "judge", "returned"} \cup CollectPC

ReapedBeforeReport ==
  /\ pc.parent = "spawn" => child = "none"
  /\ pc.parent \in {"finish", "join", "report", "judge"} => child = "reaped"
  /\ pc.parent \in CollectPC /\ stop => child = "reaped"
  /\ ChildIsReaped

\* A timeout is remembered twice: in the verdict and in the missed reasons.
TimeoutIsMarked ==
  /\ "worker_timeout" \in missed => verdict # "completed"
  /\ report.status = "ok" =>
       /\ pc.parent \in {"judge", "returned"}
       /\ "worker_timeout" \notin missed

IInv ==
  /\ ControlTyped
  /\ StopFollowsParent
  /\ ReapedBeforeReport
  /\ TimeoutIsMarked
  /\ OutcomeTellsTheEnd

-----------------------------------------------------------------------------
(***************************************************************************)
(* A report is only "ok" if no reason was noted before it was made.        *)
(***************************************************************************)
LEMMA OkMeansNothingMissed ==
  ASSUME NEW samps, NEW reasons, FromSamples(samps, reasons).status = "ok"
  PROVE  reasons = {}
BY DEF FromSamples, Status, Reasons

(***************************************************************************)
(* A report made without samples is never "ok".                            *)
(***************************************************************************)
LEMMA UnavailableIsNotOk ==
  ASSUME NEW reason
  PROVE  Unavailable(reason).status # "ok"
BY DEF Unavailable

LEMMA InitEstablishes == Init => IInv
<1> HAVE Init
<1>1. ControlTyped /\ StopFollowsParent
  BY DEF Init, ControlTyped, StopFollowsParent, ParentPC, ThreadPC, CollectPC
<1>2. report.status # "ok"
  BY UnavailableIsNotOk DEF Init
<1>3. pc.parent = "spawn" /\ child = "none" /\ stop = FALSE /\ missed = {}
  BY DEF Init
<1> QED BY <1>1, <1>2, <1>3
        DEF IInv, ReapedBeforeReport, ChildIsReaped, TimeoutIsMarked,
            OutcomeTellsTheEnd, CollectPC

-----------------------------------------------------------------------------
USE DEF ControlTyped, StopFollowsParent, ReapedBeforeReport, ChildIsReaped,
        TimeoutIsMarked, OutcomeTellsTheEnd, ParentPC, ThreadPC, CollectPC,
        process, collector, results

(***************************************************************************)
(* The steps of the environment and of the collector thread: the worker    *)
(* ends, the clock goes on, the thread samples or stops.                   *)
(***************************************************************************)
LEMMA EnvironmentKeeps ==
  ASSUME IInv, ExitsByItself \/ DiesOfSignal \/ Tick
  PROVE  IInv'
<1>1. ASSUME NEW how, Exit(how)  PROVE IInv'
  BY <1>1 DEF IInv, Exit
<1>2. CASE Tick
  BY <1>2 DEF IInv, Tick
<1> QED BY <1>1, <1>2 DEF ExitsByItself, DiesOfSignal

LEMMA CollectKeeps ==
  ASSUME IInv, NEW actor \in Actors, Collect(actor)
  PROVE  IInv'
<1>1. CASE Read(actor)
  BY <1>1 DEF IInv, Read, Note, Goto, After, Actors
<1>2. CASE Stamp(actor)
  BY <1>2 DEF IInv, Stamp, Goto, Actors
<1>3. CASE AppendSample(actor)
  BY <1>3 DEF IInv, AppendSample, Goto, After, Actors
<1> QED BY <1>1, <1>2, <1>3 DEF Collect

LEMMA ThreadKeeps ==
  ASSUME IInv, ThreadStep
  PROVE  IInv'
<1>1. CASE Pause
  BY <1>1 DEF IInv, Pause, Goto
<1> QED BY <1>1, CollectKeeps DEF ThreadStep, Actors

(***************************************************************************)
(* The parent until the worker has ended: what follows a timeout is marked *)
(* and every way on, except an exception, reaps the worker.                *)
(***************************************************************************)
LEMMA StartKeeps ==
  ASSUME IInv, Spawn \/ MakeSampler \/ Launch
  PROVE  IInv'
<1>1. CASE Spawn
  BY <1>1, UnavailableIsNotOk DEF IInv, Spawn, Goto
<1>2. CASE MakeSampler
  BY <1>2 DEF IInv, MakeSampler, Goto, Note
<1>3. CASE Launch
  BY <1>3 DEF IInv, Launch
<1> QED BY <1>1, <1>2, <1>3

LEMMA WaitingKeeps ==
  ASSUME IInv,
         Communicate \/ Terminate \/ Grace \/ Kill \/ Wait \/ Abandon
  PROVE  IInv'
<1>1. CASE Communicate
  BY <1>1 DEF IInv, Communicate, Goto, Note, Reap
<1>2. CASE Terminate
  BY <1>2 DEF IInv, Terminate, Signal, Goto, Reap
<1>3. CASE Grace
  BY <1>3 DEF IInv, Grace, Ended, Goto, Note
<1>4. CASE Kill
  BY <1>4 DEF IInv, Kill, Signal, Goto, Reap
<1>5. CASE Wait
  BY <1>5 DEF IInv, Wait, Ended, Goto, Note
<1>6. CASE Abandon
  BY <1>6 DEF IInv, Abandon, Goto, Reap
<1> QED BY <1>1, <1>2, <1>3, <1>4, <1>5, <1>6

(***************************************************************************)
(* The parent after the worker has ended.                                  *)
(***************************************************************************)
LEMMA ReportKeeps ==
  ASSUME IInv, Finish \/ Join \/ MakeReport
  PROVE  IInv'
<1>1. CASE Finish
  BY <1>1 DEF IInv, Finish, Goto
<1>2. CASE Join
  BY <1>2, UnavailableIsNotOk DEF IInv, Join, Goto
<1>3. CASE MakeReport
  BY <1>3, OkMeansNothingMissed DEF IInv, MakeReport, Goto
<1> QED BY <1>1, <1>2, <1>3

LEMMA JudgeKeeps ==
  ASSUME IInv, Judge
  PROVE  IInv'
BY DEF IInv, Judge, Judged, Output, Goto, Answer

LEMMA InvariantStep == IInv /\ [Next]_vars => IInv'
<1> SUFFICES ASSUME IInv, [Next]_vars  PROVE IInv'
  OBVIOUS
<1>1. CASE UNCHANGED vars
  BY <1>1 DEF IInv, vars
<1>2. CASE ParentStep
  <2>1. CASE Collect("parent")
    BY <2>1, CollectKeeps DEF Actors
  <2> QED BY <1>2, <2>1, StartKeeps, WaitingKeeps, ReportKeeps, JudgeKeeps
          DEF ParentStep
<1> QED BY <1>1, <1>2, ThreadKeeps, EnvironmentKeeps DEF Next

LEMMA Invariance == Spec => []IInv
BY InitEstablishes, InvariantStep, PTL DEF Spec

-----------------------------------------------------------------------------
(***************************************************************************)
(* run() says "completed" only of a worker that ended with exit status     *)
(* zero and a success of its own, and after a timeout neither judges the   *)
(* exit status nor lets the report pass for whole.                         *)
(***************************************************************************)
THEOREM CompletedIsEarned == Spec => []OutcomeTellsTheEnd
<1>1. IInv => OutcomeTellsTheEnd
  BY DEF IInv
<1> QED BY <1>1, Invariance, PTL

(***************************************************************************)
(* When run() returns its worker, if there was one, has been reaped.       *)
(***************************************************************************)
THEOREM WorkerIsReaped == Spec => []ChildIsReaped
<1>1. IInv => ChildIsReaped
  BY DEF IInv
<1> QED BY <1>1, Invariance, PTL

-----------------------------------------------------------------------------
(***************************************************************************)
(* What appending an element does to the elements of a sequence.           *)
(***************************************************************************)
LEMMA AppendToSet ==
  ASSUME NEW T, NEW s \in Seq(T), NEW x \in T
  PROVE  ToSet(Append(s, x)) = ToSet(s) \cup {x}
<1> DEFINE n == Len(s)
           t == Append(s, x)
<1>1. /\ n \in Nat /\ DOMAIN s = 1..n /\ DOMAIN t = 1..(n + 1)
      /\ \A i \in 1..n : t[i] = s[i]
      /\ t[n + 1] = x
  BY LenProperties, AppendProperties
<1>2. 1..(n + 1) = 1..n \cup {n + 1}
  BY <1>1
<1> HIDE DEF n, t
<1> QED BY <1>1, <1>2 DEF ToSet, t

(***************************************************************************)
(* The loop that keeps the samples with figures, turn by turn.             *)
(***************************************************************************)
LEMMA UsableHistory ==
  ASSUME NEW seen \in Seq(Sample)
  PROVE  \E h \in [0..Len(seen) -> Seq(Sample)] :
           /\ h[0] = <<>>
           /\ \A n \in 1..Len(seen) :
                h[n] = IF seen[n].status = "ok" THEN Append(h[n - 1], seen[n])
                       ELSE h[n - 1]
           /\ Usable(seen) = h[Len(seen)]
<1> DEFINE N == Len(seen)
           Turn(acc, n) == IF seen[n].status = "ok" THEN Append(acc, seen[n])
                           ELSE acc
           body == [x \in Seq(Sample) \X (1..N) |-> Turn(x[1], x[2])]
           Solves(f) == f = [n \in 0..N |-> IF n = 0 THEN <<>> ELSE Turn(f[n - 1], n)]
           h == CHOOSE f : Solves(f)
<1>1. N \in Nat /\ <<>> \in Seq(Sample)
  OBVIOUS
<1>2. ASSUME NEW acc \in Seq(Sample), NEW n \in 1..N  PROVE Turn(acc, n) \in Seq(Sample)
  <2>1. seen[n] \in Sample
    BY ElementOfSeq
  <2>2. Append(acc, seen[n]) \in Seq(Sample)
    BY <2>1, AppendProperties
  <2> QED BY <2>2
<1>3. Usable(seen) = h[N]
  BY DEF Usable
<1> HIDE DEF N, Turn
<1>4. body \in [Seq(Sample) \X (1..N) -> Seq(Sample)]
  BY <1>2
<1>5. PICK f : IsHistory(f, N, Seq(Sample), <<>>, body)
  <2> HIDE DEF body
  <2> QED BY <1>1, <1>4, LoopHasHistory
<1>6. Solves(f)
  <2>1. f \in [0..N -> Seq(Sample)] /\ f[0] = <<>>
    BY <1>5 DEF IsHistory
  <2>2. ASSUME NEW n \in 1..N  PROVE f[n] = Turn(f[n - 1], n)
    <3>1. n - 1 \in 0..N
      BY <1>1
    <3>2. f[n - 1] \in Seq(Sample)
      BY <2>1, <3>1
    <3> QED BY <3>2, <1>5 DEF IsHistory
  <2> QED BY <1>1, <2>1, <2>2
<1>7. Solves(h)
  <2> HIDE DEF Solves
  <2> QED BY <1>6
<1> HIDE DEF h
<1>8. h[0] = <<>> /\ \A n \in 1..N : h[n] = Turn(h[n - 1], n)
  BY <1>1, <1>7
<1>9. h \in [0..N -> Seq(Sample)]
  <2>1. h = [n \in 0..N |-> h[n]]
    BY <1>7
  <2>2. \A n \in 1..N : h[n - 1] \in Seq(Sample) => h[n] \in Seq(Sample)
    BY <1>2, <1>8
  <2> QED BY <1>1, <1>8, <2>1, <2>2, LoopTyped
<1> QED BY <1>3, <1>8, <1>9 DEF N, Turn

(***************************************************************************)
(* What is usable: the samples with figures and no others.                 *)
(***************************************************************************)
LEMMA UsableAreTheOk ==
  ASSUME NEW seen \in Seq(Sample)
  PROVE  /\ Usable(seen) \in Seq(Sample)
         /\ ToSet(Usable(seen)) = {s \in ToSet(seen) : s.status = "ok"}
<1> DEFINE N == Len(seen)
           Ok(n) == {s \in {seen[i] : i \in 1..n} : s.status = "ok"}
<1>1. N \in Nat /\ DOMAIN seen = 1..N /\ \A i \in 1..N : seen[i] \in Sample
  BY LenProperties, ElementOfSeq
<1>2. PICK h \in [0..N -> Seq(Sample)] :
        /\ h[0] = <<>>
        /\ \A n \in 1..N :
             h[n] = IF seen[n].status = "ok" THEN Append(h[n - 1], seen[n])
                    ELSE h[n - 1]
        /\ Usable(seen) = h[N]
  BY UsableHistory
<1> DEFINE S == {n \in 0..N : ToSet(h[n]) = Ok(n)}
<1> HIDE DEF N
<1>3. 0 \in S
  BY <1>1, <1>2 DEF ToSet
<1>4. ASSUME NEW n \in 1..N, n - 1 \in S  PROVE n \in S
  <2> DEFINE before == h[n - 1]
             after == h[n]
             s == seen[n]
  <2>1. before \in Seq(Sample) /\ ToSet(before) = Ok(n - 1) /\ s \in Sample
    BY <1>1, <1>2, <1>4
  <2>2. after = IF s.status = "ok" THEN Append(before, s) ELSE before
    BY <1>1, <1>2
  <2>3. Ok(n) = Ok(n - 1) \cup (IF s.status = "ok" THEN {s} ELSE {})
    <3>1. 1..n = 1..(n - 1) \cup {n}
      BY <1>1
    <3> QED BY <3>1
  <2> HIDE DEF before, after, s, Ok
  <2>4. ToSet(after) = Ok(n)
    BY <2>1, <2>2, <2>3, AppendToSet
  <2> QED BY <2>4, <1>1 DEF after
<1> HIDE DEF S
<1>5. N \in S
  <2>1. 0..N \subseteq S
    BY <1>1, <1>3, <1>4, InductionOnTurns
  <2> QED BY <2>1, <1>1
<1>6. ToSet(h[N]) = Ok(N) /\ h[N] \in Seq(Sample)
  BY <1>1, <1>2, <1>5 DEF S
<1>7. Ok(N) = {s \in ToSet(seen) : s.status = "ok"}
  BY <1>1 DEF ToSet
<1> QED BY <1>2, <1>6, <1>7

(***************************************************************************)
(* A first sample with figures stays the first.                            *)
(***************************************************************************)
LEMMA FirstStaysFirst ==
  ASSUME NEW seen \in Seq(Sample), seen # <<>>, seen[1].status = "ok"
  PROVE  Usable(seen) # <<>> /\ Usable(seen)[1] = seen[1]
<1> DEFINE N == Len(seen)
<1>1. N \in Nat \ {0} /\ \A i \in 1..N : seen[i] \in Sample
  BY EmptySeq, LenProperties, ElementOfSeq
<1>2. PICK h \in [0..N -> Seq(Sample)] :
        /\ h[0] = <<>>
        /\ \A n \in 1..N :
             h[n] = IF seen[n].status = "ok" THEN Append(h[n - 1], seen[n])
                    ELSE h[n - 1]
        /\ Usable(seen) = h[N]
  BY UsableHistory
<1> DEFINE S == {n \in 0..N : n = 0 \/ (h[n] # <<>> /\ h[n][1] = seen[1])}
<1> HIDE DEF N
<1>3. 0 \in S
  BY <1>1
<1>4. ASSUME NEW n \in 1..N, n - 1 \in S  PROVE n \in S
  <2> DEFINE before == h[n - 1]
             after == h[n]
             s == seen[n]
  <2>1. before \in Seq(Sample) /\ s \in Sample
    BY <1>1, <1>2, <1>4
  <2>2. after = IF s.status = "ok" THEN Append(before, s) ELSE before
    BY <1>1, <1>2
  <2>3. n = 1 => before = <<>> /\ s = seen[1]
    <3>1. 1 - 1 = 0
      OBVIOUS
    <3> QED BY <3>1, <1>2
  <2>4. n # 1 => before # <<>> /\ before[1] = seen[1]
    BY <1>4
  <2> HIDE DEF before, after, s
  <2>5. CASE n = 1
    <3>1. after = Append(<<>>, s) /\ s = seen[1]
      BY <2>2, <2>3, <2>5
    <3>2. after # <<>> /\ after[1] = s
      BY <3>1
    <3> QED BY <3>1, <3>2, <1>1 DEF after
  <2>6. CASE n # 1
    <3>1. Append(before, s) # <<>> /\ Append(before, s)[1] = before[1]
      <4>1. 1 \in 1..Len(before)
        BY <2>1, <2>4, <2>6, EmptySeq, LenProperties
      <4> QED BY <4>1, <2>1, AppendProperties
    <3>2. after # <<>> /\ after[1] = seen[1]
      BY <3>1, <2>2, <2>4, <2>6
    <3> QED BY <3>2, <1>1 DEF after
  <2> QED BY <2>5, <2>6
<1> HIDE DEF S
<1>5. N \in S
  <2>1. 0..N \subseteq S
    BY <1>1, <1>3, <1>4, InductionOnTurns
  <2> QED BY <2>1, <1>1
<1>6. N # 0 /\ (N = 0 \/ (h[N] # <<>> /\ h[N][1] = seen[1]))
  BY <1>1, <1>5 DEF S
<1> QED BY <1>2, <1>6

(***************************************************************************)
(* Some sample has the largest figure.                                     *)
(***************************************************************************)
LEMMA PeakIsAFigure ==
  ASSUME NEW used \in Seq(Sample), used # <<>>
  PROVE  Max({s.rss : s \in ToSet(used)}) \in {s.rss : s \in ToSet(used)}
<1> DEFINE N == Len(used)
           S == {n \in 0..N : n = 0 \/ \E i \in 1..n : \A j \in 1..n : used[i].rss >= used[j].rss}
           F == {s.rss : s \in ToSet(used)}
<1>1. N \in Nat \ {0} /\ DOMAIN used = 1..N
  BY EmptySeq, LenProperties
<1>2. ASSUME NEW i \in 1..N  PROVE used[i].rss \in Nat
  <2>1. used[i] \in Sample
    BY ElementOfSeq
  <2> QED BY <2>1 DEF Sample
<1> HIDE DEF N
<1>3. 0 \in S
  BY <1>1
<1>4. ASSUME NEW n \in 1..N, n - 1 \in S  PROVE n \in S
  <2>1. CASE n = 1
    <3>1. 1 \in 1..1 /\ \A j \in 1..1 : used[1].rss >= used[j].rss
      BY <1>1, <1>2
    <3> QED BY <3>1, <2>1, <1>1
  <2>2. CASE n # 1
    <3>1. PICK i \in 1..(n - 1) : \A j \in 1..(n - 1) : used[i].rss >= used[j].rss
      BY <1>4, <2>2
    <3> DEFINE m == IF used[i].rss >= used[n].rss THEN i ELSE n
    <3>2. m \in 1..n /\ used[i].rss \in Nat /\ used[n].rss \in Nat
      BY <3>1, <1>1, <1>2
    <3>3. used[m].rss >= used[i].rss /\ used[m].rss >= used[n].rss
      BY <3>2
    <3>4. ASSUME NEW j \in 1..n  PROVE used[m].rss >= used[j].rss
      <4>1. used[j].rss \in Nat /\ used[m].rss \in Nat
        BY <1>1, <1>2, <3>2
      <4>2. j = n \/ j \in 1..(n - 1)
        BY <1>1
      <4> HIDE DEF m
      <4> QED BY <4>1, <4>2, <3>1, <3>2, <3>3
    <3> HIDE DEF m
    <3>5. \E x \in 1..n : \A j \in 1..n : used[x].rss >= used[j].rss
      BY <3>2, <3>4
    <3> QED BY <3>5, <1>1
  <2> QED BY <2>1, <2>2
<1> HIDE DEF S
<1>5. N \in S
  <2>1. 0..N \subseteq S
    BY <1>1, <1>3, <1>4, InductionOnTurns
  <2> QED BY <2>1, <1>1
<1>6. PICK i \in 1..N : \A j \in 1..N : used[i].rss >= used[j].rss
  BY <1>1, <1>5 DEF S
<1>7. \E x \in F : \A y \in F : x >= y
  <2>1. used[i] \in ToSet(used)
    BY <1>1 DEF ToSet
  <2>2. used[i].rss \in F
    BY <2>1
  <2>3. ASSUME NEW s \in ToSet(used)  PROVE used[i].rss >= s.rss
    BY <1>1, <1>6 DEF ToSet
  <2> QED BY <2>2, <2>3
<1> HIDE DEF F
<1>8. Max(F) \in F
  BY <1>7 DEF Max
<1> QED BY <1>8 DEF F

-----------------------------------------------------------------------------
(***************************************************************************)
(* The loop over the intervals, turn by turn.                              *)
(***************************************************************************)
LEMMA RiseHistory ==
  ASSUME NEW used \in Seq(Sample), NEW counter \in [DOMAIN used -> Nat]
  PROVE  \E h \in [0..Len(used) -> Int] :
           /\ h[0] = 0
           /\ \A n \in 1..Len(used) :
                h[n] = IF n \in Valid(used)
                         THEN h[n - 1] + (counter[n] - counter[n - 1])
                       ELSE h[n - 1]
           /\ ValidRise(used, counter) = h[Len(used)]
<1> DEFINE N == Len(used)
           Turn(acc, n) == IF n \in Valid(used)
                             THEN acc + (counter[n] - counter[n - 1])
                           ELSE acc
           body == [x \in Int \X (1..N) |-> Turn(x[1], x[2])]
           Solves(f) == f = [n \in 0..N |-> IF n = 0 THEN 0 ELSE Turn(f[n - 1], n)]
           h == CHOOSE f : Solves(f)
<1>1. N \in Nat /\ 0 \in Int
  OBVIOUS
<1>2. ASSUME NEW acc \in Int, NEW n \in 1..N  PROVE Turn(acc, n) \in Int
  <2>1. CASE n \in Valid(used)
    <3>1. n \in 2..Len(used)
      BY <2>1 DEF Valid
    <3>2. n \in DOMAIN used /\ n - 1 \in DOMAIN used
      BY <3>1, LenProperties
    <3> QED BY <3>2
  <2> QED BY <2>1
<1>3. ValidRise(used, counter) = h[N]
  BY DEF ValidRise
<1> HIDE DEF N, Turn
<1>4. body \in [Int \X (1..N) -> Int]
  BY <1>2
<1>5. PICK f : IsHistory(f, N, Int, 0, body)
  <2> HIDE DEF body
  <2> QED BY <1>1, <1>4, LoopHasHistory
<1>6. Solves(f)
  <2>1. f \in [0..N -> Int] /\ f[0] = 0
    BY <1>5 DEF IsHistory
  <2>2. ASSUME NEW n \in 1..N  PROVE f[n] = Turn(f[n - 1], n)
    <3>1. n - 1 \in 0..N
      BY <1>1
    <3>2. f[n - 1] \in Int
      BY <2>1, <3>1
    <3> QED BY <3>2, <1>5 DEF IsHistory
  <2> QED BY <1>1, <2>1, <2>2
<1>7. Solves(h)
  <2> HIDE DEF Solves
  <2> QED BY <1>6
<1> HIDE DEF h
<1>8. h[0] = 0 /\ \A n \in 1..N : h[n] = Turn(h[n - 1], n)
  BY <1>1, <1>7
<1>9. h \in [0..N -> Int]
  <2>1. h = [n \in 0..N |-> h[n]]
    BY <1>7
  <2>2. \A n \in 1..N : h[n - 1] \in Int => h[n] \in Int
    BY <1>2, <1>8
  <2>3. h[0] \in Int
    BY <1>8
  <2> HIDE DEF body, Solves
  <2> QED BY <1>1, <2>1, <2>2, <2>3, LoopTyped, Zenon
<1> QED BY <1>3, <1>8, <1>9 DEF N, Turn

(***************************************************************************)
(* The rise of a counter, where there is one, is a number.                 *)
(***************************************************************************)
LEMMA RiseIsANumber ==
  ASSUME NEW used \in Seq(Sample), NEW counter \in [DOMAIN used -> Nat]
  PROVE  ValidRise(used, counter) \in Int
<1>1. PICK h \in [0..Len(used) -> Int] : ValidRise(used, counter) = h[Len(used)]
  BY RiseHistory
<1>2. Len(used) \in 0..Len(used)
  OBVIOUS
<1> QED BY <1>1, <1>2

(***************************************************************************)
(* When every interval is valid, the rises add up to the whole.            *)
(***************************************************************************)
LEMMA RisesAddUp ==
  ASSUME NEW used \in Seq(Sample), NEW counter \in [DOMAIN used -> Nat],
         used # <<>>, Valid(used) = 2..Len(used)
  PROVE  ValidRise(used, counter) = counter[Len(used)] - counter[1]
<1> DEFINE N == Len(used)
<1>1. N \in Nat \ {0} /\ DOMAIN used = 1..N
  BY EmptySeq, LenProperties
<1>2. PICK h \in [0..N -> Int] :
        /\ h[0] = 0
        /\ \A n \in 1..N :
             h[n] = IF n \in Valid(used)
                      THEN h[n - 1] + (counter[n] - counter[n - 1])
                    ELSE h[n - 1]
        /\ ValidRise(used, counter) = h[N]
  BY RiseHistory
<1>3. Valid(used) = 2..N
  OBVIOUS
<1> DEFINE S == {n \in 0..N : n = 0 \/ h[n] = counter[n] - counter[1]}
<1> HIDE DEF N
<1>4. 0 \in S
  BY <1>1
<1>5. ASSUME NEW n \in 1..N, n - 1 \in S  PROVE n \in S
  <2>1. CASE n = 1
    <3>1. 1 \notin 2..N /\ 1 - 1 = 0 /\ counter[1] \in Nat
      BY <1>1
    <3>2. h[1] = 0
      BY <3>1, <2>1, <1>2, <1>3
    <3> QED BY <3>1, <3>2, <2>1, <1>1
  <2>2. CASE n # 1
    <3>1. n \in 2..N /\ n - 1 \in 1..N
      BY <2>2, <1>1
    <3>2. counter[n] \in Nat /\ counter[n - 1] \in Nat /\ counter[1] \in Nat
      BY <3>1, <1>1
    <3>3. h[n] = h[n - 1] + (counter[n] - counter[n - 1])
      BY <3>1, <1>2, <1>3
    <3>4. h[n - 1] = counter[n - 1] - counter[1]
      BY <2>2, <1>5
    <3>5. h[n] = counter[n] - counter[1]
      BY <3>2, <3>3, <3>4
    <3> QED BY <3>5, <1>1
  <2> QED BY <2>1, <2>2
<1> HIDE DEF S
<1>6. N \in S
  <2>1. 0..N \subseteq S
    BY <1>1, <1>4, <1>5, InductionOnTurns
  <2> QED BY <2>1, <1>1
<1> QED BY <1>1, <1>2, <1>6 DEF S, N

(***************************************************************************)
(* A counter that never falls from one sample to the next does not fall    *)
(* from the first to the last.                                             *)
(***************************************************************************)
LEMMA NeverFalls ==
  ASSUME NEW used \in Seq(Sample), NEW counter \in [DOMAIN used -> Nat],
         used # <<>>, \A i \in 2..Len(used) : counter[i] >= counter[i - 1]
  PROVE  counter[Len(used)] >= counter[1]
<1> DEFINE N == Len(used)
           S == {n \in 0..N : n = 0 \/ counter[n] >= counter[1]}
<1>1. N \in Nat \ {0} /\ DOMAIN used = 1..N
  BY EmptySeq, LenProperties
<1>2. \A i \in 2..N : counter[i] >= counter[i - 1]
  OBVIOUS
<1> HIDE DEF N
<1>3. 0 \in S
  BY <1>1
<1>4. ASSUME NEW n \in 1..N, n - 1 \in S  PROVE n \in S
  <2>1. CASE n = 1
    BY <2>1, <1>1
  <2>2. CASE n # 1
    <3>1. n \in 2..N /\ n - 1 \in 1..N
      BY <2>2, <1>1
    <3>2. counter[n] \in Nat /\ counter[n - 1] \in Nat /\ counter[1] \in Nat
      BY <3>1, <1>1
    <3>3. counter[n - 1] >= counter[1] /\ counter[n] >= counter[n - 1]
      BY <3>1, <2>2, <1>2, <1>4
    <3>4. counter[n] >= counter[1]
      BY <3>2, <3>3
    <3> QED BY <3>4, <1>1
  <2> QED BY <2>1, <2>2
<1> HIDE DEF S
<1>5. N \in S
  <2>1. 0..N \subseteq S
    BY <1>1, <1>3, <1>4, InductionOnTurns
  <2> QED BY <2>1, <1>1
<1> QED BY <1>1, <1>5 DEF S, N

-----------------------------------------------------------------------------
(***************************************************************************)
(* A report has the shape of one whatever the samples were.                *)
(***************************************************************************)
LEMMA CountersTyped ==
  ASSUME NEW used \in Seq(Sample)
  PROVE  /\ [i \in DOMAIN used |-> used[i].at] \in [DOMAIN used -> Nat]
         /\ [i \in DOMAIN used |-> used[i].cpu] \in [DOMAIN used -> Nat]
<1>1. ASSUME NEW i \in DOMAIN used  PROVE used[i].at \in Nat /\ used[i].cpu \in Nat
  <2>1. used[i] \in Sample
    BY LenProperties, ElementOfSeq
  <2> QED BY <2>1 DEF Sample
<1> QED BY <1>1

(***************************************************************************)
(* A report and its reasons for what is missing are of their kind.         *)
(***************************************************************************)
LEMMA ReasonsTyped ==
  ASSUME NEW seen \in Seq(Sample), NEW missing \in SUBSET Reason
  PROVE  Reasons(seen, missing) \in SUBSET Reason
<1>1. \A s \in ToSet(seen) : s.status \in SampleStatus
  <2>1. \A i \in DOMAIN seen : seen[i] \in Sample
    BY LenProperties, ElementOfSeq
  <2> QED BY <2>1 DEF ToSet, Sample
<1>2. Rejected(Usable(seen)) \subseteq {"pid_identity_changed", "invalid_counter_delta"}
  BY DEF Rejected, Verdict
<1> QED BY <1>1, <1>2 DEF Reasons, Reason, SampleStatus

LEMMA ReportTyped ==
  ASSUME NEW seen \in Seq(Sample), NEW missing \in SUBSET Reason
  PROVE  FromSamples(seen, missing) \in Report
<1> DEFINE used == Usable(seen)
           last == Last(used)
<1>1. used \in Seq(Sample)
  BY UsableAreTheOk
<1> HIDE DEF used
<1>2. Reasons(seen, missing) \in SUBSET Reason
  BY ReasonsTyped
<1>3. WallTime(used) \in Int /\ BusyTime(used) \in Int
  BY <1>1, CountersTyped, RiseIsANumber DEF WallTime, BusyTime
<1>4. Len(used) \in Nat
  BY <1>1
<1>5. used # <<>> => Max({s.rss : s \in ToSet(used)}) \in Int
  <2> SUFFICES ASSUME used # <<>>  PROVE Max({s.rss : s \in ToSet(used)}) \in Int
    OBVIOUS
  <2>1. Max({s.rss : s \in ToSet(used)}) \in {s.rss : s \in ToSet(used)}
    BY <1>1, PeakIsAFigure
  <2>2. ASSUME NEW s \in ToSet(used)  PROVE s.rss \in Int
    <3>1. PICK i \in DOMAIN used : s = used[i]
      BY DEF ToSet
    <3>2. used[i] \in Sample
      BY <1>1, LenProperties, ElementOfSeq
    <3> QED BY <3>1, <3>2 DEF Sample
  <2> QED BY <2>1, <2>2
<1>6. Valid(used) # {} => /\ last.at - used[1].at \in Int
                          /\ Max({0, last.cpu - used[1].cpu}) \in Int
  <2> SUFFICES ASSUME Valid(used) # {}
               PROVE  /\ last.at - used[1].at \in Int
                      /\ Max({0, last.cpu - used[1].cpu}) \in Int
    OBVIOUS
  <2>1. Len(used) >= 2
    BY <1>4 DEF Valid
  <2>2. last = used[Len(used)]
    BY DEF Last
  <2>3. 1 \in 1..Len(used) /\ Len(used) \in 1..Len(used)
    BY <1>4, <2>1
  <2>4. used[1] \in Sample /\ last \in Sample
    BY <1>1, <2>2, <2>3, ElementOfSeq
  <2>5. /\ used[1].at \in Nat /\ used[1].cpu \in Nat
        /\ last.at \in Nat /\ last.cpu \in Nat
    BY <2>4 DEF Sample
  <2> DEFINE gain == last.cpu - used[1].cpu
  <2>6. gain \in Int
    BY <2>5
  <2> HIDE DEF gain, last
  <2>7. \E x \in {0, gain} : \A y \in {0, gain} : x >= y
    BY <2>6
  <2>8. Max({0, gain}) \in {0, gain}
    BY <2>7 DEF Max
  <2>9. Max({0, gain}) \in Int
    BY <2>6, <2>8
  <2> QED BY <2>5, <2>9 DEF gain
<1>7. Status(used, Reasons(seen, missing)) \in ReportStatus
  BY DEF Status, ReportStatus
<1> DEFINE peak == IF used = <<>> THEN NoFigure ELSE Max({s.rss : s \in ToSet(used)})
           IfAnyValid(figure) == IF Valid(used) = {} THEN NoFigure ELSE figure
           wall == IfAnyValid(WallTime(used))
           busy == IfAnyValid(BusyTime(used))
           duration == IfAnyValid(last.at - used[1].at)
           cpu == IfAnyValid(Max({0, last.cpu - used[1].cpu}))
<1>8. NoFigure \in Int
  BY DEF NoFigure
<1>9. /\ peak \in Int /\ wall \in Int /\ busy \in Int
      /\ duration \in Int /\ cpu \in Int
  BY <1>3, <1>5, <1>6, <1>8
<1>10. FromSamples(seen, missing) =
        [status |-> Status(used, Reasons(seen, missing)),
         reasons |-> Reasons(seen, missing), count |-> Len(used), peak |-> peak,
         wall |-> wall, busy |-> busy, duration |-> duration, cpu |-> cpu]
  BY DEF FromSamples, used
<1> HIDE DEF peak, wall, busy, duration, cpu, last
<1> QED BY <1>2, <1>4, <1>7, <1>9, <1>10 DEF Report

-----------------------------------------------------------------------------
(***************************************************************************)
(* A sample with figures is of the worker or of the process that got its   *)
(* pid, and the two differ in what they weigh.                             *)
(***************************************************************************)
TellsTheProcess(s, own, foreign) ==
  s.status = "ok" => \/ s.ticks = own /\ s.rss = 1
                     \/ s.ticks = foreign /\ s.rss = 2

(***************************************************************************)
(* A report that says "ok" is of the process of the first sample alone,    *)
(* and the sums over its intervals are the differences between the first   *)
(* sample and the last.                                                    *)
(***************************************************************************)
LEMMA OkReportAddsUp ==
  ASSUME NEW seen \in Seq(Sample), NEW missing \in SUBSET Reason,
         NEW own \in Starts, NEW foreign \in Starts, own # foreign,
         \A s \in ToSet(seen) : TellsTheProcess(s, own, foreign),
         FromSamples(seen, missing).status = "ok",
         seen # <<>> => seen[1].ticks # foreign
  PROVE  LET r == FromSamples(seen, missing)
         IN /\ r.count >= 2 /\ r.reasons = {} /\ r.peak = 1
            /\ r.wall = r.duration /\ r.busy = r.cpu
<1> DEFINE used == Usable(seen)
           N == Len(used)
           reasons == Reasons(seen, missing)
           first == used[1]
           last == used[N]
<1>1. used \in Seq(Sample) /\ ToSet(used) = {s \in ToSet(seen) : s.status = "ok"}
  BY UsableAreTheOk
<1>2. Status(used, reasons) = "ok"
  BY DEF FromSamples
<1>3. used # <<>> /\ Valid(used) # {} /\ reasons = {}
  BY <1>2 DEF Status
<1>4. N \in Nat /\ N >= 2
  <2>1. N \in Nat
    BY <1>1
  <2> QED BY <2>1, <1>3 DEF Valid
<1>5. seen # <<>>
  <2>1. ASSUME seen = <<>>  PROVE FALSE
    <3>1. ToSet(seen) = {}
      BY <2>1 DEF ToSet
    <3>2. ToSet(used) = {}
      BY <1>1, <3>1
    <3>3. 1 \in DOMAIN used
      BY <1>1, <1>4, LenProperties
    <3> QED BY <3>2, <3>3 DEF ToSet
  <2> QED BY <2>1
<1>6. \A s \in ToSet(seen) : s.status = "ok"
  BY <1>3 DEF Reasons
<1>7. Rejected(used) = {}
  BY <1>3 DEF Reasons
<1>8. \A i \in 2..N : Verdict(used, i) = "valid"
  BY <1>7 DEF Rejected
<1>9. Valid(used) = 2..N
  BY <1>8 DEF Valid
<1>10. first.ticks = own
  <2>1. 1 \in DOMAIN seen
    BY <1>5, EmptySeq, LenProperties
  <2>2. seen[1] \in ToSet(seen)
    BY <2>1 DEF ToSet
  <2>3. seen[1].status = "ok" /\ seen[1].ticks = own
    BY <2>2, <1>5, <1>6 DEF TellsTheProcess
  <2> QED BY <2>3, <1>5, FirstStaysFirst
<1> HIDE DEF used, N, reasons
<1>11. DOMAIN used = 1..N
  BY <1>1, LenProperties DEF N
<1>12. ASSUME NEW i \in 1..N  PROVE used[i].ticks = own /\ used[i].rss = 1
  <2>1. used[i] \in ToSet(used)
    BY <1>11 DEF ToSet
  <2>2. TellsTheProcess(used[i], own, foreign) /\ used[i].status = "ok"
    BY <2>1, <1>1
  <2>3. used[i].ticks # foreign
    <3>1. CASE i = 1
      BY <3>1, <1>10
    <3>2. CASE i # 1
      <4>1. i \in 2..N
        BY <3>2, <1>4
      <4>2. Matches(first.ticks, used[i].ticks)
        BY <4>1, <1>8 DEF Verdict
      <4> QED BY <4>2, <1>10, ReportAssumption DEF Matches
    <3> QED BY <3>1, <3>2
  <2> QED BY <2>2, <2>3 DEF TellsTheProcess
<1>13. {s.rss : s \in ToSet(used)} = {1}
  <2>1. 1 \in 1..N
    BY <1>4
  <2>2. \A s \in ToSet(used) : s.rss = 1
    BY <1>11, <1>12 DEF ToSet
  <2>3. used[1] \in ToSet(used)
    BY <2>1, <1>11 DEF ToSet
  <2> QED BY <2>2, <2>3
<1>14. Max({1}) = 1
  <2>1. \E x \in {1} : \A y \in {1} : x >= y
    OBVIOUS
  <2> QED BY <2>1 DEF Max
<1> DEFINE at == [i \in DOMAIN used |-> used[i].at]
           cpu == [i \in DOMAIN used |-> used[i].cpu]
<1>15. at \in [DOMAIN used -> Nat] /\ cpu \in [DOMAIN used -> Nat]
  BY <1>1, CountersTyped
<1>16. /\ at[1] = first.at /\ at[N] = last.at
       /\ cpu[1] = first.cpu /\ cpu[N] = last.cpu
  BY <1>4, <1>11
<1>17. \A i \in 2..N : cpu[i] >= cpu[i - 1]
  <2> SUFFICES ASSUME NEW i \in 2..N  PROVE cpu[i] >= cpu[i - 1]
    OBVIOUS
  <2>1. ~(used[i].cpu < used[i - 1].cpu)
    BY <1>8 DEF Verdict
  <2>2. i \in 1..N /\ i - 1 \in 1..N
    BY <1>4
  <2>3. cpu[i] = used[i].cpu /\ cpu[i - 1] = used[i - 1].cpu
    BY <2>2, <1>11
  <2>4. cpu[i] \in Nat /\ cpu[i - 1] \in Nat
    BY <2>2, <1>11, <1>15
  <2> HIDE DEF cpu
  <2> QED BY <2>1, <2>3, <2>4
<1>18. WallTime(used) = at[N] - at[1] /\ BusyTime(used) = cpu[N] - cpu[1]
  <2> HIDE DEF at, cpu
  <2>1. ValidRise(used, at) = at[N] - at[1]
    BY <1>1, <1>3, <1>9, <1>15, RisesAddUp DEF N
  <2>2. ValidRise(used, cpu) = cpu[N] - cpu[1]
    BY <1>1, <1>3, <1>9, <1>15, RisesAddUp DEF N
  <2> QED BY <2>1, <2>2 DEF WallTime, BusyTime, at, cpu
<1>19. cpu[N] - cpu[1] \in Nat
  <2>1. cpu[N] \in Nat /\ cpu[1] \in Nat
    BY <1>4, <1>11, <1>15
  <2>2. cpu[N] >= cpu[1]
    <3> HIDE DEF cpu
    <3> QED BY <1>1, <1>3, <1>15, <1>17, NeverFalls DEF N
  <2> HIDE DEF cpu
  <2> QED BY <2>1, <2>2
<1>20. Max({0, last.cpu - first.cpu}) = cpu[N] - cpu[1]
  <2> DEFINE gain == cpu[N] - cpu[1]
  <2>1. gain \in Nat /\ last.cpu - first.cpu = gain
    BY <1>16, <1>19
  <2> HIDE DEF gain
  <2>2. gain \in {0, gain} /\ \A y \in {0, gain} : gain >= y
    BY <2>1
  <2>3. \A x \in {0, gain} : (\A y \in {0, gain} : x >= y) => x = gain
    BY <2>1
  <2>4. Max({0, gain}) = gain
    BY <2>2, <2>3 DEF Max
  <2> QED BY <2>1, <2>4 DEF gain
<1>21. Last(used) = last
  BY DEF Last, N
<1> HIDE DEF at, cpu
<1>22. LET r == FromSamples(seen, missing)
       IN /\ r.count = N /\ r.reasons = reasons
          /\ r.peak = Max({s.rss : s \in ToSet(used)})
          /\ r.wall = WallTime(used) /\ r.busy = BusyTime(used)
          /\ r.duration = last.at - first.at
          /\ r.cpu = Max({0, last.cpu - first.cpu})
  BY <1>3, <1>21 DEF FromSamples, N, used, reasons
<1> HIDE DEF last, first
<1> QED BY <1>3, <1>4, <1>13, <1>14, <1>16, <1>18, <1>20, <1>22

-----------------------------------------------------------------------------
(***************************************************************************)
(* The parent has not collected its first sample yet.                      *)
(***************************************************************************)
FirstSampling ==
  pc.parent \in {"spawn", "sampler"} \/ (pc.parent \in CollectPC /\ ~stop)

SamplesTell ==
  /\ \A s \in ToSet(samples) : TellsTheProcess(s, Own, Foreign)
  /\ \A a \in Actors : TellsTheProcess(hand[a], Own, Foreign)

(***************************************************************************)
(* The first sample is taken before anybody else could have the pid of the *)
(* worker, or something was missed.                                        *)
(***************************************************************************)
WorkerIsFirst ==
  /\ FirstSampling => /\ pc.thread = "off" /\ child # "reaped" /\ samples = <<>>
                      /\ hand["parent"].ticks # Foreign
  /\ samples = <<>> /\ missed = {} =>
       /\ pc.thread = "off"
       /\ FirstSampling \/ pc.parent = "returned"
  /\ samples # <<>> /\ missed = {} => samples[1].ticks # Foreign

SInv ==
  /\ IInv
  /\ TypeOK
  /\ SamplesTell
  /\ WorkerIsFirst
  /\ OkReportIsTrusted

-----------------------------------------------------------------------------
(***************************************************************************)
(* What a backend may see, typed; and nobody but the worker has its pid    *)
(* before it is reaped.                                                    *)
(***************************************************************************)
LEMMA NothingSeen ==
  /\ NoSample \in Sample /\ TellsTheProcess(NoSample, Own, Foreign)
  /\ NoSample.ticks # Foreign
BY ReportAssumption, SupervisorAssumption
DEF NoSample, Sample, SampleStatus, TellsTheProcess

(***************************************************************************)
(* So are a sample of a process and one that could not be taken.           *)
(***************************************************************************)
LEMMA SightTyped ==
  ASSUME TypeOK, NEW found \in Visible, found # "exception", NEW seen \in Sight(found)
  PROVE  /\ seen \in Sample /\ TellsTheProcess(seen, Own, Foreign)
         /\ child # "reaped" => seen.ticks # Foreign
<1>1. clock \in Nat /\ ended \in Nat /\ Own \in Starts /\ Foreign \in Starts
      /\ Own # Foreign
  BY SupervisorAssumption DEF TypeOK
<1>2. CASE found = "own"
  <2> DEFINE c == IF child = "running" THEN clock ELSE ended
  <2>1. seen = [status |-> "ok", ticks |-> Own, at |-> 0, rss |-> 1, cpu |-> c]
    BY <1>2 DEF Sight
  <2>2. c \in Nat
    BY <1>1
  <2> HIDE DEF c
  <2> QED BY <1>1, <2>1, <2>2 DEF Sample, SampleStatus, TellsTheProcess
<1>3. CASE found = "foreign"
  <2>1. PICK c \in {0, clock} :
          seen = [status |-> "ok", ticks |-> Foreign, at |-> 0, rss |-> 2, cpu |-> c]
    BY <1>3 DEF Sight
  <2>2. c \in Nat
    BY <1>1
  <2>3. child = "reaped"
    BY <1>3 DEF Visible
  <2> QED BY <1>1, <2>1, <2>2, <2>3 DEF Sample, SampleStatus, TellsTheProcess
<1>4. CASE found \notin {"own", "foreign"}
  <2>1. seen = NoSample
    BY <1>4 DEF Sight
  <2> QED BY <2>1, NothingSeen
<1> QED BY <1>2, <1>3, <1>4

LEMMA UnavailableTyped ==
  ASSUME NEW reason \in Reason
  PROVE  Unavailable(reason) \in Report
BY DEF Unavailable, Report, ReportStatus, NoFigure

\* Nothing has been sampled.
(***************************************************************************)
(* The samples at the start, and the steps that do not touch them.         *)
(***************************************************************************)
LEMMA SInvInit == Init => SInv
<1> SUFFICES ASSUME Init  PROVE SInv
  OBVIOUS
<1>1. IInv
  BY InitEstablishes
<1>2. /\ samples = <<>> /\ samples \in Seq(Sample) /\ ToSet(samples) = {}
      /\ missed = {} /\ hand = [a \in Actors |-> NoSample]
  BY DEF Init, ToSet
<1>3. report \in Report /\ report.status # "ok"
  BY UnavailableTyped, UnavailableIsNotOk DEF Init, Reason
<1>4. TypeOK
  BY <1>2, <1>3, NothingSeen DEF Init, TypeOK, Actors, Answer, Outcome
<1>5. SamplesTell /\ WorkerIsFirst
  BY <1>2, NothingSeen DEF Init, SamplesTell, WorkerIsFirst, FirstSampling, Actors
<1> QED BY <1>1, <1>3, <1>4, <1>5 DEF SInv, OkReportIsTrusted

-----------------------------------------------------------------------------
\* The environment neither samples nor notes anything.
LEMMA EnvironmentSamplesNot ==
  ASSUME SInv, ExitsByItself \/ DiesOfSignal \/ Tick
  PROVE  SInv'
<1>1. IInv'
  BY EnvironmentKeeps DEF SInv
<1>2. /\ UNCHANGED <<pc, samples, missed, hand, stop, report, taken, verdict,
                     outcome, answer, sampler>>
      /\ child' = child \/ child' = "exited"
  BY DEF ExitsByItself, DiesOfSignal, Exit, Tick
<1>3. ended' \in Nat /\ clock' \in Nat /\ exit' \in {"none", "zero", "nonzero", "signal"}
  BY DEF ExitsByItself, DiesOfSignal, Exit, Tick, SInv, TypeOK
<1>4. TypeOK'
  BY <1>2, <1>3 DEF SInv, TypeOK
<1>5. SamplesTell' /\ WorkerIsFirst' /\ OkReportIsTrusted'
  BY <1>2 DEF SInv, SamplesTell, WorkerIsFirst, FirstSampling, OkReportIsTrusted
<1> QED BY <1>1, <1>4, <1>5 DEF SInv

(***************************************************************************)
(* Looking the pid up: the parent's first look comes before the worker is  *)
(* reaped, every other after the first sample or after a mark in missed.   *)
(***************************************************************************)
LEMMA ReadSamples ==
  ASSUME SInv, NEW actor \in Actors, Read(actor)
  PROVE  SInv'
<1>1. IInv'
  BY CollectKeeps DEF SInv, Collect
<1>2. PICK found \in Visible :
        IF found = "exception"
          THEN /\ Note("sampler_exception")
               /\ Goto(actor, After(actor))
               /\ UNCHANGED hand
          ELSE /\ \E seen \in Sight(found) : hand' = [hand EXCEPT ![actor] = seen]
               /\ Goto(actor, "stamp")
               /\ UNCHANGED missed
  BY DEF Read
<1>3. /\ UNCHANGED <<child, exit, ended, sampler, stop, samples, taken, verdict,
                     outcome, report, answer, clock>>
      /\ pc[actor] = "read"
  BY DEF Read
<1>4. pc' \in [parent : ParentPC, thread : ThreadPC]
  BY <1>1 DEF IInv
<1>5. CASE found = "exception"
  <2>1. /\ missed' = missed \cup {"sampler_exception"} /\ UNCHANGED hand
        /\ pc' = [pc EXCEPT ![actor] = After(actor)]
    BY <1>2, <1>5 DEF Note, Goto
  <2>2. TypeOK'
    BY <1>3, <1>4, <2>1 DEF SInv, TypeOK, Reason
  <2>3. SamplesTell' /\ OkReportIsTrusted'
    BY <1>3, <2>1 DEF SInv, SamplesTell, OkReportIsTrusted
  <2>4. WorkerIsFirst'
    BY <1>3, <2>1 DEF SInv, TypeOK, WorkerIsFirst, FirstSampling, After, Actors
  <2> QED BY <1>1, <2>2, <2>3, <2>4 DEF SInv
<1>6. CASE found # "exception"
  <2>1. PICK seen \in Sight(found) : hand' = [hand EXCEPT ![actor] = seen]
    BY <1>2, <1>6
  <2>2. UNCHANGED missed /\ pc' = [pc EXCEPT ![actor] = "stamp"]
    BY <1>2, <1>6 DEF Goto
  <2>3. /\ seen \in Sample /\ TellsTheProcess(seen, Own, Foreign)
        /\ child # "reaped" => seen.ticks # Foreign
    BY <1>6, SightTyped DEF SInv
  <2>4. /\ hand \in [Actors -> Sample] /\ hand' \in [Actors -> Sample]
        /\ hand'[actor] = seen
        /\ \A a \in Actors : a # actor => hand'[a] = hand[a]
    BY <2>1, <2>3 DEF SInv, TypeOK
  <2>5. TypeOK'
    BY <1>3, <1>4, <2>2, <2>4 DEF SInv, TypeOK
  <2>6. SamplesTell' /\ OkReportIsTrusted'
    BY <1>3, <2>3, <2>4 DEF SInv, SamplesTell, OkReportIsTrusted
  <2>7. WorkerIsFirst'
    BY <1>3, <2>2, <2>3, <2>4 DEF SInv, TypeOK, WorkerIsFirst, FirstSampling, Actors
  <2> QED BY <1>1, <2>5, <2>6, <2>7 DEF SInv
<1> QED BY <1>5, <1>6

\* The time stamp changes nothing about whose sample it is.
(***************************************************************************)
(* A sample more: the steps of the sampler and of its thread.              *)
(***************************************************************************)
LEMMA StampSamples ==
  ASSUME SInv, NEW actor \in Actors, Stamp(actor)
  PROVE  SInv'
<1>1. IInv'
  BY CollectKeeps DEF SInv, Collect
<1>2. /\ UNCHANGED <<child, exit, ended, sampler, stop, samples, missed, taken,
                     verdict, outcome, report, answer, clock>>
      /\ pc[actor] = "stamp" /\ pc' = [pc EXCEPT ![actor] = "append"]
      /\ hand' = [hand EXCEPT ![actor].at = clock]
  BY DEF Stamp, Goto
<1>3. pc' \in [parent : ParentPC, thread : ThreadPC]
  BY <1>1 DEF IInv
<1>4. hand \in [Actors -> Sample] /\ clock \in Nat
  BY DEF SInv, TypeOK
<1> DEFINE old == hand[actor]
           new == [old EXCEPT !.at = clock]
<1>5. /\ old \in Sample /\ new \in Sample /\ new.ticks = old.ticks
      /\ new.status = old.status /\ new.rss = old.rss
  BY <1>4 DEF Sample
<1>6. hand' = [hand EXCEPT ![actor] = new]
  BY <1>2
<1> HIDE DEF new
<1>7. /\ hand' \in [Actors -> Sample] /\ hand'[actor] = new
      /\ \A a \in Actors : a # actor => hand'[a] = hand[a]
  BY <1>4, <1>5, <1>6
<1>8. TypeOK'
  BY <1>2, <1>3, <1>7 DEF SInv, TypeOK
<1>9. SamplesTell' /\ OkReportIsTrusted'
  BY <1>2, <1>5, <1>7 DEF SInv, SamplesTell, OkReportIsTrusted, TellsTheProcess
<1>10. WorkerIsFirst'
  BY <1>2, <1>5, <1>7 DEF SInv, TypeOK, WorkerIsFirst, FirstSampling, Actors
<1> QED BY <1>1, <1>8, <1>9, <1>10 DEF SInv

(***************************************************************************)
(* Appending: the first sample is the parent's, or something was missed    *)
(* before.                                                                 *)
(***************************************************************************)
LEMMA AppendSamples ==
  ASSUME SInv, NEW actor \in Actors, AppendSample(actor)
  PROVE  SInv'
<1>1. IInv'
  BY CollectKeeps DEF SInv, Collect
<1>2. /\ UNCHANGED <<child, exit, ended, sampler, stop, missed, taken,
                     verdict, outcome, report, answer, clock>>
      /\ pc[actor] = "append" /\ pc' = [pc EXCEPT ![actor] = After(actor)]
      /\ hand' = [hand EXCEPT ![actor] = NoSample]
      /\ samples' = Append(samples, hand[actor])
  BY DEF AppendSample, Goto
<1>3. pc' \in [parent : ParentPC, thread : ThreadPC]
  BY <1>1 DEF IInv
<1>4. hand \in [Actors -> Sample] /\ samples \in Seq(Sample)
  BY DEF SInv, TypeOK
<1> DEFINE s == hand[actor]
<1>5. s \in Sample /\ TellsTheProcess(s, Own, Foreign)
  BY <1>4 DEF SInv, SamplesTell
<1>6. /\ hand' \in [Actors -> Sample] /\ hand'[actor] = NoSample
      /\ \A a \in Actors : a # actor => hand'[a] = hand[a]
  BY <1>2, <1>4, NothingSeen
<1>7. /\ samples' \in Seq(Sample) /\ samples' # <<>>
      /\ ToSet(samples') = ToSet(samples) \cup {s}
      /\ samples # <<>> => samples'[1] = samples[1]
      /\ samples = <<>> => samples'[1] = s
  <2>1. ToSet(Append(samples, s)) = ToSet(samples) \cup {s}
    BY <1>4, <1>5, AppendToSet
  <2>2. Append(samples, s) \in Seq(Sample)
    BY <1>4, <1>5, AppendProperties
  <2>3. ASSUME samples # <<>>  PROVE Append(samples, s)[1] = samples[1]
    <3>1. 1 \in 1..Len(samples)
      BY <1>4, <2>3, EmptySeq, LenProperties
    <3> QED BY <3>1, <1>4, <1>5, AppendProperties
  <2>4. samples = <<>> => Append(samples, s)[1] = s
    <3>1. Append(<<>>, s)[1] = s
      OBVIOUS
    <3> QED BY <3>1
  <2>5. Append(samples, s) # <<>>
    BY <1>4, <1>5, AppendProperties
  <2> HIDE DEF s
  <2> QED BY <1>2, <2>1, <2>2, <2>3, <2>4, <2>5 DEF s
<1>8. TypeOK'
  BY <1>2, <1>3, <1>6, <1>7 DEF SInv, TypeOK
<1>9. SamplesTell' /\ OkReportIsTrusted'
  BY <1>2, <1>5, <1>6, <1>7, NothingSeen DEF SInv, SamplesTell, OkReportIsTrusted
<1>10. WorkerIsFirst'
  <2>1. FirstSampling' => FALSE
    BY <1>2 DEF SInv, TypeOK, WorkerIsFirst, FirstSampling, Actors, After
  <2>2. samples = <<>> /\ missed = {} => s.ticks # Foreign
    BY <1>2 DEF SInv, TypeOK, WorkerIsFirst, FirstSampling, Actors
  <2> HIDE DEF s
  <2> QED BY <1>2, <1>7, <2>1, <2>2 DEF SInv, WorkerIsFirst
<1> QED BY <1>1, <1>8, <1>9, <1>10 DEF SInv

LEMMA CollectSamples ==
  ASSUME SInv, NEW actor \in Actors, Collect(actor)
  PROVE  SInv'
BY ReadSamples, StampSamples, AppendSamples DEF Collect

LEMMA ThreadSamples ==
  ASSUME SInv, ThreadStep
  PROVE  SInv'
<1>1. CASE Pause
  <2>1. IInv'
    BY <1>1, ThreadKeeps DEF SInv, ThreadStep
  <2>2. /\ UNCHANGED <<child, exit, ended, sampler, stop, samples, missed, hand,
                       verdict, outcome, report, answer, clock>>
        /\ taken' \in Nat /\ pc.thread = "pause" /\ pc'.parent = pc.parent
    BY <1>1 DEF Pause, Goto, SInv, TypeOK
  <2>3. TypeOK'
    BY <2>1, <2>2 DEF IInv, SInv, TypeOK
  <2>4. SamplesTell' /\ WorkerIsFirst' /\ OkReportIsTrusted'
    BY <2>2 DEF SInv, SamplesTell, WorkerIsFirst, FirstSampling, OkReportIsTrusted
  <2> QED BY <2>1, <2>3, <2>4 DEF SInv
<1> QED BY <1>1, CollectSamples DEF ThreadStep, Actors

-----------------------------------------------------------------------------
\* The start: the collector comes before its thread.
(***************************************************************************)
(* The start of a worker and the wait for it.                              *)
(***************************************************************************)
LEMMA StartSamples ==
  ASSUME SInv, Spawn \/ MakeSampler \/ Launch
  PROVE  SInv'
<1>1. IInv'
  BY StartKeeps DEF SInv
<1>2. /\ UNCHANGED <<exit, ended, stop, samples, hand, taken, verdict, answer, clock>>
      /\ missed' = missed \/ missed' = missed \cup {"sampler_unavailable"}
      /\ child' = child \/ child' = "running"
      /\ sampler' \in BOOLEAN
      /\ report' = report \/ report' = Unavailable("spawn_error")
      /\ outcome' \in Outcome \cup {"none"}
  BY DEF Spawn, MakeSampler, Launch, Note, SInv, TypeOK, Outcome
<1>3. report' \in Report /\ OkReportIsTrusted'
  BY <1>2, UnavailableTyped, UnavailableIsNotOk
  DEF SInv, TypeOK, OkReportIsTrusted, Reason
<1>4. TypeOK'
  BY <1>1, <1>2, <1>3 DEF IInv, SInv, TypeOK, Reason
<1>5. SamplesTell'
  BY <1>2 DEF SInv, SamplesTell
<1>6. WorkerIsFirst'
  <2>1. CASE Spawn
    BY <2>1 DEF Spawn, Goto, SInv, TypeOK, WorkerIsFirst, FirstSampling
  <2>2. CASE MakeSampler
    BY <2>2 DEF MakeSampler, Goto, Note, SInv, IInv, TypeOK, WorkerIsFirst, FirstSampling
  <2>3. CASE Launch
    BY <2>3 DEF Launch, SInv, TypeOK, WorkerIsFirst, FirstSampling
  <2> QED BY <2>1, <2>2, <2>3
<1> QED BY <1>1, <1>3, <1>4, <1>5, <1>6 DEF SInv

\* Waiting for the worker only adds to the reasons.
LEMMA WaitingSamples ==
  ASSUME SInv,
         Communicate \/ Terminate \/ Grace \/ Kill \/ Wait \/ Abandon
  PROVE  SInv'
<1>1. IInv'
  BY WaitingKeeps DEF SInv
<1>2. /\ UNCHANGED <<exit, ended, sampler, stop, samples, hand, taken, report,
                     outcome, answer, clock>>
      /\ missed \subseteq missed' /\ missed' \subseteq Reason
      /\ child' \in {child, "reaped"}
      /\ verdict' \in Outcome
      /\ pc.parent \notin {"spawn", "sampler", "returned"} \cup CollectPC
      /\ pc'.parent \notin {"spawn", "sampler", "returned"} \cup CollectPC
      /\ pc'.thread = pc.thread
  BY DEF Communicate, Terminate, Grace, Kill, Wait, Abandon, Signal, Ended, Goto,
         Note, Reap, SInv, TypeOK, Reason, Outcome
<1>3. TypeOK'
  BY <1>1, <1>2 DEF IInv, SInv, TypeOK
<1>4. SamplesTell' /\ WorkerIsFirst' /\ OkReportIsTrusted'
  BY <1>2 DEF SInv, SamplesTell, WorkerIsFirst, FirstSampling, OkReportIsTrusted
<1> QED BY <1>1, <1>3, <1>4 DEF SInv

(***************************************************************************)
(* The end: the report is made of samples that begin with one of the       *)
(* worker, or something was missed.                                        *)
(***************************************************************************)
LEMMA ReportSamples ==
  ASSUME SInv, Finish \/ Join \/ MakeReport \/ Judge
  PROVE  SInv'
<1>1. IInv'
  BY ReportKeeps, JudgeKeeps DEF SInv
<1>2. /\ UNCHANGED <<child, exit, ended, sampler, samples, missed, hand, taken,
                     verdict, clock>>
      /\ stop' \in BOOLEAN /\ answer' \in Answer /\ pc'.thread = pc.thread
      /\ pc.parent \in {"finish", "join", "report", "judge"}
      /\ pc'.parent \notin {"spawn", "sampler"}
      /\ pc'.parent \in CollectPC => stop'
      /\ outcome' \in Outcome \cup {"none"}
  <2>1. CASE Finish
    BY <2>1 DEF Finish, Goto, SInv, IInv, TypeOK
  <2>2. CASE Join
    BY <2>2 DEF Join, Goto, SInv, IInv, TypeOK
  <2>3. CASE MakeReport
    BY <2>3 DEF MakeReport, Goto, SInv, IInv, TypeOK
  <2>4. CASE Judge
    <3>1. answer' \in Answer
      BY <2>4 DEF Judge, Judged, Output
    <3>2. outcome' \in Outcome
      <4>1. verdict \in Outcome
        BY DEF SInv, TypeOK
      <4> QED BY <2>4, <4>1 DEF Judge, Judged, Outcome
    <3> QED BY <2>4, <3>1, <3>2 DEF Judge, Judged, Goto, SInv, IInv, TypeOK
  <2> QED BY <2>1, <2>2, <2>3, <2>4
<1>3. report' \in Report /\ OkReportIsTrusted'
  <2>1. CASE report' = report
    BY <2>1 DEF SInv, TypeOK, OkReportIsTrusted
  <2>2. CASE report' = Unavailable("sampler_unavailable")
    BY <2>2, UnavailableTyped, UnavailableIsNotOk DEF OkReportIsTrusted, Reason
  <2>3. CASE report' = FromSamples(samples, missed)
    <3>1. samples \in Seq(Sample) /\ missed \in SUBSET Reason
      BY DEF SInv, TypeOK
    <3>2. /\ \A s \in ToSet(samples) : TellsTheProcess(s, Own, Foreign)
          /\ Own \in Starts /\ Foreign \in Starts /\ Own # Foreign
      BY SupervisorAssumption DEF SInv, SamplesTell
    <3>3. report'.status = "ok" => missed = {}
      BY <2>3, OkMeansNothingMissed
    <3>4. missed = {} => (samples # <<>> => samples[1].ticks # Foreign)
      BY DEF SInv, WorkerIsFirst
    <3>5. OkReportIsTrusted'
      BY <2>3, <3>1, <3>2, <3>3, <3>4, OkReportAddsUp DEF OkReportIsTrusted
    <3> QED BY <2>3, <3>1, <3>5, ReportTyped
  <2> QED BY <2>1, <2>2, <2>3 DEF Finish, Join, MakeReport, Judge, Judged
<1>4. TypeOK'
  BY <1>1, <1>2, <1>3 DEF IInv, SInv, TypeOK
<1>5. SamplesTell'
  BY <1>2 DEF SInv, SamplesTell
<1>6. WorkerIsFirst'
  BY <1>2 DEF SInv, WorkerIsFirst, FirstSampling
<1> QED BY <1>1, <1>3, <1>4, <1>5, <1>6 DEF SInv

(***************************************************************************)
(* Every step keeps it, so it holds at all times.                          *)
(***************************************************************************)
LEMMA SInvStep == SInv /\ [Next]_vars => SInv'
<1> SUFFICES ASSUME SInv, [Next]_vars  PROVE SInv'
  OBVIOUS
<1>1. CASE UNCHANGED vars
  <2>1. IInv'
    BY <1>1, InvariantStep DEF SInv
  <2> QED BY <1>1, <2>1
          DEF vars, SInv, TypeOK, SamplesTell, WorkerIsFirst, FirstSampling,
              OkReportIsTrusted
<1>2. CASE ParentStep
  <2>1. CASE Collect("parent")
    BY <2>1, CollectSamples DEF Actors
  <2> QED BY <1>2, <2>1, StartSamples, WaitingSamples, ReportSamples DEF ParentStep
<1> QED BY <1>1, <1>2, ThreadSamples, EnvironmentSamplesNot DEF Next

LEMMA SampleInvariance == Spec => []SInv
BY SInvInit, SInvStep, PTL DEF Spec

-----------------------------------------------------------------------------
(***************************************************************************)
(* The supervisor's state is well-typed, its report above all, for any     *)
(* number of samples.                                                      *)
(***************************************************************************)
THEOREM SupervisorTyped == Spec => []TypeOK
<1>1. SInv => TypeOK
  BY DEF SInv
<1> QED BY <1>1, SampleInvariance, PTL

(***************************************************************************)
(* A report that says "ok" rests on samples of the worker alone and its    *)
(* sums agree with its differences, whoever has the pid afterwards and     *)
(* however long the run was.                                               *)
(***************************************************************************)
THEOREM OkReportsAreTrusted == Spec => []OkReportIsTrusted
<1>1. SInv => OkReportIsTrusted
  BY DEF SInv
<1> QED BY <1>1, SampleInvariance, PTL
=============================================================================
