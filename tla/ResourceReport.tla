---------------------------- MODULE ResourceReport ----------------------------
(***************************************************************************)
(* ResourceReport.from_samples (resource_measurement.py): a sequence of    *)
(* samples of one pid, in the order they were appended, becomes a report.  *)
(* Times and CPU counters are natural numbers; user and system time are    *)
(* one counter, the process tree is one figure (rss).  "ticks" is the      *)
(* start time that tells a process from a later one with the same pid.     *)
(***************************************************************************)
EXTENDS Integers, SequencesExt

CONSTANTS
  Starts,   \* start times of the processes that may carry the pid
  NoStart   \* Python's None for a start time

ASSUME ReportAssumption == NoStart \notin Starts

NoFigure == -1    \* Python's None for a figure

SampleStatus == {"ok", "root_missing"}

Sample == [status : SampleStatus, ticks : Starts \cup {NoStart},
           at : Nat, cpu : Nat, rss : Nat]

Reason == {"sampler_unavailable", "sampler_exception", "worker_timeout",
           "worker_terminated", "worker_killed", "spawn_error",
           "root_missing", "pid_identity_changed", "invalid_counter_delta"}

ReportStatus == {"ok", "partial", "unavailable"}

Report == [status : ReportStatus, reasons : SUBSET Reason, count : Nat,
           peak : Int, wall : Int, busy : Int, duration : Int, cpu : Int]

\* The samples that carry figures, in their order.
Usable(samples) ==
  LET usable[n \in 0..Len(samples)] ==
        IF n = 0 THEN <<>>
        ELSE IF samples[n].status = "ok" THEN Append(usable[n - 1], samples[n])
        ELSE usable[n - 1]
  IN usable[Len(samples)]

\* A start time that is not known matches every other one.
Matches(a, b) == a = NoStart \/ b = NoStart \/ a = b

(***************************************************************************)
(* What the loop over neighbouring samples finds at the i-th, i > 1: every *)
(* identity is compared with the first one's, every counter with the one   *)
(* before.                                                                 *)
(***************************************************************************)
Verdict(usable, i) ==
  IF ~Matches(usable[1].ticks, usable[i].ticks) THEN "pid_identity_changed"
  ELSE IF \/ usable[i].at <= usable[i - 1].at
          \/ usable[i].cpu < usable[i - 1].cpu THEN "invalid_counter_delta"
  ELSE "valid"

Valid(usable) == {i \in 2..Len(usable) : Verdict(usable, i) = "valid"}

Rejected(usable) == {Verdict(usable, i) : i \in 2..Len(usable)} \ {"valid"}

(***************************************************************************)
(* The terms of the average load: what a counter, given for each sample,   *)
(* rises in the valid intervals, one interval after the other.             *)
(***************************************************************************)
ValidRise(usable, counter) ==
  LET rise[n \in 0..Len(usable)] ==
        IF n = 0 THEN 0
        ELSE IF n \in Valid(usable)
               THEN rise[n - 1] + (counter[n] - counter[n - 1])
        ELSE rise[n - 1]
  IN rise[Len(usable)]

WallTime(usable) == ValidRise(usable, [i \in DOMAIN usable |-> usable[i].at])
BusyTime(usable) == ValidRise(usable, [i \in DOMAIN usable |-> usable[i].cpu])

Reasons(samples, missed) ==
  missed \cup Rejected(Usable(samples))
         \cup ({s.status : s \in ToSet(samples)} \ {"ok"})

Status(usable, reasons) ==
  IF usable = <<>> THEN "unavailable"
  ELSE IF Valid(usable) = {} \/ reasons # {} THEN "partial"
  ELSE "ok"

(***************************************************************************)
(* Peak and count are taken over every usable sample, duration and cpu     *)
(* between the first and the last, wall and busy over the valid intervals. *)
(***************************************************************************)
FromSamples(samples, missed) ==
  LET usable == Usable(samples)
      IfAnyValid(figure) == IF Valid(usable) = {} THEN NoFigure ELSE figure
  IN [ status |-> Status(usable, Reasons(samples, missed)),
       reasons |-> Reasons(samples, missed),
       count |-> Len(usable),
       peak |-> IF usable = <<>> THEN NoFigure
                                 ELSE Max({s.rss : s \in ToSet(usable)}),
       wall |-> IfAnyValid(WallTime(usable)),
       busy |-> IfAnyValid(BusyTime(usable)),
       duration |-> IfAnyValid(Last(usable).at - usable[1].at),
       cpu |-> IfAnyValid(Max({0, Last(usable).cpu - usable[1].cpu})) ]

Unavailable(reason) ==
  [status |-> "unavailable", reasons |-> {reason}, count |-> 0,
   peak |-> NoFigure, wall |-> NoFigure, busy |-> NoFigure,
   duration |-> NoFigure, cpu |-> NoFigure]
=============================================================================
