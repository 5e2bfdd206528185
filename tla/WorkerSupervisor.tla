--------------------------- MODULE WorkerSupervisor ---------------------------
(***************************************************************************)
(* WorkerSupervisor.run and _ResourceCollector (worker_supervisor.py): the *)
(* parent spawns one worker, hands it the request and waits for its answer *)
(* with a timeout, then a grace period after SIGTERM, then for ever after  *)
(* SIGKILL.  Meanwhile a daemon thread samples the worker's pid.  At the   *)
(* end the parent stops the thread, waits a while for it, takes a last     *)
(* sample, reduces the samples to a report and judges the answer.          *)
(*                                                                         *)
(* Time is a counter that any other step may find advanced; a timeout may  *)
(* expire whenever somebody waits.  The worker leaves no descendant that   *)
(* keeps its pipes open, so that communicate ends when the worker does.    *)
(***************************************************************************)
EXTENDS ResourceReport

CONSTANTS
  Own,         \* start time of the worker
  Foreign,     \* start time of a process that got the worker's pid later
  Gone,        \* what a backend may find for the pid of a reaped worker
  MaxTime,     \* bound on the clock
  MaxSamples   \* bound on the samples the thread takes

ASSUME SupervisorAssumption ==
  /\ Starts = {Own, Foreign}
  /\ Own # Foreign
  /\ Gone \subseteq {"own", "foreign", "root_missing", "exception"}
  /\ MaxTime \in Nat
  /\ MaxSamples \in Nat

VARIABLES
  pc,        \* where the parent and the collector thread are
  child,     \* the worker process
  exit,      \* how it ended
  answer,    \* what its output turned out to be
  ended,     \* when it ended
  sampler,   \* there is a sampler backend
  stop,      \* _stop_event
  samples,   \* _samples
  missed,    \* _missed_reasons
  hand,      \* the sample each actor has read and not yet appended
  verdict,   \* supervisor_outcome so far
  outcome,   \* supervisor_outcome returned
  report,    \* the resource report
  clock,     \* time.monotonic()
  taken      \* samples the thread has begun

process == <<child, exit, ended>>
collector == <<stop, samples, missed, hand, taken>>
results == <<verdict, outcome, report, answer>>
vars == <<pc, process, sampler, collector, results, clock>>

Actors == {"parent", "thread"}

(***************************************************************************)
(* What the worker's output amounts to: the first thing the supervisor     *)
(* would find wrong with it, or a well-formed answer with its own nonce.   *)
(***************************************************************************)
Answer == {"none", "oversized", "stderr", "canary", "malformed", "other_nonce",
           "failed", "succeeded"}

Outcome == {"completed", "timeout", "terminated", "killed", "protocol_error",
            "privacy_error", "spawn_error", "nonzero_exit"}

ParentPC == {"spawn", "sampler", "read", "stamp", "append", "launch",
             "communicate", "terminate", "grace", "kill", "wait", "finish",
             "join", "report", "judge", "returned", "raised"}
ThreadPC == {"off", "pause", "read", "stamp", "append", "ended"}

NoSample == [status |-> "root_missing", ticks |-> NoStart, at |-> 0, cpu |-> 0,
             rss |-> 0]

Init ==
  /\ pc = [parent |-> "spawn", thread |-> "off"]
  /\ child = "none"
  /\ exit = "none"
  /\ answer = "none"
  /\ ended = 0
  /\ sampler = FALSE
  /\ stop = FALSE
  /\ samples = <<>>
  /\ missed = {}
  /\ hand = [a \in Actors |-> NoSample]
  /\ verdict = "completed"
  /\ outcome = "none"
  /\ report = Unavailable("sampler_unavailable")
  /\ clock = 0
  /\ taken = 0

Goto(actor, to) == pc' = [pc EXCEPT ![actor] = to]
Note(reason) == missed' = missed \cup {reason}

-----------------------------------------------------------------------------
(***************************************************************************)
(* The worker ends by itself at any time, or of a signal.                  *)
(***************************************************************************)
Exit(how) ==
  /\ child = "running"
  /\ child' = "exited"
  /\ exit' = how
  /\ ended' = clock
  /\ UNCHANGED <<pc, sampler, collector, results, clock>>

ExitsByItself == Exit("zero") \/ Exit("nonzero")

DiesOfSignal ==
  /\ pc.parent \in {"grace", "wait"}
  /\ Exit("signal")

\* The clock only matters until the report is made.
Tick ==
  /\ clock < MaxTime
  /\ pc.parent \notin {"judge", "returned", "raised"}
  /\ clock' = clock + 1
  /\ UNCHANGED <<pc, process, sampler, collector, results>>

(***************************************************************************)
(* Popen notices the end of the worker (wait, or the poll that precedes    *)
(* every signal) and so reaps it.                                          *)
(***************************************************************************)
Reap == child' = (IF child = "exited" THEN "reaped" ELSE child)

-----------------------------------------------------------------------------
(***************************************************************************)
(* _collect_once, by the parent or by the thread: look the pid up, stamp   *)
(* what was found, append it under the lock.  The two actors may be in the *)
(* middle of it at the same time, once a join has timed out.               *)
(***************************************************************************)
Visible ==
  {"exception"} \cup (IF child = "reaped" THEN Gone ELSE {"own", "root_missing"})

Sight(found) ==
  CASE found = "own" ->
         {[status |-> "ok", ticks |-> Own, at |-> 0, rss |-> 1,
           cpu |-> IF child = "running" THEN clock ELSE ended]}
    [] found = "foreign" ->
         {[status |-> "ok", ticks |-> Foreign, at |-> 0, rss |-> 2, cpu |-> c] :
            c \in {0, clock}}
    [] OTHER -> {NoSample}

After(actor) ==
  IF actor = "thread" THEN "pause" ELSE IF stop THEN "report" ELSE "launch"

Read(actor) ==
  /\ pc[actor] = "read"
  /\ \E found \in Visible :
       IF found = "exception"
         THEN /\ Note("sampler_exception")
              /\ Goto(actor, After(actor))
              /\ UNCHANGED hand
         ELSE /\ \E seen \in Sight(found) : hand' = [hand EXCEPT ![actor] = seen]
              /\ Goto(actor, "stamp")
              /\ UNCHANGED missed
  /\ UNCHANGED <<process, sampler, stop, samples, taken, results, clock>>

Stamp(actor) ==
  /\ pc[actor] = "stamp"
  /\ hand' = [hand EXCEPT ![actor].at = clock]
  /\ Goto(actor, "append")
  /\ UNCHANGED <<process, sampler, stop, samples, missed, taken, results, clock>>

AppendSample(actor) ==
  /\ pc[actor] = "append"
  /\ samples' = Append(samples, hand[actor])
  /\ hand' = [hand EXCEPT ![actor] = NoSample]
  /\ Goto(actor, After(actor))
  /\ UNCHANGED <<process, sampler, stop, missed, taken, results, clock>>

Collect(actor) == Read(actor) \/ Stamp(actor) \/ AppendSample(actor)

\* Mutant: the thread only looks at its bound, not at the stop event.
PauseIgnoresStop ==
  /\ pc.thread = "pause"
  /\ taken < MaxSamples
  /\ Goto("thread", "read")
  /\ taken' = taken + 1
  /\ UNCHANGED <<process, sampler, stop, samples, missed, hand, results, clock>>

(***************************************************************************)
(* The loop of _run: wait(interval) ends at the stop event or after the    *)
(* interval.                                                               *)
(***************************************************************************)
Pause ==
  /\ pc.thread = "pause"
  /\ \/ stop /\ Goto("thread", "ended") /\ UNCHANGED taken
     \/ /\ ~stop
        /\ taken < MaxSamples
        /\ Goto("thread", "read")
        /\ taken' = taken + 1
  /\ UNCHANGED <<process, sampler, stop, samples, missed, hand, results, clock>>

-----------------------------------------------------------------------------
Spawn ==
  /\ pc.parent = "spawn"
  /\ \/ /\ child' = "running"
        /\ Goto("parent", "sampler")
        /\ UNCHANGED results
     \/ /\ outcome' = "spawn_error"
        /\ report' = Unavailable("spawn_error")
        /\ Goto("parent", "returned")
        /\ UNCHANGED <<child, verdict, answer>>
  /\ UNCHANGED <<exit, ended, sampler, collector, clock>>

\* Mutant: the first sample is left to the thread.
MakeSamplerOnly ==
  /\ pc.parent = "sampler"
  /\ sampler' = TRUE
  /\ Goto("parent", "launch")
  /\ UNCHANGED <<process, collector, results, clock>>

(***************************************************************************)
(* The sampler factory may have no backend or raise; with a sampler, the   *)
(* collector takes a first sample before its thread starts.                *)
(***************************************************************************)
MakeSampler ==
  /\ pc.parent = "sampler"
  /\ \/ sampler' = TRUE /\ Goto("parent", "read") /\ UNCHANGED missed
     \/ /\ sampler' = FALSE
        /\ Note("sampler_unavailable")
        /\ Goto("parent", "communicate")
  /\ UNCHANGED <<process, stop, samples, hand, taken, results, clock>>

Launch ==
  /\ pc.parent = "launch"
  /\ pc' = [parent |-> "communicate", thread |-> "pause"]
  /\ UNCHANGED <<process, sampler, collector, results, clock>>

(***************************************************************************)
(* communicate: the answer and the end of the worker, or a timeout, which  *)
(* may expire although the worker just ended.                              *)
(***************************************************************************)
Communicate ==
  /\ pc.parent = "communicate"
  /\ \/ /\ child = "exited"
        /\ Reap
        /\ Goto("parent", "finish")
        /\ UNCHANGED <<verdict, missed>>
     \/ /\ verdict' = "timeout"
        /\ Note("worker_timeout")
        /\ Goto("parent", "terminate")
        /\ UNCHANGED child
  /\ UNCHANGED <<exit, ended, sampler, stop, samples, hand, taken,
                 outcome, report, answer, clock>>

\* terminate() and kill() poll first and signal only a worker still running.
Signal(here, next) ==
  /\ pc.parent = here
  /\ Reap
  /\ Goto("parent", next)
  /\ UNCHANGED <<exit, ended, sampler, collector, results, clock>>

Terminate == Signal("terminate", "grace")
Kill == Signal("kill", "wait")

Ended(newVerdict, reason) ==
  /\ child \in {"exited", "reaped"}
  /\ child' = "reaped"
  /\ verdict' = newVerdict
  /\ Note(reason)
  /\ Goto("parent", "finish")

\* Mutant: the outcome is noted in place of the reason.
GraceNotesOutcome ==
  /\ pc.parent = "grace"
  /\ \/ Ended("terminated", "terminated")
     \/ Goto("parent", "kill") /\ UNCHANGED <<child, verdict, missed>>
  /\ UNCHANGED <<exit, ended, sampler, stop, samples, hand, taken,
                 outcome, report, answer, clock>>

Grace ==
  /\ pc.parent = "grace"
  /\ \/ Ended("terminated", "worker_terminated")
     \/ Goto("parent", "kill") /\ UNCHANGED <<child, verdict, missed>>
  /\ UNCHANGED <<exit, ended, sampler, stop, samples, hand, taken,
                 outcome, report, answer, clock>>

\* Mutant: the killed worker is not waited for.
WaitNot ==
  /\ pc.parent = "wait"
  /\ verdict' = "killed"
  /\ Note("worker_killed")
  /\ Goto("parent", "finish")
  /\ UNCHANGED <<process, sampler, stop, samples, hand, taken, outcome, report,
                 answer, clock>>

Wait ==
  /\ pc.parent = "wait"
  /\ Ended("killed", "worker_killed")
  /\ UNCHANGED <<exit, ended, sampler, stop, samples, hand, taken,
                 outcome, report, answer, clock>>

(***************************************************************************)
(* Any of the three waits may end run() with an exception: an interrupt,   *)
(* or output that does not decode.  Nobody then stops the thread, and a    *)
(* worker that has not ended is left alone.                                *)
(***************************************************************************)
Abandon ==
  /\ pc.parent \in {"communicate", "grace", "wait"}
  /\ Reap
  /\ Goto("parent", "raised")
  /\ UNCHANGED <<exit, ended, sampler, collector, results, clock>>

-----------------------------------------------------------------------------
Finish ==
  /\ pc.parent = "finish"
  /\ stop' = TRUE
  /\ Goto("parent", "join")
  /\ UNCHANGED <<process, sampler, samples, missed, hand, taken, results, clock>>

\* Mutant: the join waits for the thread as long as it takes.
JoinForever ==
  /\ pc.parent = "join"
  /\ pc.thread \in {"off", "ended"}
  /\ Goto("parent", IF sampler THEN "read" ELSE "judge")
  /\ UNCHANGED <<process, sampler, collector, results, clock>>

(***************************************************************************)
(* The join has a timeout: the thread may still be in a sample.  A last    *)
(* sample follows, although the worker was reaped and its pid is free.     *)
(***************************************************************************)
Join ==
  /\ pc.parent = "join"
  /\ IF sampler
       THEN Goto("parent", "read") /\ UNCHANGED report
       ELSE /\ Goto("parent", "judge")
            /\ report' = Unavailable("sampler_unavailable")
  /\ UNCHANGED <<process, sampler, collector, verdict, outcome, answer, clock>>

MakeReport ==
  /\ pc.parent = "report"
  /\ report' = FromSamples(samples, missed)
  /\ Goto("parent", "judge")
  /\ UNCHANGED <<process, sampler, collector, verdict, outcome, answer, clock>>

(***************************************************************************)
(* The output of the worker: main returns 0 only for the status "success"  *)
(* (or "not_run", which counts as a success here), although an interpreter *)
(* may still fail on its way out; a worker that was stopped may have       *)
(* written its whole answer before.                                        *)
(***************************************************************************)
Output == IF exit = "zero" THEN Answer \ {"failed"} ELSE Answer

Judged(final) ==
  /\ pc.parent = "judge"
  /\ answer' \in Output
  /\ outcome' = CASE answer' \in {"none", "oversized", "malformed", "other_nonce"} ->
                       "protocol_error"
                  [] answer' \in {"stderr", "canary"} -> "privacy_error"
                  [] OTHER -> final
  /\ Goto("parent", "returned")
  /\ UNCHANGED <<process, sampler, collector, verdict, report, clock>>

\* Mutant: the exit status is looked at whatever happened before.
JudgeExitFirst == Judged(IF exit # "zero" THEN "nonzero_exit" ELSE verdict)

(***************************************************************************)
(* The answer is judged before the exit status, and the exit status only   *)
(* counts for a worker that was not timed out.                             *)
(***************************************************************************)
Judge ==
  Judged(IF exit # "zero" /\ verdict = "completed" THEN "nonzero_exit" ELSE verdict)

ParentStep ==
  \/ Spawn
  \/ MakeSampler
  \/ Collect("parent")
  \/ Launch
  \/ Communicate
  \/ Terminate
  \/ Grace
  \/ Kill
  \/ Wait
  \/ Abandon
  \/ Finish
  \/ Join
  \/ MakeReport
  \/ Judge

ThreadStep == Pause \/ Collect("thread")

Next == ParentStep \/ ThreadStep \/ ExitsByItself \/ DiesOfSignal \/ Tick

Spec == Init /\ [][Next]_vars

(***************************************************************************)
(* The parent is scheduled, and SIGKILL ends a process.  Nothing is asked  *)
(* of the worker, of SIGTERM or of the collector thread.                   *)
(***************************************************************************)
FairSpec ==
  /\ Spec
  /\ WF_vars(ParentStep)
  /\ WF_vars(pc.parent = "wait" /\ DiesOfSignal)
-----------------------------------------------------------------------------
TypeOK ==
  /\ pc \in [parent : ParentPC, thread : ThreadPC]
  /\ child \in {"none", "running", "exited", "reaped"}
  /\ exit \in {"none", "zero", "nonzero", "signal"}
  /\ answer \in Answer
  /\ ended \in Nat
  /\ sampler \in BOOLEAN
  /\ stop \in BOOLEAN
  /\ samples \in Seq(Sample)
  /\ missed \subseteq Reason
  /\ hand \in [Actors -> Sample]
  /\ verdict \in Outcome
  /\ outcome \in Outcome \cup {"none"}
  /\ report \in Report
  /\ clock \in Nat
  /\ taken \in Nat

(***************************************************************************)
(* "completed" is only said of a worker that ended by itself, with exit    *)
(* status zero and a success of its own; one that ran into the timeout is  *)
(* neither completed nor judged by its exit status, even when its answer   *)
(* still came, and its report does not pass for a whole one.               *)
(***************************************************************************)
OutcomeTellsTheEnd ==
  pc.parent = "returned" =>
    /\ outcome = "completed" => exit = "zero" /\ answer = "succeeded"
    /\ "worker_timeout" \in missed =>
         /\ outcome \notin {"completed", "nonzero_exit"}
         /\ report.status # "ok"

(***************************************************************************)
(* run() leaves no worker behind, neither running nor as a zombie.         *)
(***************************************************************************)
ChildIsReaped ==
  pc.parent = "returned" => child \in {"none", "reaped"}

(***************************************************************************)
(* A report that calls itself "ok" rests on samples of the worker alone,   *)
(* at least two, none missed, and its figures agree with each other: the   *)
(* load averaged over the intervals is that between the first sample and   *)
(* the last.  However the thread's last sample and the parent's fall, and  *)
(* whoever has the pid after the worker.                                   *)
(***************************************************************************)
OkReportIsTrusted ==
  report.status = "ok" =>
    /\ report.count >= 2
    /\ report.reasons = {}
    /\ report.peak = 1
    /\ report.wall = report.duration
    /\ report.busy = report.cpu

(***************************************************************************)
(* Every run comes to an end, whatever the worker and the sampler do.      *)
(***************************************************************************)
EveryRunEnds == <>(pc.parent \in {"returned", "raised"})

(***************************************************************************)
(* After run() returned the collector thread ends, if it is scheduled.     *)
(***************************************************************************)
CollectorStops ==
  WF_vars(ThreadStep) =>
    (pc.parent = "returned" ~> pc.thread \in {"off", "ended"})

(***************************************************************************)
(* Once the thread has seen a worker properly, the run of a worker that    *)
(* completed has an "ok" report.                                           *)
(***************************************************************************)
CompletedReportsOk ==
  LET own == SelectSeq(samples, LAMBDA s : s.ticks = Own)
  IN pc.parent = "returned" /\ outcome = "completed" /\ missed = {}
     /\ Len(own) >= 2 /\ Valid(own) = 2..Len(own)
     => report.status = "ok"
=============================================================================
