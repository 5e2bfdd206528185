------------------------------- MODULE AsrWorker -------------------------------
(***************************************************************************)
(* benchmark_worker.py: one process reads one request, takes one engine    *)
(* through load, readiness, warm-up, transcription and close, and answers  *)
(* with one message.  Version 1 asks for one sample or none, version 2 for *)
(* a warm-up sample and scored ones.  Only an AsrEngineError is caught on  *)
(* the way; any other exception passes through the finally clause to main, *)
(* which answers with a version 1 message that names no request.           *)
(* BenchmarkRun starts the workers, one process after the other.           *)
(***************************************************************************)
EXTENDS AsrEngine, Sequences

CONSTANT MaxScored   \* bound on the scored samples of a request

ASSUME WorkerAssumption == MaxScored \in Nat \ {0}

VARIABLES
  pc,
  request,   \* the version and the samples to run
  phases,    \* the phases logged so far, each with its outcome
  samples,   \* version 2: the outcomes of the samples run so far
  status,    \* worker_status so far
  escaped,   \* an exception that is no AsrEngineError is on its way
  inferred,  \* samples whose inference succeeded
  answer,    \* what the supervisor will make of the message
  exit       \* exit status

log == <<phases, samples, status, escaped, inferred>>
reply == <<answer, exit>>
workerVars == <<engineVars, pc, request, log, reply>>

(***************************************************************************)
(* A sample has an audio of some length, or a duration AsrSegmentInput     *)
(* refuses, or a reference text that cannot be read.                       *)
(***************************************************************************)
SampleKind == Length \cup {"no_duration", "unreadable"}

Request ==
  [version : {1}, samples : UNION {[1..n -> SampleKind] : n \in 0..1}]
  \cup [version : {2}, samples : UNION {[1..n -> SampleKind] : n \in 2..MaxScored + 1}]

\* PHASE_OUTCOMES, and the phases of the two versions and of the failures.
PhaseOutcome == FailureCode \cup {"success", "not_run", "readiness_failed"}
PhaseName == {"load", "backend_availability", "readiness", "warmup", "warm_up",
              "transcribe", "transcribe_probe", "close"}

PC == {"receive", "load", "warmup", "probe", "samples", "close", "reply", "ended"}

WorkerInit ==
  /\ EngineInit
  /\ pc = "receive"
  /\ request \in Request
  /\ phases = <<>>
  /\ samples = <<>>
  /\ status = "success"
  /\ escaped = FALSE
  /\ inferred = {}
  /\ answer = "none"
  /\ exit = "none"

(***************************************************************************)
(* Another process, for another request, with an engine of its own.        *)
(***************************************************************************)
NewWorker(asked) ==
  /\ EngineNew
  /\ pc' = "receive"
  /\ request' = asked
  /\ phases' = <<>>
  /\ samples' = <<>>
  /\ status' = "success"
  /\ escaped' = FALSE
  /\ inferred' = {}
  /\ answer' = "none"
  /\ exit' = "none"

Logged(phase, outcome) == phases' = Append(phases, <<phase, outcome>>)

-----------------------------------------------------------------------------
(***************************************************************************)
(* The request is well formed and names an engine, or main answers without *)
(* one.                                                                    *)
(***************************************************************************)
Receive ==
  /\ pc = "receive"
  /\ \/ pc' = "load" /\ UNCHANGED escaped
     \/ pc' = "reply" /\ escaped' = TRUE
  /\ UNCHANGED <<engineVars, request, phases, samples, status, inferred, reply>>

(***************************************************************************)
(* Where an engine that is loaded goes from the readiness phase: version 1 *)
(* runs its sample although the engine is not ready, version 2 none.       *)
(***************************************************************************)
Loaded ==
  \E options \in Options :
    /\ LoadDone(options)
    /\ LET readiness == IF Ready' THEN "success" ELSE "readiness_failed"
           asked == request.samples # <<>>
       IN /\ phases' = phases
               \o << <<"load", "success">>, <<"readiness", readiness>> >>
               \o (IF asked THEN <<>>
                   ELSE << <<"warmup", "not_run">>, <<"transcribe_probe", "not_run">> >>)
          /\ pc' = CASE ~asked -> "close"
                     [] asked /\ request.version = 1 -> "warmup"
                     [] asked /\ request.version = 2 ->
                          IF Ready' THEN "samples" ELSE "close"
          /\ status' = IF request.version = 2 /\ ~Ready' THEN "fail" ELSE status
    /\ UNCHANGED escaped

LoadFails ==
  /\ \E options \in Options : LoadNotDone(options)
  /\ pc' = "close"
  /\ \/ /\ \E phase \in {"load", "backend_availability"}, code \in LoadCode :
             Logged(phase, code)
        /\ status' = "fail"
        /\ UNCHANGED escaped
     \/ escaped' = TRUE /\ UNCHANGED <<phases, status>>

Load ==
  /\ pc = "load"
  /\ Loaded \/ LoadFails
  /\ UNCHANGED <<request, samples, inferred, reply>>

-----------------------------------------------------------------------------
(***************************************************************************)
(* What a call of the engine for the i-th sample comes to, the making of   *)
(* its segment and the reading of its reference included.                  *)
(***************************************************************************)
LengthOf(kind) == IF kind \in Length THEN kind ELSE "short"

WarmUpOf(i) ==
  LET kind == request.samples[i]
  IN IF kind = "no_duration" THEN {"escaped"} ELSE WarmedUp(LengthOf(kind))

TranscriptOf(i) ==
  LET kind == request.samples[i]
  IN IF kind = "no_duration" THEN {"escaped"}
     ELSE {IF r = "success" /\ kind = "unreadable" THEN "escaped" ELSE r :
             r \in Transcribed(LengthOf(kind))}

(***************************************************************************)
(* Version 1: the first failure ends the run; a failed warm-up is logged   *)
(* under the name of the engine's phase.  An exception that escapes takes  *)
(* the log with it, so nothing is added to it any more.                    *)
(***************************************************************************)
ProbePhase(name, failureName, outcome, next) ==
  /\ pc' = IF outcome = "success" THEN next ELSE "close"
  /\ CASE outcome = "success" -> Logged(name, outcome) /\ UNCHANGED <<status, escaped>>
       [] outcome = "escaped" -> escaped' = TRUE /\ UNCHANGED <<phases, status>>
       [] OTHER -> /\ Logged(failureName, outcome)
                   /\ status' = "fail"
                   /\ UNCHANGED escaped
  /\ UNCHANGED <<engineVars, request, samples, reply>>

WarmUp ==
  /\ pc = "warmup"
  /\ \E outcome \in WarmUpOf(1) : ProbePhase("warmup", "warm_up", outcome, "probe")
  /\ UNCHANGED inferred

Probe ==
  /\ pc = "probe"
  /\ \E outcome \in TranscriptOf(1) :
       /\ ProbePhase("transcribe_probe", "transcribe", outcome, "close")
       /\ inferred' = IF outcome = "success" THEN {1} ELSE {}

\* Mutant: the first sample that fails is the last one run.
SampleStopsAtFailure ==
  /\ pc = "samples"
  /\ LET i == Len(samples) + 1
     IN \E outcome \in IF i = 1 THEN WarmUpOf(i) ELSE TranscriptOf(i) :
          /\ escaped' = (outcome = "escaped")
          /\ samples' = IF escaped' THEN samples ELSE Append(samples, outcome)
          /\ inferred' = IF outcome = "success" THEN inferred \cup {i} ELSE inferred
          /\ pc' = IF outcome = "success" /\ i < Len(request.samples) THEN pc ELSE "close"
  /\ UNCHANGED <<engineVars, request, phases, status, reply>>

(***************************************************************************)
(* Version 2: the first sample warms up, the others are scored.  A sample  *)
(* that fails does not keep the next ones from being run.                  *)
(***************************************************************************)
Sample ==
  /\ pc = "samples"
  /\ LET i == Len(samples) + 1
     IN \E outcome \in IF i = 1 THEN WarmUpOf(i) ELSE TranscriptOf(i) :
          /\ escaped' = (outcome = "escaped")
          /\ samples' = IF escaped' THEN samples ELSE Append(samples, outcome)
          /\ inferred' = IF outcome = "success" THEN inferred \cup {i} ELSE inferred
          /\ pc' = IF ~escaped' /\ i < Len(request.samples) THEN pc ELSE "close"
  /\ UNCHANGED <<engineVars, request, phases, status, reply>>

-----------------------------------------------------------------------------
\* Mutant: the engine is only closed if nothing went wrong before.
CloseUnlessEscaped ==
  /\ pc = "close"
  /\ pc' = "reply"
  /\ IF escaped THEN UNCHANGED <<engineVars, phases, status>>
     ELSE \E outcome \in {"success", "resource_release_failed"} :
            /\ Close(outcome)
            /\ Logged("close", outcome)
            /\ status' = IF outcome = "success" THEN status ELSE "fail"
  /\ UNCHANGED <<request, samples, escaped, inferred, reply>>

\* The finally clause: whatever happened, close and log it.
CloseEngine ==
  /\ pc = "close"
  /\ pc' = "reply"
  /\ \E outcome \in {"success", "resource_release_failed"} :
       /\ Close(outcome)
       /\ Logged("close", outcome)
       /\ status' = IF outcome = "success" THEN status ELSE "fail"
  /\ UNCHANGED <<request, samples, escaped, inferred, reply>>

AllRun == \A i \in 1..Len(samples) : samples[i] = "success"

Answered(final, code) ==
  /\ pc = "reply"
  /\ pc' = "ended"
  /\ \/ /\ ~escaped
        /\ status' = final
        /\ answer' = IF final = "success" THEN "succeeded" ELSE "failed"
        /\ exit' = code
     \/ /\ ~escaped    \* the message is too large: a traceback, outside of try
        /\ status' = final
        /\ answer' = "stderr"
        /\ exit' = "nonzero"
     \/ /\ escaped
        /\ answer' = "other_nonce"
        /\ exit' = "nonzero"
        /\ UNCHANGED status
  /\ UNCHANGED <<engineVars, request, phases, samples, escaped, inferred>>

Code(final) == IF final = "success" THEN "zero" ELSE "nonzero"

\* Mutant: the samples are not asked for their outcomes.
ReplyIgnoresSamples == Answered(status, Code(status))

\* Mutant: the exit status is that of the phases alone.
ReplyExitsByPhases ==
  Answered(IF AllRun THEN status ELSE "fail", Code(status))

(***************************************************************************)
(* A failed sample fails the run; the exit status follows worker_status.   *)
(***************************************************************************)
Reply ==
  LET final == IF AllRun THEN status ELSE "fail" IN Answered(final, Code(final))

WorkerStep ==
  \/ Receive
  \/ Load
  \/ WarmUp
  \/ Probe
  \/ Sample
  \/ CloseEngine
  \/ Reply
-----------------------------------------------------------------------------
WorkerTypeOK ==
  /\ EngineTypeOK
  /\ pc \in PC
  /\ request \in Request
  /\ phases \in Seq(PhaseName \X PhaseOutcome)
  /\ samples \in Seq(PhaseOutcome)
  /\ status \in {"success", "fail"}
  /\ escaped \in BOOLEAN
  /\ inferred \subseteq 1..(MaxScored + 1)
  /\ answer \in {"none", "succeeded", "failed", "other_nonce", "stderr"}
  /\ exit \in {"none", "zero", "nonzero"}

(***************************************************************************)
(* The worker calls itself successful only if every sample asked for went  *)
(* through the model and no phase failed, the close included.  The one     *)
(* exception is version 1 without a sample, which does not look at the     *)
(* readiness it logs.                                                      *)
(***************************************************************************)
SuccessIsWhole ==
  answer = "succeeded" =>
    /\ inferred = DOMAIN request.samples
    /\ \A i \in DOMAIN phases :
         \/ phases[i][2] \in {"success", "not_run"}
         \/ phases[i][1] = "readiness" /\ request.samples = <<>>

(***************************************************************************)
(* However the run went, the process answers without a model: the engine   *)
(* was closed after every load, last of all, also on the way of an         *)
(* exception and also if its own close failed.                             *)
(***************************************************************************)
EngineIsReleased ==
  pc \in {"reply", "ended"} =>
    /\ model = NoOptions
    /\ phases # <<>> => phases[Len(phases)][1] = "close"

(***************************************************************************)
(* A version 2 message of a worker whose engine was ready tells of every   *)
(* sample of the request, in its order, whatever became of the others.     *)
(***************************************************************************)
EverySampleIsTold ==
  /\ answer \in {"succeeded", "failed"}
  /\ request.version = 2
  /\ \E i \in DOMAIN phases : phases[i] = <<"readiness", "success">>
  => Len(samples) = Len(request.samples)

(***************************************************************************)
(* What the supervisor relies on: exit status zero comes with a success.   *)
(* An exception that escaped is never told as an outcome of the request.   *)
(***************************************************************************)
ExitTellsAnswer ==
  pc = "ended" =>
    /\ exit = "zero" <=> answer = "succeeded"
    /\ escaped => answer = "other_nonce"
=============================================================================
