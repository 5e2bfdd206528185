------------------------------- MODULE AsrSession ------------------------------
(***************************************************************************)
(* Any client of the AsrEngine port with two threads: one loads the        *)
(* engine, also when it is loaded already, feeds it segments and closes    *)
(* it; the other may cancel or close at any moment, between the checks of  *)
(* a segment and its inference too.  The port has no lock.  The look at    *)
(* the flag and its reset are one step: a cancel that falls between them   *)
(* is lost to a segment that is being cancelled anyway.  So are close's    *)
(* read of the model and its reset: two threads that close at once may     *)
(* both call the model's own close, which the module does not tell apart.  *)
(***************************************************************************)
EXTENDS AsrEngine

CONSTANT MaxCancels   \* bound on the calls of cancel

ASSUME SessionAssumption == MaxCancels \in Nat

VARIABLES
  phase,     \* where the first thread is in transcribe_segment, or "idle"
  length,    \* of its segment
  result,    \* of its last segment
  used,      \* what the last inference ran with
  closed,    \* nothing was loaded since the last close
  stale,     \* a load failed over a model that was loaded and not closed
  cancels,   \* calls of cancel
  spent,     \* segments that were cancelled
  asked      \* cancel was called since the segment began

vars == <<engineVars, phase, length, result, used, closed, stale, cancels,
          spent, asked>>

Phase == {"idle", "started", "checked"}
Used == [model : Options \cup {NoOptions}, defaults : Options \cup {NoOptions},
         stale : BOOLEAN]
Result == FailureCode \cup {"success", "escaped", "none"}

Init ==
  /\ EngineInit
  /\ phase = "idle"
  /\ length = "short"
  /\ result = "none"
  /\ used = [model |-> NoOptions, defaults |-> NoOptions, stale |-> FALSE]
  /\ closed = TRUE
  /\ stale = FALSE
  /\ cancels = 0
  /\ spent = 0
  /\ asked = FALSE

Load(options) ==
  /\ phase = "idle"
  /\ \/ LoadDone(options) /\ closed' = FALSE /\ stale' = FALSE
     \/ LoadNotDone(options) /\ UNCHANGED closed /\ stale' = (stale \/ ~closed)
  /\ UNCHANGED <<phase, length, result, used, cancels, spent, asked>>

Start ==
  /\ phase = "idle"
  /\ phase' = "started"
  /\ length' \in Length
  /\ result' = "none"
  /\ asked' = FALSE
  /\ UNCHANGED <<engineVars, used, closed, stale, cancels, spent>>

Check ==
  /\ phase = "started"
  /\ ConsumeCancel(length)
  /\ IF Checked(length) = "passed"
       THEN phase' = "checked" /\ UNCHANGED <<result, spent>>
       ELSE /\ phase' = "idle"
            /\ result' = Checked(length)
            /\ spent' = IF result' = "cancelled" THEN spent + 1 ELSE spent
  /\ UNCHANGED <<length, used, closed, stale, cancels, asked>>

Infer ==
  /\ phase = "checked"
  /\ phase' = "idle"
  /\ result' \in Inferred
  /\ used' = IF result' = "success"
               THEN [model |-> model, defaults |-> defaults, stale |-> stale]
               ELSE used
  /\ UNCHANGED <<engineVars, length, closed, stale, cancels, spent, asked>>

AskCancel ==
  /\ cancels < MaxCancels
  /\ Cancel
  /\ cancels' = cancels + 1
  /\ asked' = (asked \/ phase # "idle")
  /\ UNCHANGED <<phase, length, result, used, closed, stale, spent>>

\* By either thread: the second may close in the middle of a segment.
CloseEngine ==
  /\ \E outcome \in {"success", "resource_release_failed"} : Close(outcome)
  /\ closed' = TRUE
  /\ stale' = FALSE
  /\ UNCHANGED <<phase, length, result, used, cancels, spent, asked>>

Next ==
  \/ \E options \in Options : Load(options)
  \/ Start
  \/ Check
  \/ Infer
  \/ AskCancel
  \/ CloseEngine

Spec == Init /\ [][Next]_vars
-----------------------------------------------------------------------------
TypeOK ==
  /\ EngineTypeOK
  /\ phase \in Phase
  /\ length \in Length
  /\ result \in Result
  /\ used \in Used
  /\ closed \in BOOLEAN
  /\ stale \in BOOLEAN
  /\ cancels \in 0..MaxCancels
  /\ spent \in Nat
  /\ asked \in BOOLEAN

(***************************************************************************)
(* One call of cancel costs at most one segment, whenever it comes.        *)
(***************************************************************************)
CancelSpentOnce == spent + (IF cancelRequested THEN 1 ELSE 0) <= cancels

(***************************************************************************)
(* A text of faster-whisper was made by a model with its own options,      *)
(* although load takes over the defaults before anything can fail and a    *)
(* close may fail or come in the middle of a segment.  There is one        *)
(* exception: a load that failed over a model that nobody closed keeps     *)
(* that model with the defaults of the load that failed, until the next    *)
(* close or load that succeeds.                                            *)
(***************************************************************************)
OwnOptions ==
  backend = "faster-whisper" => used.model = used.defaults \/ used.stale

(***************************************************************************)
(* A segment is cancelled only if cancel was called while it was being     *)
(* processed.                                                              *)
(***************************************************************************)
CancelHitsCurrent == result = "cancelled" => asked
=============================================================================
