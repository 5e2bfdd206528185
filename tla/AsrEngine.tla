------------------------------- MODULE AsrEngine -------------------------------
(***************************************************************************)
(* FasterWhisperAsrEngine and GigaAMAsrEngine (infrastructure/asr), the    *)
(* two adapters of the AsrEngine port (domain/ports/asr.py): what each of  *)
(* their methods may come to.  A model is known by the options it was      *)
(* loaded with.  A method ends well, with an AsrEngineError that carries a *)
(* code, or "escaped", with any other exception.                           *)
(***************************************************************************)
EXTENDS Naturals, FiniteSets

CONSTANTS
  Options,    \* load options: a package and its inference defaults
  NoOptions   \* Python's None

ASSUME EngineAssumption == NoOptions \notin Options

VARIABLES
  backend,          \* which of the two adapters it is
  model,            \* _model
  defaults,         \* _inference_defaults, which only faster-whisper keeps
  cancelRequested   \* _cancel_requested

engineVars == <<backend, model, defaults, cancelRequested>>

Backend == {"faster-whisper", "gigaam"}

\* The codes the two adapters raise.
FailureCode == {"missing_package", "invalid_package_path",
                "missing_critical_file", "incompatible_backend",
                "engine_not_ready", "segment_too_long", "cancelled",
                "transcribe_failed", "warm_up_failed",
                "resource_release_failed"}

\* Segments: within every limit, beyond GigaAM's 25 s, beyond the capability.
Length == {"short", "long", "too_long"}

EngineInit ==
  /\ backend \in Backend
  /\ model = NoOptions
  /\ defaults = NoOptions
  /\ cancelRequested = FALSE

\* The adapter another process makes.
EngineNew ==
  /\ model' = NoOptions
  /\ defaults' = NoOptions
  /\ cancelRequested' = FALSE

-----------------------------------------------------------------------------
\* Mutant: both adapters keep the defaults.
TakeDefaultsAlways(options) == defaults' = options

(***************************************************************************)
(* load: faster-whisper takes over the defaults before it looks at the     *)
(* package.  A failed load leaves the model as it was.                     *)
(***************************************************************************)
TakeDefaults(options) ==
  defaults' = IF backend = "faster-whisper" THEN options ELSE defaults

\* Mutant: a failure of the SDK has a code of its own, unknown to the protocol.
LoadCodeUnknown == {"missing_package", "incompatible_backend", "load_failed"}

LoadCode ==
  {"missing_package", "incompatible_backend", "transcribe_failed"}
  \cup (IF backend = "gigaam" THEN {"missing_critical_file"}
                              ELSE {"invalid_package_path"})

\* The SDK of GigaAM hands over what it made unseen, None included.
LoadDone(options) ==
  /\ model' \in {options} \cup (IF backend = "gigaam" THEN {NoOptions} ELSE {})
  /\ TakeDefaults(options)
  /\ UNCHANGED <<backend, cancelRequested>>

LoadNotDone(options) ==
  /\ TakeDefaults(options)
  /\ UNCHANGED <<backend, model, cancelRequested>>

Ready == model # NoOptions

ensure_segment_within_capabilities(length) == length # "too_long"

(***************************************************************************)
(* The checks of transcribe_segment, in their order; a segment beyond the  *)
(* capability raises a plain ValueError.                                   *)
(***************************************************************************)
Checked(length) ==
  IF ~Ready THEN "engine_not_ready"
  ELSE IF ~ensure_segment_within_capabilities(length) THEN "escaped"
  ELSE IF length = "long" /\ backend = "gigaam" THEN "segment_too_long"
  ELSE IF cancelRequested THEN "cancelled"
  ELSE "passed"

\* Mutant: the request to cancel is not taken back.
ConsumeCancelNot(length) == UNCHANGED engineVars

ConsumeCancel(length) ==
  /\ cancelRequested' = (cancelRequested /\ Checked(length) # "cancelled")
  /\ UNCHANGED <<backend, model, defaults>>

\* What the inference may come to; the model may be gone since the checks.
Inferred == IF Ready THEN {"success", "transcribe_failed"}
                     ELSE {"transcribe_failed"}

Transcribed(length) ==
  IF Checked(length) = "passed" THEN Inferred ELSE {Checked(length)}

\* warm_up gives every AsrEngineError its own code.
WarmedUp(length) ==
  {IF r \in FailureCode THEN "warm_up_failed" ELSE r : r \in Transcribed(length)}

Cancel ==
  /\ cancelRequested' = TRUE
  /\ UNCHANGED <<backend, model, defaults>>

-----------------------------------------------------------------------------
\* Mutant: the model is only dropped after its own close succeeded.
CloseKeepsModelOnFailure(result) ==
  /\ result \in {"success"} \cup (IF Ready THEN {"resource_release_failed"} ELSE {})
  /\ model' = IF result = "success" THEN NoOptions ELSE model
  /\ UNCHANGED <<backend, defaults, cancelRequested>>

(***************************************************************************)
(* close drops the model first, so that closing again is harmless, and     *)
(* forgets neither the defaults nor a request to cancel.                   *)
(***************************************************************************)
Close(result) ==
  /\ result \in {"success"} \cup (IF Ready THEN {"resource_release_failed"} ELSE {})
  /\ model' = NoOptions
  /\ UNCHANGED <<backend, defaults, cancelRequested>>

EngineTypeOK ==
  /\ backend \in Backend
  /\ model \in Options \cup {NoOptions}
  /\ defaults \in Options \cup {NoOptions}
  /\ backend = "gigaam" => defaults = NoOptions
  /\ cancelRequested \in BOOLEAN
=============================================================================
