---------------------------- MODULE InsertionCli ----------------------------
(***************************************************************************)
(* The manual command line of the spike (cli.py): it captures a target,    *)
(* makes one delivery and, if that left an original clipboard behind, asks *)
(* the operator until it is restored or given up.  The operator presses    *)
(* Ctrl+C or ends the input whenever that may hurt.                        *)
(***************************************************************************)
EXTENDS InsertionService

CONSTANTS
  Main,               \* the thread that runs the program
  RequestId,          \* manual-<uuid4>
  SYNTHETIC_PAYLOAD

ASSUME CliAssumption ==
  /\ Threads = {Main}
  /\ Ids = {RequestId}
  /\ SYNTHETIC_PAYLOAD \in Texts \ Unencodable
  /\ MaxCalls > MaxFaults + 1

VARIABLES
  args,      \* the parsed arguments; tty: standard input is a terminal
  signals,   \* run is in the main thread, the only one Ctrl+C reaches
  stage,     \* where run is
  owner,     \* the clipboard owner window exists (CtypesClipboardApi)
  deferred,  \* the handler that only prints is installed for SIGINT
  resolved,  \* the last answer of the service settled the original
  exit,      \* exit status; 1 also stands for a traceback
  cut        \* history: where the last KeyboardInterrupt hit run itself

cli == <<args, signals, stage, owner, deferred, resolved, exit, cut>>
cliVars == <<vars, cli>>

(***************************************************************************)
(* build_parser.  The countdowns only tell how long a stage takes.         *)
(***************************************************************************)
Arguments ==
  [method : InsertionMethod, confirm : BOOLEAN, cancel : BOOLEAN,
   dry_run : BOOLEAN, hold : BOOLEAN, tty : BOOLEAN]

Stage == {"start", "create", "compose", "capture_countdown", "capture",
          "deliver_countdown", "service", "defer", "request", "deliver",
          "outcome", "dialogue", "asked", "hold", "restore_handler", "closing",
          "ended"}

CliInit ==
  /\ Init
  /\ args \in Arguments
  /\ signals \in BOOLEAN
  /\ stage = "start"
  /\ owner = FALSE
  /\ deferred = FALSE
  /\ resolved = FALSE
  /\ exit = 1
  /\ cut = "none"

Move(from, to) ==
  /\ stage = from
  /\ stage' = to
  /\ UNCHANGED <<args, signals>>

Proceed(from, to) == Move(from, to) /\ UNCHANGED cut

\* The service is not running and nothing it holds changes.
Aside == UNCHANGED vars

End(status) ==
  /\ exit' = status
  /\ UNCHANGED <<owner, deferred, resolved>>

-----------------------------------------------------------------------------
Refused ==
  \/ ~args.confirm \/ args.cancel
  \/ args.method # "direct" /\ ~(args.hold /\ args.tty)

DryRun == args.confirm /\ ~args.cancel /\ args.dry_run

\* Mutant: a refused run ends with a status of its own.
CheckArgumentsOtherStatus ==
  /\ \/ DryRun /\ Proceed("start", "ended") /\ End(0)
     \/ ~DryRun /\ Refused /\ Proceed("start", "ended") /\ End(3)
     \/ ~DryRun /\ ~Refused /\ Proceed("start", "create") /\ End(exit)
  /\ Aside

CheckArguments ==
  /\ \/ DryRun /\ Proceed("start", "ended") /\ End(0)
     \/ ~DryRun /\ Refused /\ Proceed("start", "ended") /\ End(2)
     \/ ~DryRun /\ ~Refused /\ Proceed("start", "create") /\ End(exit)
  /\ Aside

CreateOwnerWindow ==
  /\ \/ Proceed("create", "compose") /\ owner' = TRUE
     \/ Proceed("create", "ended") /\ UNCHANGED owner
  /\ UNCHANGED <<deferred, resolved, exit>>
  /\ Aside

DestroyWindow == owner' = FALSE

\* Mutant: a failed composition leaves the owner window behind.
create_runtime_leaks ==
  /\ Proceed("compose", "capture_countdown") \/ Proceed("compose", "ended")
  /\ UNCHANGED <<owner, deferred, resolved, exit>>
  /\ Aside

(***************************************************************************)
(* create_runtime: the owner window made first is destroyed again when a   *)
(* later part fails.  The exception ends the program.                      *)
(***************************************************************************)
create_runtime ==
  /\ \/ Proceed("compose", "capture_countdown") /\ UNCHANGED owner
     \/ Proceed("compose", "ended") /\ DestroyWindow
  /\ UNCHANGED <<deferred, resolved, exit>>
  /\ Aside

_countdown(from, to) ==
  /\ Proceed(from, to)
  /\ End(exit)
  /\ Aside

(***************************************************************************)
(* capture: TargetCaptureError ends the program with status 1, as does     *)
(* anything else the adapter raises.                                       *)
(***************************************************************************)
Capture ==
  /\ Proceed("capture", "deliver_countdown") \/ Proceed("capture", "closing")
  /\ End(exit)
  /\ Aside

CreateService ==
  /\ Proceed("service", "defer")
  /\ End(exit)
  /\ Aside

\* Mutant: SIGINT is deferred for direct input instead of for the clipboard.
DeferSigintSwapped ==
  /\ Proceed("defer", "request")
  /\ deferred' = (args.method = "direct" /\ signals)
  /\ UNCHANGED <<owner, resolved, exit>>
  /\ Aside

(***************************************************************************)
(* _defer_sigint_for_clipboard: signal.signal raises ValueError outside of *)
(* the main thread, and Ctrl+C is then not deferred.                       *)
(***************************************************************************)
_defer_sigint_for_clipboard ==
  /\ Proceed("defer", "request")
  /\ deferred' = (args.method # "direct" /\ signals)
  /\ UNCHANGED <<owner, resolved, exit>>
  /\ Aside

ManualRequest == [id |-> RequestId, text |-> SYNTHETIC_PAYLOAD, method |-> args.method]

CallDeliver ==
  /\ Proceed("request", "deliver")
  /\ Deliver(Main, ManualRequest)
  /\ End(exit)

\* Mutant: external_change does not settle the original.
ServiceRunsRestoredOnly ==
  /\ stage \in {"deliver", "asked"}
  /\ pc[Main] # "release"
  /\ Step(Main)
  /\ resolved' = IF pc[Main] \in {"restore", "discard"} THEN seq' # seq ELSE resolved
  /\ UNCHANGED <<args, signals, stage, owner, deferred, exit, cut>>

(***************************************************************************)
(* The service works.  What its explicit operations answer (restored or    *)
(* external_change, discarded) is whether they dropped the snapshot.       *)
(***************************************************************************)
ServiceRuns ==
  /\ stage \in {"deliver", "asked"}
  /\ pc[Main] # "release"
  /\ Step(Main)
  /\ resolved' = IF pc[Main] \in {"restore", "discard"} THEN retained' # retained
                                                       ELSE resolved
  /\ UNCHANGED <<args, signals, stage, owner, deferred, exit, cut>>

InsertionOutcome ==
  [code |-> code[Main], original_snapshot_retained |-> kept[Main]]

\* Where run goes on from an outcome, or from an exception of deliver.
AfterDeliver ==
  IF InsertionOutcome.code = "raised" THEN "restore_handler"
  ELSE IF InsertionOutcome.original_snapshot_retained THEN "outcome"
  ELSE IF args.hold THEN "hold" ELSE "restore_handler"

\* Mutant: any outcome that is no exception counts as success.
DeliverReturnsSuccess ==
  /\ Release(Main)
  /\ Proceed("deliver", AfterDeliver)
  /\ End(IF InsertionOutcome.code = "raised" THEN 1 ELSE 0)

(***************************************************************************)
(* deliver returns or raises.  The operator is asked if the outcome says   *)
(* that the original is retained.                                          *)
(***************************************************************************)
DeliverReturns ==
  /\ Release(Main)
  /\ Proceed("deliver", AfterDeliver)
  /\ End(IF InsertionOutcome.code \in {"dispatched", "direct_dispatched"} THEN 0 ELSE 1)

PrintOutcome ==
  /\ Proceed("outcome", "dialogue")
  /\ End(exit)
  /\ Aside

-----------------------------------------------------------------------------
(***************************************************************************)
(* _resolve_pending_restoration.  MaxFaults + 1 calls are set aside for    *)
(* RESTORE, which can only fail as often as the clipboard does.            *)
(***************************************************************************)
Answer(word) ==
  /\ Proceed("dialogue", "asked")
  /\ \/ word = "RESTORE" /\ AskOriginal(Main, RequestId, "restore_wait")
     \/ /\ word = "DISCARD_ORIGINAL"
        /\ calls < MaxCalls - (MaxFaults + 1)
        /\ AskOriginal(Main, RequestId, "discard_wait")
  /\ resolved' = FALSE
  /\ UNCHANGED <<owner, deferred, exit>>

(***************************************************************************)
(* Ctrl+C, the end of the input or another word: asked again.              *)
(***************************************************************************)
AnswerNothing ==
  /\ Proceed("dialogue", "dialogue")
  /\ End(exit)
  /\ Aside

AnswerReturns ==
  /\ Release(Main)
  /\ Proceed("asked", IF resolved THEN "restore_handler" ELSE "dialogue")
  /\ End(exit)

(***************************************************************************)
(* --hold with nothing retained waits for Enter; the end of the input      *)
(* raises EOFError.                                                        *)
(***************************************************************************)
Hold ==
  /\ Proceed("hold", "restore_handler")
  /\ End(exit) \/ End(1)
  /\ Aside

(***************************************************************************)
(* The two finally clauses: SIGINT gets its handler back, the clipboard    *)
(* owner window goes.                                                      *)
(***************************************************************************)
RestoreHandler ==
  /\ Proceed("restore_handler", "closing")
  /\ deferred' = FALSE
  /\ UNCHANGED <<owner, resolved, exit>>
  /\ Aside

Close ==
  /\ Proceed("closing", "ended")
  /\ DestroyWindow
  /\ UNCHANGED <<deferred, resolved, exit>>
  /\ Aside

(***************************************************************************)
(* Ctrl+C while run itself is working and SIGINT is not deferred: every    *)
(* clause below the current one is skipped but the finally clauses, and in *)
(* a finally clause the rest of it.  In the dialogue KeyboardInterrupt is  *)
(* caught (AnswerNothing), in the service it is one of the exceptions the  *)
(* service module knows.                                                   *)
(***************************************************************************)
Interrupt ==
  /\ signals /\ ~deferred
  /\ \/ \E from \in {"create", "compose", "closing"} : Move(from, "ended")
     \/ \E from \in {"capture_countdown", "capture", "deliver_countdown",
                     "service", "defer", "restore_handler"} : Move(from, "closing")
     \/ \E from \in {"request", "outcome", "hold"} : Move(from, "restore_handler")
  /\ cut' = stage
  /\ End(1)
  /\ Aside

-----------------------------------------------------------------------------
Program ==
  \/ CheckArguments
  \/ CreateOwnerWindow
  \/ create_runtime
  \/ _countdown("capture_countdown", "capture")
  \/ Capture
  \/ _countdown("deliver_countdown", "service")
  \/ CreateService
  \/ _defer_sigint_for_clipboard
  \/ CallDeliver
  \/ ServiceRuns
  \/ DeliverReturns
  \/ PrintOutcome
  \/ AnswerReturns
  \/ Hold
  \/ RestoreHandler
  \/ Close

Operator ==
  \/ Answer("RESTORE")
  \/ Answer("DISCARD_ORIGINAL")
  \/ AnswerNothing
  \/ Interrupt

Environment == (OtherProgram \/ TargetMoves) /\ UNCHANGED cli

CliNext == Program \/ Operator \/ Environment

CliSpec == CliInit /\ [][CliNext]_cliVars

(***************************************************************************)
(* The program runs on, and the operator does not leave the question       *)
(* unanswered for ever.                                                    *)
(***************************************************************************)
CliFairSpec ==
  /\ CliSpec
  /\ WF_cliVars(Program)
  /\ WF_cliVars(Answer("RESTORE"))
-----------------------------------------------------------------------------
CliTypeOK ==
  /\ TypeOK
  /\ args \in Arguments
  /\ signals \in BOOLEAN
  /\ stage \in Stage
  /\ owner \in BOOLEAN
  /\ deferred \in BOOLEAN
  /\ resolved \in BOOLEAN
  /\ exit \in 0..2
  /\ cut \in Stage \cup {"none"}

(***************************************************************************)
(* The program does not end over a pending original: by then the user's    *)
(* content is on the clipboard, or the operator gave it up, or another     *)
(* program wrote something newer.  No Ctrl+C, end of input, unusable       *)
(* answer or failing clipboard gets around the question.                   *)
(***************************************************************************)
EndsWithUserContent ==
  stage \in {"closing", "ended"} => clip = user /\ retained = {}

(***************************************************************************)
(* Every way out gives the operator's Ctrl+C back and frees the window     *)
(* that owns the clipboard, a failed composition and an interrupt at any   *)
(* place included.  Two places are left to Windows, which frees the window *)
(* with the process: create_runtime only cleans up after an Exception, and *)
(* the finally clause that frees the window may itself be interrupted.     *)
(***************************************************************************)
LeavesNothingBehind ==
  stage = "ended" => ~deferred /\ (owner => cut \in {"compose", "closing"})

(***************************************************************************)
(* Status 0 is only given after the input of the one request was sent,     *)
(* once, for a run that was confirmed; and a run that was not confirmed    *)
(* never writes the clipboard nor sends.                                   *)
(***************************************************************************)
StatusTellsInput ==
  /\ stage = "ended" /\ exit = 0 => args.dry_run \/ sends[RequestId] = 1
  /\ args.dry_run \/ ~args.confirm \/ args.cancel =>
       sends[RequestId] = 0 /\ seq = foreign

(***************************************************************************)
(* The dialogue comes to an end: with an operator who answers, the         *)
(* program ends whatever the clipboard and the target do meanwhile.        *)
(***************************************************************************)
ProgramEnds == <>(stage = "ended")
=============================================================================
