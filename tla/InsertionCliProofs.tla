-------------------------- MODULE InsertionCliProofs --------------------------
(***************************************************************************)
(* Safety of the manual command line, from what InsertionServiceProofs     *)
(* proves of the service it drives.                                        *)
(***************************************************************************)
EXTENDS InsertionCli, InsertionServiceProofs

CliTyped ==
  /\ args \in Arguments
  /\ signals \in BOOLEAN
  /\ stage \in Stage
  /\ owner \in BOOLEAN
  /\ deferred \in BOOLEAN
  /\ resolved \in BOOLEAN
  /\ exit \in 0..2
  /\ cut \in Stage \cup {"none"}

LEMMA ManualRequestTyped == CliTyped => ManualRequest \in Request
BY CliAssumption DEF CliTyped, Arguments, ManualRequest, Request, CliAssumption

(***************************************************************************)
(* Whatever the command line and its operator do, the service only sees    *)
(* its own steps: every theorem about its Spec holds here as well.         *)
(***************************************************************************)
LEMMA CliStepIsServiceStep ==
  ASSUME CliTyped, [CliNext]_cliVars
  PROVE  [Next]_vars
<1>1. Main \in Threads /\ RequestId \in Ids
  BY CliAssumption DEF CliAssumption
<1>2. CASE CallDeliver
  BY <1>1, <1>2, ManualRequestTyped DEF CallDeliver, Next, Start
<1>3. CASE \E word \in {"RESTORE", "DISCARD_ORIGINAL"} : Answer(word)
  BY <1>1, <1>3 DEF Answer, Next, Start
<1>4. CASE ServiceRuns
  BY <1>1, <1>4 DEF ServiceRuns, Next
<1>5. CASE DeliverReturns \/ AnswerReturns
  BY <1>1, <1>5 DEF DeliverReturns, AnswerReturns, Next, Step
<1>6. CASE Environment
  BY <1>6 DEF Environment, Next
<1>7. CASE UNCHANGED cliVars
  BY <1>7 DEF cliVars
<1>8. CASE \/ CheckArguments \/ CreateOwnerWindow \/ create_runtime
           \/ _countdown("capture_countdown", "capture") \/ Capture
           \/ _countdown("deliver_countdown", "service") \/ CreateService
           \/ _defer_sigint_for_clipboard \/ PrintOutcome \/ Hold
           \/ RestoreHandler \/ Close \/ AnswerNothing \/ Interrupt
  BY <1>8
     DEF CheckArguments, CreateOwnerWindow, create_runtime, _countdown, Capture,
         CreateService, _defer_sigint_for_clipboard, PrintOutcome, Hold,
         RestoreHandler, Close, AnswerNothing, Interrupt, Aside
<1> QED
  BY <1>2, <1>3, <1>4, <1>5, <1>6, <1>7, <1>8 DEF CliNext, Program, Operator

LEMMA CliTypedStep ==
  ASSUME CliTyped, TypeOK, [CliNext]_cliVars
  PROVE  CliTyped'
<1> USE DEF CliTyped, Proceed, Move, End, Stage
<1>1. CASE UNCHANGED cli
  BY <1>1 DEF cli
<1>2. ASSUME NEW from \in Stage, NEW to \in Stage, NEW status \in 0..2,
             Proceed(from, to), End(status)
      PROVE  CliTyped'
  BY <1>2
<1>3. CASE CheckArguments
  BY <1>2, <1>3 DEF CheckArguments
<1>4. CASE \/ _countdown("capture_countdown", "capture") \/ Capture
           \/ _countdown("deliver_countdown", "service") \/ CreateService
           \/ CallDeliver \/ PrintOutcome \/ AnswerNothing \/ Hold
           \/ AnswerReturns
  BY <1>2, <1>4
     DEF _countdown, Capture, CreateService, CallDeliver, PrintOutcome,
         AnswerNothing, Hold, AnswerReturns
<1>5. CASE ServiceRuns
  BY <1>5 DEF ServiceRuns
<1>6. CASE DeliverReturns
  <2>1. AfterDeliver \in Stage
    BY DEF AfterDeliver
  <2> QED BY <1>2, <1>6, <2>1 DEF DeliverReturns
<1>7. CASE \E word \in {"RESTORE", "DISCARD_ORIGINAL"} : Answer(word)
  BY <1>7 DEF Answer
<1>8. CASE CreateOwnerWindow \/ create_runtime
  BY <1>8 DEF CreateOwnerWindow, create_runtime, DestroyWindow
<1>9. CASE _defer_sigint_for_clipboard \/ RestoreHandler \/ Close
  BY <1>9 DEF _defer_sigint_for_clipboard, RestoreHandler, Close, DestroyWindow
<1>10. CASE Interrupt
  <2>1. /\ UNCHANGED <<args, signals, owner, deferred, resolved>>
        /\ exit' = 1 /\ cut' = stage
        /\ stage' \in {"ended", "closing", "restore_handler"}
    BY <1>10 DEF Interrupt
  <2> QED BY <2>1
<1> QED
  BY <1>1, <1>3, <1>4, <1>5, <1>6, <1>7, <1>8, <1>9, <1>10
     DEF CliNext, Program, Operator, Environment, cliVars, cli

LEMMA CliInitTyped ==
  ASSUME CliInit
  PROVE  CliTyped /\ IInv
<1>1. IInv
  BY InvariantInit DEF CliInit
<1>2. exit \in 0..2 /\ stage \in Stage /\ cut \in Stage \cup {"none"}
  BY DEF CliInit, Stage
<1>3. args \in Arguments /\ signals \in BOOLEAN
  BY DEF CliInit
<1>4. owner \in BOOLEAN /\ deferred \in BOOLEAN /\ resolved \in BOOLEAN
  BY DEF CliInit
<1> QED BY <1>1, <1>2, <1>3, <1>4 DEF CliTyped

(***************************************************************************)
(* The service's invariant and the types of cli.py's own variables.        *)
(***************************************************************************)
THEOREM CliTypes == CliSpec => []CliTypeOK
<1>1. CliTyped /\ IInv /\ [CliNext]_cliVars => (CliTyped /\ IInv)'
  <2> SUFFICES ASSUME CliTyped, IInv, [CliNext]_cliVars
               PROVE  CliTyped' /\ IInv'
    OBVIOUS
  <2>1. IInv'
    BY CliStepIsServiceStep, InvariantStep
  <2> QED BY <2>1, CliTypedStep DEF IInv
<1>2. CliTyped /\ IInv => CliTypeOK
  BY DEF CliTyped, IInv, CliTypeOK
<1> QED BY <1>1, <1>2, CliInitTyped, PTL DEF CliSpec
-----------------------------------------------------------------------------
(***************************************************************************)
(* The command line and the service keep step: the service is only at work *)
(* in the stages that wait for it, on the one request, and its outcome is  *)
(* never the answer to an id delivered before.                             *)
(***************************************************************************)
Asleep == stage \notin {"deliver", "asked"} => pc[Main] = "idle"

Fresh ==
  stage \in {"start", "create", "compose", "capture_countdown", "capture",
            "deliver_countdown", "service", "defer", "request"} =>
    retained = {} /\ attempted = {}

Delivering ==
  stage = "deliver" =>
    /\ pc[Main] \in {"register", "assess", "prepare", "commit", "restore_back",
                     "release"} \cup DirectPC \cup PastePC
    /\ pc[Main] = "register" => attempted = {}
    /\ pc[Main] = "restore_back" =>
         code[Main] \notin {"ok", "raised", "already_delivered"}
    /\ pc[Main] = "release" =>
         /\ code[Main] \notin {"ok", "already_delivered"}
         /\ code[Main] = "raised" => kept[Main] = FALSE

Resolving ==
  stage = "asked" =>
    /\ pc[Main] \in {"restore_wait", "discard_wait", "restore", "discard", "release"}
    /\ resolved => retained = {}

Settled ==
  stage \in {"hold", "restore_handler", "closing", "ended"} => retained = {}

KeepStep == Asleep /\ Fresh /\ Delivering /\ Resolving /\ Settled

(***************************************************************************)
(* A delivery that may put a snapshot aside runs with SIGINT deferred, and *)
(* one that runs without never gets there.                                 *)
(***************************************************************************)
Shielded ==
  /\ /\ stage \in {"request", "deliver", "outcome", "dialogue", "asked"}
     /\ signals /\ args.method # "direct"
     => deferred
  /\ stage = "deliver" /\ args.method = "direct" =>
       /\ call[Main].method = "direct"
       /\ pc[Main] \in {"register", "assess", "release"} \cup DirectPC
       /\ retained = {}
  /\ args.method = "direct" => stage \notin {"outcome", "dialogue", "asked"}

LEMMA OneCaller ==
  /\ Threads = {Main} /\ Main \in Threads
  /\ Ids = {RequestId} /\ RequestId \in Ids
BY CliAssumption DEF CliAssumption

LEMMA KeepStepInit == CliInit => KeepStep
BY OneCaller DEF CliInit, Init, KeepStep, Asleep, Fresh, Delivering, Resolving, Settled

LEMMA OutcomeIsTrue ==
  ASSUME IInv, KeepStep, DeliverReturns
  PROVE  /\ stage = "deliver" /\ pc[Main] = "release"
         /\ stage' = AfterDeliver /\ pc'[Main] = "idle"
         /\ UNCHANGED <<args, signals, deferred, retained, attempted>>
         /\ stage' \in {"outcome", "hold", "restore_handler"}
         /\ stage' = "outcome" => retained # {}
         /\ stage' # "outcome" => retained = {}
<1>1. /\ stage = "deliver" /\ stage' = AfterDeliver /\ pc'[Main] = "idle"
      /\ pc[Main] = "release" /\ UNCHANGED <<args, signals, deferred, retained, attempted>>
  BY OneCaller
     DEF DeliverReturns, Release, Proceed, Move, End, Goto, stores, IInv, TypeOK
<1>2. call[Main].id = RequestId /\ retained \subseteq {RequestId}
  BY <1>1, OneCaller DEF IInv, CallsTyped, TypeOK
<1>3. /\ code[Main] \notin {"ok", "already_delivered"}
      /\ code[Main] = "raised" => kept[Main] = FALSE
  BY <1>1 DEF KeepStep, Delivering
<1>4. kept[Main] <=> call[Main].id \in retained
  <2>1. OutcomeTellsRetention
    BY DEF IInv, Reporting
  <2> QED BY <1>1, <1>3, <2>1, OneCaller DEF OutcomeTellsRetention
<1>5. CASE kept[Main]
  <2>1. stage' = "outcome"
    BY <1>1, <1>3, <1>5 DEF AfterDeliver, InsertionOutcome
  <2> QED BY <1>1, <1>2, <1>4, <1>5, <2>1
<1>6. CASE ~kept[Main]
  <2>1. stage' \in {"hold", "restore_handler"}
    BY <1>1, <1>6 DEF AfterDeliver, InsertionOutcome
  <2> QED BY <1>1, <1>2, <1>4, <1>6, <2>1
<1> QED BY <1>5, <1>6

(***************************************************************************)
(* The service while the command line waits for deliver to return.         *)
(***************************************************************************)
LEMMA DeliveringStep ==
  ASSUME IInv, KeepStep, stage = "deliver", ServiceRuns
  PROVE  KeepStep'
<1> USE OneCaller DEF Goto, Finish, Continue, Undo
<1>1. /\ stage' = "deliver" /\ pc[Main] # "release" /\ Step(Main)
      /\ pc \in [Threads -> PC]
      /\ code \in [Threads -> OutcomeCode \cup {"ok", "raised"}]
      /\ kept \in [Threads -> BOOLEAN]
  BY DEF ServiceRuns, IInv, TypeOK
<1>2. Delivering
  BY DEF KeepStep
<1> DEFINE On == /\ pc'[Main] \in {"assess", "prepare", "commit"} \cup DirectPC
                                   \cup PastePC
           Back == /\ pc'[Main] = "restore_back"
                   /\ code'[Main] \notin {"ok", "raised", "already_delivered"}
           Over == /\ pc'[Main] = "release"
                   /\ code'[Main] \notin {"ok", "already_delivered"}
                   /\ code'[Main] = "raised" => kept'[Main] = FALSE
<1> SUFFICES On \/ Back \/ Over
  <2>1. On \/ Back \/ Over => Delivering'
    BY DEF Delivering, DirectPC, PastePC
  <2> QED BY <1>1, <2>1 DEF KeepStep, Asleep, Fresh, Resolving, Settled
<1> USE DEF DirectPC, PastePC
<1>4. CASE Register(Main)
  <2>1. attempted = {} /\ call[Main].id \notin attempted
    BY <1>1, <1>2, <1>4 DEF Delivering, Register
  <2> QED BY <1>1, <2>1, <1>4 DEF Register
<1>5. CASE Assess(Main) \/ DirectReassess(Main)
  BY <1>1, <1>5 DEF Assess, DirectReassess, AssessResult
<1>6. CASE DirectPreflight(Main)
  BY <1>1, <1>6 DEF DirectPreflight
<1>7. CASE DirectDispatch(Main)
  BY <1>1, <1>7 DEF DirectDispatch, DispatchContract, DispatchResult
<1>8. CASE Prepare(Main)
  BY <1>1, <1>8 DEF Prepare
<1>9. CASE Commit(Main)
  BY <1>1, <1>9 DEF Commit
<1>10. CASE PastePreflight(Main)
  BY <1>1, <1>10 DEF PastePreflight
<1>11. CASE PasteReassess(Main)
  BY <1>1, <1>11 DEF PasteReassess, AssessResult
<1>12. CASE PasteDispatch(Main)
  BY <1>1, <1>12 DEF PasteDispatch, DispatchContract, DispatchResult
<1>13. CASE RestoreBack(Main)
  BY <1>1, <1>2, <1>13 DEF RestoreBack, Delivering
<1> QED
  BY <1>1, <1>2, <1>4, <1>5, <1>6, <1>7, <1>8, <1>9, <1>10, <1>11, <1>12, <1>13
     DEF Delivering, Step, RejectBusy, Acquire, RestoreOriginal, DiscardOriginal, Release

(***************************************************************************)
(* The service while the command line waits for an answer of the dialogue. *)
(***************************************************************************)
LEMMA ResolvingStep ==
  ASSUME IInv, KeepStep, stage = "asked", ServiceRuns
  PROVE  KeepStep'
<1> USE OneCaller DEF Goto, Continue
<1>1. /\ stage' = "asked" /\ pc[Main] # "release" /\ Step(Main)
      /\ pc \in [Threads -> PC] /\ retained \subseteq {RequestId}
      /\ resolved' = IF pc[Main] \in {"restore", "discard"} THEN retained' # retained
                                                            ELSE resolved
  BY DEF ServiceRuns, IInv, TypeOK
<1>2. Resolving
  BY DEF KeepStep
<1>3. pc[Main] \in {"restore_wait", "discard_wait", "restore", "discard"}
  BY <1>1, <1>2 DEF Resolving
<1> SUFFICES Resolving'
  BY <1>1 DEF KeepStep, Asleep, Fresh, Delivering, Settled
<1>4. CASE \/ Acquire(Main, "restore_wait", "restore")
           \/ Acquire(Main, "discard_wait", "discard")
  BY <1>1, <1>2, <1>4 DEF Acquire, Resolving
<1>5. CASE RestoreOriginal(Main) \/ DiscardOriginal(Main)
  <2>1. call[Main].id = RequestId
    BY <1>3 DEF IInv, CallsTyped
  <2>2. retained' = retained \/ retained' = retained \ {RequestId}
    BY <1>5, <2>1 DEF RestoreOriginal, DiscardOriginal
  <2>3. pc'[Main] = "release" /\ pc[Main] \in {"restore", "discard"}
    BY <1>1, <1>5 DEF RestoreOriginal, DiscardOriginal
  <2> QED BY <1>1, <2>2, <2>3 DEF Resolving
<1> QED
  BY <1>1, <1>3, <1>4, <1>5
     DEF Step, RejectBusy, Register, Assess, DirectPreflight, DirectReassess,
         DirectDispatch, Prepare, Commit, PastePreflight, PasteReassess, PasteDispatch,
         RestoreBack, Release

LEMMA KeepStepStep ==
  ASSUME CliTyped, IInv, KeepStep, Shielded, [CliNext]_cliVars
  PROVE  KeepStep'
<1> USE OneCaller DEF KeepStep, Asleep, Fresh, Delivering, Resolving, Settled
<1>1. CASE ServiceRuns
  <2>1. stage \in {"deliver", "asked"}
    BY <1>1 DEF ServiceRuns
  <2> HIDE DEF KeepStep
  <2> QED BY <1>1, <2>1, DeliveringStep, ResolvingStep
<1>2. CASE CallDeliver
  <2>1. lock = NoThread
    BY <1>2 DEF CallDeliver, Proceed, Move, IInv, TypeOK, Reservation, LockHeld, HoldingPC,
                DirectPC, PastePC
  <2>2. /\ stage = "request" /\ stage' = "deliver" /\ pc'[Main] = "register"
        /\ UNCHANGED attempted
    BY <1>2, <2>1
       DEF CallDeliver, Proceed, Move, Deliver, Goto, stores, IInv, TypeOK
  <2> QED BY <2>2
<1>3. CASE DeliverReturns
  BY <1>3, OutcomeIsTrue
<1>4. CASE \E word \in {"RESTORE", "DISCARD_ORIGINAL"} : Answer(word)
  <2>1. /\ stage' = "asked" /\ resolved' = FALSE
        /\ pc'[Main] \in {"restore_wait", "discard_wait"}
    BY <1>4 DEF Answer, AskOriginal, Proceed, Move, Goto, IInv, TypeOK
  <2> QED BY <2>1
<1>5. CASE AnswerReturns
  <2>1. /\ stage = "asked" /\ pc'[Main] = "idle" /\ UNCHANGED retained
        /\ stage' = IF resolved THEN "restore_handler" ELSE "dialogue"
    BY <1>5 DEF AnswerReturns, Release, Proceed, Move, Goto, IInv, TypeOK
  <2> QED BY <2>1
<1>6. CASE Environment \/ UNCHANGED cliVars
  BY <1>6
     DEF Environment, OtherProgram, TargetMoves, cliVars, cli, vars, local, stores
<1>7. CASE \/ CheckArguments \/ CreateOwnerWindow \/ create_runtime
           \/ _countdown("capture_countdown", "capture") \/ Capture
           \/ _countdown("deliver_countdown", "service") \/ CreateService
           \/ _defer_sigint_for_clipboard \/ PrintOutcome \/ Hold
           \/ RestoreHandler \/ Close \/ AnswerNothing
  BY <1>7
     DEF CheckArguments, CreateOwnerWindow, create_runtime, _countdown, Capture,
         CreateService, _defer_sigint_for_clipboard, PrintOutcome, Hold, RestoreHandler,
         Close, AnswerNothing, Proceed, Move, Aside, vars, local, stores
<1>8. CASE Interrupt
  <2>1. signals /\ ~deferred /\ UNCHANGED <<pc, retained, attempted>>
    BY <1>8 DEF Interrupt, Aside, vars, local, stores
  <2>2. stage \notin {"deliver", "asked"} /\ stage' \in {"ended", "closing", "restore_handler"}
    BY <1>8 DEF Interrupt, Move
  <2>3. retained = {}
    <3>1. CASE stage = "outcome"
      BY <2>1, <3>1 DEF Shielded
    <3>2. CASE stage # "outcome"
      BY <1>8, <3>2 DEF Interrupt, Move
    <3> QED BY <3>1, <3>2
  <2> QED BY <2>1, <2>2, <2>3
<1> QED
  BY <1>1, <1>2, <1>3, <1>4, <1>5, <1>6, <1>7, <1>8 DEF CliNext, Program, Operator

LEMMA ShieldedInit == CliInit => Shielded
BY DEF CliInit, Shielded

LEMMA ShieldedStep ==
  ASSUME CliTyped, IInv, KeepStep, Shielded, [CliNext]_cliVars
  PROVE  Shielded'
<1> USE OneCaller DEF Shielded
<1>1. CASE ServiceRuns
  <2>1. /\ stage \in {"deliver", "asked"}
        /\ UNCHANGED <<args, signals, stage, deferred>> /\ Step(Main)
        /\ pc[Main] # "release" /\ pc \in [Threads -> PC]
    BY <1>1 DEF ServiceRuns, IInv, TypeOK
  <2>2. CASE stage = "asked"
    BY <2>1, <2>2
  <2>3. CASE stage = "deliver" /\ args.method = "direct"
    <3>1. pc[Main] \in {"register", "assess"} \cup DirectPC /\ call[Main].method = "direct"
      BY <2>1, <2>3
    <3>2. Register(Main) \/ Assess(Main) \/ DirectPreflight(Main) \/ DirectReassess(Main)
            \/ DirectDispatch(Main)
      BY <2>1, <3>1
         DEF Step, DirectPC, RejectBusy, Prepare, Commit, PastePreflight, PasteReassess,
             PasteDispatch, RestoreBack, Acquire, RestoreOriginal, DiscardOriginal, Release
    <3>3. UNCHANGED <<call, retained>>
      BY <3>2
         DEF Register, Assess, DirectPreflight, DirectReassess, DirectDispatch, Finish,
             Continue
    <3>4. pc'[Main] \in {"assess", "release"} \cup DirectPC
      BY <2>1, <3>1, <3>2
         DEF Register, Assess, DirectPreflight, DirectReassess, DirectDispatch, Finish,
             Continue, Goto, DirectPC
    <3> QED BY <2>1, <2>3, <3>1, <3>3, <3>4
  <2>4. CASE stage = "deliver" /\ args.method # "direct"
    BY <2>1, <2>4
  <2> QED BY <2>1, <2>2, <2>3, <2>4
<1>2. CASE CallDeliver
  <2>1. lock = NoThread
    BY <1>2 DEF CallDeliver, Proceed, Move, KeepStep, Asleep, IInv, TypeOK, Reservation,
                LockHeld, HoldingPC, DirectPC, PastePC
  <2>2. /\ stage = "request" /\ stage' = "deliver" /\ pc'[Main] = "register"
        /\ UNCHANGED <<args, signals, deferred, retained>> /\ call'[Main] = ManualRequest
    BY <1>2, <2>1
       DEF CallDeliver, Proceed, Move, End, Deliver, Goto, IInv, TypeOK
  <2>3. retained' = {} /\ call'[Main].method = args.method
    BY <2>2 DEF KeepStep, Fresh, ManualRequest
  <2> QED BY <2>2, <2>3
<1>3. CASE DeliverReturns
  <2>1. stage' \in {"outcome", "hold", "restore_handler"}
        /\ (stage' = "outcome" => retained # {}) /\ stage = "deliver"
        /\ UNCHANGED <<args, signals, deferred>>
    BY <1>3, OutcomeIsTrue
  <2> QED BY <2>1
<1>4. CASE _defer_sigint_for_clipboard
  BY <1>4 DEF _defer_sigint_for_clipboard, Proceed, Move
<1>5. CASE Environment \/ UNCHANGED cliVars
  BY <1>5
     DEF Environment, OtherProgram, TargetMoves, cliVars, cli, vars, local
<1>6. CASE \/ \E word \in {"RESTORE", "DISCARD_ORIGINAL"} : Answer(word)
           \/ AnswerReturns \/ PrintOutcome \/ AnswerNothing
  BY <1>6
     DEF Answer, AnswerReturns, PrintOutcome, AnswerNothing, Proceed, Move, End
<1>7. CASE \/ CheckArguments \/ CreateOwnerWindow \/ create_runtime
           \/ _countdown("capture_countdown", "capture") \/ Capture
           \/ _countdown("deliver_countdown", "service") \/ CreateService
           \/ Hold \/ RestoreHandler \/ Close \/ Interrupt
  <2>1. stage' \notin {"request", "deliver", "outcome", "dialogue", "asked"}
    BY <1>7
       DEF CheckArguments, CreateOwnerWindow, create_runtime, _countdown, Capture,
           CreateService, Hold, RestoreHandler, Close, Interrupt, Proceed, Move
  <2> QED BY <2>1
<1> QED
  BY <1>1, <1>2, <1>3, <1>4, <1>5, <1>6, <1>7 DEF CliNext, Program, Operator

(***************************************************************************)
(* cli.py never ends over a pending original, whatever the operator, the   *)
(* clipboard and other programs do.                                        *)
(***************************************************************************)
THEOREM CliEndsWithUserContent == CliSpec => []EndsWithUserContent
<1>1. CliTyped /\ IInv /\ KeepStep /\ Shielded /\ [CliNext]_cliVars
        => (CliTyped /\ IInv /\ KeepStep /\ Shielded)'
  <2> SUFFICES ASSUME CliTyped, IInv, KeepStep, Shielded, [CliNext]_cliVars
               PROVE  CliTyped' /\ IInv' /\ KeepStep' /\ Shielded'
    OBVIOUS
  <2>1. IInv'
    BY CliStepIsServiceStep, InvariantStep
  <2>2. CliTyped'
    BY CliTypedStep DEF IInv
  <2> QED BY <2>1, <2>2, KeepStepStep, ShieldedStep
<1>2. IInv /\ KeepStep => EndsWithUserContent
  BY DEF IInv, Custody, UserDataSafe, KeepStep, Settled, EndsWithUserContent
<1> QED BY <1>1, <1>2, CliInitTyped, KeepStepInit, ShieldedInit, PTL DEF CliSpec
-----------------------------------------------------------------------------
(***************************************************************************)
(* Where SIGINT may be deferred and where the owner window may exist.      *)
(***************************************************************************)
Tidy ==
  /\ deferred => stage \in {"request", "deliver", "outcome", "dialogue", "asked",
                            "hold", "restore_handler"}
  /\ stage \in {"start", "create"} => ~owner
  /\ stage = "ended" /\ owner => cut \in {"compose", "closing"}

LEMMA TidyInit == CliInit => Tidy
BY DEF CliInit, Tidy

LEMMA TidyStep ==
  ASSUME CliTyped, Tidy, [CliNext]_cliVars
  PROVE  Tidy'
<1> USE DEF Tidy
<1>1. CASE Environment \/ UNCHANGED cliVars
  BY <1>1 DEF Environment, cliVars, cli
<1>2. CASE CheckArguments
  BY <1>2 DEF CheckArguments, Proceed, Move, End
<1>3. CASE CreateOwnerWindow \/ create_runtime
  BY <1>3 DEF CreateOwnerWindow, create_runtime, Proceed, Move, DestroyWindow
<1>4. CASE \/ _countdown("capture_countdown", "capture") \/ Capture
           \/ _countdown("deliver_countdown", "service") \/ CreateService
           \/ CallDeliver \/ PrintOutcome \/ AnswerNothing \/ Hold \/ AnswerReturns
  <2>1. /\ UNCHANGED <<owner, deferred, cut>>
        /\ deferred => stage' \in {"deliver", "dialogue", "restore_handler"}
        /\ stage' \notin {"start", "create", "ended"}
    BY <1>4
       DEF _countdown, Capture, CreateService, CallDeliver, PrintOutcome, AnswerNothing,
           Hold, AnswerReturns, Proceed, Move, End
  <2> QED BY <2>1
<1>5. CASE DeliverReturns
  <2>1. /\ UNCHANGED <<owner, deferred>> /\ stage' = AfterDeliver
        /\ AfterDeliver \in {"outcome", "hold", "restore_handler"}
    BY <1>5 DEF DeliverReturns, AfterDeliver, Proceed, Move, End
  <2> QED BY <2>1
<1>6. CASE _defer_sigint_for_clipboard
  BY <1>6 DEF _defer_sigint_for_clipboard, Proceed, Move
<1>7. CASE ServiceRuns
  BY <1>7 DEF ServiceRuns
<1>8. CASE \E word \in {"RESTORE", "DISCARD_ORIGINAL"} : Answer(word)
  BY <1>8 DEF Answer, Proceed, Move
<1>9. CASE RestoreHandler \/ Close
  BY <1>9 DEF RestoreHandler, Close, Proceed, Move, DestroyWindow
<1>10. CASE Interrupt
  <2>1. ~deferred' /\ UNCHANGED owner /\ cut' = stage
    BY <1>10 DEF Interrupt, End
  <2>2. /\ stage' \in {"ended", "closing", "restore_handler"}
        /\ stage' = "ended" => stage \in {"create", "compose", "closing"}
    BY <1>10 DEF Interrupt, Move
  <2> QED BY <2>1, <2>2
<1> QED
  BY <1>1, <1>2, <1>3, <1>4, <1>5, <1>6, <1>7, <1>8, <1>9, <1>10
     DEF CliNext, Program, Operator

(***************************************************************************)
(* Every way out of cli.py's run gives Ctrl+C back and frees the clipboard *)
(* owner window, but for the two interrupts the code leaves to Windows.    *)
(***************************************************************************)
THEOREM CliLeavesNothingBehind == CliSpec => []LeavesNothingBehind
<1>1. CliTyped /\ IInv /\ Tidy /\ [CliNext]_cliVars => (CliTyped /\ IInv /\ Tidy)'
  <2> SUFFICES ASSUME CliTyped, IInv, Tidy, [CliNext]_cliVars
               PROVE  CliTyped' /\ IInv' /\ Tidy'
    OBVIOUS
  <2>1. IInv'
    BY CliStepIsServiceStep, InvariantStep
  <2>2. CliTyped'
    BY CliTypedStep DEF IInv
  <2> QED BY <2>1, <2>2, TidyStep
<1>2. Tidy => LeavesNothingBehind
  BY DEF Tidy, LeavesNothingBehind
<1> QED BY <1>1, <1>2, CliInitTyped, TidyInit, PTL DEF CliSpec

-----------------------------------------------------------------------------
(***************************************************************************)
(* What the exit status rests on: a good outcome was sent, and a run that  *)
(* was not confirmed does not get past its arguments.                      *)
(***************************************************************************)
Earned ==
  /\ /\ stage = "deliver" /\ pc[Main] = "release"
     /\ code[Main] \in {"dispatched", "direct_dispatched"}
     => sends[RequestId] = 1
  /\ stage = "deliver" /\ pc[Main] = "restore_back" =>
       code[Main] \notin {"dispatched", "direct_dispatched"}
  /\ stage \notin {"outcome", "dialogue", "asked", "hold", "restore_handler",
                   "closing", "ended"} => exit = 1
  /\ exit = 0 => args.dry_run \/ sends[RequestId] = 1
  /\ args.dry_run \/ ~args.confirm \/ args.cancel =>
       stage \in {"start", "ended"} /\ sends[RequestId] = 0 /\ seq = foreign

LEMMA EarnedInit == CliInit => Earned
BY OneCaller DEF CliInit, Init, ClipboardInit, Earned

LEMMA EarnedStep ==
  ASSUME CliTyped, IInv, KeepStep, Earned, [CliNext]_cliVars
  PROVE  Earned'
<1> USE OneCaller DEF Earned
<1>1. CASE ServiceRuns
  <2>1. /\ stage \in {"deliver", "asked"} /\ UNCHANGED <<args, stage, exit>>
        /\ Step(Main) /\ pc[Main] # "release"
        /\ pc \in [Threads -> PC] /\ sends \in [Ids -> Nat]
        /\ code \in [Threads -> OutcomeCode \cup {"ok", "raised"}]
    BY <1>1 DEF ServiceRuns, IInv, TypeOK
  <2>2. CASE stage = "asked"
    <3>1. UNCHANGED sends
      BY <2>1, <2>2
         DEF Step, KeepStep, Resolving, RejectBusy, Register, Assess, DirectPreflight,
             DirectReassess, DirectDispatch, Prepare, Commit, PastePreflight,
             PasteReassess, PasteDispatch, RestoreBack, Acquire, RestoreOriginal,
             DiscardOriginal, Release, history
    <3> QED BY <2>1, <2>2, <3>1
  <2>3. CASE stage = "deliver"
    <3> DEFINE good == {"dispatched", "direct_dispatched"}
    <3> SUFFICES /\ pc'[Main] = "release" /\ code'[Main] \in good => sends'[RequestId] = 1
                 /\ pc'[Main] = "restore_back" => code'[Main] \notin good
      BY <2>1, <2>3
    <3> USE DEF Goto, Finish, Continue, Undo
    <3>1. \A u \in Threads : pc[u] \in {"direct_dispatch", "paste_dispatch"} =>
            call[u].id = RequestId /\ sends[call[u].id] = 0
      BY DEF IInv, CallsTyped, Reservation, DeliveryOwns, BeforeSnapshotPC,
             AfterSnapshotPC, DirectPC, PastePC
    <3>2. CASE Register(Main)
      BY <2>1, <3>2 DEF Register
    <3>3. CASE Assess(Main) \/ DirectReassess(Main)
      BY <2>1, <3>3 DEF Assess, DirectReassess, AssessResult
    <3>4. CASE DirectPreflight(Main) \/ Prepare(Main) \/ PastePreflight(Main)
      BY <2>1, <3>4 DEF DirectPreflight, Prepare, PastePreflight
    <3>5. CASE DirectDispatch(Main)
      <4>1. pc'[Main] = "release"
        BY <2>1, <3>5 DEF DirectDispatch
      <4>2. CASE call[Main].text \in Unencodable
        BY <2>1, <3>5, <4>2 DEF DirectDispatch
      <4>3. CASE call[Main].text \notin Unencodable
        <5>1. PICK r \in DispatchContract(poisoned) :
                /\ Finish(Main, IF r.code = "ok" THEN "direct_dispatched" ELSE r.code,
                          FALSE)
                /\ CountSend(Main, r.sent)
          BY <3>5, <4>3 DEF DirectDispatch
        <5>2. r.code \in {"ok", "dispatch_failed", "cleanup_failed", "raised"}
              /\ (r.code = "ok" => r.sent)
          BY DEF DispatchContract, DispatchResult
        <5>3. code'[Main] \in good => r.sent
          BY <2>1, <5>1, <5>2
        <5>4. r.sent => sends'[RequestId] = 1
          BY <2>1, <3>1, <3>5, <5>1 DEF CountSend, DirectDispatch
        <5> QED BY <4>1, <5>3, <5>4
      <4> QED BY <4>2, <4>3
    <3>6. CASE Commit(Main)
      BY <2>1, <3>6 DEF Commit
    <3>7. CASE PasteReassess(Main)
      BY <2>1, <3>7 DEF PasteReassess, AssessResult
    <3>8. CASE PasteDispatch(Main)
      BY <2>1, <3>1, <3>8
         DEF PasteDispatch, DispatchContract, DispatchResult, CountSend
    <3>9. CASE RestoreBack(Main)
      BY <2>1, <2>3, <3>9 DEF RestoreBack
    <3> QED
      BY <2>1, <2>3, <3>2, <3>3, <3>4, <3>5, <3>6, <3>7, <3>8, <3>9
         DEF KeepStep, Delivering, DirectPC, PastePC, Step, RejectBusy, Acquire,
             RestoreOriginal, DiscardOriginal, Release
  <2> QED BY <2>1, <2>2, <2>3
<1>2. CASE CheckArguments
  BY <1>2
     DEF CheckArguments, DryRun, Refused, Proceed, Move, End, Aside, vars, history,
         clipboardVars
<1>3. CASE CallDeliver
  <2>1. /\ stage = "request" /\ stage' = "deliver"
        /\ UNCHANGED <<args, exit, sends>>
    BY <1>3 DEF CallDeliver, Deliver, Proceed, Move, End, history
  <2>2. pc'[Main] \in {"register", "busy"}
    BY <1>3 DEF CallDeliver, Deliver, Goto, IInv, TypeOK
  <2> QED BY <2>1, <2>2
<1>4. CASE DeliverReturns
  <2>1. /\ stage = "deliver" /\ pc[Main] = "release" /\ UNCHANGED <<args, sends>>
        /\ exit' = IF code[Main] \in {"dispatched", "direct_dispatched"} THEN 0 ELSE 1
    BY <1>4
       DEF DeliverReturns, Release, InsertionOutcome, Proceed, Move, End, history
  <2>2. stage' \in {"outcome", "hold", "restore_handler"}
    BY <1>4, OutcomeIsTrue
  <2> QED BY <2>1, <2>2
<1>5. CASE \/ \E word \in {"RESTORE", "DISCARD_ORIGINAL"} : Answer(word)
           \/ AnswerReturns
  <2>1. /\ stage \in {"dialogue", "asked"} /\ UNCHANGED <<args, exit, sends>>
        /\ stage' \in {"asked", "dialogue", "restore_handler"}
    BY <1>5
       DEF Answer, AskOriginal, AnswerReturns, Release, Proceed, Move, End, history
  <2> QED BY <2>1
<1>6. CASE UNCHANGED cliVars
  BY <1>6 DEF cliVars, cli, vars, local, history, clipboardVars
<1>7. CASE Environment
  <2>1. /\ UNCHANGED <<stage, args, exit, pc, code, sends>>
        /\ seq = foreign => seq' = foreign'
    BY <1>7
       DEF Environment, OtherProgram, TargetMoves, ExternalWrite, cli, local, history,
           clipboardVars
  <2> QED BY <2>1
<1>8. CASE \/ CreateOwnerWindow \/ create_runtime
           \/ _countdown("capture_countdown", "capture") \/ Capture
           \/ _countdown("deliver_countdown", "service") \/ CreateService
           \/ _defer_sigint_for_clipboard \/ PrintOutcome
           \/ RestoreHandler \/ Close \/ AnswerNothing
  <2>1. stage \notin {"start", "ended"} /\ UNCHANGED <<args, exit, sends>>
    BY <1>8
       DEF CreateOwnerWindow, create_runtime, _countdown, Capture, CreateService,
           _defer_sigint_for_clipboard, PrintOutcome, RestoreHandler, Close,
           AnswerNothing, Proceed, Move, End, Aside, vars, history
  <2>2. /\ stage' # "deliver"
        /\ \/ stage \in {"outcome", "dialogue", "restore_handler", "closing"}
              /\ stage' \in {"dialogue", "closing", "ended"}
           \/ exit = 1
    BY <1>8
       DEF CreateOwnerWindow, create_runtime, _countdown, Capture, CreateService,
           _defer_sigint_for_clipboard, PrintOutcome, RestoreHandler, Close,
           AnswerNothing, Proceed, Move
  <2> QED BY <2>1, <2>2
<1>9. CASE Hold \/ Interrupt
  <2>1. /\ stage \notin {"start", "ended"} /\ UNCHANGED <<args, sends>>
        /\ stage' \in {"restore_handler", "closing", "ended"}
        /\ exit' \in {exit, 1}
    BY <1>9
       DEF Hold, Interrupt, Proceed, Move, End, Aside, vars, history
  <2> QED BY <2>1
<1> QED
  BY <1>1, <1>2, <1>3, <1>4, <1>5, <1>6, <1>7, <1>8, <1>9
     DEF CliNext, Program, Operator

(***************************************************************************)
(* Status 0 of cli.py's run stands for input that was sent, exactly once,  *)
(* and a run that was not confirmed touches nothing.                       *)
(***************************************************************************)
THEOREM CliStatusTellsInput == CliSpec => []StatusTellsInput
<1>1. CliTyped /\ IInv /\ KeepStep /\ Shielded /\ Earned /\ [CliNext]_cliVars
        => (CliTyped /\ IInv /\ KeepStep /\ Shielded /\ Earned)'
  <2> SUFFICES ASSUME CliTyped, IInv, KeepStep, Shielded, Earned, [CliNext]_cliVars
               PROVE  CliTyped' /\ IInv' /\ KeepStep' /\ Shielded' /\ Earned'
    OBVIOUS
  <2>1. IInv'
    BY CliStepIsServiceStep, InvariantStep
  <2>2. CliTyped'
    BY CliTypedStep DEF IInv
  <2> QED BY <2>1, <2>2, KeepStepStep, ShieldedStep, EarnedStep
<1>2. Earned => StatusTellsInput
  BY DEF Earned, StatusTellsInput
<1> QED BY <1>1, <1>2, CliInitTyped, KeepStepInit, ShieldedInit, EarnedInit, PTL DEF CliSpec
=============================================================================
