---------------------------- MODULE AsrSessionProofs ---------------------------
(***************************************************************************)
(* What the engine adapters promise to any client with two threads, for    *)
(* any options and any number of cancels.                                  *)
(***************************************************************************)
EXTENDS AsrSession, TLAPS

(***************************************************************************)
(* Between calls a model of faster-whisper has the defaults it was loaded  *)
(* with, because there is none between a close and the next load, unless   *)
(* a load failed over it.                                                  *)
(***************************************************************************)
ModelHasItsDefaults ==
  /\ closed => ~Ready
  /\ backend = "faster-whisper" /\ Ready => model = defaults \/ stale
  /\ OwnOptions

SInv == TypeOK /\ CancelSpentOnce /\ ModelHasItsDefaults

USE EngineAssumption, SessionAssumption
    DEF TypeOK, EngineTypeOK, CancelSpentOnce, ModelHasItsDefaults, OwnOptions,
        Ready, Backend, Phase, Result, Used, engineVars

LEMMA SessionInit == Init => SInv
<1> SUFFICES ASSUME Init  PROVE SInv
  OBVIOUS
<1>1. TypeOK
  <2>1. EngineTypeOK
    BY DEF Init, EngineInit
  <2>2. phase \in Phase /\ length \in Length /\ result \in Result
    BY DEF Init, Length
  <2>3. used \in Used
    BY DEF Init
  <2>4. cancels \in 0..MaxCancels /\ spent \in Nat
    BY DEF Init
  <2>5. closed \in BOOLEAN /\ stale \in BOOLEAN /\ asked \in BOOLEAN
    BY DEF Init
  <2> QED BY <2>1, <2>2, <2>3, <2>4, <2>5
<1>2. CancelSpentOnce
  BY DEF Init, EngineInit
<1>3. ModelHasItsDefaults
  BY DEF Init, EngineInit
<1> QED BY <1>1, <1>2, <1>3 DEF SInv

LEMMA LoadKeeps ==
  ASSUME SInv, NEW options \in Options, Load(options)
  PROVE  SInv'
<1>1. CASE LoadDone(options) /\ closed' = FALSE /\ stale' = FALSE
  BY <1>1 DEF SInv, Load, LoadDone, TakeDefaults
<1>2. CASE LoadNotDone(options) /\ UNCHANGED closed
                              /\ stale' = (stale \/ ~closed)
  BY <1>2 DEF SInv, Load, LoadNotDone, TakeDefaults
<1> QED BY <1>1, <1>2 DEF Load

LEMMA SegmentKeeps ==
  ASSUME SInv, Start \/ Check \/ Infer
  PROVE  SInv'
<1>1. CASE Start
  BY <1>1 DEF SInv, Start
<1>2. CASE Check
  <2>1. Checked(length) \in FailureCode \cup {"escaped", "passed"}
    BY DEF Checked, ensure_segment_within_capabilities, FailureCode
  <2>2. Checked(length) = "cancelled" => cancelRequested
    BY DEF Checked, ensure_segment_within_capabilities
  <2>3. cancelRequested' = (cancelRequested /\ Checked(length) # "cancelled")
        /\ UNCHANGED <<backend, model, defaults, length, used, closed, stale,
                       cancels, asked>>
    BY <1>2 DEF Check, ConsumeCancel
  <2>4. phase' \in Phase /\ result' \in Result
    BY <1>2, <2>1 DEF SInv, Check
  <2>5. spent' = IF Checked(length) = "cancelled" THEN spent + 1 ELSE spent
    BY <1>2 DEF Check
  <2>6. cancelRequested' \in BOOLEAN
    BY <2>3
  <2>7. spent' \in Nat /\ CancelSpentOnce'
    <3> spent \in Nat /\ cancels \in Nat /\ cancels' = cancels
      BY <2>3 DEF SInv
    <3>1. CASE Checked(length) = "cancelled"
      <4>1. cancelRequested /\ ~cancelRequested'
        BY <2>2, <2>3, <3>1
      <4>2. spent + 1 <= cancels /\ spent' = spent + 1
        BY <2>5, <3>1, <4>1 DEF SInv
      <4> QED BY <4>1, <4>2
    <3>2. CASE Checked(length) # "cancelled"
      <4>1. cancelRequested' = cancelRequested
        BY <2>3, <3>2 DEF SInv
      <4>2. spent' = spent
        BY <2>5, <3>2
      <4> QED BY <4>1, <4>2 DEF SInv
    <3> QED BY <3>1, <3>2
  <2>8. TypeOK'
    BY <2>3, <2>4, <2>6, <2>7 DEF SInv
  <2>9. ModelHasItsDefaults'
    BY <2>3 DEF SInv
  <2> QED BY <2>7, <2>8, <2>9 DEF SInv
<1>3. CASE Infer
  BY <1>3 DEF SInv, Infer, Inferred, FailureCode
<1> QED BY <1>1, <1>2, <1>3

LEMMA OtherThreadKeeps ==
  ASSUME SInv, AskCancel \/ CloseEngine
  PROVE  SInv'
<1>1. CASE AskCancel
  BY <1>1 DEF SInv, AskCancel, Cancel
<1>2. CASE CloseEngine
  <2>1. /\ model' = NoOptions /\ closed' = TRUE /\ stale' = FALSE
        /\ UNCHANGED <<backend, defaults, cancelRequested, phase, length, result,
                       used, cancels, spent, asked>>
    BY <1>2 DEF CloseEngine, Close
  <2>2. TypeOK'
    BY <2>1 DEF SInv
  <2>3. CancelSpentOnce'
    BY <2>1 DEF SInv
  <2>4. ModelHasItsDefaults'
    BY <2>1 DEF SInv
  <2> QED BY <2>2, <2>3, <2>4 DEF SInv
<1> QED BY <1>1, <1>2

LEMMA SessionStep == SInv /\ [Next]_vars => SInv'
<1> SUFFICES ASSUME SInv, [Next]_vars  PROVE SInv'
  OBVIOUS
<1>1. CASE UNCHANGED vars
  BY <1>1 DEF SInv, vars
<1>2. CASE Next
  BY <1>2, LoadKeeps, SegmentKeeps, OtherThreadKeeps DEF Next
<1> QED BY <1>1, <1>2

LEMMA SessionInvariance == Spec => []SInv
BY SessionInit, SessionStep, PTL DEF Spec

-----------------------------------------------------------------------------
(***************************************************************************)
(* The adapter's attributes and the session keep their types; GigaAM never *)
(* has inference defaults.                                                 *)
(***************************************************************************)
THEOREM SessionTyped == Spec => []TypeOK
<1>1. SInv => TypeOK
  BY DEF SInv
<1> QED BY <1>1, SessionInvariance, PTL

(***************************************************************************)
(* One call of cancel costs at most one segment.                           *)
(***************************************************************************)
THEOREM CancelCostsOneSegment == Spec => []CancelSpentOnce
<1>1. SInv => CancelSpentOnce
  BY DEF SInv
<1> QED BY <1>1, SessionInvariance, PTL

(***************************************************************************)
(* A text of faster-whisper was made by a model with its own options,      *)
(* unless a load failed over a model that nobody had closed.               *)
(***************************************************************************)
THEOREM TextsHaveOwnOptions == Spec => []OwnOptions
<1>1. SInv => OwnOptions
  BY DEF SInv
<1> QED BY <1>1, SessionInvariance, PTL
=============================================================================
