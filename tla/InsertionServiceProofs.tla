----------------------- MODULE InsertionServiceProofs -----------------------
(***************************************************************************)
(* Type correctness and safety of InsertionService for every set of        *)
(* threads, ids, texts and clipboard contents, and every bound.            *)
(***************************************************************************)
EXTENDS InsertionService, TLAPS

(***************************************************************************)
(* The program counters at which a thread works on a delivery, and those   *)
(* between its registration and its outcome.                               *)
(***************************************************************************)
BeforeSnapshotPC == {"assess", "prepare"} \cup DirectPC
AfterSnapshotPC == {"commit", "restore_back"} \cup PastePC
DeliverPC == {"busy", "register"} \cup BeforeSnapshotPC \cup AfterSnapshotPC

CallsTyped ==
  \A t \in Threads :
    /\ pc[t] # "idle" => call[t].id \in Ids
    /\ pc[t] \in DeliverPC => call[t] \in Request

-----------------------------------------------------------------------------
(***************************************************************************)
(* Every call of the clipboard adapter, and a write by another program,    *)
(* keeps the clipboard's part of the state well typed.                     *)
(***************************************************************************)
LEMMA PrepareTyped ==
  ASSUME ClipboardTypeOK, NEW id \in Ids, PrepareSafe(id) \/ PrepareUnsafe
  PROVE  ClipboardTypeOK'
<1>1. CASE PrepareSafe(id)
  BY <1>1 DEF ClipboardTypeOK, PrepareSafe, Snapshot
<1>2. CASE PrepareUnsafe
  BY <1>2, ClipboardAssumption DEF ClipboardTypeOK, PrepareUnsafe, Fault
<1> QED BY <1>1, <1>2

LEMMA CommitTyped ==
  ASSUME ClipboardTypeOK, NEW text \in Texts, CommitOk(text) \/ CommitRaises(text)
  PROVE  ClipboardTypeOK'
<1>1. CASE CommitOk(text)
  BY <1>1 DEF ClipboardTypeOK, CommitOk, Snapshot, Items
<1>2. CASE CommitRefused(text)
  BY <1>2 DEF ClipboardTypeOK, CommitRefused, clipboardVars
<1>3. CASE CommitUntouched(text)
  BY <1>3, ClipboardAssumption DEF ClipboardTypeOK, CommitUntouched, Fault, Snapshot
<1>4. CASE CommitTorn(text)
  BY <1>4, ClipboardAssumption DEF ClipboardTypeOK, CommitTorn, Fault, Snapshot, Items
<1> QED BY <1>1, <1>2, <1>3, <1>4 DEF CommitRaises

LEMMA RestoreTyped ==
  ASSUME ClipboardTypeOK, NEW id \in Ids,
         RestoreDone(id) \/ RestoreForeign(id) \/ RestoreRaises(id)
  PROVE  ClipboardTypeOK'
<1>1. CASE RestoreDone(id)
  BY <1>1 DEF ClipboardTypeOK, RestoreDone, Snapshot
<1>2. CASE RestoreForeign(id)
  BY <1>2 DEF ClipboardTypeOK, RestoreForeign
<1>3. CASE RestoreInvalid(id)
  BY <1>3 DEF ClipboardTypeOK, RestoreInvalid, clipboardVars
<1>4. CASE RestoreUntouched(id)
  BY <1>4, ClipboardAssumption DEF ClipboardTypeOK, RestoreUntouched, Fault
<1>5. CASE RestoreTorn(id)
  BY <1>5, ClipboardAssumption DEF ClipboardTypeOK, RestoreTorn, Fault, Snapshot, Items
<1> QED BY <1>1, <1>2, <1>3, <1>4, <1>5 DEF RestoreRaises

LEMMA DiscardTyped ==
  ASSUME ClipboardTypeOK, NEW id \in Ids, Discard(id)
  PROVE  ClipboardTypeOK'
BY DEF ClipboardTypeOK, Discard

LEMMA ExternalWriteTyped ==
  ASSUME ClipboardTypeOK, ExternalWrite
  PROVE  ClipboardTypeOK'
BY DEF ClipboardTypeOK, ExternalWrite, Items

LEMMA ClipboardUntouchedTyped ==
  ASSUME ClipboardTypeOK, UNCHANGED clipboardVars
  PROVE  ClipboardTypeOK'
BY DEF ClipboardTypeOK, clipboardVars

-----------------------------------------------------------------------------
(***************************************************************************)
(* What a thread works on is a request, or the id of one, throughout.      *)
(***************************************************************************)
LEMMA TypeStep ==
  ASSUME TypeOK, CallsTyped, [Next]_vars
  PROVE  TypeOK' /\ CallsTyped'
<1> USE ServiceAssumption DEF stores, local, history, Goto, PC, HoldingPC, DirectPC,
                            PastePC, DeliverPC, BeforeSnapshotPC, AfterSnapshotPC
<1>1. ASSUME NEW t \in Threads, NEW request \in Request, Deliver(t, request)
      PROVE  TypeOK' /\ CallsTyped'
  <2>1. ClipboardTypeOK'
    BY <1>1, ClipboardUntouchedTyped DEF TypeOK, Deliver
  <2>2. TypeOK'
    BY <1>1, <2>1 DEF TypeOK, Deliver, Call
  <2>3. CallsTyped'
    BY <1>1 DEF TypeOK, CallsTyped, Deliver, Request
  <2> QED BY <2>2, <2>3
<1>2. ASSUME NEW t \in Threads, NEW id \in Ids, NEW wait \in {"restore_wait", "discard_wait"},
             AskOriginal(t, id, wait)
      PROVE  TypeOK' /\ CallsTyped'
  <2>1. ClipboardTypeOK'
    BY <1>2, ClipboardUntouchedTyped DEF TypeOK, AskOriginal
  <2>2. TypeOK'
    BY <1>2, <2>1 DEF TypeOK, AskOriginal, Call
  <2>3. CallsTyped'
    BY <1>2 DEF TypeOK, CallsTyped, AskOriginal
  <2> QED BY <2>2, <2>3
<1>3. ASSUME NEW t \in Threads, RejectBusy(t)
      PROVE  TypeOK' /\ CallsTyped'
  <2>1. ClipboardTypeOK'
    BY <1>3, ClipboardUntouchedTyped DEF TypeOK, RejectBusy
  <2>2. TypeOK'
    BY <1>3, <2>1 DEF TypeOK, CallsTyped, Request, RejectBusy, KeepText
  <2>3. CallsTyped'
    BY <1>3 DEF TypeOK, CallsTyped, RejectBusy
  <2> QED BY <2>2, <2>3
<1>4. ASSUME NEW t \in Threads, Register(t)
      PROVE  TypeOK' /\ CallsTyped'
  <2>1. ClipboardTypeOK'
    BY <1>4, ClipboardUntouchedTyped DEF TypeOK, Register
  <2>2. call[t].id \in Ids /\ call[t].text \in Texts
    BY <1>4 DEF CallsTyped, Register, Request
  <2>3. attempted' \subseteq Ids /\ results' \in [Ids -> SUBSET Texts] /\ begun' \subseteq Ids
    <3>1. CASE UNCHANGED <<attempted, results, begun>>
      BY <3>1 DEF TypeOK
    <3>2. CASE KeepText(t) /\ begun' \in {begun, begun \cup {call[t].id}}
      BY <2>2, <3>2 DEF TypeOK, KeepText
    <3> QED BY <1>4, <3>1, <3>2 DEF Register
  <2>4. TypeOK'
    BY <1>4, <2>1, <2>3 DEF TypeOK, Register, Finish, Continue, OutcomeCode
  <2>5. CallsTyped'
    BY <1>4 DEF TypeOK, CallsTyped, Register, Finish, Continue
  <2> QED BY <2>4, <2>5
<1>5. ASSUME NEW t \in Threads, Assess(t)
      PROVE  TypeOK' /\ CallsTyped'
  <2>1. ClipboardTypeOK'
    BY <1>5, ClipboardUntouchedTyped DEF TypeOK, Assess
  <2>2. TypeOK'
    BY <1>5, <2>1 DEF TypeOK, CallsTyped, Request, Assess, AssessResult, Finish, Continue, OutcomeCode
  <2>3. CallsTyped'
    BY <1>5 DEF TypeOK, CallsTyped, Assess, AssessResult, Finish, Continue
  <2> QED BY <2>2, <2>3
<1>6. ASSUME NEW t \in Threads, DirectPreflight(t)
      PROVE  TypeOK' /\ CallsTyped'
  <2>1. ClipboardTypeOK'
    BY <1>6, ClipboardUntouchedTyped DEF TypeOK, DirectPreflight
  <2>2. TypeOK'
    BY <1>6, <2>1 DEF TypeOK, CallsTyped, Request, DirectPreflight, Finish, Continue, OutcomeCode
  <2>3. CallsTyped'
    BY <1>6 DEF TypeOK, CallsTyped, DirectPreflight, Finish, Continue
  <2> QED BY <2>2, <2>3
<1>7. ASSUME NEW t \in Threads, DirectReassess(t)
      PROVE  TypeOK' /\ CallsTyped'
  <2>1. ClipboardTypeOK'
    BY <1>7, ClipboardUntouchedTyped DEF TypeOK, DirectReassess
  <2>2. TypeOK'
    BY <1>7, <2>1 DEF TypeOK, CallsTyped, Request, DirectReassess, AssessResult, Finish, Continue, OutcomeCode
  <2>3. CallsTyped'
    BY <1>7 DEF TypeOK, CallsTyped, DirectReassess, AssessResult, Finish, Continue
  <2> QED BY <2>2, <2>3
<1>8. ASSUME NEW t \in Threads, DirectDispatch(t)
      PROVE  TypeOK' /\ CallsTyped'
  <2>1. ClipboardTypeOK'
    BY <1>8, ClipboardUntouchedTyped DEF TypeOK, DirectDispatch
  <2>2. call[t].id \in Ids
    BY <1>8 DEF CallsTyped, DirectDispatch
  <2>3. poisoned' \in BOOLEAN /\ sends' \in [Ids -> Nat]
    <3>1. CASE UNCHANGED <<poisoned, sends>>
      BY <3>1 DEF TypeOK
    <3>2. ASSUME NEW r \in DispatchResult, poisoned' = r.poisons, CountSend(t, r.sent)
          PROVE  poisoned' \in BOOLEAN /\ sends' \in [Ids -> Nat]
      BY <2>2, <3>2 DEF TypeOK, DispatchResult, CountSend
    <3> QED BY <1>8, <3>1, <3>2 DEF DirectDispatch, DispatchContract
  <2>4. code' \in [Threads -> OutcomeCode \cup {"ok", "raised"}]
    <3>1. ASSUME NEW r \in DispatchResult,
                 Finish(t, IF r.code = "ok" THEN "direct_dispatched" ELSE r.code, FALSE)
          PROVE  code' \in [Threads -> OutcomeCode \cup {"ok", "raised"}]
      BY <3>1 DEF TypeOK, Finish, DispatchResult, OutcomeCode
    <3>2. CASE Finish(t, "dispatch_failed", FALSE)
      BY <3>2 DEF TypeOK, Finish, OutcomeCode
    <3> QED BY <1>8, <3>1, <3>2 DEF DirectDispatch, DispatchContract
  <2>5. TypeOK'
    BY <1>8, <2>1, <2>3, <2>4 DEF TypeOK, DirectDispatch, Finish
  <2>6. CallsTyped'
    BY <1>8 DEF TypeOK, CallsTyped, DirectDispatch, Finish
  <2> QED BY <2>5, <2>6
<1>9. ASSUME NEW t \in Threads, PastePreflight(t)
      PROVE  TypeOK' /\ CallsTyped'
  <2>1. ClipboardTypeOK'
    BY <1>9, ClipboardUntouchedTyped DEF TypeOK, PastePreflight
  <2>2. TypeOK'
    BY <1>9, <2>1 DEF TypeOK, CallsTyped, Request, PastePreflight, Undo, Continue, OutcomeCode
  <2>3. CallsTyped'
    BY <1>9 DEF TypeOK, CallsTyped, PastePreflight, Undo, Continue
  <2> QED BY <2>2, <2>3
<1>10. ASSUME NEW t \in Threads, PasteReassess(t)
      PROVE  TypeOK' /\ CallsTyped'
  <2>1. ClipboardTypeOK'
    BY <1>10, ClipboardUntouchedTyped DEF TypeOK, PasteReassess
  <2>2. TypeOK'
    BY <1>10, <2>1 DEF TypeOK, CallsTyped, Request, PasteReassess, AssessResult, Undo, Continue, OutcomeCode
  <2>3. CallsTyped'
    BY <1>10 DEF TypeOK, CallsTyped, PasteReassess, AssessResult, Undo, Continue
  <2> QED BY <2>2, <2>3
<1>11. ASSUME NEW t \in Threads, PasteDispatch(t)
      PROVE  TypeOK' /\ CallsTyped'
  <2>1. ClipboardTypeOK'
    BY <1>11, ClipboardUntouchedTyped DEF TypeOK, PasteDispatch
  <2>2. call[t].id \in Ids
    BY <1>11 DEF CallsTyped, PasteDispatch
  <2>3. poisoned' \in BOOLEAN /\ sends' \in [Ids -> Nat]
    BY <1>11, <2>2 DEF TypeOK, PasteDispatch, DispatchContract, DispatchResult, CountSend
  <2>4. code' \in [Threads -> OutcomeCode \cup {"ok", "raised"}]
    BY <1>11 DEF TypeOK, PasteDispatch, DispatchContract, DispatchResult, Finish, OutcomeCode
  <2>5. TypeOK'
    BY <1>11, <2>1, <2>3, <2>4 DEF TypeOK, PasteDispatch, Finish
  <2>6. CallsTyped'
    BY <1>11 DEF TypeOK, CallsTyped, PasteDispatch, Finish
  <2> QED BY <2>5, <2>6
<1>12. ASSUME NEW t \in Threads, Release(t)
      PROVE  TypeOK' /\ CallsTyped'
  <2>1. ClipboardTypeOK'
    BY <1>12, ClipboardUntouchedTyped DEF TypeOK, Release
  <2>2. TypeOK'
    BY <1>12, <2>1 DEF TypeOK, CallsTyped, Request, Release, OutcomeCode
  <2>3. CallsTyped'
    BY <1>12 DEF TypeOK, CallsTyped, Release
  <2> QED BY <2>2, <2>3
<1>13. ASSUME NEW t \in Threads, Prepare(t)
      PROVE  TypeOK' /\ CallsTyped'
  <2>0. call[t] \in Request
    BY <1>13 DEF CallsTyped, Prepare
  <2>1. ClipboardTypeOK'
    BY <1>13, <2>0, PrepareTyped, ClipboardUntouchedTyped DEF TypeOK, Prepare, Request
  <2>2. TypeOK'
    BY <1>13, <2>0, <2>1 DEF TypeOK, Prepare, Finish, Continue, Request, OutcomeCode
  <2>3. CallsTyped'
    BY <1>13 DEF TypeOK, CallsTyped, Prepare, Finish, Continue
  <2> QED BY <2>2, <2>3
<1>14. ASSUME NEW t \in Threads, Commit(t)
      PROVE  TypeOK' /\ CallsTyped'
  <2>0. call[t] \in Request
    BY <1>14 DEF CallsTyped, Commit
  <2>1. ClipboardTypeOK'
    BY <1>14, <2>0, CommitTyped DEF TypeOK, Commit, Request
  <2>2. TypeOK'
    BY <1>14, <2>1 DEF TypeOK, Commit, Undo, Continue, OutcomeCode
  <2>3. CallsTyped'
    BY <1>14 DEF TypeOK, CallsTyped, Commit, Undo, Continue
  <2> QED BY <2>2, <2>3
<1>15. ASSUME NEW t \in Threads, RestoreBack(t)
      PROVE  TypeOK' /\ CallsTyped'
  <2>0. call[t].id \in Ids
    BY <1>15 DEF CallsTyped, RestoreBack
  <2>1. ClipboardTypeOK'
    BY <1>15, <2>0, RestoreTyped DEF TypeOK, RestoreBack
  <2>2. TypeOK'
    BY <1>15, <2>1 DEF TypeOK, RestoreBack, Finish, OutcomeCode
  <2>3. CallsTyped'
    BY <1>15 DEF TypeOK, CallsTyped, RestoreBack, Finish
  <2> QED BY <2>2, <2>3
<1>16. ASSUME NEW t \in Threads, Acquire(t, "restore_wait", "restore")
                                   \/ Acquire(t, "discard_wait", "discard")
      PROVE  TypeOK' /\ CallsTyped'
  <2>1. ClipboardTypeOK'
    BY <1>16, ClipboardUntouchedTyped DEF TypeOK, Acquire
  <2>2. TypeOK'
    BY <1>16, <2>1 DEF TypeOK, Acquire, Continue
  <2>3. CallsTyped'
    BY <1>16 DEF TypeOK, CallsTyped, Acquire, Continue
  <2> QED BY <2>2, <2>3
<1>17. ASSUME NEW t \in Threads, RestoreOriginal(t)
      PROVE  TypeOK' /\ CallsTyped'
  <2>0. call[t].id \in Ids
    BY <1>17 DEF CallsTyped, RestoreOriginal
  <2>1. ClipboardTypeOK'
    BY <1>17, <2>0, RestoreTyped, ClipboardUntouchedTyped DEF TypeOK, RestoreOriginal
  <2>2. TypeOK'
    BY <1>17, <2>1 DEF TypeOK, RestoreOriginal, Continue
  <2>3. CallsTyped'
    BY <1>17 DEF TypeOK, CallsTyped, RestoreOriginal, Continue
  <2> QED BY <2>2, <2>3
<1>18. ASSUME NEW t \in Threads, DiscardOriginal(t)
      PROVE  TypeOK' /\ CallsTyped'
  <2>0. call[t].id \in Ids
    BY <1>18 DEF CallsTyped, DiscardOriginal
  <2>1. ClipboardTypeOK'
    BY <1>18, <2>0, DiscardTyped, ClipboardUntouchedTyped DEF TypeOK, DiscardOriginal
  <2>2. TypeOK'
    BY <1>18, <2>1 DEF TypeOK, DiscardOriginal, Continue
  <2>3. CallsTyped'
    BY <1>18 DEF TypeOK, CallsTyped, DiscardOriginal, Continue
  <2> QED BY <2>2, <2>3
<1>19. ASSUME OtherProgram PROVE TypeOK' /\ CallsTyped'
  BY <1>19, ExternalWriteTyped DEF TypeOK, CallsTyped, OtherProgram
<1>20. ASSUME TargetMoves PROVE TypeOK' /\ CallsTyped'
  BY <1>20, ClipboardUntouchedTyped DEF TypeOK, CallsTyped, TargetMoves
<1>21. CASE UNCHANGED vars
  BY <1>21, ClipboardUntouchedTyped DEF TypeOK, CallsTyped, vars
<1> HIDE DEF stores, local, history, Goto, PC, HoldingPC, DirectPC, PastePC,
           DeliverPC, BeforeSnapshotPC, AfterSnapshotPC
<1> QED
  BY <1>1, <1>2, <1>3, <1>4, <1>5, <1>6, <1>7, <1>8, <1>9, <1>10, <1>11,
     <1>12, <1>13, <1>14, <1>15, <1>16, <1>17, <1>18, <1>19, <1>20, <1>21
  DEF Next, Start, Step

(***************************************************************************)
(* No thread works on anything at first.                                   *)
(***************************************************************************)
LEMMA TypeInit ==
  ASSUME Init
  PROVE  TypeOK /\ CallsTyped
<1>1. ClipboardTypeOK
  BY ClipboardAssumption DEF Init, ClipboardInit, ClipboardTypeOK, Items, Snapshot, NoSeq
<1>2. TypeOK
  BY <1>1 DEF Init, TypeOK, PC
<1>3. CallsTyped
  BY DEF Init, CallsTyped, DeliverPC, BeforeSnapshotPC, AfterSnapshotPC, DirectPC, PastePC
<1> QED BY <1>2, <1>3

(***************************************************************************)
(* Every variable keeps its type, and a thread inside the service always   *)
(* has the request or the id it works on.                                  *)
(***************************************************************************)
THEOREM TypeCorrect == Spec => [](TypeOK /\ CallsTyped)
<1>1. Init => TypeOK /\ CallsTyped
  BY TypeInit
<1>2. TypeOK /\ CallsTyped /\ [Next]_vars => TypeOK' /\ CallsTyped'
  BY TypeStep
<1> QED BY <1>1, <1>2, PTL DEF Spec

-----------------------------------------------------------------------------
(***************************************************************************)
(* The delivery lock is held exactly by the thread whose program counter   *)
(* says so.                                                                *)
(***************************************************************************)
LockHeld ==
  \A t \in Threads : pc[t] \in HoldingPC <=> lock = t

(***************************************************************************)
(* What a delivery may rely on: its request is registered, nothing was     *)
(* sent for it, and the only snapshot retained is its own, if it took one. *)
(***************************************************************************)
DeliveryOwns ==
  \A t \in Threads :
    /\ pc[t] \in BeforeSnapshotPC \cup AfterSnapshotPC =>
         call[t].id \in attempted /\ sends[call[t].id] = 0
    /\ pc[t] \in BeforeSnapshotPC => retained = {}
    /\ pc[t] \in AfterSnapshotPC => retained = {call[t].id}

Ledger ==
  /\ retained \subseteq attempted
  /\ \A id, other \in retained : id = other
  /\ \A id \in Ids : /\ sends[id] \in {0, 1}
                     /\ id \notin attempted => sends[id] = 0

(***************************************************************************)
(* A retained snapshot holds what the user counts on while the sequence    *)
(* number is still the one it was taken at or the adapter's own.           *)
(***************************************************************************)
SnapshotsCurrent ==
  \A id \in retained :
    /\ snap[id].before <= seq
    /\ snap[id].before = seq => snap[id].orig = user
    /\ snap[id].mut <= seq
    /\ snap[id].mut = seq => snap[id].orig = user

CommitPrepared ==
  \A t \in Threads :
    pc[t] = "commit" => /\ prepared = call[t].id
                        /\ snap[prepared].mut = NoSeq

(***************************************************************************)
(* Only a delivery has an outcome, and only once it is over or undone.     *)
(***************************************************************************)
OutcomeWhenKnown ==
  \A t \in Threads : pc[t] \notin {"release", "restore_back"} => code[t] = "ok"

(***************************************************************************)
(* A retained snapshot of a text that encodes is marked as written, but    *)
(* for the moment between retaining it and its first write.                *)
(***************************************************************************)
MarkedOnceCommitted ==
  \A id \in retained :
    results[id] \cap Unencodable = {} =>
      \/ snap[id].mut # NoSeq
      \/ \E t \in Threads : pc[t] = "commit" /\ call[t].id = id

(***************************************************************************)
(* From the commit on the clipboard holds the request's text, unless       *)
(* another program wrote after the snapshot was taken.                     *)
(***************************************************************************)
PasteHolds ==
  \A t \in Threads :
    pc[t] \in PastePC => \/ clip = call[t].text
                        \/ foreign > snap[call[t].id].before

(***************************************************************************)
(* Past the modifier wait a target that is safe now was seen to be safe,   *)
(* and past the last assessment some safe moment was seen.                 *)
(***************************************************************************)
SafeMomentSeen ==
  \A t \in Threads :
    /\ pc[t] \in {"direct_reassess", "paste_reassess"} /\ targetSafe => seenSafe
    /\ pc[t] \in {"direct_dispatch", "paste_dispatch"} => seenSafe

Reservation == LockHeld /\ DeliveryOwns /\ Ledger
Custody == SnapshotsCurrent /\ CommitPrepared /\ UserDataSafe
Reporting == OutcomeWhenKnown /\ OutcomeTellsRetention /\ DeliversRetainedText
Window == PasteHolds /\ SafeMomentSeen

IInv ==
  /\ TypeOK
  /\ CallsTyped
  /\ Reservation
  /\ Custody
  /\ Reporting
  /\ MarkedOnceCommitted
  /\ Window
-----------------------------------------------------------------------------
(***************************************************************************)
(* A step of one thread leaves the others where they are.                  *)
(***************************************************************************)
OthersStay(t) ==
  \A u \in Threads \ {t} :
    /\ pc'[u] = pc[u]
    /\ call'[u] = call[u]
    /\ code'[u] = code[u]
    /\ kept'[u] = kept[u]

LEMMA Frame ==
  ASSUME TypeOK, NEW t \in Threads, Start(t) \/ Step(t)
  PROVE  OthersStay(t)
<1> USE DEF OthersStay, TypeOK, local, Goto
<1>1. ASSUME NEW request \in Request, Deliver(t, request)
      PROVE  OthersStay(t)
  BY <1>1 DEF Deliver
<1>2. ASSUME NEW id \in Ids, NEW wait \in {"restore_wait", "discard_wait"},
             AskOriginal(t, id, wait)
      PROVE  OthersStay(t)
  BY <1>2 DEF AskOriginal
<1>3. CASE RejectBusy(t)
  BY <1>3 DEF RejectBusy
<1>4. CASE Register(t)
  BY <1>4 DEF Register, Finish, Continue
<1>5. CASE Assess(t)
  BY <1>5 DEF Assess, Finish, Continue
<1>6. CASE DirectPreflight(t)
  BY <1>6 DEF DirectPreflight, Finish, Continue
<1>7. CASE DirectReassess(t)
  BY <1>7 DEF DirectReassess, Finish, Continue
<1>8. CASE DirectDispatch(t)
  BY <1>8 DEF DirectDispatch, Finish
<1>9. CASE Prepare(t)
  BY <1>9 DEF Prepare, Finish, Continue
<1>10. CASE Commit(t)
  BY <1>10 DEF Commit, Undo, Continue
<1>11. CASE PastePreflight(t)
  BY <1>11 DEF PastePreflight, Undo, Continue
<1>12. CASE PasteReassess(t)
  BY <1>12 DEF PasteReassess, Undo, Continue
<1>13. CASE PasteDispatch(t)
  BY <1>13 DEF PasteDispatch, Finish
<1>14. CASE RestoreBack(t)
  BY <1>14 DEF RestoreBack, Finish
<1>15. CASE Acquire(t, "restore_wait", "restore") \/ Acquire(t, "discard_wait", "discard")
  BY <1>15 DEF Acquire, Continue
<1>16. CASE RestoreOriginal(t)
  BY <1>16 DEF RestoreOriginal, Continue
<1>17. CASE DiscardOriginal(t)
  BY <1>17 DEF DiscardOriginal, Continue
<1>18. CASE Release(t)
  BY <1>18 DEF Release
<1> HIDE DEF OthersStay, TypeOK, local, Goto
<1> QED
  BY <1>1, <1>2, <1>3, <1>4, <1>5, <1>6, <1>7, <1>8, <1>9, <1>10, <1>11, <1>12,
     <1>13, <1>14, <1>15, <1>16, <1>17, <1>18
  DEF Start, Step

(***************************************************************************)
(* The lock changes hands only as the program counters say.                *)
(***************************************************************************)
LEMMA LockStep ==
  ASSUME TypeOK, LockHeld, [Next]_vars
  PROVE  LockHeld'
<1> USE ServiceAssumption DEF OthersStay, Goto, local, HoldingPC, DirectPC, PastePC
<1>1. ASSUME NEW t \in Threads, Start(t) \/ Step(t)
      PROVE  LockHeld'
  <2>1. OthersStay(t)
    BY <1>1, Frame
  <2>2. ASSUME NEW request \in Request, Deliver(t, request)
        PROVE  LockHeld'
    BY <2>2, <2>1 DEF TypeOK, LockHeld, Deliver
  <2>3. ASSUME NEW id \in Ids, NEW wait \in {"restore_wait", "discard_wait"},
               AskOriginal(t, id, wait)
        PROVE  LockHeld'
    BY <2>3, <2>1 DEF TypeOK, LockHeld, AskOriginal
  <2>4. CASE RejectBusy(t)
    BY <2>4, <2>1 DEF TypeOK, LockHeld, RejectBusy
  <2>5. CASE Register(t)
    BY <2>5, <2>1 DEF TypeOK, LockHeld, Register, Finish, Continue
  <2>6. CASE Assess(t)
    BY <2>6, <2>1 DEF TypeOK, LockHeld, Assess, Finish, Continue
  <2>7. CASE DirectPreflight(t)
    BY <2>7, <2>1 DEF TypeOK, LockHeld, DirectPreflight, Finish, Continue
  <2>8. CASE DirectReassess(t)
    BY <2>8, <2>1 DEF TypeOK, LockHeld, DirectReassess, Finish, Continue
  <2>9. CASE DirectDispatch(t)
    BY <2>9, <2>1 DEF TypeOK, LockHeld, DirectDispatch, Finish
  <2>10. CASE Prepare(t)
    BY <2>10, <2>1 DEF TypeOK, LockHeld, Prepare, Finish, Continue
  <2>11. CASE Commit(t)
    BY <2>11, <2>1 DEF TypeOK, LockHeld, Commit, Undo, Continue
  <2>12. CASE PastePreflight(t)
    BY <2>12, <2>1 DEF TypeOK, LockHeld, PastePreflight, Undo, Continue
  <2>13. CASE PasteReassess(t)
    BY <2>13, <2>1 DEF TypeOK, LockHeld, PasteReassess, Undo, Continue
  <2>14. CASE PasteDispatch(t)
    BY <2>14, <2>1 DEF TypeOK, LockHeld, PasteDispatch, Finish
  <2>15. CASE RestoreBack(t)
    BY <2>15, <2>1 DEF TypeOK, LockHeld, RestoreBack, Finish
  <2>16. CASE Acquire(t, "restore_wait", "restore") \/ Acquire(t, "discard_wait", "discard")
    BY <2>16, <2>1 DEF TypeOK, LockHeld, Acquire, Continue
  <2>17. CASE RestoreOriginal(t)
    BY <2>17, <2>1 DEF TypeOK, LockHeld, RestoreOriginal, Continue
  <2>18. CASE DiscardOriginal(t)
    BY <2>18, <2>1 DEF TypeOK, LockHeld, DiscardOriginal, Continue
  <2>19. CASE Release(t)
    BY <2>19, <2>1 DEF TypeOK, LockHeld, Release
  <2> QED
    BY <1>1, <2>2, <2>3, <2>4, <2>5, <2>6, <2>7, <2>8, <2>9, <2>10, <2>11, <2>12,
       <2>13, <2>14, <2>15, <2>16, <2>17, <2>18, <2>19
    DEF Start, Step
<1>2. CASE OtherProgram
  BY <1>2 DEF TypeOK, LockHeld, OtherProgram, ExternalWrite
<1>3. CASE TargetMoves
  BY <1>3 DEF TypeOK, LockHeld, TargetMoves
<1>4. CASE UNCHANGED vars
  BY <1>4 DEF TypeOK, LockHeld, vars
<1> QED
  BY <1>1, <1>2, <1>3, <1>4 DEF Next

(***************************************************************************)
(* A delivery that got past its registration owns the ledger entry of its  *)
(* request; a step of any other thread leaves that entry alone.            *)
(***************************************************************************)
LEMMA OwnsStep ==
  ASSUME TypeOK, CallsTyped, LockHeld, DeliveryOwns, Ledger, [Next]_vars
  PROVE  DeliveryOwns' /\ Ledger'
<1> USE ServiceAssumption
      DEF OthersStay, Goto, local, stores, history, BeforeSnapshotPC, AfterSnapshotPC,
          HoldingPC, DirectPC, PastePC
<1>1. ASSUME NEW t \in Threads, Start(t) \/ Step(t)
      PROVE  DeliveryOwns' /\ Ledger'
  <2>1. OthersStay(t)
    BY <1>1, Frame
  <2>2. pc[t] \in HoldingPC => \A u \in Threads \ {t} : pc[u] \notin HoldingPC
    BY DEF LockHeld
  <2>3. ASSUME NEW request \in Request, Deliver(t, request)
        PROVE  DeliveryOwns' /\ Ledger'
    BY <2>3, <2>1, <2>2 DEF TypeOK, CallsTyped, DeliveryOwns, Ledger, Deliver
  <2>4. ASSUME NEW id \in Ids, NEW wait \in {"restore_wait", "discard_wait"},
               AskOriginal(t, id, wait)
        PROVE  DeliveryOwns' /\ Ledger'
    BY <2>4, <2>1, <2>2 DEF TypeOK, CallsTyped, DeliveryOwns, Ledger, AskOriginal
  <2>5. CASE RejectBusy(t)
    BY <2>5, <2>1, <2>2
    DEF TypeOK, CallsTyped, DeliveryOwns, Ledger, RejectBusy, KeepText
  <2>6. CASE Register(t)
    BY <2>6, <2>1, <2>2
    DEF TypeOK, CallsTyped, DeliveryOwns, Ledger, Register, Finish, Continue,
        KeepText
  <2>7. CASE Assess(t)
    BY <2>7, <2>1, <2>2
    DEF TypeOK, CallsTyped, DeliveryOwns, Ledger, Assess, Finish, Continue
  <2>8. CASE DirectPreflight(t)
    BY <2>8, <2>1, <2>2
    DEF TypeOK, CallsTyped, DeliveryOwns, Ledger, DirectPreflight, Finish, Continue
  <2>9. CASE DirectReassess(t)
    BY <2>9, <2>1, <2>2
    DEF TypeOK, CallsTyped, DeliveryOwns, Ledger, DirectReassess, Finish, Continue
  <2>10. CASE DirectDispatch(t)
    BY <2>10, <2>1, <2>2
    DEF TypeOK, CallsTyped, DeliveryOwns, Ledger, DirectDispatch, Finish, CountSend
  <2>11. CASE Prepare(t)
    BY <2>11, <2>1, <2>2
    DEF TypeOK, CallsTyped, DeliveryOwns, Ledger, Prepare, Finish, Continue
  <2>12. CASE Commit(t)
    BY <2>12, <2>1, <2>2
    DEF TypeOK, CallsTyped, DeliveryOwns, Ledger, Commit, Undo, Continue
  <2>13. CASE PastePreflight(t)
    BY <2>13, <2>1, <2>2
    DEF TypeOK, CallsTyped, DeliveryOwns, Ledger, PastePreflight, Undo, Continue
  <2>14. CASE PasteReassess(t)
    BY <2>14, <2>1, <2>2
    DEF TypeOK, CallsTyped, DeliveryOwns, Ledger, PasteReassess, Undo, Continue
  <2>15. CASE PasteDispatch(t)
    BY <2>15, <2>1, <2>2
    DEF TypeOK, CallsTyped, DeliveryOwns, Ledger, PasteDispatch, Finish, CountSend
  <2>16. CASE RestoreBack(t)
    BY <2>16, <2>1, <2>2
    DEF TypeOK, CallsTyped, DeliveryOwns, Ledger, RestoreBack, Finish
  <2>17. CASE Acquire(t, "restore_wait", "restore") \/ Acquire(t, "discard_wait", "discard")
    BY <2>17, <2>1, <2>2
    DEF TypeOK, CallsTyped, DeliveryOwns, Ledger, Acquire, Continue
  <2>18. CASE RestoreOriginal(t)
    BY <2>18, <2>1, <2>2
    DEF TypeOK, CallsTyped, DeliveryOwns, Ledger, RestoreOriginal, Continue
  <2>19. CASE DiscardOriginal(t)
    BY <2>19, <2>1, <2>2
    DEF TypeOK, CallsTyped, DeliveryOwns, Ledger, DiscardOriginal, Continue
  <2>20. CASE Release(t)
    BY <2>20, <2>1, <2>2 DEF TypeOK, CallsTyped, DeliveryOwns, Ledger, Release
  <2> QED
    BY <1>1, <2>3, <2>4, <2>5, <2>6, <2>7, <2>8, <2>9, <2>10, <2>11, <2>12, <2>13,
       <2>14, <2>15, <2>16, <2>17, <2>18, <2>19, <2>20
    DEF Start, Step
<1>2. CASE OtherProgram
  BY <1>2 DEF TypeOK, DeliveryOwns, Ledger, OtherProgram, ExternalWrite
<1>3. CASE TargetMoves
  BY <1>3 DEF TypeOK, DeliveryOwns, Ledger, TargetMoves
<1>4. CASE UNCHANGED vars
  BY <1>4 DEF TypeOK, DeliveryOwns, Ledger, vars
<1> QED
  BY <1>1, <1>2, <1>3, <1>4 DEF Next

(***************************************************************************)
(* Whatever an adapter call comes to, the user's content stays on the      *)
(* clipboard or in the custody of the one retained snapshot.               *)
(***************************************************************************)
LEMMA CustodyStep ==
  ASSUME TypeOK, CallsTyped, LockHeld, DeliveryOwns, Ledger,
         SnapshotsCurrent, CommitPrepared, UserDataSafe, [Next]_vars
  PROVE  SnapshotsCurrent' /\ CommitPrepared' /\ UserDataSafe'
<1> USE ServiceAssumption, ClipboardAssumption
      DEF OthersStay, Goto, local, stores, history, BeforeSnapshotPC, AfterSnapshotPC,
          HoldingPC, DirectPC, PastePC
<1>1. ASSUME NEW t \in Threads, Start(t) \/ Step(t)
      PROVE  SnapshotsCurrent' /\ CommitPrepared' /\ UserDataSafe'
  <2>1. OthersStay(t)
    BY <1>1, Frame
  <2>2. pc[t] \in HoldingPC => \A u \in Threads \ {t} : pc[u] \notin HoldingPC
    BY DEF LockHeld
  <2>3. ASSUME NEW request \in Request, Deliver(t, request)
        PROVE  SnapshotsCurrent' /\ CommitPrepared' /\ UserDataSafe'
    BY <2>3, <2>1, <2>2
    DEF SnapshotsCurrent, CommitPrepared, UserDataSafe, clipboardVars, TypeOK,
        Deliver
  <2>4. ASSUME NEW id \in Ids, NEW wait \in {"restore_wait", "discard_wait"},
               AskOriginal(t, id, wait)
        PROVE  SnapshotsCurrent' /\ CommitPrepared' /\ UserDataSafe'
    BY <2>4, <2>1, <2>2
    DEF SnapshotsCurrent, CommitPrepared, UserDataSafe, clipboardVars, TypeOK,
        AskOriginal
  <2>5. CASE RejectBusy(t)
    BY <2>5, <2>1, <2>2
    DEF SnapshotsCurrent, CommitPrepared, UserDataSafe, clipboardVars, TypeOK,
        RejectBusy, KeepText
  <2>6. CASE Register(t)
    BY <2>6, <2>1, <2>2
    DEF SnapshotsCurrent, CommitPrepared, UserDataSafe, clipboardVars, TypeOK,
        Register, Finish, Continue
  <2>7. CASE Assess(t)
    BY <2>7, <2>1, <2>2
    DEF SnapshotsCurrent, CommitPrepared, UserDataSafe, clipboardVars, TypeOK,
        Assess, Finish, Continue
  <2>8. CASE DirectPreflight(t)
    BY <2>8, <2>1, <2>2
    DEF SnapshotsCurrent, CommitPrepared, UserDataSafe, clipboardVars, TypeOK,
        DirectPreflight, Finish, Continue
  <2>9. CASE DirectReassess(t)
    BY <2>9, <2>1, <2>2
    DEF SnapshotsCurrent, CommitPrepared, UserDataSafe, clipboardVars, TypeOK,
        DirectReassess, Finish, Continue
  <2>10. CASE DirectDispatch(t)
    BY <2>10, <2>1, <2>2
    DEF SnapshotsCurrent, CommitPrepared, UserDataSafe, clipboardVars, TypeOK,
        DirectDispatch, Finish
  <2>11. CASE Prepare(t)
    <3>1. call[t].id \in Ids /\ retained = {} /\ clip = user
      BY <2>11 DEF Prepare, CallsTyped, DeliveryOwns, UserDataSafe
    <3>2. CASE PrepareSafe(call[t].id) /\ retained' = {call[t].id}
      BY <2>11, <2>1, <2>2, <3>1, <3>2
      DEF SnapshotsCurrent, CommitPrepared, UserDataSafe, TypeOK, ClipboardTypeOK,
          Snapshot, PrepareSafe, Prepare, NoSeq, Continue, Finish
    <3>3. CASE UNCHANGED retained
      BY <2>11, <2>1, <2>2, <3>1, <3>3
      DEF SnapshotsCurrent, CommitPrepared, UserDataSafe, TypeOK, ClipboardTypeOK,
          Snapshot, PrepareUnsafe, Fault, Prepare, clipboardVars, Continue, Finish
    <3> QED BY <2>11, <3>1, <3>2, <3>3 DEF Prepare
  <2>12. CASE Commit(t)
    <3>1. call[t].id \in Ids /\ retained = {call[t].id} /\ prepared = call[t].id
      BY <2>12 DEF Commit, CallsTyped, DeliveryOwns, CommitPrepared
    <3>2. pc'[t] # "commit" /\ retained' = retained
      BY <2>12 DEF Commit, Continue, Undo, TypeOK
    <3>3. CommitPrepared'
      BY <2>12, <2>1, <2>2, <3>2 DEF Commit, CommitPrepared
    <3>4. CASE CommitOk(call[t].text)
      BY <3>1, <3>2, <3>3, <3>4
      DEF SnapshotsCurrent, CommitPrepared, UserDataSafe, TypeOK, ClipboardTypeOK,
          Snapshot, CommitOk
    <3>5. CASE CommitRefused(call[t].text)
      BY <3>1, <3>2, <3>3, <3>5
      DEF SnapshotsCurrent, CommitPrepared, UserDataSafe, CommitRefused,
          clipboardVars
    <3>6. CASE CommitUntouched(call[t].text)
      BY <2>12, <3>1, <3>2, <3>3, <3>6
      DEF SnapshotsCurrent, CommitPrepared, UserDataSafe, TypeOK, ClipboardTypeOK,
          Snapshot, CommitUntouched, Fault, Commit, NoSeq
    <3>7. CASE CommitTorn(call[t].text)
      BY <3>1, <3>2, <3>3, <3>7
      DEF SnapshotsCurrent, CommitPrepared, UserDataSafe, TypeOK, ClipboardTypeOK,
          Snapshot, CommitTorn, Fault
    <3> QED BY <2>12, <3>1, <3>2, <3>3, <3>4, <3>5, <3>6, <3>7
    DEF Commit, CommitRaises
  <2>13. CASE PastePreflight(t)
    BY <2>13, <2>1, <2>2
    DEF SnapshotsCurrent, CommitPrepared, UserDataSafe, clipboardVars, TypeOK,
        PastePreflight, Undo, Continue
  <2>14. CASE PasteReassess(t)
    BY <2>14, <2>1, <2>2
    DEF SnapshotsCurrent, CommitPrepared, UserDataSafe, clipboardVars, TypeOK,
        PasteReassess, Undo, Continue
  <2>15. CASE PasteDispatch(t)
    BY <2>15, <2>1, <2>2
    DEF SnapshotsCurrent, CommitPrepared, UserDataSafe, clipboardVars, TypeOK,
        PasteDispatch, Finish
  <2>16. CASE RestoreBack(t)
    <3>1. call[t].id \in Ids /\ (call[t].id \in retained => retained = {call[t].id})
      BY <2>16 DEF RestoreBack, CallsTyped, DeliveryOwns, Ledger, TypeOK
    <3>2. pc'[t] # "commit" /\ \A u \in Threads \ {t} : pc'[u] # "commit"
      BY <2>16, <2>1, <2>2 DEF RestoreBack, Finish, TypeOK
    <3>3. CommitPrepared'
      BY <3>2 DEF CommitPrepared
    <3>4. CASE call[t].id \in retained /\ RestoreDone(call[t].id) /\ retained' = retained \ {call[t].id}
      BY <3>1, <3>3, <3>4
      DEF SnapshotsCurrent, CommitPrepared, UserDataSafe, TypeOK, ClipboardTypeOK,
          Snapshot, RestoreDone
    <3>5. CASE call[t].id \in retained /\ RestoreForeign(call[t].id) /\ retained' = retained \ {call[t].id}
      BY <3>1, <3>3, <3>5
      DEF SnapshotsCurrent, CommitPrepared, UserDataSafe, TypeOK, ClipboardTypeOK,
          Snapshot, RestoreForeign
    <3>6. CASE RestoreInvalid(call[t].id) /\ UNCHANGED retained
      BY <3>3, <3>6
      DEF SnapshotsCurrent, CommitPrepared, UserDataSafe, RestoreInvalid,
          clipboardVars
    <3>7. CASE RestoreUntouched(call[t].id) /\ UNCHANGED retained
      BY <3>3, <3>7
      DEF SnapshotsCurrent, CommitPrepared, UserDataSafe, RestoreUntouched
    <3>8. CASE call[t].id \in retained /\ RestoreTorn(call[t].id) /\ UNCHANGED retained
      BY <3>1, <3>3, <3>8
      DEF SnapshotsCurrent, CommitPrepared, UserDataSafe, TypeOK, ClipboardTypeOK,
          Snapshot, RestoreTorn
    <3> QED BY <2>16, <3>1, <3>2, <3>3, <3>4, <3>5, <3>6, <3>7, <3>8
    DEF RestoreBack, RestoreRaises, DeliveryOwns
  <2>17. CASE Acquire(t, "restore_wait", "restore") \/ Acquire(t, "discard_wait", "discard")
    BY <2>17, <2>1, <2>2
    DEF SnapshotsCurrent, CommitPrepared, UserDataSafe, clipboardVars, TypeOK,
        Acquire, Continue
  <2>18. CASE RestoreOriginal(t)
    <3>1. call[t].id \in Ids /\ (call[t].id \in retained => retained = {call[t].id})
      BY <2>18 DEF RestoreOriginal, CallsTyped, DeliveryOwns, Ledger, TypeOK
    <3>2. pc'[t] # "commit" /\ \A u \in Threads \ {t} : pc'[u] # "commit"
      BY <2>18, <2>1, <2>2 DEF RestoreOriginal, Continue, TypeOK
    <3>3. CommitPrepared'
      BY <3>2 DEF CommitPrepared
    <3>4. CASE call[t].id \in retained /\ RestoreDone(call[t].id) /\ retained' = retained \ {call[t].id}
      BY <3>1, <3>3, <3>4
      DEF SnapshotsCurrent, CommitPrepared, UserDataSafe, TypeOK, ClipboardTypeOK,
          Snapshot, RestoreDone
    <3>5. CASE call[t].id \in retained /\ RestoreForeign(call[t].id) /\ retained' = retained \ {call[t].id}
      BY <3>1, <3>3, <3>5
      DEF SnapshotsCurrent, CommitPrepared, UserDataSafe, TypeOK, ClipboardTypeOK,
          Snapshot, RestoreForeign
    <3>6. CASE RestoreInvalid(call[t].id) /\ UNCHANGED retained
      BY <3>3, <3>6
      DEF SnapshotsCurrent, CommitPrepared, UserDataSafe, RestoreInvalid,
          clipboardVars
    <3>7. CASE RestoreUntouched(call[t].id) /\ UNCHANGED retained
      BY <3>3, <3>7
      DEF SnapshotsCurrent, CommitPrepared, UserDataSafe, RestoreUntouched
    <3>8. CASE call[t].id \in retained /\ RestoreTorn(call[t].id) /\ UNCHANGED retained
      BY <3>1, <3>3, <3>8
      DEF SnapshotsCurrent, CommitPrepared, UserDataSafe, TypeOK, ClipboardTypeOK,
          Snapshot, RestoreTorn
    <3>9. CASE UNCHANGED <<clipboardVars, retained>>
      BY <3>3, <3>9 DEF SnapshotsCurrent, CommitPrepared, UserDataSafe, clipboardVars
    <3> QED BY <2>18, <3>1, <3>2, <3>3, <3>4, <3>5, <3>6, <3>7, <3>8, <3>9
    DEF RestoreOriginal, RestoreRaises, DeliveryOwns
  <2>19. CASE DiscardOriginal(t)
    <3>1. call[t].id \in Ids /\ (call[t].id \in retained => retained = {call[t].id})
      BY <2>19 DEF DiscardOriginal, CallsTyped, DeliveryOwns, Ledger, TypeOK
    <3>2. CommitPrepared'
      BY <2>19, <2>1, <2>2 DEF CommitPrepared, DiscardOriginal, Continue, TypeOK
    <3>3. CASE UNCHANGED <<clipboardVars, retained>>
      BY <3>2, <3>3 DEF SnapshotsCurrent, CommitPrepared, UserDataSafe, clipboardVars
    <3>4. CASE call[t].id \in retained /\ Discard(call[t].id) /\ retained' = retained \ {call[t].id}
      BY <3>1, <3>2, <3>4
      DEF SnapshotsCurrent, CommitPrepared, UserDataSafe, TypeOK, ClipboardTypeOK,
          Snapshot, Discard
    <3> QED BY <2>19, <3>1, <3>2, <3>3, <3>4 DEF DiscardOriginal
  <2>20. CASE Release(t)
    BY <2>20, <2>1, <2>2
    DEF SnapshotsCurrent, CommitPrepared, UserDataSafe, clipboardVars, TypeOK,
        Release
  <2> QED
    BY <1>1, <2>3, <2>4, <2>5, <2>6, <2>7, <2>8, <2>9, <2>10, <2>11, <2>12, <2>13,
       <2>14, <2>15, <2>16, <2>17, <2>18, <2>19, <2>20
    DEF Start, Step
<1>2. CASE OtherProgram
  BY <1>2
  DEF SnapshotsCurrent, CommitPrepared, UserDataSafe, TypeOK, ClipboardTypeOK,
      Snapshot, NoSeq, OtherProgram, ExternalWrite
<1>3. CASE TargetMoves
  BY <1>3
  DEF SnapshotsCurrent, CommitPrepared, UserDataSafe, clipboardVars, TargetMoves
<1>4. CASE UNCHANGED vars
  BY <1>4 DEF SnapshotsCurrent, CommitPrepared, UserDataSafe, clipboardVars, vars
<1> QED
  BY <1>1, <1>2, <1>3, <1>4 DEF Next

(***************************************************************************)
(* An outcome names the snapshot its call leaves behind, and the text kept *)
(* for a request in delivery is not replaced.                              *)
(***************************************************************************)
LEMMA ReportingStep ==
  ASSUME TypeOK, CallsTyped, LockHeld, DeliveryOwns, Ledger,
         OutcomeWhenKnown, OutcomeTellsRetention, DeliversRetainedText, [Next]_vars
  PROVE  OutcomeWhenKnown' /\ OutcomeTellsRetention' /\ DeliversRetainedText'
<1> USE ServiceAssumption
      DEF OthersStay, Goto, local, stores, history, BeforeSnapshotPC, AfterSnapshotPC,
          HoldingPC, DirectPC, PastePC
<1>1. ASSUME NEW t \in Threads, Start(t) \/ Step(t)
      PROVE  OutcomeWhenKnown' /\ OutcomeTellsRetention' /\ DeliversRetainedText'
  <2>1. OthersStay(t)
    BY <1>1, Frame
  <2>2. pc[t] \in HoldingPC => \A u \in Threads \ {t} : pc[u] \notin HoldingPC
    BY DEF LockHeld
  <2>3. ASSUME NEW request \in Request, Deliver(t, request)
        PROVE  OutcomeWhenKnown' /\ OutcomeTellsRetention' /\ DeliversRetainedText'
    BY <2>3, <2>1, <2>2
    DEF OutcomeWhenKnown, OutcomeTellsRetention, DeliversRetainedText, DeliveryOwns,
        Ledger, CallsTyped, TypeOK, Deliver
  <2>4. ASSUME NEW id \in Ids, NEW wait \in {"restore_wait", "discard_wait"},
               AskOriginal(t, id, wait)
        PROVE  OutcomeWhenKnown' /\ OutcomeTellsRetention' /\ DeliversRetainedText'
    BY <2>4, <2>1, <2>2
    DEF OutcomeWhenKnown, OutcomeTellsRetention, DeliversRetainedText, DeliveryOwns,
        Ledger, CallsTyped, TypeOK, AskOriginal
  <2>5. CASE RejectBusy(t)
    BY <2>5, <2>1, <2>2
    DEF OutcomeWhenKnown, OutcomeTellsRetention, DeliversRetainedText, DeliveryOwns,
        Ledger, CallsTyped, TypeOK, RejectBusy, KeepText, Request
  <2>6. CASE Register(t)
    BY <2>6, <2>1, <2>2
    DEF OutcomeWhenKnown, OutcomeTellsRetention, DeliversRetainedText, DeliveryOwns,
        Ledger, CallsTyped, TypeOK, Register, Finish, Continue, KeepText, Request
  <2>7. CASE Assess(t)
    BY <2>7, <2>1, <2>2
    DEF OutcomeWhenKnown, OutcomeTellsRetention, DeliversRetainedText, DeliveryOwns,
        Ledger, CallsTyped, TypeOK, Assess, Finish, Continue, AssessResult
  <2>8. CASE DirectPreflight(t)
    BY <2>8, <2>1, <2>2
    DEF OutcomeWhenKnown, OutcomeTellsRetention, DeliversRetainedText, DeliveryOwns,
        Ledger, CallsTyped, TypeOK, DirectPreflight, Finish, Continue
  <2>9. CASE DirectReassess(t)
    BY <2>9, <2>1, <2>2
    DEF OutcomeWhenKnown, OutcomeTellsRetention, DeliversRetainedText, DeliveryOwns,
        Ledger, CallsTyped, TypeOK, DirectReassess, Finish, Continue, AssessResult
  <2>10. CASE DirectDispatch(t)
    BY <2>10, <2>1, <2>2
    DEF OutcomeWhenKnown, OutcomeTellsRetention, DeliversRetainedText, DeliveryOwns,
        Ledger, CallsTyped, TypeOK, DirectDispatch, Finish
  <2>11. CASE Prepare(t)
    BY <2>11, <2>1, <2>2
    DEF OutcomeWhenKnown, OutcomeTellsRetention, DeliversRetainedText, DeliveryOwns,
        Ledger, CallsTyped, TypeOK, Prepare, Finish, Continue
  <2>12. CASE Commit(t)
    BY <2>12, <2>1, <2>2
    DEF OutcomeWhenKnown, OutcomeTellsRetention, DeliversRetainedText, DeliveryOwns,
        Ledger, CallsTyped, TypeOK, Commit, Undo, Continue
  <2>13. CASE PastePreflight(t)
    BY <2>13, <2>1, <2>2
    DEF OutcomeWhenKnown, OutcomeTellsRetention, DeliversRetainedText, DeliveryOwns,
        Ledger, CallsTyped, TypeOK, PastePreflight, Undo, Continue
  <2>14. CASE PasteReassess(t)
    BY <2>14, <2>1, <2>2
    DEF OutcomeWhenKnown, OutcomeTellsRetention, DeliversRetainedText, DeliveryOwns,
        Ledger, CallsTyped, TypeOK, PasteReassess, Undo, Continue, AssessResult
  <2>15. CASE PasteDispatch(t)
    BY <2>15, <2>1, <2>2
    DEF OutcomeWhenKnown, OutcomeTellsRetention, DeliversRetainedText, DeliveryOwns,
        Ledger, CallsTyped, TypeOK, PasteDispatch, Finish
  <2>16. CASE RestoreBack(t)
    BY <2>16, <2>1, <2>2
    DEF OutcomeWhenKnown, OutcomeTellsRetention, DeliversRetainedText, DeliveryOwns,
        Ledger, CallsTyped, TypeOK, RestoreBack, Finish
  <2>17. CASE Acquire(t, "restore_wait", "restore") \/ Acquire(t, "discard_wait", "discard")
    BY <2>17, <2>1, <2>2
    DEF OutcomeWhenKnown, OutcomeTellsRetention, DeliversRetainedText, DeliveryOwns,
        Ledger, CallsTyped, TypeOK, Acquire, Continue
  <2>18. CASE RestoreOriginal(t)
    BY <2>18, <2>1, <2>2
    DEF OutcomeWhenKnown, OutcomeTellsRetention, DeliversRetainedText, DeliveryOwns,
        Ledger, CallsTyped, TypeOK, RestoreOriginal, Continue
  <2>19. CASE DiscardOriginal(t)
    BY <2>19, <2>1, <2>2
    DEF OutcomeWhenKnown, OutcomeTellsRetention, DeliversRetainedText, DeliveryOwns,
        Ledger, CallsTyped, TypeOK, DiscardOriginal, Continue
  <2>20. CASE Release(t)
    BY <2>20, <2>1, <2>2
    DEF OutcomeWhenKnown, OutcomeTellsRetention, DeliversRetainedText, DeliveryOwns,
        Ledger, CallsTyped, TypeOK, Release
  <2> QED
    BY <1>1, <2>3, <2>4, <2>5, <2>6, <2>7, <2>8, <2>9, <2>10, <2>11, <2>12, <2>13,
       <2>14, <2>15, <2>16, <2>17, <2>18, <2>19, <2>20
    DEF Start, Step
<1>2. CASE OtherProgram
  BY <1>2
  DEF OutcomeWhenKnown, OutcomeTellsRetention, DeliversRetainedText, OtherProgram,
      ExternalWrite
<1>3. CASE TargetMoves
  BY <1>3
  DEF OutcomeWhenKnown, OutcomeTellsRetention, DeliversRetainedText, TargetMoves
<1>4. CASE UNCHANGED vars
  BY <1>4 DEF OutcomeWhenKnown, OutcomeTellsRetention, DeliversRetainedText, vars
<1> QED
  BY <1>1, <1>2, <1>3, <1>4 DEF Next

(***************************************************************************)
(* The clipboard adapter marks the snapshot as written before anything can *)
(* fail but the encoding of the text.                                      *)
(***************************************************************************)
LEMMA MarkedStep ==
  ASSUME TypeOK, CallsTyped, LockHeld, DeliveryOwns, Ledger, CommitPrepared,
         DeliversRetainedText, MarkedOnceCommitted, [Next]_vars
  PROVE  MarkedOnceCommitted'
<1> USE ServiceAssumption
      DEF OthersStay, Goto, local, stores, history, BeforeSnapshotPC, AfterSnapshotPC,
          HoldingPC, DirectPC, PastePC
<1>1. ASSUME NEW t \in Threads, Start(t) \/ Step(t)
      PROVE  MarkedOnceCommitted'
  <2>1. OthersStay(t)
    BY <1>1, Frame
  <2>2. pc[t] \in HoldingPC => \A u \in Threads \ {t} : pc[u] \notin HoldingPC
    BY DEF LockHeld
  <2>3. ASSUME NEW request \in Request, Deliver(t, request)
        PROVE  MarkedOnceCommitted'
    BY <2>3, <2>1, <2>2 DEF MarkedOnceCommitted, clipboardVars, TypeOK, Deliver
  <2>4. ASSUME NEW id \in Ids, NEW wait \in {"restore_wait", "discard_wait"},
               AskOriginal(t, id, wait)
        PROVE  MarkedOnceCommitted'
    BY <2>4, <2>1, <2>2 DEF MarkedOnceCommitted, clipboardVars, TypeOK, AskOriginal
  <2>5. CASE RejectBusy(t)
    BY <2>5, <2>1, <2>2
    DEF MarkedOnceCommitted, clipboardVars, TypeOK, RejectBusy, KeepText, Ledger,
        CallsTyped
  <2>6. CASE Register(t)
    BY <2>6, <2>1, <2>2
    DEF MarkedOnceCommitted, clipboardVars, TypeOK, Register, Finish, Continue,
        KeepText, Ledger, CallsTyped
  <2>7. CASE Assess(t)
    BY <2>7, <2>1, <2>2
    DEF MarkedOnceCommitted, clipboardVars, TypeOK, Assess, Finish, Continue
  <2>8. CASE DirectPreflight(t)
    BY <2>8, <2>1, <2>2
    DEF MarkedOnceCommitted, clipboardVars, TypeOK, DirectPreflight, Finish,
        Continue
  <2>9. CASE DirectReassess(t)
    BY <2>9, <2>1, <2>2
    DEF MarkedOnceCommitted, clipboardVars, TypeOK, DirectReassess, Finish, Continue
  <2>10. CASE DirectDispatch(t)
    BY <2>10, <2>1, <2>2
    DEF MarkedOnceCommitted, clipboardVars, TypeOK, DirectDispatch, Finish
  <2>11. CASE Prepare(t)
    <3>1. call[t].id \in Ids /\ retained = {}
      BY <2>11 DEF Prepare, CallsTyped, DeliveryOwns
    <3>2. CASE PrepareSafe(call[t].id) /\ retained' = {call[t].id}
      BY <2>11, <3>1, <3>2
      DEF MarkedOnceCommitted, Prepare, Continue, PrepareSafe, PrepareUnsafe,
          clipboardVars, Fault, TypeOK
    <3>3. CASE retained' = retained
      BY <3>1, <3>3 DEF MarkedOnceCommitted
    <3> QED BY <2>11, <3>1, <3>2, <3>3 DEF Prepare, Finish, Continue
  <2>12. CASE Commit(t)
    <3>1. call[t].id \in Ids /\ retained = {call[t].id} /\ prepared = call[t].id
      BY <2>12 DEF Commit, CallsTyped, DeliveryOwns, CommitPrepared
    <3>2. retained' = retained /\ UNCHANGED stores
      BY <2>12 DEF Commit
    <3>3. results[call[t].id] = {call[t].text}
      BY <2>12 DEF Commit, DeliversRetainedText
    <3>4. prepared # NoId
      BY <3>1, ClipboardAssumption
    <3>5. CASE CommitOk(call[t].text)
      BY <3>1, <3>2, <3>5
      DEF MarkedOnceCommitted, TypeOK, ClipboardTypeOK, Snapshot, CommitOk, NoSeq
    <3>6. CASE CommitRefused(call[t].text)
      BY <3>1, <3>2, <3>3, <3>4, <3>6 DEF MarkedOnceCommitted, CommitRefused
    <3>7. CASE CommitUntouched(call[t].text)
      BY <3>1, <3>2, <3>7
      DEF MarkedOnceCommitted, TypeOK, ClipboardTypeOK, Snapshot, CommitUntouched,
          NoSeq
    <3>8. CASE CommitTorn(call[t].text)
      BY <3>1, <3>2, <3>8
      DEF MarkedOnceCommitted, TypeOK, ClipboardTypeOK, Snapshot, CommitTorn, NoSeq
    <3> QED BY <2>12, <3>1, <3>2, <3>3, <3>4, <3>5, <3>6, <3>7, <3>8
    DEF Commit, CommitRaises
  <2>13. CASE PastePreflight(t)
    BY <2>13, <2>1, <2>2
    DEF MarkedOnceCommitted, clipboardVars, TypeOK, PastePreflight, Undo, Continue
  <2>14. CASE PasteReassess(t)
    BY <2>14, <2>1, <2>2
    DEF MarkedOnceCommitted, clipboardVars, TypeOK, PasteReassess, Undo, Continue
  <2>15. CASE PasteDispatch(t)
    BY <2>15, <2>1, <2>2
    DEF MarkedOnceCommitted, clipboardVars, TypeOK, PasteDispatch, Finish
  <2>16. CASE RestoreBack(t)
    <3>1. UNCHANGED stores /\ \A u \in Threads : pc[u] # "commit" 
      BY <2>16, <2>1, <2>2 DEF RestoreBack
    <3>2. CASE UNCHANGED snap /\ retained' \subseteq retained
      BY <3>1, <3>2 DEF MarkedOnceCommitted
    <3>3. CASE call[t].id \in Ids /\ RestoreTorn(call[t].id) /\ UNCHANGED retained
      BY <3>1, <3>3
      DEF MarkedOnceCommitted, TypeOK, ClipboardTypeOK, Snapshot, RestoreTorn, NoSeq
    <3> QED BY <2>16, <3>1, <3>2, <3>3
    DEF RestoreBack, RestoreRaises, RestoreDone, RestoreForeign, RestoreInvalid,
        RestoreUntouched, clipboardVars, CallsTyped
  <2>17. CASE Acquire(t, "restore_wait", "restore") \/ Acquire(t, "discard_wait", "discard")
    BY <2>17, <2>1, <2>2
    DEF MarkedOnceCommitted, clipboardVars, TypeOK, Acquire, Continue
  <2>18. CASE RestoreOriginal(t)
    <3>1. UNCHANGED stores /\ \A u \in Threads : pc[u] # "commit" 
      BY <2>18, <2>1, <2>2 DEF RestoreOriginal
    <3>2. CASE UNCHANGED snap /\ retained' \subseteq retained
      BY <3>1, <3>2 DEF MarkedOnceCommitted
    <3>3. CASE call[t].id \in Ids /\ RestoreTorn(call[t].id) /\ UNCHANGED retained
      BY <3>1, <3>3
      DEF MarkedOnceCommitted, TypeOK, ClipboardTypeOK, Snapshot, RestoreTorn, NoSeq
    <3>4. CASE UNCHANGED <<clipboardVars, retained>>
      BY <3>1, <3>4 DEF MarkedOnceCommitted, clipboardVars
    <3> QED BY <2>18, <3>1, <3>2, <3>3, <3>4
    DEF RestoreOriginal, RestoreRaises, RestoreDone, RestoreForeign, RestoreInvalid,
        RestoreUntouched, clipboardVars, CallsTyped
  <2>19. CASE DiscardOriginal(t)
    <3>1. UNCHANGED stores /\ \A u \in Threads : pc[u] # "commit" 
      BY <2>19, <2>1, <2>2 DEF DiscardOriginal
    <3>2. UNCHANGED snap /\ retained' \subseteq retained
      BY <2>19 DEF DiscardOriginal, Discard, clipboardVars
    <3> QED BY <2>19, <3>1, <3>2 DEF MarkedOnceCommitted
  <2>20. CASE Release(t)
    BY <2>20, <2>1, <2>2 DEF MarkedOnceCommitted, clipboardVars, TypeOK, Release
  <2> QED
    BY <1>1, <2>3, <2>4, <2>5, <2>6, <2>7, <2>8, <2>9, <2>10, <2>11, <2>12, <2>13,
       <2>14, <2>15, <2>16, <2>17, <2>18, <2>19, <2>20
    DEF Start, Step
<1>2. CASE OtherProgram
  BY <1>2
  DEF MarkedOnceCommitted, ExternalWrite, clipboardVars, OtherProgram, ExternalWrite
<1>3. CASE TargetMoves
  BY <1>3 DEF MarkedOnceCommitted, ExternalWrite, clipboardVars, TargetMoves
<1>4. CASE UNCHANGED vars
  BY <1>4 DEF MarkedOnceCommitted, ExternalWrite, clipboardVars, vars
<1> QED
  BY <1>1, <1>2, <1>3, <1>4 DEF Next

(***************************************************************************)
(* Until the input is sent the clipboard keeps the request's text, and a   *)
(* safe moment of the target lies behind.                                  *)
(***************************************************************************)
LEMMA WindowStep ==
  ASSUME TypeOK, CallsTyped, LockHeld, DeliveryOwns, SnapshotsCurrent,
         PasteHolds, SafeMomentSeen, [Next]_vars
  PROVE  PasteHolds' /\ SafeMomentSeen'
<1> USE ServiceAssumption
      DEF OthersStay, Goto, local, stores, history, BeforeSnapshotPC, AfterSnapshotPC,
          HoldingPC, DirectPC, PastePC
<1>1. ASSUME NEW t \in Threads, Start(t) \/ Step(t)
      PROVE  PasteHolds' /\ SafeMomentSeen'
  <2>1. OthersStay(t)
    BY <1>1, Frame
  <2>2. pc[t] \in HoldingPC => \A u \in Threads \ {t} : pc[u] \notin HoldingPC
    BY DEF LockHeld
  <2>3. ASSUME NEW request \in Request, Deliver(t, request)
        PROVE  PasteHolds' /\ SafeMomentSeen'
    BY <2>3, <2>1, <2>2
    DEF PasteHolds, SafeMomentSeen, clipboardVars, TypeOK, Deliver
  <2>4. ASSUME NEW id \in Ids, NEW wait \in {"restore_wait", "discard_wait"},
               AskOriginal(t, id, wait)
        PROVE  PasteHolds' /\ SafeMomentSeen'
    BY <2>4, <2>1, <2>2
    DEF PasteHolds, SafeMomentSeen, clipboardVars, TypeOK, AskOriginal
  <2>5. CASE RejectBusy(t)
    BY <2>5, <2>1, <2>2
    DEF PasteHolds, SafeMomentSeen, clipboardVars, TypeOK, RejectBusy
  <2>6. CASE Register(t)
    BY <2>6, <2>1, <2>2
    DEF PasteHolds, SafeMomentSeen, clipboardVars, TypeOK, Register, Finish,
        Continue
  <2>7. CASE Assess(t)
    BY <2>7, <2>1, <2>2
    DEF PasteHolds, SafeMomentSeen, clipboardVars, TypeOK, Assess, Finish, Continue,
        AssessResult
  <2>8. CASE DirectPreflight(t)
    BY <2>8, <2>1, <2>2
    DEF PasteHolds, SafeMomentSeen, clipboardVars, TypeOK, DirectPreflight, Finish,
        Continue
  <2>9. CASE DirectReassess(t)
    BY <2>9, <2>1, <2>2
    DEF PasteHolds, SafeMomentSeen, clipboardVars, TypeOK, DirectReassess, Finish,
        Continue, AssessResult
  <2>10. CASE DirectDispatch(t)
    BY <2>10, <2>1, <2>2
    DEF PasteHolds, SafeMomentSeen, clipboardVars, TypeOK, DirectDispatch, Finish
  <2>11. CASE Prepare(t)
    <3>1. SafeMomentSeen'
      BY <2>11, <2>1, <2>2 DEF SafeMomentSeen, TypeOK, Prepare, Finish, Continue
    <3>2. PasteHolds'
      BY <2>11, <2>1, <2>2 DEF PasteHolds, TypeOK, Prepare, Finish, Continue
    <3> QED BY <2>11, <3>1, <3>2
  <2>12. CASE Commit(t)
    <3>1. SafeMomentSeen'
      BY <2>12, <2>1, <2>2 DEF Commit, SafeMomentSeen, Continue, Undo, TypeOK
    <3>2. \A u \in Threads \ {t} : pc'[u] \notin HoldingPC
      BY <2>12, <2>1, <2>2 DEF Commit
    <3>3. CASE CommitOk(call[t].text) /\ Continue(t, "paste_preflight")
      BY <3>1, <3>2, <3>3 DEF PasteHolds, CommitOk, Continue, TypeOK
    <3>4. CASE Undo(t, "clipboard_failed")
      BY <3>1, <3>2, <3>4 DEF PasteHolds, Undo, TypeOK
    <3> QED BY <2>12, <3>1, <3>2, <3>3, <3>4 DEF Commit
  <2>13. CASE PastePreflight(t)
    BY <2>13, <2>1, <2>2
    DEF PasteHolds, SafeMomentSeen, clipboardVars, TypeOK, PastePreflight, Undo,
        Continue
  <2>14. CASE PasteReassess(t)
    BY <2>14, <2>1, <2>2
    DEF PasteHolds, SafeMomentSeen, clipboardVars, TypeOK, PasteReassess, Undo,
        Continue, AssessResult
  <2>15. CASE PasteDispatch(t)
    BY <2>15, <2>1, <2>2
    DEF PasteHolds, SafeMomentSeen, clipboardVars, TypeOK, PasteDispatch, Finish
  <2>16. CASE RestoreBack(t)
    <3>1. SafeMomentSeen'
      BY <2>16, <2>1, <2>2 DEF SafeMomentSeen, TypeOK, RestoreBack, Finish
    <3>2. PasteHolds'
      BY <2>16, <2>1, <2>2 DEF PasteHolds, TypeOK, RestoreBack, Finish
    <3> QED BY <2>16, <3>1, <3>2
  <2>17. CASE Acquire(t, "restore_wait", "restore") \/ Acquire(t, "discard_wait", "discard")
    BY <2>17, <2>1, <2>2
    DEF PasteHolds, SafeMomentSeen, clipboardVars, TypeOK, Acquire, Continue
  <2>18. CASE RestoreOriginal(t)
    <3>1. SafeMomentSeen'
      BY <2>18, <2>1, <2>2 DEF SafeMomentSeen, TypeOK, RestoreOriginal, Continue
    <3>2. PasteHolds'
      BY <2>18, <2>1, <2>2 DEF PasteHolds, TypeOK, RestoreOriginal, Continue
    <3> QED BY <2>18, <3>1, <3>2
  <2>19. CASE DiscardOriginal(t)
    <3>1. SafeMomentSeen'
      BY <2>19, <2>1, <2>2 DEF SafeMomentSeen, TypeOK, DiscardOriginal, Continue
    <3>2. PasteHolds'
      BY <2>19, <2>1, <2>2 DEF PasteHolds, TypeOK, DiscardOriginal, Continue
    <3> QED BY <2>19, <3>1, <3>2
  <2>20. CASE Release(t)
    BY <2>20, <2>1, <2>2
    DEF PasteHolds, SafeMomentSeen, clipboardVars, TypeOK, Release
  <2> QED
    BY <1>1, <2>3, <2>4, <2>5, <2>6, <2>7, <2>8, <2>9, <2>10, <2>11, <2>12, <2>13,
       <2>14, <2>15, <2>16, <2>17, <2>18, <2>19, <2>20
    DEF Start, Step
<1>2. CASE OtherProgram
  <2>1. \A t \in Threads : pc[t] \in PastePC => call[t].id \in retained
    BY DEF DeliveryOwns
  <2>2. PasteHolds'
    BY <1>2, <2>1
    DEF PasteHolds, SnapshotsCurrent, TypeOK, ClipboardTypeOK, Snapshot,
        OtherProgram, ExternalWrite
  <2> QED BY <1>2, <2>2 DEF SafeMomentSeen, OtherProgram
<1>3. CASE TargetMoves
  BY <1>3 DEF PasteHolds, SafeMomentSeen, clipboardVars, TargetMoves
<1>4. CASE UNCHANGED vars
  BY <1>4 DEF PasteHolds, SafeMomentSeen, clipboardVars, vars
<1> QED
  BY <1>1, <1>2, <1>3, <1>4 DEF Next
-----------------------------------------------------------------------------
LEMMA InvariantInit ==
  ASSUME Init
  PROVE  IInv
<1>1. TypeOK /\ CallsTyped
  BY TypeInit
<1>2. Reservation
  BY ServiceAssumption
  DEF Init, Reservation, LockHeld, DeliveryOwns, Ledger, HoldingPC,
      BeforeSnapshotPC, AfterSnapshotPC, DirectPC, PastePC
<1>3. Custody
  BY DEF Init, ClipboardInit, Custody, SnapshotsCurrent, CommitPrepared, UserDataSafe
<1>4. Reporting
  BY
  DEF Init, Reporting, OutcomeWhenKnown, OutcomeTellsRetention,
      DeliversRetainedText, DirectPC, PastePC
<1>5. MarkedOnceCommitted /\ Window
  BY DEF Init, MarkedOnceCommitted, Window, PasteHolds, SafeMomentSeen, PastePC
<1> QED BY <1>1, <1>2, <1>3, <1>4, <1>5 DEF IInv

LEMMA InvariantStep ==
  ASSUME IInv, [Next]_vars
  PROVE  IInv'
<1> USE DEF Reservation, Custody, Reporting, Window
<1>1. TypeOK' /\ CallsTyped'
  BY TypeStep DEF IInv
<1>2. Reservation'
  BY LockStep, OwnsStep DEF IInv
<1>3. Custody'
  BY CustodyStep DEF IInv
<1>4. Reporting'
  BY ReportingStep DEF IInv
<1>5. MarkedOnceCommitted'
  BY MarkedStep DEF IInv
<1>6. Window'
  BY WindowStep DEF IInv
<1> QED BY <1>1, <1>2, <1>3, <1>4, <1>5, <1>6 DEF IInv

(***************************************************************************)
(* The inductive invariant holds of every behaviour of the service.        *)
(***************************************************************************)
THEOREM Invariance == Spec => []IInv
<1>1. IInv /\ UNCHANGED vars => IInv'
  BY InvariantStep
<1> QED BY <1>1, InvariantInit, InvariantStep, PTL DEF Spec

(***************************************************************************)
(* The user's clipboard is never lost (service.py deliver, restore and     *)
(* discard, through every failure of the clipboard adapter).               *)
(***************************************************************************)
THEOREM UserDataIsSafe == Spec => []UserDataSafe
<1>1. IInv => UserDataSafe
  BY DEF IInv, Custody
<1> QED BY <1>1, Invariance, PTL

(***************************************************************************)
(* Nothing is undone after input was sent for the request.                 *)
(***************************************************************************)
THEOREM NothingUndoneAfterSend == Spec => []NoUndoAfterSend
<1>1. IInv => NoUndoAfterSend
  BY DEF IInv, Reservation, DeliveryOwns, NoUndoAfterSend, AfterSnapshotPC
<1> QED BY <1>1, Invariance, PTL

(***************************************************************************)
(* Outcomes tell of the snapshot retained for their request.               *)
(***************************************************************************)
THEOREM RetentionIsTold == Spec => []OutcomeTellsRetention
<1>1. IInv => OutcomeTellsRetention
  BY DEF IInv, Reporting
<1> QED BY <1>1, Invariance, PTL

(***************************************************************************)
(* The text delivered is the text retained, however calls with the same id *)
(* race for the delivery lock.                                             *)
(***************************************************************************)
THEOREM RetainedTextIsDelivered == Spec => []DeliversRetainedText
<1>1. IInv => DeliversRetainedText
  BY DEF IInv, Reporting
<1> QED BY <1>1, Invariance, PTL

(***************************************************************************)
(* Between calls a retained snapshot of a text that encodes can be         *)
(* restored.                                                               *)
(***************************************************************************)
THEOREM EncodableStaysRestorable == Spec => []EncodableIsRestorable
<1>1. IInv => EncodableIsRestorable
  BY ServiceAssumption
  DEF IInv, Reservation, LockHeld, MarkedOnceCommitted, EncodableIsRestorable,
      HoldingPC
<1> QED BY <1>1, Invariance, PTL

(***************************************************************************)
(* A paste that may have been queued finds the request's own text.         *)
(***************************************************************************)
THEOREM OwnTextIsPasted == Spec => PasteFindsOwnText
<1>1. IInv => [\A t \in Threads :
                  /\ pc[t] = "paste_dispatch"
                  /\ sends' # sends
                  => \/ clip = call[t].text
                     \/ foreign > snap[call[t].id].before]_vars
  BY DEF IInv, Window, PasteHolds, PastePC
<1> QED BY <1>1, Invariance, PTL DEF PasteFindsOwnText

(***************************************************************************)
(* Only the two dispatches send input, and what they send is the first     *)
(* batch of the request they deliver.                                      *)
(***************************************************************************)
LEMMA OnlyDispatchSends ==
  ASSUME TypeOK, [Next]_vars, sends' # sends
  PROVE  \E t \in Threads : DirectDispatch(t) \/ PasteDispatch(t)
<1> USE DEF history
<1>1. \A t \in Threads : Start(t) => sends' = sends
  BY DEF Start, Deliver, AskOriginal
<1>2. ASSUME NEW t \in Threads, Step(t)
      PROVE  DirectDispatch(t) \/ PasteDispatch(t)
  BY <1>2
  DEF Step, RejectBusy, Register, Assess, DirectPreflight, DirectReassess, Prepare,
      Commit, PastePreflight, PasteReassess, RestoreBack, Acquire, RestoreOriginal,
      DiscardOriginal, Release
<1>3. ~OtherProgram /\ ~TargetMoves /\ ~UNCHANGED vars
  BY DEF OtherProgram, TargetMoves, vars
<1> QED BY <1>1, <1>2, <1>3 DEF Next

(***************************************************************************)
(* The target was seen to be safe between the modifier wait and the input. *)
(***************************************************************************)
THEOREM SafeTargetIsSeen == Spec => SendSeesSafeTarget
<1>1. IInv /\ [Next]_vars => [sends' # sends => seenSafe]_vars
  BY OnlyDispatchSends
  DEF IInv, Window, SafeMomentSeen, DirectDispatch, PasteDispatch
<1> QED BY <1>1, Invariance, PTL DEF Spec, SendSeesSafeTarget
-----------------------------------------------------------------------------
(***************************************************************************)
(* Each step of the service is a step of the one-shot delivery, or none of *)
(* its variables change.                                                   *)
(***************************************************************************)
LEMMA OneShotStep ==
  ASSUME IInv, [Next]_vars
  PROVE  [OneShot!Next]_(OneShot!abstractVars)
<1> USE DEF Reservation, stores, history, OneShot!abstractVars, OneShot!Next
<1>1. ASSUME NEW t \in Threads, Start(t)
      PROVE  UNCHANGED OneShot!abstractVars
  BY <1>1 DEF Start, Deliver, AskOriginal
<1>2. ASSUME NEW t \in Threads, RejectBusy(t) \/ Register(t)
      PROVE  [OneShot!Next]_(OneShot!abstractVars)
  <2>1. call[t].id \in Ids
    BY <1>2 DEF IInv, CallsTyped, RejectBusy, Register
  <2>2. UNCHANGED <<sends, retained>>
    BY <1>2 DEF RejectBusy, Register
  <2>3. \/ UNCHANGED attempted
        \/ call[t].id \notin attempted /\ attempted' = attempted \cup {call[t].id}
    BY <1>2 DEF RejectBusy, Register, KeepText
  <2> QED BY <2>1, <2>2, <2>3 DEF OneShot!Attempt
<1>3. ASSUME NEW t \in Threads,
             \/ Assess(t) \/ DirectPreflight(t) \/ DirectReassess(t) \/ Commit(t)
             \/ PastePreflight(t) \/ PasteReassess(t) \/ Release(t)
             \/ Acquire(t, "restore_wait", "restore")
             \/ Acquire(t, "discard_wait", "discard")
      PROVE  UNCHANGED OneShot!abstractVars
  BY <1>3
  DEF Assess, DirectPreflight, DirectReassess, Commit, PastePreflight,
      PasteReassess, Release, Acquire
<1>4. ASSUME NEW t \in Threads, DirectDispatch(t) \/ PasteDispatch(t)
      PROVE  [OneShot!Next]_(OneShot!abstractVars)
  <2>1. /\ call[t].id \in attempted
        /\ call[t].id \in Ids
        /\ sends[call[t].id] = 0
        /\ retained \subseteq {call[t].id}
    BY <1>4
    DEF IInv, TypeOK, DeliveryOwns, DirectDispatch, PasteDispatch, BeforeSnapshotPC,
        AfterSnapshotPC, DirectPC, PastePC
  <2>2. UNCHANGED <<attempted, retained>>
    BY <1>4 DEF DirectDispatch, PasteDispatch
  <2>3. sends' = sends \/ sends' = [sends EXCEPT ![call[t].id] = 1]
    <3>1. ASSUME NEW sent, CountSend(t, sent)
          PROVE  sends' = sends \/ sends' = [sends EXCEPT ![call[t].id] = 1]
      BY <2>1, <3>1 DEF CountSend, IInv, TypeOK
    <3> QED BY <1>4, <3>1 DEF DirectDispatch, PasteDispatch
  <2> QED BY <2>1, <2>2, <2>3 DEF OneShot!Send
<1>5. ASSUME NEW t \in Threads, Prepare(t)
      PROVE  [OneShot!Next]_(OneShot!abstractVars)
  <2>1. /\ call[t].id \in attempted
        /\ call[t].id \in Ids
        /\ sends[call[t].id] = 0
        /\ retained = {}
    BY <1>5 DEF IInv, TypeOK, DeliveryOwns, Prepare, BeforeSnapshotPC
  <2> QED BY <1>5, <2>1 DEF Prepare, OneShot!Hold
<1>6. ASSUME NEW t \in Threads,
             RestoreBack(t) \/ RestoreOriginal(t) \/ DiscardOriginal(t)
      PROVE  [OneShot!Next]_(OneShot!abstractVars)
  <2>1. call[t].id \in Ids /\ (call[t].id \in retained => retained = {call[t].id})
    BY <1>6
    DEF IInv, CallsTyped, Ledger, RestoreBack, RestoreOriginal, DiscardOriginal
  <2>2. UNCHANGED <<attempted, sends>>
    BY <1>6 DEF RestoreBack, RestoreOriginal, DiscardOriginal
  <2>3. retained' = retained \/ retained' = retained \ {call[t].id}
    BY <1>6 DEF RestoreBack, RestoreOriginal, DiscardOriginal
  <2> QED BY <2>1, <2>2, <2>3 DEF OneShot!Resolve
<1>7. OtherProgram \/ TargetMoves \/ UNCHANGED vars => UNCHANGED OneShot!abstractVars
  BY DEF OtherProgram, TargetMoves, vars
<1> HIDE DEF Reservation, stores, history, OneShot!abstractVars, OneShot!Next
<1> QED BY <1>1, <1>2, <1>3, <1>4, <1>5, <1>6, <1>7 DEF Next, Step

(***************************************************************************)
(* The service implements the one-shot promise: a request is attempted and *)
(* its input sent at most once, and one original at most is held back,     *)
(* only for the request that may send.                                     *)
(***************************************************************************)
THEOREM ImplementsOneShot == Spec => OneShotSpec
<1>1. Init => OneShot!Init
  BY DEF Init, OneShot!Init
<1>2. IInv /\ [Next]_vars => [OneShot!Next]_(OneShot!abstractVars)
  BY OneShotStep
<1> QED BY <1>1, <1>2, Invariance, PTL DEF Spec, OneShotSpec, OneShot!Spec
=============================================================================
