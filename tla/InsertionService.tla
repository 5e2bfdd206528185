-------------------------- MODULE InsertionService --------------------------
(***************************************************************************)
(* InsertionService (service.py): threads deliver requests, restore or     *)
(* discard the original clipboard, over the Windows clipboard adapter, the *)
(* input injector and the target adapter.                                  *)
(*                                                                         *)
(* deliver takes the delivery lock without waiting, the explicit restore   *)
(* and discard wait for it.  Each section under the state lock reads and   *)
(* writes in one step, so that lock needs no variable.  A step ends where  *)
(* another thread, another program or the target can do something that     *)
(* this thread would notice.                                               *)
(***************************************************************************)
EXTENDS WindowsClipboard, InsertionContracts

CONSTANTS
  Threads,   \* threads that call the service
  NoThread,  \* the delivery lock is free
  NoCall,    \* what an idle thread works on
  MaxCalls   \* bound on the calls made to the service

ASSUME ServiceAssumption ==
  /\ NoThread \notin Threads
  /\ MaxCalls \in Nat

VARIABLES
  lock,        \* _delivery_lock: its holder or NoThread
  attempted,   \* _attempted_request_ids
  results,     \* _retained_results: the set of texts held for an id
  retained,    \* keys of _retained_snapshots
  poisoned,    \* the injector's _cleanup_failed
  targetSafe,  \* whether assess would find the captured target safe now
  pc,          \* where each thread is
  call,        \* the request, or the id to restore, each thread works on
  code,        \* the outcome code of the call, once known
  kept,        \* original_snapshot_retained of the outcome
  calls,       \* calls made so far
  sends,       \* history: batches handed to SendInput for each id
  begun,       \* history: ids whose delivery got past its registration
  seenSafe     \* history: the target was safe since the modifier preflight

stores == <<attempted, results>>
local == <<pc, call, code, kept>>
history == <<sends, begun, seenSafe>>
vars == <<clipboardVars, lock, stores, retained, poisoned, targetSafe, local,
          calls, history>>

Request == [id : Ids, text : Texts, method : InsertionMethod]
Call == Request \cup [id : Ids]

(***************************************************************************)
(* The program counters.  From "register" to "release" a thread holds the  *)
(* delivery lock.                                                          *)
(***************************************************************************)
DirectPC == {"direct_preflight", "direct_reassess", "direct_dispatch"}
PastePC == {"paste_preflight", "paste_reassess", "paste_dispatch"}
HoldingPC == {"register", "assess", "prepare", "commit", "restore_back",
              "restore", "discard", "release"} \cup DirectPC \cup PastePC
PC == {"idle", "busy", "restore_wait", "discard_wait"} \cup HoldingPC

Init ==
  /\ ClipboardInit
  /\ lock = NoThread
  /\ attempted = {}
  /\ results = [id \in Ids |-> {}]
  /\ retained = {}
  /\ poisoned = FALSE
  /\ targetSafe = TRUE
  /\ pc = [t \in Threads |-> "idle"]
  /\ call = [t \in Threads |-> NoCall]
  /\ code = [t \in Threads |-> "ok"]
  /\ kept = [t \in Threads |-> FALSE]
  /\ calls = 0
  /\ sends = [id \in Ids |-> 0]
  /\ begun = {}
  /\ seenSafe = FALSE

Goto(t, to) == pc' = [pc EXCEPT ![t] = to]

(***************************************************************************)
(* return self._finish(...): the outcome is known, the lock still held.    *)
(***************************************************************************)
Finish(t, outcome, snapshotKept) ==
  /\ Goto(t, "release")
  /\ code' = [code EXCEPT ![t] = outcome]
  /\ kept' = [kept EXCEPT ![t] = snapshotKept]
  /\ UNCHANGED call

Continue(t, to) ==
  /\ Goto(t, to)
  /\ UNCHANGED <<call, code, kept>>

-----------------------------------------------------------------------------
(***************************************************************************)
(* deliver: try the lock.  Without it the id is marked as attempted and    *)
(* its text kept, unless another call did so before, and the call is busy. *)
(***************************************************************************)
Deliver(t, request) ==
  /\ pc[t] = "idle"
  /\ calls < MaxCalls
  /\ calls' = calls + 1
  /\ IF lock = NoThread
       THEN Goto(t, "register") /\ lock' = t
       ELSE Goto(t, "busy") /\ UNCHANGED lock
  /\ call' = [call EXCEPT ![t] = request]
  /\ UNCHANGED <<clipboardVars, stores, retained, poisoned, targetSafe, code,
                 kept, history>>

\* Mutant: the request itself, not its id, is marked as attempted.
KeepTextMarksRequest(t) ==
  /\ results' = [results EXCEPT ![call[t].id] = {call[t].text}]
  /\ attempted' = attempted \cup {call[t]}

KeepText(t) ==
  /\ results' = [results EXCEPT ![call[t].id] = {call[t].text}]
  /\ attempted' = attempted \cup {call[t].id}

\* Mutant: a busy call keeps its text even if the id was attempted before.
RejectBusyOverwrites(t) ==
  /\ pc[t] = "busy"
  /\ Goto(t, "idle")
  /\ call' = [call EXCEPT ![t] = NoCall]
  /\ KeepText(t)
  /\ UNCHANGED <<clipboardVars, lock, retained, poisoned, targetSafe, code, kept,
                 calls, history>>

RejectBusy(t) ==
  /\ pc[t] = "busy"
  /\ Goto(t, "idle")
  /\ call' = [call EXCEPT ![t] = NoCall]
  /\ IF call[t].id \in attempted THEN UNCHANGED stores ELSE KeepText(t)
  /\ UNCHANGED <<clipboardVars, lock, retained, poisoned, targetSafe, code, kept,
                 calls, history>>

\* Mutant: a pending restoration of another request is not looked for.
RegisterDespitePending(t) ==
  /\ pc[t] = "register"
  /\ \/ /\ call[t].id \in attempted
        /\ Finish(t, "already_delivered", FALSE)
        /\ UNCHANGED <<stores, begun>>
     \/ /\ call[t].id \notin attempted
        /\ KeepText(t)
        /\ Continue(t, "assess")
        /\ begun' = begun \cup {call[t].id}
  /\ UNCHANGED <<clipboardVars, lock, retained, poisoned, targetSafe, calls,
                 sends, seenSafe>>

Register(t) ==
  /\ pc[t] = "register"
  /\ \/ /\ call[t].id \in attempted
        /\ Finish(t, "already_delivered", FALSE)
        /\ UNCHANGED <<stores, begun>>
     \/ /\ call[t].id \notin attempted
        /\ KeepText(t)
        /\ IF retained # {}
             THEN Finish(t, "busy", FALSE) /\ UNCHANGED begun
             ELSE \/ Finish(t, "cancelled", FALSE) /\ UNCHANGED begun
                  \/ /\ Continue(t, "assess")
                     /\ begun' = begun \cup {call[t].id}
  /\ UNCHANGED <<clipboardVars, lock, retained, poisoned, targetSafe, calls,
                 sends, seenSafe>>

(***************************************************************************)
(* What assess(captured_target) may come to: "ok" only for a safe target,  *)
(* a refusal (a probe may be unavailable for a safe one too), an Exception *)
(* turned into boundary_failure, or an interrupt that passes through.      *)
(***************************************************************************)
AssessResult ==
  {"target_rejected", "boundary_failure", "raised"}
    \cup (IF targetSafe THEN {"ok"} ELSE {})

Assess(t) ==
  /\ pc[t] = "assess"
  /\ \E result \in AssessResult :
       IF result = "ok"
         THEN Continue(t, IF call[t].method = "direct" THEN "direct_preflight"
                                                       ELSE "prepare")
         ELSE Finish(t, result, FALSE)
  /\ UNCHANGED <<clipboardVars, lock, stores, retained, poisoned, targetSafe,
                 calls, history>>

-----------------------------------------------------------------------------
(***************************************************************************)
(* prepare_dispatch waits for the physical modifiers.  A poisoned injector *)
(* refuses; a modifier held too long or an Exception also gives FALSE.     *)
(***************************************************************************)
PreflightResult ==
  {"refused", "raised"} \cup (IF poisoned THEN {} ELSE {"ok"})

DirectPreflight(t) ==
  /\ pc[t] = "direct_preflight"
  /\ \E result \in PreflightResult :
       \/ /\ result = "ok"
          /\ Continue(t, "direct_reassess")
          /\ seenSafe' = targetSafe
       \/ /\ result = "refused"
          /\ Finish(t, "dispatch_failed", FALSE)
          /\ UNCHANGED seenSafe
       \/ /\ result = "raised"
          /\ Finish(t, "raised", FALSE)
          /\ UNCHANGED seenSafe
  /\ UNCHANGED <<clipboardVars, lock, stores, retained, poisoned, targetSafe,
                 calls, sends, begun>>

DirectReassess(t) ==
  /\ pc[t] = "direct_reassess"
  /\ \E result \in AssessResult :
       IF result = "ok"
         THEN Continue(t, "direct_dispatch")
         ELSE Finish(t, result, FALSE)
  /\ UNCHANGED <<clipboardVars, lock, stores, retained, poisoned, targetSafe,
                 calls, history>>

CountSend(t, sent) ==
  sends' = IF sent THEN [sends EXCEPT ![call[t].id] = @ + 1] ELSE sends

(***************************************************************************)
(* dispatch_unicode encodes the text first: one that does not encode is an *)
(* Exception, which _safe_dispatch turns into dispatch_failed.             *)
(***************************************************************************)
DirectDispatch(t) ==
  /\ pc[t] = "direct_dispatch"
  /\ \/ /\ call[t].text \in Unencodable
        /\ Finish(t, "dispatch_failed", FALSE)
        /\ UNCHANGED <<poisoned, sends>>
     \/ /\ call[t].text \notin Unencodable
        /\ \E r \in DispatchContract(poisoned) :
             /\ Finish(t, IF r.code = "ok" THEN "direct_dispatched" ELSE r.code,
                       FALSE)
             /\ poisoned' = r.poisons
             /\ CountSend(t, r.sent)
  /\ UNCHANGED <<clipboardVars, lock, stores, retained, targetSafe, calls,
                 begun, seenSafe>>

-----------------------------------------------------------------------------
(***************************************************************************)
(* _dispatch_with_clipboard: the snapshot is retained before the clipboard *)
(* is touched.  An interrupt in prepare leaves deliver, with nothing       *)
(* retained, and so does any other exception, which an adapter may raise   *)
(* (the Windows one calls the clipboard unsafe instead); an unsafe         *)
(* clipboard means direct input in auto mode only.                         *)
(***************************************************************************)
Prepare(t) ==
  /\ pc[t] = "prepare"
  /\ \/ /\ PrepareSafe(call[t].id)
        /\ retained' = retained \cup {call[t].id}
        /\ Continue(t, "commit")
     \/ /\ PrepareUnsafe
        /\ UNCHANGED retained
        /\ IF call[t].method = "auto"
             THEN Continue(t, "direct_preflight")
             ELSE Finish(t, "clipboard_unsafe", FALSE)
     \/ /\ \E outcome \in {"raised", "clipboard_failed"} : Finish(t, outcome, FALSE)
        /\ UNCHANGED <<clipboardVars, retained>>
  /\ UNCHANGED <<lock, stores, poisoned, targetSafe, calls, history>>

(***************************************************************************)
(* A failure after the snapshot was retained and before input was sent     *)
(* undoes the mutation; code holds what deliver will then report.          *)
(***************************************************************************)
Undo(t, outcome) ==
  /\ Goto(t, "restore_back")
  /\ code' = [code EXCEPT ![t] = outcome]
  /\ UNCHANGED <<call, kept>>

Commit(t) ==
  /\ pc[t] = "commit"
  /\ \/ CommitOk(call[t].text) /\ Continue(t, "paste_preflight")
     \/ CommitRaises(call[t].text) /\ Undo(t, "clipboard_failed")
  /\ UNCHANGED <<lock, stores, retained, poisoned, targetSafe, calls, history>>

PastePreflight(t) ==
  /\ pc[t] = "paste_preflight"
  /\ \E result \in PreflightResult :
       \/ /\ result = "ok"
          /\ Continue(t, "paste_reassess")
          /\ seenSafe' = targetSafe
       \/ /\ result = "refused"
          /\ Undo(t, "dispatch_failed")
          /\ UNCHANGED seenSafe
       \/ /\ result = "raised"
          /\ Undo(t, "cancelled")
          /\ UNCHANGED seenSafe
  /\ UNCHANGED <<clipboardVars, lock, stores, retained, poisoned, targetSafe,
                 calls, sends, begun>>

\* Mutant: no final assessment after the wait for the modifiers.
PasteReassessSkipped(t) ==
  /\ pc[t] = "paste_reassess"
  /\ Continue(t, "paste_dispatch")
  /\ UNCHANGED <<clipboardVars, lock, stores, retained, poisoned, targetSafe,
                 calls, history>>

PasteReassess(t) ==
  /\ pc[t] = "paste_reassess"
  /\ \E result \in AssessResult :
       CASE result = "ok" -> Continue(t, "paste_dispatch")
         [] result = "raised" -> Undo(t, "cancelled")
         [] OTHER -> Undo(t, result)
  /\ UNCHANGED <<clipboardVars, lock, stores, retained, poisoned, targetSafe,
                 calls, history>>

\* Mutant: a paste the injector reports as failed is undone at once.
PasteDispatchUndone(t) ==
  /\ pc[t] = "paste_dispatch"
  /\ \E r \in DispatchContract(poisoned) :
       /\ IF r.code = "ok" THEN Finish(t, "dispatched", TRUE)
                           ELSE Undo(t, "dispatch_failed")
       /\ poisoned' = r.poisons
       /\ CountSend(t, r.sent)
  /\ UNCHANGED <<clipboardVars, lock, stores, retained, targetSafe, calls,
                 begun, seenSafe>>

(***************************************************************************)
(* Once Ctrl+V may have been queued the snapshot stays, whatever the       *)
(* injector reports and even if it was interrupted.                        *)
(***************************************************************************)
PasteDispatch(t) ==
  /\ pc[t] = "paste_dispatch"
  /\ \E r \in DispatchContract(poisoned) :
       /\ Finish(t, CASE r.code = "ok" -> "dispatched"
                      [] r.code = "raised" -> "dispatch_failed"
                      [] OTHER -> r.code, TRUE)
       /\ poisoned' = r.poisons
       /\ CountSend(t, r.sent)
  /\ UNCHANGED <<clipboardVars, lock, stores, retained, targetSafe, calls,
                 begun, seenSafe>>

\* Mutant: a failed restore is reported without telling of the snapshot.
RestoreBackSilent(t) ==
  LET id == call[t].id IN
  /\ pc[t] = "restore_back"
  /\ \/ /\ RestoreDone(id) \/ RestoreForeign(id)
        /\ retained' = retained \ {id}
        /\ Finish(t, code[t], FALSE)
     \/ /\ RestoreRaises(id)
        /\ UNCHANGED retained
        /\ Finish(t, "restore_failed", FALSE)
  /\ UNCHANGED <<lock, stores, poisoned, targetSafe, calls, history>>

(***************************************************************************)
(* _restore_after_dispatch.  A restore the adapter refuses or fails keeps  *)
(* the snapshot and turns the outcome into restore_failed.                 *)
(***************************************************************************)
RestoreBack(t) ==
  LET id == call[t].id IN
  /\ pc[t] = "restore_back"
  /\ \/ /\ RestoreDone(id) \/ RestoreForeign(id)
        /\ retained' = retained \ {id}
        /\ Finish(t, code[t], FALSE)
     \/ /\ RestoreRaises(id)
        /\ UNCHANGED retained
        /\ Finish(t, "restore_failed", TRUE)
  /\ UNCHANGED <<lock, stores, poisoned, targetSafe, calls, history>>

-----------------------------------------------------------------------------
(***************************************************************************)
(* restore_original and discard_original wait for the delivery lock, look  *)
(* the snapshot up and drop it unless the adapter raised.                  *)
(***************************************************************************)
AskOriginal(t, id, wait) ==
  /\ pc[t] = "idle"
  /\ calls < MaxCalls
  /\ calls' = calls + 1
  /\ Goto(t, wait)
  /\ call' = [call EXCEPT ![t] = [id |-> id]]
  /\ UNCHANGED <<clipboardVars, lock, stores, retained, poisoned, targetSafe,
                 code, kept, history>>

\* Mutant: the explicit operations do not take the delivery lock.
AcquireNothing(t, wait, held) ==
  /\ pc[t] = wait
  /\ Continue(t, held)
  /\ UNCHANGED <<clipboardVars, lock, stores, retained, poisoned, targetSafe,
                 calls, history>>

Acquire(t, wait, held) ==
  /\ pc[t] = wait
  /\ lock = NoThread
  /\ lock' = t
  /\ Continue(t, held)
  /\ UNCHANGED <<clipboardVars, stores, retained, poisoned, targetSafe, calls,
                 history>>

RestoreOriginal(t) ==
  LET id == call[t].id IN
  /\ pc[t] = "restore"
  /\ \/ id \notin retained /\ UNCHANGED <<clipboardVars, retained>>
     \/ /\ id \in retained
        /\ RestoreDone(id) \/ RestoreForeign(id)
        /\ retained' = retained \ {id}
     \/ /\ id \in retained
        /\ RestoreRaises(id)
        /\ UNCHANGED retained
  /\ Continue(t, "release")
  /\ UNCHANGED <<lock, stores, poisoned, targetSafe, calls, history>>

DiscardOriginal(t) ==
  LET id == call[t].id IN
  /\ pc[t] = "discard"
  /\ \/ UNCHANGED <<clipboardVars, retained>>   \* nothing retained, or discard raised
     \/ /\ id \in retained
        /\ Discard(id)
        /\ retained' = retained \ {id}
  /\ Continue(t, "release")
  /\ UNCHANGED <<lock, stores, poisoned, targetSafe, calls, history>>

\* Mutant: a call that ends by an exception does not release the lock.
ReleaseUnlessRaised(t) ==
  /\ pc[t] = "release"
  /\ Goto(t, "idle")
  /\ lock' = IF code[t] = "raised" THEN lock ELSE NoThread
  /\ call' = [call EXCEPT ![t] = NoCall]
  /\ code' = [code EXCEPT ![t] = "ok"]
  /\ kept' = [kept EXCEPT ![t] = FALSE]
  /\ UNCHANGED <<clipboardVars, stores, retained, poisoned, targetSafe, calls,
                 history>>

Release(t) ==
  /\ pc[t] = "release"
  /\ Goto(t, "idle")
  /\ lock' = NoThread
  /\ call' = [call EXCEPT ![t] = NoCall]
  /\ code' = [code EXCEPT ![t] = "ok"]
  /\ kept' = [kept EXCEPT ![t] = FALSE]
  /\ UNCHANGED <<clipboardVars, stores, retained, poisoned, targetSafe, calls,
                 history>>

-----------------------------------------------------------------------------
(***************************************************************************)
(* What happens outside: another program writes the clipboard, the user    *)
(* changes the focused control or the control changes its nature.          *)
(***************************************************************************)
OtherProgram ==
  /\ ExternalWrite
  /\ UNCHANGED <<lock, stores, retained, poisoned, targetSafe, local, calls,
                 history>>

TargetMoves ==
  /\ targetSafe' = ~targetSafe
  /\ seenSafe' = (seenSafe \/ targetSafe')
  /\ UNCHANGED <<clipboardVars, lock, stores, retained, poisoned, local, calls,
                 sends, begun>>

Start(t) ==
  \/ \E request \in Request : Deliver(t, request)
  \/ \E id \in Ids : AskOriginal(t, id, "restore_wait")
  \/ \E id \in Ids : AskOriginal(t, id, "discard_wait")

Step(t) ==
  \/ RejectBusy(t)
  \/ Register(t)
  \/ Assess(t)
  \/ DirectPreflight(t)
  \/ DirectReassess(t)
  \/ DirectDispatch(t)
  \/ Prepare(t)
  \/ Commit(t)
  \/ PastePreflight(t)
  \/ PasteReassess(t)
  \/ PasteDispatch(t)
  \/ RestoreBack(t)
  \/ Acquire(t, "restore_wait", "restore")
  \/ Acquire(t, "discard_wait", "discard")
  \/ RestoreOriginal(t)
  \/ DiscardOriginal(t)
  \/ Release(t)

Next ==
  \/ \E t \in Threads : Start(t) \/ Step(t)
  \/ OtherProgram
  \/ TargetMoves

Spec == Init /\ [][Next]_vars

(***************************************************************************)
(* A thread inside the service runs on (the operating system schedules it, *)
(* every adapter call is bounded); nobody has to make another call.        *)
(***************************************************************************)
FairSpec == Spec /\ \A t \in Threads : WF_vars(Step(t))
-----------------------------------------------------------------------------
(***************************************************************************)
(* Types of the variables; the delivery lock and the program counters      *)
(* agree, which is what makes the rest of this module sequential.          *)
(***************************************************************************)
TypeOK ==
  /\ ClipboardTypeOK
  /\ lock \in Threads \cup {NoThread}
  /\ attempted \subseteq Ids
  /\ results \in [Ids -> SUBSET Texts]
  /\ retained \subseteq Ids
  /\ poisoned \in BOOLEAN
  /\ targetSafe \in BOOLEAN
  /\ pc \in [Threads -> PC]
  /\ call \in [Threads -> Call \cup {NoCall}]
  /\ code \in [Threads -> OutcomeCode \cup {"ok", "raised"}]
  /\ kept \in [Threads -> BOOLEAN]
  /\ calls \in Nat
  /\ sends \in [Ids -> Nat]
  /\ begun \subseteq Ids
  /\ seenSafe \in BOOLEAN

(***************************************************************************)
(* The user's clipboard is never lost: what the user last put there, or    *)
(* last agreed to keep, is on the clipboard, or a retained snapshot holds  *)
(* it and the adapter would still put it back (nothing newer would be      *)
(* overwritten).  Holds through torn writes, interrupts and foreign        *)
(* writes between any two adapter calls.                                   *)
(***************************************************************************)
UserDataSafe ==
  \/ clip = user
  \/ \E id \in retained : snap[id].orig = user /\ snap[id].mut = seq

(***************************************************************************)
(* A Ctrl+V that may have been queued finds the request's own text: when   *)
(* the paste batch is sent the clipboard still holds it, unless another    *)
(* program wrote after the snapshot was taken.  An explicit restore or     *)
(* discard by another thread cannot slip in between.                       *)
(***************************************************************************)
PasteFindsOwnText ==
  [][\A t \in Threads :
       /\ pc[t] = "paste_dispatch"
       /\ sends' # sends
       => \/ clip = call[t].text
          \/ foreign > snap[call[t].id].before]_vars

(***************************************************************************)
(* deliver never puts the original back once input was sent for the        *)
(* request: queueing Ctrl+V does not prove that the target consumed it.    *)
(***************************************************************************)
NoUndoAfterSend ==
  \A t \in Threads :
    pc[t] = "restore_back" => sends[call[t].id] = 0

(***************************************************************************)
(* Input is sent only if the captured target was safe at some moment after *)
(* the wait for the modifiers ended: the wait is not part of the window    *)
(* between the last check and the input.                                   *)
(***************************************************************************)
SendSeesSafeTarget ==
  [][sends' # sends => seenSafe]_vars

(***************************************************************************)
(* An outcome of deliver says original_snapshot_retained exactly when a    *)
(* snapshot is retained for its request, also when an exception leaves     *)
(* deliver.  The command line asks the operator only when told so.  Calls  *)
(* that found the id attempted before say nothing about the first call.    *)
(***************************************************************************)
OutcomeTellsRetention ==
  \A t \in Threads :
    /\ pc[t] = "release"
    /\ code[t] \notin {"ok", "already_delivered"}
    => (kept[t] <=> call[t].id \in retained)

(***************************************************************************)
(* The text delivered is the text retained for the request, even when      *)
(* calls with the same id and other texts race for the lock.               *)
(***************************************************************************)
DeliversRetainedText ==
  \A t \in Threads :
    pc[t] \in {"assess", "prepare", "commit", "restore_back"}
              \cup DirectPC \cup PastePC
    => results[call[t].id] = {call[t].text}

(***************************************************************************)
(* Between calls every retained snapshot can still be restored: the        *)
(* adapter would not refuse it as one that nothing was written for.        *)
(***************************************************************************)
RetainedIsRestorable ==
  lock = NoThread => \A id \in retained : snap[id].mut # NoSeq

(***************************************************************************)
(* The same where the code does keep it: for texts that encode, through    *)
(* locked clipboards, refused and torn writes, and failed restores.        *)
(***************************************************************************)
EncodableIsRestorable ==
  lock = NoThread =>
    \A id \in retained :
      results[id] \cap Unencodable = {} => snap[id].mut # NoSeq

(***************************************************************************)
(* already_delivered is only said of a request that some call began to     *)
(* deliver.                                                                *)
(***************************************************************************)
AlreadyDeliveredWasBegun ==
  \A t \in Threads :
    pc[t] = "release" /\ code[t] = "already_delivered" => call[t].id \in begun

(***************************************************************************)
(* Every call of the service returns: a wait for the delivery lock ends,   *)
(* whatever the adapters raise while another thread holds it.              *)
(***************************************************************************)
EveryCallReturns ==
  \A t \in Threads : pc[t] # "idle" ~> pc[t] = "idle"

(***************************************************************************)
(* The service implements the one-shot delivery promise.                   *)
(***************************************************************************)
OneShot == INSTANCE OneShotDelivery WITH pending <- retained
OneShotSpec == OneShot!Spec
=============================================================================
