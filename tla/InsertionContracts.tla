------------------------- MODULE InsertionContracts -------------------------
(***************************************************************************)
(* The values the parts of the insertion spike exchange (contracts.py).    *)
(* The four ways a target is refused (changed, unavailable, protected,     *)
(* elevated) are one value here: no caller tells them apart.  "ok" is      *)
(* Python's None code; "raised" is a BaseException that leaves a call.     *)
(***************************************************************************)

InsertionMethod == {"auto", "paste", "direct"}

OutcomeCode ==
  {"dispatched", "direct_dispatched", "cancelled", "busy", "already_delivered",
   "target_rejected", "clipboard_unsafe", "clipboard_failed", "dispatch_failed",
   "cleanup_failed", "restore_failed", "boundary_failure"}

(***************************************************************************)
(* What one call of dispatch_paste or dispatch_unicode may come to: its    *)
(* code, whether SendInput was called for the batch, and whether the       *)
(* injector is poisoned afterwards.  InputInjector shows that the Windows  *)
(* injector keeps this contract; InsertionService relies on it.            *)
(***************************************************************************)
DispatchResult ==
  [code : {"ok", "dispatch_failed", "cleanup_failed", "raised"},
   sent : BOOLEAN, poisons : BOOLEAN]

DispatchContract(poisoned) ==
  { r \in DispatchResult :
      /\ r.code = "ok" => r.sent /\ ~r.poisons
      /\ r.code = "dispatch_failed" => ~r.poisons
      /\ r.code = "cleanup_failed" => r.poisons /\ (r.sent \/ poisoned)
      /\ r.code = "raised" => (r.sent <=> r.poisons)
      /\ poisoned => ~r.sent /\ r.code = "cleanup_failed" }
=============================================================================
