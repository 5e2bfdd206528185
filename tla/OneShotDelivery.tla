--------------------------- MODULE OneShotDelivery ---------------------------
(***************************************************************************)
(* What the insertion service promises, without threads, locks or a        *)
(* clipboard: a request is attempted at most once, its input is sent at    *)
(* most once, one original clipboard at most is held back at a time, and   *)
(* while one is held for a request no other request sends input.           *)
(***************************************************************************)
EXTENDS Naturals

CONSTANT Ids

VARIABLES
  attempted,  \* requests that may not be tried again
  sends,      \* batches of input sent for each request
  pending     \* requests whose original clipboard is held back

abstractVars == <<attempted, sends, pending>>

Init ==
  /\ attempted = {}
  /\ sends = [id \in Ids |-> 0]
  /\ pending = {}

Attempt(id) ==
  /\ id \notin attempted
  /\ attempted' = attempted \cup {id}
  /\ UNCHANGED <<sends, pending>>

Hold(id) ==
  /\ id \in attempted
  /\ pending = {}
  /\ sends[id] = 0
  /\ pending' = {id}
  /\ UNCHANGED <<attempted, sends>>

Send(id) ==
  /\ id \in attempted
  /\ sends[id] = 0
  /\ pending \subseteq {id}
  /\ sends' = [sends EXCEPT ![id] = 1]
  /\ UNCHANGED <<attempted, pending>>

Resolve(id) ==
  /\ pending = {id}
  /\ pending' = {}
  /\ UNCHANGED <<attempted, sends>>

Next == \E id \in Ids : Attempt(id) \/ Hold(id) \/ Send(id) \/ Resolve(id)

Spec == Init /\ [][Next]_abstractVars
=============================================================================
