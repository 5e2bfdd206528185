-------------------------- MODULE WindowsClipboard --------------------------
(***************************************************************************)
(* The Windows clipboard and the adapter that borrows it for one paste.    *)
(* Other programs write the clipboard whenever the adapter does not hold   *)
(* it open, so each adapter call is one step: OpenClipboard excludes the   *)
(* others from its first read to its last write.  The sequence number of   *)
(* the clipboard grows with every change, and the adapter owns what is     *)
(* there while the number is the one it saw after its own write.           *)
(***************************************************************************)
EXTENDS Integers

CONSTANTS
  Ids,          \* request ids; a request prepares the clipboard at most once
  Texts,        \* texts a request asks to insert
  Unencodable,  \* texts that do not encode to UTF-16 (lone surrogates)
  Payloads,     \* contents other programs put on the clipboard
  Opaque,       \* those of them with a format that cannot be cloned
  Torn,         \* what a failed replacement leaves behind
  NoId,         \* Python's None for _prepared_state
  MaxSeq,       \* bound: other programs write while the sequence is below it
  MaxFaults     \* bound on failing clipboard API calls

ASSUME ClipboardAssumption ==
  /\ Unencodable \subseteq Texts
  /\ Opaque \subseteq Payloads
  /\ Opaque \cap (Texts \cup {Torn}) = {}
  /\ Texts \cap Payloads = {}
  /\ Torn \notin Texts \cup Payloads
  /\ NoId \notin Ids
  /\ MaxSeq \in Nat
  /\ MaxFaults \in Nat

NoSeq == -1     \* mutation_sequence is None: nothing was written yet

Items == Payloads \cup Texts \cup {Torn}

Snapshot == [orig : Items, before : Nat, mut : Nat \cup {NoSeq}]

VARIABLES
  clip,       \* what the clipboard holds
  seq,        \* GetClipboardSequenceNumber
  prepared,   \* the adapter's _prepared_state, by the request it belongs to
  snap,       \* the WindowsClipboardState objects, by request
  faults,     \* failing API calls so far
  user,       \* history: the content the user counts on finding there
  foreign     \* history: the sequence number of the last foreign write

clipboardVars == <<clip, seq, prepared, snap, faults, user, foreign>>

ClipboardTypeOK ==
  /\ clip \in Items
  /\ seq \in Nat
  /\ prepared \in Ids \cup {NoId}
  /\ snap \in [Ids -> Snapshot]
  /\ faults \in 0..MaxFaults
  /\ user \in Items
  /\ foreign \in Nat

ClipboardInit ==
  /\ clip \in Payloads
  /\ seq = 0
  /\ prepared = NoId
  /\ snap = [id \in Ids |-> [orig |-> Torn, before |-> 0, mut |-> NoSeq]]
  /\ faults = 0
  /\ user = clip
  /\ foreign = 0

(***************************************************************************)
(* Another program, or the user in it, replaces the clipboard's content.   *)
(***************************************************************************)
ExternalWrite ==
  /\ seq < MaxSeq
  /\ \E p \in Payloads \ {clip} : clip' = p /\ user' = p
  /\ seq' = seq + 1
  /\ foreign' = seq + 1
  /\ UNCHANGED <<prepared, snap, faults>>

Fault ==
  /\ faults < MaxFaults
  /\ faults' = faults + 1

(***************************************************************************)
(* prepare(): clone every format, or report the clipboard unsafe because   *)
(* a format cannot be cloned, the clipboard stays locked or a read fails.  *)
(***************************************************************************)
PrepareSafe(id) ==
  /\ clip \notin Opaque
  /\ snap' = [snap EXCEPT ![id] = [orig |-> clip, before |-> seq, mut |-> NoSeq]]
  /\ prepared' = id
  /\ UNCHANGED <<clip, seq, faults, user, foreign>>

PrepareUnsafe ==
  /\ \/ clip \in Opaque /\ UNCHANGED faults
     \/ Fault
  /\ UNCHANGED <<clip, seq, prepared, snap, user, foreign>>

(***************************************************************************)
(* commit_mutation(text).  The text is encoded before anything else.  From *)
(* then on mutation_sequence is set, first to the number seen by prepare   *)
(* and, once the clipboard is open, to the number after the replacement,   *)
(* whether the replacement succeeded, changed nothing or tore the content. *)
(* This takes it that no KeyboardInterrupt falls between a replacement and *)
(* the assignment after it, which would lose the marker; the command line  *)
(* defers SIGINT meanwhile.                                                *)
(***************************************************************************)
CommitOk(text) ==
  /\ prepared # NoId
  /\ text \notin Unencodable
  /\ seq = snap[prepared].before
  /\ clip' = text
  /\ seq' = seq + 1
  /\ snap' = [snap EXCEPT ![prepared].mut = seq + 1]
  /\ UNCHANGED <<prepared, faults, user, foreign>>

CommitRefused(text) ==
  /\ prepared = NoId \/ text \in Unencodable
  /\ UNCHANGED clipboardVars

\* Mutant: the ownership marker is only set after a replacement.
CommitUntouchedUnmarked(text) ==
  /\ prepared # NoId
  /\ text \notin Unencodable
  /\ \/ seq # snap[prepared].before /\ UNCHANGED faults
     \/ Fault
  /\ UNCHANGED <<clip, seq, prepared, snap, user, foreign>>

CommitUntouched(text) ==
  /\ prepared # NoId
  /\ text \notin Unencodable
  /\ \/ seq # snap[prepared].before /\ UNCHANGED faults
     \/ Fault
  /\ snap' = [snap EXCEPT ![prepared].mut = snap[prepared].before]
  /\ UNCHANGED <<clip, seq, prepared, user, foreign>>

CommitTorn(text) ==
  /\ prepared # NoId
  /\ text \notin Unencodable
  /\ seq = snap[prepared].before
  /\ Fault
  /\ clip' = Torn
  /\ seq' = seq + 1
  /\ snap' = [snap EXCEPT ![prepared].mut = seq + 1]
  /\ UNCHANGED <<prepared, user, foreign>>

CommitRaises(text) ==
  CommitRefused(text) \/ CommitUntouched(text) \/ CommitTorn(text)

\* Mutant: the original is put back whatever is on the clipboard by now.
RestoreDoneBlindly(id) ==
  /\ snap[id].mut # NoSeq
  /\ clip' = snap[id].orig
  /\ seq' = seq + 1
  /\ prepared' = NoId
  /\ UNCHANGED <<snap, faults, user, foreign>>

(***************************************************************************)
(* restore(snapshot): refuse a snapshot nothing was written for, leave a   *)
(* newer foreign change alone, or put the original back; a torn            *)
(* replacement stays the adapter's own, so that it can be retried.  Again  *)
(* no KeyboardInterrupt falls between the replacement and the new marker.  *)
(***************************************************************************)
RestoreDone(id) ==
  /\ snap[id].mut # NoSeq
  /\ seq = snap[id].mut
  /\ clip' = snap[id].orig
  /\ seq' = seq + 1
  /\ prepared' = NoId
  /\ UNCHANGED <<snap, faults, user, foreign>>

RestoreForeign(id) ==
  /\ snap[id].mut # NoSeq
  /\ seq # snap[id].mut
  /\ prepared' = NoId
  /\ UNCHANGED <<clip, seq, snap, faults, user, foreign>>

RestoreInvalid(id) ==
  /\ snap[id].mut = NoSeq
  /\ UNCHANGED clipboardVars

RestoreUntouched(id) ==
  /\ snap[id].mut # NoSeq
  /\ Fault
  /\ UNCHANGED <<clip, seq, prepared, snap, user, foreign>>

RestoreTorn(id) ==
  /\ snap[id].mut # NoSeq
  /\ seq = snap[id].mut
  /\ Fault
  /\ clip' = Torn
  /\ seq' = seq + 1
  /\ snap' = [snap EXCEPT ![id].mut = seq + 1]
  /\ UNCHANGED <<prepared, user, foreign>>

RestoreRaises(id) ==
  RestoreInvalid(id) \/ RestoreUntouched(id) \/ RestoreTorn(id)

(***************************************************************************)
(* discard(snapshot): the operator gives the original up, so the content   *)
(* now on the clipboard is what the user counts on.                        *)
(***************************************************************************)
Discard(id) ==
  /\ prepared' = IF prepared = id THEN NoId ELSE prepared
  /\ user' = clip
  /\ UNCHANGED <<clip, seq, snap, faults, foreign>>
=============================================================================
