---------------------------- MODULE WindowsTarget ----------------------------
(***************************************************************************)
(* The target adapter (windows_target.py): capture remembers which control *)
(* has the keyboard focus, assess decides later whether the same control   *)
(* still has it and may be typed into.  Both ask Windows one question      *)
(* after another, and the desktop may change between any two of them.      *)
(***************************************************************************)
EXTENDS Integers

CONSTANTS
  Keys,         \* keys of the tokens (uuid4)
  Pids,         \* process ids; Windows uses them again
  Tops,         \* handles of top-level windows; used again as well
  Controls,     \* handles of the controls in them
  OwnRid,       \* integrity level of the program itself
  Rids,         \* integrity levels of the other processes
  None,         \* Python's None, Windows' NULL
  MaxChanges,   \* bound on what happens on the desktop
  MaxAssess     \* bound on the assessments

ASSUME TargetAssumption ==
  /\ None \notin Keys \cup Pids \cup Tops \cup Controls \cup Int \cup BOOLEAN
  /\ Tops \cap Controls = {}
  /\ Rids \subseteq Int /\ OwnRid \in Int
  /\ MaxChanges \in Nat /\ MaxAssess \in Nat

(***************************************************************************)
(* What a control is to the adapter: an Edit, an Edit with ES_PASSWORD, or *)
(* a window of another class.  A top-level window is always of another.    *)
(***************************************************************************)
Kind == {"edit", "password", "other"}

VARIABLES
  process,     \* the living processes: creation time and integrity level
  owner,       \* the process of each top-level window, None: no such window
  parent,      \* the window of each control, None: no such control
  kind,        \* what each control is
  foreground,  \* the foreground window
  focus,       \* the control in it that has the keyboard focus, if any
  changes,     \* what happened on the desktop so far; the clock
  captured,    \* _captured_identities
  pc,          \* the next question of the call under way
  key,         \* the token it captures or assesses
  current,     \* the identity read so far
  verdict,     \* code of the last assessment; "ok" is no code
  assessed,    \* assessments begun
  seen,        \* history: the target was safe at a moment of the assessment
  replaced,    \* history: its control was restyled or created anew meanwhile
  quiet,       \* history: nothing changed since each capture began
  denied       \* history: Windows refused to answer a question of this call

desktop == <<process, owner, parent, kind, foreground, focus, changes>>
adapter == <<captured, pc, key, current, verdict, assessed>>
history == <<seen, replaced, quiet, denied>>
vars == <<desktop, adapter, history>>

NoProcess == [marker |-> None, rid |-> None]
Process == [marker : Nat, rid : Rids] \cup {NoProcess}

(***************************************************************************)
(* One GUI thread per process: thread_id carries no more than process_id.  *)
(* automation_id is None from this API.                                    *)
(***************************************************************************)
WindowsIdentity ==
  [top_window : Tops \cup {None}, process_id : Pids \cup {None},
   focused_control : Tops \cup Controls \cup {None},
   process_marker : Nat \cup {None}]

Unread ==
  [top_window |-> None, process_id |-> None, focused_control |-> None,
   process_marker |-> None]

Asking == {"is_window", "foreground", "thread", "focus", "marker", "integrity",
           "class", "style"}
Verdict == {"ok", "target_unavailable", "target_changed", "target_elevated",
            "target_protected"}

(***************************************************************************)
(* Typing would reach the captured control of the captured process, and    *)
(* may: no password field, no process above the program's own level.       *)
(***************************************************************************)
TargetSafe(identity) ==
  /\ focus = identity.focused_control
  /\ focus \in Controls
  /\ foreground \in Tops
  /\ owner[foreground] = identity.process_id
  /\ process[identity.process_id].marker = identity.process_marker
  /\ process[identity.process_id].rid <= OwnRid
  /\ kind[focus] = "edit"

-----------------------------------------------------------------------------
(***************************************************************************)
(* The desktop.  A control that has the focus is in the foreground window. *)
(***************************************************************************)
Change(touched) ==
  /\ changes < MaxChanges
  /\ UNCHANGED <<adapter, denied>>
  /\ changes' = changes + 1
  /\ quiet' = {}
  /\ replaced' = (replaced \/ (/\ key \in Keys /\ captured[key] # Unread
                               /\ captured[key].focused_control \in touched))
  /\ seen' = (seen \/ (key \in Keys /\ TargetSafe(captured[key])'))

FocusMoves ==
  /\ foreground' \in {w \in Tops : owner[w] # None} \cup {None}
  /\ focus' \in {c \in Controls : foreground' # None /\ parent[c] = foreground'}
                  \cup {None}
  /\ UNCHANGED <<process, owner, parent, kind>>
  /\ Change({})

ControlRestyled(c) ==
  /\ kind[c] \in {"edit", "password"}
  /\ parent[c] # None
  /\ kind' = [kind EXCEPT ![c] = IF @ = "edit" THEN "password" ELSE "edit"]
  /\ UNCHANGED <<process, owner, parent, foreground, focus>>
  /\ Change({c})

ControlCreated(c, w) ==
  /\ parent[c] = None /\ owner[w] # None
  /\ parent' = [parent EXCEPT ![c] = w]
  /\ \E k \in Kind : kind' = [kind EXCEPT ![c] = k]
  /\ UNCHANGED <<process, owner, foreground, focus>>
  /\ Change({c})

WindowsGone(gone) ==
  /\ parent' = [c \in Controls |-> IF parent[c] \in gone THEN None ELSE parent[c]]
  /\ owner' = [w \in Tops |-> IF w \in gone THEN None ELSE owner[w]]
  /\ foreground' = IF foreground \in gone THEN None ELSE foreground
  /\ focus' = IF foreground \in gone THEN None ELSE focus

ControlDestroyed(c) ==
  /\ parent[c] # None
  /\ parent' = [parent EXCEPT ![c] = None]
  /\ focus' = IF focus = c THEN None ELSE focus
  /\ UNCHANGED <<process, owner, kind, foreground>>
  /\ Change({})

WindowCloses(w) ==
  /\ owner[w] # None
  /\ WindowsGone({w})
  /\ UNCHANGED <<process, kind>>
  /\ Change({})

ProcessExits(p) ==
  /\ process[p] # NoProcess
  /\ process' = [process EXCEPT ![p] = NoProcess]
  /\ WindowsGone({w \in Tops : owner[w] = p})
  /\ UNCHANGED kind
  /\ Change({})

(***************************************************************************)
(* A process starts under a free id, opens a window with a control, and    *)
(* comes to the foreground.                                                *)
(***************************************************************************)
ProcessStarts(p, w, c) ==
  /\ process[p] = NoProcess /\ owner[w] = None /\ parent[c] = None
  /\ \E rid \in Rids :
       process' = [process EXCEPT ![p] = [marker |-> changes + 1, rid |-> rid]]
  /\ owner' = [owner EXCEPT ![w] = p]
  /\ parent' = [parent EXCEPT ![c] = w]
  /\ \E k \in Kind : kind' = [kind EXCEPT ![c] = k]
  /\ foreground' = w
  /\ focus' \in {c, None}
  /\ Change({c})

Desktop ==
  \/ FocusMoves
  \/ \E c \in Controls : ControlRestyled(c) \/ ControlDestroyed(c)
  \/ \E c \in Controls, w \in Tops : ControlCreated(c, w)
  \/ \E w \in Tops : WindowCloses(w)
  \/ \E p \in Pids : ProcessExits(p)
  \/ \E p \in Pids, w \in Tops, c \in Controls : ProcessStarts(p, w, c)

-----------------------------------------------------------------------------
(***************************************************************************)
(* Answers of Windows.  Opening a process, or reading its token, can be    *)
(* refused at any time, which the code turns into None.                    *)
(***************************************************************************)
Refusable(answer) == {answer, None}

_process_creation_marker(p) == Refusable(process[p].marker)

_integrity_rid_for_process(p) == Refusable(process[p].rid)

\* Mutant: a process of the program's own level counts as above it.
IsSameOrHigherIntegrity(p) ==
  { IF target = None \/ own = None THEN None ELSE target >= own :
      target \in _integrity_rid_for_process(p), own \in Refusable(OwnRid) }

is_higher_integrity(p) ==
  { IF target = None \/ own = None THEN None ELSE target > own :
      target \in _integrity_rid_for_process(p), own \in Refusable(OwnRid) }

(***************************************************************************)
(* GetGUIThreadInfo of the thread: its own focused control if its window   *)
(* is in the foreground, else the window the call began with.              *)
(***************************************************************************)
FocusedOf(identity) ==
  IF focus # None /\ owner[foreground] = identity.process_id
    THEN focus ELSE identity.top_window

-----------------------------------------------------------------------------
Init ==
  /\ \E rid \in Rids :
       process = [p \in Pids |-> [marker |-> 0, rid |-> rid]]
  /\ owner \in [Tops -> Pids]
  /\ \A v, w \in Tops : owner[v] = owner[w] => v = w
  /\ parent \in [Controls -> Tops]
  /\ \A c, d \in Controls : parent[c] = parent[d]
  /\ kind \in [Controls -> Kind]
  /\ \E c \in Controls : focus = c /\ foreground = parent[c]
  /\ changes = 0
  /\ captured = [k \in Keys |-> Unread]
  /\ pc = "idle"
  /\ key = None
  /\ current = Unread
  /\ verdict = "ok"
  /\ assessed = 0
  /\ seen = FALSE /\ replaced = FALSE /\ quiet = {} /\ denied = FALSE

Ask(question) ==
  /\ pc' = question
  /\ UNCHANGED <<key, captured, verdict, assessed, seen, replaced, quiet>>

(***************************************************************************)
(* return TargetAssessment(...)                                            *)
(***************************************************************************)
Answer(code) ==
  /\ pc' = "answered"
  /\ verdict' = code
  /\ UNCHANGED <<key, captured, assessed, seen, replaced, quiet>>

(***************************************************************************)
(* capture_identity() is None: the capture raises TargetCaptureError, the  *)
(* assessment finds the target unavailable.                                *)
(***************************************************************************)
NoIdentity ==
  IF captured[key] = Unread
    THEN /\ pc' = "idle"
         /\ key' = None
         /\ UNCHANGED <<captured, verdict, assessed, seen, replaced, quiet>>
    ELSE Answer("target_unavailable")

Capture(k) ==
  /\ pc = "idle"
  /\ captured[k] = Unread
  /\ key' = k
  /\ pc' = "foreground"
  /\ current' = Unread
  /\ quiet' = quiet \cup {k}
  /\ denied' = FALSE
  /\ UNCHANGED <<desktop, captured, verdict, assessed, seen, replaced>>

(***************************************************************************)
(* assess: a token this adapter did not hand out is not asked about.       *)
(***************************************************************************)
Assess(k) ==
  /\ pc = "idle"
  /\ assessed < MaxAssess
  /\ assessed' = assessed + 1
  /\ key' = k
  /\ current' = Unread
  /\ denied' = FALSE
  /\ replaced' = FALSE
  /\ IF captured[k] = Unread
       THEN pc' = "answered" /\ verdict' = "target_unavailable" /\ seen' = FALSE
       ELSE pc' = "is_window" /\ seen' = TargetSafe(captured[k]) /\ UNCHANGED verdict
  /\ UNCHANGED <<desktop, captured, quiet>>

is_window ==
  /\ pc = "is_window"
  /\ IF owner[captured[key].top_window] # None
       THEN Ask("foreground") ELSE Answer("target_unavailable")
  /\ UNCHANGED <<desktop, current, denied>>

ReadForeground ==
  /\ pc = "foreground"
  /\ IF foreground = None
       THEN NoIdentity /\ UNCHANGED current
       ELSE /\ Ask("thread")
            /\ current' = [current EXCEPT !.top_window = foreground]
  /\ UNCHANGED <<desktop, denied>>

ReadThread ==
  /\ pc = "thread"
  /\ IF owner[current.top_window] = None
       THEN NoIdentity /\ UNCHANGED current
       ELSE /\ Ask("focus")
            /\ current' = [current EXCEPT !.process_id = owner[current.top_window]]
  /\ UNCHANGED <<desktop, denied>>

ReadFocus ==
  /\ pc = "focus"
  /\ IF process[current.process_id] = NoProcess
       THEN NoIdentity /\ UNCHANGED current
       ELSE /\ Ask("marker")
            /\ current' = [current EXCEPT !.focused_control = FocusedOf(current)]
  /\ UNCHANGED <<desktop, denied>>

\* Mutant: the creation time of the process is not compared.
SameIdentityWithoutMarker(i, j) ==
  /\ i.top_window = j.top_window
  /\ i.process_id = j.process_id
  /\ i.focused_control = j.focused_control

_same_identity(i, j) == i = j

(***************************************************************************)
(* The creation time completes the identity: capture stores it, assess     *)
(* compares it with the stored one.                                        *)
(***************************************************************************)
ReadMarker ==
  /\ pc = "marker"
  /\ \E marker \in _process_creation_marker(current.process_id) :
       LET identity == [current EXCEPT !.process_marker = marker] IN
       /\ denied' = (denied \/ marker = None)
       /\ current' = identity
       /\ \/ marker = None /\ NoIdentity
          \/ /\ marker # None
             /\ captured[key] = Unread
             /\ pc' = "idle"
             /\ key' = None
             /\ captured' = [captured EXCEPT ![key] = identity]
             /\ UNCHANGED <<verdict, assessed, seen, replaced, quiet>>
          \/ /\ marker # None
             /\ captured[key] # Unread
             /\ IF _same_identity(captured[key], identity)
                  THEN Ask("integrity") ELSE Answer("target_changed")
  /\ UNCHANGED desktop

\* Mutant: an unreadable level is answered with a code the contract lacks.
ReadIntegrityUnknownCode ==
  /\ pc = "integrity"
  /\ \E elevated \in is_higher_integrity(current.process_id) :
       /\ denied' = (denied \/ elevated = None)
       /\ CASE elevated = None -> Answer("integrity_unknown")
            [] elevated = TRUE -> Answer("target_elevated")
            [] OTHER           -> Ask("class")
  /\ UNCHANGED <<desktop, current>>

ReadIntegrity ==
  /\ pc = "integrity"
  /\ \E elevated \in is_higher_integrity(current.process_id) :
       /\ denied' = (denied \/ elevated = None)
       /\ CASE elevated = None -> Answer("target_unavailable")
            [] elevated = TRUE -> Answer("target_elevated")
            [] OTHER           -> Ask("class")
  /\ UNCHANGED <<desktop, current>>

(***************************************************************************)
(* classic_password_state.  Anything but an Edit is unknown to it, and     *)
(* automation_password_state knows nothing: unknown twice is unavailable.  *)
(***************************************************************************)
Exists(h) == h \in Controls /\ parent[h] # None

ReadClass ==
  /\ pc = "class"
  /\ IF /\ Exists(current.focused_control)
        /\ kind[current.focused_control] # "other"
       THEN Ask("style") ELSE Answer("target_unavailable")
  /\ UNCHANGED <<desktop, current, denied>>

(***************************************************************************)
(* The handle may be a window of another class by now, whose style has a   *)
(* bit of its own where ES_PASSWORD is.                                    *)
(***************************************************************************)
ReadStyle ==
  /\ pc = "style"
  /\ \/ /\ ~Exists(current.focused_control)
        /\ Answer("target_unavailable")
     \/ /\ Exists(current.focused_control)
        /\ kind[current.focused_control] # "edit"
        /\ Answer("target_protected")
     \/ /\ Exists(current.focused_control)
        /\ kind[current.focused_control] # "password"
        /\ Answer("ok")
  /\ UNCHANGED <<desktop, current, denied>>

Return ==
  /\ pc = "answered"
  /\ pc' = "idle"
  /\ key' = None
  /\ UNCHANGED <<desktop, captured, current, verdict, assessed, history>>

Call ==
  \/ \E k \in Keys : Capture(k) \/ Assess(k)
  \/ is_window
  \/ ReadForeground
  \/ ReadThread
  \/ ReadFocus
  \/ ReadMarker
  \/ ReadIntegrity
  \/ ReadClass
  \/ ReadStyle
  \/ Return

Next == Call \/ Desktop

Spec == Init /\ [][Next]_vars
-----------------------------------------------------------------------------
TypeOK ==
  /\ process \in [Pids -> Process]
  /\ owner \in [Tops -> Pids \cup {None}]
  /\ parent \in [Controls -> Tops \cup {None}]
  /\ kind \in [Controls -> Kind]
  /\ foreground \in Tops \cup {None}
  /\ focus \in Controls \cup {None}
  /\ changes \in Nat
  /\ captured \in [Keys -> WindowsIdentity]
  /\ pc \in {"idle", "answered"} \cup Asking
  /\ key \in Keys \cup {None}
  /\ current \in WindowsIdentity
  /\ verdict \in Verdict
  /\ assessed \in Nat
  /\ seen \in BOOLEAN /\ replaced \in BOOLEAN
  /\ quiet \subseteq Keys
  /\ denied \in BOOLEAN

(***************************************************************************)
(* An assessment that ends well had one moment at which everything held    *)
(* at once: the captured control of the captured process had the focus,    *)
(* was no password field, and its process was not above the program's own  *)
(* level.  Unless the control itself was restyled or its handle given to a *)
(* new control while the assessment ran, whatever else moved between two   *)
(* questions.  This is what lets InsertionService assess in one step.      *)
(***************************************************************************)
SafeAtOneMoment ==
  pc = "answered" /\ verdict = "ok" => seen \/ replaced

(***************************************************************************)
(* On a desktop that did not change since the capture, with no question    *)
(* refused, the verdict says what the target is: no false alarm, and the   *)
(* level of the process is told before the nature of the control.          *)
(***************************************************************************)
QuietVerdict ==
  pc = "answered" /\ key \in quiet /\ captured[key] # Unread /\ ~denied =>
    verdict =
      LET identity == captured[key] IN
      IF process[identity.process_id].rid > OwnRid THEN "target_elevated"
      ELSE IF ~Exists(identity.focused_control) THEN "target_unavailable"
      ELSE CASE kind[identity.focused_control] = "edit" -> "ok"
             [] kind[identity.focused_control] = "password" -> "target_protected"
             [] OTHER -> "target_unavailable"
=============================================================================
