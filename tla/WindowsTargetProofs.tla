-------------------------- MODULE WindowsTargetProofs --------------------------
(***************************************************************************)
(* What a good assessment is worth, for any processes, windows and         *)
(* controls and any number of changes of the desktop between its           *)
(* questions.                                                              *)
(***************************************************************************)
EXTENDS WindowsTarget, TLAPS

-----------------------------------------------------------------------------
(***************************************************************************)
(* The questions come in one order: what an earlier answer must have been  *)
(* for a later one to be asked.                                            *)
(***************************************************************************)
Ordered ==
  /\ pc \in Asking => key \in Keys
  /\ pc \in Asking \ {"is_window", "foreground"} => current.top_window \in Tops
  /\ pc \in Asking \ {"is_window", "foreground", "thread"} =>
       current.process_id \in Pids

Typed == TypeOK /\ Ordered

LEMMA TargetInit == Init => Typed
<1> SUFFICES ASSUME Init  PROVE Typed
  OBVIOUS
<1>1. process \in [Pids -> Process]
  BY DEF Init, Process
<1>2. owner \in [Tops -> Pids \cup {None}] /\ parent \in [Controls -> Tops \cup {None}]
  BY DEF Init
<1>3. foreground \in Tops \cup {None} /\ focus \in Controls \cup {None}
  BY DEF Init
<1>4. captured \in [Keys -> WindowsIdentity] /\ current \in WindowsIdentity
  BY DEF Init, WindowsIdentity, Unread
<1> QED BY <1>1, <1>2, <1>3, <1>4 DEF Init, Typed, TypeOK, Verdict, Ordered, Asking

(***************************************************************************)
(* What a change of the desktop leaves alone.                              *)
(***************************************************************************)
LEMMA ChangeTyped ==
  ASSUME TypeOK, NEW touched, Change(touched)
  PROVE  /\ changes' \in Nat /\ quiet' \subseteq Keys
         /\ seen' \in BOOLEAN /\ replaced' \in BOOLEAN
         /\ UNCHANGED <<adapter, denied>>
<1>1. seen' \in BOOLEAN
  BY DEF Change, TypeOK
<1>2. replaced' \in BOOLEAN
  BY DEF Change, TypeOK
<1> QED BY <1>1, <1>2 DEF Change, TypeOK

LEMMA DesktopTyped == TypeOK /\ Desktop => TypeOK'
<1> SUFFICES ASSUME TypeOK, Desktop  PROVE TypeOK'
  OBVIOUS
<1> DEFINE Placed == /\ process' \in [Pids -> Process]
                     /\ owner' \in [Tops -> Pids \cup {None}]
                     /\ parent' \in [Controls -> Tops \cup {None}]
                     /\ kind' \in [Controls -> Kind]
                     /\ foreground' \in Tops \cup {None}
                     /\ focus' \in Controls \cup {None}
<1>1. ASSUME Placed, NEW touched, Change(touched)  PROVE TypeOK'
  BY <1>1, ChangeTyped DEF TypeOK, adapter
<1>2. CASE FocusMoves
  <2>1. Placed
    BY <1>2 DEF FocusMoves, TypeOK
  <2> QED BY <1>1, <1>2, <2>1 DEF FocusMoves
<1>3. ASSUME NEW c \in Controls, ControlRestyled(c)  PROVE TypeOK'
  <2>1. Placed
    BY <1>3 DEF ControlRestyled, TypeOK, Kind
  <2> QED BY <1>1, <1>3, <2>1 DEF ControlRestyled
<1>4. ASSUME NEW c \in Controls, ControlDestroyed(c)  PROVE TypeOK'
  <2>1. Placed
    BY <1>4 DEF ControlDestroyed, TypeOK
  <2> QED BY <1>1, <1>4, <2>1 DEF ControlDestroyed
<1>5. ASSUME NEW c \in Controls, NEW w \in Tops, ControlCreated(c, w)  PROVE TypeOK'
  <2>1. Placed
    BY <1>5 DEF ControlCreated, TypeOK
  <2> QED BY <1>1, <1>5, <2>1 DEF ControlCreated
<1>6. ASSUME NEW w \in Tops, WindowCloses(w)  PROVE TypeOK'
  <2>1. Placed
    BY <1>6 DEF WindowCloses, WindowsGone, TypeOK
  <2> QED BY <1>1, <1>6, <2>1 DEF WindowCloses
<1>7. ASSUME NEW p \in Pids, ProcessExits(p)  PROVE TypeOK'
  <2>1. Placed
    BY <1>7 DEF ProcessExits, WindowsGone, TypeOK, Process
  <2> QED BY <1>1, <1>7, <2>1 DEF ProcessExits
<1>8. ASSUME NEW p \in Pids, NEW w \in Tops, NEW c \in Controls, ProcessStarts(p, w, c)
      PROVE  TypeOK'
  <2>1. process' \in [Pids -> Process]
    BY <1>8 DEF ProcessStarts, TypeOK, Process
  <2>2. Placed
    BY <1>8, <2>1 DEF ProcessStarts, TypeOK
  <2> QED BY <1>1, <1>8, <2>2 DEF ProcessStarts
<1> QED BY <1>2, <1>3, <1>4, <1>5, <1>6, <1>7, <1>8 DEF Desktop

LEMMA DesktopOrdered == Ordered /\ Desktop => Ordered'
  BY DEF Ordered, Desktop, FocusMoves, ControlRestyled, ControlDestroyed,
         ControlCreated, WindowCloses, ProcessExits, ProcessStarts, Change, adapter

(***************************************************************************)
(* What a question leads to: the next one, or the answer, or no identity.  *)
(***************************************************************************)
LEMMA AskTyped ==
  ASSUME TypeOK, UNCHANGED desktop, current' \in WindowsIdentity,
         denied' \in BOOLEAN, NEW q \in Asking, Ask(q)
  PROVE  TypeOK'
BY DEF Ask, TypeOK, desktop

LEMMA AnswerTyped ==
  ASSUME TypeOK, UNCHANGED desktop, current' \in WindowsIdentity,
         denied' \in BOOLEAN, NEW v \in Verdict, Answer(v)
  PROVE  Typed'
BY DEF Answer, Typed, TypeOK, Ordered, Asking, desktop

LEMMA NoIdentityTyped ==
  ASSUME TypeOK, UNCHANGED desktop, current' \in WindowsIdentity,
         denied' \in BOOLEAN, NoIdentity
  PROVE  Typed'
<1>1. CASE captured[key] = Unread
  BY <1>1 DEF NoIdentity, Typed, TypeOK, Ordered, Asking, desktop
<1>2. CASE captured[key] # Unread
  BY <1>2, AnswerTyped DEF NoIdentity, Verdict
<1> QED BY <1>1, <1>2

LEMMA CallTyped == Typed /\ Call => Typed'
<1> SUFFICES ASSUME TypeOK, Ordered, Call  PROVE Typed'
  BY DEF Typed
<1> USE DEF Asking
<1>1. ASSUME NEW k \in Keys, Capture(k)  PROVE Typed'
  BY <1>1 DEF Capture, Typed, TypeOK, Ordered, desktop, Unread, WindowsIdentity
<1>2. ASSUME NEW k \in Keys, Assess(k)  PROVE Typed'
  <2>1. seen' \in BOOLEAN /\ verdict' \in Verdict /\ pc' \in {"answered", "is_window"}
    BY <1>2 DEF Assess, TargetSafe, TypeOK, Verdict
  <2>2. current' \in WindowsIdentity
    BY <1>2 DEF Assess, Unread, WindowsIdentity
  <2>3. /\ key' \in Keys /\ assessed' \in Nat /\ replaced' = FALSE /\ denied' = FALSE
        /\ UNCHANGED <<desktop, captured, quiet>>
    BY <1>2 DEF Assess, TypeOK
  <2>4. TypeOK'
    BY <2>1, <2>2, <2>3 DEF TypeOK, desktop
  <2> QED BY <2>1, <2>3, <2>4 DEF Typed, Ordered
<1>3. CASE is_window
  <2>1. CASE Ask("foreground")
    BY <1>3, <2>1, AskTyped DEF is_window, Ask, Typed, Ordered, TypeOK
  <2>2. CASE Answer("target_unavailable")
    BY <1>3, <2>2, AnswerTyped DEF is_window, TypeOK, Verdict
  <2> QED BY <1>3, <2>1, <2>2 DEF is_window
<1>4. CASE ReadForeground
  <2>1. CASE foreground = None
    BY <1>4, <2>1, NoIdentityTyped DEF ReadForeground, TypeOK
  <2>2. CASE foreground # None
    <3>1. current' \in WindowsIdentity /\ current'.top_window \in Tops
      BY <1>4, <2>2 DEF ReadForeground, TypeOK, WindowsIdentity
    <3> QED BY <1>4, <2>2, <3>1, AskTyped
            DEF ReadForeground, Ask, Typed, Ordered, TypeOK
  <2> QED BY <2>1, <2>2
<1>5. CASE ReadThread
  <2>1. CASE owner[current.top_window] = None
    BY <1>5, <2>1, NoIdentityTyped DEF ReadThread, TypeOK
  <2>2. CASE owner[current.top_window] # None
    <3>1. /\ current' \in WindowsIdentity
          /\ current'.top_window \in Tops /\ current'.process_id \in Pids
      BY <1>5, <2>2 DEF ReadThread, TypeOK, WindowsIdentity, Ordered
    <3> QED BY <1>5, <2>2, <3>1, AskTyped DEF ReadThread, Ask, Typed, Ordered, TypeOK
  <2> QED BY <2>1, <2>2
<1>6. CASE ReadFocus
  <2>1. CASE process[current.process_id] = NoProcess
    BY <1>6, <2>1, NoIdentityTyped DEF ReadFocus, TypeOK
  <2>2. CASE process[current.process_id] # NoProcess
    <3>1. /\ current' \in WindowsIdentity
          /\ current'.top_window \in Tops /\ current'.process_id \in Pids
      BY <1>6, <2>2 DEF ReadFocus, FocusedOf, TypeOK, WindowsIdentity, Ordered
    <3> QED BY <1>6, <2>2, <3>1, AskTyped DEF ReadFocus, Ask, Typed, Ordered, TypeOK
  <2> QED BY <2>1, <2>2
<1>7. CASE ReadMarker
  <2>1. PICK marker \in _process_creation_marker(current.process_id) :
          ReadMarker!2!(marker)
    BY <1>7 DEF ReadMarker
  <2> DEFINE identity == [current EXCEPT !.process_marker = marker]
  <2>2. marker \in Nat \cup {None}
    BY <1>7, <2>1 DEF _process_creation_marker, Refusable, TypeOK, Process, NoProcess,
                      ReadMarker, Ordered
  <2>3. /\ identity \in WindowsIdentity
        /\ identity.top_window = current.top_window
        /\ identity.process_id = current.process_id
    BY <2>2 DEF TypeOK, WindowsIdentity
  <2>4. current' = identity /\ denied' \in BOOLEAN /\ UNCHANGED desktop /\ key \in Keys
    BY <1>7, <2>1 DEF TypeOK, ReadMarker, Ordered
  <2>5. CASE NoIdentity
    BY <2>3, <2>4, <2>5, NoIdentityTyped
  <2>6. CASE marker # None /\ captured[key] = Unread /\ ~NoIdentity
    <3>1. captured' \in [Keys -> WindowsIdentity]
      BY <2>1, <2>3, <2>4, <2>6 DEF TypeOK
    <3> QED BY <2>1, <2>3, <2>4, <2>6, <3>1 DEF Typed, TypeOK, Ordered, desktop
  <2>7. CASE Ask("integrity")
    BY <1>7, <2>3, <2>4, <2>7, AskTyped DEF Ask, Typed, Ordered, ReadMarker
  <2>8. CASE Answer("target_changed")
    BY <2>3, <2>4, <2>8, AnswerTyped DEF Verdict
  <2> QED BY <2>1, <2>5, <2>6, <2>7, <2>8
<1>8. CASE ReadIntegrity
  <2>1. denied' \in BOOLEAN /\ UNCHANGED <<desktop, current>>
    BY <1>8 DEF ReadIntegrity, TypeOK
  <2>2. \/ \E v \in Verdict : Answer(v)
        \/ Ask("class")
    BY <1>8 DEF ReadIntegrity, Verdict
  <2>3. CASE Ask("class")
    BY <1>8, <2>1, <2>3, AskTyped DEF ReadIntegrity, Ask, Typed, Ordered, TypeOK
  <2> QED BY <2>1, <2>2, <2>3, AnswerTyped DEF TypeOK
<1>9. CASE ReadClass
  <2>1. CASE Ask("style")
    BY <1>9, <2>1, AskTyped DEF ReadClass, Ask, Typed, Ordered, TypeOK
  <2>2. CASE Answer("target_unavailable")
    BY <1>9, <2>2, AnswerTyped DEF ReadClass, TypeOK, Verdict
  <2> QED BY <1>9, <2>1, <2>2 DEF ReadClass
<1>10. CASE ReadStyle
  BY <1>10, AnswerTyped DEF ReadStyle, TypeOK, Verdict
<1>11. CASE Return
  BY <1>11 DEF Return, Typed, TypeOK, Ordered, desktop, history
<1> QED BY <1>1, <1>2, <1>3, <1>4, <1>5, <1>6, <1>7, <1>8, <1>9, <1>10, <1>11 DEF Call

(***************************************************************************)
(* Every state of the adapter, and of the desktop it asks, has its type,   *)
(* whatever happens between two questions of windows_target.py.            *)
(***************************************************************************)
THEOREM TargetTyped == Spec => []TypeOK
<1>1. Typed /\ [Next]_vars => Typed'
  <2> SUFFICES ASSUME Typed, [Next]_vars  PROVE Typed'
    OBVIOUS
  <2>1. CASE Desktop
    BY <2>1, DesktopTyped, DesktopOrdered DEF Typed
  <2>2. CASE UNCHANGED vars
    BY <2>2 DEF vars, desktop, adapter, history, Typed, TypeOK, Ordered
  <2> QED BY <2>1, <2>2, CallTyped DEF Next
<1> QED BY <1>1, TargetInit, PTL DEF Spec, Typed
-----------------------------------------------------------------------------
(***************************************************************************)
(* Windows and controls belong to what lives, and the focus to the         *)
(* foreground.                                                             *)
(***************************************************************************)
Grounded ==
  /\ \A w \in Tops : owner[w] # None => process[owner[w]] # NoProcess
  /\ \A c \in Controls : parent[c] # None => owner[parent[c]] # None
  /\ focus # None => parent[focus] = foreground /\ foreground # None

(***************************************************************************)
(* The history remembers every moment of the assessment that was safe.     *)
(***************************************************************************)
Remembered ==
  key \in Keys /\ captured[key] # Unread /\ TargetSafe(captured[key]) => seen

(***************************************************************************)
(* From the answer about the focus on.  As long as the captured control is *)
(* there and untouched, its process has not ended since, so every later    *)
(* answer was true at that moment too: if they are all good, the moment    *)
(* was safe.                                                               *)
(***************************************************************************)
Late == {"marker", "integrity", "class", "style"}

Followed ==
  /\ captured[key] # Unread
  /\ ~replaced
  /\ Exists(current.focused_control)
  /\ captured[key].focused_control = current.focused_control

Watched ==
  pc \in Late /\ Followed =>
    /\ owner[parent[current.focused_control]] = current.process_id
    /\ /\ captured[key].process_id = current.process_id
       /\ process[current.process_id].marker = captured[key].process_marker
       /\ process[current.process_id].rid <= OwnRid
       /\ kind[current.focused_control] = "edit"
       => seen
    /\ pc # "marker" =>
         process[current.process_id].marker = captured[key].process_marker
    /\ pc \in {"class", "style"} => process[current.process_id].rid <= OwnRid
    /\ pc = "style" => kind[current.focused_control] # "other"

(***************************************************************************)
(* Past the comparison of the identities they are one.                     *)
(***************************************************************************)
Compared ==
  pc \in {"integrity", "class", "style"} => captured[key] = current /\ current # Unread

IInv == Typed /\ Grounded /\ Remembered /\ Watched /\ Compared /\ SafeAtOneMoment

LEMMA SafetyInit == Init => IInv
<1> SUFFICES ASSUME Init  PROVE IInv
  OBVIOUS
<1>1. Typed
  BY TargetInit
<1>2. Grounded
  BY <1>1, TargetAssumption
     DEF Init, Grounded, Typed, TypeOK, NoProcess, TargetAssumption
<1> QED BY <1>1, <1>2
        DEF Init, IInv, Remembered, Watched, Late, Compared, SafeAtOneMoment

(***************************************************************************)
(* A control that is there after a change, and was not touched by it, was  *)
(* there before: in the same window, of the same living process.           *)
(***************************************************************************)
Kept(touched) ==
  \A c \in Controls \ touched :
    parent'[c] # None =>
      /\ parent'[c] = parent[c] /\ kind'[c] = kind[c]
      /\ owner'[parent[c]] = owner[parent[c]]
      /\ process'[owner[parent[c]]] = process[owner[parent[c]]]

LEMMA ChangeKeepsSafe ==
  ASSUME IInv, NEW touched, Change(touched), Typed', Grounded', Kept(touched)
  PROVE  IInv'
<1>1. UNCHANGED <<adapter, denied>>
  BY DEF Change
<1>2. Remembered'
  BY <1>1 DEF Change, Remembered, TargetSafe, adapter
<1>3. Watched'
  <2> SUFFICES ASSUME pc' \in Late, Followed'
               PROVE  Watched!2'
    BY DEF Watched
  <2> DEFINE c == current.focused_control
  <2>1. pc \in Late /\ key \in Keys
    BY <1>1 DEF adapter, Late, IInv, Typed, Ordered, Asking
  <2>2. c \in Controls \ touched /\ parent'[c] # None /\ ~replaced
    BY <1>1, <2>1 DEF Followed, Exists, Change, adapter
  <2>3. /\ parent'[c] = parent[c] /\ kind'[c] = kind[c]
        /\ owner'[parent[c]] = owner[parent[c]]
        /\ process'[owner[parent[c]]] = process[owner[parent[c]]]
    BY <2>2 DEF Kept
  <2>4. Followed
    BY <1>1, <2>2, <2>3 DEF Followed, Exists, adapter
  <2>5. Watched!2
    BY <2>1, <2>4 DEF IInv, Watched
  <2>6. seen => seen'
    BY DEF Change
  <2> QED BY <1>1, <2>3, <2>5, <2>6 DEF adapter
<1>4. Compared'
  BY <1>1 DEF IInv, Compared, adapter
<1>5. SafeAtOneMoment'
  BY <1>1 DEF IInv, SafeAtOneMoment, Change, adapter
<1> QED BY <1>2, <1>3, <1>4, <1>5 DEF IInv

LEMMA DesktopSafe == IInv /\ Desktop => IInv'
<1> SUFFICES ASSUME IInv, Desktop  PROVE IInv'
  OBVIOUS
<1>1. Typed /\ Typed' /\ Grounded
  BY DesktopTyped, DesktopOrdered DEF IInv, Typed
<1> USE <1>1 DEF Typed, TypeOK
<1>2. CASE FocusMoves
  <2>1. Grounded' /\ Kept({})
    BY <1>2 DEF FocusMoves, Grounded, Kept
  <2> QED BY <1>1, <1>2, <2>1, ChangeKeepsSafe DEF FocusMoves
<1>3. ASSUME NEW c \in Controls, ControlRestyled(c)  PROVE IInv'
  <2>1. Grounded' /\ Kept({c})
    BY <1>3 DEF ControlRestyled, Grounded, Kept
  <2> QED BY <1>1, <1>3, <2>1, ChangeKeepsSafe DEF ControlRestyled
<1>4. ASSUME NEW c \in Controls, ControlDestroyed(c)  PROVE IInv'
  <2>1. Grounded' /\ Kept({})
    BY <1>4 DEF ControlDestroyed, Grounded, Kept
  <2> QED BY <1>1, <1>4, <2>1, ChangeKeepsSafe DEF ControlDestroyed
<1>5. ASSUME NEW c \in Controls, NEW w \in Tops, ControlCreated(c, w)  PROVE IInv'
  <2>1. Grounded' /\ Kept({c})
    BY <1>5 DEF ControlCreated, Grounded, Kept
  <2> QED BY <1>1, <1>5, <2>1, ChangeKeepsSafe DEF ControlCreated
<1>6. ASSUME NEW w \in Tops, WindowCloses(w)  PROVE IInv'
  <2>1. Grounded' /\ Kept({})
    BY <1>6 DEF WindowCloses, WindowsGone, Grounded, Kept
  <2> QED BY <1>1, <1>6, <2>1, ChangeKeepsSafe DEF WindowCloses
<1>7. ASSUME NEW p \in Pids, ProcessExits(p)  PROVE IInv'
  <2>1. Grounded' /\ Kept({})
    BY <1>7 DEF ProcessExits, WindowsGone, Grounded, Kept
  <2> QED BY <1>1, <1>7, <2>1, ChangeKeepsSafe DEF ProcessExits
<1>8. ASSUME NEW p \in Pids, NEW w \in Tops, NEW c \in Controls, ProcessStarts(p, w, c)
      PROVE  IInv'
  <2>1. process'[p] # NoProcess
    BY <1>8, TargetAssumption DEF ProcessStarts, NoProcess, TargetAssumption
  <2>2. Grounded' /\ Kept({c})
    BY <1>8, <2>1, TargetAssumption
       DEF ProcessStarts, Grounded, Kept, TargetAssumption
  <2> QED BY <1>1, <1>8, <2>2, ChangeKeepsSafe DEF ProcessStarts
<1> QED BY <1>2, <1>3, <1>4, <1>5, <1>6, <1>7, <1>8 DEF Desktop

(***************************************************************************)
(* A question leaves the desktop alone, so only the adapter's side moves.  *)
(***************************************************************************)
LEMMA AnswerSafe ==
  ASSUME IInv, Typed', UNCHANGED desktop, NEW v \in Verdict \ {"ok"}, Answer(v)
  PROVE  IInv'
BY DEF Answer, IInv, Grounded, Remembered, TargetSafe, Watched, Late, Compared,
       SafeAtOneMoment, desktop

LEMMA NoIdentitySafe ==
  ASSUME IInv, Typed', UNCHANGED desktop, NoIdentity
  PROVE  IInv'
<1>1. CASE captured[key] = Unread
  BY <1>1, TargetAssumption
     DEF NoIdentity, IInv, Grounded, Remembered, TargetSafe, Watched, Late, Compared,
         SafeAtOneMoment, desktop, TargetAssumption
<1>2. CASE captured[key] # Unread
  BY <1>2, AnswerSafe DEF NoIdentity, Verdict
<1> QED BY <1>1, <1>2

LEMMA AskSafe ==
  ASSUME IInv, Typed', UNCHANGED desktop, NEW q \in Asking, Ask(q), Watched', Compared'
  PROVE  IInv'
BY DEF Ask, IInv, Grounded, Remembered, TargetSafe, SafeAtOneMoment, desktop, Asking

LEMMA CallSafe == IInv /\ Call => IInv'
<1> SUFFICES ASSUME IInv, Call  PROVE IInv'
  OBVIOUS
<1>1. Typed /\ Typed'
  BY CallTyped DEF IInv
<1> USE DEF Asking, Late
<1>2. ASSUME NEW k \in Keys, Capture(k)  PROVE IInv'
  BY <1>1, <1>2 DEF Capture, IInv, Grounded, Remembered, Watched, Compared,
                    SafeAtOneMoment, desktop
<1>3. ASSUME NEW k \in Keys, Assess(k)  PROVE IInv'
  <2>1. CASE captured[k] = Unread
    BY <1>1, <1>3, <2>1 DEF Assess, IInv, Grounded, Remembered, Watched, Compared,
                            SafeAtOneMoment, desktop
  <2>2. CASE captured[k] # Unread
    <3>1. Remembered'
      BY <1>3, <2>2 DEF Assess, Remembered, TargetSafe, desktop
    <3> QED BY <1>1, <1>3, <2>2, <3>1 DEF Assess, IInv, Grounded, Watched, Compared,
                                          SafeAtOneMoment, desktop
  <2> QED BY <2>1, <2>2
<1>4. CASE is_window
  BY <1>1, <1>4, AskSafe, AnswerSafe
     DEF is_window, Ask, Watched, Compared, Verdict
<1>5. CASE ReadForeground
  BY <1>1, <1>5, AskSafe, NoIdentitySafe DEF ReadForeground, Ask, Watched, Compared
<1>6. CASE ReadThread
  BY <1>1, <1>6, AskSafe, NoIdentitySafe DEF ReadThread, Ask, Watched, Compared
<1>7. CASE ReadFocus
  <2>1. CASE process[current.process_id] = NoProcess
    BY <1>1, <1>7, <2>1, NoIdentitySafe DEF ReadFocus
  <2>2. CASE process[current.process_id] # NoProcess
    <3>1. /\ Ask("marker") /\ UNCHANGED <<desktop, denied>> /\ key \in Keys
          /\ current' = [current EXCEPT !.focused_control = FocusedOf(current)]
      BY <1>1, <1>7, <2>2 DEF ReadFocus, Typed, Ordered
    <3>2. /\ current'.focused_control = FocusedOf(current)
          /\ current'.process_id = current.process_id /\ current.top_window \in Tops
      BY <1>1, <1>7, <3>1 DEF ReadFocus, Typed, TypeOK, WindowsIdentity, Ordered
    <3>3. Watched'
      <4> SUFFICES ASSUME Followed'  PROVE Watched!2'
        BY DEF Watched
      <4> DEFINE c == current'.focused_control
      <4>1. c \in Controls /\ parent[c] # None
        BY <3>1 DEF Followed, Exists, desktop
      <4>2. /\ focus = c /\ owner[foreground] = current.process_id
            /\ parent[c] = foreground /\ foreground \in Tops
        BY <1>1, <3>2, <4>1, TargetAssumption
           DEF FocusedOf, IInv, Grounded, Typed, TypeOK
      <4>3. captured[key] # Unread /\ captured[key].focused_control = c
        BY <3>1 DEF Followed, Ask
      <4>4. /\ captured[key].process_id = current.process_id
            /\ process[current.process_id].marker = captured[key].process_marker
            /\ process[current.process_id].rid <= OwnRid
            /\ kind[c] = "edit"
            => TargetSafe(captured[key])
        BY <4>1, <4>2, <4>3 DEF TargetSafe
      <4>5. TargetSafe(captured[key]) => seen
        BY <3>1, <4>3 DEF IInv, Remembered
      <4> QED BY <3>1, <3>2, <4>2, <4>4, <4>5 DEF Ask, desktop
    <3> QED BY <1>1, <3>1, <3>3, AskSafe DEF Ask, Compared
  <2> QED BY <2>1, <2>2
<1>8. CASE ReadMarker
  <2>1. PICK marker \in _process_creation_marker(current.process_id) :
          ReadMarker!2!(marker)
    BY <1>8 DEF ReadMarker
  <2> DEFINE identity == [current EXCEPT !.process_marker = marker]
  <2>2. UNCHANGED desktop /\ key \in Keys /\ pc = "marker" /\ current' = identity
    BY <1>1, <1>8, <2>1 DEF ReadMarker, Typed, Ordered
  <2>3. CASE NoIdentity
    BY <1>1, <2>2, <2>3, NoIdentitySafe
  <2>4. CASE captured[key] = Unread /\ ~NoIdentity
    <3>1. pc' = "idle" /\ key' = None
      BY <2>1, <2>4
    <3> QED BY <1>1, <2>2, <3>1, TargetAssumption
            DEF IInv, Grounded, Remembered, Watched, Compared, SafeAtOneMoment, desktop
  <2>5. CASE captured[key] # Unread /\ Ask("integrity")
    <3>1. captured[key] = identity
      <4>1. _same_identity(captured[key], identity)
        BY <2>1, <2>5, <2>2 DEF Ask, Answer, NoIdentity
      <4> QED BY <4>1 DEF _same_identity
    <3>2. marker # None
      BY <2>1, <2>5 DEF Ask, Answer, NoIdentity
    <3>3. marker = process[current.process_id].marker
      BY <3>2 DEF _process_creation_marker, Refusable
    <3>4. /\ identity.process_marker = marker
          /\ identity.process_id = current.process_id
          /\ identity.focused_control = current.focused_control
      BY <1>1 DEF Typed, TypeOK, WindowsIdentity
    <3>5. Watched'
      BY <2>2, <2>5, <3>1, <3>3, <3>4
         DEF IInv, Ask, Watched, Followed, Exists, desktop
    <3>6. Compared'
      BY <2>2, <2>5, <3>1 DEF Ask, Compared
    <3> QED BY <1>1, <2>2, <2>5, <3>5, <3>6, AskSafe
  <2>6. CASE Answer("target_changed")
    BY <1>1, <2>2, <2>6, AnswerSafe DEF Verdict
  <2> QED BY <2>1, <2>3, <2>4, <2>5, <2>6
<1>9. CASE ReadIntegrity
  <2>1. UNCHANGED <<desktop, current>> /\ pc = "integrity" /\ key \in Keys
    BY <1>1, <1>9 DEF ReadIntegrity, Typed, Ordered
  <2>2. PICK elevated \in is_higher_integrity(current.process_id) :
          CASE elevated = None -> Answer("target_unavailable")
            [] elevated = TRUE -> Answer("target_elevated")
            [] OTHER           -> Ask("class")
    BY <1>9 DEF ReadIntegrity
  <2>3. CASE elevated = None
    BY <1>1, <2>1, <2>2, <2>3, AnswerSafe DEF Verdict
  <2>4. CASE elevated = TRUE
    <3>1. elevated # None
      BY <2>4, TargetAssumption
    <3> QED BY <1>1, <2>1, <2>2, <2>4, <3>1, AnswerSafe DEF Verdict
  <2>5. CASE elevated # None /\ elevated # TRUE
    <3>1. Ask("class")
      BY <2>2, <2>5
    <3>2. current.process_id \in Pids
      BY <1>1, <2>1 DEF Typed, Ordered
    <3>3. process[current.process_id] \in Process
      BY <1>1, <3>2 DEF Typed, TypeOK
    <3> DEFINE rid == process[current.process_id].rid
    <3>4. rid \in Int \cup {None}
      <4>1. CASE process[current.process_id] = NoProcess
        BY <4>1 DEF NoProcess
      <4>2. CASE process[current.process_id] # NoProcess
        <5>1. rid \in Rids
          BY <3>3, <4>2 DEF Process
        <5> QED BY <5>1, TargetAssumption DEF TargetAssumption
      <4> QED BY <4>1, <4>2
    <3>5. rid <= OwnRid
      <4>1. PICK target \in {rid, None}, own \in {OwnRid, None} :
              elevated = IF target = None \/ own = None THEN None ELSE target > own
        BY DEF is_higher_integrity, _integrity_rid_for_process, Refusable
      <4>2. target = rid /\ own = OwnRid /\ rid # None /\ elevated = (rid > OwnRid)
        BY <2>5, <4>1
      <4>3. rid \in Int /\ OwnRid \in Int
        BY <3>4, <4>2, TargetAssumption DEF TargetAssumption
      <4>4. ~(rid > OwnRid)
        BY <2>5, <4>2
      <4> QED BY <4>3, <4>4
    <3>6. Watched' /\ Compared'
      BY <2>1, <3>1, <3>5 DEF IInv, Ask, Watched, Followed, Exists, Compared, desktop
    <3> QED BY <1>1, <2>1, <3>1, <3>6, AskSafe
  <2> QED BY <2>3, <2>4, <2>5
<1>10. CASE ReadClass
  <2>1. UNCHANGED <<desktop, current>> /\ pc = "class" /\ key \in Keys
    BY <1>1, <1>10 DEF ReadClass, Typed, Ordered
  <2>2. CASE kind[current.focused_control] # "other" /\ Ask("style")
    <3>1. Watched' /\ Compared'
      BY <2>1, <2>2 DEF IInv, Ask, Watched, Followed, Exists, Compared, desktop
    <3> QED BY <1>1, <2>1, <2>2, <3>1, AskSafe
  <2>3. CASE Answer("target_unavailable")
    BY <1>1, <2>1, <2>3, AnswerSafe DEF Verdict
  <2> QED BY <1>10, <2>2, <2>3 DEF ReadClass
<1>11. CASE ReadStyle
  <2>1. UNCHANGED desktop /\ pc = "style" /\ key \in Keys
    BY <1>1, <1>11 DEF ReadStyle, Typed, Ordered
  <2>2. CASE \E v \in {"target_unavailable", "target_protected"} : Answer(v)
    BY <1>1, <2>1, <2>2, AnswerSafe DEF Verdict
  <2>3. CASE /\ Exists(current.focused_control)
             /\ kind[current.focused_control] # "password"
             /\ Answer("ok")
    <3> DEFINE c == current.focused_control
    <3>1. captured[key] = current /\ current # Unread
      BY <2>1 DEF IInv, Compared
    <3>2. seen \/ replaced
      <4> SUFFICES ASSUME ~replaced  PROVE seen
        OBVIOUS
      <4>1. Followed
        BY <2>3, <3>1 DEF Followed
      <4>2. Watched!2
        BY <2>1, <4>1 DEF IInv, Watched
      <4>3. kind[c] \in Kind
        BY <1>1, <2>3 DEF Exists, Typed, TypeOK
      <4>4. kind[c] = "edit"
        BY <2>1, <2>3, <4>2, <4>3 DEF Kind
      <4> QED BY <2>1, <3>1, <4>2, <4>4
    <3> QED BY <1>1, <2>1, <2>3, <3>2
            DEF Answer, IInv, Grounded, Remembered, TargetSafe, Watched, Compared,
                SafeAtOneMoment, desktop
  <2> QED BY <1>11, <2>2, <2>3 DEF ReadStyle
<1>12. CASE Return
  BY <1>1, <1>12, TargetAssumption
     DEF Return, IInv, Grounded, Remembered, Watched, Compared, SafeAtOneMoment,
         desktop, history
<1> QED BY <1>2, <1>3, <1>4, <1>5, <1>6, <1>7, <1>8, <1>9, <1>10, <1>11, <1>12 DEF Call

(***************************************************************************)
(* Every step keeps the invariant.                                         *)
(***************************************************************************)
LEMMA SafetyNext == IInv /\ [Next]_vars => IInv'
<1> SUFFICES ASSUME IInv, [Next]_vars  PROVE IInv'
  OBVIOUS
<1>1. CASE UNCHANGED vars
  BY <1>1 DEF vars, desktop, adapter, history, IInv, Typed, TypeOK, Ordered, Grounded,
              Remembered, TargetSafe, Watched, Followed, Exists, Compared,
              SafeAtOneMoment
<1> QED BY <1>1, CallSafe, DesktopSafe DEF Next

(***************************************************************************)
(* The promise of windows_target.py's assess: "ok" only if, at one moment  *)
(* of it, the captured control had the focus and all the tests would have  *)
(* held at once, unless the control itself was exchanged under the call.   *)
(***************************************************************************)
THEOREM TargetSafeAtOneMoment == Spec => []SafeAtOneMoment
<1> QED BY SafetyInit, SafetyNext, PTL DEF Spec, IInv

-----------------------------------------------------------------------------
(***************************************************************************)
(* What a capture without a change of the desktop has read is still what   *)
(* there is, down to the creation time of the process.                     *)
(***************************************************************************)
Focused == IF focus # None THEN focus ELSE foreground

Shown(identity) ==
  /\ foreground # None /\ owner[foreground] # None
  /\ identity.top_window = foreground
  /\ identity.process_id = owner[foreground]
  /\ identity.focused_control = Focused
  /\ identity.process_marker = process[owner[foreground]].marker

QuietCaptures == \A k \in quiet : captured[k] # Unread => Shown(captured[k])

(***************************************************************************)
(* So is what the call under way has read so far, be it a capture or an    *)
(* assessment.                                                             *)
(***************************************************************************)
QuietReading ==
  key \in quiet =>
    /\ pc = "is_window" => captured[key] # Unread
    /\ pc \in Asking \ {"is_window", "foreground"} =>
         foreground # None /\ current.top_window = foreground
    /\ pc \in Asking \ {"is_window", "foreground", "thread"} =>
         owner[foreground] # None /\ current.process_id = owner[foreground]
    /\ pc \in Late => current.focused_control = Focused
    /\ pc \in {"class", "style"} => ~(process[current.process_id].rid > OwnRid)
    /\ pc = "style" => /\ Exists(current.focused_control)
                       /\ kind[current.focused_control] # "other"

QuietInv == IInv /\ QuietCaptures /\ QuietReading /\ QuietVerdict

\* Nothing has been captured.
(***************************************************************************)
(* The quiet invariant, at first and in every step.                        *)
(***************************************************************************)
LEMMA QuietInit == Init => QuietInv
BY SafetyInit DEF Init, QuietInv, QuietCaptures, QuietReading, QuietVerdict

\* Any change ends the quiet.
LEMMA DesktopQuiet == QuietInv /\ Desktop => QuietInv'
<1> SUFFICES ASSUME QuietInv, Desktop  PROVE QuietInv'
  OBVIOUS
<1>1. quiet' = {}
  BY DEF Desktop, FocusMoves, ControlRestyled, ControlDestroyed, ControlCreated,
         WindowCloses, ProcessExits, ProcessStarts, Change
<1>2. IInv'
  BY DesktopSafe DEF QuietInv
<1> QED BY <1>1, <1>2 DEF QuietInv, QuietCaptures, QuietReading, QuietVerdict

(***************************************************************************)
(* On a quiet desktop the foreground window and its process are there.     *)
(***************************************************************************)
LEMMA QuietForeground ==
  ASSUME IInv, foreground # None, owner[foreground] # None
  PROVE  /\ foreground \in Tops /\ owner[foreground] \in Pids
         /\ process[owner[foreground]] # NoProcess
         /\ process[owner[foreground]].marker \in Nat
         /\ process[owner[foreground]].marker # None
<1>1. foreground \in Tops /\ owner[foreground] \in Pids
  BY DEF IInv, Typed, TypeOK
<1>2. process[owner[foreground]] # NoProcess
  BY <1>1 DEF IInv, Grounded
<1>3. process[owner[foreground]] \in Process
  BY <1>1 DEF IInv, Typed, TypeOK
<1>4. process[owner[foreground]].marker \in Nat
  BY <1>2, <1>3 DEF Process
<1> QED BY <1>1, <1>2, <1>4, TargetAssumption

(***************************************************************************)
(* A question that leads on keeps what was read; an answer must be the     *)
(* right one; and a capture that fails leaves nothing.                     *)
(***************************************************************************)
LEMMA AskQuiet ==
  ASSUME QuietInv, IInv', UNCHANGED desktop, NEW q \in Asking, Ask(q), QuietReading'
  PROVE  QuietInv'
BY DEF Ask, QuietInv, QuietCaptures, QuietVerdict, Shown, Focused, desktop, Asking

LEMMA AnswerQuiet ==
  ASSUME QuietInv, IInv', UNCHANGED desktop, NEW v, Answer(v), QuietVerdict'
  PROVE  QuietInv'
BY DEF Answer, QuietInv, QuietCaptures, QuietReading, Shown, Focused, desktop, Asking,
       Late

LEMMA NoIdentityQuiet ==
  ASSUME QuietInv, IInv', UNCHANGED desktop, NoIdentity,
         key \in quiet /\ captured[key] # Unread => denied'
  PROVE  QuietInv'
<1>1. CASE captured[key] = Unread
  BY <1>1, TargetAssumption
     DEF NoIdentity, QuietInv, QuietCaptures, QuietReading, QuietVerdict, Shown,
         Focused, desktop, Asking, Late, IInv, Typed, TypeOK
<1>2. CASE captured[key] # Unread
  <2>1. Answer("target_unavailable")
    BY <1>2 DEF NoIdentity
  <2>2. QuietVerdict'
    BY <1>2, <2>1 DEF Answer, QuietVerdict
  <2> QED BY <2>1, <2>2, AnswerQuiet
<1> QED BY <1>1, <1>2

LEMMA CallQuiet == QuietInv /\ Call => QuietInv'
<1> SUFFICES ASSUME QuietInv, Call  PROVE QuietInv'
  OBVIOUS
<1>1. IInv /\ IInv' /\ Typed /\ quiet \subseteq Keys
  BY CallSafe DEF QuietInv, IInv, Typed, TypeOK
<1> USE DEF Asking, Late
<1>2. ASSUME NEW k \in Keys, Capture(k)  PROVE QuietInv'
  <2>1. QuietCaptures'
    BY <1>2 DEF Capture, QuietInv, QuietCaptures, Shown, Focused, desktop
  <2>2. QuietReading' /\ QuietVerdict'
    BY <1>2 DEF Capture, QuietReading, QuietVerdict
  <2> QED BY <1>1, <2>1, <2>2 DEF QuietInv
<1>3. ASSUME NEW k \in Keys, Assess(k)  PROVE QuietInv'
  <2>1. QuietCaptures'
    BY <1>3 DEF Assess, QuietInv, QuietCaptures, Shown, Focused, desktop
  <2>2. QuietReading' /\ QuietVerdict'
    BY <1>3 DEF Assess, QuietReading, QuietVerdict
  <2> QED BY <1>1, <2>1, <2>2 DEF QuietInv
<1>4. CASE is_window
  <2>1. UNCHANGED <<desktop, current, denied>> /\ pc = "is_window"
    BY <1>4 DEF is_window
  <2>2. CASE Ask("foreground")
    <3>1. QuietReading'
      BY <2>1, <2>2 DEF Ask, QuietReading
    <3> QED BY <1>1, <2>1, <2>2, <3>1, AskQuiet
  <2>3. CASE Answer("target_unavailable") /\ owner[captured[key].top_window] = None
    <3>1. key \notin quiet
      BY <2>1, <2>3 DEF QuietInv, QuietReading, QuietCaptures, Shown
    <3>2. QuietVerdict'
      BY <2>3, <3>1 DEF Answer, QuietVerdict
    <3> QED BY <1>1, <2>1, <2>3, <3>2, AnswerQuiet
  <2> QED BY <1>4, <2>2, <2>3 DEF is_window
<1>5. CASE ReadForeground
  <2>1. UNCHANGED <<desktop, denied>> /\ pc = "foreground"
    BY <1>5 DEF ReadForeground
  <2>2. CASE foreground = None /\ NoIdentity
    <3>1. key \in quiet => captured[key] = Unread
      BY <2>2 DEF QuietInv, QuietCaptures, Shown
    <3> QED BY <1>1, <2>1, <2>2, <3>1, NoIdentityQuiet
  <2>3. CASE /\ foreground # None /\ Ask("thread")
             /\ current' = [current EXCEPT !.top_window = foreground]
    <3>1. current'.top_window = foreground
      BY <1>1, <2>3 DEF Typed, TypeOK, WindowsIdentity
    <3>2. QuietReading'
      BY <2>1, <2>3, <3>1 DEF Ask, QuietReading, desktop
    <3> QED BY <1>1, <2>1, <2>3, <3>2, AskQuiet
  <2> QED BY <1>5, <2>2, <2>3 DEF ReadForeground
<1>6. CASE ReadThread
  <2>1. UNCHANGED <<desktop, denied>> /\ pc = "thread"
    BY <1>6 DEF ReadThread
  <2>2. key \in quiet => foreground # None /\ current.top_window = foreground
    BY <2>1 DEF QuietInv, QuietReading
  <2>3. CASE owner[current.top_window] = None /\ NoIdentity
    <3>1. key \in quiet => captured[key] = Unread
      BY <2>2, <2>3 DEF QuietInv, QuietCaptures, Shown
    <3> QED BY <1>1, <2>1, <2>3, <3>1, NoIdentityQuiet
  <2>4. CASE /\ owner[current.top_window] # None /\ Ask("focus")
             /\ current' = [current EXCEPT !.process_id = owner[current.top_window]]
    <3>1. /\ current'.process_id = owner[current.top_window]
          /\ current'.top_window = current.top_window
      BY <1>1, <2>4 DEF Typed, TypeOK, WindowsIdentity
    <3>2. QuietReading'
      BY <2>1, <2>2, <2>4, <3>1 DEF Ask, QuietReading, desktop
    <3> QED BY <1>1, <2>1, <2>4, <3>2, AskQuiet
  <2> QED BY <1>6, <2>3, <2>4 DEF ReadThread
<1>7. CASE ReadFocus
  <2>1. UNCHANGED <<desktop, denied>> /\ pc = "focus"
    BY <1>7 DEF ReadFocus
  <2>2. key \in quiet => /\ foreground # None /\ current.top_window = foreground
                         /\ owner[foreground] # None
                         /\ current.process_id = owner[foreground]
    BY <2>1 DEF QuietInv, QuietReading
  <2>3. CASE process[current.process_id] = NoProcess /\ NoIdentity
    <3>1. key \notin quiet
      BY <1>1, <2>2, <2>3, QuietForeground
    <3> QED BY <1>1, <2>1, <2>3, <3>1, NoIdentityQuiet
  <2>4. CASE /\ Ask("marker")
             /\ current' = [current EXCEPT !.focused_control = FocusedOf(current)]
    <3>1. /\ current'.focused_control = FocusedOf(current)
          /\ current'.process_id = current.process_id
          /\ current'.top_window = current.top_window
      BY <1>1, <2>4 DEF Typed, TypeOK, WindowsIdentity
    <3>2. key \in quiet => FocusedOf(current) = Focused
      BY <2>2 DEF FocusedOf, Focused
    <3>3. QuietReading'
      BY <2>1, <2>2, <2>4, <3>1, <3>2 DEF Ask, QuietReading, Focused, desktop
    <3> QED BY <1>1, <2>1, <2>4, <3>3, AskQuiet
  <2> QED BY <1>7, <2>3, <2>4 DEF ReadFocus
<1>8. CASE ReadMarker
  <2>1. PICK marker \in _process_creation_marker(current.process_id) :
          ReadMarker!2!(marker)
    BY <1>8 DEF ReadMarker
  <2> DEFINE identity == [current EXCEPT !.process_marker = marker]
  <2>2. /\ UNCHANGED desktop /\ key \in Keys /\ pc = "marker" /\ current' = identity
        /\ denied' = (denied \/ marker = None)
    BY <1>1, <1>8, <2>1 DEF ReadMarker, Typed, Ordered
  <2>3. /\ identity.top_window = current.top_window
        /\ identity.process_id = current.process_id
        /\ identity.focused_control = current.focused_control
        /\ identity.process_marker = marker
        /\ identity = [top_window |-> current.top_window,
                       process_id |-> current.process_id,
                       focused_control |-> current.focused_control,
                       process_marker |-> marker]
    BY <1>1 DEF Typed, TypeOK, WindowsIdentity
  <2>4. marker # None => marker = process[current.process_id].marker
    BY DEF _process_creation_marker, Refusable
  <2>5. key \in quiet => /\ foreground # None /\ current.top_window = foreground
                         /\ owner[foreground] # None
                         /\ current.process_id = owner[foreground]
                         /\ current.focused_control = Focused
    BY <2>2 DEF QuietInv, QuietReading
  <2>6. key \in quiet /\ marker # None => Shown(identity)
    BY <2>3, <2>4, <2>5 DEF Shown
  <2> HIDE DEF identity
  <2>7. CASE marker = None /\ NoIdentity
    BY <1>1, <2>2, <2>7, NoIdentityQuiet
  <2>8. CASE /\ marker # None /\ pc' = "idle" /\ key' = None
             /\ captured' = [captured EXCEPT ![key] = identity]
             /\ UNCHANGED quiet
    <3>1. QuietCaptures'
      <4> SUFFICES ASSUME NEW k \in quiet, captured'[k] # Unread
                   PROVE  Shown(captured'[k])
        BY <2>2, <2>8 DEF QuietCaptures, Shown, Focused, desktop
      <4>1. k \in Keys /\ captured \in [Keys -> WindowsIdentity]
        BY <1>1 DEF Typed, TypeOK
      <4>2. CASE k = key
        BY <4>1, <4>2, <2>6, <2>8
      <4>3. CASE k # key
        BY <4>1, <4>3, <2>8 DEF QuietInv, QuietCaptures
      <4> QED BY <4>2, <4>3
    <3>2. None \notin quiet
      BY <1>1, TargetAssumption
    <3>3. QuietReading' /\ QuietVerdict'
      BY <2>8, <3>2 DEF QuietReading, QuietVerdict
    <3> QED BY <1>1, <3>1, <3>3 DEF QuietInv
  <2>9. CASE /\ marker # None /\ captured[key] # Unread
             /\ IF _same_identity(captured[key], identity)
                  THEN Ask("integrity") ELSE Answer("target_changed")
    <3>1. key \in quiet => captured[key] = identity
      <4> SUFFICES ASSUME key \in quiet  PROVE captured[key] = identity
        OBVIOUS
      <4>1. Shown(captured[key]) /\ captured[key] \in WindowsIdentity
        BY <1>1, <2>2, <2>9 DEF QuietInv, QuietCaptures, Typed, TypeOK
      <4>2. captured[key] = [top_window |-> captured[key].top_window,
                             process_id |-> captured[key].process_id,
                             focused_control |-> captured[key].focused_control,
                             process_marker |-> captured[key].process_marker]
        BY <4>1 DEF WindowsIdentity
      <4>3. /\ captured[key].top_window = current.top_window
            /\ captured[key].process_id = current.process_id
            /\ captured[key].focused_control = current.focused_control
            /\ captured[key].process_marker = marker
        BY <4>1, <2>4, <2>5, <2>9 DEF Shown
      <4> QED BY <4>2, <4>3, <2>3
    <3>2. CASE Ask("integrity")
      <4>1. QuietReading'
        BY <2>2, <2>3, <2>5, <3>2 DEF Ask, QuietReading, Focused, desktop
      <4> QED BY <1>1, <2>2, <3>2, <4>1, AskQuiet
    <3>3. CASE Answer("target_changed") /\ captured[key] # identity
      <4>1. QuietVerdict'
        BY <3>1, <3>3 DEF Answer, QuietVerdict
      <4> QED BY <1>1, <2>2, <3>3, <4>1, AnswerQuiet
    <3> QED BY <2>9, <3>2, <3>3 DEF _same_identity
  <2> QED BY <2>1, <2>7, <2>8, <2>9 DEF identity
<1>9. ASSUME pc \in {"integrity", "class", "style"}
      PROVE  captured[key] = current /\ key \in Keys
  BY <1>1, <1>9 DEF IInv, Compared, Typed, Ordered
<1>10. CASE ReadIntegrity
  <2>1. PICK elevated \in is_higher_integrity(current.process_id) :
          /\ denied' = (denied \/ elevated = None)
          /\ CASE elevated = None -> Answer("target_unavailable")
               [] elevated = TRUE -> Answer("target_elevated")
               [] OTHER           -> Ask("class")
    BY <1>10 DEF ReadIntegrity
  <2>2. UNCHANGED <<desktop, current>> /\ pc = "integrity" /\ captured[key] = current
    BY <1>9, <1>10 DEF ReadIntegrity
  <2> DEFINE rid == process[current.process_id].rid
  <2>3. elevated # None => elevated = (rid > OwnRid)
    BY DEF is_higher_integrity, _integrity_rid_for_process, Refusable
  <2>4. None # TRUE
    BY TargetAssumption
  <2>5. CASE elevated = None
    <3>1. Answer("target_unavailable")
      BY <2>1, <2>4, <2>5
    <3>2. QuietVerdict'
      BY <2>1, <2>5 DEF QuietVerdict
    <3> QED BY <1>1, <2>2, <3>1, <3>2, AnswerQuiet
  <2>6. CASE elevated = TRUE
    <3>1. Answer("target_elevated") /\ rid > OwnRid
      BY <2>1, <2>3, <2>4, <2>6
    <3>2. QuietVerdict'
      BY <2>2, <3>1 DEF Answer, QuietVerdict, desktop
    <3> QED BY <1>1, <2>2, <3>1, <3>2, AnswerQuiet
  <2>7. CASE elevated # None /\ elevated # TRUE
    <3>1. Ask("class") /\ ~(rid > OwnRid)
      BY <2>1, <2>3, <2>7
    <3>2. QuietReading'
      BY <2>2, <3>1 DEF Ask, QuietInv, QuietReading, Focused, desktop
    <3> QED BY <1>1, <2>2, <3>1, <3>2, AskQuiet
  <2> QED BY <2>5, <2>6, <2>7
<1>11. CASE ReadClass
  <2> DEFINE c == current.focused_control
  <2>1. /\ UNCHANGED <<desktop, current, denied>> /\ pc = "class"
        /\ captured[key] = current
    BY <1>9, <1>11 DEF ReadClass
  <2>2. CASE Exists(c) /\ kind[c] # "other" /\ Ask("style")
    <3>1. QuietReading'
      BY <2>1, <2>2 DEF Ask, QuietInv, QuietReading, Focused, Exists, desktop
    <3> QED BY <1>1, <2>1, <2>2, <3>1, AskQuiet
  <2>3. CASE ~(Exists(c) /\ kind[c] # "other") /\ Answer("target_unavailable")
    <3>1. key \in quiet => ~(process[current.process_id].rid > OwnRid)
      BY <2>1 DEF QuietInv, QuietReading
    <3>2. QuietVerdict'
      BY <2>1, <2>3, <3>1 DEF Answer, QuietVerdict, Exists, desktop
    <3> QED BY <1>1, <2>1, <2>3, <3>2, AnswerQuiet
  <2> QED BY <1>11, <2>2, <2>3 DEF ReadClass
<1>12. CASE ReadStyle
  <2> DEFINE c == current.focused_control
  <2>1. /\ UNCHANGED <<desktop, current, denied>> /\ pc = "style"
        /\ captured[key] = current
    BY <1>9, <1>12 DEF ReadStyle
  <2>2. key \in quiet => /\ ~(process[current.process_id].rid > OwnRid)
                         /\ Exists(c) /\ kind[c] \in {"edit", "password"}
    <3> SUFFICES ASSUME key \in quiet
                 PROVE  /\ ~(process[current.process_id].rid > OwnRid)
                        /\ Exists(c) /\ kind[c] \in {"edit", "password"}
      OBVIOUS
    <3>1. /\ ~(process[current.process_id].rid > OwnRid)
          /\ Exists(c) /\ kind[c] # "other"
      BY <2>1 DEF QuietInv, QuietReading
    <3>2. kind[c] \in Kind
      BY <1>1, <3>1 DEF Exists, Typed, TypeOK
    <3> QED BY <3>1, <3>2 DEF Kind
  <2>3. PICK v : /\ Answer(v)
                 /\ \/ ~Exists(c) /\ v = "target_unavailable"
                    \/ kind[c] # "edit" /\ v = "target_protected"
                    \/ kind[c] # "password" /\ v = "ok"
    BY <1>12 DEF ReadStyle
  <2>4. QuietVerdict'
    BY <2>1, <2>2, <2>3 DEF Answer, QuietVerdict, Exists, desktop
  <2> QED BY <1>1, <2>1, <2>3, <2>4, AnswerQuiet
<1>13. CASE Return
  <2>1. None \notin quiet
    BY <1>1, TargetAssumption
  <2> QED BY <1>1, <1>13, <2>1
          DEF Return, QuietInv, QuietCaptures, QuietReading, QuietVerdict, Shown,
              Focused, desktop, history
<1> QED BY <1>2, <1>3, <1>4, <1>5, <1>6, <1>7, <1>8, <1>10, <1>11, <1>12, <1>13 DEF Call

(***************************************************************************)
(* On a desktop that stands still an assessment that Windows answers in    *)
(* full says what the target is: neither a false alarm nor a false "ok".   *)
(***************************************************************************)
THEOREM TargetQuietVerdict == Spec => []QuietVerdict
<1>1. QuietInv /\ [Next]_vars => QuietInv'
  <2> SUFFICES ASSUME QuietInv, [Next]_vars  PROVE QuietInv'
    OBVIOUS
  <2>1. CASE UNCHANGED vars
    <3>1. IInv'
      BY <2>1, SafetyNext DEF QuietInv
    <3> QED BY <2>1, <3>1
            DEF vars, desktop, adapter, history, QuietInv, QuietCaptures, QuietReading,
                QuietVerdict, Shown, Focused, Exists
  <2> QED BY <2>1, CallQuiet, DesktopQuiet DEF Next
<1> QED BY <1>1, QuietInit, PTL DEF Spec, QuietInv
=============================================================================
