---------------------------- MODULE InputInjector ----------------------------
(***************************************************************************)
(* WindowsInputInjector (windows_injector.py): one call at a time (the     *)
(* service holds its delivery lock) sends a batch of synthetic key events  *)
(* with SendInput.  A batch may be cut short or the call may raise after   *)
(* any prefix; the keys that may be left down are then released one by     *)
(* one, three tries each.  A release that is not confirmed poisons the     *)
(* injector for the rest of the process.                                   *)
(***************************************************************************)
EXTENDS InsertionContracts, Naturals, SequencesExt

CONSTANTS
  Letters,   \* characters of one UTF-16 code unit but line breaks
  MaxChars,  \* bound on the length of the texts typed directly
  MaxCalls   \* bound on the calls of the injector

ASSUME InjectorAssumption ==
  /\ Letters \cap {"ctrl", "v", "lf", "cr", "astral", "high", "low"} = {}
  /\ MaxChars \in Nat
  /\ MaxCalls \in Nat

VARIABLES
  pc,         \* where the current call is
  poisoned,   \* _cleanup_failed
  held,       \* the user holds a physical modifier
  down,       \* synthetic keys the system considers pressed
  batch,      \* the events of the current call
  todo,       \* keys still to be released, and in which order
  tries,      \* sends tried for the first of them
  unreleased, \* some key was given up (not cleanup_succeeded)
  result,     \* what the call returns
  ready,      \* prepare_dispatch answered True for the dispatch to come
  clean,      \* history: the injector was not poisoned when called
  counted,    \* history: SendInput told how many events it took
  lifted,     \* history: all modifiers were up since the dispatch began
  calls       \* calls made so far

vars == <<pc, poisoned, held, down, batch, todo, tries, unreleased, result,
          ready, clean, counted, lifted, calls>>

Attempts == 3
Chars == Letters \cup {"lf", "cr", "astral"}
Units == Letters \cup {"lf", "high", "low"}
Keys == Units \cup {"ctrl", "v"}
KeyEvent == [key : Keys, up : BOOLEAN]
Press(k) == [key |-> k, up |-> FALSE]
Lift(k) == [key |-> k, up |-> TRUE]

PasteEvents == <<Press("ctrl"), Press("v"), Lift("v"), Lift("ctrl")>>

(***************************************************************************)
(* CR LF and CR become LF, a character beyond the BMP two surrogates.  A   *)
(* text that does not encode raises before anything else; InsertionService *)
(* has those.                                                              *)
(***************************************************************************)
_utf16_code_units(text) ==
  LET beforeLf(i) == i < Len(text) /\ text[i + 1] = "lf"
      units(i) == CASE text[i] = "astral" -> <<"high", "low">>
                    [] text[i] = "cr" -> IF beforeLf(i) THEN <<>> ELSE <<"lf">>
                    [] OTHER -> <<text[i]>>
  IN FlattenSeq([i \in DOMAIN text |-> units(i)])

UnicodeEvents(text) ==
  LET units == _utf16_code_units(text)
  IN FlattenSeq([i \in DOMAIN units |-> <<Press(units[i]), Lift(units[i])>>])

Batches ==
  {PasteEvents} \cup {UnicodeEvents(text) : text \in SeqOf(Chars, MaxChars)}

\* CtypesInputApi.send: SendInput inserts the first so many of the events.
send(events) == {SubSeq(events, 1, n) : n \in 0..Len(events)}

(***************************************************************************)
(* The keys that events leave pressed in the system.                       *)
(***************************************************************************)
DownAfter(events) ==
  { k \in Keys :
      \E i \in DOMAIN events :
        /\ events[i] = Press(k)
        /\ \A j \in i..Len(events) : events[j] # Lift(k) }

(***************************************************************************)
(* The events that press a key: what is released after a send that raised. *)
(***************************************************************************)
KeyDowns(events) ==
  LET downs[n \in 0..Len(events)] ==
        IF n = 0 THEN <<>>
        ELSE IF events[n].up THEN downs[n - 1]
        ELSE Append(downs[n - 1], events[n])
  IN downs[Len(events)]

\* Mutant: key-ups do not cancel the presses before them.
AllPressed(events) ==
  [i \in DOMAIN KeyDowns(events) |-> KeyDowns(events)[i].key]

(***************************************************************************)
(* What _release_synthetic_keys computes before it sends anything, one     *)
(* event after the other: presses in order, each key-up removing one press *)
(* of its key, if there is one.                                            *)
(***************************************************************************)
Pressed(events) ==
  LET pressed[n \in 0..Len(events)] ==
        IF n = 0 THEN <<>>
        ELSE IF events[n].up THEN RemoveFirst(pressed[n - 1], events[n].key)
        ELSE Append(pressed[n - 1], events[n].key)
  IN pressed[Len(events)]

\* GetAsyncKeyState sees a synthetic Ctrl that is still down, too.
ModifiersDown == held \/ "ctrl" \in down

Idle == [code |-> "ok", sent |-> FALSE, poisons |-> FALSE]

Init ==
  /\ pc = "idle"
  /\ poisoned = FALSE
  /\ held = FALSE
  /\ down = {}
  /\ batch = <<>>
  /\ todo = <<>>
  /\ tries = 0
  /\ unreleased = FALSE
  /\ result = Idle
  /\ ready = FALSE
  /\ clean = TRUE
  /\ counted = TRUE
  /\ lifted = TRUE
  /\ calls = 0

(***************************************************************************)
(* prepare_dispatch, called by the service before its last assessment of   *)
(* the target and by a dispatch that was not prepared: what it answers     *)
(* once the modifiers are up or the deadline has passed.                   *)
(***************************************************************************)
prepare_dispatch == ~poisoned /\ ~ModifiersDown

Prepare ==
  /\ pc = "idle"
  /\ calls < MaxCalls
  /\ calls' = calls + 1
  /\ pc' = "preflight"
  /\ UNCHANGED <<poisoned, held, down, batch, todo, tries, unreleased, result,
                 ready, clean, counted, lifted>>

\* An interrupt of the wait leaves the call like a refusal does.
Preflight ==
  /\ pc = "preflight"
  /\ pc' = "idle"
  /\ ready' \in {prepare_dispatch, FALSE}
  /\ UNCHANGED <<poisoned, held, down, batch, todo, tries, unreleased, result,
                 clean, counted, lifted, calls>>

(***************************************************************************)
(* dispatch_paste or dispatch_unicode, up to the modifier wait.  Only a    *)
(* call that was not prepared waits; the service prepares every dispatch   *)
(* and keeps to the answer.                                                *)
(***************************************************************************)
Dispatch(events, prepared) ==
  /\ pc = "idle"
  /\ calls < MaxCalls
  /\ prepared => ready
  /\ calls' = calls + 1
  /\ ready' = FALSE
  /\ batch' = events
  /\ clean' = ~poisoned
  /\ counted' = TRUE
  /\ lifted' = ~ModifiersDown
  /\ unreleased' = FALSE
  /\ IF poisoned
       THEN /\ pc' = "done"
            /\ result' = [code |-> "cleanup_failed", sent |-> FALSE, poisons |-> TRUE]
       ELSE /\ pc' = IF prepared THEN "gate" ELSE "wait"
            /\ UNCHANGED result
  /\ UNCHANGED <<poisoned, held, down, todo, tries>>

Return(code, sent) ==
  /\ pc' = "done"
  /\ result' = [code |-> code, sent |-> sent, poisons |-> poisoned']

\* Mutant: the wait for the modifiers has no deadline.
WaitForever ==
  /\ pc = "wait"
  /\ prepare_dispatch
  /\ pc' = "gate"
  /\ UNCHANGED <<result, poisoned, held, down, batch, todo, tries, unreleased,
                 ready, clean, counted, lifted, calls>>

(***************************************************************************)
(* _wait_for_released_modifiers polls until the deadline, or until it is   *)
(* interrupted.                                                            *)
(***************************************************************************)
Wait ==
  /\ pc = "wait"
  /\ UNCHANGED poisoned
  /\ \/ prepare_dispatch /\ pc' = "gate" /\ UNCHANGED result
     \/ ~prepare_dispatch /\ Return("dispatch_failed", FALSE)
     \/ Return("raised", FALSE)
  /\ UNCHANGED <<held, down, batch, todo, tries, unreleased, ready, clean,
                 counted, lifted, calls>>

\* Mutant: the check right before the input trusts the service's wait.
GateBlind ==
  /\ pc = "gate"
  /\ pc' = "send"
  /\ UNCHANGED <<poisoned, held, down, batch, todo, tries, unreleased, result,
                 ready, clean, counted, lifted, calls>>

(***************************************************************************)
(* The check right before the input does not wait.  An interrupt there     *)
(* leaves the call with nothing sent.                                      *)
(***************************************************************************)
Gate ==
  /\ pc = "gate"
  /\ UNCHANGED poisoned
  /\ \/ ~ModifiersDown /\ pc' = "send" /\ UNCHANGED result
     \/ ModifiersDown /\ Return("dispatch_failed", FALSE)
     \/ Return("raised", FALSE)
  /\ UNCHANGED <<held, down, batch, todo, tries, unreleased, ready, clean,
                 counted, lifted, calls>>

\* Mutant: a complete batch leaves the injector marked as poisoned.
SendAllStaysPoisoned ==
  /\ pc = "send"
  /\ down' = DownAfter(batch)
  /\ poisoned' = TRUE
  /\ Return("ok", TRUE)
  /\ UNCHANGED <<held, batch, todo, tries, unreleased, ready, clean, counted,
                 lifted, calls>>

(***************************************************************************)
(* _send_complete: the injector counts as poisoned from before the send    *)
(* until the batch or its cleanup is known to be complete.                 *)
(***************************************************************************)
SendAll ==
  /\ pc = "send"
  /\ down' = DownAfter(batch)
  /\ poisoned' = FALSE
  /\ Return("ok", TRUE)
  /\ UNCHANGED <<held, batch, todo, tries, unreleased, ready, clean, counted,
                 lifted, calls>>

SendPart(taken) ==
  /\ pc = "send"
  /\ down' = DownAfter(taken)
  /\ poisoned' = TRUE
  /\ pc' = "cleanup"
  /\ todo' = Reverse(Pressed(taken))
  /\ UNCHANGED <<held, batch, tries, unreleased, result, ready, clean, counted,
                 lifted, calls>>

\* Mutant: a send that raised is taken to have put nothing through.
SendRaisesUnsent(taken) ==
  /\ pc = "send"
  /\ down' = DownAfter(taken)
  /\ poisoned' = TRUE
  /\ pc' = "cleanup"
  /\ todo' = <<>>
  /\ counted' = FALSE
  /\ UNCHANGED <<held, batch, tries, unreleased, result, ready, clean,
                 lifted, calls>>

(***************************************************************************)
(* A send that raises may have put any prefix of the batch through: every  *)
(* key the batch presses is released.                                      *)
(***************************************************************************)
SendRaises(taken) ==
  /\ pc = "send"
  /\ down' = DownAfter(taken)
  /\ poisoned' = TRUE
  /\ pc' = "cleanup"
  /\ todo' = Reverse(Pressed(KeyDowns(batch)))
  /\ counted' = FALSE
  /\ UNCHANGED <<held, batch, tries, unreleased, result, ready, clean,
                 lifted, calls>>

\* Mutant: the tries of one key count for the next one, too.
NextKeyTired(givenUp) ==
  /\ todo' = Tail(todo)
  /\ tries' = tries + 1
  /\ unreleased' = (unreleased \/ givenUp)

NextKey(givenUp) ==
  /\ todo' = Tail(todo)
  /\ tries' = 0
  /\ unreleased' = (unreleased \/ givenUp)

(***************************************************************************)
(* One try at releasing the first key: confirmed, or not confirmed (the    *)
(* send took nothing, or raised with or without effect).                   *)
(***************************************************************************)
ReleaseTry ==
  /\ pc = "cleanup"
  /\ todo # <<>>
  /\ \/ down' = down \ {Head(todo)} /\ NextKey(FALSE)
     \/ /\ down' \in {down, down \ {Head(todo)}}
        /\ IF tries + 1 < Attempts
             THEN tries' = tries + 1 /\ UNCHANGED <<todo, unreleased>>
             ELSE NextKey(TRUE)
  /\ UNCHANGED <<pc, poisoned, held, batch, result, ready, clean, counted,
                 lifted, calls>>

\* Mutant: the poison is lifted whether or not every key was released.
CleanupAlwaysLifts ==
  /\ pc = "cleanup"
  /\ todo = <<>>
  /\ poisoned' = FALSE
  /\ Return("dispatch_failed", TRUE)
  /\ UNCHANGED <<held, down, batch, todo, tries, unreleased, ready, clean,
                 counted, lifted, calls>>

CleanupDone ==
  /\ pc = "cleanup"
  /\ todo = <<>>
  /\ poisoned' = unreleased
  /\ Return(IF unreleased THEN "cleanup_failed" ELSE "dispatch_failed", TRUE)
  /\ UNCHANGED <<held, down, batch, todo, tries, unreleased, ready, clean,
                 counted, lifted, calls>>

(***************************************************************************)
(* An interrupt between the tries leaves the call, still poisoned.         *)
(***************************************************************************)
CleanupInterrupted ==
  /\ pc = "cleanup"
  /\ UNCHANGED poisoned
  /\ Return("raised", TRUE)
  /\ todo' = <<>>
  /\ tries' = 0
  /\ UNCHANGED <<held, down, batch, unreleased, ready, clean, counted, lifted,
                 calls>>

Back ==
  /\ pc = "done"
  /\ pc' = "idle"
  /\ result' = Idle
  /\ batch' = <<>>
  /\ UNCHANGED <<poisoned, held, down, todo, tries, unreleased, ready, clean,
                 counted, lifted, calls>>

User ==
  /\ held' = ~held
  /\ lifted' = (lifted \/ ~(held' \/ "ctrl" \in down))
  /\ UNCHANGED <<pc, poisoned, down, batch, todo, tries, unreleased, result,
                 ready, clean, counted, calls>>

Send ==
  \/ SendAll
  \/ \E taken \in send(batch) :
       (taken # batch /\ SendPart(taken)) \/ SendRaises(taken)

Step ==
  \/ Preflight
  \/ Wait
  \/ Gate
  \/ Send
  \/ ReleaseTry
  \/ CleanupDone
  \/ CleanupInterrupted
  \/ Back

Next ==
  \/ Prepare
  \/ \E events \in Batches, prepared \in BOOLEAN : Dispatch(events, prepared)
  \/ Step
  \/ User

(***************************************************************************)
(* Only the injector's own steps are fair: every loop in it is bounded by  *)
(* a deadline or a number of tries.                                        *)
(***************************************************************************)
Spec == Init /\ [][Next]_vars /\ WF_vars(Step)
-----------------------------------------------------------------------------
TypeOK ==
  /\ pc \in {"idle", "preflight", "wait", "gate", "send", "cleanup", "done"}
  /\ poisoned \in BOOLEAN
  /\ held \in BOOLEAN
  /\ down \subseteq Keys
  /\ batch \in Batches \cup {<<>>}
  /\ ToSet(todo) \subseteq Keys
  /\ tries \in 0..(Attempts - 1)
  /\ unreleased \in BOOLEAN
  /\ result \in DispatchResult
  /\ ready \in BOOLEAN
  /\ clean \in BOOLEAN
  /\ counted \in BOOLEAN
  /\ lifted \in BOOLEAN
  /\ calls \in 0..MaxCalls

(***************************************************************************)
(* A synthetic key that may still be down after a call means a poisoned    *)
(* injector: whatever prefix went through and whichever releases failed.   *)
(***************************************************************************)
StuckMeansPoisoned ==
  pc \in {"idle", "done"} /\ down # {} => poisoned

(***************************************************************************)
(* Every call comes to one of the results the service is built on, and a   *)
(* dispatch that was prepared with success finds no poisoned injector.     *)
(***************************************************************************)
KeepsContract ==
  /\ pc = "done" => /\ result \in DispatchContract(~clean)
                    /\ result.poisons = poisoned
  /\ ready => ~poisoned

(***************************************************************************)
(* New keys are only pressed on a clean keyboard: never over a stuck Ctrl  *)
(* or a stuck letter of an earlier call, and never with a modifier held    *)
(* that the user has been holding since before the dispatch was called,    *)
(* though it was only pressed after prepare_dispatch had waited for the    *)
(* modifiers.  One pressed later, between the last look and SendInput, the *)
(* code cannot see.                                                        *)
(***************************************************************************)
PressesOnCleanKeyboard ==
  [][~(down' \subseteq down) => down = {} /\ lifted]_vars

(***************************************************************************)
(* When SendInput told how many events it took, only keys this batch left  *)
(* pressed are released (test_partial_send_releases_only_synthetic_        *)
(* pressed_keys), up to a repeated try of a release that took effect.      *)
(***************************************************************************)
ReleasesOnlyPressed ==
  pc = "cleanup" /\ counted /\ todo # <<>> =>
    /\ ToSet(Tail(todo)) \subseteq down
    /\ tries = 0 => Head(todo) \in down

(***************************************************************************)
(* Every dispatch returns, even if the user never lets go of the modifiers *)
(* and no key is ever released.                                            *)
(***************************************************************************)
EveryDispatchReturns == pc # "idle" ~> pc = "idle"
=============================================================================
