# Nadikt: models, checks and proofs

Nadikt is a local dictation program under construction.  The repository holds two
bodies of code with behaviour worth modelling: the *Windows insertion spike*
(`experiments/windows_insertion/insertion_spike`), which puts a recognised text
into somebody else's window through the clipboard or synthetic keys, and the
*ASR benchmark* (`benchmarks/asr`, with the engine adapters in
`src/nadikt/infrastructure/asr`), which runs speech recognisers in supervised
child processes and publishes aggregated results.  This directory models their
control in TLA+, model-checks it with TLC and proves what matters most of both
with TLAPS.

## 1. The system

### Windows insertion spike

| Part | State it keeps | Operations |
|---|---|---|
| `InsertionService` (`service.py`) | `_delivery_lock`, `_state_lock`, `_attempted_request_ids`, `_retained_results`, `_retained_snapshots` | `deliver`, `restore_original`, `discard_original`, `retained_result`, `retained_snapshot` |
| `WindowsClipboardAdapter` (`windows_clipboard.py`) | `_prepared_state`; one `WindowsClipboardState` per snapshot (`original_items`, `sequence_before_mutation`, `mutation_sequence`) | `prepare`, `commit_mutation`, `restore`, `discard`, `close` |
| `WindowsInputInjector` (`windows_injector.py`) | `_cleanup_failed` | `prepare_dispatch`, `dispatch_paste`, `dispatch_unicode` |
| `WindowsTargetAdapter` (`windows_target.py`) | `_captured_identities`, one per token | `capture`, `assess` |
| the command line (`cli.py`) | the clipboard's owner window, the deferred SIGINT handler | `run`, `create_runtime`, the restoration dialogue |

`deliver` runs over the three adapters by plain calls: it assesses the target,
clones the clipboard (`prepare`), writes the text there (`commit_mutation`), waits
for the user's modifiers (`prepare_dispatch`), assesses the target again and sends
Ctrl+V; or it types the text directly.  The operator later restores or discards
the original clipboard.  The environment acts in between: other programs write the
clipboard, the user moves the focus and holds keys, every API call may fail, and a
Ctrl+C may raise inside any of them.

What makes it hard: several threads race for the delivery lock; the clipboard is
shared with programs that do not know of the lock; a paste that was queued cannot be
taken back, so the moment of restoring is a protocol with the operator; a batch of
key events may be cut short and leave a key down; an assessment of the target is a
dozen questions to Windows, and the focus may move, or a handle or a process id be
used again, between any two of them; a Ctrl+C may come at any place of the command
line, the clauses that clean up included.

What makes it correct: the user's clipboard content is never lost; a request is
attempted and sent at most once; the caller is told of every original held back; the
text pasted is the text of the request; input is not sent on the strength of an
assessment made before the wait for the modifiers; an assessment that ends well was
true at one moment; a key that may be stuck stops the injector; the command line does
not end over an original that is still held back, and gives back the window and the
signal handler it took.

### ASR benchmark

| Part | State it keeps | Operations |
|---|---|---|
| `WorkerSupervisor` (`worker_supervisor.py`) | one child process, captured output, a timeline | `run` |
| `_ResourceCollector` (same file) | `_samples`, `_missed_reasons`, `_stop_event`, a thread | `start`, `note_missed`, `finish`, `_run` |
| `resource_measurement.py`, `measurement_backends/linux_proc.py` | none | `ResourceReport.from_samples`, `phase_resource_report`, `LinuxProcTreeSampler.sample` |
| `FasterWhisperAsrEngine`, `GigaAMAsrEngine` | `_model`, `_inference_defaults`, `_cancel_requested` | `load`, `is_ready`, `warm_up`, `transcribe_segment`, `cancel`, `close` |
| `benchmark_worker.py` | the phases and samples of one request | `run_worker`, versions 1 and 2 |
| `worker_protocol.py` | none | `loads_request`, `loads_result`, `loads_result_v2` |
| `benchmark_runner.py`, `benchmark_results.py` | the aggregates of one run, the result file | `run_benchmark`, `_run_candidates`, `_publication_validity`, `write_result_atomic` |
| `quality_metrics.py` | none | `wer`, `cer`, `coding_term_accuracy` |
| `local_model_probe.py` | the phases of one package | `probe_local_models`, `_probe_one_package` |
| manifests, bindings, integrity, privacy and offline probes | none between calls | one validation or scan each |

The runner spawns one supervised worker per candidate and repeat, the package probe
one or two for a package.  The supervisor talks to a worker through pipes and signals
while its collector thread samples the process; the worker drives one engine through
its life cycle and answers with one JSON document.

What makes it hard: a timeout races a late answer; the collector thread and the parent
sample at the same time; the child may be gone, and its pid in other hands, when the
last sample is taken; an engine is cancelled or closed in the middle of a segment; a
failing phase must not be published as a success; a crash while the result is written.

What makes it correct: "completed" is only said of a worker that ended by itself,
cleanly, with its own well-formed answer; no child is left behind; a resource report
that calls itself "ok" rests on samples of that child; a worker that says success has run every sample and released its
engine; one cancel costs at most one segment; a run is publishable only if
every candidate and repeat succeeded.

## 2. The modules

| Module | Models | Kind |
|---|---|---|
| `InsertionContracts` | the values the parts exchange (`contracts.py`) and `DispatchContract`, what a dispatch may come to | definitions |
| `WindowsClipboard` | the clipboard, the other programs and the clipboard adapter | component |
| `InputInjector` | the injector and the keyboard, one key event at a time | component |
| `InputInjectorProofs` | theorems about `InputInjector`, for batches of any length | proofs |
| `OneShotDelivery` | the promise: attempt once, send once, hold back one original | abstract specification |
| `InsertionService` | the service; EXTENDS `WindowsClipboard` and uses the injector through `DispatchContract` | composition |
| `InsertionServiceProofs` | theorems about `InsertionService` for every value of its constants | proofs |
| `WindowsTarget` | the target adapter, one question to Windows at a time, over a desktop that changes | component |
| `WindowsTargetProofs` | theorems about `WindowsTarget` | proofs |
| `InsertionCli` | the command line, its operator and its Ctrl+C; EXTENDS `InsertionService` | composition |
| `InsertionCliProofs` | theorems about `InsertionCli`, from those of the service | proofs |
| `ResourceReport` | the reduction of a sequence of samples to a report | definitions |
| `WorkerSupervisor` | the parent, its collector thread and one worker; EXTENDS `ResourceReport` | component |
| `WorkerSupervisorProofs` | theorems about `WorkerSupervisor` | proofs |
| `AsrEngine` | what each method of the two adapters may come to | definitions |
| `AsrSession` | a two-thread client of the port; EXTENDS `AsrEngine` | component |
| `AsrSessionProofs` | theorems about `AsrSession` | proofs |
| `AsrWorker` | `benchmark_worker.py`, one request; EXTENDS `AsrEngine`; started by `BenchmarkRun` | component |
| `BenchmarkRun` | the runner, the result file and the package probe over their workers; EXTENDS `AsrWorker` | composition |
| `BenchmarkRunProofs` | theorems about `BenchmarkRun` and the worker in it | proofs |
| `LoopTheorems` | loops written as recursive functions, and induction over their turns; used by the proofs | lemmas |
| `MCInsertionService`, `MCInputInjector`, `MCWindowsTarget`, `MCInsertionCli`, `MCWorkerSupervisor`, `MCAsrSession`, `MCBenchmarkRun` | instances for TLC | model checking |

### WindowsClipboard

The clipboard is one content (`clip`) and the number
`GetClipboardSequenceNumber` returns (`seq`).  Contents are abstract: what other
programs put there (`Payloads`, some of them `Opaque`, that is with a format that
cannot be cloned), the `Texts` of requests, and `Torn`, what a failed replacement
leaves.  An adapter call is one step because it holds the clipboard open from its
first read to its last write, and Windows lets nobody else in meanwhile.  A snapshot
keeps the original, the sequence number `prepare` saw (`before`) and
`mutation_sequence` (`mut`, `NoSeq` for `None`).  Each method is the disjunction of
the ways it ends: `CommitOk` and, under `CommitRaises`, refused before anything was
touched, untouched (locked, or changed since `prepare`) and torn.  `user` is a history
variable: the content the user counts on, last set by another program's write or by an
explicit discard.

One assumption: no `KeyboardInterrupt` falls between a replacement and the assignment of
`mutation_sequence` after it (`windows_clipboard.py:116-118`, `136-139`), which would lose the
ownership marker.  Python raises it in the main thread only, and there the command line has
deferred SIGINT before it calls the service.

### InsertionService

One thread at a time holds `_delivery_lock`; the steps of `deliver` are the program
counter values between "register" and "release".  The sections under `_state_lock` are
single steps, so that lock has no variable.  A step ends where somebody else can
intervene with effect: after each adapter call.  `deliver` tries the lock and answers
busy without it (two steps, as in the code: the failing `acquire`, then the section
that registers the id); `restore_original` and `discard_original` wait for it.  An
adapter call may raise an `Exception`, which the code turns into an outcome (also a `prepare`
that raises, which the Windows adapter never does), or be
interrupted (`KeyboardInterrupt`), which passes through where the code says
`except Exception` and is caught where it says `except BaseException`; the value
"raised" stands for the latter.  `assess` is one step whose result is "ok" only if the
captured target is safe at that moment; `SafeAtOneMoment` of `WindowsTarget` is what
lets it be one step, with the exception that property names.  A cancelled delivery is
the choice "cancelled" in `Register`.

Left out: logging, durations, the identity tokens of the target, the distinction of
the four refusals of a target, and reads that change nothing (`retained_result`,
`retained_snapshot`).

### InputInjector

A call sends a batch: Ctrl+V, or a key-down and key-up per UTF-16 unit of a text, after CR LF
and CR became LF and a character beyond the BMP two surrogates (`_utf16_code_units`).
`prepare_dispatch` is a call of its own, as the service makes it, and its answer is `ready`
for the dispatch to come; the wait in it may be interrupted.  `SendInput` may take any
prefix, or raise after any prefix; `down` is what the system then considers pressed, and a
synthetic Ctrl that stayed down counts as a held modifier.  The cleanup computes the keys
still pressed as the code does (`Pressed`, over the events that went through or, after an
exception, over all presses of the batch, `KeyDowns`), and releases them in reverse order with three
tries each, of which any may fail or raise with or without effect.  `_cleanup_failed` is set
before the send and lifted after a complete batch or a confirmed cleanup.

The user may press and release a modifier between any two steps.  `lifted` is a history
variable: all modifiers were up at some moment since the dispatch began.  With it
`PressesOnCleanKeyboard` says that a modifier pressed after `prepare_dispatch` had waited for
none, while the service assesses the target again, keeps the batch from being sent.  One
pressed between the last look (`windows_injector.py:112`) and `SendInput` is beyond the code.

`InsertionService` does not repeat this: it relies on `DispatchContract`, and
`KeepsContract` says that the injector keeps it.

### WindowsTarget

The desktop is processes, each with a creation time and an integrity level, top-level windows
with an owner, controls in them that are an Edit, a password Edit or anything else, the
foreground window and the focus.  Handles and process ids are values that are given up and
taken again, which is how they are reused; `changes` is the clock the creation times are read
from.  The calls `capture` and `assess` are one program counter, `pc`, with one action per
question: `IsWindow`, the foreground window, its thread, the focus, the creation marker, the
integrity level, the class and the style, in the order of the code and each with its early
return.  Opening a process, and reading its token, may be refused at any time.

`seen`, `replaced`, `quiet` and `denied` are history variables for the properties:
`SafeAtOneMoment` asks for one moment of an assessment that ended well at which everything
held at once.  It names the one exception that stays: the control was restyled, or its handle
given to a new control, between the questions about the process and those about the style.
`QuietVerdict` is the other direction: on a desktop that did not change since the capture the
verdict is the right one.

Left out: UI Automation, which the adapter reports as unsupported, the ctypes prototypes, and
the threads of a process (one GUI thread per process, so that `thread_id` tells no more than
`process_id`).

### InsertionCli

`run` of `cli.py` as a sequence of stages, `stage`, from the arguments to the exit status,
over the whole of `InsertionService` with one thread.  `ServiceRuns` is a step of the service
inside `deliver` or inside an answer of the dialogue.  Ctrl+C (`Interrupt`) may come at every
stage at which SIGINT is not deferred and leads to where the enclosing `finally` clauses do,
in a `finally` clause past the rest of it; `cut` remembers where it hit.  In the dialogue it
is caught, as is the end of the input (`AnswerNothing`).  Outside of the main thread
(`signals` is FALSE) `signal.signal` raises and no Ctrl+C arrives.

Left out: what is printed, and the length of the countdowns.

### ResourceReport and WorkerSupervisor

`ResourceReport` is `from_samples` as an operator on a sequence of samples.  User and
system time are one counter and the process tree is one figure; `Verdict` is what the loop
over neighbouring samples finds (the identity is compared with the first sample's, the
counters with the one before), and `FromSamples` takes peak and count over every usable
sample, as the code does.  Durations and loads are integers: `wall` and `busy` are the two
terms of the average load, `duration` and `cpu` the differences between first and last.

`WorkerSupervisor` follows two actors through their program counters.  The parent goes
from `Popen` through the sampler and a first sample to `communicate`, then, after a
timeout, `terminate`, the grace period, `kill` and a wait without timeout; then it sets the
stop event, joins the thread for a while, takes a last sample, makes the report and judges
the answer.  The thread pauses and samples.  One sample is three steps, because the parent
and the thread may be in it at once and neither holds the lock: the look-up of the pid, the
time stamp, the append.  The worker ends at any time by itself, or of a signal; it stays a
zombie (`"exited"`) until `communicate` or a poll reaps it, and from then on a backend may
find nothing, another process, or (as fakes do) still the worker: the constant `Gone`.
What the worker wrote is its verdict, `Answer`.  An exception out of a wait ends the run in
"raised", with thread and worker left alone as in the code.

Left out: the timeline, the text of captured output, the phase reports, descendants of the
worker that keep its pipes open, and a worker without a pid.

### AsrEngine, AsrSession, AsrWorker and BenchmarkRun

`AsrEngine` has the state of both adapters: the model, known by the options it was loaded
with, faster-whisper's inference defaults and the request to cancel; `backend` tells the
adapters apart where their code differs (GigaAM keeps no defaults, has its own limit of 25 s
and takes whatever the SDK returns for a model).  A method ends in "success", in the code of
an `AsrEngineError`, or "escaped": another exception, such as the `ValueError` of
`ensure_segment_within_capabilities`.

`AsrSession` stands for any client with two threads, because the port promises nothing about
them and has no lock.  A segment is three steps (begun, checked, inferred), and a cancel or a
close may come before each.  A load may come over a loaded engine; if it fails there, the old
model stays with the defaults of the load that failed (`faster_whisper.py:45`), which is the one
exception in `OwnOptions` and is remembered in the history variable `stale`.  Every client in the
repository closes first.  The look at the flag and its reset are one step, as are the read of
`_model` in `close` and its reset (`faster_whisper.py:118-119`): that two threads closing at once
may call the model's own `close` twice is not modelled.

`AsrWorker` is one worker process, which `BenchmarkRun` starts: the request is read, the engine taken through the phases
of the protocol version, closed in the `finally` clause, and the answer written.  Where the
code leaves by an exception the variable `escaped` is set and the way leads through the same
`close`.  `Loaded` has both versions side by side: version 1 logs a failed readiness and goes
on, version 2 stops.  A sample is one step, since nobody else touches the engine of a worker.
`answer` is what the supervisor will make of the message, `inferred` a history variable.  An
answer above the size limit raises outside of the handler ("stderr": a traceback, no message).

Left out: transcripts and metrics (only that reading the reference may fail), observers,
durations, and the parsing of the request, whose failure is the second alternative of `Receive`.

`BenchmarkRun` has the two programs that start workers; the version of the requests tells which
one runs (`Runner`).  `stage` is where the program is, and while it is "worker" the steps of
`AsrWorker` are its steps (`Work`); `NewWorker` is the next process.  Of the supervisor it has
what `run` may return (`WorkerEnds`, `WorkerTimesOut`, `SpawnFails`), which `WorkerSupervisor`
has the details of: a worker that is terminated may have answered before, and its message is
used for the metrics although the repeat does not count.  In the place of a message that is
refused, for the protocol or for privacy, the supervisor makes one up, whose status
(`WorkerStatus`) is what the probe falls back to (`PhaseTold`).  `Counted` and `Collect` are the loop
of `_run_candidates`, `Blocks` is `_publication_validity`
(the candidates a run profile expects are the selected ones whenever there is an aggregate, as
`validate_run_profile_preflight` has compared them before), and `Write`, `Fill` and `Replace`
are the three moments of `write_result_atomic` at which a crash (`Stop`) makes a difference.
The probe loads a package in one worker and transcribes its audio in another (`CollectProbe`).
`whole` is a history variable: the workers that ended by themselves, with status 0 and with
every sample through the model.

Left out: the averages of resources and quality, the schema check of the payload, the
fingerprint, and several packages in one call of the probe, each of which is probed as if it
were alone.

## 3. The runs

| Run | Properties | Question |
|---|---|---|
| `insertion_safety` | `TypeOK`, `UserDataSafe`, `NoUndoAfterSend`, `OutcomeTellsRetention`, `DeliversRetainedText`, `EncodableIsRestorable`, `PasteFindsOwnText`, `SendSeesSafeTarget`, `OneShotSpec` | does the service keep its promises in every interleaving of two threads, other programs and failing calls? |
| `insertion_liveness` | `EveryCallReturns` | does every call return when three threads compete for the lock? |
| `insertion_unencodable` | `RetainedIsRestorable` | violated: see finding 2 |
| `insertion_busy_race` | `AlreadyDeliveredWasBegun` | violated: see finding 1 |
| `injector` | `TypeOK`, `StuckMeansPoisoned`, `KeepsContract`, `ReleasesOnlyPressed`, `PressesOnCleanKeyboard`, `EveryDispatchReturns` | does a cut-short batch ever leave a key down on an injector that is used again? |
| `target` | `TypeOK`, `SafeAtOneMoment`, `QuietVerdict` | is an assessment made of a dozen questions worth one look at the target, and on a quiet desktop the right one? (1.7 million states) |
| `cli` | `CliTypeOK`, `EndsWithUserContent`, `LeavesNothingBehind`, `StatusTellsInput`, `ProgramEnds` | does any Ctrl+C, answer or failing call get the command line to end over a pending original, or to leave its window or its signal handler behind? (50 thousand states) |
| `supervisor` | `TypeOK`, `OutcomeTellsTheEnd`, `ChildIsReaped`, `OkReportIsTrusted`, `EveryRunEnds`, `CollectorStops` | is the outcome earned, the child reaped and an "ok" report trustworthy, whenever the worker ends and whoever has its pid then, and does the run end? |
| `supervisor_reaped_pid` | `CompletedReportsOk` | violated: see finding 3 |
| `asr_session` | `TypeOK`, `CancelSpentOnce`, `OwnOptions` | what do a cancel, a failing close or a failing load in the middle of things leave behind? |
| `asr_stale_cancel` | `CancelHitsCurrent` | violated: see finding 4 |
| `benchmark_run` | `TypeOK`, `SuccessIsWhole`, `EngineIsReleased`, `EverySampleIsTold`, `ExitTellsAnswer`, `SuccessIsEarned`, `ResultFileIsWhole` | does the answer of a worker say what happened, is a run's success earned by all of its workers, and is the result file whole wherever the program stops? (3.6 million states) |

**Bounds.**  `MaxCalls` bounds the calls made (3: two deliveries with an explicit
operation between, or three racing), `MaxSeq` the clipboard's sequence number up to
which other programs still write (3: before `prepare`, between mutation and paste, and
before the restore), `MaxFaults` the failing clipboard calls (2: a torn write and then a
failed restore).  In the injector `MaxChars` is the length of a typed text (2, so that a unit
repeats and that a CR LF occurs) and its `MaxCalls` of 4 leaves a dispatch and another after
one that was cut short, each prepared.  Two payloads suffice to tell the user's old content from a newer one; one of them is opaque,
so that an automatic delivery falls back to direct input.  Threads and ids are
interchangeable, hence the symmetry of the safety run; the liveness run uses none.

In the supervisor `MaxSamples` bounds what the thread takes (1: with the parent's first and
last sample three are appended, and the thread's may come after the parent's last) and
`MaxTime` the clock (2: every order of three stamps, with and without ties).  Both bounds
only make the worker's life shorter: a run ends within them, in a state with nothing left
to do, so `CHECK_DEADLOCK` is off.

In the target run `MaxChanges` = 4 is enough for a process to exit, another to start under its
id and with its handles, and the focus to move, in one assessment (`MaxAssess` = 1; assessments
share nothing but the captured identities, which they only read).  Two processes, windows and
controls are one that was captured and one that takes its place.  The desktop may come to rest
with nothing left to ask, hence no check for deadlock; processes, windows and controls are
interchangeable.

The command line's `MaxCalls` = 5 is a delivery, one answer that gives the original up and
`MaxFaults` + 1 = 3 that ask for its restoration, which can only fail as often as the clipboard
does; `CliAssumption` states it.  A program that ended stops, so `CHECK_DEADLOCK` is off.

In the session two option sets suffice for a failed load to leave the other's defaults behind,
and three calls of cancel (`MaxCancels`) for one that is lost, one that is kept and one that
hits.  Every worker gets any request with up to `MaxScored` = 2 scored samples: one to fail and
one after it.  `MaxWorkers` = 2 is two repeats of one candidate, or two candidates, or no
candidate at all: one to fail and one to succeed in either order.  Both runs have safety
properties only and need no fairness; `Over` marks the end of a program.

**Fairness.**  `EveryCallReturns` assumes weak fairness of each thread's own steps: the
operating system schedules a thread inside the service, and every adapter call is bounded
(the modifier wait has a deadline, opening the clipboard has a number of tries).  Weak
fairness is enough for the waiting threads because calls are bounded: nobody can overtake
for ever.  Nothing is assumed of other programs or of the user.  `EveryDispatchReturns`
assumes weak fairness of the injector's steps only.

`FairSpec` of the supervisor assumes that the parent is scheduled, which includes that a
timeout of its own expires, and that SIGKILL ends a process; nothing is asked of the worker,
which may hang and ignore SIGTERM.  `CollectorStops` needs the thread to be scheduled, and
says so itself: `WF_vars(ThreadStep)` is its hypothesis.

`CliFairSpec` assumes that the program runs on and that the operator, asked again and again,
answers RESTORE in the end (weak fairness of each); the restoration may still fail, and it may
be the clipboard that somebody else wrote meanwhile.  Without the second assumption the dialogue
may wait for ever, as it is meant to.

**Mutants.**  Next to many definitions stands a mutated form ("Mutant: ..."), a plausible
bug in the same code; for every property one of them makes the property fail under the
run's own configuration.  `PROJECT.json` pairs them.

### Findings

1. *Busy and already delivered.*  `deliver`'s busy path registers the id
   (`service.py:99-105`).  Two simultaneous deliveries of one request can then answer
   `busy` (no lock) and `already_delivered` (the id is registered by the other), so nobody
   delivers it, although the acceptance matrix
   (`experiments/windows_insertion/README.md:122`) promises `already_delivered` / `busy`
   for the one that loses.
2. *A retained original that cannot be restored.*  `commit_mutation` encodes the text
   before it sets `mutation_sequence` (`windows_clipboard.py:103`).  A text with a lone
   surrogate raises there, the undo refuses the snapshot, `deliver` reports it as retained
   for explicit restoration, and every explicit restoration is refused as well; only a
   discard ends it.  `EncodableIsRestorable` shows that this is the only such case.
3. *A completed worker's report.*  `finish` takes a last sample after `communicate` reaped
   the worker (`worker_supervisor.py:232`).  A backend that looks the pid up, as
   `LinuxProcTreeSampler` does, answers `root_missing`, so the report of every worker that
   completed is "partial"; `tests/contract/test_worker_supervisor.py:34` expects "ok", with a
   sampler that still finds the pid.
4. *A cancel without a segment.*  `cancel` sets a flag that `transcribe_segment` looks at once,
   before the inference (`faster_whisper.py:88`, `gigaam.py:108`), and that neither `close` nor
   `load` takes back.  A cancel during an inference, or with nothing in progress, cancels the
   next segment, although `domain/ports/asr.py:226` says "Cancel current processing".
   `CancelSpentOnce` shows that it costs no more than that one segment.

## 4. The proofs

Every theorem holds for any value of the constants that satisfies the named assumptions of its
modules.  Every safety invariant and every action property of the passing runs is a theorem;
so is the refinement of `OneShotDelivery`.

`InsertionServiceProofs` proves, from `ClipboardAssumption` and `ServiceAssumption` alone, so
for any number of threads, ids, texts and any bounds:

| Theorem | Property |
|---|---|
| `TypeCorrect` | `TypeOK` |
| `UserDataIsSafe` | `UserDataSafe` |
| `NothingUndoneAfterSend` | `NoUndoAfterSend` |
| `RetentionIsTold` | `OutcomeTellsRetention` |
| `RetainedTextIsDelivered` | `DeliversRetainedText` |
| `EncodableStaysRestorable` | `EncodableIsRestorable` |
| `OwnTextIsPasted` | `PasteFindsOwnText` |
| `SafeTargetIsSeen` | `SendSeesSafeTarget` |
| `ImplementsOneShot` | `OneShotSpec` |

None of the properties is inductive.  The invariant `IInv` adds, in five groups, what
the code maintains:

- *Reservation*: the thread in a holding program counter holds the lock (`LockHeld`); past
  its registration nothing is retained but its own snapshot (`DeliveryOwns`); what was
  sent or is retained was attempted and at most once (`Ledger`).  This is what reduces
  every other argument to one thread, and what refines `OneShotDelivery`.
- *Custody*: an ownership marker never runs ahead of the clipboard and a fresh snapshot is
  current unless somebody wrote (`SnapshotsCurrent`), the adapter's prepared state belongs
  to the delivery that is about to commit (`CommitPrepared`), and `UserDataSafe` itself.
- *Reporting*: the outcome and the retained snapshot agree at every return, for which the
  code held across an undo must be known (`OutcomeWhenKnown`).
- *MarkedOnceCommitted*: once the commit is over the snapshot of an encodable text carries
  an ownership marker.
- *Window*: between the commit and the paste the clipboard holds the text or somebody
  wrote (`PasteHolds`), and the target was safe at some moment past the preflight
  (`SafeMomentSeen`).

Each group has a lemma that every step preserves it (one proof step per action);
`InvariantStep` combines them, and the action properties and the refinement follow from
`Invariance` step by step.

`InputInjectorProofs` proves, for any alphabet, texts of any length and any number of calls:

| Theorem | Property |
|---|---|
| `InjectorTyped` | `TypeOK` |
| `StuckKeysPoison` | `StuckMeansPoisoned` |
| `InjectorKeepsContract` | `KeepsContract` |
| `OnlyPressedReleased` | `ReleasesOnlyPressed` |
| `NewKeysOnCleanKeyboard` | `PressesOnCleanKeyboard` |

The core is that the list the cleanup computes is right for whatever prefix of a batch went
through.  `BatchIsClean` shows of both batches (Ctrl+V, and the presses and releases of the units
of a text) that no event presses a key that is down already, `PrefixIsClean` of their prefixes;
`PressedIsDown` concludes that replaying such a prefix with append and remove-the-first finds
exactly the keys that are down, each once, and `AllPressesCoverPrefix` that taking all presses
for done, as the code does when `SendInput` raised, misses none.  Without the first fact
`PressedIsDown` is false: a key pressed twice and lifted once would stay on the list.  The invariant
then says that a call on its way found the injector sound and the keyboard clean
(`CallFoundSound`), that unless a key was given up the cleanup still has every key that is down
before it (`CleanupCovers`) and has none twice when the number of events was known
(`ReleasesEachOnce`), and that what is down after a cleanup leaves the injector poisoned
(`LeftoversPoison`).  A second invariant, `LiftedIsSeen`, says that a call past its last look has
seen a moment without any modifier.

`WorkerSupervisorProofs` proves, for any clock, number of samples and backend:

| Theorem | Property |
|---|---|
| `SupervisorTyped` | `TypeOK` |
| `OkReportsAreTrusted` | `OkReportIsTrusted` |
| `CompletedIsEarned` | `OutcomeTellsTheEnd` |
| `WorkerIsReaped` | `ChildIsReaped` |

Its `IInv` says which program counters of the parent come after the worker was reaped
(`ReapedBeforeReport`; the program counters of a sample occur before and after, and the stop
event tells them apart, `StopFollowsParent`), and that a timeout is remembered both in the
verdict and in the missed reasons, so that no report made afterwards is "ok"
(`TimeoutIsMarked`, with the lemma `OkMeansNothingMissed` about `FromSamples`).

`OkReportsAreTrusted` is about the numbers of a report.  Its invariant `SInv` adds what every
sample tells about the process it was taken of (`SamplesTell`) and that the first one is of the
worker, taken before anybody else could have its pid, unless something was missed
(`WorkerIsFirst`).  `OkReportAddsUp` is then about `FromSamples` alone, for any sequence of such
samples: where the loop found neither another identity than the first sample's nor a counter
that fell, all samples are of one process, and the rises add up to the difference of the last
and the first (`RisesAddUp`, a telescoping sum; `NeverFalls`).

`AsrSessionProofs` proves, for any options and any number of cancels:

| Theorem | Property |
|---|---|
| `CancelCostsOneSegment` | `CancelSpentOnce` |
| `TextsHaveOwnOptions` | `OwnOptions` |
| `SessionTyped` | `TypeOK` |

`CancelSpentOnce` is inductive next to the types.  `OwnOptions` is not: what it needs is that a
model of faster-whisper has the defaults it was loaded with unless `stale` remembers a load that
failed over it, which holds because there is no model between a close and the next load, however
that close ended (`ModelHasItsDefaults`).

`WindowsTargetProofs` proves, for any processes, windows, controls and tokens and any number of
changes of the desktop:

| Theorem | Property |
|---|---|
| `TargetTyped` | `TypeOK` |
| `TargetSafeAtOneMoment` | `SafeAtOneMoment` |
| `TargetQuietVerdict` | `QuietVerdict` |

The moment is the reading of the focus: the foreground window and the control were there
together then.  What the later questions find out must be carried back to it.  As long as the
captured control is there and untouched, so is its window, and its process has not ended since
(`Grounded`: windows belong to living processes, controls to windows); its creation time and its
level are then what they were at that moment, and what kind the control is only changes by what
sets `replaced`.  `Watched` says so for every question after the focus, `Compared` that past the
comparison of the identities there is only one, and `Remembered` that the history misses no safe
moment.

`TargetQuietVerdict` goes the other way with `QuietInv`: of a key whose desktop did not change
since its capture, the captured identity is what there is to see, down to the creation time of
the process (`QuietCaptures`), and so is what the call under way has read so far
(`QuietReading`), from which each early return is the verdict that is due.

`InsertionCliProofs` proves from `CliAssumption` and the service's assumptions:

| Theorem | Property |
|---|---|
| `CliTypes` | `CliTypeOK` |
| `CliEndsWithUserContent` | `EndsWithUserContent` |
| `CliLeavesNothingBehind` | `LeavesNothingBehind` |
| `CliStatusTellsInput` | `StatusTellsInput` |

The lemma `CliStepIsServiceStep` shows that a step of the program is a step of the service or
leaves it alone, so that `IInv` and every theorem of `InsertionServiceProofs` hold below the
command line.  On top of it an invariant follows the one original through the stages: nothing
before the delivery (`Asleep`, `Fresh`), what `IInv` says during it (`Delivering`), what the
dialogue keeps asking about (`Resolving`), and nothing after it (`Settled`).  `Shielded` says
that SIGINT is deferred whenever there may be something to lose, `Tidy` who owns the window and
`Earned` what an exit status of 0 rests on.

`BenchmarkRunProofs` proves, for any options and any number of samples and workers:

| Theorem | Property |
|---|---|
| `RunTyped` | `TypeOK` |
| `RunSuccessIsEarned` | `SuccessIsEarned` |
| `WorkerSuccessIsWhole` | `SuccessIsWhole` |
| `WorkerReleasesEngine` | `EngineIsReleased` |
| `WorkerExitTellsAnswer` | `ExitTellsAnswer` |
| `WorkerTellsEverySample` | `EverySampleIsTold` |
| `ResultFileStaysWhole` | `ResultFileIsWhole` |

`WInv` says at every step of a worker what its answer will rest on: as long as the run is to be
a success no bad phase was logged (`GoodSoFar`, whose one exception is version 1 going on with
an engine that is not ready, which the warm-up finds out), the samples that went through the
model are those with a good outcome (`OnSamples`), and a worker that was ready closes with every
sample told (`Told`).  `FInv` is what the result file needs: only a complete temporary file is
moved over it, and the runner comes to its exit by no other way.

`RunSuccessIsEarned` needs the count behind a success.  `TInv` relates a worker's answer to the
request it got (`AnswerTyped`, `SizesFit`: it tells no more samples than it was asked about) and
for the probe to what it inferred (`ProbeLog`).  `PInv` follows the program: as long as no repeat
has failed, the whole workers so far are the candidates done times the repeats plus those of the
candidate at work, and the measured samples are the repeats times the scored ones (`WorkEarned`);
what is left is arithmetic of products (`OneMore`, `NoFewer`).  `RunEarned` and `ProbeEarned`
carry it from the judgement to the exit status, `Bounded` and `Tally` keep the counters typed.

`LoopTheorems` is what the proofs about loops share.  The modules write a loop of the code as a
recursive function on 0..N, the accumulator after each turn (`Pressed`, `KeyDowns`, `FlattenSeq`
of the community modules, `Usable`, `ValidRise`).  `LoopHasHistory` shows that the function is
what its equation says, and `InductionOnTurns` is induction over the turns, with the set of the
turns at which the claim holds in the place of a predicate; both rest on `<` being well-founded
on the natural numbers.

The proofs corrected the model twice.  The type invariant of `BenchmarkRun` bounded `whole` by
`MaxWorkers`, which the two workers of the probe exceed when `MaxWorkers` is 1; the run, with 2,
could not see it.  And the arms of a `CASE` in `QuietVerdict` overlapped.

Only model-checked, because fairness and ENABLED are beyond the prover: `EveryCallReturns`,
`EveryDispatchReturns`, `EveryRunEnds`, `CollectorStops` and `ProgramEnds`.  That the four
disagreements under "Findings" happen is shown by the counterexamples of their runs.

## 5. Not modelled, and the plan

Not modelled, and meant to stay so:

- manifests, dataset bindings, integrity, privacy and offline probes: stateless validation of
  files; their refusals are choices of `CheckInputs` and `CheckPackage`;
- the field-by-field checks of `worker_protocol.py`, of which the models use the verdict;
- of the probe several packages in one call, and the adapter that probes in the same process,
  which nothing instantiates;
- the averages of resources and quality, and the phase reports of `ResourceReport`: data that
  no decision depends on;
- UI Automation, the ctypes prototypes and structures, and the windows of the manual fixtures;
- the scripts under `.opencode`: tools of a third party that are no part of the program.

Next, in this order:

1. `QualityMetrics`: edit distance and the span selection (overlapping spans of variants,
   `quality_metrics.py:247`) against reference definitions over bounded inputs.  It is pure
   arithmetic over strings and nothing else depends on its outcome.
2. An abstract specification of a supervised run (one child, one outcome, nothing left behind)
   that `WorkerSupervisor` implements, to replace the alternatives of `WorkerEnds` and
   `WorkerTimesOut`; and one of a phase log that `AsrWorker` implements.
3. The refusals of `load` in detail: which of the checks of a package gives which code.
4. Theorems: that each specification implements the abstract ones of item 2, and lemmas about
   the operators of `AsrEngine` and `ResourceReport` (peak and averages).
