----------------------------- MODULE BenchmarkRun -----------------------------
(***************************************************************************)
(* The two programs that start workers, one after the other: the runner    *)
(* (benchmark_runner.py), which has every candidate do the same workload   *)
(* several times with version 2 requests, judges the whole and writes one  *)
(* result file (benchmark_results.py), and the probe of one local package  *)
(* (local_model_probe.py), which loads it in one worker and transcribes in *)
(* another with version 1 requests.  Between them and the worker stands    *)
(* the supervisor, of which WorkerSupervisor has the details: here only    *)
(* what it may return.                                                     *)
(***************************************************************************)
EXTENDS AsrWorker, FiniteSetsExt

CONSTANT MaxWorkers   \* bound on the workers of a run: candidates * repeats

ASSUME RunAssumption == MaxWorkers \in Nat \ {0}

VARIABLES
  stage,       \* where the program is
  workload,    \* the samples to be run, by every worker or by the probe's last
  selected,    \* number of candidates
  repeats,     \* repeats asked of each
  current,     \* the candidate at work: its repeats so far, those completed,
               \* and the scored samples whose metrics were collected
  aggregates,  \* the candidates done
  report,      \* the phases of the probe
  outcome,     \* of the run, or of the probe's package
  blockers,    \* what stands against a publication
  temp, file,  \* contents of the temporary file and of the result file
  code,        \* exit status of the program
  whole        \* history: workers that ended by themselves with status 0 and
               \* with every sample through the model

plan == <<workload, selected, repeats>>
results == <<current, aggregates, report, outcome, blockers>>
files == <<temp, file, code>>
vars == <<workerVars, stage, plan, results, files, whole>>

Runner == request.version = 2
Fresh == [repeat |-> 0, completed |-> 0, measured |-> 0]
RunOutcome == {"invalid_inputs", "dry_run", "not_run", "success", "fail"}
Blocker == {"run_not_successful", "incomplete_candidate_matrix",
            "git_worktree_not_clean", "offline_evidence_not_verified",
            "quality_matrix_incomplete"}
WorkerFailure == {"fail", "protocol_error"}
Content == {"absent", "earlier", "partial", "this"}

Aggregate == [outcome : {"success", "fail", "not_run"}, completed : 0..MaxWorkers,
              measured : 0..(MaxWorkers * MaxScored)]

(***************************************************************************)
(* A result file may be there, of an earlier run that wrote it.            *)
(***************************************************************************)
Init ==
  /\ WorkerInit
  /\ stage = "inputs"
  /\ workload = request.samples
  /\ selected \in IF Runner THEN 0..MaxWorkers ELSE {1}
  /\ repeats \in {r \in 1..MaxWorkers : IF Runner THEN selected * r <= MaxWorkers ELSE r = 1}
  /\ current = Fresh
  /\ aggregates = <<>>
  /\ report = <<>>
  /\ outcome = "none"
  /\ blockers = {}
  /\ temp = "absent"
  /\ file \in IF Runner THEN {"absent", "earlier"} ELSE {"absent"}
  /\ code = "none"
  /\ whole = 0

-----------------------------------------------------------------------------
(***************************************************************************)
(* run_benchmark, before any worker: manifests and profile may be invalid, *)
(* only a dry run asked for, or no bindings given.                         *)
(***************************************************************************)
CheckInputs ==
  /\ stage = "inputs"
  /\ Runner
  /\ \/ /\ outcome' = "invalid_inputs"
        /\ stage' = "judge"
        /\ UNCHANGED aggregates
     \/ /\ outcome' \in {"dry_run", "not_run"}
        /\ aggregates' = [i \in 1..selected |->
                            [outcome |-> "not_run", completed |-> 0, measured |-> 0]]
        /\ stage' = "judge"
     \/ /\ stage' = IF selected = 0 THEN "judge" ELSE "spawn"
        /\ UNCHANGED <<outcome, aggregates>>
  /\ UNCHANGED <<workerVars, plan, current, report, blockers, files, whole>>

(***************************************************************************)
(* _probe_one_package, before any worker: the package is refused, or all   *)
(* that was asked for is its validation.                                   *)
(***************************************************************************)
CheckPackage ==
  /\ stage = "inputs"
  /\ ~Runner
  /\ \/ /\ outcome' \in {"missing_package", "refused", "package_present"}
        /\ stage' = "exit"
     \/ stage' = "spawn" /\ UNCHANGED outcome
  /\ UNCHANGED <<workerVars, plan, current, aggregates, report, blockers, files,
                 whole>>

(***************************************************************************)
(* The probe loads without audio first.  Each candidate has its backend.   *)
(***************************************************************************)
Spawn ==
  /\ stage = "spawn"
  /\ stage' = "worker"
  /\ NewWorker([request EXCEPT !.samples =
                  IF ~Runner /\ report = <<>> THEN <<>> ELSE workload])
  /\ backend' \in IF Runner /\ current.repeat = 0 THEN Backend ELSE {backend}
  /\ UNCHANGED <<plan, results, files, whole>>

-----------------------------------------------------------------------------
ScoredSuccesses == Cardinality({i \in 2..Len(samples) : samples[i] = "success"})

\* Mutant: a late answer, or one with a bad exit status, counts as well.
CountedLate(supervised, told) ==
  [repeat |-> current.repeat + 1,
   completed |-> current.completed + (IF told /\ answer = "succeeded" THEN 1 ELSE 0),
   measured |-> current.measured + (IF told THEN ScoredSuccesses ELSE 0)]

(***************************************************************************)
(* What a repeat adds to its candidate: its metrics if there is a message, *)
(* completed or not, and a completed repeat only if all three agree.       *)
(***************************************************************************)
Counted(supervised, told) ==
  [repeat |-> current.repeat + 1,
   completed |-> current.completed
                 + (IF supervised = "completed" /\ told /\ answer = "succeeded" THEN 1 ELSE 0),
   measured |-> current.measured + (IF told THEN ScoredSuccesses ELSE 0)]

(***************************************************************************)
(* _run_candidates, after supervisor.run: the next repeat, the next        *)
(* candidate, or the end.                                                  *)
(***************************************************************************)
Collect(supervised, told) ==
  LET done == Counted(supervised, told)
  IN /\ IF done.repeat < repeats
          THEN current' = done /\ UNCHANGED aggregates
          ELSE /\ current' = Fresh
               /\ aggregates' = Append(aggregates,
                    [outcome |-> IF done.completed = repeats THEN "success" ELSE "fail",
                     completed |-> done.completed, measured |-> done.measured])
     /\ stage' = IF Len(aggregates') = selected THEN "judge" ELSE "spawn"
     /\ UNCHANGED <<report, outcome>>

(***************************************************************************)
(* worker_status in the message of the worker, or in the one that the      *)
(* supervisor makes up for it.                                             *)
(***************************************************************************)
WorkerStatus(supervised, told) ==
  IF told THEN IF answer = "succeeded" THEN "success" ELSE "fail"
  ELSE IF supervised = "protocol_error" THEN "protocol_error" ELSE "fail"

(***************************************************************************)
(* What the probe makes of a phase: its outcome in the message, else what  *)
(* the message says of the worker; readiness must be in the message.       *)
(***************************************************************************)
PhaseTold(name, supervised, told) ==
  LET logged == {i \in DOMAIN phases : told /\ phases[i][1] = name}
  IN IF logged # {} THEN phases[Min(logged)][2]
     ELSE IF name = "readiness" THEN "readiness_failed"
     ELSE WorkerStatus(supervised, told)

PackageOutcome(outcomes) ==
  LET bad == {i \in DOMAIN outcomes : outcomes[i] \notin {"success", "not_run"}}
  IN IF bad = {} THEN "success" ELSE outcomes[Min(bad)]

ProbeEnds(outcomes) ==
  /\ report' = outcomes
  /\ outcome' = PackageOutcome(outcomes)
  /\ stage' = "exit"

(***************************************************************************)
(* The phases of the probe: the adapter's own warm-up is never run, and    *)
(* its own close always succeeds.                                          *)
(***************************************************************************)
CollectProbe(supervised, told) ==
  LET tells(name) == PhaseTold(name, supervised, told)
  IN /\ IF report # <<>>
          THEN ProbeEnds(report \o <<tells("transcribe_probe"), "success">>)
        ELSE IF tells("load") # "success"
          THEN ProbeEnds(<<tells("load"), "success">>)
        ELSE LET loaded == <<"success", tells("readiness"), "not_run">>
             IN IF workload = <<>> THEN ProbeEnds(loaded \o <<"not_run", "success">>)
                ELSE report' = loaded /\ stage' = "spawn" /\ UNCHANGED outcome
     /\ UNCHANGED <<current, aggregates>>

(***************************************************************************)
(* supervisor.run returns an outcome, and the message of the worker or one *)
(* made up for a failure.                                                  *)
(***************************************************************************)
Returns(supervised, told) ==
  /\ IF Runner THEN Collect(supervised, told) ELSE CollectProbe(supervised, told)
  /\ UNCHANGED <<workerVars, plan, blockers, files>>

SpawnFails ==
  /\ stage = "spawn"
  /\ Returns("spawn_error", FALSE)
  /\ UNCHANGED whole

WellFormed == answer \in {"succeeded", "failed"}

(***************************************************************************)
(* What it printed may be refused instead: too much, not a message or one  *)
(* of another worker, something on stderr or that the audit finds.         *)
(***************************************************************************)
Refused == {"protocol_error", "privacy_error"}

\* The worker ends in time.
WorkerEnds ==
  /\ stage = "worker"
  /\ pc = "ended"
  /\ \/ WellFormed /\ Returns(IF exit = "zero" THEN "completed" ELSE "nonzero_exit", TRUE)
     \/ \E failure \in Refused : Returns(failure, FALSE)
  /\ whole' = whole + IF exit = "zero" /\ inferred = DOMAIN request.samples THEN 1 ELSE 0

\* A worker that is terminated or killed may have answered before.
WorkerTimesOut ==
  /\ stage = "worker"
  /\ \/ pc = "ended" /\ WellFormed /\ Returns("terminated", TRUE)
     \/ \E failure \in Refused : Returns(failure, FALSE)
  /\ UNCHANGED whole

-----------------------------------------------------------------------------
RunResult ==
  IF \A i \in DOMAIN aggregates : aggregates[i].outcome = "success" THEN "success" ELSE "fail"

(***************************************************************************)
(* _publication_validity: whether the worktree is clean and whether the    *)
(* samples measured cover the category that is asked for are given.  No    *)
(* offline evidence is ever verified by this program.  The candidates a    *)
(* run profile expects are those selected, or the run did not get past     *)
(* CheckInputs (validate_run_profile_preflight) and the candidate matrix   *)
(* stands against it as it has no aggregates.                              *)
(***************************************************************************)
Blocks(blocker, final, clean, covered) ==
  CASE blocker = "run_not_successful" -> final # "success"
    [] blocker = "incomplete_candidate_matrix" ->
         selected = 0 \/ Len(aggregates) # selected
    [] blocker = "git_worktree_not_clean" -> ~clean
    [] blocker = "offline_evidence_not_verified" -> TRUE
    [] blocker = "quality_matrix_incomplete" ->
         \/ aggregates = <<>>
         \/ \E i \in DOMAIN aggregates : aggregates[i].measured = 0
         \/ ~covered

Judge ==
  /\ stage = "judge"
  /\ stage' = "write"
  /\ outcome' = IF outcome = "none" THEN RunResult ELSE outcome
  /\ \E clean \in BOOLEAN, covered \in BOOLEAN :
       blockers' = {b \in Blocker : Blocks(b, outcome', clean, covered)}
  /\ UNCHANGED <<workerVars, plan, current, aggregates, report, files, whole>>

\* Mutant: the result file itself is opened and written.
WriteInPlace ==
  /\ stage = "write"
  /\ stage' = "fill"
  /\ file' = "partial"
  /\ UNCHANGED <<workerVars, plan, results, temp, code, whole>>

(***************************************************************************)
(* write_result_atomic: a temporary file in the same directory, filled,    *)
(* closed and moved over the result file.                                  *)
(***************************************************************************)
Write ==
  /\ stage = "write"
  /\ stage' = "fill"
  /\ temp' = "partial"
  /\ UNCHANGED <<workerVars, plan, results, file, code, whole>>

Fill ==
  /\ stage = "fill"
  /\ stage' = "replace"
  /\ temp' = "this"
  /\ UNCHANGED <<workerVars, plan, results, file, code, whole>>

Replace ==
  /\ stage = "replace"
  /\ stage' = "exit"
  /\ file' = temp
  /\ temp' = "absent"
  /\ UNCHANGED <<workerVars, plan, results, code, whole>>

(***************************************************************************)
(* The exit status of either program; a package that is missing is         *)
(* expected to be.                                                         *)
(***************************************************************************)
Accepted ==
  IF Runner THEN {"dry_run", "success", "not_run"}
            ELSE {"success", "package_present", "missing_package"}

Exit ==
  /\ stage = "exit"
  /\ stage' = "ended"
  /\ code' = IF outcome \in Accepted THEN "zero" ELSE "nonzero"
  /\ UNCHANGED <<workerVars, plan, results, temp, file, whole>>

(***************************************************************************)
(* The program is killed, or leaves with an exception (the audit of the    *)
(* result, a full disk, an interrupt), at any place.                       *)
(***************************************************************************)
Stop ==
  /\ stage \notin {"ended", "stopped"}
  /\ stage' = "stopped"
  /\ UNCHANGED <<workerVars, plan, results, files, whole>>

Over == stage \in {"ended", "stopped"} /\ UNCHANGED vars

Work ==
  /\ stage = "worker"
  /\ WorkerStep
  /\ UNCHANGED <<stage, plan, results, files, whole>>

Next ==
  \/ CheckInputs
  \/ CheckPackage
  \/ Spawn
  \/ Work
  \/ SpawnFails
  \/ WorkerEnds
  \/ WorkerTimesOut
  \/ Judge
  \/ Write
  \/ Fill
  \/ Replace
  \/ Exit
  \/ Stop
  \/ Over

Spec == Init /\ [][Next]_vars
-----------------------------------------------------------------------------
TypeOK ==
  /\ WorkerTypeOK
  /\ stage \in {"inputs", "spawn", "worker", "judge", "write", "fill", "replace",
                "exit", "ended", "stopped"}
  /\ [request EXCEPT !.samples = workload] \in Request
  /\ selected \in 0..MaxWorkers
  /\ repeats \in 1..MaxWorkers
  /\ current \in [repeat : 0..MaxWorkers, completed : 0..MaxWorkers,
                  measured : 0..(MaxWorkers * MaxScored)]
  /\ aggregates \in Seq(Aggregate)
  /\ report \in Seq(PhaseOutcome \cup WorkerFailure)
  /\ outcome \in RunOutcome \cup PhaseOutcome \cup WorkerFailure
                 \cup {"none", "missing_package", "refused", "package_present"}
  /\ blockers \subseteq Blocker
  /\ temp \in Content
  /\ file \in Content
  /\ code \in {"none", "zero", "nonzero"}
  /\ whole \in 0..(IF Runner THEN MaxWorkers ELSE 2)

(***************************************************************************)
(* A run only calls itself successful if each of its workers ended by      *)
(* itself, with status 0 and every sample through the model: no late       *)
(* answer and no failed repeat is among them.  An empty run calls itself   *)
(* successful, too, but with no verified evidence missing only a run is    *)
(* left for publication that has candidates, each with every scored sample *)
(* of every repeat measured once.  A package only passes the probe if its  *)
(* audio, when there is one, went through the model.                       *)
(***************************************************************************)
SuccessIsEarned ==
  /\ Runner /\ outcome = "success" => whole = selected * repeats
  /\ stage \in {"write", "fill", "replace", "exit", "ended"} /\ Runner
       /\ blockers \subseteq {"offline_evidence_not_verified"} =>
       /\ selected > 0
       /\ whole = selected * repeats
       /\ \A i \in DOMAIN aggregates :
            aggregates[i].measured = repeats * (Len(workload) - 1)
  /\ ~Runner /\ report # <<>> /\ outcome = "success" =>
       inferred = DOMAIN workload

(***************************************************************************)
(* Wherever the runner is stopped, the result file is the earlier one or   *)
(* this run's, never a torn one; and an exit status means that the file    *)
(* is this run's, with an outcome that the status agrees with.             *)
(***************************************************************************)
ResultFileIsWhole ==
  /\ file # "partial"
  /\ Runner /\ code # "none" =>
       /\ file = "this"
       /\ code = "zero" <=> outcome \in {"dry_run", "success", "not_run"}
=============================================================================
