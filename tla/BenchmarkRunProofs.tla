-------------------------- MODULE BenchmarkRunProofs --------------------------
(***************************************************************************)
(* What the worker's message is worth, and the runner's result file, for   *)
(* any options, any number of samples and of workers.                      *)
(***************************************************************************)
EXTENDS BenchmarkRun, LoopTheorems, FiniteSetTheorems, TLAPS

(***************************************************************************)
(* The shape of what was asked: version 1 asks for one sample or none,     *)
(* version 2 for one at least.                                             *)
(***************************************************************************)
AskedTyped ==
  /\ request \in [version : {1, 2}, samples : Seq(SampleKind)]
  /\ workload \in Seq(SampleKind)
  /\ request.version = 1 => Len(request.samples) <= 1 /\ Len(workload) <= 1
  /\ request.version = 2 => Len(request.samples) >= 1 /\ Len(workload) >= 1

LogTyped ==
  /\ phases \in Seq(PhaseName \X PhaseOutcome)
  /\ samples \in Seq(PhaseOutcome)
  /\ status \in {"success", "fail"}
  /\ escaped \in BOOLEAN
  /\ model \in Options \cup {NoOptions}
  /\ pc \in PC

(***************************************************************************)
(* The worker before its engine, and in the samples.                       *)
(***************************************************************************)
NotBegun ==
  pc \in {"receive", "load"} =>
    /\ phases = <<>> /\ samples = <<>> /\ inferred = {}
    /\ status = "success" /\ ~escaped
    /\ model = NoOptions

OnSamples ==
  /\ pc \in {"warmup", "probe"} =>
       request.version = 1 /\ Len(request.samples) = 1 /\ inferred = {}
  /\ pc = "samples" =>
       request.version = 2 /\ Len(samples) < Len(request.samples) /\ ~escaped
  /\ request.version = 1 => samples = <<>>
  /\ request.version = 2 => inferred = {i \in DOMAIN samples : samples[i] = "success"}

GoodPhases ==
  \A i \in DOMAIN phases :
    \/ phases[i][2] \in {"success", "not_run"}
    \/ phases[i][1] = "readiness" /\ request.samples = <<>>

(***************************************************************************)
(* No bad phase while the run is still to be a success, but for an engine  *)
(* that is not ready, which the warm-up of version 1 will find out.        *)
(***************************************************************************)
GoodSoFar ==
  /\ status = "success" /\ ~escaped => GoodPhases \/ (pc = "warmup" /\ ~Ready)
  /\ pc \in {"close", "reply"} /\ status = "success" /\ ~escaped =>
       /\ request.version = 1 => inferred = DOMAIN request.samples
       /\ request.version = 2 => Len(samples) = Len(request.samples)

ReadinessLogged == \E i \in DOMAIN phases : phases[i] = <<"readiness", "success">>

Told ==
  /\ pc \in {"close", "reply", "ended"} /\ ~escaped /\ request.version = 2
  /\ ReadinessLogged
  => Len(samples) = Len(request.samples)

Answers ==
  /\ pc # "ended" => answer = "none"
  /\ ExitTellsAnswer
  /\ SuccessIsWhole

WInv == /\ AskedTyped /\ LogTyped /\ NotBegun /\ OnSamples /\ GoodSoFar /\ Told
        /\ EngineIsReleased /\ Answers
-----------------------------------------------------------------------------
(***************************************************************************)
(* The invariant holds of the first worker.                                *)
(***************************************************************************)
LEMMA WorkerInitSafe == Init => WInv
<1> SUFFICES ASSUME Init  PROVE WInv
  OBVIOUS
<1>1. AskedTyped
  <2>1. CASE request \in [version : {1}, samples : UNION {[1..n -> SampleKind] : n \in 0..1}]
    <3>1. PICK n \in 0..1 : request.samples \in [1..n -> SampleKind]
      BY <2>1
    <3>2. request.samples \in Seq(SampleKind) /\ Len(request.samples) = n
      BY <3>1
    <3> QED BY <2>1, <3>2 DEF Init, AskedTyped
  <2>2. CASE request \in [version : {2},
                         samples : UNION {[1..n -> SampleKind] : n \in 2..MaxScored + 1}]
    <3>1. PICK n \in 2..MaxScored + 1 : request.samples \in [1..n -> SampleKind]
      BY <2>2
    <3>2. request.samples \in Seq(SampleKind) /\ Len(request.samples) = n
      BY <3>1, WorkerAssumption DEF WorkerAssumption
    <3> QED BY <2>2, <3>2, WorkerAssumption DEF Init, AskedTyped, WorkerAssumption
  <2> QED BY <2>1, <2>2 DEF Init, WorkerInit, Request
<1>2. /\ pc = "receive" /\ phases = <<>> /\ samples = <<>> /\ status = "success"
      /\ escaped = FALSE /\ inferred = {} /\ answer = "none" /\ model = NoOptions
  BY DEF Init, WorkerInit, EngineInit
<1>3. LogTyped /\ NotBegun /\ Told
  <2>1. phases \in Seq(PhaseName \X PhaseOutcome) /\ samples \in Seq(PhaseOutcome)
    BY <1>2
  <2>2. LogTyped
    BY <1>2, <2>1 DEF LogTyped, PC
  <2> QED BY <1>2, <2>2 DEF NotBegun, Told
<1>4. OnSamples /\ GoodSoFar
  BY <1>2 DEF OnSamples, GoodSoFar, GoodPhases
<1>5. EngineIsReleased /\ Answers
  BY <1>2 DEF EngineIsReleased, Answers, ExitTellsAnswer, SuccessIsWhole
<1> QED BY <1>1, <1>3, <1>4, <1>5 DEF WInv

(***************************************************************************)
(* The program around the worker does not touch it.                        *)
(***************************************************************************)
LEMMA ProgramAside ==
  ASSUME [Next]_vars, ~Spawn, ~Work
  PROVE  UNCHANGED <<workerVars, workload>>
BY DEF Next, CheckInputs, CheckPackage, SpawnFails, WorkerEnds, WorkerTimesOut, Returns,
       Judge, Write, Fill, Replace, Exit, Stop, Over, vars, plan

(***************************************************************************)
(* So the invariant is kept,                                               *)
(***************************************************************************)
LEMMA AsideSafe ==
  ASSUME WInv, UNCHANGED <<workerVars, workload>>
  PROVE  WInv'
BY DEF WInv, workerVars, engineVars, log, reply, AskedTyped, LogTyped, NotBegun,
       OnSamples, GoodSoFar, GoodPhases, Ready, Told, ReadinessLogged, EngineIsReleased,
       Answers, ExitTellsAnswer, SuccessIsWhole

(***************************************************************************)
(* and a new process has it anew.                                          *)
(***************************************************************************)
LEMMA SpawnSafe ==
  ASSUME WInv, Spawn
  PROVE  WInv'
<1>1. PICK asked \in {<<>>, workload} :
        /\ NewWorker([request EXCEPT !.samples = asked])
        /\ Runner => asked = workload
  BY DEF Spawn
<1>2. /\ request' = [request EXCEPT !.samples = asked] /\ UNCHANGED workload
      /\ pc' = "receive" /\ phases' = <<>> /\ samples' = <<>> /\ status' = "success"
      /\ escaped' = FALSE /\ inferred' = {} /\ answer' = "none" /\ model' = NoOptions
  BY <1>1 DEF Spawn, NewWorker, EngineNew, plan
<1>3. AskedTyped'
  <2>1. AskedTyped
    BY DEF WInv
  <2>2. /\ request'.version = request.version /\ request'.samples = asked
        /\ request' \in [version : {1, 2}, samples : Seq(SampleKind)]
    <3>1. <<>> \in Seq(SampleKind)
      OBVIOUS
    <3>2. asked \in Seq(SampleKind)
      BY <1>1, <2>1, <3>1 DEF AskedTyped
    <3> QED BY <1>2, <2>1, <3>2 DEF AskedTyped
  <2>3. request.version = 2 => asked = workload
    BY <1>1 DEF Runner
  <2>4. Len(asked) <= 1 \/ asked = workload
    OBVIOUS
  <2> QED BY <1>2, <2>1, <2>2, <2>3, <2>4 DEF AskedTyped
<1>4. LogTyped' /\ NotBegun' /\ Told'
  <2>1. phases' \in Seq(PhaseName \X PhaseOutcome) /\ samples' \in Seq(PhaseOutcome)
    BY <1>2
  <2>2. LogTyped'
    BY <1>2, <2>1 DEF LogTyped, PC
  <2> QED BY <1>2, <2>2 DEF NotBegun, Told
<1>5. OnSamples' /\ GoodSoFar'
  BY <1>2 DEF OnSamples, GoodSoFar, GoodPhases
<1>6. EngineIsReleased' /\ Answers'
  BY <1>2 DEF EngineIsReleased, Answers, ExitTellsAnswer, SuccessIsWhole
<1> QED BY <1>3, <1>4, <1>5, <1>6 DEF WInv

(***************************************************************************)
(* The phases after a phase more: typed, the new one last.                 *)
(***************************************************************************)
LEMMA LoggedPhase ==
  ASSUME phases \in Seq(PhaseName \X PhaseOutcome),
         NEW name \in PhaseName, NEW came \in PhaseOutcome, Logged(name, came)
  PROVE  /\ phases' \in Seq(PhaseName \X PhaseOutcome)
         /\ Len(phases') = Len(phases) + 1
         /\ phases'[Len(phases')] = <<name, came>>
         /\ \A i \in DOMAIN phases : phases'[i] = phases[i]
         /\ \A i \in DOMAIN phases' : i \in DOMAIN phases \/ i = Len(phases')
BY DEF Logged

(***************************************************************************)
(* One sequence after another.                                             *)
(***************************************************************************)
LEMMA Joined ==
  ASSUME NEW S, NEW a \in Seq(S), NEW b \in Seq(S)
  PROVE  /\ a \o b \in Seq(S)
         /\ Len(a \o b) = Len(a) + Len(b)
         /\ \A i \in 1..Len(a) : (a \o b)[i] = a[i]
         /\ \A i \in Len(a) + 1..Len(a) + Len(b) : (a \o b)[i] = b[i - Len(a)]
OBVIOUS

(***************************************************************************)
(* The phases an engine that is loaded leaves in the log, which is empty.  *)
(***************************************************************************)
LEMMA LoadedPhases ==
  ASSUME phases = <<>>, NEW asked \in BOOLEAN,
         NEW readiness \in {"success", "readiness_failed"},
         phases' = phases
           \o << <<"load", "success">>, <<"readiness", readiness>> >>
           \o (IF asked THEN <<>>
               ELSE << <<"warmup", "not_run">>, <<"transcribe_probe", "not_run">> >>)
  PROVE  /\ phases' \in Seq(PhaseName \X PhaseOutcome)
         /\ \A i \in DOMAIN phases' :
              \/ phases'[i] = <<"load", "success">>
              \/ phases'[i] = <<"readiness", readiness>>
              \/ ~asked /\ phases'[i] \in {<<"warmup", "not_run">>,
                                           <<"transcribe_probe", "not_run">>}
<1> DEFINE first == << <<"load", "success">>, <<"readiness", readiness>> >>
           rest == IF asked THEN <<>>
                   ELSE << <<"warmup", "not_run">>, <<"transcribe_probe", "not_run">> >>
           S == PhaseName \X PhaseOutcome
<1>1. /\ first \in Seq(S) /\ Len(first) = 2
      /\ first[1] = <<"load", "success">> /\ first[2] = <<"readiness", readiness>>
  BY DEF PhaseName, PhaseOutcome
<1>2. /\ rest \in Seq(S) /\ Len(rest) \in {0, 2}
      /\ \A i \in 1..Len(rest) : ~asked /\ rest[i] \in {<<"warmup", "not_run">>,
                                                        <<"transcribe_probe", "not_run">>}
  <2>1. CASE asked
    BY <2>1
  <2>2. CASE ~asked
    <3>1. rest = << <<"warmup", "not_run">>, <<"transcribe_probe", "not_run">> >>
      BY <2>2
    <3> QED BY <3>1, <2>2 DEF PhaseName, PhaseOutcome
  <2> QED BY <2>1, <2>2
<1>3. phases' = phases \o first \o rest
  OBVIOUS
<1> HIDE DEF first, rest
<1>4. phases \o first = first
  BY <1>1
<1> HIDE DEF S
<1>5. /\ first \o rest \in Seq(S)
      /\ Len(first \o rest) = Len(first) + Len(rest)
      /\ \A i \in 1..Len(first) : (first \o rest)[i] = first[i]
      /\ \A i \in Len(first) + 1..Len(first) + Len(rest) :
           (first \o rest)[i] = rest[i - Len(first)]
  BY <1>1, <1>2, Joined
<1>6. /\ Len(first \o rest) = 2 + Len(rest) /\ Len(rest) \in Nat
      /\ \A i \in 1..2 : (first \o rest)[i] = first[i]
      /\ \A i \in 3..2 + Len(rest) : (first \o rest)[i] = rest[i - 2]
  <2>1. Len(first) = 2 /\ 2 + 1 = 3
    BY <1>1
  <2> QED BY <1>2, <1>5, <2>1
<1>7. phases' = first \o rest
  BY <1>3, <1>4
<1>8. ASSUME NEW i \in DOMAIN phases'
      PROVE  \/ phases'[i] = <<"load", "success">>
             \/ phases'[i] = <<"readiness", readiness>>
             \/ ~asked /\ phases'[i] \in {<<"warmup", "not_run">>,
                                          <<"transcribe_probe", "not_run">>}
  <2>1. i \in 1..2 + Len(rest)
    BY <1>5, <1>6, <1>7, <1>8
  <2>2. CASE i \in 1..2
    BY <2>2, <1>1, <1>6, <1>7
  <2>3. CASE i \in 3..2 + Len(rest)
    <3>1. i - 2 \in 1..Len(rest) /\ phases'[i] = rest[i - 2]
      BY <2>3, <1>6, <1>7
    <3> QED BY <3>1, <1>2
  <2> QED BY <2>1, <2>2, <2>3, <1>6
<1> QED BY <1>5, <1>7, <1>8 DEF S

(***************************************************************************)
(* What the engine's calls may come to.                                    *)
(***************************************************************************)
LEMMA CallOutcomes ==
  ASSUME NEW i
  PROVE  /\ WarmUpOf(i) \subseteq {"success", "warm_up_failed", "escaped"}
         /\ ~Ready => "success" \notin WarmUpOf(i)
         /\ TranscriptOf(i) \subseteq PhaseOutcome \cup {"escaped"}
<1>1. ASSUME NEW length
      PROVE  /\ Transcribed(length) \subseteq FailureCode \cup {"success", "escaped"}
             /\ ~Ready => "success" \notin Transcribed(length)
  BY DEF Transcribed, Checked, Inferred, FailureCode
<1>2. ASSUME NEW length
      PROVE  /\ WarmedUp(length) \subseteq {"success", "warm_up_failed", "escaped"}
             /\ ~Ready => "success" \notin WarmedUp(length)
  BY <1>1 DEF WarmedUp, FailureCode
<1> QED BY <1>1, <1>2 DEF WarmUpOf, TranscriptOf, PhaseOutcome

(***************************************************************************)
(* Every step of the worker keeps its invariant.                           *)
(***************************************************************************)
LEMMA WorkerSafe ==
  ASSUME WInv, WorkerStep, UNCHANGED workload
  PROVE  WInv'
<1>1. AskedTyped'
  <2>1. UNCHANGED request
    BY DEF WorkerStep, Receive, Load, WarmUp, Probe, ProbePhase, Sample, CloseEngine,
           Reply, Answered
  <2> QED BY <2>1 DEF WInv, AskedTyped
<1>2. /\ AskedTyped /\ LogTyped /\ NotBegun /\ OnSamples /\ GoodSoFar /\ Told
      /\ EngineIsReleased /\ Answers
  BY DEF WInv
<1> USE DEF LogTyped, PC
<1>3. CASE Receive
  <2>1. /\ pc = "receive" /\ UNCHANGED <<model, request, phases, samples, status, inferred>>
        /\ answer' = "none"
        /\ \/ pc' = "load" /\ ~escaped'
           \/ pc' = "reply" /\ escaped'
    BY <1>2, <1>3 DEF Receive, engineVars, reply, Answers, NotBegun
  <2>2. LogTyped'
    BY <1>2, <1>3 DEF Receive, engineVars
  <2>3. /\ pc = "receive" /\ phases = <<>> /\ samples = <<>> /\ inferred = {}
        /\ status = "success" /\ model = NoOptions
    BY <1>2, <2>1 DEF NotBegun
  <2>4. NotBegun' /\ OnSamples'
    BY <2>1, <2>3 DEF NotBegun, OnSamples
  <2>5. GoodSoFar' /\ Told'
    BY <2>1, <2>3 DEF GoodSoFar, GoodPhases, Told, ReadinessLogged
  <2>6. EngineIsReleased' /\ Answers'
    BY <2>1, <2>3 DEF EngineIsReleased, Answers, ExitTellsAnswer, SuccessIsWhole
  <2> QED BY <1>1, <2>2, <2>4, <2>5, <2>6 DEF WInv
<1>4. CASE Load
  <2>1. /\ pc = "load" /\ phases = <<>> /\ samples = <<>> /\ inferred = {}
        /\ status = "success" /\ ~escaped
        /\ UNCHANGED <<request, samples, inferred, answer>> /\ answer = "none"
    BY <1>2, <1>4 DEF Load, NotBegun, reply, Answers
  <2>2. CASE Loaded
    <3> DEFINE asked == request.samples # <<>>
               readiness == IF Ready' THEN "success" ELSE "readiness_failed"
    <3>1. /\ model' \in Options \cup {NoOptions} /\ escaped' = escaped
          /\ phases' = phases
               \o << <<"load", "success">>, <<"readiness", readiness>> >>
               \o (IF asked THEN <<>>
                   ELSE << <<"warmup", "not_run">>, <<"transcribe_probe", "not_run">> >>)
          /\ pc' = CASE ~asked -> "close"
                     [] asked /\ request.version = 1 -> "warmup"
                     [] asked /\ request.version = 2 ->
                          IF Ready' THEN "samples" ELSE "close"
          /\ status' = IF request.version = 2 /\ ~Ready' THEN "fail" ELSE status
      BY <2>2 DEF Loaded, LoadDone
    <3>b. asked \in BOOLEAN
      OBVIOUS
    <3> HIDE DEF asked, readiness
    <3>r. readiness \in {"success", "readiness_failed"} /\ (Ready' <=> readiness = "success")
      BY DEF readiness
    <3>2. /\ phases' \in Seq(PhaseName \X PhaseOutcome)
          /\ \A i \in DOMAIN phases' :
               \/ phases'[i] = <<"load", "success">>
               \/ phases'[i] = <<"readiness", readiness>>
               \/ ~asked /\ phases'[i] \in {<<"warmup", "not_run">>,
                                            <<"transcribe_probe", "not_run">>}
      BY <2>1, <3>1, <3>b, <3>r, LoadedPhases
    <3>3. /\ asked <=> Len(request.samples) > 0
          /\ Len(request.samples) \in Nat /\ request.version \in {1, 2}
          /\ asked /\ request.version = 1 => Len(request.samples) = 1
          /\ request.version = 2 => Len(request.samples) >= 1
          /\ ~asked => DOMAIN request.samples = {} /\ request.samples = <<>>
      <4>1. /\ request.samples \in Seq(SampleKind) /\ request.version \in {1, 2}
            /\ request.version = 1 => Len(request.samples) <= 1
            /\ request.version = 2 => Len(request.samples) >= 1
        BY <1>2 DEF AskedTyped
      <4>2. /\ Len(request.samples) \in Nat
            /\ Len(request.samples) = 0 <=> request.samples = <<>>
            /\ request.samples = <<>> => DOMAIN request.samples = {}
        BY <4>1
      <4>3. asked <=> Len(request.samples) # 0
        BY <4>2 DEF asked
      <4>4. asked <=> Len(request.samples) > 0
        BY <4>2, <4>3
      <4>5. asked /\ request.version = 1 => Len(request.samples) = 1
        <5> DEFINE n == Len(request.samples)
        <5>1. n \in Nat /\ (asked => n # 0) /\ (request.version = 1 => n <= 1)
          BY <4>1, <4>2, <4>3
        <5> HIDE DEF n
        <5>2. asked /\ request.version = 1 => n = 1
          BY <5>1
        <5> QED BY <5>2 DEF n
      <4>6. ~asked => DOMAIN request.samples = {} /\ request.samples = <<>>
        BY <4>2, <4>3
      <4> QED BY <4>1, <4>2, <4>4, <4>5, <4>6
    <3>4. pc' \in {"close", "warmup", "samples"} /\ status' \in {"success", "fail"}
      BY <3>1, <3>3, <2>1
    <3>5. LogTyped' /\ NotBegun'
      BY <1>2, <2>1, <3>1, <3>2, <3>4 DEF NotBegun
    <3>6. OnSamples'
      <4>1. /\ UNCHANGED <<request, samples, inferred, escaped>>
            /\ inferred = {} /\ samples = <<>> /\ Len(samples) = 0 /\ DOMAIN samples = {}
        BY <2>1, <3>1
      <4>2. pc' \in {"warmup", "probe"} => request.version = 1 /\ Len(request.samples) = 1
        BY <3>1, <3>3
      <4>3. pc' = "samples" => request.version = 2 /\ Len(request.samples) > 0 /\ ~escaped
        BY <2>1, <3>1, <3>3
      <4> QED BY <4>1, <4>2, <4>3 DEF OnSamples
    <3>7. GoodSoFar'
      <4>1. status' = "success" => request.version = 1 \/ Ready'
        BY <3>1, <3>3
      <4>2. request.version = 1 /\ asked => pc' = "warmup"
        BY <3>1
      <4>3. status' = "success" => GoodPhases' \/ (pc' = "warmup" /\ ~Ready')
        <5>1. CASE Ready'
          BY <5>1, <3>2, <3>r, <2>1 DEF GoodPhases
        <5>2. CASE ~Ready' /\ asked
          BY <5>2, <4>1, <4>2
        <5>3. CASE ~asked
          BY <5>3, <3>2, <3>3, <2>1 DEF GoodPhases
        <5> QED BY <5>1, <5>2, <5>3
      <4>4. pc' \in {"close", "reply"} /\ status' = "success" => ~asked /\ request.version = 1
        BY <3>1, <3>3
      <4> QED BY <2>1, <3>3, <4>3, <4>4 DEF GoodSoFar
    <3>8. Told'
      <4>1. pc' \in {"close", "reply", "ended"} /\ request.version = 2 => ~Ready'
        BY <3>1, <3>3
      <4>2. ~Ready' => ~ReadinessLogged'
        BY <3>2, <3>r DEF ReadinessLogged
      <4> QED BY <2>1, <4>1, <4>2 DEF Told
    <3>9. EngineIsReleased' /\ Answers'
      BY <2>1, <3>4 DEF EngineIsReleased, Answers, ExitTellsAnswer, SuccessIsWhole
    <3> QED BY <1>1, <3>5, <3>6, <3>7, <3>8, <3>9 DEF WInv
  <2>3. CASE LoadFails
    <3>1. /\ model' = model /\ pc' = "close"
          /\ \/ /\ \E phase \in {"load", "backend_availability"}, why \in LoadCode :
                     Logged(phase, why)
                /\ status' = "fail" /\ escaped' = escaped
             \/ escaped' = TRUE /\ UNCHANGED <<phases, status>>
      BY <2>3 DEF LoadFails, LoadNotDone
    <3>2. /\ phases' \in Seq(PhaseName \X PhaseOutcome)
          /\ ~escaped' => status' = "fail" /\ ~ReadinessLogged'
      <4>1. CASE escaped' = TRUE /\ UNCHANGED <<phases, status>>
        BY <4>1, <1>2
      <4>2. ASSUME NEW phase \in {"load", "backend_availability"}, NEW why \in LoadCode,
                   Logged(phase, why), status' = "fail", escaped' = escaped
            PROVE  /\ phases' \in Seq(PhaseName \X PhaseOutcome)
                   /\ ~escaped' => status' = "fail" /\ ~ReadinessLogged'
        <5>1. phases' = << <<phase, why>> >>
          BY <2>1, <4>2 DEF Logged
        <5>2. phase \in PhaseName /\ why \in PhaseOutcome
          BY DEF PhaseName, PhaseOutcome, LoadCode, FailureCode
        <5> QED BY <5>1, <5>2, <4>2 DEF ReadinessLogged
      <4> QED BY <3>1, <4>1, <4>2
    <3>3. LogTyped' /\ NotBegun'
      BY <1>2, <2>1, <3>1, <3>2 DEF NotBegun
    <3>4. OnSamples' /\ GoodSoFar' /\ Told'
      BY <2>1, <3>1, <3>2 DEF OnSamples, GoodSoFar, Told
    <3>5. EngineIsReleased' /\ Answers'
      BY <2>1, <3>1 DEF EngineIsReleased, Answers, ExitTellsAnswer, SuccessIsWhole
    <3> QED BY <1>1, <3>3, <3>4, <3>5 DEF WInv
  <2> QED BY <1>4, <2>2, <2>3 DEF Load
<1>5. CASE WarmUp
  <2>1. /\ pc = "warmup" /\ UNCHANGED <<model, request, samples, inferred, answer>>
        /\ answer = "none" /\ request.version = 1 /\ Len(request.samples) = 1
        /\ inferred = {} /\ samples = <<>>
    BY <1>2, <1>5 DEF WarmUp, ProbePhase, engineVars, reply, Answers, OnSamples
  <2>2. PICK result \in WarmUpOf(1) : ProbePhase("warmup", "warm_up", result, "probe")
    BY <1>5 DEF WarmUp
  <2>3. /\ result \in {"success", "warm_up_failed", "escaped"}
        /\ result = "success" => Ready
    BY <2>2, CallOutcomes
  <2>4. CASE result = "success"
    <3>1. pc' = "probe" /\ Logged("warmup", "success") /\ UNCHANGED <<status, escaped>>
      BY <2>2, <2>4 DEF ProbePhase
    <3>2. "warmup" \in PhaseName /\ "success" \in PhaseOutcome
      BY DEF PhaseName, PhaseOutcome
    <3>3. /\ phases' \in Seq(PhaseName \X PhaseOutcome)
          /\ phases'[Len(phases')] = <<"warmup", "success">>
          /\ \A i \in DOMAIN phases : phases'[i] = phases[i]
          /\ \A i \in DOMAIN phases' : i \in DOMAIN phases \/ i = Len(phases')
      BY <1>2, <3>1, <3>2, LoggedPhase
    <3>4. LogTyped' /\ NotBegun' /\ OnSamples' /\ Told'
      <4>1. LogTyped' /\ NotBegun'
        BY <1>2, <2>1, <3>1, <3>3 DEF NotBegun
      <4>2. OnSamples' /\ Told'
        BY <2>1, <3>1 DEF OnSamples, Told
      <4> QED BY <4>1, <4>2
    <3>5. GoodSoFar'
      BY <1>2, <2>1, <2>3, <2>4, <3>1, <3>3 DEF GoodSoFar, GoodPhases
    <3>6. EngineIsReleased' /\ Answers'
      BY <2>1, <3>1 DEF EngineIsReleased, Answers, ExitTellsAnswer, SuccessIsWhole
    <3> QED BY <1>1, <3>4, <3>5, <3>6 DEF WInv
  <2>5. CASE result # "success"
    <3>1. /\ pc' = "close"
          /\ \/ Logged("warm_up", "warm_up_failed") /\ status' = "fail" /\ escaped' = escaped
             \/ escaped' = TRUE /\ UNCHANGED <<phases, status>>
      BY <2>2, <2>3, <2>5 DEF ProbePhase
    <3>2. "warm_up" \in PhaseName /\ "warm_up_failed" \in PhaseOutcome
      BY DEF PhaseName, PhaseOutcome, FailureCode
    <3>3. phases' \in Seq(PhaseName \X PhaseOutcome)
      BY <1>2, <3>1, <3>2, LoggedPhase
    <3>4. LogTyped' /\ NotBegun' /\ OnSamples' /\ Told'
      <4>1. LogTyped' /\ NotBegun'
        BY <1>2, <2>1, <3>1, <3>3 DEF NotBegun
      <4>2. OnSamples' /\ Told'
        BY <2>1, <3>1 DEF OnSamples, Told
      <4> QED BY <4>1, <4>2
    <3>5. GoodSoFar' /\ EngineIsReleased' /\ Answers'
      BY <2>1, <3>1 DEF GoodSoFar, EngineIsReleased, Answers, ExitTellsAnswer, SuccessIsWhole
    <3> QED BY <1>1, <3>4, <3>5 DEF WInv
  <2> QED BY <2>4, <2>5
<1>6. CASE Probe
  <2>1. /\ pc = "probe" /\ UNCHANGED <<model, request, samples, answer>>
        /\ answer = "none" /\ request.version = 1 /\ Len(request.samples) = 1
        /\ inferred = {} /\ samples = <<>>
    BY <1>2, <1>6 DEF Probe, ProbePhase, engineVars, reply, Answers, OnSamples
  <2>2. PICK result \in TranscriptOf(1) :
          /\ ProbePhase("transcribe_probe", "transcribe", result, "close")
          /\ inferred' = IF result = "success" THEN {1} ELSE {}
    BY <1>6 DEF Probe
  <2>3. result \in PhaseOutcome \cup {"escaped"}
    BY <2>2, CallOutcomes
  <2>4. DOMAIN request.samples = {1}
    BY <1>2, <2>1 DEF AskedTyped
  <2>5. CASE result = "success"
    <3>1. /\ pc' = "close" /\ Logged("transcribe_probe", "success")
          /\ UNCHANGED <<status, escaped>>
      BY <2>2, <2>5 DEF ProbePhase
    <3>2. "transcribe_probe" \in PhaseName /\ "success" \in PhaseOutcome
      BY DEF PhaseName, PhaseOutcome
    <3>3. /\ phases' \in Seq(PhaseName \X PhaseOutcome)
          /\ phases'[Len(phases')] = <<"transcribe_probe", "success">>
          /\ \A i \in DOMAIN phases : phases'[i] = phases[i]
          /\ \A i \in DOMAIN phases' : i \in DOMAIN phases \/ i = Len(phases')
      BY <1>2, <3>1, <3>2, LoggedPhase
    <3>4. LogTyped' /\ NotBegun' /\ OnSamples' /\ Told'
      <4>1. LogTyped' /\ NotBegun'
        BY <1>2, <2>1, <3>1, <3>3 DEF NotBegun
      <4>2. OnSamples' /\ Told'
        BY <2>1, <3>1 DEF OnSamples, Told
      <4> QED BY <4>1, <4>2
    <3>5. GoodSoFar'
      BY <1>2, <2>1, <2>2, <2>4, <2>5, <3>1, <3>3 DEF GoodSoFar, GoodPhases
    <3>6. EngineIsReleased' /\ Answers'
      BY <2>1, <3>1 DEF EngineIsReleased, Answers, ExitTellsAnswer, SuccessIsWhole
    <3> QED BY <1>1, <3>4, <3>5, <3>6 DEF WInv
  <2>6. CASE result # "success"
    <3>1. /\ pc' = "close"
          /\ \/ /\ result # "escaped" /\ Logged("transcribe", result)
                /\ status' = "fail" /\ escaped' = escaped
             \/ escaped' = TRUE /\ UNCHANGED <<phases, status>>
      BY <2>2, <2>6 DEF ProbePhase
    <3>2. "transcribe" \in PhaseName
      BY DEF PhaseName
    <3>3. phases' \in Seq(PhaseName \X PhaseOutcome)
      BY <1>2, <2>3, <3>1, <3>2, LoggedPhase
    <3>4. LogTyped' /\ NotBegun' /\ OnSamples' /\ Told'
      <4>1. LogTyped' /\ NotBegun'
        BY <1>2, <2>1, <3>1, <3>3 DEF NotBegun
      <4>2. OnSamples' /\ Told'
        BY <2>1, <3>1 DEF OnSamples, Told
      <4> QED BY <4>1, <4>2
    <3>5. GoodSoFar' /\ EngineIsReleased' /\ Answers'
      BY <2>1, <3>1 DEF GoodSoFar, EngineIsReleased, Answers, ExitTellsAnswer, SuccessIsWhole
    <3> QED BY <1>1, <3>4, <3>5 DEF WInv
  <2> QED BY <2>5, <2>6
<1>7. CASE Sample
  <2> DEFINE i == Len(samples) + 1
  <2>1. /\ pc = "samples" /\ UNCHANGED <<model, request, phases, status, answer>>
        /\ answer = "none" /\ request.version = 2 /\ ~escaped
        /\ Len(samples) < Len(request.samples)
        /\ inferred = {k \in DOMAIN samples : samples[k] = "success"}
    BY <1>2, <1>7 DEF Sample, engineVars, reply, Answers, OnSamples
  <2>2. PICK result \in (IF i = 1 THEN WarmUpOf(i) ELSE TranscriptOf(i)) :
          /\ escaped' = (result = "escaped")
          /\ samples' = IF escaped' THEN samples ELSE Append(samples, result)
          /\ inferred' = IF result = "success" THEN inferred \cup {i} ELSE inferred
          /\ pc' = IF ~escaped' /\ i < Len(request.samples) THEN pc ELSE "close"
    BY <1>7 DEF Sample
  <2>3. result \in PhaseOutcome \cup {"escaped"}
    <3>1. "warm_up_failed" \in PhaseOutcome /\ "success" \in PhaseOutcome
      BY DEF PhaseOutcome, FailureCode
    <3> QED BY <2>2, <3>1, CallOutcomes
  <2>4. CASE result = "escaped"
    <3>1. escaped' = TRUE /\ samples' = samples /\ inferred' = inferred /\ pc' = "close"
      BY <2>2, <2>4
    <3>2. LogTyped' /\ NotBegun' /\ OnSamples' /\ GoodSoFar' /\ Told'
      BY <1>2, <2>1, <3>1 DEF NotBegun, OnSamples, GoodSoFar, Told
    <3>3. EngineIsReleased' /\ Answers'
      BY <2>1, <3>1 DEF EngineIsReleased, Answers, ExitTellsAnswer, SuccessIsWhole
    <3> QED BY <1>1, <3>2, <3>3 DEF WInv
  <2>5. CASE result # "escaped"
    <3>1. /\ escaped' = FALSE /\ samples' = Append(samples, result) /\ result \in PhaseOutcome
          /\ pc' = IF i < Len(request.samples) THEN "samples" ELSE "close"
      BY <2>1, <2>2, <2>3, <2>5
    <3>2. /\ samples' \in Seq(PhaseOutcome) /\ Len(samples') = i /\ samples'[i] = result
          /\ DOMAIN samples' = DOMAIN samples \cup {i} /\ i \notin DOMAIN samples
          /\ \A k \in DOMAIN samples : samples'[k] = samples[k]
      BY <1>2, <3>1
    <3>3. inferred' = {k \in DOMAIN samples' : samples'[k] = "success"}
      <4> HIDE DEF i
      <4> QED BY <2>1, <2>2, <3>2
    <3>4. LogTyped' /\ NotBegun'
      BY <1>2, <2>1, <3>1, <3>2 DEF NotBegun
    <3>5. Len(request.samples) \in Nat
      BY <1>2 DEF AskedTyped
    <3>6. pc' # "samples" => Len(samples') = Len(request.samples)
      BY <1>2, <2>1, <3>1, <3>2, <3>5
    <3>7. OnSamples'
      BY <2>1, <3>1, <3>2, <3>3 DEF OnSamples
    <3>8. Told'
      BY <2>1, <3>1, <3>6 DEF Told
    <3>9. GoodSoFar'
      <4>1. status = "success" => GoodPhases
        BY <1>2, <2>1 DEF GoodSoFar
      <4> QED BY <2>1, <3>1, <3>6, <4>1 DEF GoodSoFar, GoodPhases
    <3>10. EngineIsReleased' /\ Answers'
      BY <2>1, <3>1 DEF EngineIsReleased, Answers, ExitTellsAnswer, SuccessIsWhole
    <3> QED BY <1>1, <3>4, <3>7, <3>8, <3>9, <3>10 DEF WInv
  <2> QED BY <2>4, <2>5
<1>8. CASE CloseEngine
  <2>1. /\ pc = "close" /\ pc' = "reply"
        /\ UNCHANGED <<request, samples, escaped, inferred, answer>> /\ answer = "none"
    BY <1>2, <1>8 DEF CloseEngine, reply, Answers
  <2>2. PICK result \in {"success", "resource_release_failed"} :
          /\ model' = NoOptions
          /\ Logged("close", result)
          /\ status' = IF result = "success" THEN status ELSE "fail"
    BY <1>8 DEF CloseEngine, Close
  <2>3. "close" \in PhaseName /\ result \in PhaseOutcome
    BY DEF PhaseName, PhaseOutcome, FailureCode
  <2>4. /\ phases' \in Seq(PhaseName \X PhaseOutcome)
        /\ Len(phases') = Len(phases) + 1
        /\ phases'[Len(phases')] = <<"close", result>>
        /\ \A i \in DOMAIN phases : phases'[i] = phases[i]
        /\ \A i \in DOMAIN phases' : i \in DOMAIN phases \/ i = Len(phases')
    BY <1>2, <2>2, <2>3, LoggedPhase
  <2>5. LogTyped' /\ NotBegun' /\ OnSamples'
    BY <1>2, <2>1, <2>2, <2>4 DEF NotBegun, OnSamples
  <2>6. ReadinessLogged' => ReadinessLogged
    BY <2>4 DEF ReadinessLogged
  <2>7. Told'
    BY <1>2, <2>1, <2>6 DEF Told
  <2>8. GoodSoFar'
    <3>1. status' = "success" => status = "success" /\ result = "success"
      BY <1>2, <2>2
    <3>2. status = "success" /\ ~escaped => GoodPhases
      BY <1>2, <2>1 DEF GoodSoFar
    <3>3. status' = "success" /\ ~escaped' => GoodPhases'
      BY <2>1, <2>4, <3>1, <3>2 DEF GoodPhases
    <3> QED BY <1>2, <2>1, <3>1, <3>3 DEF GoodSoFar
  <2>9. EngineIsReleased' /\ Answers'
    BY <2>1, <2>2, <2>4 DEF EngineIsReleased, Answers, ExitTellsAnswer, SuccessIsWhole
  <2> QED BY <1>1, <2>5, <2>7, <2>8, <2>9 DEF WInv
<1>9. CASE Reply
  <2> DEFINE final == IF AllRun THEN status ELSE "fail"
  <2>1. /\ pc = "reply" /\ pc' = "ended"
        /\ UNCHANGED <<model, request, phases, samples, escaped, inferred>>
        /\ answer = "none"
    BY <1>2, <1>9 DEF Reply, Answered, engineVars, Answers
  <2>2. \/ /\ ~escaped /\ status' = final
           /\ \/ /\ answer' = IF final = "success" THEN "succeeded" ELSE "failed"
                 /\ exit' = IF final = "success" THEN "zero" ELSE "nonzero"
              \/ answer' = "stderr" /\ exit' = "nonzero"
        \/ escaped /\ answer' = "other_nonce" /\ exit' = "nonzero" /\ status' = status
    BY <1>9 DEF Reply, Answered, Code
  <2>3. final \in {"success", "fail"}
    BY <1>2
  <2>4. final = "success" => AllRun /\ status = "success"
    OBVIOUS
  <2> HIDE DEF final
  <2>5. LogTyped' /\ NotBegun' /\ OnSamples'
    BY <1>2, <2>1, <2>2, <2>3 DEF NotBegun, OnSamples
  <2>6. Told'
    BY <1>2, <2>1 DEF Told, ReadinessLogged
  <2>7. ~escaped /\ final = "success" =>
          GoodPhases /\ inferred = DOMAIN request.samples
    <3> SUFFICES ASSUME ~escaped, final = "success"
                 PROVE  GoodPhases /\ inferred = DOMAIN request.samples
      OBVIOUS
    <3>1. GoodPhases
      BY <1>2, <2>1, <2>4 DEF GoodSoFar
    <3>2. CASE request.version = 1
      BY <1>2, <2>1, <2>4, <3>1, <3>2 DEF GoodSoFar
    <3>3. CASE request.version = 2
      <4>1. Len(samples) = Len(request.samples) /\ AllRun
        BY <1>2, <2>1, <2>4, <3>3 DEF GoodSoFar
      <4>2. /\ DOMAIN samples = 1..Len(samples)
            /\ DOMAIN request.samples = 1..Len(request.samples)
        BY <1>2 DEF AskedTyped
      <4>3. inferred = {i \in DOMAIN samples : samples[i] = "success"}
        BY <1>2, <3>3 DEF OnSamples
      <4>4. \A i \in DOMAIN samples : samples[i] = "success"
        BY <4>1, <4>2 DEF AllRun
      <4> QED BY <3>1, <4>1, <4>2, <4>3, <4>4
    <3> QED BY <1>2, <3>2, <3>3 DEF AskedTyped
  <2>8. GoodSoFar'
    <3>1. ~escaped' /\ status' = "success" => GoodPhases
      BY <2>1, <2>2, <2>7
    <3> QED BY <2>1, <3>1 DEF GoodSoFar, GoodPhases
  <2>9. EngineIsReleased'
    BY <1>2, <2>1 DEF EngineIsReleased
  <2>10. Answers'
    <3>1. ExitTellsAnswer'
      BY <2>1, <2>2, <2>3 DEF ExitTellsAnswer
    <3>2. answer' = "succeeded" => GoodPhases /\ inferred = DOMAIN request.samples
      BY <2>2, <2>3, <2>7
    <3>3. SuccessIsWhole'
      BY <2>1, <3>2 DEF SuccessIsWhole, GoodPhases
    <3> QED BY <2>1, <3>1, <3>3 DEF Answers
  <2> QED BY <1>1, <2>5, <2>6, <2>8, <2>9, <2>10 DEF WInv
<1> QED BY <1>3, <1>4, <1>5, <1>6, <1>7, <1>8, <1>9 DEF WorkerStep
-----------------------------------------------------------------------------
(***************************************************************************)
(* So it holds of every worker of the program.                             *)
(***************************************************************************)
LEMMA WorkerInvariance == Spec => []WInv
<1>1. Init => WInv
  BY WorkerInitSafe
<1>2. WInv /\ [Next]_vars => WInv'
  <2> SUFFICES ASSUME WInv, [Next]_vars  PROVE WInv'
    OBVIOUS
  <2>1. CASE Spawn
    BY <2>1, SpawnSafe
  <2>2. CASE Work
    <3>1. WorkerStep /\ UNCHANGED workload
      BY <2>2 DEF Work, plan
    <3> QED BY <3>1, WorkerSafe
  <2>3. CASE ~Spawn /\ ~Work
    <3>1. UNCHANGED <<workerVars, workload>>
      BY <2>3, ProgramAside
    <3> QED BY <3>1, AsideSafe
  <2> QED BY <2>1, <2>2, <2>3
<1> QED BY <1>1, <1>2, PTL DEF Spec

(***************************************************************************)
(* A worker that calls itself successful took every sample through its     *)
(* model, and no phase of its life cycle failed (benchmark_worker.py).     *)
(***************************************************************************)
THEOREM WorkerSuccessIsWhole == Spec => []SuccessIsWhole
<1>1. WInv => SuccessIsWhole
  BY DEF WInv, Answers
<1> QED BY <1>1, WorkerInvariance, PTL

(***************************************************************************)
(* No worker answers before its engine was closed and its model dropped,   *)
(* on whatever way it came to its answer (benchmark_worker.py).            *)
(***************************************************************************)
THEOREM WorkerReleasesEngine == Spec => []EngineIsReleased
<1>1. WInv => EngineIsReleased
  BY DEF WInv
<1> QED BY <1>1, WorkerInvariance, PTL

(***************************************************************************)
(* The exit status and the answer of a worker say the same                 *)
(* (benchmark_worker.py), so that the supervisor may ask for both.         *)
(***************************************************************************)
THEOREM WorkerExitTellsAnswer == Spec => []ExitTellsAnswer
<1>1. WInv => ExitTellsAnswer
  BY DEF WInv, Answers
<1> QED BY <1>1, WorkerInvariance, PTL

(***************************************************************************)
(* A version 2 message tells of every sample the worker was asked for once *)
(* the engine was ready (benchmark_worker.py).                             *)
(***************************************************************************)
THEOREM WorkerTellsEverySample == Spec => []EverySampleIsTold
<1>1. WInv => EverySampleIsTold
  BY DEF WInv, Answers, ExitTellsAnswer, Told, ReadinessLogged, EverySampleIsTold, LogTyped, PC
<1> QED BY <1>1, WorkerInvariance, PTL
-----------------------------------------------------------------------------
(***************************************************************************)
(* The result file is only touched by moving a temporary file over it that *)
(* is complete, and the runner only ends with a status after that.         *)
(***************************************************************************)
FInv ==
  /\ request.version \in {1, 2} /\ DOMAIN request = {"version", "samples"}
  /\ file \in {"absent", "earlier", "this"}
  /\ stage = "replace" => temp = "this"
  /\ Runner /\ stage \in {"exit", "ended"} => file = "this"
  /\ code # "none" => stage = "ended" /\ (code = "zero" <=> outcome \in Accepted)

(***************************************************************************)
(* These facts about the file are inductive.                               *)
(***************************************************************************)
LEMMA FileInvariance == Spec => []FInv
<1>1. Init => FInv
  <2> SUFFICES ASSUME Init  PROVE FInv
    OBVIOUS
  <2>1. AskedTyped
    BY WorkerInitSafe DEF WInv
  <2> QED BY <2>1 DEF Init, FInv, AskedTyped
<1>2. FInv /\ [Next]_vars => FInv'
  <2> SUFFICES ASSUME FInv, [Next]_vars  PROVE FInv'
    OBVIOUS
  <2>5. ASSUME NEW supervised, NEW told, stage \in {"spawn", "worker"},
               Returns(supervised, told)
        PROVE  FInv'
    <3> USE DEF FInv, Runner, Accepted
    <3>1. UNCHANGED <<request, temp, file, code>>
      BY <2>5 DEF Returns, workerVars, files
    <3>2. CASE Runner
      <4>1. stage' \in {"judge", "spawn"}
        BY <2>5, <3>2 DEF Returns, Collect
      <4> QED BY <2>5, <3>1, <3>2, <4>1
    <3>3. CASE ~Runner
      <4>1. stage' # "replace"
        BY <2>5, <3>3 DEF Returns, CollectProbe, ProbeEnds
      <4> QED BY <2>5, <3>1, <3>3, <4>1
    <3> QED BY <3>2, <3>3
  <2>6. CASE SpawnFails \/ WorkerEnds \/ WorkerTimesOut
    <3>1. stage \in {"spawn", "worker"}
      BY <2>6 DEF SpawnFails, WorkerEnds, WorkerTimesOut
    <3>2. \E supervised, told : Returns(supervised, told)
      BY <2>6 DEF SpawnFails, WorkerEnds, WorkerTimesOut
    <3> QED BY <2>5, <3>1, <3>2
  <2> USE DEF FInv, Runner, Accepted
  <2>1. CASE CheckInputs
    BY <2>1 DEF CheckInputs, files, workerVars
  <2>2. CASE CheckPackage
    BY <2>2 DEF CheckPackage, files, workerVars
  <2>3. CASE Spawn
    BY <2>3 DEF Spawn, NewWorker, files, results
  <2>4. CASE Work
    BY <2>4 DEF Work, WorkerStep, Receive, Load, WarmUp, Probe, ProbePhase, Sample,
                CloseEngine, Reply, Answered, files, results
  <2>7. CASE Judge
    BY <2>7 DEF Judge, files, workerVars
  <2>8. CASE Write
    BY <2>8 DEF Write, results, workerVars
  <2>9. CASE Fill
    BY <2>9 DEF Fill, results, workerVars
  <2>10. CASE Replace
    BY <2>10 DEF Replace, results, workerVars
  <2>11. CASE Exit
    BY <2>11 DEF Exit, results, workerVars
  <2>12. CASE Stop
    BY <2>12 DEF Stop, results, files, workerVars
  <2>13. CASE UNCHANGED vars
    BY <2>13 DEF vars, results, files, workerVars
  <2> QED BY <2>1, <2>2, <2>3, <2>4, <2>6, <2>7, <2>8, <2>9, <2>10, <2>11, <2>12, <2>13
          DEF Next, Over
<1> QED BY <1>1, <1>2, PTL DEF Spec

(***************************************************************************)
(* At no moment is the result file torn, wherever the program is stopped,  *)
(* and an exit status of the runner comes with this run's file and agrees  *)
(* with its outcome (benchmark_results.py, benchmark_runner.py).           *)
(***************************************************************************)
THEOREM ResultFileStaysWhole == Spec => []ResultFileIsWhole
<1>1. FInv => ResultFileIsWhole
  BY DEF FInv, ResultFileIsWhole, Accepted
<1> QED BY <1>1, FileInvariance, PTL
-----------------------------------------------------------------------------
(***************************************************************************)
(* The programs around the worker.  First how they count: by candidates,   *)
(* of so many repeats each.                                                *)
(***************************************************************************)
LEMMA OneMore ==
  ASSUME NEW n \in Nat, NEW r \in Nat
  PROVE  n * r \in Nat /\ (n + 1) * r = n * r + r
OBVIOUS

LEMMA NoFewer ==
  ASSUME NEW m \in Nat, NEW n \in Nat, NEW r \in Nat, m <= n
  PROVE  m * r <= n * r
OBVIOUS

(***************************************************************************)
(* The least number of a set is one of it.                                 *)
(***************************************************************************)
LEMMA MinIsIn ==
  ASSUME NEW T \in SUBSET Nat, T # {}
  PROVE  Min(T) \in T
BY LeastOf DEF Min

(***************************************************************************)
(* How many samples there are to a request of either version.              *)
(***************************************************************************)
Sized(version, asked) ==
  /\ asked \in Seq(SampleKind)
  /\ version = 1 => Len(asked) <= 1
  /\ version = 2 => Len(asked) \in 2..MaxScored + 1

(***************************************************************************)
(* A request is one of its version, of a size that its version allows.     *)
(***************************************************************************)
LEMMA RequestShape ==
  ASSUME NEW r
  PROVE  r \in Request <=>
           /\ r \in [version : {1, 2}, samples : Seq(SampleKind)]
           /\ Sized(r.version, r.samples)
<1> DEFINE One == UNION {[1..n -> SampleKind] : n \in 0..1}
           Two == UNION {[1..n -> SampleKind] : n \in 2..MaxScored + 1}
<1>1. ASSUME r \in Request
      PROVE  /\ r \in [version : {1, 2}, samples : Seq(SampleKind)]
             /\ Sized(r.version, r.samples)
  <2>1. CASE r \in [version : {1}, samples : One]
    <3>1. PICK n \in 0..1 : r.samples \in [1..n -> SampleKind]
      BY <2>1
    <3>2. r.samples \in Seq(SampleKind) /\ Len(r.samples) = n
      BY <3>1
    <3> QED BY <2>1, <3>2 DEF Sized
  <2>2. CASE r \in [version : {2}, samples : Two]
    <3>1. PICK n \in 2..MaxScored + 1 : r.samples \in [1..n -> SampleKind]
      BY <2>2
    <3>2. n \in Nat
      BY WorkerAssumption DEF WorkerAssumption
    <3>3. r.samples \in Seq(SampleKind) /\ Len(r.samples) = n
      BY <3>1, <3>2
    <3> QED BY <2>2, <3>3 DEF Sized
  <2> QED BY <1>1, <2>1, <2>2 DEF Request
<1>2. ASSUME r \in [version : {1, 2}, samples : Seq(SampleKind)],
             Sized(r.version, r.samples)
      PROVE  r \in Request
  <2> DEFINE n == Len(r.samples)
  <2>1. r.samples \in [1..n -> SampleKind] /\ n \in Nat
    BY <1>2
  <2>2. r.version = 1 => n \in 0..1
    <3>1. r.version = 1 => n <= 1
      BY <1>2 DEF Sized
    <3> HIDE DEF n
    <3> QED BY <2>1, <3>1
  <2>3. r.version = 2 => n \in 2..MaxScored + 1
    BY <1>2 DEF Sized
  <2> HIDE DEF n
  <2>4. r.version = 1 => r.samples \in One
    BY <2>1, <2>2
  <2>5. r.version = 2 => r.samples \in Two
    BY <2>1, <2>3
  <2> HIDE DEF One, Two
  <2>6. CASE r.version = 1
    <3>1. r \in [version : {1}, samples : One]
      BY <1>2, <2>6, <2>4
    <3> QED BY <3>1 DEF Request, One
  <2>7. CASE r.version = 2
    <3>1. r \in [version : {2}, samples : Two]
      BY <1>2, <2>7, <2>5
    <3> QED BY <3>1 DEF Request, Two
  <2> QED BY <1>2, <2>6, <2>7
<1> QED BY <1>1, <1>2

(***************************************************************************)
(* What a worker's variables may hold, beyond WInv: no more outcomes than  *)
(* samples, and in version 1 a logged transcription only of a sample that  *)
(* went through the model.                                                 *)
(***************************************************************************)
AnswerTyped ==
  /\ answer \in {"none", "succeeded", "failed", "other_nonce", "stderr"}
  /\ exit \in {"none", "zero", "nonzero"}

SizesFit ==
  /\ Sized(request.version, request.samples)
  /\ Sized(request.version, workload)
  /\ request.version = 2 => Len(samples) <= Len(request.samples)

ProbeLog ==
  request.version = 1 =>
    /\ inferred \in {{}, {1}}
    /\ request.samples = <<>> => inferred = {}
    /\ \A i \in DOMAIN phases :
         /\ phases[i][1] = "load" => phases[i][2] # "not_run"
         /\ phases[i][1] = "transcribe_probe" /\ request.samples # <<>> =>
              phases[i][2] = "success" /\ inferred = {1}

TInv == EngineTypeOK /\ AnswerTyped /\ SizesFit /\ ProbeLog

(***************************************************************************)
(* So it is of the first worker, of one the program leaves alone, and of a *)
(* new one,                                                                *)
(***************************************************************************)
LEMMA InitTyped == Init => TInv
<1> SUFFICES ASSUME Init  PROVE TInv
  OBVIOUS
<1>1. /\ phases = <<>> /\ samples = <<>> /\ inferred = {} /\ answer = "none" /\ exit = "none"
      /\ workload = request.samples /\ request \in Request
  BY DEF Init, WorkerInit
<1>2. EngineTypeOK
  BY DEF Init, WorkerInit, EngineInit, EngineTypeOK
<1>3. AnswerTyped /\ ProbeLog
  BY <1>1 DEF AnswerTyped, ProbeLog
<1>4. Sized(request.version, request.samples)
  BY <1>1, RequestShape
<1>5. request.version = 2 => Len(samples) <= Len(request.samples)
  <2>1. Len(samples) = 0
    BY <1>1
  <2>2. request.version = 2 => Len(request.samples) \in 2..MaxScored + 1
    BY <1>4 DEF Sized
  <2> QED BY <2>1, <2>2
<1> QED BY <1>1, <1>2, <1>3, <1>4, <1>5 DEF TInv, SizesFit

LEMMA AsideTyped ==
  ASSUME TInv, UNCHANGED <<workerVars, workload>>
  PROVE  TInv'
BY DEF TInv, workerVars, engineVars, log, reply, EngineTypeOK, AnswerTyped, SizesFit,
       Sized, ProbeLog

LEMMA SpawnTyped ==
  ASSUME WInv, TInv, Spawn
  PROVE  TInv'
<1>1. PICK asked \in {<<>>, workload} :
        /\ NewWorker([request EXCEPT !.samples = asked])
        /\ Runner => asked = workload
  BY DEF Spawn
<1>2. /\ request' = [request EXCEPT !.samples = asked] /\ UNCHANGED workload
      /\ phases' = <<>> /\ samples' = <<>> /\ inferred' = {}
      /\ answer' = "none" /\ exit' = "none"
      /\ model' = NoOptions /\ defaults' = NoOptions /\ cancelRequested' = FALSE
      /\ backend' \in Backend \cup {backend}
  BY <1>1 DEF Spawn, NewWorker, EngineNew, plan
<1>3. EngineTypeOK'
  BY <1>2 DEF TInv, EngineTypeOK
<1>4. AnswerTyped' /\ ProbeLog'
  BY <1>2 DEF AnswerTyped, ProbeLog
<1>5. request'.version = request.version /\ request'.samples = asked
      /\ request.version \in {1, 2}
  BY <1>2 DEF WInv, AskedTyped
<1>6. Sized(request.version, asked)
  <2>1. CASE asked = workload
    BY <2>1 DEF TInv, SizesFit
  <2>2. CASE ~Runner /\ asked = <<>>
    <3>1. request.version = 1 /\ Len(asked) = 0 /\ asked \in Seq(SampleKind)
      BY <2>2, <1>5 DEF Runner
    <3> QED BY <3>1 DEF Sized
  <2> QED BY <1>1, <2>1, <2>2
<1>7. request'.version = 2 => Len(samples') <= Len(request'.samples)
  <2>1. Len(samples') = 0
    BY <1>2
  <2>2. request.version = 2 => Len(asked) \in 2..MaxScored + 1
    BY <1>6 DEF Sized
  <2> QED BY <2>1, <2>2, <1>5
<1>8. SizesFit'
  <2>1. Sized(request.version, workload)
    BY DEF TInv, SizesFit
  <2> QED BY <1>2, <1>5, <1>6, <1>7, <2>1 DEF SizesFit, Sized
<1> QED BY <1>3, <1>4, <1>8 DEF TInv

(***************************************************************************)
(* The log of a probe says the same of its transcription after a phase     *)
(* that is not the transcription.                                          *)
(***************************************************************************)
LEMMA AnotherPhase ==
  ASSUME ProbeLog, phases \in Seq(PhaseName \X PhaseOutcome),
         UNCHANGED <<request, inferred>>,
         NEW name \in PhaseName, NEW came \in PhaseOutcome, Logged(name, came),
         name = "load" => came # "not_run", name # "transcribe_probe"
  PROVE  ProbeLog'
<1>1. /\ phases'[Len(phases')] = <<name, came>>
      /\ \A i \in DOMAIN phases : phases'[i] = phases[i]
      /\ \A i \in DOMAIN phases' : i \in DOMAIN phases \/ i = Len(phases')
  BY LoggedPhase
<1>2. ASSUME request.version = 1, NEW i \in DOMAIN phases'
      PROVE  /\ phases'[i][1] = "load" => phases'[i][2] # "not_run"
             /\ phases'[i][1] = "transcribe_probe" /\ request.samples # <<>> =>
                  phases'[i][2] = "success" /\ inferred = {1}
  <2>1. CASE i \in DOMAIN phases
    BY <1>1, <1>2, <2>1 DEF ProbeLog
  <2>2. CASE i = Len(phases')
    <3>1. phases'[i][1] = name /\ phases'[i][2] = came
      BY <1>1, <2>2
    <3> QED BY <3>1
  <2> QED BY <1>1, <2>1, <2>2
<1> QED BY <1>2 DEF ProbeLog

(***************************************************************************)
(* and of one that takes a step.                                           *)
(***************************************************************************)
LEMMA WorkerTyped ==
  ASSUME WInv, TInv, WorkerStep, UNCHANGED workload
  PROVE  TInv'
<1>1. /\ AskedTyped /\ LogTyped /\ NotBegun /\ OnSamples /\ Answers
      /\ EngineTypeOK /\ AnswerTyped /\ SizesFit /\ ProbeLog
  BY DEF WInv, TInv
<1>2. UNCHANGED request
  BY DEF WorkerStep, Receive, Load, WarmUp, Probe, ProbePhase, Sample, CloseEngine,
         Reply, Answered
<1>3. phases \in Seq(PhaseName \X PhaseOutcome) /\ samples \in Seq(PhaseOutcome)
  BY <1>1 DEF LogTyped
<1>4. ASSUME UNCHANGED samples  PROVE SizesFit'
  BY <1>1, <1>2, <1>4 DEF SizesFit, Sized
<1>5. ASSUME UNCHANGED engineVars  PROVE EngineTypeOK'
  BY <1>1, <1>5 DEF engineVars, EngineTypeOK
<1>6. ASSUME UNCHANGED reply  PROVE AnswerTyped'
  BY <1>1, <1>6 DEF reply, AnswerTyped
<1>7. ASSUME UNCHANGED <<phases, inferred>>  PROVE ProbeLog'
  BY <1>1, <1>2, <1>7 DEF ProbeLog
<1>8. CASE Receive
  BY <1>4, <1>5, <1>6, <1>7, <1>8 DEF Receive, TInv
<1>9. CASE Load
  <2>1. /\ pc = "load" /\ phases = <<>> /\ inferred = {}
        /\ UNCHANGED <<samples, inferred, reply>>
    BY <1>1, <1>9 DEF Load, NotBegun
  <2>2. EngineTypeOK'
    BY <1>1, <1>9 DEF Load, Loaded, LoadFails, LoadDone, LoadNotDone, TakeDefaults,
                      EngineTypeOK
  <2>3. CASE Loaded
    <3> DEFINE asked == request.samples # <<>>
               readiness == IF Ready' THEN "success" ELSE "readiness_failed"
    <3>1. phases' = phases
               \o << <<"load", "success">>, <<"readiness", readiness>> >>
               \o (IF asked THEN <<>>
                   ELSE << <<"warmup", "not_run">>, <<"transcribe_probe", "not_run">> >>)
      BY <2>3 DEF Loaded
    <3>2. asked \in BOOLEAN /\ readiness \in {"success", "readiness_failed"}
      OBVIOUS
    <3>3. asked <=> request.samples # <<>>
      OBVIOUS
    <3> HIDE DEF asked, readiness
    <3>4. ASSUME NEW i \in DOMAIN phases'
          PROVE  \/ phases'[i] = <<"load", "success">>
                 \/ phases'[i] = <<"readiness", readiness>>
                 \/ ~asked /\ phases'[i] \in {<<"warmup", "not_run">>,
                                              <<"transcribe_probe", "not_run">>}
      BY <2>1, <3>1, <3>2, LoadedPhases
    <3>5. ProbeLog'
      BY <1>2, <2>1, <3>3, <3>4 DEF ProbeLog
    <3> QED BY <1>4, <1>6, <2>1, <2>2, <3>5 DEF TInv
  <2>4. CASE LoadFails
    <3>1. ProbeLog'
      <4>1. CASE UNCHANGED phases
        BY <1>7, <2>1, <4>1
      <4>2. ASSUME NEW phase \in {"load", "backend_availability"}, NEW why \in LoadCode,
                   Logged(phase, why)
            PROVE  ProbeLog'
        <5>1. phase \in PhaseName /\ why \in PhaseOutcome /\ why # "not_run"
          BY DEF PhaseName, PhaseOutcome, LoadCode, FailureCode
        <5> QED BY <1>1, <1>2, <1>3, <2>1, <4>2, <5>1, AnotherPhase
      <4> QED BY <2>4, <4>1, <4>2 DEF LoadFails
    <3> QED BY <1>4, <1>6, <2>1, <2>2, <3>1 DEF TInv
  <2> QED BY <1>9, <2>3, <2>4 DEF Load
<1>10. CASE WarmUp
  <2>1. UNCHANGED <<engineVars, samples, reply, inferred>>
    BY <1>10 DEF WarmUp, ProbePhase
  <2>2. PICK result \in WarmUpOf(1) : ProbePhase("warmup", "warm_up", result, "probe")
    BY <1>10 DEF WarmUp
  <2>3. result \in {"success", "warm_up_failed", "escaped"}
    BY <2>2, CallOutcomes
  <2>4. \/ UNCHANGED phases
        \/ Logged("warmup", "success")
        \/ Logged("warm_up", "warm_up_failed")
    BY <2>2, <2>3 DEF ProbePhase
  <2>5. /\ "warmup" \in PhaseName /\ "warm_up" \in PhaseName
        /\ "success" \in PhaseOutcome /\ "warm_up_failed" \in PhaseOutcome
    BY DEF PhaseName, PhaseOutcome, FailureCode
  <2>6. ProbeLog'
    <3>1. CASE UNCHANGED phases
      BY <1>7, <2>1, <3>1
    <3>2. CASE Logged("warmup", "success")
      BY <1>1, <1>2, <1>3, <2>1, <2>5, <3>2, AnotherPhase
    <3>3. CASE Logged("warm_up", "warm_up_failed")
      BY <1>1, <1>2, <1>3, <2>1, <2>5, <3>3, AnotherPhase
    <3> QED BY <2>4, <3>1, <3>2, <3>3
  <2> QED BY <1>4, <1>5, <1>6, <2>1, <2>6 DEF TInv
<1>11. CASE Probe
  <2>1. /\ UNCHANGED <<engineVars, samples, reply>>
        /\ request.version = 1 /\ Len(request.samples) = 1 /\ inferred = {}
    BY <1>1, <1>11 DEF Probe, ProbePhase, OnSamples
  <2>2. PICK result \in TranscriptOf(1) :
          /\ ProbePhase("transcribe_probe", "transcribe", result, "close")
          /\ inferred' = IF result = "success" THEN {1} ELSE {}
    BY <1>11 DEF Probe
  <2>3. result \in PhaseOutcome \cup {"escaped"}
    BY <2>2, CallOutcomes
  <2>4. /\ "transcribe_probe" \in PhaseName /\ "transcribe" \in PhaseName
        /\ "success" \in PhaseOutcome
    BY DEF PhaseName, PhaseOutcome
  <2>5. request.samples # <<>>
    BY <2>1
  <2>6. ProbeLog'
    <3>1. CASE result = "success"
      <4>1. Logged("transcribe_probe", "success") /\ inferred' = {1}
        BY <2>2, <3>1 DEF ProbePhase
      <4>2. /\ phases'[Len(phases')] = <<"transcribe_probe", "success">>
            /\ \A i \in DOMAIN phases : phases'[i] = phases[i]
            /\ \A i \in DOMAIN phases' : i \in DOMAIN phases \/ i = Len(phases')
        BY <1>3, <2>4, <4>1, LoggedPhase
      <4> QED BY <1>1, <1>2, <2>5, <4>1, <4>2 DEF ProbeLog
    <3>2. CASE result = "escaped"
      <4>1. UNCHANGED <<phases, inferred>>
        BY <2>1, <2>2, <3>2 DEF ProbePhase
      <4> QED BY <1>7, <4>1
    <3>3. CASE result \notin {"success", "escaped"}
      <4>1. Logged("transcribe", result) /\ UNCHANGED inferred /\ result \in PhaseOutcome
        BY <2>1, <2>2, <2>3, <3>3 DEF ProbePhase
      <4> QED BY <1>1, <1>2, <1>3, <2>4, <4>1, AnotherPhase
    <3> QED BY <3>1, <3>2, <3>3
  <2> QED BY <1>4, <1>5, <1>6, <2>1, <2>6 DEF TInv
<1>12. CASE Sample
  <2>1. /\ UNCHANGED <<engineVars, reply>>
        /\ request.version = 2 /\ Len(samples) < Len(request.samples)
    BY <1>1, <1>12 DEF Sample, OnSamples
  <2>2. samples' = samples \/ \E result : samples' = Append(samples, result)
    BY <1>12 DEF Sample
  <2>3. Len(samples') \in {Len(samples), Len(samples) + 1}
    BY <1>3, <2>2
  <2>4. Len(samples) \in Nat /\ Len(request.samples) \in Nat
    BY <1>1, <1>3 DEF AskedTyped
  <2>5. Len(samples') <= Len(request.samples)
    BY <2>1, <2>3, <2>4
  <2>6. SizesFit'
    BY <1>1, <1>2, <2>5 DEF SizesFit, Sized
  <2>7. ProbeLog'
    BY <1>2, <2>1 DEF ProbeLog
  <2> QED BY <1>5, <1>6, <2>1, <2>6, <2>7 DEF TInv
<1>13. CASE CloseEngine
  <2>1. UNCHANGED <<samples, inferred, reply>>
    BY <1>13 DEF CloseEngine
  <2>2. PICK result \in {"success", "resource_release_failed"} :
          Close(result) /\ Logged("close", result)
    BY <1>13 DEF CloseEngine
  <2>3. EngineTypeOK'
    BY <1>1, <2>2 DEF Close, EngineTypeOK
  <2>4. "close" \in PhaseName /\ result \in PhaseOutcome
    BY DEF PhaseName, PhaseOutcome, FailureCode
  <2>5. ProbeLog'
    BY <1>1, <1>2, <1>3, <2>1, <2>2, <2>4, AnotherPhase
  <2> QED BY <1>4, <1>6, <2>1, <2>3, <2>5 DEF TInv
<1>14. CASE Reply
  <2>1. UNCHANGED <<engineVars, phases, samples, inferred>>
    BY <1>14 DEF Reply, Answered
  <2>2. AnswerTyped'
    BY <1>14 DEF Reply, Answered, Code, AnswerTyped
  <2> QED BY <1>4, <1>5, <1>7, <2>1, <2>2 DEF TInv
<1> QED BY <1>8, <1>9, <1>10, <1>11, <1>12, <1>13, <1>14 DEF WorkerStep
-----------------------------------------------------------------------------
(***************************************************************************)
(* How many scored samples a message tells as successes: no more than were *)
(* asked for, and all of them if the worker calls itself successful.       *)
(***************************************************************************)
LEMMA ScoredCount ==
  ASSUME WInv, TInv, Runner
  PROVE  /\ ScoredSuccesses \in 0..MaxScored
         /\ answer = "succeeded" => ScoredSuccesses = Len(request.samples) - 1
<1> DEFINE asked == Len(request.samples)
           good == {i \in 2..Len(samples) : samples[i] = "success"}
<1>1. /\ asked \in 2..MaxScored + 1 /\ Len(samples) <= asked
      /\ samples \in Seq(PhaseOutcome) /\ request.samples \in Seq(SampleKind)
      /\ inferred = {i \in DOMAIN samples : samples[i] = "success"}
  BY DEF WInv, TInv, SizesFit, Sized, Runner, LogTyped, OnSamples
<1>2. Len(samples) \in Nat /\ MaxScored \in Nat /\ MaxScored >= 1
  BY <1>1, WorkerAssumption DEF WorkerAssumption
<1>3. ScoredSuccesses = Cardinality(good)
  BY DEF ScoredSuccesses
<1>4. answer = "succeeded" => good = 2..asked
  <2> SUFFICES ASSUME answer = "succeeded"  PROVE good = 2..asked
    OBVIOUS
  <2>1. inferred = DOMAIN request.samples
    BY DEF WInv, Answers, SuccessIsWhole
  <2>2. 1..asked = {i \in 1..Len(samples) : samples[i] = "success"}
    BY <1>1, <2>1
  <2> HIDE DEF asked
  <2> QED BY <1>1, <1>2, <2>2
<1>5. good \subseteq 2..MaxScored + 1
  <2> HIDE DEF asked
  <2> QED BY <1>1, <1>2
<1> HIDE DEF good, asked
<1>6. IsFiniteSet(2..MaxScored + 1) /\ Cardinality(2..MaxScored + 1) = MaxScored
  <2> DEFINE last == MaxScored + 1
  <2>1. last \in Int /\ ~(2 > last) /\ last - 2 + 1 = MaxScored
    BY <1>2
  <2> HIDE DEF last
  <2>2. IsFiniteSet(2..last) /\ Cardinality(2..last) = last - 2 + 1
    BY <2>1, FS_Interval
  <2> QED BY <2>1, <2>2 DEF last
<1>7. Cardinality(good) \in Nat /\ Cardinality(good) <= MaxScored
  BY <1>5, <1>6, FS_Subset, FS_CardinalityType
<1>8. Cardinality(2..asked) = asked - 1
  BY <1>1, <1>2, FS_Interval
<1>9. answer = "succeeded" => ScoredSuccesses = asked - 1
  BY <1>3, <1>4, <1>8
<1> QED BY <1>2, <1>3, <1>7, <1>9 DEF asked

(***************************************************************************)
(* The program around the workers.  What was planned and where it stands:  *)
(***************************************************************************)
AtWork == stage \in {"inputs", "spawn", "worker"}

Planned ==
  /\ selected \in 0..MaxWorkers
  /\ repeats \in 1..MaxWorkers
  /\ Runner => selected * repeats <= MaxWorkers
  /\ stage \in {"judge", "write", "fill", "replace"} => Runner
  /\ stage = "worker" =>
       request.samples = IF ~Runner /\ report = <<>> THEN <<>> ELSE workload
  /\ stage = "inputs" => aggregates = <<>> /\ report = <<>> /\ current = Fresh /\ whole = 0
  /\ AtWork => outcome = "none"
  /\ stage = "judge" => outcome # "success"

(***************************************************************************)
(* what is counted of the candidate at work, and of those done;            *)
(***************************************************************************)
Tally ==
  /\ current \in [repeat : 0..repeats - 1, completed : 0..repeats - 1,
                  measured : 0..(MaxWorkers * MaxScored)]
  /\ current.completed <= current.repeat
  /\ current.measured <= current.repeat * MaxScored
  /\ aggregates \in Seq(Aggregate)
  /\ whole \in Nat

(***************************************************************************)
(* how many workers there were, whole ones at most;                        *)
(***************************************************************************)
Begun == Len(aggregates) * repeats + current.repeat

Bounded ==
  IF Runner
    THEN /\ AtWork => whole <= Begun
         /\ stage \in {"spawn", "worker"} => Len(aggregates) < selected
         /\ whole <= selected * repeats
    ELSE /\ aggregates = <<>> /\ current = Fresh
         /\ whole <= 2
         /\ AtWork => whole <= IF report = <<>> THEN 0 ELSE 1

(***************************************************************************)
(* and that, as long as no repeat has failed, each was a whole worker with *)
(* every scored sample measured.                                           *)
(***************************************************************************)
Scored == Len(workload) - 1
AllSucceeded == \A i \in DOMAIN aggregates : aggregates[i].outcome = "success"

WorkEarned ==
  Runner =>
    /\ AtWork /\ AllSucceeded /\ current.completed = current.repeat => whole = Begun
    /\ \A i \in DOMAIN aggregates :
         aggregates[i].outcome = "success" => aggregates[i].measured = repeats * Scored
    /\ current.completed = current.repeat => current.measured = current.repeat * Scored

RunEarned ==
  Runner =>
    /\ stage = "judge" /\ outcome = "none" /\ AllSucceeded => whole = selected * repeats
    /\ outcome = "success" => whole = selected * repeats /\ AllSucceeded
    /\ stage \in {"write", "fill", "replace", "exit", "ended"}
         /\ blockers \subseteq {"offline_evidence_not_verified"} =>
           outcome = "success" /\ selected > 0

ProbeEarned ==
  ~Runner =>
    /\ report # <<>> /\ AtWork => workload # <<>>
    /\ report # <<>> /\ outcome = "success" => inferred = DOMAIN workload

Kinds ==
  /\ stage \in {"inputs", "spawn", "worker", "judge", "write", "fill", "replace",
                "exit", "ended", "stopped"}
  /\ report \in Seq(PhaseOutcome \cup WorkerFailure)
  /\ outcome \in RunOutcome \cup PhaseOutcome \cup WorkerFailure
                 \cup {"none", "missing_package", "refused", "package_present"}
  /\ blockers \subseteq Blocker
  /\ temp \in Content
  /\ file \in Content
  /\ code \in {"none", "zero", "nonzero"}

PInv == Planned /\ Tally /\ Bounded /\ WorkEarned /\ RunEarned /\ ProbeEarned /\ Kinds

(***************************************************************************)
(* So it is before anything was done.                                      *)
(***************************************************************************)
LEMMA InitPlanned == Init => PInv
<1> SUFFICES ASSUME Init  PROVE PInv
  OBVIOUS
<1>1. /\ stage = "inputs" /\ current = [repeat |-> 0, completed |-> 0, measured |-> 0]
      /\ aggregates = <<>> /\ report = <<>> /\ outcome = "none" /\ blockers = {}
      /\ temp = "absent" /\ file \in {"absent", "earlier"} /\ code = "none" /\ whole = 0
  BY DEF Init, Fresh
<1>2. MaxWorkers \in Nat /\ MaxWorkers >= 1 /\ MaxScored \in Nat
  BY RunAssumption, WorkerAssumption DEF RunAssumption, WorkerAssumption
<1>3. /\ selected \in 0..MaxWorkers /\ repeats \in 1..MaxWorkers
      /\ Runner => selected * repeats <= MaxWorkers
  <2>1. CASE Runner
    BY <2>1, <1>2 DEF Init
  <2>2. CASE ~Runner
    BY <2>2, <1>2 DEF Init
  <2> QED BY <2>1, <2>2
<1>4. Planned
  BY <1>1, <1>3 DEF Planned, Fresh, AtWork
<1>5. MaxWorkers * MaxScored \in Nat /\ 0 * MaxScored = 0 /\ 0 * repeats = 0 /\ 0 * Scored = 0
      /\ selected * repeats \in Nat
  <2>1. Scored \in Int
    BY WorkerInitSafe DEF Scored, WInv, AskedTyped
  <2> QED BY <1>2, <1>3, <2>1
<1>6. Tally
  <2>1. repeats - 1 \in Nat
    BY <1>2, <1>3
  <2>2. current \in [repeat : 0..repeats - 1, completed : 0..repeats - 1,
                     measured : 0..(MaxWorkers * MaxScored)]
    BY <1>1, <1>5, <2>1
  <2> QED BY <1>1, <1>5, <2>2 DEF Tally
<1>7. Bounded
  BY <1>1, <1>5 DEF Bounded, AtWork, Begun, Fresh
<1>8. WorkEarned /\ RunEarned
  BY <1>1, <1>5 DEF WorkEarned, RunEarned, Begun
<1>9. ProbeEarned /\ Kinds
  BY <1>1 DEF ProbeEarned, Kinds, Content
<1> QED BY <1>4, <1>6, <1>7, <1>8, <1>9 DEF PInv

(***************************************************************************)
(* A worker's own steps and a new worker: nothing is counted.              *)
(***************************************************************************)
LEMMA WorkPlanned ==
  ASSUME PInv, Work
  PROVE  PInv'
<1>1. /\ stage = "worker" /\ UNCHANGED <<request, stage, plan, results, files, whole>>
  BY DEF Work, WorkerStep, Receive, Load, WarmUp, Probe, ProbePhase, Sample, CloseEngine,
         Reply, Answered
<1>2. UNCHANGED <<selected, repeats, workload, current, aggregates, report, outcome,
                  blockers, temp, file, code>>
  BY <1>1 DEF plan, results, files
<1>3. outcome = "none"
  BY <1>1 DEF PInv, Planned, AtWork
<1>4. Planned' /\ Tally' /\ Kinds'
  BY <1>1, <1>2 DEF PInv, Planned, Tally, Kinds, Runner, AtWork, Fresh
<1>5. Bounded' /\ WorkEarned' /\ RunEarned'
  BY <1>1, <1>2 DEF PInv, Bounded, WorkEarned, RunEarned, Runner, AtWork, Begun, Scored,
                    AllSucceeded, Fresh
<1>6. ProbeEarned'
  BY <1>1, <1>2, <1>3 DEF PInv, ProbeEarned, Runner, AtWork
<1> QED BY <1>4, <1>5, <1>6 DEF PInv

LEMMA SpawnPlanned ==
  ASSUME WInv, PInv, Spawn
  PROVE  PInv'
<1>1. /\ stage = "spawn" /\ stage' = "worker"
      /\ request' = [request EXCEPT !.samples =
                       IF ~Runner /\ report = <<>> THEN <<>> ELSE workload]
      /\ UNCHANGED <<plan, results, files, whole>>
  BY DEF Spawn, NewWorker
<1>2. UNCHANGED <<selected, repeats, workload, current, aggregates, report, outcome,
                  blockers, temp, file, code>>
  BY <1>1 DEF plan, results, files
<1>3. /\ request'.version = request.version
      /\ request'.samples = IF ~Runner /\ report = <<>> THEN <<>> ELSE workload
  BY <1>1 DEF WInv, AskedTyped
<1>4. outcome = "none"
  BY <1>1 DEF PInv, Planned, AtWork
<1>5. Planned' /\ Tally' /\ Kinds'
  BY <1>1, <1>2, <1>3 DEF PInv, Planned, Tally, Kinds, Runner, AtWork, Fresh
<1>6. Bounded' /\ WorkEarned' /\ RunEarned'
  BY <1>1, <1>2, <1>3 DEF PInv, Bounded, WorkEarned, RunEarned, Runner, AtWork, Begun,
                          Scored, AllSucceeded, Fresh
<1>7. ProbeEarned'
  BY <1>1, <1>2, <1>3, <1>4 DEF PInv, ProbeEarned, Runner, AtWork
<1> QED BY <1>5, <1>6, <1>7 DEF PInv

(***************************************************************************)
(* Neither is by the checks before the first worker.                       *)
(***************************************************************************)
LEMMA CheckInputsPlanned ==
  ASSUME PInv, CheckInputs
  PROVE  PInv'
<1>1. /\ stage = "inputs" /\ Runner /\ current = Fresh /\ aggregates = <<>>
      /\ report = <<>> /\ outcome = "none" /\ whole = 0
      /\ UNCHANGED <<request, inferred, plan, current, report, blockers, files, whole>>
  BY DEF PInv, Planned, AtWork, CheckInputs, workerVars, log
<1>2. UNCHANGED <<workload, selected, repeats, temp, file, code, Runner>>
  BY <1>1 DEF plan, files, Runner
<1>3. /\ selected \in 0..MaxWorkers /\ repeats \in 1..MaxWorkers
      /\ MaxWorkers \in Nat /\ MaxScored \in Nat
      /\ selected * repeats \in Nat /\ MaxWorkers * MaxScored \in Nat /\ 0 * repeats = 0
  BY RunAssumption, WorkerAssumption DEF PInv, Planned, RunAssumption, WorkerAssumption
<1>4. current' = current /\ whole' = 0 /\ report' = <<>> /\ current.completed = 0
      /\ current.repeat = 0 /\ current.measured = 0
  BY <1>1 DEF Fresh
<1>5. \/ /\ aggregates' = <<>> /\ outcome' = "invalid_inputs" /\ stage' = "judge"
      \/ /\ aggregates' = [i \in 1..selected |->
                             [outcome |-> "not_run", completed |-> 0, measured |-> 0]]
         /\ outcome' \in {"dry_run", "not_run"} /\ stage' = "judge"
      \/ /\ aggregates' = <<>> /\ outcome' = "none" /\ selected = 0 /\ stage' = "judge"
      \/ /\ aggregates' = <<>> /\ outcome' = "none" /\ selected # 0 /\ stage' = "spawn"
  BY <1>1 DEF CheckInputs
<1>6. /\ aggregates' \in Seq(Aggregate)
      /\ \A i \in DOMAIN aggregates' : aggregates'[i].outcome # "success"
  <2>1. CASE aggregates' = <<>>
    BY <2>1
  <2>2. CASE aggregates' = [i \in 1..selected |->
                              [outcome |-> "not_run", completed |-> 0, measured |-> 0]]
    <3>1. [outcome |-> "not_run", completed |-> 0, measured |-> 0] \in Aggregate
      BY <1>3 DEF Aggregate
    <3>2. aggregates' \in [1..selected -> Aggregate] /\ selected \in Nat
      BY <2>2, <3>1, <1>3
    <3> QED BY <2>2, <3>2
  <2> QED BY <1>5, <2>1, <2>2
<1>7. Planned' /\ Kinds'
  <2>1. Planned'
    BY <1>1, <1>2, <1>4, <1>5 DEF PInv, Planned, AtWork
  <2>2. Kinds'
    BY <1>1, <1>2, <1>5 DEF PInv, Kinds, RunOutcome
  <2> QED BY <2>1, <2>2
<1>8. Tally'
  BY <1>1, <1>2, <1>4, <1>6 DEF PInv, Tally
<1>9. Bounded'
  <2>1. stage' = "spawn" => Len(aggregates') < selected
    <3> SUFFICES ASSUME stage' = "spawn"  PROVE Len(aggregates') < selected
      OBVIOUS
    <3>1. Len(aggregates') = 0 /\ selected # 0
      BY <1>5
    <3> QED BY <1>3, <3>1
  <2>2. AtWork' => 0 <= Begun'
    <3> SUFFICES ASSUME AtWork'  PROVE 0 <= Begun'
      OBVIOUS
    <3>1. Len(aggregates') = 0
      BY <1>5 DEF AtWork
    <3> QED BY <1>2, <1>3, <1>4, <3>1 DEF Begun
  <2>3. stage' # "worker"
    BY <1>5
  <2> QED BY <1>1, <1>2, <1>3, <1>4, <2>1, <2>2, <2>3 DEF Bounded
<1>10. WorkEarned'
  <2>1. AtWork' => Begun' = 0
    <3> SUFFICES ASSUME AtWork'  PROVE Begun' = 0
      OBVIOUS
    <3>1. Len(aggregates') = 0
      BY <1>5 DEF AtWork
    <3> QED BY <1>2, <1>3, <1>4, <3>1 DEF Begun
  <2>2. current'.measured = current'.repeat * Scored'
    BY <1>1, <1>2, <1>4 DEF PInv, WorkEarned, Scored
  <2> QED BY <1>4, <1>6, <2>1, <2>2 DEF WorkEarned
<1>11. RunEarned'
  <2>1. outcome' = "none" /\ stage' = "judge" => 0 = selected * repeats
    BY <1>3, <1>5
  <2> QED BY <1>2, <1>4, <1>5, <2>1 DEF RunEarned
<1>12. ProbeEarned'
  BY <1>1, <1>2 DEF ProbeEarned
<1> QED BY <1>7, <1>8, <1>9, <1>10, <1>11, <1>12 DEF PInv

LEMMA CheckPackagePlanned ==
  ASSUME PInv, CheckPackage
  PROVE  PInv'
<1>1. /\ stage = "inputs" /\ ~Runner /\ report = <<>> /\ whole = 0
      /\ stage' \in {"exit", "spawn"}
      /\ \/ outcome' \in {"missing_package", "refused", "package_present"}
         \/ outcome' = outcome /\ outcome = "none"
      /\ stage' = "spawn" => outcome' = outcome
      /\ UNCHANGED <<request, inferred, plan, current, aggregates, report, blockers, files,
                     whole>>
  BY DEF PInv, Planned, AtWork, CheckPackage, workerVars, log
<1>2. UNCHANGED <<workload, selected, repeats, temp, file, code, Runner>>
  BY <1>1 DEF plan, files, Runner
<1>3. Planned' /\ Tally' /\ Kinds'
  BY <1>1, <1>2 DEF PInv, Planned, Tally, Kinds, AtWork
<1>4. Bounded' /\ WorkEarned' /\ RunEarned' /\ ProbeEarned'
  BY <1>1, <1>2 DEF PInv, Planned, AtWork, Bounded, WorkEarned, RunEarned, ProbeEarned
<1> QED BY <1>3, <1>4 DEF PInv

(***************************************************************************)
(* The steps that only end the program.                                    *)
(***************************************************************************)
LEMMA EndsPlanned ==
  ASSUME PInv, Write \/ Fill \/ Replace \/ Exit \/ Stop
  PROVE  PInv'
<1>1. UNCHANGED <<request, inferred, plan, results, whole>>
  BY DEF Write, Fill, Replace, Exit, Stop, workerVars, log
<1>2. UNCHANGED <<workload, selected, repeats, current, aggregates, report, outcome,
                  blockers, Runner>>
  BY <1>1 DEF plan, results, Runner
<1>3. \/ /\ stage \in {"write", "fill", "replace", "exit"}
         /\ stage' \in {"fill", "replace", "exit", "ended"}
         /\ stage' \in {"fill", "replace"} => stage \in {"write", "fill"}
      \/ stage' = "stopped"
  BY DEF Write, Fill, Replace, Exit, Stop
<1>4. Planned' /\ Tally'
  BY <1>1, <1>2, <1>3 DEF PInv, Planned, Tally, AtWork
<1>5. Kinds'
  BY <1>2, <1>3 DEF PInv, Kinds, Content, Write, Fill, Replace, Exit, Stop, files
<1>6. Bounded' /\ WorkEarned' /\ RunEarned' /\ ProbeEarned'
  BY <1>1, <1>2, <1>3 DEF PInv, Bounded, WorkEarned, RunEarned, ProbeEarned, AtWork, Scored,
                          AllSucceeded, Begun, Fresh
<1> QED BY <1>4, <1>5, <1>6 DEF PInv

(***************************************************************************)
(* The verdict: a run that is called successful, or left for publication,  *)
(* has no candidate that is not.                                           *)
(***************************************************************************)
LEMMA JudgePlanned ==
  ASSUME PInv, Judge
  PROVE  PInv'
<1>1. /\ stage = "judge" /\ stage' = "write" /\ Runner /\ outcome # "success"
      /\ UNCHANGED <<request, inferred, plan, current, aggregates, report, files, whole>>
  BY DEF PInv, Planned, Judge, workerVars, log
<1>2. UNCHANGED <<workload, selected, repeats, temp, file, code, Runner>>
  BY <1>1 DEF plan, files, Runner
<1>3. /\ outcome' = IF outcome = "none" THEN RunResult ELSE outcome
      /\ RunResult \in {"success", "fail"}
      /\ RunResult = "success" => AllSucceeded
  BY DEF Judge, RunResult, AllSucceeded
<1>4. PICK clean \in BOOLEAN, covered \in BOOLEAN :
        blockers' = {b \in Blocker : Blocks(b, outcome', clean, covered)}
  BY DEF Judge
<1>5. /\ "run_not_successful" \in Blocker /\ "incomplete_candidate_matrix" \in Blocker
      /\ Blocks("run_not_successful", outcome', clean, covered) <=> outcome' # "success"
      /\ selected = 0 => Blocks("incomplete_candidate_matrix", outcome', clean, covered)
  BY DEF Blocker, Blocks
<1>6. blockers' \subseteq {"offline_evidence_not_verified"} =>
        outcome' = "success" /\ selected # 0
  BY <1>4, <1>5
<1>7. Planned' /\ Tally'
  BY <1>1, <1>2 DEF PInv, Planned, Tally, AtWork
<1>8. Kinds'
  BY <1>1, <1>2, <1>3, <1>4 DEF PInv, Kinds, RunOutcome
<1>9. Bounded' /\ WorkEarned' /\ ProbeEarned'
  BY <1>1, <1>2 DEF PInv, Bounded, WorkEarned, ProbeEarned, AtWork, Scored
<1>10. RunEarned'
  <2>1. outcome' = "success" => whole = selected * repeats /\ AllSucceeded
    BY <1>1, <1>3 DEF PInv, RunEarned
  <2>2. selected # 0 => selected > 0
    BY RunAssumption DEF PInv, Planned, RunAssumption
  <2> QED BY <1>1, <1>2, <1>6, <2>1, <2>2 DEF RunEarned, AllSucceeded
<1> QED BY <1>7, <1>8, <1>9, <1>10 DEF PInv

(***************************************************************************)
(* What supervisor.run returns to the runner.  A repeat is completed only  *)
(* by a whole worker, all of whose scored samples are then measured; a     *)
(* candidate that is done succeeded only if all its repeats were.          *)
(***************************************************************************)
LEMMA CollectPlanned ==
  ASSUME WInv, TInv, PInv, Runner, stage \in {"spawn", "worker"},
         NEW supervised, NEW told \in BOOLEAN, Returns(supervised, told),
         told => stage = "worker", whole' \in {whole, whole + 1},
         supervised = "completed" /\ told /\ answer = "succeeded" => whole' = whole + 1
  PROVE  PInv'
<1> DEFINE done == Counted(supervised, told)
           counts == supervised = "completed" /\ told /\ answer = "succeeded"
           all == done.completed = repeats
<1>1. /\ UNCHANGED <<request, inferred, workload, selected, repeats, blockers, temp, file,
                     code, report, outcome, Runner>>
      /\ outcome = "none"
  BY DEF Returns, Collect, workerVars, log, plan, files, Runner, PInv, Planned, AtWork
<1>2. /\ selected \in 0..MaxWorkers /\ repeats \in 1..MaxWorkers
      /\ MaxWorkers \in Nat /\ MaxScored \in Nat
      /\ selected * repeats \in Nat /\ MaxWorkers * MaxScored \in Nat
      /\ selected * repeats <= MaxWorkers
  BY RunAssumption, WorkerAssumption DEF PInv, Planned, RunAssumption, WorkerAssumption
<1>3. /\ current.repeat \in 0..repeats - 1 /\ current.completed \in 0..repeats - 1
      /\ current.completed <= current.repeat
      /\ current.measured \in Nat /\ current.measured <= current.repeat * MaxScored
      /\ aggregates \in Seq(Aggregate) /\ whole \in Nat /\ whole <= Begun
      /\ Len(aggregates) < selected
  <2>1. 0..(MaxWorkers * MaxScored) \subseteq Nat
    BY <1>2
  <2> QED BY <2>1 DEF PInv, Tally, Bounded, AtWork
<1>4. workload \in Seq(SampleKind) /\ Scored \in Nat
  BY WorkerAssumption DEF TInv, SizesFit, Sized, Runner, Scored, WorkerAssumption
<1>5. told => /\ ScoredSuccesses \in 0..MaxScored
              /\ answer = "succeeded" => ScoredSuccesses = Scored
  BY ScoredCount DEF PInv, Planned, Scored
<1>6. /\ done.repeat = current.repeat + 1
      /\ done.completed = current.completed + (IF counts THEN 1 ELSE 0)
      /\ done.measured = current.measured + (IF told THEN ScoredSuccesses ELSE 0)
      /\ done = [repeat |-> done.repeat, completed |-> done.completed,
                 measured |-> done.measured]
  BY DEF Counted
<1>7. /\ IF done.repeat < repeats
           THEN current' = done /\ UNCHANGED aggregates
           ELSE /\ current' = Fresh
                /\ aggregates' = Append(aggregates,
                     [outcome |-> IF all THEN "success" ELSE "fail",
                      completed |-> done.completed, measured |-> done.measured])
      /\ stage' = IF Len(aggregates') = selected THEN "judge" ELSE "spawn"
  BY DEF Returns, Collect
<1>c. counts => told /\ answer = "succeeded" /\ whole' = whole + 1
  OBVIOUS
<1> HIDE DEF done, counts
<1> DEFINE R == done.repeat
           C == done.completed
           M == done.measured
<1>m. PICK c \in 0..1, m \in 0..MaxScored :
        C = current.completed + c /\ M = current.measured + m
  <2>1. (IF counts THEN 1 ELSE 0) \in 0..1
    OBVIOUS
  <2>2. (IF told THEN ScoredSuccesses ELSE 0) \in 0..MaxScored
    BY <1>2, <1>5
  <2> QED BY <1>6, <2>1, <2>2
<1>8. R \in 1..repeats /\ C \in 0..R /\ M \in Nat
  <2>1. R = current.repeat + 1
    BY <1>6
  <2> HIDE DEF R, C, M
  <2>2. R \in 1..repeats
    BY <1>2, <1>3, <2>1
  <2>3. C \in 0..R
    <3>1. /\ current.completed \in Nat /\ current.repeat \in Nat
          /\ current.completed <= current.repeat
      BY <1>2, <1>3
    <3> QED BY <1>m, <2>1, <3>1
  <2>4. M \in Nat
    BY <1>2, <1>3, <1>m
  <2> QED BY <2>2, <2>3, <2>4
<1>9. M <= R * MaxScored
  <2> DEFINE product == current.repeat * MaxScored
  <2>1. R * MaxScored = product + MaxScored
    <3>1. (current.repeat + 1) * MaxScored = current.repeat * MaxScored + MaxScored
      BY <1>2, <1>3, OneMore
    <3> QED BY <1>6, <3>1
  <2>2. product \in Nat /\ current.measured <= product
    BY <1>2, <1>3
  <2> HIDE DEF product, M
  <2>3. M <= product + MaxScored
    BY <1>2, <1>3, <1>m, <2>2
  <2> QED BY <2>1, <2>3
<1>10. M \in 0..(MaxWorkers * MaxScored)
  <2>1. R <= MaxWorkers /\ R \in Nat
    BY <1>2, <1>8
  <2>2. R * MaxScored <= MaxWorkers * MaxScored
    BY <1>2, <2>1, NoFewer
  <2>3. R * MaxScored \in Nat
    BY <1>2, <2>1
  <2> QED BY <1>2, <1>8, <1>9, <2>2, <2>3
<1>11. C = R => current.completed = current.repeat /\ counts
  BY <1>3, <1>6
<1>12. C = R => M = R * Scored
  <2> SUFFICES ASSUME C = R  PROVE M = R * Scored
    OBVIOUS
  <2>1. current.measured = current.repeat * Scored
    BY <1>11 DEF PInv, WorkEarned
  <2>2. M = current.measured + Scored
    BY <1>5, <1>6, <1>11, <1>c
  <2>3. (current.repeat + 1) * Scored = current.repeat * Scored + Scored
    BY <1>2, <1>3, <1>4, OneMore
  <2> QED BY <1>6, <2>1, <2>2, <2>3
<1>13. C = R /\ AllSucceeded => whole' = Begun + 1
  BY <1>11, <1>c DEF PInv, WorkEarned, AtWork
<1>14. Begun \in Nat /\ whole' \in Nat /\ whole' <= Begun + 1
  <2>1. Len(aggregates) \in Nat
    BY <1>3
  <2>2. Len(aggregates) * repeats \in Nat
    BY <1>2, <2>1
  <2> QED BY <1>2, <1>3, <2>2 DEF Begun
<1>15. CASE R < repeats
  <2>1. /\ current' = done /\ UNCHANGED aggregates /\ stage' = "spawn"
        /\ current'.repeat = R /\ current'.completed = C /\ current'.measured = M
    <3>1. Len(aggregates) # selected
      BY <1>2, <1>3
    <3> QED BY <1>7, <1>15, <3>1
  <2>2. Begun' = Begun + 1
    <3>1. Len(aggregates) * repeats \in Nat
      BY <1>2, <1>3
    <3> QED BY <1>1, <1>3, <1>6, <2>1, <3>1 DEF Begun
  <2>3. Planned' /\ Kinds'
    BY <1>1, <2>1 DEF PInv, Planned, Kinds
  <2>4. Tally'
    <3>1. R \in 0..repeats - 1 /\ C \in 0..repeats - 1
      BY <1>2, <1>8, <1>15
    <3>2. current' \in [repeat : 0..repeats - 1, completed : 0..repeats - 1,
                        measured : 0..(MaxWorkers * MaxScored)]
      BY <1>6, <1>10, <2>1, <3>1
    <3> QED BY <1>1, <1>3, <1>8, <1>9, <1>14, <2>1, <3>2 DEF Tally
  <2>5. Bounded'
    <3>1. whole' <= selected * repeats
      <4>1. Len(aggregates) + 1 <= selected /\ Len(aggregates) \in Nat
        BY <1>2, <1>3
      <4>r. repeats \in Nat /\ selected \in Nat /\ Len(aggregates) + 1 \in Nat
        BY <1>2, <4>1
      <4>2. (Len(aggregates) + 1) * repeats <= selected * repeats
        BY <4>1, <4>r, NoFewer
      <4>3. (Len(aggregates) + 1) * repeats = Len(aggregates) * repeats + repeats
        BY <4>1, <4>r, OneMore
      <4>4. Len(aggregates) * repeats \in Nat
        BY <4>1, <4>r, OneMore
      <4>5. Begun + 1 <= Len(aggregates) * repeats + repeats
        BY <1>2, <1>3, <4>4 DEF Begun
      <4> QED BY <1>2, <1>14, <4>2, <4>3, <4>4, <4>5
    <3> QED BY <1>1, <1>3, <1>14, <2>1, <2>2, <3>1 DEF Bounded
  <2>6. WorkEarned'
    <3>1. AllSucceeded' <=> AllSucceeded
      BY <2>1 DEF AllSucceeded
    <3> QED BY <1>1, <1>12, <1>13, <2>1, <2>2, <3>1 DEF PInv, WorkEarned, Scored
  <2>7. RunEarned' /\ ProbeEarned'
    BY <1>1, <2>1 DEF RunEarned, ProbeEarned
  <2> QED BY <2>3, <2>4, <2>5, <2>6, <2>7 DEF PInv
<1>16. CASE ~(R < repeats)
  <2> DEFINE last == [outcome |-> IF all THEN "success" ELSE "fail",
                      completed |-> C, measured |-> M]
             N == Len(aggregates)
  <2>1. /\ current' = Fresh /\ R = repeats
        /\ aggregates' = Append(aggregates, last)
    BY <1>2, <1>7, <1>8, <1>16
  <2>2. last \in Aggregate
    <3>1. C \in 0..MaxWorkers
      BY <1>2, <1>8
    <3> QED BY <1>10, <3>1 DEF Aggregate
  <2>3. last.outcome = "success" => C = R /\ last.measured = repeats * Scored
    BY <1>12, <2>1
  <2>4. last.outcome = (IF all THEN "success" ELSE "fail") /\ last.measured = M
    OBVIOUS
  <2> HIDE DEF last
  <2>5. /\ aggregates' \in Seq(Aggregate) /\ N \in Nat /\ Len(aggregates') = N + 1
        /\ aggregates'[N + 1] = last
        /\ \A i \in DOMAIN aggregates : aggregates'[i] = aggregates[i]
        /\ DOMAIN aggregates' = DOMAIN aggregates \cup {N + 1}
    BY <1>3, <2>1, <2>2
  <2>6. /\ current'.repeat = 0 /\ current'.completed = 0 /\ current'.measured = 0
        /\ 0 * Scored = 0 /\ 0 * MaxScored = 0
    BY <1>2, <1>4, <2>1 DEF Fresh
  <2>7. Begun + 1 = (N + 1) * repeats /\ Begun' = (N + 1) * repeats
    <3> DEFINE product == N * repeats
    <3>1. product \in Nat /\ (N + 1) * repeats = product + repeats
      BY <1>2, <2>5, OneMore
    <3>2. current.repeat + 1 = repeats /\ current.repeat \in Nat
      BY <1>2, <1>3, <1>6, <2>1
    <3>3. Begun = product + current.repeat
      BY DEF Begun
    <3>4. Begun' = (N + 1) * repeats + 0
      BY <1>1, <2>5, <2>6 DEF Begun
    <3> HIDE DEF product
    <3> QED BY <1>2, <3>1, <3>2, <3>3, <3>4
  <2>8. /\ AllSucceeded' => AllSucceeded /\ C = R
        /\ stage' \in {"judge", "spawn"}
        /\ stage' = "judge" => N + 1 = selected
        /\ stage' = "spawn" => N + 1 # selected
    BY <1>7, <2>1, <2>3, <2>5 DEF AllSucceeded
  <2>9. (N + 1) * repeats <= selected * repeats
    <3>1. N + 1 <= selected /\ N + 1 \in Nat
      BY <1>2, <1>3, <2>5
    <3> QED BY <1>2, <3>1, NoFewer
  <2>10. Planned' /\ Kinds'
    BY <1>1, <2>8 DEF PInv, Planned, Kinds
  <2>11. Tally'
    <3>1. repeats - 1 \in Nat
      BY <1>2
    <3>2. current' \in [repeat : 0..repeats - 1, completed : 0..repeats - 1,
                        measured : 0..(MaxWorkers * MaxScored)]
      BY <1>2, <2>1, <3>1 DEF Fresh
    <3> QED BY <1>1, <1>14, <2>5, <2>6, <3>2 DEF Tally
  <2>12. Bounded'
    <3>1. whole' <= selected * repeats
      BY <1>2, <1>14, <2>5, <2>7, <2>9
    <3>2. stage' = "spawn" => N + 1 < selected
      BY <1>2, <1>3, <2>5, <2>8
    <3> QED BY <1>1, <1>14, <2>5, <2>7, <2>8, <3>1, <3>2 DEF Bounded
  <2>13. WorkEarned'
    <3>1. AtWork' /\ AllSucceeded' => whole' = Begun'
      BY <1>13, <2>7, <2>8
    <3>2. ASSUME NEW i \in DOMAIN aggregates', aggregates'[i].outcome = "success"
          PROVE  aggregates'[i].measured = repeats * Scored
      <4>1. CASE i \in DOMAIN aggregates
        BY <2>5, <3>2, <4>1 DEF PInv, WorkEarned
      <4>2. CASE i = N + 1
        BY <2>3, <2>5, <3>2, <4>2
      <4> QED BY <2>5, <4>1, <4>2
    <3>3. Scored' = Scored
      BY <1>1 DEF Scored
    <3> QED BY <1>1, <2>6, <3>1, <3>2, <3>3 DEF WorkEarned
  <2>14. RunEarned' /\ ProbeEarned'
    <3>1. stage' = "judge" /\ AllSucceeded' => whole' = selected * repeats
      BY <1>13, <2>7, <2>8
    <3> QED BY <1>1, <2>8, <3>1 DEF RunEarned, ProbeEarned
  <2> QED BY <2>10, <2>11, <2>12, <2>13, <2>14 DEF PInv
<1> QED BY <1>15, <1>16

(***************************************************************************)
(* What the probe makes of a phase that it is told of, and of the package. *)
(***************************************************************************)
LEMMA PhaseToldIs ==
  ASSUME LogTyped, NEW name, NEW supervised, NEW told \in BOOLEAN
  PROVE  LET said == PhaseTold(name, supervised, told)
         IN /\ said \in PhaseOutcome \cup WorkerFailure
            /\ \/ told /\ \E i \in DOMAIN phases :
                            phases[i][1] = name /\ phases[i][2] = said
               \/ told /\ answer = "succeeded" /\ said = "success"
               \/ said \in WorkerFailure \cup {"readiness_failed"}
<1> DEFINE logged == {i \in DOMAIN phases : told /\ phases[i][1] = name}
           hearsay == WorkerStatus(supervised, told)
<1>1. PhaseTold(name, supervised, told) =
        IF logged # {} THEN phases[Min(logged)][2]
        ELSE IF name = "readiness" THEN "readiness_failed" ELSE hearsay
  BY DEF PhaseTold
<1>s. \/ told /\ answer = "succeeded" /\ hearsay = "success"
      \/ hearsay \in WorkerFailure
  BY DEF WorkerStatus, WorkerFailure
<1> HIDE DEF hearsay
<1>2. phases \in Seq(PhaseName \X PhaseOutcome) /\ logged \in SUBSET Nat
  BY DEF LogTyped
<1>3. logged # {} => Min(logged) \in logged
  BY <1>2, MinIsIn
<1>4. CASE logged # {}
  <2>1. PICK i \in DOMAIN phases : i = Min(logged) /\ told /\ phases[i][1] = name
    BY <1>3, <1>4
  <2>2. phases[i] \in PhaseName \X PhaseOutcome
    BY <1>2
  <2> QED BY <1>1, <1>4, <2>1, <2>2
<1>5. CASE logged = {}
  BY <1>1, <1>5, <1>s DEF PhaseOutcome
<1> QED BY <1>4, <1>5

(***************************************************************************)
(* The outcome of a package is that of its first bad phase.                *)
(***************************************************************************)
LEMMA PackageOutcomeIs ==
  ASSUME NEW S, NEW outcomes \in Seq(S)
  PROVE  /\ PackageOutcome(outcomes) \in S \cup {"success"}
         /\ PackageOutcome(outcomes) = "success" =>
              \A i \in DOMAIN outcomes : outcomes[i] \in {"success", "not_run"}
<1> DEFINE bad == {i \in DOMAIN outcomes : outcomes[i] \notin {"success", "not_run"}}
<1>1. PackageOutcome(outcomes) = IF bad = {} THEN "success" ELSE outcomes[Min(bad)]
  BY DEF PackageOutcome
<1>2. bad \in SUBSET Nat
  OBVIOUS
<1>3. bad # {} => Min(bad) \in bad
  BY <1>2, MinIsIn
<1>4. CASE bad = {}
  BY <1>1, <1>4
<1>5. CASE bad # {}
  <2>1. PICK i \in DOMAIN outcomes : i = Min(bad) /\ outcomes[i] \notin {"success", "not_run"}
    BY <1>3, <1>5
  <2>2. PackageOutcome(outcomes) = outcomes[i] /\ outcomes[i] \in S
    BY <1>1, <1>5, <2>1
  <2> QED BY <2>1, <2>2
<1> QED BY <1>4, <1>5

(***************************************************************************)
(* What supervisor.run returns to the probe.  The package only passes if   *)
(* no phase of it is bad: the first worker has then loaded it, and the     *)
(* second, if there is an audio, has taken it through the model.           *)
(***************************************************************************)
LEMMA ProbePlanned ==
  ASSUME WInv, TInv, PInv, ~Runner, stage \in {"spawn", "worker"},
         NEW supervised, NEW told \in BOOLEAN, Returns(supervised, told),
         told => stage = "worker", whole' \in {whole, whole + 1}
  PROVE  PInv'
<1> DEFINE S == PhaseOutcome \cup WorkerFailure
<1>1. /\ UNCHANGED <<request, inferred, workload, selected, repeats, blockers, temp, file,
                     code, current, aggregates, Runner>>
      /\ outcome = "none" /\ CollectProbe(supervised, told)
      /\ request.version = 1
  BY DEF Returns, CollectProbe, workerVars, log, plan, files, Runner, PInv, Planned,
         AtWork, WInv, AskedTyped
<1>2. LogTyped /\ ProbeLog /\ Answers
  BY DEF WInv, TInv
<1>3. /\ report \in Seq(S) /\ whole \in Nat
      /\ whole <= (IF report = <<>> THEN 0 ELSE 1)
      /\ aggregates = <<>> /\ current = Fresh
  BY DEF PInv, Kinds, Tally, Bounded, AtWork
<1>4. "success" \in S /\ "not_run" \in S
  BY DEF PhaseOutcome
<1>5. ASSUME NEW name  PROVE PhaseTold(name, supervised, told) \in S
  BY <1>2, PhaseToldIs
<1>6. ASSUME NEW outcomes \in Seq(S), outcomes # <<>>, ProbeEnds(outcomes),
             PackageOutcome(outcomes) = "success" => inferred = DOMAIN workload
      PROVE  PInv'
  <2>1. /\ report' = outcomes /\ stage' = "exit" /\ outcome' = PackageOutcome(outcomes)
        /\ outcome' \in S
    BY <1>4, <1>6, PackageOutcomeIs DEF ProbeEnds
  <2>2. Planned' /\ Tally'
    BY <1>1, <1>3, <2>1 DEF PInv, Planned, Tally, AtWork
  <2>3. Bounded'
    BY <1>1, <1>3, <2>1 DEF Bounded, AtWork, Fresh
  <2>4. Kinds'
    BY <1>1, <1>6, <2>1 DEF PInv, Kinds, RunOutcome
  <2>5. WorkEarned' /\ RunEarned' /\ ProbeEarned'
    BY <1>1, <1>6, <2>1 DEF WorkEarned, RunEarned, ProbeEarned, AtWork
  <2> QED BY <2>2, <2>3, <2>4, <2>5 DEF PInv
<1> HIDE DEF S
<1>7. CASE report # <<>>
  <2> DEFINE probed == PhaseTold("transcribe_probe", supervised, told)
             tail == <<probed, "success">>
             outcomes == report \o tail
  <2>1. tail \in Seq(S) /\ Len(tail) = 2 /\ tail[1] = probed
    BY <1>4, <1>5
  <2>2. ProbeEnds(outcomes)
    BY <1>1, <1>7 DEF CollectProbe
  <2>p. \/ told /\ \E i \in DOMAIN phases :
                phases[i][1] = "transcribe_probe" /\ phases[i][2] = probed
        \/ told /\ answer = "succeeded"
        \/ probed \in {"fail", "protocol_error", "readiness_failed"}
    BY <1>2, PhaseToldIs DEF WorkerFailure
  <2> HIDE DEF probed, tail
  <2>3. /\ outcomes \in Seq(S) /\ Len(outcomes) = Len(report) + 2
        /\ \A i \in Len(report) + 1..Len(report) + 2 : outcomes[i] = tail[i - Len(report)]
    <3>1. /\ outcomes \in Seq(S) /\ Len(outcomes) = Len(report) + Len(tail)
          /\ \A i \in Len(report) + 1..Len(report) + Len(tail) :
               outcomes[i] = tail[i - Len(report)]
      BY <1>3, <2>1, Joined
    <3> QED BY <2>1, <3>1
  <2>4. Len(report) + 1 \in DOMAIN outcomes /\ outcomes[Len(report) + 1] = probed
    <3> DEFINE n == Len(report)
    <3>1. n \in Nat
      BY <1>3
    <3> HIDE DEF n, outcomes
    <3>2. /\ DOMAIN outcomes = 1..n + 2
          /\ \A i \in n + 1..n + 2 : outcomes[i] = tail[i - n]
      BY <2>3 DEF n
    <3>3. n + 1 \in 1..n + 2 /\ n + 1 \in n + 1..n + 2 /\ (n + 1) - n = 1
      BY <3>1
    <3>4. outcomes[n + 1] = tail[(n + 1) - n]
      BY <3>2, <3>3
    <3> QED BY <2>1, <3>2, <3>3, <3>4 DEF n
  <2> HIDE DEF outcomes
  <2>5. PackageOutcome(outcomes) = "success" => inferred = DOMAIN workload
    <3> SUFFICES ASSUME PackageOutcome(outcomes) = "success"
                 PROVE  inferred = DOMAIN workload
      OBVIOUS
    <3>1. probed \in {"success", "not_run"} /\ told
      BY <2>3, <2>4, <2>p, PackageOutcomeIs
    <3>2. stage = "worker" /\ request.samples = workload /\ workload # <<>>
      BY <1>7, <3>1 DEF PInv, Planned, ProbeEarned, AtWork
    <3>3. CASE answer = "succeeded"
      BY <1>2, <3>2, <3>3 DEF Answers, SuccessIsWhole
    <3>4. CASE \E i \in DOMAIN phases :
                 phases[i][1] = "transcribe_probe" /\ phases[i][2] = probed
      <4>1. inferred = {1}
        BY <1>1, <1>2, <3>2, <3>4 DEF ProbeLog
      <4>2. workload \in Seq(SampleKind) /\ Len(workload) <= 1
        BY <1>1 DEF TInv, SizesFit, Sized
      <4>3. DOMAIN workload = {1}
        <5> DEFINE n == Len(workload)
        <5>1. n \in Nat /\ n # 0 /\ n <= 1 /\ DOMAIN workload = 1..n
          BY <3>2, <4>2
        <5> HIDE DEF n
        <5>2. n = 1
          BY <5>1
        <5> QED BY <5>1, <5>2
      <4> QED BY <4>1, <4>3
    <3> QED BY <2>p, <3>1, <3>3, <3>4
  <2>6. outcomes # <<>>
    BY <2>4
  <2> QED BY <1>6, <2>2, <2>3, <2>5, <2>6
<1>8. CASE report = <<>> /\ PhaseTold("load", supervised, told) # "success"
  <2> DEFINE load == PhaseTold("load", supervised, told)
             outcomes == <<load, "success">>
  <2>1. outcomes \in Seq(S) /\ outcomes[1] = load /\ 1 \in DOMAIN outcomes
    BY <1>4, <1>5
  <2>2. ProbeEnds(outcomes)
    BY <1>1, <1>8 DEF CollectProbe
  <2>3. load # "not_run"
    <3>1. \/ \E i \in DOMAIN phases : phases[i][1] = "load" /\ phases[i][2] = load
          \/ load \in {"success", "fail", "protocol_error", "readiness_failed"}
      BY <1>2, PhaseToldIs DEF WorkerFailure
    <3> QED BY <1>1, <1>2, <3>1 DEF ProbeLog
  <2>4. PackageOutcome(outcomes) # "success"
    <3>1. outcomes[1] \notin {"success", "not_run"}
      BY <1>8, <2>1, <2>3
    <3> HIDE DEF outcomes
    <3> QED BY <2>1, <3>1, PackageOutcomeIs
  <2>5. outcomes # <<>>
    OBVIOUS
  <2> HIDE DEF outcomes
  <2> QED BY <1>6, <2>1, <2>2, <2>4, <2>5
<1>9. CASE report = <<>> /\ PhaseTold("load", supervised, told) = "success"
  <2> DEFINE ready == PhaseTold("readiness", supervised, told)
             loaded == <<"success", ready, "not_run">>
  <2>1. loaded \in Seq(S) /\ loaded # <<>>
    BY <1>4, <1>5
  <2>2. told /\ request.samples = <<>> /\ inferred = {}
    <3>1. told
      BY <1>2, <1>9, PhaseToldIs DEF WorkerFailure
    <3> QED BY <1>1, <1>2, <1>9, <3>1 DEF PInv, Planned, ProbeLog
  <2>3. CASE workload = <<>>
    <3> DEFINE outcomes == loaded \o <<"not_run", "success">>
    <3>1. ProbeEnds(outcomes)
      BY <1>1, <1>9, <2>3 DEF CollectProbe
    <3>2. outcomes \in Seq(S) /\ outcomes # <<>>
      <4> HIDE DEF loaded
      <4>1. <<"not_run", "success">> \in Seq(S) /\ Len(<<"not_run", "success">>) = 2
        BY <1>4
      <4>2. outcomes \in Seq(S) /\ Len(outcomes) = Len(loaded) + 2
        BY <2>1, <4>1, Joined
      <4>3. Len(loaded) \in Nat
        BY <2>1
      <4> QED BY <4>2, <4>3
    <3>3. inferred = DOMAIN workload
      BY <2>2, <2>3
    <3> HIDE DEF outcomes
    <3> QED BY <1>6, <3>1, <3>2, <3>3
  <2>4. CASE workload # <<>>
    <3>1. report' = loaded /\ stage' = "spawn" /\ outcome' = "none"
      BY <1>1, <1>9, <2>4 DEF CollectProbe
    <3> HIDE DEF loaded
    <3>2. Planned' /\ Tally'
      BY <1>1, <1>3, <3>1 DEF PInv, Planned, Tally, AtWork
    <3>3. Bounded'
      BY <1>1, <1>3, <1>9, <2>1, <3>1 DEF Bounded, AtWork, Fresh
    <3>4. Kinds'
      BY <1>1, <2>1, <3>1 DEF PInv, Kinds, S
    <3>5. WorkEarned' /\ RunEarned' /\ ProbeEarned'
      BY <1>1, <2>4, <3>1 DEF WorkEarned, RunEarned, ProbeEarned, AtWork
    <3> QED BY <3>2, <3>3, <3>4, <3>5 DEF PInv
  <2> QED BY <2>3, <2>4
<1> QED BY <1>7, <1>8, <1>9

-----------------------------------------------------------------------------
(***************************************************************************)
(* Together they are inductive.                                            *)
(***************************************************************************)
LEMMA ReturnsPlanned ==
  ASSUME WInv, TInv, PInv, SpawnFails \/ WorkerEnds \/ WorkerTimesOut
  PROVE  PInv'
<1>1. CASE SpawnFails
  <2>1. Returns("spawn_error", FALSE) /\ stage = "spawn" /\ whole' = whole
    BY <1>1 DEF SpawnFails
  <2>2. CASE Runner
    BY <2>1, <2>2, CollectPlanned
  <2>3. CASE ~Runner
    BY <2>1, <2>3, ProbePlanned
  <2> QED BY <2>2, <2>3
<1>2. CASE WorkerEnds
  <2> DEFINE is == exit = "zero" /\ inferred = DOMAIN request.samples
  <2>1. PICK supervised \in {"completed", "nonzero_exit", "protocol_error",
                                "privacy_error"},
             told \in BOOLEAN :
          /\ Returns(supervised, told)
          /\ supervised = "completed" => exit = "zero"
    <3>1. CASE WellFormed /\ Returns(IF exit = "zero" THEN "completed" ELSE "nonzero_exit", TRUE)
      <4>2. CASE exit = "zero"
        BY <3>1, <4>2
      <4>3. CASE exit # "zero"
        BY <3>1, <4>3
      <4> QED BY <4>2, <4>3
    <3>2. CASE \E failure \in Refused : Returns(failure, FALSE)
      BY <3>2 DEF Refused
    <3> QED BY <1>2, <3>1, <3>2 DEF WorkerEnds
  <2>2. stage = "worker" /\ whole' = whole + (IF is THEN 1 ELSE 0)
    BY <1>2 DEF WorkerEnds
  <2>3. supervised = "completed" /\ told /\ answer = "succeeded" => is
    BY <2>1 DEF WInv, Answers, SuccessIsWhole
  <2> HIDE DEF is
  <2>4. whole \in Nat /\ whole' \in {whole, whole + 1} /\ (is => whole' = whole + 1)
    BY <2>2 DEF PInv, Tally
  <2>5. CASE Runner
    BY <2>1, <2>2, <2>3, <2>4, <2>5, CollectPlanned
  <2>6. CASE ~Runner
    BY <2>1, <2>2, <2>4, <2>6, ProbePlanned
  <2> QED BY <2>5, <2>6
<1>3. CASE WorkerTimesOut
  <2>1. PICK supervised \in {"terminated", "protocol_error", "privacy_error"},
             told \in BOOLEAN :
          Returns(supervised, told)
    <3>1. CASE WellFormed /\ Returns("terminated", TRUE)
      BY <3>1
    <3>2. CASE \E failure \in Refused : Returns(failure, FALSE)
      BY <3>2 DEF Refused
    <3> QED BY <1>3, <3>1, <3>2 DEF WorkerTimesOut
  <2>2. stage = "worker" /\ whole' = whole
    BY <1>3 DEF WorkerTimesOut
  <2>3. CASE Runner
    BY <2>1, <2>2, <2>3, CollectPlanned
  <2>4. CASE ~Runner
    BY <2>1, <2>2, <2>4, ProbePlanned
  <2> QED BY <2>3, <2>4
<1> QED BY <1>1, <1>2, <1>3

(***************************************************************************)
(* They hold at all times.                                                 *)
(***************************************************************************)
LEMMA ProgramInvariance == Spec => [](TInv /\ PInv)
<1>1. Init => TInv /\ PInv
  BY InitTyped, InitPlanned
<1>2. WInv /\ TInv /\ PInv /\ [Next]_vars => (TInv /\ PInv)'
  <2> SUFFICES ASSUME WInv, TInv, PInv, [Next]_vars  PROVE TInv' /\ PInv'
    OBVIOUS
  <2>1. TInv'
    <3>1. CASE Spawn
      BY <3>1, SpawnTyped
    <3>2. CASE Work
      <4>1. WorkerStep /\ UNCHANGED workload
        BY <3>2 DEF Work, plan
      <4> QED BY <4>1, WorkerTyped
    <3>3. CASE ~Spawn /\ ~Work
      <4>1. UNCHANGED <<workerVars, workload>>
        BY <3>3, ProgramAside
      <4> QED BY <4>1, AsideTyped
    <3> QED BY <3>1, <3>2, <3>3
  <2>2. PInv'
    <3>1. CASE CheckInputs
      BY <3>1, CheckInputsPlanned
    <3>2. CASE CheckPackage
      BY <3>2, CheckPackagePlanned
    <3>3. CASE Spawn
      BY <3>3, SpawnPlanned
    <3>4. CASE Work
      BY <3>4, WorkPlanned
    <3>5. CASE SpawnFails \/ WorkerEnds \/ WorkerTimesOut
      BY <3>5, ReturnsPlanned
    <3>6. CASE Judge
      BY <3>6, JudgePlanned
    <3>7. CASE Write \/ Fill \/ Replace \/ Exit \/ Stop
      BY <3>7, EndsPlanned
    <3>8. CASE UNCHANGED vars
      <4>1. UNCHANGED <<request, inferred, stage, workload, selected, repeats, current,
                        aggregates, report, outcome, blockers, temp, file, code, whole>>
        BY <3>8 DEF vars, workerVars, log, plan, results, files
      <4> QED BY <4>1 DEF PInv, Planned, Tally, Bounded, WorkEarned, RunEarned, ProbeEarned,
                          Kinds, Runner, AtWork, Begun, Scored, AllSucceeded, Fresh
    <3> QED BY <3>1, <3>2, <3>3, <3>4, <3>5, <3>6, <3>7, <3>8 DEF Next, Over
  <2> QED BY <2>1, <2>2
<1> QED BY <1>1, <1>2, WorkerInvariance, PTL DEF Spec

(***************************************************************************)
(* The runner, the probe and their workers only take the values declared   *)
(* (benchmark_runner.py, local_model_probe.py, benchmark_worker.py): the   *)
(* requests keep the size of their version, no more repeats are counted    *)
(* than were planned, no more samples measured than asked for.             *)
(***************************************************************************)
THEOREM RunTyped == Spec => []TypeOK
<1>1. WInv /\ TInv /\ PInv => TypeOK
  <2> SUFFICES ASSUME WInv, TInv, PInv  PROVE TypeOK
    OBVIOUS
  <2>1. AskedTyped /\ LogTyped /\ EngineTypeOK /\ AnswerTyped /\ SizesFit /\ ProbeLog /\ OnSamples
    BY DEF WInv, TInv
  <2>2. request \in Request
    BY <2>1, RequestShape DEF AskedTyped, SizesFit
  <2>3. [request EXCEPT !.samples = workload] \in Request
    <3> DEFINE r == [request EXCEPT !.samples = workload]
    <3>1. /\ r \in [version : {1, 2}, samples : Seq(SampleKind)]
          /\ r.version = request.version /\ r.samples = workload
      BY <2>1 DEF AskedTyped
    <3> HIDE DEF r
    <3>2. Sized(r.version, r.samples)
      BY <2>1, <3>1 DEF SizesFit
    <3>3. r \in Request
      BY <3>1, <3>2, RequestShape
    <3> QED BY <3>3 DEF r
  <2>4. inferred \subseteq 1..(MaxScored + 1)
    <3>1. CASE request.version = 1
      BY <2>1, <3>1, WorkerAssumption DEF ProbeLog, WorkerAssumption
    <3>2. CASE request.version = 2
      <4>1. /\ inferred \subseteq 1..Len(samples) /\ Len(samples) <= Len(request.samples)
            /\ Len(request.samples) \in 2..MaxScored + 1 /\ samples \in Seq(PhaseOutcome)
        BY <2>1, <3>2 DEF OnSamples, SizesFit, Sized, LogTyped
      <4>2. Len(samples) \in Nat /\ MaxScored \in Nat
        BY <4>1, WorkerAssumption DEF WorkerAssumption
      <4> QED BY <4>1, <4>2
    <3> QED BY <2>1, <3>1, <3>2 DEF AskedTyped
  <2>5. WorkerTypeOK
    BY <2>1, <2>2, <2>4 DEF WorkerTypeOK, LogTyped, AnswerTyped
  <2>6. /\ selected \in 0..MaxWorkers /\ repeats \in 1..MaxWorkers
        /\ aggregates \in Seq(Aggregate) /\ whole \in Nat
        /\ whole <= (IF Runner THEN MaxWorkers ELSE 2)
    <3>1. MaxWorkers \in Nat
      BY RunAssumption DEF RunAssumption
    <3>2. /\ selected \in 0..MaxWorkers /\ repeats \in 1..MaxWorkers /\ whole \in Nat
          /\ Runner => selected * repeats <= MaxWorkers /\ whole <= selected * repeats
          /\ ~Runner => whole <= 2
      BY DEF PInv, Planned, Tally, Bounded
    <3>3. selected * repeats \in Nat
      BY <3>1, <3>2
    <3>4. Runner => whole <= MaxWorkers
      BY <3>1, <3>2, <3>3
    <3> QED BY <3>2, <3>4 DEF PInv, Tally
  <2>7. current \in [repeat : 0..MaxWorkers, completed : 0..MaxWorkers,
                     measured : 0..(MaxWorkers * MaxScored)]
    <3>1. current \in [repeat : 0..repeats - 1, completed : 0..repeats - 1,
                       measured : 0..(MaxWorkers * MaxScored)]
      BY DEF PInv, Tally
    <3>2. 0..repeats - 1 \subseteq 0..MaxWorkers
      BY <2>6, RunAssumption DEF RunAssumption
    <3> QED BY <3>1, <3>2
  <2>8. whole \in 0..(IF Runner THEN MaxWorkers ELSE 2)
    BY <2>6, RunAssumption DEF RunAssumption
  <2> QED BY <2>3, <2>5, <2>6, <2>7, <2>8 DEF TypeOK, PInv, Kinds
<1> QED BY <1>1, WorkerInvariance, ProgramInvariance, PTL

(***************************************************************************)
(* A run only calls itself successful, and is only left for publication    *)
(* with nothing but the offline evidence missing, if each of the workers   *)
(* planned ended by itself with every sample through the model, and every  *)
(* scored sample of every repeat was measured once (_run_candidates and    *)
(* _publication_validity of benchmark_runner.py); a package only passes    *)
(* the probe if its audio went through the model (local_model_probe.py).   *)
(***************************************************************************)
THEOREM RunSuccessIsEarned == Spec => []SuccessIsEarned
<1>1. PInv => SuccessIsEarned
  BY DEF PInv, RunEarned, WorkEarned, ProbeEarned, AllSucceeded, Scored, SuccessIsEarned
<1> QED BY <1>1, ProgramInvariance, PTL
=============================================================================
