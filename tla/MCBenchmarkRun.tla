---------------------------- MODULE MCBenchmarkRun ----------------------------
(***************************************************************************)
(* A small instance of BenchmarkRun for TLC: both programs, every request  *)
(* up to a bound on its scored samples, and two workers of the runner: two *)
(* repeats of one candidate, or two candidates.                            *)
(***************************************************************************)
EXTENDS BenchmarkRun
=============================================================================
