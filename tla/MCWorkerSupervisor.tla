-------------------------- MODULE MCWorkerSupervisor --------------------------
(***************************************************************************)
(* Small instances of WorkerSupervisor for TLC: backends that differ in    *)
(* what they find for the pid of a worker that is gone.                    *)
(***************************************************************************)
EXTENDS WorkerSupervisor
=============================================================================
