----------------------------- MODULE MCAsrSession ------------------------------
(***************************************************************************)
(* Instances of AsrSession for TLC: two sets of options, so that a failed  *)
(* load can leave the other's defaults behind.                             *)
(***************************************************************************)
EXTENDS AsrSession
=============================================================================
