--------------------------- MODULE MCInsertionCli ---------------------------
(***************************************************************************)
(* The command line over a small clipboard, for TLC.                       *)
(***************************************************************************)
EXTENDS InsertionCli
=============================================================================
