--------------------------- MODULE MCInputInjector ---------------------------
(***************************************************************************)
(* A small instance of InputInjector for TLC: the paste batch and texts of *)
(* at most two characters, so that a unit repeats.                         *)
(***************************************************************************)
EXTENDS InputInjector
=============================================================================
