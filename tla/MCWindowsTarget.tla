--------------------------- MODULE MCWindowsTarget ---------------------------
(***************************************************************************)
(* A small desktop for TLC.                                                *)
(***************************************************************************)
EXTENDS WindowsTarget, TLC

Interchangeable == Permutations(Pids) \cup Permutations(Tops)
                     \cup Permutations(Controls)
=============================================================================
