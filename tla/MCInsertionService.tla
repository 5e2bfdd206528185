------------------------- MODULE MCInsertionService -------------------------
(***************************************************************************)
(* Small instances of InsertionService for TLC.                            *)
(***************************************************************************)
EXTENDS InsertionService, TLC

Interchangeable == Permutations(Threads) \cup Permutations(Ids)
=============================================================================
