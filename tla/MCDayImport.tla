---------------------------- MODULE MCDayImport ----------------------------
(* DayImport with the imports interchangeable.                              *)
EXTENDS DayImport, TLC

Interchangeable == Permutations(Imports)
=============================================================================
