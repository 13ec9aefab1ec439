----------------------------- MODULE MCHourCache -----------------------------
(* HourCache with the requests interchangeable.                             *)
EXTENDS HourCache, TLC

Interchangeable == Permutations(Procs)
=============================================================================
