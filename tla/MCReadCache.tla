---------------------------- MODULE MCReadCache ----------------------------
(***************************************************************************)
(* Instances of the read cache: the symmetry of its runs.                  *)
(***************************************************************************)
EXTENDS ReadCache, TLC

Interchangeable == Permutations(Requests) \cup Permutations(Keys)
=============================================================================
