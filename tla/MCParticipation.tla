--------------------------- MODULE MCParticipation --------------------------
(***************************************************************************)
(* Symmetry for the instances of the participation domain.                 *)
(***************************************************************************)
EXTENDS Participation, TLC

Interchangeable ==
    Permutations(Visitors) \cup Permutations(Contents) \cup Permutations(Requests)
=============================================================================
