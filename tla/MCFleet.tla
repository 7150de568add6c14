------------------------------ MODULE MCFleet ------------------------------
(* Fleet with constants for TLC. *)
EXTENDS Fleet, TLC

\* Allocation IDs are random: the model treats them alike.
IdSymmetry == Permutations(Ids)
=============================================================================
