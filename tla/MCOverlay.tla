----------------------------- MODULE MCOverlay -----------------------------
(***************************************************************************)
(* The overlay's address pool for model checking: a first CIDR without a   *)
(* usable host, then one with two.                                         *)
(***************************************************************************)
EXTENDS Overlay, TLC

MCCidrs == <<[base |-> 0, hostBits |-> 1], [base |-> 4, hostBits |-> 2]>>

\* Neither operators nor, without agents, allocation IDs are told apart.
OverlaySymmetry == Permutations(Operators) \cup Permutations(Ids)
=============================================================================
