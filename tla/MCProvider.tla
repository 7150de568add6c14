----------------------------- MODULE MCProvider -----------------------------
(* Provider with constants for TLC. *)
EXTENDS Provider

\* The second attempt is in the zone of the first, the third is not.
MCZone == <<1, 1, 2>>
=============================================================================
