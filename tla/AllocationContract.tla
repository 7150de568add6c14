------------------------- MODULE AllocationContract -------------------------
(***************************************************************************)
(* What internal/lifecycle promises the rest of the system about one       *)
(* allocation: the phases another component can read, and whether the      *)
(* allocation is exposed, that is, owns cloud resources or has a create    *)
(* request that may still produce some.                                    *)
(***************************************************************************)
VARIABLES phase, exposed

cvars == <<phase, exposed>>

CInit == phase = "Pending" /\ exposed = FALSE

\* The intent is persisted before any cloud effect.
Begin == phase = "Pending" /\ phase' = "Creating" /\ UNCHANGED exposed

\* Effects only happen under a persisted intent, and may end at any time.
Expose == phase = "Creating" /\ exposed' = TRUE /\ UNCHANGED phase
Fade   == exposed' = FALSE /\ UNCHANGED phase

\* The intent is withdrawn only when it provably had no lasting effect.
Withdraw == phase = "Creating" /\ ~exposed /\ phase' = "Pending" /\ UNCHANGED exposed

Confirm == phase = "Creating" /\ phase' \in {"Running", "Deleting"} /\ UNCHANGED exposed
Condemn == phase = "Running" /\ phase' = "Deleting" /\ UNCHANGED exposed

\* The obligation ends only when nothing is left and nothing can appear.
Close ==
    /\ phase \in {"Creating", "Running", "Deleting"} /\ ~exposed
    /\ phase' = "Deleted" /\ UNCHANGED exposed
GiveUp == phase = "Pending" /\ ~exposed /\ phase' = "TimedOut" /\ UNCHANGED exposed

CNext == Begin \/ Expose \/ Fade \/ Withdraw \/ Confirm \/ Condemn \/ Close \/ GiveUp

CSpec == CInit /\ [][CNext]_cvars
=============================================================================
