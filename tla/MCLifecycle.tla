---------------------------- MODULE MCLifecycle ----------------------------
(* Lifecycle with constants for TLC: pools are named after their cloud.    *)
EXTENDS Lifecycle

CONSTANTS c1, c2, a1, z1, z2, g1, g2

\* The kind of each pool; z1 and z2 share a provider, and so a deployment name.
MCProvider == [p \in Pools |->
    IF p = a1 THEN "aws" ELSE IF p \in {z1, z2} THEN "azure" ELSE "gcp"]
=============================================================================
