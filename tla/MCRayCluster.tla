----------------------------- MODULE MCRayCluster -----------------------------
(* Constants for TLC: a head, a sandbox and two interchangeable workers. *)
EXTENDS RayCluster, TLC

CONSTANTS w1, w2, head, box
=============================================================================
