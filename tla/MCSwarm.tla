------------------------------ MODULE MCSwarm ------------------------------
(* Swarm for TLC. *)
EXTENDS Swarm

CONSTANTS a1, a2, a3, a4

TwoSeeds == <<a1, a2>>

=============================================================================
