----------------------------- MODULE MCTracker -----------------------------
(* Tracker for TLC: one torrent, with hash h2 and, as a hybrid, h1. *)
EXTENDS Tracker, TLC

CONSTANTS h1, h2

(* The torrent is registered as a hybrid, and again without its v1 hash.  *)
V2Only     == {<<h2, NoHash>>}
HybridOrV2 == {<<h2, h1>>, <<h2, NoHash>>}

(* The DELETE requests are alike. *)
Symmetric == Permutations(Del)

=============================================================================
