---------------------------- MODULE MCUsageSync ----------------------------
(* UsageSync for TLC. *)
EXTENDS UsageSync, TLC

Up == [uploaded |-> 1, downloaded |-> 0]
Both == [uploaded |-> 1, downloaded |-> 1]

OneDelta  == {Both}
TwoDeltas == {Up, Both}

Perms == Permutations(User)

=============================================================================
