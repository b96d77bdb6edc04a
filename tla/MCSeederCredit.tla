--------------------------- MODULE MCSeederCredit ---------------------------
(* SeederCredit for TLC. *)
EXTENDS SeederCredit, TLC

Slots == Permutations(Req)

=============================================================================
