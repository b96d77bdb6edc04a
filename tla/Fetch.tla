------------------------------- MODULE Fetch -------------------------------
(***************************************************************************)
(* What a download promises: verified pieces are written one at a time,    *)
(* each at most once and none after the end, and the outcome is reported   *)
(* once: "ok" exactly when every piece has been written.                   *)
(***************************************************************************)
CONSTANT Piece

VARIABLES have,      \* the pieces on disk
          outcome,   \* "running", "ok" or "error"
          busy       \* some peer is at work on a piece that is wanted

Init == have = {} /\ outcome = "running"

Write(p) == /\ outcome = "running"
            /\ p \notin have
            /\ have' = have \cup {p}
            /\ UNCHANGED outcome

End == /\ outcome = "running"
       /\ outcome' = IF have = Piece THEN "ok" ELSE "error"
       /\ UNCHANGED have

Next == End \/ \E p \in Piece : Write(p)

Safe == Init /\ [][Next]_<<have, outcome>>

(* It comes to an end, unless peers are at work for ever. *)
Ends == <>[]~busy => <>(outcome # "running")

Spec == Safe /\ Ends

=============================================================================
