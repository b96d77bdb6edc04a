---------------------------- MODULE UsageLedger ----------------------------
(***************************************************************************)
(* What usage accounting promises: a user's bytes are owed until they are  *)
(* delivered, and they are delivered exactly once.                         *)
(***************************************************************************)
EXTENDS Integers

CONSTANT User

VARIABLES earned, \* bytes announces have credited, per user
          owed,   \* bytes the tracker still has to deliver, per user
          paid    \* bytes the Hub has counted, per user

Fields == {"uploaded", "downloaded"}

Init == /\ earned = [u \in User |-> [uploaded |-> 0, downloaded |-> 0]]
        /\ owed = [u \in User |-> [uploaded |-> 0, downloaded |-> 0]]
        /\ paid = [u \in User |-> [uploaded |-> 0, downloaded |-> 0]]

(* An announce credits one user: what becomes owed is what was earned.     *)
Credit(u) == /\ \A f \in Fields :
                   /\ earned'[u][f] >= earned[u][f]
                   /\ owed'[u][f] - owed[u][f] = earned'[u][f] - earned[u][f]
             /\ \A v \in User \ {u} : /\ earned'[v] = earned[v]
                                      /\ owed'[v] = owed[v]
             /\ UNCHANGED paid

(* Some of what is owed is delivered: the Hub gains what the tracker       *)
(* forgets, for any set of users at once, and nothing is earned by it.     *)
Deliver == /\ UNCHANGED earned
           /\ \A u \in User : \A f \in Fields :
                /\ owed'[u][f] \in 0 .. owed[u][f]
                /\ paid'[u][f] = paid[u][f] + (owed[u][f] - owed'[u][f])

Next == Deliver \/ \E u \in User : Credit(u)

Spec == Init /\ [][Next]_<<earned, owed, paid>>

=============================================================================
