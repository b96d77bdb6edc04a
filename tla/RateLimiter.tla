---------------------------- MODULE RateLimiter ----------------------------
(***************************************************************************)
(* The token bucket of the tracker (internal/tracker/ratelimit.go).  Allow *)
(* runs under one lock and is one step.  Every request of an IP costs Cost *)
(* units; a bucket holds at most Burst units and gains Rate units per unit *)
(* of time, counted when the IP is next seen.  A map that has reached      *)
(* MaxIPs entries is thrown away as a whole.                               *)
(*                                                                         *)
(* The code counts whole tokens in floating point; units stand for the     *)
(* fractions of a token.                                                   *)
(***************************************************************************)
EXTENDS Integers, FiniteSets

CONSTANTS IP, Rate, Burst, Cost, MaxIPs,
          MaxTime,      \* bound: how long the clock runs
          MaxRequests   \* bound: requests

ASSUME ConstantsAssumption ==
    /\ Rate \in Nat /\ Burst \in Nat /\ Cost \in Nat \ {0}
    /\ MaxIPs \in Nat \ {0} /\ MaxTime \in Nat /\ MaxRequests \in Nat

VARIABLES
    buckets,    \* IP -> the tokens and lastSeen of its bucket
    now,
    spent,      \* observed: units each IP has paid with its current bucket
    born,       \* observed: when that bucket was made
    asked       \* requests so far

vars == <<buckets, now, spent, born, asked>>

Lesser(a, b) == IF a < b THEN a ELSE b

Init == /\ buckets = [i \in {} |-> 0]
        /\ now = 0
        /\ spent = [i \in IP |-> 0] /\ born = [i \in IP |-> 0]
        /\ asked = 0

Full == Cardinality(DOMAIN buckets) >= MaxIPs

Known(i) == ~Full /\ i \in DOMAIN buckets

(* Mutant: lastSeen is not read, each request is credited the whole time.  *)
RefilledFromStart(i) ==
    IF Known(i) THEN Lesser(buckets[i].tokens + now * Rate, Burst) ELSE Burst

(* The tokens of the IP after the refill; a new bucket is full. *)
Refilled(i) ==
    IF Known(i)
    THEN Lesser(buckets[i].tokens + (now - buckets[i].lastSeen) * Rate, Burst)
    ELSE Burst

Others(i) == IF Full THEN {} ELSE DOMAIN buckets \ {i}

Allowed(i) == Refilled(i) >= Cost

Allow(i) ==
    LET paid == IF Allowed(i) THEN Cost ELSE 0
        mine == [tokens |-> Refilled(i) - paid, lastSeen |-> now]
    IN /\ asked < MaxRequests
       /\ asked' = asked + 1
       /\ buckets' = [j \in Others(i) \cup {i} |->
                        IF j = i THEN mine ELSE buckets[j]]
       /\ spent' = [spent EXCEPT ![i] = IF Known(i) THEN @ + paid ELSE paid]
       /\ born' = [born EXCEPT ![i] = IF Known(i) THEN @ ELSE now]
       /\ UNCHANGED now

Tick == /\ now < MaxTime
        /\ now' = now + 1
        /\ UNCHANGED <<buckets, spent, born, asked>>

Next == Tick \/ \E i \in IP : Allow(i)

Spec == Init /\ [][Next]_vars

-----------------------------------------------------------------------------
(* Properties *)

(* The variables have the types of the Go values they stand for: tokens     *)
(* stay between zero and the burst, and the map within its limit.           *)
TypeOK == /\ DOMAIN buckets \subseteq IP
          /\ Cardinality(DOMAIN buckets) <= MaxIPs
          /\ \A i \in DOMAIN buckets :
               buckets[i] \in [tokens : 0 .. Burst, lastSeen : 0 .. now]
          /\ now \in 0 .. MaxTime
          /\ spent \in [IP -> Nat] /\ born \in [IP -> Nat]
          /\ asked \in 0 .. MaxRequests

(* With one bucket an IP never pays more than the burst and what the rate   *)
(* brought since the bucket was made, whatever the pattern of its requests; *)
(* and the map stays within its limit.                                      *)
WithinBudget == /\ \A i \in DOMAIN buckets :
                     spent[i] <= Burst + Rate * (now - born[i])
                /\ Cardinality(DOMAIN buckets) <= MaxIPs

=============================================================================
