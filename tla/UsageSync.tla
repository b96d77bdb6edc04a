----------------------------- MODULE UsageSync -----------------------------
(***************************************************************************)
(* Usage accounting of the tracker (internal/tracker/state.go) driven by   *)
(* the goroutines of cmd/tracker/main.go.                                  *)
(*                                                                         *)
(* Announce handlers credit byte deltas to users in RAM (TrackUsage).  A   *)
(* flush pass, FlushUsers followed by DrainBacklog, is run by the periodic *)
(* goroutine ("ticker") on every tick and once more by the signal          *)
(* goroutine ("final") during a graceful shutdown.  FlushUsers copies the  *)
(* deltas under a read lock, POSTs them with no lock held, spills them to  *)
(* the SQLite table usage_backlog when the Hub answers with an error, and  *)
(* only then subtracts what it sent.  DrainBacklog re-sends old rows.      *)
(*                                                                         *)
(* The Hub and SQLite are external: the Hub may apply a batch and lose the *)
(* answer, refuse it, or be unreachable; a database call may fail.         *)
(***************************************************************************)
EXTENDS Integers, FiniteSets

CONSTANTS
    User,               \* user ids carried by verified passkeys
    Deltas,             \* the deltas one announce may credit
    DrainLimit,         \* LIMIT of the DrainBacklog query (100 in the code)
    HubOutcomes,        \* how a POST may end in this instance
    HubConfigs,         \* whether HUB_URL may be set / unset
    ShutdownTimeouts,   \* may srv.Shutdown time out with handlers running?
    Crashes,            \* may the process be killed?
    MaxCredits,         \* bound: TrackUsage calls
    MaxFaults,          \* bound: lost answers and failed database calls
    MaxRestarts         \* bound: restarts of the process

Usage == [uploaded : Nat, downloaded : Nat]
Zero  == [uploaded |-> 0, downloaded |-> 0]

Outcome == {"ok", "rejected", "unreachable", "replyLost"}

ASSUME ConstantsAssumption ==
    /\ Deltas \subseteq Usage \ {Zero}
    /\ DrainLimit \in Nat \ {0}
    /\ HubOutcomes \subseteq Outcome
    /\ HubConfigs \subseteq BOOLEAN
    /\ ShutdownTimeouts \in BOOLEAN
    /\ Crashes \in BOOLEAN
    /\ MaxCredits \in Nat
    /\ MaxFaults \in Nat
    /\ MaxRestarts \in Nat

Flusher == {"ticker", "final"}

(* Every row holds at least one credit of its own, so MaxCredits ids do.   *)
RowId == 1 .. MaxCredits

VARIABLES
    \* the process
    users,     \* SwarmState.Users: a map from user id to its deltas
    pc,        \* where each flushing goroutine is
    batch,     \* local variable payload of FlushUsers / DrainBacklog
    recs,      \* local variable records of DrainBacklog: the rowids
    srv,       \* "up"; "late": Shutdown timed out, handlers run; "closed"
    hubSet,    \* is HUB_URL set?
    \* the outside
    backlog,   \* table usage_backlog: a map from rowid to a row
    hub,       \* the Hub's running totals
    \* observed by the properties, read by no guard but the bounds
    earned,    \* everything ever credited
    lost,      \* RAM deltas dropped when the process ended, sent nowhere
    unacked,   \* bytes the Hub counted that the tracker will send again
               \* (an answer was lost, or a drained row is still there)
    credits, faults, restarts

procVars  == <<users, pc, batch, recs, srv, hubSet>>
ghostVars == <<earned, lost, unacked, credits, faults, restarts>>
vars      == <<procVars, backlog, hub, ghostVars>>

-----------------------------------------------------------------------------
(* Usage records and Go maps: a map is a function whose domain is the set  *)
(* of its keys; reading a missing key gives the zero value.                *)

Plus(a, b)  == [uploaded   |-> a.uploaded + b.uploaded,
                downloaded |-> a.downloaded + b.downloaded]
Minus(a, b) == [uploaded   |-> a.uploaded - b.uploaded,
                downloaded |-> a.downloaded - b.downloaded]
Leq(a, b)   == a.uploaded <= b.uploaded /\ a.downloaded <= b.downloaded

EmptyMap     == [u \in {} |-> Zero]
At(m, k)     == IF k \in DOMAIN m THEN m[k] ELSE Zero
Add(m, k, d) == [x \in DOMAIN m \cup {k} |->
                    IF x = k THEN Plus(At(m, k), d) ELSE m[x]]

(* A total per user, increased by every entry of the map m.                *)
PlusMap(total, m) == [u \in User |-> Plus(total[u], At(m, u))]

Row == [id : User, u : Usage]

-----------------------------------------------------------------------------
(* The flush pass *)

InPass(p) == pc[p] \in {"users", "post", "backup", "subtract",
                        "drain", "scan", "drainPost", "delete"}

(* Where a goroutine goes when DrainBacklog returns. *)
AfterPass(p) == IF p = "ticker" THEN "select" ELSE "exit"

Goto(p, l) == pc' = [pc EXCEPT ![p] = l]

(* The function returns and its locals go out of scope. *)
Return(p, l) == /\ Goto(p, l)
                /\ batch' = [batch EXCEPT ![p] = EmptyMap]
                /\ recs' = [recs EXCEPT ![p] = {}]

Fault == faults < MaxFaults /\ faults' = faults + 1

Init == /\ users = EmptyMap
        /\ pc = [ticker |-> "select", final |-> "signal"]
        /\ batch = [p \in Flusher |-> EmptyMap]
        /\ recs = [p \in Flusher |-> {}]
        /\ srv = "up"
        /\ hubSet \in HubConfigs
        /\ backlog = [r \in {} |-> Zero]
        /\ hub = [u \in User |-> Zero]
        /\ earned = [u \in User |-> Zero]
        /\ lost = [u \in User |-> Zero]
        /\ unacked = [u \in User |-> Zero]
        /\ credits = 0 /\ faults = 0 /\ restarts = 0

(* An announce handler credits a delta.  Handlers keep running while the   *)
(* signal goroutine waits for the ticker, while srv.Shutdown waits for     *)
(* them, and after it when it timed out.                                   *)
TrackUsage(u, d) ==
    /\ srv \in {"up", "late"}
    /\ credits < MaxCredits
    /\ credits' = credits + 1
    /\ users' = Add(users, u, d)
    /\ earned' = [earned EXCEPT ![u] = Plus(@, d)]
    /\ UNCHANGED <<pc, batch, recs, srv, hubSet, backlog, hub, lost,
                   unacked, faults, restarts>>

(* FlushUsers up to the unlock: nothing to send, HUB_URL not set, or a     *)
(* copy of every delta.                                                    *)
FlushUsersSnapshot(p) ==
    /\ pc[p] = "users"
    /\ \/ /\ users = EmptyMap \/ ~hubSet
          /\ Goto(p, "drain")
          /\ UNCHANGED batch
       \/ /\ users # EmptyMap /\ hubSet
          /\ batch' = [batch EXCEPT ![p] = users]
          /\ Goto(p, "post")
    /\ UNCHANGED <<users, recs, srv, hubSet, backlog, hub, ghostVars>>

(* postUsageSync, shared by FlushUsers ("post") and DrainBacklog           *)
(* ("drainPost"), one action per outcome, together with what its caller    *)
(* does with the outcome.                                                  *)
Posting(p) == pc[p] \in {"post", "drainPost"}

PostOK(p) ==
    /\ Posting(p) /\ "ok" \in HubOutcomes
    /\ hub' = PlusMap(hub, batch[p])
    /\ \/ pc[p] = "post" /\ Goto(p, "subtract") /\ UNCHANGED unacked
       \/ /\ pc[p] = "drainPost" /\ Goto(p, "delete")
          /\ unacked' = PlusMap(unacked, batch[p])
    /\ UNCHANGED <<users, batch, recs, srv, hubSet, backlog, earned, lost,
                   credits, faults, restarts>>

PostRejected(p) ==
    /\ Posting(p) /\ "rejected" \in HubOutcomes
    /\ \/ /\ pc[p] = "post"
          /\ Goto(p, "backup")
          /\ UNCHANGED <<batch, recs>>
       \/ /\ pc[p] = "drainPost"
          /\ Return(p, AfterPass(p))
    /\ UNCHANGED <<users, srv, hubSet, backlog, hub, ghostVars>>

(* A transport error: FlushUsers holds the deltas in RAM, DrainBacklog     *)
(* leaves the rows for the next tick.                                      *)
TransportError(p) ==
    Return(p, IF pc[p] = "post" THEN "drain" ELSE AfterPass(p))

PostUnreachable(p) ==
    /\ Posting(p) /\ "unreachable" \in HubOutcomes
    /\ TransportError(p)
    /\ UNCHANGED <<users, srv, hubSet, backlog, hub, ghostVars>>

PostReplyLost(p) ==
    /\ Posting(p) /\ "replyLost" \in HubOutcomes
    /\ Fault
    /\ hub' = PlusMap(hub, batch[p])
    /\ unacked' = PlusMap(unacked, batch[p])
    /\ TransportError(p)
    /\ UNCHANGED <<users, srv, hubSet, backlog, earned, lost, credits,
                   restarts>>

(* backupUsageToDB: one transaction, one row per user of the batch, in the *)
(* order of a Go map iteration.  SQLite gives a new row the largest rowid  *)
(* plus one.                                                               *)
Follows(S, T)    == \A x \in T, y \in S : y < x
Contiguous(S, T) == \A x \in T : x = 1 \/ x - 1 \in S \cup T

Insert(p) ==
    \E row \in [DOMAIN batch[p] -> RowId] :
         LET new == {row[u] : u \in DOMAIN batch[p]} IN
         /\ \A u, v \in DOMAIN batch[p] : u # v => row[u] # row[v]
         /\ Follows(DOMAIN backlog, new)
         /\ Contiguous(DOMAIN backlog, new)
         /\ backlog' = [r \in DOMAIN backlog \cup new |->
                          IF r \in DOMAIN backlog THEN backlog[r]
                          ELSE LET u == CHOOSE v \in DOMAIN batch[p] :
                                            row[v] = r
                               IN [id |-> u, u |-> batch[p][u]]]

(* Mutant: FlushUsers returns after the backup, without subtracting. *)
BackupKeepsRAM(p) ==
    /\ pc[p] = "backup"
    /\ Insert(p)
    /\ Return(p, "drain")
    /\ UNCHANGED <<users, srv, hubSet, hub, ghostVars>>

BackupUsageToDB(p) ==
    /\ pc[p] = "backup"
    /\ Insert(p)
    /\ Goto(p, "subtract")
    /\ UNCHANGED <<users, batch, recs, srv, hubSet, hub, ghostVars>>

(* The transaction rolls back; FlushUsers returns, the deltas stay in RAM. *)
BackupFails(p) ==
    /\ pc[p] = "backup"
    /\ Fault
    /\ Return(p, "drain")
    /\ UNCHANGED <<users, srv, hubSet, backlog, hub, earned, lost, unacked,
                   credits, restarts>>

(* The end of FlushUsers: under the lock, subtract what was sent from the  *)
(* live deltas of every user of the batch and drop the entries that reach  *)
(* zero.                                                                   *)
Remaining(p, u) == IF u \in DOMAIN batch[p]
                   THEN Minus(users[u], batch[p][u]) ELSE users[u]

(* Mutant: the entries that reach zero stay in the map. *)
SubtractKeepsZero(p) ==
    /\ pc[p] = "subtract"
    /\ users' = [u \in DOMAIN users |-> Remaining(p, u)]
    /\ Return(p, "drain")
    /\ UNCHANGED <<srv, hubSet, backlog, hub, ghostVars>>

(* Mutant: the entries of the users sent are deleted, not subtracted from. *)
SubtractDeletes(p) ==
    /\ pc[p] = "subtract"
    /\ users' = [u \in DOMAIN users \ DOMAIN batch[p] |-> users[u]]
    /\ Return(p, "drain")
    /\ UNCHANGED <<srv, hubSet, backlog, hub, ghostVars>>

Subtract(p) ==
    /\ pc[p] = "subtract"
    /\ users' = [u \in {v \in DOMAIN users : \/ v \notin DOMAIN batch[p]
                                             \/ Remaining(p, v) # Zero}
                   |-> Remaining(p, u)]
    /\ Return(p, "drain")
    /\ UNCHANGED <<srv, hubSet, backlog, hub, ghostVars>>

(* DrainBacklog: returns at once without HUB_URL or when the query fails.  *)
DrainStart(p) ==
    /\ pc[p] = "drain"
    /\ \/ ~hubSet /\ Goto(p, AfterPass(p)) /\ UNCHANGED faults
       \/ hubSet /\ Fault /\ Goto(p, AfterPass(p))
       \/ hubSet /\ Goto(p, "scan") /\ UNCHANGED faults
    /\ UNCHANGED <<users, batch, recs, srv, hubSet, backlog, hub, earned,
                   lost, unacked, credits, restarts>>

(* One turn of the rows.Next loop: the oldest row not read yet, at most    *)
(* DrainLimit of them; rows of one user accumulate.                        *)
Unread(p) == DOMAIN backlog \ recs[p]

(* Mutant: one row too few. *)
AtLimitEarly(p) == Cardinality(recs[p]) + 1 >= DrainLimit

AtLimit(p) == Cardinality(recs[p]) >= DrainLimit

DrainScan(p) ==
    /\ pc[p] = "scan"
    /\ ~AtLimit(p)
    /\ \E r \in Unread(p) :
         /\ \A q \in Unread(p) : r <= q
         /\ recs' = [recs EXCEPT ![p] = @ \cup {r}]
         /\ batch' = [batch EXCEPT ![p] =
                        Add(batch[p], backlog[r].id, backlog[r].u)]
    /\ UNCHANGED <<users, pc, srv, hubSet, backlog, hub, ghostVars>>

DrainScanned(p) ==
    /\ pc[p] = "scan"
    /\ AtLimit(p) \/ Unread(p) = {}
    /\ Goto(p, IF recs[p] = {} THEN AfterPass(p) ELSE "drainPost")
    /\ UNCHANGED <<users, batch, recs, srv, hubSet, backlog, hub, ghostVars>>

(* One turn of the delete loop, in the order of records.  The error of the *)
(* DELETE is ignored, which leaves a row the Hub has already counted.      *)
NextRec(p, r) == \A q \in recs[p] : r <= q

AfterRec(p, r) ==
    IF recs[p] = {r} THEN Return(p, AfterPass(p))
    ELSE recs' = [recs EXCEPT ![p] = @ \ {r}] /\ UNCHANGED <<pc, batch>>

(* Mutant: DELETE by user_id instead of by rowid. *)
DrainDeleteByUser(p) ==
    /\ pc[p] = "delete"
    /\ \E r \in recs[p] :
         /\ NextRec(p, r)
         /\ backlog' = [q \in {x \in DOMAIN backlog :
                                  backlog[x].id # backlog[r].id}
                          |-> backlog[q]]
         /\ AfterRec(p, r)
    /\ UNCHANGED <<users, srv, hubSet, hub, ghostVars>>

DrainDelete(p) ==
    /\ pc[p] = "delete"
    /\ \E r \in recs[p] :
         /\ NextRec(p, r)
         /\ backlog' = [q \in DOMAIN backlog \ {r} |-> backlog[q]]
         /\ unacked' = [u \in User |->
                           IF r \in DOMAIN backlog /\ backlog[r].id = u
                           THEN Minus(unacked[u], backlog[r].u)
                           ELSE unacked[u]]
         /\ AfterRec(p, r)
    /\ UNCHANGED <<users, srv, hubSet, hub, earned, lost, credits, faults,
                   restarts>>

DrainDeleteFails(p) ==
    /\ pc[p] = "delete"
    /\ Fault
    /\ \E r \in recs[p] : NextRec(p, r) /\ AfterRec(p, r)
    /\ UNCHANGED <<users, srv, hubSet, backlog, hub, earned, lost, unacked,
                   credits, restarts>>

-----------------------------------------------------------------------------
(* The goroutines of main *)

Signalled == pc["final"] # "signal"

Tick == /\ pc["ticker"] = "select"
        /\ Goto("ticker", "users")
        /\ UNCHANGED <<users, batch, recs, srv, hubSet, backlog, hub,
                       ghostVars>>

(* Mutant: the goroutine returns without closing tickerStopped. *)
TickerGone == /\ pc["ticker"] = "select"
              /\ Signalled
              /\ Goto("ticker", "exit")
              /\ UNCHANGED <<users, batch, recs, srv, hubSet, backlog, hub,
                             ghostVars>>

(* The select sees the closed channel done; with a tick pending as well it *)
(* may choose either.  The deferred close(tickerStopped) is part of it.    *)
TickerStop == /\ pc["ticker"] = "select"
              /\ Signalled
              /\ Goto("ticker", "stopped")
              /\ UNCHANGED <<users, batch, recs, srv, hubSet, backlog, hub,
                             ghostVars>>

(* SIGINT or SIGTERM arrives: close(done). *)
Signal == /\ pc["final"] = "signal"
          /\ Goto("final", "join")
          /\ UNCHANGED <<users, batch, recs, srv, hubSet, backlog, hub,
                         ghostVars>>

(* Mutant: the final flush does not wait for the periodic goroutine. *)
JoinEarly == /\ pc["final"] = "join"
             /\ Goto("final", "shutdown")
             /\ UNCHANGED <<users, batch, recs, srv, hubSet, backlog, hub,
                            ghostVars>>

(* <-tickerStopped *)
Join == /\ pc["final"] = "join"
        /\ pc["ticker"] = "stopped"
        /\ Goto("final", "shutdown")
        /\ UNCHANGED <<users, batch, recs, srv, hubSet, backlog, hub,
                       ghostVars>>

(* srv.Shutdown returns: every handler finished, or 15 seconds passed.     *)
(* The final flush runs in both cases.                                     *)
ServerShutdown ==
    /\ pc["final"] = "shutdown"
    /\ \/ srv' = "closed"
       \/ ShutdownTimeouts /\ srv' = "late"
    /\ Goto("final", "users")
    /\ UNCHANGED <<users, batch, recs, hubSet, backlog, hub, ghostVars>>

-----------------------------------------------------------------------------
(* The end of the process: RAM is gone, the tables and the Hub stay.       *)

(* Batches delivered (to the Hub or the backlog) but not yet subtracted.   *)
NotSubtracted(u) ==
    LET S(p) == IF pc[p] = "subtract" THEN At(batch[p], u) ELSE Zero
    IN Plus(S("ticker"), S("final"))

Dead == pc["final"] = "dead"

ProcessEnds ==
    /\ lost' = [u \in User |-> Plus(lost[u],
                                    Minus(At(users, u), NotSubtracted(u)))]
    /\ users' = EmptyMap
    /\ pc' = [ticker |-> "stopped", final |-> "dead"]
    /\ batch' = [p \in Flusher |-> EmptyMap]
    /\ recs' = [p \in Flusher |-> {}]
    /\ srv' = "closed"
    /\ UNCHANGED <<hubSet, backlog, hub, earned, unacked, credits, faults, restarts>>

(* main returns after <-shutdownDone. *)
Exit == pc["final"] = "exit" /\ ProcessEnds

Crash == Crashes /\ ~Dead /\ ProcessEnds

(* A new process: LoadFromDB restores the peers, never the users.          *)
Restart ==
    /\ Dead
    /\ restarts < MaxRestarts
    /\ restarts' = restarts + 1
    /\ pc' = [ticker |-> "select", final |-> "signal"]
    /\ srv' = "up"
    /\ hubSet' \in HubConfigs
    /\ UNCHANGED <<users, batch, recs, backlog, hub, earned, lost, unacked,
                   credits, faults>>

-----------------------------------------------------------------------------

PostReturns(p) == \/ PostOK(p) \/ PostRejected(p)
                  \/ PostUnreachable(p) \/ PostReplyLost(p)

PassStep(p) == \/ FlushUsersSnapshot(p) \/ PostReturns(p)
               \/ BackupUsageToDB(p) \/ BackupFails(p) \/ Subtract(p)
               \/ DrainStart(p) \/ DrainScan(p) \/ DrainScanned(p)
               \/ DrainDelete(p) \/ DrainDeleteFails(p)

Next == \/ \E u \in User, d \in Deltas : TrackUsage(u, d)
        \/ \E p \in Flusher : PassStep(p)
        \/ Tick \/ TickerStop
        \/ Signal \/ Join \/ ServerShutdown
        \/ Exit \/ Crash \/ Restart

Spec == Init /\ [][Next]_vars

(* Goroutines are scheduled, HTTP calls have timeouts and database calls   *)
(* return.  A select that finds done closed every time it runs picks it at *)
(* last (Go chooses among ready cases at random), and a Hub that is asked  *)
(* again and again answers at last.                                        *)
Fairness == /\ \A p \in Flusher : WF_vars(PassStep(p)) /\ SF_vars(PostOK(p))
            /\ WF_vars(Tick) /\ SF_vars(TickerStop)
            /\ WF_vars(Join) /\ WF_vars(ServerShutdown) /\ WF_vars(Exit)

FairSpec == Spec /\ Fairness

-----------------------------------------------------------------------------
(* Properties *)

IsUsageMap(m) == /\ m = [k \in DOMAIN m |-> m[k]]
                 /\ DOMAIN m \subseteq User
                 /\ \A k \in DOMAIN m : m[k] \in Usage

SignedUsage == [uploaded : Int, downloaded : Int]

(* The variables have the types of the Go values and SQL columns they stand *)
(* for; every byte count RAM, a batch or a row holds is non-negative, which *)
(* the Hub contract requires of what it is sent.                            *)
TypeOK ==
    /\ IsUsageMap(users)
    /\ pc \in [Flusher -> {"select", "stopped", "signal", "join", "shutdown",
                           "exit", "dead", "users", "post", "backup",
                           "subtract", "drain", "scan", "drainPost",
                           "delete"}]
    /\ DOMAIN batch = Flusher /\ \A p \in Flusher : IsUsageMap(batch[p])
    /\ recs \in [Flusher -> SUBSET RowId]
    /\ srv \in {"up", "late", "closed"}
    /\ hubSet \in BOOLEAN
    /\ DOMAIN backlog \subseteq RowId
    /\ \A r \in DOMAIN backlog : backlog[r] \in Row
    /\ hub \in [User -> Usage]
    /\ earned \in [User -> Usage]
    /\ lost \in [User -> SignedUsage]
    /\ unacked \in [User -> SignedUsage]
    /\ credits \in 0 .. MaxCredits
    /\ faults \in 0 .. MaxFaults
    /\ restarts \in 0 .. MaxRestarts

(* What FlushUsers copied before it released the lock is still in RAM when  *)
(* it takes the lock again, whatever announces and the other goroutine did  *)
(* during the POST: no live entry is nil and no subtraction goes below      *)
(* zero.  It rests on the shutdown waiting for tickerStopped.               *)
PayloadCovered ==
    \A p \in Flusher : pc[p] \in {"post", "backup", "subtract"} =>
        \A u \in DOMAIN batch[p] : /\ u \in DOMAIN users
                                   /\ Leq(batch[p][u], users[u])

(* The rows DrainBacklog read are in the table, unchanged in what they      *)
(* contribute to the batch, until it deletes them itself: DELETE by rowid   *)
(* never removes a row that was not part of the batch the Hub accepted.     *)
RowsInFlight ==
    \A p \in Flusher : pc[p] \in {"scan", "drainPost", "delete"} =>
        \A r \in recs[p] : /\ r \in DOMAIN backlog
                           /\ backlog[r].id \in DOMAIN batch[p]
                           /\ Leq(backlog[r].u, batch[p][backlog[r].id])

(* The map of users holds no entry without usage, so that it is empty       *)
(* (FlushUsers' early return) exactly when everything was handed over.      *)
NoEmptyEntry == \A u \in DOMAIN users : users[u] # Zero

(* A graceful shutdown hands over every delta it had in RAM, to the Hub or  *)
(* to the backlog.                                                          *)
ExitLosesNothing == \A u \in User : lost[u] = Zero

(* Bytes of user u in row r of the table, and in the whole table. *)
RowOf(b, u, r) == IF r \in DOMAIN b /\ b[r].id = u THEN b[r].u ELSE Zero

Sums(c) == LET upto[k \in 0 .. MaxCredits] ==
                 IF k = 0 THEN Zero ELSE Plus(upto[k - 1], c[k])
           IN upto

InBacklog(b, u) == Sums([r \in RowId |-> RowOf(b, u, r)])[MaxCredits]

(* Bytes the tracker holds, in RAM or in the table, and has to deliver. *)
Owed(u) == Minus(Plus(At(users, u), InBacklog(backlog, u)), NotSubtracted(u))

(* Every credited byte is in exactly one place: still owed, counted by the  *)
(* Hub, or lost with the RAM of a process that ended; a byte is in two      *)
(* places only if it is accounted for in unacked (an answer or a DELETE     *)
(* failed after the Hub counted it).                                        *)
Conservation ==
    \A u \in User : Plus(earned[u], unacked[u])
                      = Plus(Plus(Owed(u), hub[u]), lost[u])

(* A drained row stops being owed when the Hub counts it, not when its      *)
(* DELETE runs: unacked holds such rows in between.                         *)
Ledger == INSTANCE UsageLedger
            WITH earned <- earned,
                 owed <- [u \in User |-> Minus(Owed(u), unacked[u])],
                 paid <- hub

(* Without lost answers and failed DELETEs each credited byte is delivered  *)
(* exactly once: only an announce makes bytes owed, as many as it credits,  *)
(* and every step of the flush pass is a delivery or invisible.             *)
ExactlyOnce == Ledger!Spec

(* Once the signal arrived, the process ends. *)
ShutdownCompletes == (pc["final"] = "join") ~> Dead

(* Unless the process is stopped, RAM and backlog are handed over to the    *)
(* Hub in the end.                                                          *)
Settled == users = EmptyMap /\ DOMAIN backlog = {}
AllDelivered == <>[](Settled \/ Signalled)

=============================================================================
