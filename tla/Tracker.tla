------------------------------ MODULE Tracker ------------------------------
(***************************************************************************)
(* The swarm state of the tracker and what works on it: announce handlers  *)
(* (announce.go), registration and takedown (registry.go), the periodic    *)
(* flush and prune of the ticker goroutine (state.go, cmd/tracker/main.go) *)
(* and a restart, which reloads RAM from SQLite.                           *)
(*                                                                         *)
(* A handler runs as a sequence of SQL statements and lock sections; every *)
(* one of them is a step here, and the steps of all handlers interleave.   *)
(* A peer is its id and its age since UpdatedAt, in units of time; its     *)
(* address, Left and byte counters, which only the answer and the credit   *)
(* accounting read, are left out.                                          *)
(***************************************************************************)
EXTENDS Integers, Sequences, FiniteSets

CONSTANTS
    Hash,           \* info hashes, v1 and v2
    NoHash,         \* the empty v1_info_hash of a v2-only entry
    Peer,           \* peer ids
    Req,            \* slots for announce handlers running at the same time
    Del,            \* the DELETE requests, each with a handler of its own
    Entries,        \* <<v2, v1>> pairs that are POSTed to the registry
    PostBetween,    \* may a POST fall between a DELETE's two queries?
    OpenTracker,    \* OPEN_TRACKER=true: no registry check on announce
    Expiry,         \* PruneMemory drops a peer older than this (1 h)
    PruneEvery,     \* period of the prune ticker (30 min)
    MaxCompleted,   \* bound: completions counted per entry
    MaxFaults,      \* bound: SQL statements that fail
    MaxRestarts     \* bound: restarts of the process

ASSUME ConstantsAssumption ==
    /\ NoHash \notin Hash
    /\ Entries \subseteq Hash \X (Hash \cup {NoHash})
    /\ OpenTracker \in BOOLEAN /\ PostBetween \in BOOLEAN
    /\ Expiry \in Nat /\ PruneEvery \in Nat \ {0}
    /\ MaxCompleted \in Nat /\ MaxFaults \in Nat /\ MaxRestarts \in Nat

(* Older peers are all alike: the age stops here. *)
AgeCap == Expiry + PruneEvery + 1
Age    == 0 .. AgeCap

Event == {"none", "stopped", "completed"}

VARIABLES
    ram,        \* State.Peers: <<hash, peer>> -> age
    table,      \* table peers: <<hash, peer>> -> age
    registry,   \* table registry: v2 hash -> v1 hash and completions
    blocklist,  \* table blocklist
    req,        \* the announce handlers
    td,         \* the takedown (DELETE) handlers: pc and the slice hashes
    ticker,     \* the periodic goroutine: "select", in FlushToDB, "down"
    snap,       \* snapshot of FlushToDB
    rows,       \* FlushToDB's transaction: rows still to insert (todo) and
                \* inserted (done)
    pruneIn,    \* time until the prune ticker fires
    removed,    \* observed: hashes of the entries takedowns have deleted
    dropped,    \* observed: hashes a takedown still had to block when it
                \* failed
    reloaded,   \* observed: RAM came from the table and is not pruned since
    snapAgo,    \* observed: time since the snapshot was taken
    savedAgo,   \* observed: time since the snapshot that the table holds
    faults, restarts

dbVars    == <<table, registry, blocklist>>
flushVars == <<snap, rows, snapAgo, savedAgo>>
observed  == <<removed, dropped, reloaded>>
boundVars == <<faults, restarts>>
vars      == <<ram, dbVars, req, td, ticker, flushVars, pruneIn, observed,
               boundVars>>

-----------------------------------------------------------------------------

NoPeers == [k \in {} |-> 0]
Put(m, k, v)  == [x \in DOMAIN m \cup {k} |-> IF x = k THEN v ELSE m[x]]
Without(m, S) == [x \in DOMAIN m \ S |-> m[x]]
SwarmOf(h)    == {h} \X Peer

(* WHERE info_hash = h OR v1_info_hash = h *)
registryLookup(h) == {v2 \in DOMAIN registry : v2 = h \/ registry[v2].v1 = h}

HashesOf(v2) == {v2, registry[v2].v1} \ {NoHash}

Fault == faults < MaxFaults /\ faults' = faults + 1

Idle == [pc |-> "idle"]

NoRows == [todo |-> {}, done |-> {}]

Init == /\ ram = NoPeers /\ table = NoPeers /\ snap = NoPeers
        /\ registry = [h \in {} |-> 0]
        /\ blocklist = {}
        /\ req = [r \in Req |-> Idle]
        /\ td = [d \in Del |-> [pc |-> "new", todo |-> <<>>]]
        /\ ticker = "select" /\ rows = NoRows
        /\ pruneIn = PruneEvery
        /\ removed = {} /\ dropped = {} /\ reloaded = FALSE
        /\ snapAgo = 0 /\ savedAgo = 0
        /\ faults = 0 /\ restarts = 0

Up == ticker # "down"

(* SQLite has one writer: from its first DELETE to its COMMIT the flush    *)
(* keeps other statements from writing; they wait, or fail when they have  *)
(* waited for busy_timeout.                                                *)
Unlocked == ticker # "insert"

-----------------------------------------------------------------------------
(* Announce: HandleAnnounce has authenticated and recognised the request   *)
(* and enters executeAnnounce.                                             *)

(* late: the hash was blocked before the request arrived. *)
Announce(r) ==
    /\ Up /\ req[r].pc = "idle"
    /\ \E h \in Hash, p \in Peer, e \in Event :
         req' = [req EXCEPT ![r] = [pc |-> "blocklist", hash |-> h, peer |-> p,
                                    event |-> e, late |-> h \in blocklist]]
    /\ UNCHANGED <<ram, dbVars, td, ticker, flushVars, pruneIn, observed, boundVars>>

Finish(r)     == req' = [req EXCEPT ![r] = Idle]
Proceed(r, l) == req' = [req EXCEPT ![r].pc = l]

AfterBlocklist == IF OpenTracker THEN "apply" ELSE "registry"

(* Mutant: a blocked hash is noted, and the handler goes on. *)
CheckBlocklistIgnored(r) ==
    /\ req[r].pc = "blocklist"
    /\ Proceed(r, AfterBlocklist)
    /\ UNCHANGED <<ram, dbVars, td, ticker, flushVars, pruneIn, observed, boundVars>>

(* The blocklist query.  Its error is logged, and the hash counts as not   *)
(* blocked.                                                                *)
CheckBlocklist(r) ==
    /\ req[r].pc = "blocklist"
    /\ \/ req[r].hash \in blocklist /\ Finish(r) /\ UNCHANGED faults
       \/ /\ req[r].hash \notin blocklist
          /\ Proceed(r, AfterBlocklist)
          /\ UNCHANGED faults
       \/ Fault /\ Proceed(r, AfterBlocklist)
    /\ UNCHANGED <<ram, dbVars, td, ticker, flushVars, pruneIn, observed, restarts>>

(* Registry-only tracking; here an error of the query rejects. *)
CheckRegistry(r) ==
    /\ req[r].pc = "registry"
    /\ \/ registryLookup(req[r].hash) = {} /\ Finish(r) /\ UNCHANGED faults
       \/ Fault /\ Finish(r)
       \/ /\ registryLookup(req[r].hash) # {}
          /\ Proceed(r, "apply")
          /\ UNCHANGED faults
    /\ UNCHANGED <<ram, dbVars, td, ticker, flushVars, pruneIn, observed, restarts>>

(* RemovePeer on a stopped event, else UpdatePeer with the current time. *)
ApplyAnnounce(r) ==
    LET k == <<req[r].hash, req[r].peer>> IN
    /\ req[r].pc = "apply"
    /\ \/ /\ req[r].event = "stopped"
          /\ ram' = Without(ram, {k})
          /\ Proceed(r, "respond")
       \/ /\ req[r].event # "stopped"
          /\ ram' = Put(ram, k, 0)
          /\ Proceed(r, IF req[r].event = "completed" THEN "completed"
                        ELSE "respond")
    /\ UNCHANGED <<dbVars, td, ticker, flushVars, pruneIn, observed, boundVars>>

(* UPDATE registry SET completions = completions + 1; its error is logged. *)
CountCompletion(r) ==
    /\ req[r].pc = "completed"
    /\ Proceed(r, "respond")
    /\ \/ /\ Unlocked
          /\ registry' = [h \in DOMAIN registry |->
                IF /\ h \in registryLookup(req[r].hash)
                   /\ registry[h].completions < MaxCompleted
                THEN [registry[h] EXCEPT !.completions = @ + 1]
                ELSE registry[h]]
          /\ UNCHANGED faults
       \/ Fault /\ UNCHANGED registry
    /\ UNCHANGED <<ram, table, blocklist, td, ticker, flushVars, pruneIn, observed,
                   restarts>>

(* GetPeers, GetCounts and the answer. *)
Respond(r) ==
    /\ req[r].pc = "respond"
    /\ Finish(r)
    /\ UNCHANGED <<ram, dbVars, td, ticker, flushVars, pruneIn, observed, boundVars>>

AnnounceStep(r) == \/ CheckBlocklist(r) \/ CheckRegistry(r) \/ ApplyAnnounce(r)
                   \/ CountCompletion(r) \/ Respond(r)

-----------------------------------------------------------------------------
(* HandleScrape, for one of the hashes of the request *)

Scrape(r) ==
    /\ Up /\ req[r].pc = "idle"
    /\ \E h \in Hash :
         req' = [req EXCEPT ![r] = [pc |-> "scrape", hash |-> h,
                                    late |-> h \in blocklist]]
    /\ UNCHANGED <<ram, dbVars, td, ticker, flushVars, pruneIn, observed, boundVars>>

(* The registry row and its completions; an error is a row that is absent. *)
ScrapeRegistry(r) ==
    /\ req[r].pc = "scrape"
    /\ \/ registryLookup(req[r].hash) # {} /\ Proceed(r, "scraped") /\ UNCHANGED faults
       \/ /\ IF OpenTracker THEN Proceed(r, "scraped") ELSE Finish(r)
          /\ \/ registryLookup(req[r].hash) = {} /\ UNCHANGED faults
             \/ Fault
    /\ UNCHANGED <<ram, dbVars, td, ticker, flushVars, pruneIn, observed, restarts>>

(* A blocked hash is left out; an error counts as not blocked. *)
ScrapeBlocklist(r) ==
    /\ req[r].pc = "scraped"
    /\ \/ req[r].hash \in blocklist /\ Finish(r) /\ UNCHANGED faults
       \/ req[r].hash \notin blocklist /\ Proceed(r, "counts") /\ UNCHANGED faults
       \/ Fault /\ Proceed(r, "counts")
    /\ UNCHANGED <<ram, dbVars, td, ticker, flushVars, pruneIn, observed, restarts>>

(* GetCounts, and the entry in the answer. *)
ScrapeCounts(r) ==
    /\ req[r].pc = "counts"
    /\ Finish(r)
    /\ UNCHANGED <<ram, dbVars, td, ticker, flushVars, pruneIn, observed, boundVars>>

ScrapeStep(r) == ScrapeRegistry(r) \/ ScrapeBlocklist(r) \/ ScrapeCounts(r)

-----------------------------------------------------------------------------
(* The registry API: POST is one statement, DELETE several. *)

(* POST: one upsert.  A new v1 hash replaces the old one, completions are  *)
(* kept; the blocklist is not consulted.  A POST that fails changes        *)
(* nothing.                                                                *)
Register(e) ==
    LET v2 == e[1] IN
    /\ Up /\ Unlocked
    /\ PostBetween \/ \A d \in Del : td[d].pc # "unregister"
    /\ registry' = Put(registry, v2,
                       [v1 |-> e[2],
                        completions |-> IF v2 \in DOMAIN registry
                                        THEN registry[v2].completions ELSE 0])
    /\ UNCHANGED <<ram, table, blocklist, req, td, ticker, flushVars, pruneIn,
                   observed, boundVars>>

(* DELETE: authorised, with an info_hash.  Several may run at once, and a  *)
(* request may repeat another.                                             *)
TakedownStart(d, h) ==
    /\ Up /\ td[d].pc = "new"
    /\ td' = [td EXCEPT ![d] = [pc |-> "resolve", todo |-> <<h>>]]
    /\ UNCHANGED <<ram, dbVars, req, ticker, flushVars, pruneIn, observed, boundVars>>

Todo(d) == {td[d].todo[i] : i \in 1 .. Len(td[d].todo)}

(* The row is gone, and hashes of it may not be blocked yet. *)
Purging(d) == td[d].pc \in {"peers", "swarm", "block"}

Done(d) == td' = [td EXCEPT ![d] = [pc |-> "done", todo |-> <<>>]]

(* An SQL error: the handler answers with an error and returns. *)
TakedownFails(d) ==
    /\ Fault
    /\ Done(d)
    /\ dropped' = IF Purging(d) THEN dropped \cup Todo(d) ELSE dropped

(* Mutant: only the hash that was named is taken down. *)
TakedownNamedOnly(d) ==
    /\ td[d].pc = "resolve"
    /\ td' = [td EXCEPT ![d].pc = "unregister"]
    /\ UNCHANGED <<ram, dbVars, req, ticker, flushVars, pruneIn, observed, boundVars>>

(* Resolve one row by either hash; hashes is the named one, then the row's *)
(* other one.                                                              *)
TakedownResolve(d) ==
    LET h == td[d].todo[1] IN
    /\ td[d].pc = "resolve"
    /\ \/ /\ registryLookup(h) = {}
          /\ td' = [td EXCEPT ![d].pc = "unregister"]
          /\ UNCHANGED <<dropped, faults>>
       \/ /\ \E v2 \in registryLookup(h) :
               LET other == HashesOf(v2) \ {h} IN
               td' = [td EXCEPT ![d] =
                        [pc |-> "unregister",
                         todo |-> IF other = {} THEN <<h>>
                                  ELSE <<h, CHOOSE x \in other : TRUE>>]]
          /\ UNCHANGED <<dropped, faults>>
       \/ TakedownFails(d)
    /\ UNCHANGED <<ram, dbVars, req, ticker, flushVars, pruneIn, removed,
                   reloaded, restarts>>

(* DELETE FROM registry: every row that matches the named hash. *)
TakedownUnregister(d) ==
    LET found == registryLookup(td[d].todo[1]) IN
    /\ td[d].pc = "unregister"
    /\ \/ /\ Unlocked
          /\ registry' = Without(registry, found)
          /\ removed' = removed \cup UNION {HashesOf(v2) : v2 \in found}
          /\ td' = [td EXCEPT ![d].pc = "peers"]
          /\ UNCHANGED <<dropped, faults>>
       \/ TakedownFails(d) /\ UNCHANGED <<registry, removed>>
    /\ UNCHANGED <<ram, table, blocklist, req, ticker, flushVars, pruneIn,
                   reloaded, restarts>>

(* For each hash: its rows in peers, its swarm in RAM, its blocklist row.  *)
TakedownPeers(d) ==
    /\ td[d].pc = "peers"
    /\ \/ /\ Unlocked
          /\ table' = Without(table, SwarmOf(td[d].todo[1]))
          /\ td' = [td EXCEPT ![d].pc = "swarm"]
          /\ UNCHANGED <<dropped, faults>>
       \/ TakedownFails(d) /\ UNCHANGED table
    /\ UNCHANGED <<ram, registry, blocklist, req, ticker, flushVars, pruneIn,
                   removed, reloaded, restarts>>

TakedownSwarm(d) ==
    /\ td[d].pc = "swarm"
    /\ ram' = Without(ram, SwarmOf(td[d].todo[1]))
    /\ td' = [td EXCEPT ![d].pc = "block"]
    /\ UNCHANGED <<dbVars, req, ticker, flushVars, pruneIn, observed, boundVars>>

TakedownBlock(d) ==
    /\ td[d].pc = "block"
    /\ \/ /\ Unlocked
          /\ blocklist' = blocklist \cup {td[d].todo[1]}
          /\ IF Len(td[d].todo) = 1 THEN Done(d)
             ELSE td' = [td EXCEPT ![d] = [pc |-> "peers", todo |-> Tail(td[d].todo)]]
          /\ UNCHANGED <<dropped, faults>>
       \/ TakedownFails(d) /\ UNCHANGED blocklist
    /\ UNCHANGED <<ram, table, registry, req, ticker, flushVars, pruneIn,
                   removed, reloaded, restarts>>

TakedownStep(d) == \/ TakedownResolve(d) \/ TakedownUnregister(d)
                   \/ TakedownPeers(d) \/ TakedownSwarm(d) \/ TakedownBlock(d)

-----------------------------------------------------------------------------
(* The ticker goroutine *)

(* FlushToDB copies the peers under the read lock ... *)
FlushSnapshot ==
    /\ ticker = "select"
    /\ ticker' = "begin"
    /\ snap' = ram /\ snapAgo' = 0
    /\ UNCHANGED <<ram, dbVars, req, td, rows, savedAgo, pruneIn, observed,
                   boundVars>>

(* FlushToDB returns; a transaction that is not committed is rolled back.  *)
FlushReturns == /\ ticker' = "select"
                /\ snap' = NoPeers /\ rows' = NoRows /\ snapAgo' = 0

(* ... opens a transaction and empties the table in it, ... *)
FlushBegin ==
    /\ ticker = "begin"
    /\ \/ /\ ticker' = "insert"
          /\ rows' = [todo |-> DOMAIN snap, done |-> {}]
          /\ UNCHANGED <<snap, snapAgo, faults>>
       \/ Fault /\ FlushReturns
    /\ UNCHANGED <<ram, dbVars, req, td, savedAgo, pruneIn, observed, restarts>>

(* Mutant: a failed INSERT is logged and skipped. *)
FlushInsertSkips ==
    /\ ticker = "insert"
    /\ \E k \in rows.todo :
         \/ /\ rows' = [todo |-> rows.todo \ {k}, done |-> rows.done \cup {k}]
            /\ UNCHANGED faults
         \/ Fault /\ rows' = [rows EXCEPT !.todo = @ \ {k}]
    /\ UNCHANGED <<ram, dbVars, req, td, ticker, snap, snapAgo, savedAgo,
                   pruneIn, observed, restarts>>

(* ... inserts the peers one by one, in the order of the map, up to the    *)
(* first error, ...                                                        *)
FlushInsert ==
    /\ ticker = "insert" /\ rows.todo # {}
    /\ \/ /\ \E k \in rows.todo :
               rows' = [todo |-> rows.todo \ {k}, done |-> rows.done \cup {k}]
          /\ UNCHANGED <<ticker, snap, snapAgo, faults>>
       \/ Fault /\ FlushReturns
    /\ UNCHANGED <<ram, dbVars, req, td, savedAgo, pruneIn, observed, restarts>>

(* ... and commits, which may fail too. *)
FlushCommit ==
    /\ ticker = "insert" /\ rows.todo = {}
    /\ FlushReturns
    /\ \/ /\ table' = [k \in rows.done |-> snap[k]]
          /\ savedAgo' = snapAgo
          /\ UNCHANGED faults
       \/ Fault /\ UNCHANGED <<table, savedAgo>>
    /\ UNCHANGED <<ram, registry, blocklist, req, td, pruneIn, observed,
                   restarts>>

FlushStep == FlushBegin \/ FlushInsert \/ FlushCommit

(* Mutant: the expiry is one unit too long. *)
PruneLate ==
    /\ ticker = "select" /\ pruneIn = 0
    /\ ram' = Without(ram, {k \in DOMAIN ram : ram[k] > Expiry + 1})
    /\ pruneIn' = PruneEvery /\ reloaded' = FALSE
    /\ UNCHANGED <<dbVars, req, td, ticker, flushVars, removed, dropped, boundVars>>

(* PruneMemory: UpdatedAt < now - Expiry. *)
PruneMemory ==
    /\ ticker = "select" /\ pruneIn = 0
    /\ ram' = Without(ram, {k \in DOMAIN ram : ram[k] > Expiry})
    /\ pruneIn' = PruneEvery /\ reloaded' = FALSE
    /\ UNCHANGED <<dbVars, req, td, ticker, flushVars, removed, dropped, boundVars>>

(* Time passes, also while the process is down.  A prune that is due is    *)
(* not a whole unit of time late.                                          *)
Later(t) == IF t < AgeCap THEN t + 1 ELSE AgeCap
Older(m) == [k \in DOMAIN m |-> Later(m[k])]

Advance ==
    /\ Up => pruneIn > 0
    /\ pruneIn' = IF Up THEN pruneIn - 1 ELSE pruneIn
    /\ ram' = Older(ram) /\ table' = Older(table) /\ snap' = Older(snap)
    /\ snapAgo' = IF ticker \in {"begin", "insert"} THEN Later(snapAgo) ELSE 0
    /\ savedAgo' = Later(savedAgo)
    /\ UNCHANGED <<registry, blocklist, req, td, ticker, rows, observed, boundVars>>

(* The process ends; handlers end with it.  A graceful shutdown is a flush *)
(* followed by this.                                                       *)
Crash ==
    /\ Up /\ restarts < MaxRestarts
    /\ restarts' = restarts + 1
    /\ ticker' = "down"
    /\ ram' = NoPeers /\ snap' = NoPeers /\ rows' = NoRows /\ snapAgo' = 0
    /\ req' = [r \in Req |-> Idle]
    /\ td' = [d \in Del |-> IF td[d].pc = "new" THEN td[d]
                            ELSE [pc |-> "done", todo |-> <<>>]]
    /\ dropped' = dropped \cup UNION {Todo(d) : d \in {e \in Del : Purging(e)}}
    /\ UNCHANGED <<dbVars, savedAgo, pruneIn, removed, reloaded, faults>>

(* LoadFromDB takes every row of peers, whatever its age. *)
Restart ==
    /\ ~Up
    /\ ticker' = "select"
    /\ ram' = table
    /\ pruneIn' = PruneEvery /\ reloaded' = TRUE
    /\ UNCHANGED <<dbVars, req, td, flushVars, removed, dropped, boundVars>>

-----------------------------------------------------------------------------

Next == \/ \E r \in Req : Announce(r) \/ AnnounceStep(r) \/ Scrape(r) \/ ScrapeStep(r)
        \/ \E e \in Entries : Register(e)
        \/ \E d \in Del : (\E h \in Hash : TakedownStart(d, h)) \/ TakedownStep(d)
        \/ FlushSnapshot \/ FlushStep \/ PruneMemory \/ Advance
        \/ Crash \/ Restart

Spec == Init /\ [][Next]_vars

(* Handlers and the ticker run, clocks advance, a crashed tracker is       *)
(* started again.  Nothing obliges anyone to announce or to take down.     *)
Fairness == /\ \A r \in Req : WF_vars(AnnounceStep(r))
            /\ \A d \in Del : WF_vars(TakedownStep(d))
            /\ SF_vars(PruneMemory) /\ SF_vars(FlushSnapshot)
            /\ WF_vars(FlushStep)
            /\ WF_vars(Advance) /\ WF_vars(Restart)

FairSpec == Spec /\ Fairness

-----------------------------------------------------------------------------
(* Properties *)

IsPeerMap(m) == DOMAIN m \subseteq Hash \X Peer
                /\ \A k \in DOMAIN m : m[k] \in Age

Request == {Idle}
           \cup [pc : {"blocklist", "registry", "apply", "completed", "respond"},
                 hash : Hash, peer : Peer, event : Event, late : BOOLEAN]
           \cup [pc : {"scrape", "scraped", "counts"}, hash : Hash, late : BOOLEAN]

(* The variables have the types of the Go values and SQL columns they stand *)
(* for.                                                                     *)
TypeOK ==
    /\ IsPeerMap(ram) /\ IsPeerMap(table) /\ IsPeerMap(snap)
    /\ DOMAIN registry \subseteq Hash
    /\ \A h \in DOMAIN registry :
         registry[h] \in [v1 : Hash \cup {NoHash}, completions : 0 .. MaxCompleted]
    /\ blocklist \subseteq Hash
    /\ removed \subseteq Hash /\ dropped \subseteq Hash /\ reloaded \in BOOLEAN
    /\ req \in [Req -> Request]
    /\ td \in [Del -> [pc : {"new", "resolve", "unregister", "peers", "swarm", "block",
                             "done"},
                       todo : Seq(Hash)]]
    /\ \A d \in Del : td[d].pc \notin {"new", "done"} => Len(td[d].todo) \in 1 .. 2
    /\ ticker \in {"select", "begin", "insert", "down"}
    /\ rows.todo \subseteq DOMAIN snap /\ rows.done \subseteq DOMAIN snap
    /\ ticker # "insert" => rows = NoRows
    /\ snapAgo \in Age /\ savedAgo \in Age
    /\ pruneIn \in 0 .. PruneEvery
    /\ faults \in 0 .. MaxFaults /\ restarts \in 0 .. MaxRestarts

(* A request that arrives when its hash is already blocked, announce or     *)
(* scrape, never reaches the swarm, even when the hash is registered again, *)
(* as long as no statement has failed (a failed blocklist query lets it in).*)
BlockedRejected ==
    \A r \in Req : req[r].pc \in {"registry", "apply", "completed", "respond", "counts"}
                     => ~req[r].late \/ faults > 0

(* Both hashes of every entry that takedowns have deleted are blocked, or   *)
(* on the list of a takedown that is still at work, or were on the list of  *)
(* one that failed: no run of overlapping takedowns, of which only the      *)
(* first finds the row, forgets half of a hybrid torrent.                   *)
TakedownComplete ==
    removed \subseteq blocklist \cup dropped
                        \cup UNION {Todo(d) : d \in {e \in Del : Purging(e)}}

(* No peer stays in RAM longer than the expiry and one prune period after   *)
(* its last announce, except for those a restart has reloaded, until the    *)
(* first prune of the new process; no snapshot or takedown under way, and   *)
(* no late announce, keeps a peer from expiring.                            *)
FreshPeers == reloaded \/ \A k \in DOMAIN ram : ram[k] <= Expiry + PruneEvery

(* A crash loses only what was announced since the last flush that          *)
(* succeeded: a peer in RAM that has not announced since that flush copied  *)
(* RAM is in the table, as it is in RAM, whatever statement of a later      *)
(* flush fails.  (A takedown deletes from the table before it deletes from  *)
(* RAM.)                                                                    *)
UnderTakedown(h) == \E d \in Del : td[d].pc = "swarm" /\ td[d].todo[1] = h

CrashLosesRecent ==
    \A k \in DOMAIN ram : ram[k] > savedAgo =>
        \/ k \in DOMAIN table /\ table[k] = ram[k]
        \/ UnderTakedown(k[1])

Gone(h) == SwarmOf(h) \cap (DOMAIN ram \cup DOMAIN table) = {}

(* The swarm of a blocked hash dies out for good, in RAM and in the table:  *)
(* an announce in flight during the takedown, a snapshot taken before it    *)
(* and a restart can bring peers back, but nothing keeps them alive.        *)
BlockedDiesOut == \A h \in Hash : <>[](h \in blocklist => Gone(h))

=============================================================================
