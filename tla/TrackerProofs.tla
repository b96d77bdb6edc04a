--------------------------- MODULE TrackerProofs ---------------------------
(***************************************************************************)
(* The tracker's swarm state, for any hashes, peers and handlers, any      *)
(* expiry and prune period, and any number of failing statements and       *)
(* restarts.                                                               *)
(***************************************************************************)
EXTENDS Tracker, SequenceTheorems, TLAPS

(* The parts of TypeOK. *)
MapTypes == IsPeerMap(ram) /\ IsPeerMap(table) /\ IsPeerMap(snap)

RegistryTypes ==
    /\ DOMAIN registry \subseteq Hash
    /\ \A h \in DOMAIN registry :
         registry[h] \in [v1 : Hash \cup {NoHash}, completions : 0 .. MaxCompleted]
    /\ blocklist \subseteq Hash /\ removed \subseteq Hash

RequestTypes == req \in [Req -> Request]

TdPc == {"new", "resolve", "unregister", "peers", "swarm", "block", "done"}

TakedownTypes ==
    /\ td \in [Del -> [pc : TdPc, todo : Seq(Hash)]]
    /\ \A d \in Del : td[d].pc \notin {"new", "done"} => Len(td[d].todo) \in 1 .. 2

DroppedType == dropped \subseteq Hash

FlushTypes == /\ rows.todo \subseteq DOMAIN snap /\ rows.done \subseteq DOMAIN snap
              /\ ticker # "insert" => rows = NoRows
              /\ snapAgo \in Age /\ savedAgo \in Age

ClockTypes == /\ ticker \in {"select", "begin", "insert", "down"} /\ reloaded \in BOOLEAN
              /\ pruneIn \in 0 .. PruneEvery
              /\ faults \in 0 .. MaxFaults /\ restarts \in 0 .. MaxRestarts

Types == /\ MapTypes /\ RegistryTypes /\ RequestTypes /\ TakedownTypes /\ DroppedType
         /\ FlushTypes /\ ClockTypes

LEMMA TypeParts == TypeOK <=> Types
  BY DEF TypeOK, Types, MapTypes, RegistryTypes, RequestTypes, TakedownTypes, TdPc,
     DroppedType, FlushTypes, ClockTypes

(* A peer's age and the time to the next prune add up to no more than the  *)
(* limit.  While the process is down there is nothing in its memory.       *)
Aged ==
    /\ reloaded \/ \A k \in DOMAIN ram : ram[k] + pruneIn <= Expiry + PruneEvery
    /\ ~Up => DOMAIN ram = {} /\ \A r \in Req : req[r].pc = "idle"

(* A hash stays blocked; while no statement has failed, the query for it   *)
(* ends every late request.                                                *)
LateBlocked ==
    \A r \in Req : req[r].pc # "idle" /\ req[r].late =>
        /\ req[r].hash \in blocklist
        /\ faults = 0 => req[r].pc \in {"blocklist", "scrape", "scraped"}

(* Rows are those that were posted. *)
Entered == \A v2 \in DOMAIN registry : <<v2, registry[v2].v1>> \in Entries

(* No two entries share a hash. *)
OwnHashes == \A e, f \in Entries :
               e[1] # f[1] => e[2] # f[1] /\ (e[2] = f[2] => e[2] = NoHash)

(* What has been removed is blocked or about to be; what will be removed   *)
(* is on the handler's list.                                               *)
Taken ==
    /\ TakedownComplete
    /\ \A d \in Del : td[d].pc = "unregister" =>
         \A v2 \in registryLookup(td[d].todo[1]) : HashesOf(v2) \subseteq Todo(d)

(* What a snapshot has copied stays as it is in RAM until it is announced  *)
(* again; the transaction will hold all of it.                             *)
Snapped == ticker \in {"begin", "insert"} =>
             \A k \in DOMAIN ram : ram[k] > snapAgo =>
                 k \in DOMAIN snap /\ snap[k] = ram[k]

Written == ticker = "insert" => rows.todo \cup rows.done = DOMAIN snap

-----------------------------------------------------------------------------
(* Maps, requests and the list of a takedown *)

LEMMA MapFacts ==
    ASSUME NEW m, IsPeerMap(m)
    PROVE  /\ \A S : IsPeerMap(Without(m, S))
           /\ \A k \in Hash \X Peer : IsPeerMap(Put(m, k, 0))
           /\ IsPeerMap(Older(m))
<1> USE ConstantsAssumption DEF IsPeerMap, Age, AgeCap
<1>1. \A S : IsPeerMap(Without(m, S))
  BY DEF Without
<1>2. \A k \in Hash \X Peer : IsPeerMap(Put(m, k, 0))
  BY DEF Put
<1>3. IsPeerMap(Older(m))
  BY DEF Older, Later
<1> QED
  BY <1>1, <1>2, <1>3

LEMMA EmptyMap == IsPeerMap(NoPeers) /\ DOMAIN NoPeers = {}
  BY DEF IsPeerMap, NoPeers

(* A request that a handler works on has a hash. *)
LEMMA RequestFacts ==
    ASSUME NEW q \in Request, q.pc # "idle"
    PROVE  q.hash \in Hash /\ q.late \in BOOLEAN
  BY DEF Request, Idle

LEMMA AnnounceFacts ==
    ASSUME NEW q \in Request,
           q.pc \in {"blocklist", "registry", "apply", "completed", "respond"}
    PROVE  /\ q.peer \in Peer /\ q.event \in Event /\ q.hash \in Hash
           /\ \A l \in {"registry", "apply", "completed", "respond"} :
                [q EXCEPT !.pc = l] \in Request
  BY DEF Request, Idle

LEMMA ScrapeFacts ==
    ASSUME NEW q \in Request, q.pc \in {"scrape", "scraped", "counts"}
    PROVE  /\ q.hash \in Hash
           /\ \A l \in {"scraped", "counts"} : [q EXCEPT !.pc = l] \in Request
  BY DEF Request, Idle

(* What late says about a request that has just arrived. *)
LEMMA LateFact ==
    ASSUME NEW q, NEW h, NEW p, NEW e, NEW S,
           \/ q = [pc |-> "blocklist", hash |-> h, peer |-> p, event |-> e, late |-> h \in S]
           \/ q = [pc |-> "scrape", hash |-> h, late |-> h \in S]
    PROVE  q.late => h \in S
<1>1. ASSUME q = [pc |-> "blocklist", hash |-> h, peer |-> p, event |-> e, late |-> h \in S]
      PROVE  q.late => h \in S
  BY <1>1, Zenon
<1>2. ASSUME q = [pc |-> "scrape", hash |-> h, late |-> h \in S]
      PROVE  q.late => h \in S
  BY <1>2, Zenon
<1> QED
  BY <1>1, <1>2

LEMMA IdleFacts == Idle \in Request /\ Idle.pc = "idle"
  BY DEF Request, Idle

(* A takedown handler goes on to l with the list q. *)
Moves(d, l, q) == td' = [td EXCEPT ![d] = [pc |-> l, todo |-> q]]

LEMMA TodoFacts ==
    ASSUME TakedownTypes, NEW d \in Del, td[d].pc \notin {"new", "done"}
    PROVE  /\ td[d].todo \in Seq(Hash) /\ Len(td[d].todo) \in 1 .. 2 /\ td[d].todo[1] \in Hash
           /\ Len(td[d].todo) = 2 =>
                /\ td[d].todo[2] \in Hash /\ Tail(td[d].todo) \in Seq(Hash)
                /\ Len(Tail(td[d].todo)) = 1 /\ Tail(td[d].todo)[1] = td[d].todo[2]
<1>0. PICK s : s = td[d].todo
  OBVIOUS
<1>1. Len(s) \in 1 .. 2 /\ s \in Seq(Hash)
  BY <1>0 DEF TakedownTypes
<1>2. \A i \in 1 .. Len(s) : s[i] \in Hash
  BY <1>1, ElementOfSeq
<1>3. s[1] \in Hash
  BY <1>1, <1>2
<1>4. ASSUME Len(s) = 2
      PROVE  /\ s[2] \in Hash /\ Tail(s) \in Seq(Hash)
             /\ Len(Tail(s)) = 1 /\ Tail(s)[1] = s[2]
  <2>1. s # <<>>
    BY <1>4, EmptySeq
  <2>2. /\ Tail(s) \in Seq(Hash) /\ Len(Tail(s)) = 1
        /\ \A i \in 1 .. 1 : Tail(s)[i] = s[i + 1]
    BY <1>1, <1>4, <2>1, HeadTailProperties
  <2> QED
    BY <1>2, <1>4, <2>2
<1> QED
  BY <1>0, <1>1, <1>3, <1>4

(* The hashes of a list of one or two. *)
LEMMA TodoIs ==
    ASSUME NEW s, NEW n \in 1 .. 2, Len(s) = n
    PROVE  {s[i] : i \in 1 .. Len(s)} = IF n = 1 THEN {s[1]} ELSE {s[1], s[2]}
  OBVIOUS

Short(q) == Len(q) \in 1 .. 2

LEMMA MoveFacts ==
    ASSUME TakedownTypes, NEW d \in Del, NEW q \in Seq(Hash), Short(q),
           NEW l \in {"resolve", "unregister", "peers", "swarm", "block"}, Moves(d, l, q)
    PROVE  /\ TakedownTypes' /\ td'[d].pc = l /\ td'[d].todo = q
           /\ \A e \in Del : e # d => td'[e] = td[e]
<1>1. td'[d].pc = l /\ td'[d].todo = q
  BY DEF Moves, TakedownTypes
<1>2. \A e \in Del : e # d => td'[e] = td[e]
  BY DEF Moves, TakedownTypes
<1>3. [pc |-> l, todo |-> q] \in [pc : TdPc, todo : Seq(Hash)]
  BY DEF TdPc
<1>4. td' \in [Del -> [pc : TdPc, todo : Seq(Hash)]]
  BY <1>3 DEF Moves, TakedownTypes
<1> QED
  BY <1>1, <1>2, <1>4 DEF TakedownTypes, Short

LEMMA EndFacts ==
    ASSUME TakedownTypes, NEW d \in Del, Moves(d, "done", <<>>)
    PROVE  TakedownTypes' /\ td'[d].pc = "done"
<1>1. td'[d].pc = "done" /\ \A e \in Del : e # d => td'[e] = td[e]
  BY DEF Moves, TakedownTypes
<1>2. [pc |-> "done", todo |-> <<>>] \in [pc : TdPc, todo : Seq(Hash)]
  BY EmptySeq DEF TdPc
<1>3. td' \in [Del -> [pc : TdPc, todo : Seq(Hash)]]
  BY <1>2 DEF Moves, TakedownTypes
<1> QED
  BY <1>1, <1>3 DEF TakedownTypes

(* EXCEPT on the pc alone keeps the list. *)
LEMMA PcMoves ==
    ASSUME TakedownTypes, NEW d \in Del, NEW l, td' = [td EXCEPT ![d].pc = l]
    PROVE  Moves(d, l, td[d].todo)
<1>1. PICK v : v = td[d]
  OBVIOUS
<1>2. v \in [pc : TdPc, todo : Seq(Hash)]
  BY <1>1 DEF TakedownTypes
<1>3. [v EXCEPT !.pc = l] = [pc |-> l, todo |-> v.todo]
  BY <1>2
<1>4. td' = [td EXCEPT ![d] = [v EXCEPT !.pc = l]]
  BY <1>1
<1> QED
  BY <1>1, <1>3, <1>4 DEF Moves

(* The steps of a takedown. *)
LEMMA TakedownCases ==
    ASSUME TakedownTypes, RegistryTypes, NEW d \in Del, TakedownStep(d)
    PROVE  /\ td[d].pc \notin {"new", "done"}
           /\ \/ TakedownFails(d)
              \/ /\ td[d].pc = "resolve" /\ UNCHANGED <<registry, blocklist, removed, dropped>>
                 /\ registryLookup(td[d].todo[1]) = {}
                 /\ Moves(d, "unregister", td[d].todo)
              \/ /\ td[d].pc = "resolve" /\ UNCHANGED <<registry, blocklist, removed, dropped>>
                 /\ \E v2 \in registryLookup(td[d].todo[1]) :
                      \/ /\ HashesOf(v2) \ {td[d].todo[1]} = {}
                         /\ Moves(d, "unregister", <<td[d].todo[1]>>)
                      \/ \E x \in HashesOf(v2) \ {td[d].todo[1]} :
                            Moves(d, "unregister", <<td[d].todo[1], x>>)
              \/ /\ td[d].pc = "unregister" /\ TakedownUnregister(d)
                 /\ UNCHANGED <<blocklist, dropped>>
                 /\ registry' = Without(registry, registryLookup(td[d].todo[1]))
                 /\ removed' = removed \cup UNION {HashesOf(v2) : v2 \in registryLookup(td[d].todo[1])}
                 /\ Moves(d, "peers", td[d].todo)
              \/ /\ td[d].pc = "peers" /\ UNCHANGED <<registry, blocklist, removed, dropped>>
                 /\ Moves(d, "swarm", td[d].todo)
              \/ /\ td[d].pc = "swarm" /\ UNCHANGED <<registry, blocklist, removed, dropped>>
                 /\ Moves(d, "block", td[d].todo)
              \/ /\ td[d].pc = "block" /\ UNCHANGED <<registry, removed, dropped>>
                 /\ blocklist' = blocklist \cup {td[d].todo[1]}
                 /\ \/ Len(td[d].todo) = 1 /\ Moves(d, "done", <<>>)
                    \/ Len(td[d].todo) = 2 /\ Moves(d, "peers", Tail(td[d].todo))
<1> USE DEF dbVars, flushVars, observed, boundVars
<1>0. td[d].pc \notin {"new", "done"}
  BY DEF TakedownStep, TakedownResolve, TakedownUnregister, TakedownPeers, TakedownSwarm,
     TakedownBlock
<1>1. CASE TakedownFails(d)
  BY <1>0, <1>1
<1>2. CASE TakedownResolve(d) /\ ~TakedownFails(d)
  <2> DEFINE h == td[d].todo[1]
  <2>1. td[d].pc = "resolve" /\ UNCHANGED <<registry, blocklist, removed, dropped>>
    BY <1>2 DEF TakedownResolve
  <2>2. CASE registryLookup(h) = {} /\ td' = [td EXCEPT ![d].pc = "unregister"]
    BY <1>0, <2>1, <2>2, PcMoves
  <2>3. ASSUME NEW v2 \in registryLookup(h),
               td' = [td EXCEPT ![d] = [pc |-> "unregister",
                        todo |-> IF HashesOf(v2) \ {h} = {} THEN <<h>>
                                 ELSE <<h, CHOOSE x \in HashesOf(v2) \ {h} : TRUE>>]]
        PROVE  \/ HashesOf(v2) \ {h} = {} /\ Moves(d, "unregister", <<h>>)
               \/ \E x \in HashesOf(v2) \ {h} : Moves(d, "unregister", <<h, x>>)
    <3>1. CASE HashesOf(v2) \ {h} = {}
      BY <2>3, <3>1 DEF Moves
    <3>2. CASE HashesOf(v2) \ {h} # {}
      <4>1. PICK x \in HashesOf(v2) \ {h} : x = CHOOSE y \in HashesOf(v2) \ {h} : TRUE
        BY <3>2
      <4>2. Moves(d, "unregister", <<h, x>>)
        BY <2>3, <3>2, <4>1 DEF Moves
      <4> QED
        BY <4>2
    <3> QED
      BY <3>1, <3>2
  <2> QED
    BY <1>0, <1>2, <2>1, <2>2, <2>3 DEF TakedownResolve
<1>3. CASE TakedownUnregister(d) /\ ~TakedownFails(d)
  <2>1. td' = [td EXCEPT ![d].pc = "peers"]
    BY <1>3 DEF TakedownUnregister
  <2> QED
    BY <1>0, <1>3, <2>1, PcMoves DEF TakedownUnregister
<1>4. CASE TakedownPeers(d) /\ ~TakedownFails(d)
  <2>1. td' = [td EXCEPT ![d].pc = "swarm"]
    BY <1>4 DEF TakedownPeers
  <2> QED
    BY <1>0, <1>4, <2>1, PcMoves DEF TakedownPeers
<1>5. CASE TakedownSwarm(d)
  <2>1. td' = [td EXCEPT ![d].pc = "block"]
    BY <1>5 DEF TakedownSwarm
  <2> QED
    BY <1>0, <1>5, <2>1, PcMoves DEF TakedownSwarm
<1>6. CASE TakedownBlock(d) /\ ~TakedownFails(d)
  <2>1. Len(td[d].todo) \in 1 .. 2
    BY <1>0, TodoFacts
  <2>2. \/ Len(td[d].todo) = 1 /\ Moves(d, "done", <<>>)
        \/ Len(td[d].todo) = 2 /\ Moves(d, "peers", Tail(td[d].todo))
    BY <1>6, <2>1 DEF TakedownBlock, Done, Moves
  <2> QED
    BY <1>0, <1>6, <2>2 DEF TakedownBlock
<1> QED
  BY <1>1, <1>2, <1>3, <1>4, <1>5, <1>6 DEF TakedownStep

-----------------------------------------------------------------------------
(* Types *)

LEMMA InitType == Init => TypeOK
<1> SUFFICES ASSUME Init
             PROVE  Types
  BY TypeParts
<1> USE ConstantsAssumption DEF Init
<1>1. MapTypes
  BY EmptyMap DEF MapTypes
<1>2. RegistryTypes
  BY DEF RegistryTypes
<1>3. RequestTypes
  BY IdleFacts DEF RequestTypes
<1>4. TakedownTypes
  <2>1. <<>> \in Seq(Hash)
    BY EmptySeq
  <2>2. [pc |-> "new", todo |-> <<>>] \in [pc : TdPc, todo : Seq(Hash)]
    BY <2>1 DEF TdPc
  <2> QED
    BY <2>2 DEF TakedownTypes
<1>6. DroppedType /\ FlushTypes
  <2>1. 0 \in Age
    BY DEF Age, AgeCap
  <2> QED
    BY <2>1 DEF DroppedType, FlushTypes, NoRows
<1>5. ClockTypes
  <2>1. /\ pruneIn \in 0 .. PruneEvery /\ faults \in 0 .. MaxFaults
        /\ restarts \in 0 .. MaxRestarts /\ ticker = "select" /\ reloaded = FALSE
    OBVIOUS
  <2> HIDE DEF Init
  <2> QED
    BY <2>1, Zenon DEF ClockTypes
<1> QED
  BY <1>1, <1>2, <1>3, <1>4, <1>5, <1>6 DEF Types

(* Every step of a takedown leaves its handler in a state of its own.      *)
LEMMA TakedownType ==
    ASSUME TakedownTypes, RegistryTypes, NEW d \in Del, TakedownStep(d)
    PROVE  TakedownTypes'
<1>1. /\ td[d].todo \in Seq(Hash) /\ Len(td[d].todo) \in 1 .. 2 /\ td[d].todo[1] \in Hash
      /\ Len(td[d].todo) = 2 => Tail(td[d].todo) \in Seq(Hash) /\ Len(Tail(td[d].todo)) = 1
  BY TodoFacts, TakedownCases
<1>2. CASE Moves(d, "done", <<>>)
  BY <1>2, EndFacts
<1>3. ASSUME NEW l \in {"unregister", "peers", "swarm", "block"}, NEW q \in Seq(Hash), Short(q),
             Moves(d, l, q)
      PROVE  TakedownTypes'
  BY <1>3, MoveFacts
<1>4. /\ Short(td[d].todo)
      /\ Len(td[d].todo) = 2 => Short(Tail(td[d].todo))
  BY <1>1 DEF Short
<1>5. Short(<<td[d].todo[1]>>) /\ <<td[d].todo[1]>> \in Seq(Hash)
  BY <1>1 DEF Short
<1>6. ASSUME NEW v2 \in registryLookup(td[d].todo[1]), NEW x \in HashesOf(v2)
      PROVE  Short(<<td[d].todo[1], x>>) /\ <<td[d].todo[1], x>> \in Seq(Hash)
  <2>1. x \in Hash
    BY <1>6 DEF registryLookup, HashesOf, RegistryTypes
  <2> QED
    BY <1>1, <2>1 DEF Short
<1>7. CASE TakedownFails(d)
  BY <1>2, <1>7 DEF TakedownFails, Done, Moves
<1> QED
  BY <1>1, <1>2, <1>3, <1>4, <1>5, <1>6, <1>7, TakedownCases

LEMMA MapStep == TypeOK /\ [Next]_vars => MapTypes'
<1> SUFFICES ASSUME TypeOK, [Next]_vars PROVE MapTypes'
  OBVIOUS
<1> USE DEF dbVars, flushVars, observed, boundVars
<1>0. MapTypes /\ RequestTypes
  BY TypeParts DEF Types
<1>1. ASSUME NEW r \in Req, ApplyAnnounce(r) PROVE MapTypes'
  <2>1. <<req[r].hash, req[r].peer>> \in Hash \X Peer
    BY <1>0, <1>1, AnnounceFacts DEF ApplyAnnounce, RequestTypes
  <2>2. IsPeerMap(ram')
    BY <1>0, <1>1, <2>1, MapFacts DEF ApplyAnnounce, MapTypes
  <2> QED
    BY <1>0, <1>1, <2>2 DEF ApplyAnnounce, MapTypes
<1>2. ASSUME NEW d \in Del, TakedownPeers(d) \/ TakedownSwarm(d) PROVE MapTypes'
  BY <1>0, <1>2, MapFacts DEF TakedownPeers, TakedownSwarm, MapTypes
<1>6. CASE PruneMemory
  BY <1>0, <1>6, MapFacts DEF PruneMemory, MapTypes
<1>3. CASE FlushSnapshot \/ FlushBegin \/ FlushInsert \/ Crash \/ Restart
  BY <1>0, <1>3, EmptyMap DEF FlushSnapshot, FlushBegin, FlushInsert, FlushReturns, Crash,
     Restart, MapTypes
<1>7. CASE FlushCommit
  <2>1. rows.done \subseteq DOMAIN snap
    BY TypeParts DEF Types, FlushTypes
  <2>2. IsPeerMap([k \in rows.done |-> snap[k]])
    BY <1>0, <2>1 DEF MapTypes, IsPeerMap
  <2> QED
    BY <1>0, <1>7, <2>2, EmptyMap DEF FlushCommit, FlushReturns, MapTypes
<1>4. CASE Advance
  BY <1>0, <1>4, MapFacts DEF Advance, MapTypes
<1>5. CASE UNCHANGED <<ram, table, snap>>
  BY <1>0, <1>5 DEF MapTypes
<1> QED
  BY <1>1, <1>2, <1>3, <1>4, <1>5, <1>6, <1>7
  DEF Next, AnnounceStep, ScrapeStep, TakedownStep, TakedownFails, Done, Announce, CheckBlocklist, CheckRegistry,
      CountCompletion, Respond, Scrape, ScrapeRegistry, ScrapeBlocklist, ScrapeCounts,
      Register, TakedownStart, TakedownResolve, TakedownUnregister, TakedownBlock, FlushStep, vars

LEMMA RegistryStep == TypeOK /\ [Next]_vars => RegistryTypes'
<1> SUFFICES ASSUME TypeOK, [Next]_vars PROVE RegistryTypes'
  OBVIOUS
<1> USE DEF dbVars, flushVars, observed, boundVars
<1>0. RegistryTypes /\ TakedownTypes
  BY TypeParts DEF Types
<1>1. ASSUME NEW r \in Req, CountCompletion(r) PROVE RegistryTypes'
  <2>1. CASE UNCHANGED registry
    BY <1>0, <1>1, <2>1 DEF CountCompletion, RegistryTypes
  <2>2. CASE registry' = [h \in DOMAIN registry |->
                IF /\ h \in registryLookup(req[r].hash)
                   /\ registry[h].completions < MaxCompleted
                THEN [registry[h] EXCEPT !.completions = @ + 1]
                ELSE registry[h]]
    <3>1. ASSUME NEW h \in DOMAIN registry, registry[h].completions < MaxCompleted
          PROVE  [registry[h] EXCEPT !.completions = @ + 1]
                   \in [v1 : Hash \cup {NoHash}, completions : 0 .. MaxCompleted]
      <4>1. registry[h] \in [v1 : Hash \cup {NoHash}, completions : 0 .. MaxCompleted]
        BY <1>0 DEF RegistryTypes
      <4> QED
        BY <3>1, <4>1, ConstantsAssumption
    <3>2. \A h \in DOMAIN registry :
            registry'[h] \in [v1 : Hash \cup {NoHash}, completions : 0 .. MaxCompleted]
      BY <1>0, <2>2, <3>1 DEF RegistryTypes
    <3>3. DOMAIN registry' = DOMAIN registry
      BY <2>2
    <3> QED
      BY <1>0, <1>1, <3>2, <3>3 DEF CountCompletion, RegistryTypes
  <2> QED
    BY <1>1, <2>1, <2>2 DEF CountCompletion
<1>2. ASSUME NEW e \in Entries, Register(e) PROVE RegistryTypes'
  <2>1. e[1] \in Hash /\ e[2] \in Hash \cup {NoHash}
    BY ConstantsAssumption
  <2>2. 0 \in 0 .. MaxCompleted
    BY ConstantsAssumption
  <2>3. [v1 |-> e[2], completions |-> IF e[1] \in DOMAIN registry
                                      THEN registry[e[1]].completions ELSE 0]
          \in [v1 : Hash \cup {NoHash}, completions : 0 .. MaxCompleted]
    BY <1>0, <2>1, <2>2 DEF RegistryTypes
  <2> QED
    BY <1>0, <1>2, <2>1, <2>3 DEF Register, Put, RegistryTypes
<1>3. ASSUME NEW d \in Del, TakedownUnregister(d) PROVE RegistryTypes'
  <2>1. UNION {HashesOf(v2) : v2 \in registryLookup(td[d].todo[1])} \subseteq Hash
    BY <1>0 DEF registryLookup, HashesOf, RegistryTypes
  <2> QED
    BY <1>0, <1>3, <2>1 DEF TakedownUnregister, Without, RegistryTypes
<1>4. ASSUME NEW d \in Del, TakedownBlock(d) PROVE RegistryTypes'
  <2>1. td[d].todo[1] \in Hash
    BY <1>0, <1>4, TodoFacts DEF TakedownBlock
  <2> QED
    BY <1>0, <1>4, <2>1 DEF TakedownBlock, RegistryTypes
<1>5. CASE UNCHANGED <<registry, blocklist, removed>>
  BY <1>0, <1>5 DEF RegistryTypes
<1> QED
  BY <1>1, <1>2, <1>3, <1>4, <1>5
  DEF Next, AnnounceStep, ScrapeStep, TakedownStep, TakedownFails, Done, Announce, CheckBlocklist, CheckRegistry,
      ApplyAnnounce, Respond, Scrape, ScrapeRegistry, ScrapeBlocklist, ScrapeCounts,
      TakedownStart, TakedownResolve, TakedownPeers, TakedownSwarm, FlushSnapshot,
      FlushStep, FlushBegin, FlushInsert, FlushCommit, FlushReturns, PruneMemory, Advance, Crash, Restart, vars

LEMMA RequestStep == TypeOK /\ [Next]_vars => RequestTypes'
<1> SUFFICES ASSUME TypeOK, [Next]_vars PROVE RequestTypes'
  OBVIOUS
<1> USE DEF dbVars, flushVars, observed, boundVars
<1>0. req \in [Req -> Request]
  BY TypeParts DEF Types, RequestTypes
<1>1. ASSUME NEW r \in Req, Announce(r) PROVE RequestTypes'
  BY <1>0, <1>1 DEF Announce, RequestTypes, Request
<1>2. ASSUME NEW r \in Req, Scrape(r) PROVE RequestTypes'
  BY <1>0, <1>2 DEF Scrape, RequestTypes, Request
<1>3. ASSUME NEW r \in Req, Finish(r) PROVE RequestTypes'
  BY <1>0, <1>3, IdleFacts DEF Finish, RequestTypes
<1>4. ASSUME NEW r \in Req, NEW l, Proceed(r, l), [req[r] EXCEPT !.pc = l] \in Request
      PROVE  RequestTypes'
  <2>1. req' = [req EXCEPT ![r] = [req[r] EXCEPT !.pc = l]]
    BY <1>4 DEF Proceed
  <2> QED
    BY <1>0, <1>4, <2>1 DEF RequestTypes
<1>5. ASSUME NEW r \in Req, AnnounceStep(r) PROVE RequestTypes'
  <2>1. CASE Finish(r)
    BY <1>3, <2>1
  <2>2. ASSUME NEW l \in {"registry", "apply", "completed", "respond"}, Proceed(r, l)
        PROVE  RequestTypes'
    <3>1. req[r].pc \in {"blocklist", "registry", "apply", "completed", "respond"}
      BY <1>5 DEF AnnounceStep, CheckBlocklist, CheckRegistry, ApplyAnnounce,
         CountCompletion, Respond
    <3>2. [req[r] EXCEPT !.pc = l] \in Request
      BY <1>0, <3>1, AnnounceFacts
    <3> QED
      BY <1>4, <2>2, <3>2
  <2>3. AfterBlocklist \in {"registry", "apply"}
    BY DEF AfterBlocklist
  <2> QED
    BY <1>5, <2>1, <2>2, <2>3 DEF AnnounceStep, CheckBlocklist, CheckRegistry, ApplyAnnounce,
       CountCompletion, Respond
<1>6. ASSUME NEW r \in Req, ScrapeStep(r) PROVE RequestTypes'
  <2>1. CASE Finish(r)
    BY <1>3, <2>1
  <2>2. ASSUME NEW l \in {"scraped", "counts"}, Proceed(r, l)
        PROVE  RequestTypes'
    <3>1. req[r].pc \in {"scrape", "scraped", "counts"}
      BY <1>6 DEF ScrapeStep, ScrapeRegistry, ScrapeBlocklist, ScrapeCounts
    <3>2. [req[r] EXCEPT !.pc = l] \in Request
      BY <1>0, <3>1, ScrapeFacts
    <3> QED
      BY <1>4, <2>2, <3>2
  <2> QED
    BY <1>6, <2>1, <2>2 DEF ScrapeStep, ScrapeRegistry, ScrapeBlocklist, ScrapeCounts
<1>7. CASE Crash
  BY <1>7, IdleFacts DEF Crash, RequestTypes
<1>8. CASE UNCHANGED req
  BY <1>0, <1>8 DEF RequestTypes
<1> QED
  BY <1>1, <1>2, <1>5, <1>6, <1>7, <1>8
  DEF Next, TakedownStep, TakedownFails, Done, Register, TakedownStart, TakedownResolve, TakedownUnregister,
      TakedownPeers, TakedownSwarm, TakedownBlock, FlushSnapshot, FlushStep, FlushBegin, FlushInsert, FlushCommit, FlushReturns, PruneMemory,
      Advance, Restart, vars

LEMMA ClockStep == TypeOK /\ [Next]_vars => ClockTypes'
<1> SUFFICES ASSUME TypeOK, [Next]_vars PROVE ClockTypes'
  OBVIOUS
<1> USE DEF dbVars, flushVars, observed, boundVars
<1>0. ClockTypes
  BY TypeParts DEF Types
<1>1. CASE UNCHANGED <<ticker, reloaded, pruneIn, restarts>> /\ (UNCHANGED faults \/ Fault)
  BY <1>0, <1>1, ConstantsAssumption DEF ClockTypes, Fault
<1>2. CASE FlushSnapshot
  BY <1>0, <1>2 DEF FlushSnapshot, ClockTypes
<1>3. CASE FlushStep
  BY <1>0, <1>3, ConstantsAssumption DEF FlushStep, FlushBegin, FlushInsert, FlushCommit,
     FlushReturns, Fault, ClockTypes
<1>4. CASE PruneMemory \/ Restart
  <2>1. /\ pruneIn' = PruneEvery /\ ticker' = "select" /\ UNCHANGED <<faults, restarts>>
        /\ reloaded' = FALSE \/ reloaded' = TRUE
    BY <1>4 DEF PruneMemory, Restart
  <2>2. pruneIn' \in 0 .. PruneEvery
    BY <2>1, ConstantsAssumption
  <2>3. reloaded' \in BOOLEAN
    BY <2>1, Zenon
  <2> QED
    BY <1>0, <2>1, <2>2, <2>3 DEF ClockTypes
<1>5. CASE Advance
  BY <1>0, <1>5, ConstantsAssumption DEF Advance, Up, ClockTypes
<1>6. CASE Crash
  BY <1>0, <1>6, ConstantsAssumption DEF Crash, ClockTypes
<1> QED
  BY <1>1, <1>2, <1>3, <1>4, <1>5, <1>6
  DEF Next, AnnounceStep, ScrapeStep, TakedownStep, TakedownFails, Done, Announce, CheckBlocklist, CheckRegistry,
      ApplyAnnounce, CountCompletion, Respond, Scrape, ScrapeRegistry, ScrapeBlocklist,
      ScrapeCounts, Register, TakedownStart, TakedownResolve, TakedownUnregister,
      TakedownPeers, TakedownSwarm, TakedownBlock, vars

LEMMA DroppedStep == TypeOK /\ [Next]_vars => DroppedType'
<1> SUFFICES ASSUME TypeOK, [Next]_vars PROVE DroppedType'
  OBVIOUS
<1> USE DEF dbVars, flushVars, observed, boundVars
<1>0. TakedownTypes /\ DroppedType
  BY TypeParts DEF Types
<1>1. \A d \in Del : Todo(d) \subseteq Hash
  <2> SUFFICES ASSUME NEW d \in Del, NEW i \in 1 .. Len(td[d].todo) PROVE td[d].todo[i] \in Hash
    BY DEF Todo
  <2>1. td[d].todo \in Seq(Hash)
    BY <1>0 DEF TakedownTypes
  <2> QED
    BY <2>1, ElementOfSeq
<1>2. ASSUME NEW d \in Del, TakedownFails(d) PROVE DroppedType'
  BY <1>0, <1>1, <1>2 DEF TakedownFails, DroppedType
<1>3. CASE Crash
  BY <1>0, <1>1, <1>3 DEF Crash, DroppedType
<1>4. CASE UNCHANGED dropped
  BY <1>0, <1>4 DEF DroppedType
<1> QED
  BY <1>2, <1>3, <1>4
  DEF Next, AnnounceStep, ScrapeStep, TakedownStep, Announce, CheckBlocklist, CheckRegistry,
      ApplyAnnounce, CountCompletion, Respond, Scrape, ScrapeRegistry, ScrapeBlocklist,
      ScrapeCounts, Register, TakedownStart, TakedownResolve, TakedownUnregister,
      TakedownPeers, TakedownSwarm, TakedownBlock, FlushSnapshot, FlushStep, FlushBegin,
      FlushInsert, FlushCommit, FlushReturns, PruneMemory, Advance, Restart, vars

LEMMA AgeFacts == 0 \in Age /\ \A t \in Age : Later(t) \in Age
  BY ConstantsAssumption DEF Age, AgeCap, Later

LEMMA FlushTypeStep == TypeOK /\ [Next]_vars => FlushTypes'
<1> SUFFICES ASSUME TypeOK, [Next]_vars PROVE FlushTypes'
  OBVIOUS
<1> USE DEF dbVars, flushVars, observed, boundVars
<1>0. FlushTypes
  BY TypeParts DEF Types
<1>1. CASE FlushSnapshot
  <2>1. rows' = rows /\ snapAgo' = 0 /\ savedAgo' = savedAgo /\ ticker = "select"
    BY <1>1 DEF FlushSnapshot
  <2> QED
    BY <1>0, <1>1, <2>1, AgeFacts DEF FlushSnapshot, FlushTypes, NoRows
<1>2. CASE FlushReturns /\ (savedAgo' = savedAgo \/ savedAgo' = snapAgo)
  BY <1>0, <1>2, AgeFacts DEF FlushReturns, FlushTypes, NoRows
<1>3. CASE FlushBegin /\ ~FlushReturns
  BY <1>0, <1>3 DEF FlushBegin, FlushTypes
<1>4. CASE FlushInsert /\ ~FlushReturns
  BY <1>0, <1>4 DEF FlushInsert, FlushTypes
<1>5. CASE Advance
  <2>1. DOMAIN snap' = DOMAIN snap /\ rows' = rows /\ ticker' = ticker
    BY <1>5 DEF Advance, Older
  <2>2. snapAgo' \in Age /\ savedAgo' \in Age
    BY <1>0, <1>5, AgeFacts DEF Advance, FlushTypes
  <2> QED
    BY <1>0, <2>1, <2>2 DEF FlushTypes
<1>6. CASE Crash
  BY <1>0, <1>6, AgeFacts DEF Crash, FlushTypes, NoRows
<1>7. CASE UNCHANGED <<snap, rows, snapAgo, savedAgo, ticker>>
  BY <1>0, <1>7 DEF FlushTypes
<1>8. CASE Restart
  BY <1>0, <1>8 DEF Restart, Up, FlushTypes
<1> QED
  BY <1>1, <1>2, <1>3, <1>4, <1>5, <1>6, <1>7, <1>8
  DEF Next, AnnounceStep, ScrapeStep, TakedownStep, Announce, CheckBlocklist, CheckRegistry,
      ApplyAnnounce, CountCompletion, Respond, Scrape, ScrapeRegistry, ScrapeBlocklist,
      ScrapeCounts, Register, TakedownStart, TakedownResolve, TakedownUnregister,
      TakedownPeers, TakedownSwarm, TakedownBlock, FlushStep, FlushBegin,
      FlushInsert, FlushCommit, PruneMemory, vars

LEMMA TypeStep == TypeOK /\ [Next]_vars => TypeOK'
<1> SUFFICES ASSUME TypeOK, [Next]_vars PROVE TakedownTypes'
  BY MapStep, RegistryStep, RequestStep, DroppedStep, FlushTypeStep, ClockStep
  DEF TypeOK, MapTypes, RegistryTypes, RequestTypes, TakedownTypes, TdPc, DroppedType,
      FlushTypes, ClockTypes
<1> USE DEF dbVars, flushVars, observed, boundVars
<1>0. TakedownTypes /\ RegistryTypes
  BY TypeParts DEF Types
<1>1. ASSUME NEW d \in Del, TakedownStep(d) PROVE TakedownTypes'
  BY <1>0, <1>1, TakedownType
<1>2. ASSUME NEW d \in Del, NEW h \in Hash, TakedownStart(d, h) PROVE TakedownTypes'
  <2>1. <<h>> \in Seq(Hash) /\ Len(<<h>>) = 1
    OBVIOUS
  <2>2. Moves(d, "resolve", <<h>>)
    BY <1>2 DEF TakedownStart, Moves
  <2>3. Short(<<h>>)
    BY <2>1 DEF Short
  <2> QED
    BY <1>0, <2>1, <2>2, <2>3, MoveFacts
<1>3. CASE Crash
  <2>1. <<>> \in Seq(Hash)
    BY EmptySeq
  <2>2. [pc |-> "done", todo |-> <<>>] \in [pc : TdPc, todo : Seq(Hash)]
    BY <2>1 DEF TdPc
  <2>3. td' = [d \in Del |-> IF td[d].pc = "new" THEN td[d] ELSE [pc |-> "done", todo |-> <<>>]]
    BY <1>3 DEF Crash
  <2>4. td' \in [Del -> [pc : TdPc, todo : Seq(Hash)]]
    BY <1>0, <2>2, <2>3 DEF TakedownTypes
  <2>5. \A d \in Del : td'[d].pc \in {"new", "done"}
    BY <2>3
  <2> QED
    BY <2>4, <2>5 DEF TakedownTypes
<1>4. CASE UNCHANGED td
  BY <1>0, <1>4 DEF TakedownTypes
<1> QED
  BY <1>1, <1>2, <1>3, <1>4
  DEF Next, AnnounceStep, ScrapeStep, Announce, CheckBlocklist, CheckRegistry, ApplyAnnounce,
      CountCompletion, Respond, Scrape, ScrapeRegistry, ScrapeBlocklist, ScrapeCounts,
      Register, FlushSnapshot, FlushStep, FlushBegin, FlushInsert, FlushCommit, FlushReturns,
      PruneMemory, Advance, Restart, vars

(* The variables keep the types of the Go values and SQL columns, whatever *)
(* handlers run at once and whatever fails.                                *)
THEOREM TypeCorrect == Spec => []TypeOK
  BY InitType, TypeStep, PTL DEF Spec

-----------------------------------------------------------------------------
(* Expiry *)

LEMMA InitAged == Init => Aged
  BY EmptyMap, ConstantsAssumption DEF Init, Aged, Up

LEMMA AgedStep == TypeOK /\ Aged /\ [Next]_vars => Aged'
<1> SUFFICES ASSUME TypeOK, Aged, [Next]_vars PROVE Aged'
  OBVIOUS
<1> USE DEF dbVars, flushVars, observed, boundVars
<1>0. /\ IsPeerMap(ram) /\ ClockTypes /\ RequestTypes
      /\ Expiry \in Nat /\ PruneEvery \in Nat
      /\ pruneIn \in 0 .. PruneEvery
      /\ \A k \in DOMAIN ram : ram[k] \in 0 .. AgeCap
  BY TypeParts, ConstantsAssumption DEF Types, MapTypes, IsPeerMap, ClockTypes, Age
<1>1. ASSUME NEW r \in Req, Announce(r) \/ Scrape(r) PROVE Aged'
  BY <1>1 DEF Announce, Scrape, Aged, Up
<1>u. ASSUME NEW r \in Req, req[r].pc # "idle" PROVE Up
  BY <1>u DEF Aged
<1>2. ASSUME NEW r \in Req, ApplyAnnounce(r) PROVE Aged'
  <2>1. Up /\ UNCHANGED <<ticker, reloaded, pruneIn>>
    BY <1>2, <1>u DEF ApplyAnnounce
  <2>2. Up'
    BY <2>1 DEF Up
  <2>3. \A k \in DOMAIN ram' : ram'[k] = 0 \/ (k \in DOMAIN ram /\ ram'[k] = ram[k])
    BY <1>2 DEF ApplyAnnounce, Put, Without
  <2>4. reloaded' \/ \A k \in DOMAIN ram' : ram'[k] + pruneIn' <= Expiry + PruneEvery
    BY <1>0, <2>1, <2>3 DEF Aged
  <2> QED
    BY <2>2, <2>4 DEF Aged
<1>3. ASSUME NEW r \in Req, AnnounceStep(r) \/ ScrapeStep(r), ~ApplyAnnounce(r) PROVE Aged'
  <2>1. req[r].pc # "idle" /\ UNCHANGED <<ram, ticker, reloaded, pruneIn>>
    BY <1>3 DEF AnnounceStep, ScrapeStep, CheckBlocklist, CheckRegistry, CountCompletion,
       Respond, ScrapeRegistry, ScrapeBlocklist, ScrapeCounts
  <2>2. Up /\ Up'
    BY <1>u, <2>1 DEF Up
  <2> QED
    BY <2>1, <2>2 DEF Aged
<1>4. CASE (\E d \in Del : TakedownSwarm(d)) \/ PruneMemory
  <2>1. UNCHANGED <<req, ticker>>
    BY <1>4 DEF TakedownSwarm, PruneMemory
  <2>2. DOMAIN ram' \subseteq DOMAIN ram
    BY <1>4 DEF TakedownSwarm, PruneMemory, Without
  <2>3. reloaded' \/ \A k \in DOMAIN ram' : ram'[k] + pruneIn' <= Expiry + PruneEvery
    <3>1. CASE \E d \in Del : TakedownSwarm(d)
      BY <3>1 DEF TakedownSwarm, Without, Aged
    <3>2. CASE PruneMemory
      <4>1. \A k \in DOMAIN ram' : ram'[k] \in 0 .. AgeCap /\ ram'[k] <= Expiry
        BY <1>0, <3>2 DEF PruneMemory, Without, AgeCap
      <4>2. pruneIn' = PruneEvery
        BY <3>2 DEF PruneMemory
      <4> QED
        BY <1>0, <4>1, <4>2
    <3> QED
      BY <1>4, <3>1, <3>2
  <2> QED
    BY <2>1, <2>2, <2>3 DEF Aged, Up
<1>5. CASE Advance
  <2>1. DOMAIN ram' = DOMAIN ram /\ UNCHANGED <<req, ticker, reloaded>>
    BY <1>5 DEF Advance, Older
  <2>2. CASE Up
    <3>1. pruneIn' = pruneIn - 1
      BY <1>5, <2>2 DEF Advance
    <3>2. \A k \in DOMAIN ram : ram'[k] \in Int /\ ram'[k] <= ram[k] + 1
      BY <1>0, <1>5 DEF Advance, Older, Later, AgeCap
    <3>3. reloaded' \/ \A k \in DOMAIN ram' : ram'[k] + pruneIn' <= Expiry + PruneEvery
      BY <1>0, <2>1, <3>1, <3>2 DEF Aged, AgeCap
    <3> QED
      BY <2>1, <2>2, <3>3 DEF Aged, Up
  <2>3. CASE ~Up
    BY <2>1, <2>3 DEF Aged, Up
  <2> QED
    BY <2>2, <2>3
<1>6. CASE Crash
  BY <1>6, EmptyMap, IdleFacts DEF Crash, Aged
<1>7. CASE Restart
  BY <1>7 DEF Restart, Aged, Up
<1>8. CASE FlushSnapshot \/ FlushStep
  BY <1>8 DEF FlushSnapshot, FlushStep, FlushBegin, FlushInsert, FlushCommit, FlushReturns, Aged, Up
<1>9. CASE UNCHANGED <<ram, req, ticker, reloaded, pruneIn>>
  BY <1>9 DEF Aged, Up
<1> QED
  BY <1>1, <1>2, <1>3, <1>4, <1>5, <1>6, <1>7, <1>8, <1>9
  DEF Next, TakedownStep, TakedownFails, Done, Register, TakedownStart, TakedownResolve, TakedownUnregister,
      TakedownPeers, TakedownBlock, vars

(* Whatever the periods are, and however announces, flushes, takedowns and *)
(* restarts fall between two prunes, a peer that fell silent is out of     *)
(* memory after the expiry and one prune period.                           *)
THEOREM SilentPeersExpire == Spec => []FreshPeers
<1>1. TypeOK /\ Aged => FreshPeers
  <2> SUFFICES ASSUME TypeOK, Aged PROVE FreshPeers
    OBVIOUS
  <2>1. /\ pruneIn \in 0 .. PruneEvery /\ Expiry \in Nat /\ PruneEvery \in Nat
        /\ \A k \in DOMAIN ram : ram[k] \in 0 .. AgeCap
    BY ConstantsAssumption DEF TypeOK, IsPeerMap, Age
  <2> QED
    BY <2>1 DEF Aged, FreshPeers, AgeCap
<1> QED
  BY <1>1, InitAged, AgedStep, TypeCorrect, PTL DEF Spec

(* What has not been announced since the snapshot of the last flush is     *)
(* saved.                                                                  *)
LEMMA InitSaved == Init => CrashLosesRecent /\ Snapped /\ Written
  BY EmptyMap DEF Init, CrashLosesRecent, Snapped, Written

(* A map that only loses peers, or gains fresh ones. *)
Aging(m, n) == \A k \in DOMAIN n : n[k] = 0 \/ (k \in DOMAIN m /\ n[k] = m[k])

LEMMA LaterFacts ==
    ASSUME NEW a \in Age, NEW t \in Age, Later(a) > Later(t)
    PROVE  a > t
  BY ConstantsAssumption DEF Age, AgeCap, Later

LEMMA SnappedStep == TypeOK /\ Snapped /\ Written /\ [Next]_vars => Snapped' /\ Written'
<1> SUFFICES ASSUME TypeOK, Snapped, Written, [Next]_vars PROVE Snapped' /\ Written'
  OBVIOUS
<1> USE DEF dbVars, flushVars, observed, boundVars
<1>0. /\ snapAgo \in Age /\ \A k \in DOMAIN ram : ram[k] \in Age
      /\ \A t \in Age : ~(0 > t)
  BY ConstantsAssumption DEF TypeOK, IsPeerMap, Age, AgeCap
<1>1. CASE UNCHANGED <<ticker, snap, rows, snapAgo>> /\ Aging(ram, ram')
  BY <1>0, <1>1 DEF Snapped, Written, Aging
<1>2. CASE FlushSnapshot
  BY <1>2 DEF FlushSnapshot, Snapped, Written
<1>3. CASE ticker' \notin {"begin", "insert"}
  BY <1>3 DEF Snapped, Written
<1>4. CASE FlushBegin /\ ~FlushReturns
  BY <1>4 DEF FlushBegin, Snapped, Written
<1>5. CASE FlushInsert /\ ~FlushReturns
  BY <1>5 DEF FlushInsert, Snapped, Written
<1>6. CASE Advance
  <2>1. UNCHANGED <<ticker, rows>> /\ DOMAIN ram' = DOMAIN ram /\ DOMAIN snap' = DOMAIN snap
    BY <1>6 DEF Advance, Older
  <2>2. ASSUME ticker \in {"begin", "insert"}, NEW k \in DOMAIN ram, ram'[k] > snapAgo'
        PROVE  k \in DOMAIN snap /\ snap'[k] = ram'[k]
    <3>1. snapAgo' = Later(snapAgo) /\ ram'[k] = Later(ram[k])
      BY <1>6, <2>2 DEF Advance, Older
    <3>2. ram[k] > snapAgo
      BY <1>0, <2>2, <3>1, LaterFacts
    <3>3. k \in DOMAIN snap /\ snap[k] = ram[k]
      BY <2>2, <3>2 DEF Snapped
    <3> QED
      BY <1>6, <3>1, <3>3 DEF Advance, Older
  <2> QED
    BY <2>1, <2>2 DEF Snapped, Written
<1>7. ASSUME NEW r \in Req, ApplyAnnounce(r) PROVE Aging(ram, ram')
  BY <1>7 DEF ApplyAnnounce, Aging, Put, Without
<1>8. ASSUME NEW d \in Del, TakedownSwarm(d) PROVE Aging(ram, ram')
  BY <1>8 DEF TakedownSwarm, Aging, Without
<1>9. CASE PruneMemory
  BY <1>9, <1>3 DEF PruneMemory
<1>10. CASE UNCHANGED <<ram, ticker, snap, rows, snapAgo>>
  BY <1>1, <1>10 DEF Aging
<1> QED
  BY <1>1, <1>2, <1>3, <1>4, <1>5, <1>6, <1>7, <1>8, <1>9, <1>10
  DEF Next, AnnounceStep, ScrapeStep, TakedownStep, Announce, CheckBlocklist, CheckRegistry,
      ApplyAnnounce, CountCompletion, Respond, Scrape, ScrapeRegistry, ScrapeBlocklist,
      ScrapeCounts, Register, TakedownStart, TakedownResolve, TakedownUnregister,
      TakedownPeers, TakedownSwarm, TakedownBlock, FlushStep, FlushBegin,
      FlushInsert, FlushCommit, FlushReturns, Crash, Restart, vars

LEMMA SavedStep ==
    TypeOK /\ Snapped /\ Written /\ CrashLosesRecent /\ [Next]_vars => CrashLosesRecent'
<1> SUFFICES ASSUME TypeOK, Snapped, Written, CrashLosesRecent, [Next]_vars
             PROVE  CrashLosesRecent'
  OBVIOUS
<1> USE DEF dbVars, flushVars, observed, boundVars
<1>0. /\ snapAgo \in Age /\ savedAgo \in Age /\ \A k \in DOMAIN ram : ram[k] \in Age
      /\ \A t \in Age : ~(0 > t)
      /\ TakedownTypes /\ RegistryTypes /\ DOMAIN ram \subseteq Hash \X Peer
  BY TypeParts, ConstantsAssumption DEF Types, TypeOK, IsPeerMap, Age, AgeCap
<1>1. CASE UNCHANGED <<table, savedAgo, td>> /\ Aging(ram, ram')
  BY <1>0, <1>1 DEF CrashLosesRecent, UnderTakedown, Aging
<1>2. CASE FlushCommit
  <2>1. UNCHANGED <<ram, td>>
    BY <1>2 DEF FlushCommit
  <2>2. CASE UNCHANGED <<table, savedAgo>>
    BY <1>1, <2>1, <2>2 DEF Aging
  <2>3. CASE table' = [k \in rows.done |-> snap[k]] /\ savedAgo' = snapAgo
    <3>1. rows.done = DOMAIN snap /\ ticker = "insert"
      BY <1>2 DEF FlushCommit, Written
    <3> QED
      BY <2>1, <2>3, <3>1 DEF Snapped, CrashLosesRecent
  <2> QED
    BY <1>2, <2>2, <2>3 DEF FlushCommit
<1>3. CASE Advance
  <2>1. UNCHANGED td /\ DOMAIN ram' = DOMAIN ram /\ DOMAIN table' = DOMAIN table
    BY <1>3 DEF Advance, Older
  <2>2. ASSUME NEW k \in DOMAIN ram, ram'[k] > savedAgo'
        PROVE  \/ k \in DOMAIN table /\ table'[k] = ram'[k]
               \/ UnderTakedown(k[1])
    <3>1. savedAgo' = Later(savedAgo) /\ ram'[k] = Later(ram[k])
      BY <1>3 DEF Advance, Older
    <3>2. ram[k] > savedAgo
      BY <1>0, <2>2, <3>1, LaterFacts
    <3>3. CASE k \in DOMAIN table /\ table[k] = ram[k]
      BY <1>3, <3>1, <3>3 DEF Advance, Older
    <3> QED
      BY <3>2, <3>3 DEF CrashLosesRecent
  <2> QED
    BY <2>1, <2>2 DEF CrashLosesRecent, UnderTakedown
<1>4. CASE Crash
  BY <1>4, EmptyMap DEF Crash, CrashLosesRecent
<1>5. CASE Restart
  BY <1>5 DEF Restart, CrashLosesRecent
<1>6. ASSUME NEW d \in Del, TakedownStep(d) PROVE CrashLosesRecent'
  <2>0. \A e \in Del : e # d => td'[e] = td[e]
    <3>1. \E v : td' = [td EXCEPT ![d] = v]
      BY <1>0, <1>6, TakedownCases DEF TakedownFails, Done, Moves
    <3> QED
      BY <1>0, <3>1 DEF TakedownTypes
  <2>1. CASE TakedownPeers(d) /\ ~TakedownFails(d)
    <3>1. /\ table' = Without(table, SwarmOf(td[d].todo[1])) /\ UNCHANGED <<ram, savedAgo>>
          /\ td[d].pc = "peers" /\ td' = [td EXCEPT ![d].pc = "swarm"]
      BY <2>1 DEF TakedownPeers
    <3>2. Moves(d, "swarm", td[d].todo)
      BY <1>0, <3>1, PcMoves
    <3>3. td'[d].pc = "swarm" /\ td'[d].todo = td[d].todo
      <4>1. td[d].todo \in Seq(Hash) /\ Short(td[d].todo)
        BY <1>0, <3>1, TodoFacts DEF Short
      <4> QED
        BY <1>0, <3>2, <4>1, MoveFacts
    <3>4. ASSUME NEW k \in DOMAIN ram, ram[k] > savedAgo
          PROVE  \/ k \in DOMAIN table' /\ table'[k] = ram[k]
                 \/ UnderTakedown(k[1])'
      <4>1. CASE k[1] = td[d].todo[1]
        BY <3>3, <4>1 DEF UnderTakedown
      <4>2. CASE k[1] # td[d].todo[1] /\ k \in DOMAIN table /\ table[k] = ram[k]
        <5>1. k \notin SwarmOf(td[d].todo[1])
          BY <4>2 DEF SwarmOf
        <5> QED
          BY <3>1, <4>2, <5>1 DEF Without
      <4>3. CASE k[1] # td[d].todo[1] /\ UnderTakedown(k[1])
        <5>1. PICK e \in Del : td[e].pc = "swarm" /\ td[e].todo[1] = k[1]
          BY <4>3 DEF UnderTakedown
        <5>2. e # d
          BY <3>1, <5>1
        <5> QED
          BY <2>0, <5>1, <5>2 DEF UnderTakedown
      <4> QED
        BY <3>4, <4>1, <4>2, <4>3 DEF CrashLosesRecent
    <3> QED
      BY <3>1, <3>4 DEF CrashLosesRecent
  <2>2. CASE TakedownSwarm(d)
    <3>1. /\ ram' = Without(ram, SwarmOf(td[d].todo[1])) /\ UNCHANGED <<table, savedAgo>>
          /\ td[d].pc = "swarm"
      BY <2>2 DEF TakedownSwarm
    <3>2. ASSUME NEW k \in DOMAIN ram', ram'[k] > savedAgo
          PROVE  \/ k \in DOMAIN table /\ table[k] = ram'[k]
                 \/ UnderTakedown(k[1])'
      <4>1. k \in DOMAIN ram /\ ram'[k] = ram[k] /\ k \notin SwarmOf(td[d].todo[1])
        BY <3>1 DEF Without
      <4>2. k[1] # td[d].todo[1]
        BY <1>0, <4>1 DEF SwarmOf
      <4>3. CASE UnderTakedown(k[1])
        <5>1. PICK e \in Del : td[e].pc = "swarm" /\ td[e].todo[1] = k[1]
          BY <4>3 DEF UnderTakedown
        <5>2. e # d
          BY <4>2, <5>1
        <5> QED
          BY <2>0, <5>1, <5>2 DEF UnderTakedown
      <4> QED
        BY <3>2, <4>1, <4>3 DEF CrashLosesRecent
    <3> QED
      BY <3>1, <3>2 DEF CrashLosesRecent
  <2>3. CASE UNCHANGED <<ram, table, savedAgo>> /\ td[d].pc # "swarm"
    <3>1. \A h : UnderTakedown(h) => UnderTakedown(h)'
      BY <2>0, <2>3 DEF UnderTakedown
    <3> QED
      BY <2>3, <3>1 DEF CrashLosesRecent
  <2>4. CASE TakedownPeers(d) /\ TakedownFails(d)
    <3>1. td[d].pc = "peers" /\ UNCHANGED <<ram, savedAgo>>
      BY <2>4 DEF TakedownPeers
    <3>2. UNCHANGED table \/ (table' = Without(table, SwarmOf(td[d].todo[1])) /\ td' = [td EXCEPT ![d].pc = "swarm"])
      BY <2>4 DEF TakedownPeers
    <3>3. ~(td' = [td EXCEPT ![d].pc = "swarm"])
      <4>1. td'[d].pc = "done"
        BY <1>0, <2>4 DEF TakedownFails, Done, TakedownTypes
      <4> QED
        BY <1>0, <4>1 DEF TakedownTypes
    <3> QED
      BY <2>3, <3>1, <3>2, <3>3
  <2> QED
    BY <1>6, <2>1, <2>2, <2>3, <2>4
    DEF TakedownStep, TakedownResolve, TakedownUnregister, TakedownBlock
<1>7. ASSUME NEW d \in Del, NEW h \in Hash, TakedownStart(d, h) PROVE CrashLosesRecent'
  <2>1. /\ td[d].pc = "new" /\ UNCHANGED <<ram, table, savedAgo>>
        /\ \A e \in Del : e # d => td'[e] = td[e]
    BY <1>0, <1>7 DEF TakedownStart, TakedownTypes
  <2>2. \A g : UnderTakedown(g) => UnderTakedown(g)'
    BY <2>1 DEF UnderTakedown
  <2> QED
    BY <2>1, <2>2 DEF CrashLosesRecent
<1>8. ASSUME NEW r \in Req, ApplyAnnounce(r) PROVE CrashLosesRecent'
  BY <1>1, <1>8 DEF ApplyAnnounce, Aging, Put, Without
<1>9. CASE PruneMemory
  BY <1>1, <1>9 DEF PruneMemory, Aging, Without
<1>10. CASE UNCHANGED <<ram, table, savedAgo, td>>
  BY <1>1, <1>10 DEF Aging
<1> QED
  BY <1>2, <1>3, <1>4, <1>5, <1>6, <1>7, <1>8, <1>9, <1>10
  DEF Next, AnnounceStep, ScrapeStep, Announce, CheckBlocklist, CheckRegistry,
      CountCompletion, Respond, Scrape, ScrapeRegistry, ScrapeBlocklist,
      ScrapeCounts, Register, FlushSnapshot, FlushStep, FlushBegin, FlushInsert, FlushReturns, vars

(* Whichever statement of whichever flush fails, and however announces,    *)
(* prunes, takedowns and restarts fall between its steps, the table holds  *)
(* every peer that has not announced since the last flush that succeeded.  *)
THEOREM OnlyRecentLost == Spec => []CrashLosesRecent
  BY InitSaved, SnappedStep, SavedStep, TypeCorrect, PTL DEF Spec

-----------------------------------------------------------------------------
(* Late requests *)

LEMMA InitLate == Init => LateBlocked
  BY IdleFacts DEF Init, LateBlocked

LEMMA LateStep == TypeOK /\ LateBlocked /\ [Next]_vars => LateBlocked'
<1> SUFFICES ASSUME TypeOK, LateBlocked, [Next]_vars PROVE LateBlocked'
  OBVIOUS
<1> USE DEF dbVars, flushVars, observed, boundVars
<1> DEFINE Fits(q, b, f) == q.pc # "idle" /\ q.late =>
              q.hash \in b /\ (f = 0 => q.pc \in {"blocklist", "scrape", "scraped"})
<1>0. req \in [Req -> Request] /\ faults \in Nat
  BY TypeParts, ConstantsAssumption DEF Types, RequestTypes, ClockTypes
<1>1. /\ blocklist \subseteq blocklist'
      /\ faults' = faults \/ (faults' = faults + 1)
  BY DEF Next, AnnounceStep, ScrapeStep, TakedownStep, TakedownFails, Done, Announce, CheckBlocklist,
     CheckRegistry, ApplyAnnounce, CountCompletion, Respond, Scrape, ScrapeRegistry,
     ScrapeBlocklist, ScrapeCounts, Register, TakedownStart, TakedownResolve,
     TakedownUnregister, TakedownPeers, TakedownSwarm, TakedownBlock, FlushSnapshot,
     FlushStep, FlushBegin, FlushInsert, FlushCommit, FlushReturns, PruneMemory, Advance, Crash, Restart, Fault, vars
<1>2. faults' = 0 => faults = 0
  BY <1>0, <1>1
<1>3. ASSUME NEW q \in Req, req'[q] = req[q] PROVE Fits(req'[q], blocklist', faults')
  BY <1>1, <1>2, <1>3 DEF LateBlocked
<1>4. ASSUME NEW r \in Req, Fits(req'[r], blocklist', faults'),
             \A q \in Req : q # r => req'[q] = req[q]
      PROVE  LateBlocked'
  BY <1>3, <1>4 DEF LateBlocked
<1>5. ASSUME NEW r \in Req, Finish(r) PROVE LateBlocked'
  <2>1. req'[r] = Idle /\ \A q \in Req : q # r => req'[q] = req[q]
    BY <1>0, <1>5 DEF Finish
  <2> QED
    BY <1>4, <2>1, IdleFacts
<1>6. ASSUME NEW r \in Req, NEW l, Proceed(r, l), req[r].pc # "idle",
             req[r].late /\ faults' = 0 => l \in {"blocklist", "scrape", "scraped"}
      PROVE  LateBlocked'
  <2>1. /\ req'[r] = [req[r] EXCEPT !.pc = l]
        /\ \A q \in Req : q # r => req'[q] = req[q]
    BY <1>0, <1>6 DEF Proceed
  <2>2. req'[r].pc = l /\ req'[r].hash = req[r].hash /\ req'[r].late = req[r].late
    <3>1. req[r] \in Request
      BY <1>0
    <3> QED
      BY <1>6, <2>1, <3>1 DEF Request, Idle
  <2>3. Fits(req'[r], blocklist', faults')
    BY <1>1, <1>6, <2>2 DEF LateBlocked
  <2> QED
    BY <1>4, <2>1, <2>3
<1>7. ASSUME NEW r \in Req, Announce(r) \/ Scrape(r) PROVE LateBlocked'
  <2>1. /\ UNCHANGED blocklist
        /\ \A q \in Req : q # r => req'[q] = req[q]
        /\ req'[r].late => req'[r].hash \in blocklist
        /\ req'[r].pc \in {"blocklist", "scrape"}
    <3>1. CASE Announce(r)
      <4>1. PICK h \in Hash, p \in Peer, e \in Event :
              req' = [req EXCEPT ![r] = [pc |-> "blocklist", hash |-> h, peer |-> p,
                                         event |-> e, late |-> h \in blocklist]]
        BY <3>1 DEF Announce
      <4>2. req'[r] = [pc |-> "blocklist", hash |-> h, peer |-> p,
                       event |-> e, late |-> h \in blocklist]
        BY <1>0, <4>1, Zenon
      <4>3. req'[r].pc = "blocklist" /\ req'[r].hash = h
        BY <4>2
      <4>5. req'[r].late => h \in blocklist
        BY <4>2, LateFact, Zenon
      <4>4. UNCHANGED blocklist /\ \A q \in Req : q # r => req'[q] = req[q]
        BY <1>0, <3>1, <4>1 DEF Announce
      <4> QED
        BY <4>3, <4>4, <4>5, Zenon
    <3>2. CASE Scrape(r)
      <4>1. PICK h \in Hash :
              req' = [req EXCEPT ![r] = [pc |-> "scrape", hash |-> h, late |-> h \in blocklist]]
        BY <3>2 DEF Scrape
      <4>2. req'[r] = [pc |-> "scrape", hash |-> h, late |-> h \in blocklist]
        BY <1>0, <4>1, Zenon
      <4>3. req'[r].pc = "scrape" /\ req'[r].hash = h
        BY <4>2
      <4>5. req'[r].late => h \in blocklist
        BY <4>2, LateFact, Zenon
      <4>4. UNCHANGED blocklist /\ \A q \in Req : q # r => req'[q] = req[q]
        BY <1>0, <3>2, <4>1 DEF Scrape
      <4> QED
        BY <4>3, <4>4, <4>5, Zenon
    <3> QED
      BY <1>7, <3>1, <3>2
  <2> QED
    BY <1>4, <2>1
<1>8. ASSUME NEW r \in Req, CheckBlocklist(r) \/ ScrapeBlocklist(r) PROVE LateBlocked'
  <2>1. \/ Finish(r)
        \/ \E l : Proceed(r, l) /\ (req[r].hash \notin blocklist \/ faults' = faults + 1)
    BY <1>8 DEF CheckBlocklist, ScrapeBlocklist, Fault
  <2>2. req[r].pc # "idle"
    BY <1>8 DEF CheckBlocklist, ScrapeBlocklist
  <2>3. req[r].late => req[r].hash \in blocklist
    BY <2>2 DEF LateBlocked
  <2>4. faults' = faults + 1 => faults' # 0
    BY <1>0
  <2> QED
    BY <1>5, <1>6, <2>1, <2>2, <2>3, <2>4
<1>9. ASSUME NEW r \in Req, ScrapeRegistry(r) PROVE LateBlocked'
  <2>1. Finish(r) \/ Proceed(r, "scraped")
    BY <1>9 DEF ScrapeRegistry
  <2>2. req[r].pc # "idle"
    BY <1>9 DEF ScrapeRegistry
  <2> QED
    BY <1>5, <1>6, <2>1, <2>2
<1>10. ASSUME NEW r \in Req, CheckRegistry(r) \/ ApplyAnnounce(r) \/ CountCompletion(r)
                             \/ Respond(r) \/ ScrapeCounts(r)
       PROVE  LateBlocked'
  <2>1. Finish(r) \/ \E l : Proceed(r, l)
    BY <1>10 DEF CheckRegistry, ApplyAnnounce, CountCompletion, Respond, ScrapeCounts
  <2>2. req[r].pc \in {"registry", "apply", "completed", "respond", "counts"}
    BY <1>10 DEF CheckRegistry, ApplyAnnounce, CountCompletion, Respond, ScrapeCounts
  <2>3. ~(req[r].late /\ faults' = 0)
    BY <1>2, <2>2 DEF LateBlocked
  <2> QED
    BY <1>5, <1>6, <2>1, <2>2, <2>3
<1>11. CASE Crash
  BY <1>11, IdleFacts DEF Crash, LateBlocked
<1>12. CASE UNCHANGED req
  BY <1>3, <1>12 DEF LateBlocked
<1> QED
  BY <1>7, <1>8, <1>9, <1>10, <1>11, <1>12
  DEF Next, AnnounceStep, ScrapeStep, TakedownStep, TakedownFails, Done, Register, TakedownStart,
      TakedownResolve, TakedownUnregister, TakedownPeers, TakedownSwarm, TakedownBlock,
      FlushSnapshot, FlushStep, FlushBegin, FlushInsert, FlushCommit, FlushReturns, PruneMemory, Advance, Restart, vars

(* As long as no statement has failed, no request that came after the      *)
(* takedown reaches the swarm, through restarts and new registrations: the *)
(* one way in is the blocklist query whose error the handlers ignore.      *)
THEOREM LateRequestsRejected == Spec => []BlockedRejected
<1>1. TypeOK /\ LateBlocked => BlockedRejected
  <2> SUFFICES ASSUME TypeOK, LateBlocked, NEW r \in Req, req[r].late, ~(faults > 0),
                      req[r].pc \in {"registry", "apply", "completed", "respond", "counts"}
               PROVE  FALSE
    BY DEF BlockedRejected
  <2>1. faults = 0
    BY ConstantsAssumption DEF TypeOK
  <2> QED
    BY <2>1 DEF LateBlocked
<1> QED
  BY <1>1, InitLate, LateStep, TypeCorrect, PTL DEF Spec

-----------------------------------------------------------------------------
(* Takedowns *)

(* Counting a completion touches no hash. *)
LEMMA CompletionKeepsHashes ==
    ASSUME RegistryTypes, NEW r \in Req, CountCompletion(r)
    PROVE  /\ DOMAIN registry' = DOMAIN registry
           /\ \A v2 \in DOMAIN registry : registry'[v2].v1 = registry[v2].v1
<1>1. CASE UNCHANGED registry
  BY <1>1
<1>2. CASE registry' = [h \in DOMAIN registry |->
                IF /\ h \in registryLookup(req[r].hash)
                   /\ registry[h].completions < MaxCompleted
                THEN [registry[h] EXCEPT !.completions = @ + 1]
                ELSE registry[h]]
  <2>1. ASSUME NEW h \in DOMAIN registry
        PROVE  [registry[h] EXCEPT !.completions = @ + 1].v1 = registry[h].v1
    <3>1. registry[h] \in [v1 : Hash \cup {NoHash}, completions : 0 .. MaxCompleted]
      BY DEF RegistryTypes
    <3> QED
      BY <3>1
  <2> QED
    BY <1>2, <2>1
<1> QED
  BY <1>1, <1>2 DEF CountCompletion

LEMMA EnteredStep == TypeOK /\ Entered /\ [Next]_vars => Entered'
<1> SUFFICES ASSUME TypeOK, Entered, [Next]_vars PROVE Entered'
  OBVIOUS
<1> USE DEF dbVars, flushVars, observed, boundVars
<1>0. RegistryTypes
  BY TypeParts DEF Types
<1>1. ASSUME NEW r \in Req, CountCompletion(r) PROVE Entered'
  BY <1>0, <1>1, CompletionKeepsHashes DEF Entered
<1>2. ASSUME NEW e \in Entries, Register(e) PROVE Entered'
  <2>1. e = <<e[1], e[2]>>
    BY ConstantsAssumption
  <2>2. \A v2 \in DOMAIN registry' :
          IF v2 = e[1] THEN registry'[v2].v1 = e[2]
          ELSE v2 \in DOMAIN registry /\ registry'[v2] = registry[v2]
    BY <1>2 DEF Register, Put
  <2> QED
    BY <2>1, <2>2 DEF Entered
<1>3. ASSUME NEW d \in Del, TakedownUnregister(d) PROVE Entered'
  BY <1>3 DEF TakedownUnregister, Without, Entered
<1>4. CASE UNCHANGED registry
  BY <1>4 DEF Entered
<1> QED
  BY <1>1, <1>2, <1>3, <1>4
  DEF Next, AnnounceStep, ScrapeStep, TakedownStep, TakedownFails, Done, Announce, CheckBlocklist, CheckRegistry,
      ApplyAnnounce, Respond, Scrape, ScrapeRegistry, ScrapeBlocklist, ScrapeCounts,
      TakedownStart, TakedownResolve, TakedownPeers, TakedownSwarm, TakedownBlock,
      FlushSnapshot, FlushStep, FlushBegin, FlushInsert, FlushCommit, FlushReturns, PruneMemory, Advance, Crash, Restart, vars

(* A hash belongs to one row, so the row that is resolved is the row that  *)
(* is deleted.                                                             *)
LEMMA OneRow ==
    ASSUME OwnHashes, Entered, RegistryTypes, NEW h \in Hash,
           NEW u \in registryLookup(h), NEW v \in registryLookup(h)
    PROVE  u = v
<1>1. u \in DOMAIN registry /\ v \in DOMAIN registry
  BY DEF registryLookup
<1>2. <<u, registry[u].v1>> \in Entries /\ <<v, registry[v].v1>> \in Entries
  BY <1>1 DEF Entered
<1>3. h # NoHash
  BY ConstantsAssumption
<1>4. (u = h \/ registry[u].v1 = h) /\ (v = h \/ registry[v].v1 = h)
  BY DEF registryLookup
<1>5. ASSUME u # v
      PROVE  /\ registry[u].v1 # v /\ registry[v].v1 # u
             /\ registry[u].v1 = registry[v].v1 => registry[u].v1 = NoHash
  BY <1>2, <1>5 DEF OwnHashes
<1> QED
  BY <1>3, <1>4, <1>5

(* The hashes of a row are the one it was found by and one other at most.  *)
LEMMA TwoHashes ==
    ASSUME RegistryTypes, NEW h \in Hash, NEW v \in registryLookup(h)
    PROVE  /\ HashesOf(v) \ {h} = {} => HashesOf(v) \subseteq {h}
           /\ \A x \in HashesOf(v) \ {h} : HashesOf(v) \subseteq {h, x}
<1>1. v = h \/ registry[v].v1 = h
  BY DEF registryLookup
<1>2. \A x, y \in HashesOf(v) \ {h} : x = y
  BY <1>1 DEF HashesOf
<1> QED
  BY <1>2

(* What takedowns still have to block. *)
Pending == UNION {Todo(d) : d \in {e \in Del : Purging(e)}}

Held == blocklist \cup dropped \cup Pending

(* A step of handler d leaves the lists of the others alone. *)
LEMMA OthersPending ==
    ASSUME NEW d \in Del, \A e \in Del : e # d => td'[e] = td[e],
           blocklist \subseteq blocklist', dropped \subseteq dropped',
           Purging(d) => Todo(d) \subseteq Held'
    PROVE  Held \subseteq Held'
<1>1. ASSUME NEW e \in Del, e # d, Purging(e) PROVE Purging(e)' /\ Todo(e)' = Todo(e)
  BY <1>1 DEF Purging, Todo
<1>2. Pending \subseteq Held'
  BY <1>1 DEF Pending, Held
<1> QED
  BY <1>2 DEF Held

(* The rows a handler will delete are on its list. *)
Listed(d) == td[d].pc = "unregister" =>
               \A v2 \in registryLookup(td[d].todo[1]) : HashesOf(v2) \subseteq Todo(d)

LEMMA TakenParts == Taken <=> removed \subseteq Held /\ \A d \in Del : Listed(d)
  BY DEF Taken, TakedownComplete, Held, Pending, Listed

LEMMA TakenPartsNext == Taken' <=> removed' \subseteq Held' /\ \A d \in Del : Listed(d)'
  BY DEF Taken, TakedownComplete, Held, Pending, Listed

(* Rows that stay keep a handler's list complete. *)
LEMMA ListedStays ==
    ASSUME NEW d \in Del, Listed(d), td'[d] = td[d],
           \A v2 \in DOMAIN registry' :
               v2 \in DOMAIN registry /\ registry'[v2].v1 = registry[v2].v1
    PROVE  Listed(d)'
<1>1. \A h : registryLookup(h)' \subseteq registryLookup(h)
  BY DEF registryLookup
<1>2. \A v2 \in DOMAIN registry' : HashesOf(v2)' = HashesOf(v2)
  BY DEF HashesOf
<1>3. \A h : registryLookup(h)' \subseteq DOMAIN registry'
  BY DEF registryLookup
<1>4. Todo(d)' = Todo(d)
  BY DEF Todo
<1>5. ASSUME td'[d].pc = "unregister", NEW v2 \in registryLookup(td[d].todo[1])'
      PROVE  HashesOf(v2)' \subseteq Todo(d)'
  <2>1. PICK h : h = td[d].todo[1]
    OBVIOUS
  <2>2. h = td'[d].todo[1]
    BY <2>1
  <2>3. v2 \in registryLookup(h) /\ v2 \in DOMAIN registry'
    BY <1>1, <1>3, <1>5, <2>2 DEF registryLookup
  <2>4. HashesOf(v2) \subseteq Todo(d)
    BY <1>5, <2>1, <2>3 DEF Listed
  <2> QED
    BY <1>2, <1>4, <2>3, <2>4
<1> QED
  BY <1>5 DEF Listed

LEMMA TakedownTaken ==
    ASSUME OwnHashes, TypeOK, Entered, Taken, NEW d \in Del, TakedownStep(d)
    PROVE  Taken'
<1> USE DEF dbVars, flushVars, observed, boundVars
<1>0. RegistryTypes /\ TakedownTypes
  BY TypeParts DEF Types
<1>1. removed \subseteq Held /\ \A e \in Del : Listed(e)
  BY TakenParts
<1>2. PICK s : s = td[d].todo
  OBVIOUS
<1>3. /\ td[d].pc \notin {"new", "done"}
      /\ s \in Seq(Hash) /\ Len(s) \in 1 .. 2 /\ s[1] \in Hash
      /\ Len(s) = 2 => /\ s[2] \in Hash /\ Tail(s) \in Seq(Hash)
                       /\ Len(Tail(s)) = 1 /\ Tail(s)[1] = s[2]
  BY <1>0, <1>2, TakedownCases, TodoFacts
<1>4. Todo(d) = IF Len(s) = 1 THEN {s[1]} ELSE {s[1], s[2]}
  BY <1>2, <1>3, TodoIs DEF Todo
<1>5. \A e \in Del : e # d => td'[e] = td[e]
  <2>1. \E v : td' = [td EXCEPT ![d] = v]
    BY <1>0, TakedownCases DEF TakedownFails, Done, Moves
  <2> QED
    BY <1>0, <2>1 DEF TakedownTypes
<1>6. ASSUME \A v2 \in DOMAIN registry' :
               v2 \in DOMAIN registry /\ registry'[v2].v1 = registry[v2].v1
      PROVE  \A e \in Del : e # d => Listed(e)'
  BY <1>1, <1>5, <1>6, ListedStays
<1>7. ASSUME UNCHANGED registry PROVE \A e \in Del : e # d => Listed(e)'
  BY <1>6, <1>7
<1>8. ASSUME NEW l \in {"resolve", "unregister", "peers", "swarm", "block"},
             NEW q \in Seq(Hash), Short(q), Moves(d, l, q)
      PROVE  td'[d].pc = l /\ td'[d].todo = q
  BY <1>0, <1>8, MoveFacts
<1>s. Short(s) /\ (Len(s) = 2 => Short(Tail(s)))
  BY <1>3 DEF Short
<1>9. CASE TakedownFails(d)
  <2>1. td'[d].pc = "done"
    BY <1>0, <1>9 DEF TakedownFails, Done, TakedownTypes
  <2>2. Listed(d)'
    BY <2>1 DEF Listed
  <2>3. /\ blocklist \subseteq blocklist' /\ dropped \subseteq dropped'
        /\ Purging(d) => Todo(d) \subseteq Held'
    <3>1. blocklist \subseteq blocklist'
      BY DEF TakedownStep, TakedownResolve, TakedownUnregister, TakedownPeers,
         TakedownSwarm, TakedownBlock
    <3> QED
      BY <1>9, <3>1 DEF TakedownFails, Held
  <2>4. Held \subseteq Held'
    BY <1>5, <2>3, OthersPending
  <2>5. UNCHANGED <<registry, removed>>
    <3>1. td'[d].pc = "peers" \/ UNCHANGED <<registry, removed>>
      <4>1. CASE TakedownUnregister(d) /\ td' = [td EXCEPT ![d].pc = "peers"]
        <5>1. Moves(d, "peers", s)
          BY <1>0, <1>2, <4>1, PcMoves
        <5> QED
          BY <1>3, <1>8, <1>s, <5>1
      <4> QED
        BY <4>1 DEF TakedownStep, TakedownResolve, TakedownUnregister, TakedownPeers,
           TakedownSwarm, TakedownBlock
    <3> QED
      BY <2>1, <3>1
  <2>6. \A e \in Del : Listed(e)'
    BY <1>7, <2>2, <2>5
  <2> QED
    BY <1>1, <2>4, <2>5, <2>6, TakenPartsNext
<1>10. ASSUME UNCHANGED <<registry, blocklist, removed, dropped>>, td[d].pc = "resolve",
              NEW q \in Seq(Hash), Short(q), q[1] = s[1],
              Moves(d, "unregister", q),
              \A v2 \in registryLookup(s[1]) : HashesOf(v2) \subseteq {q[i] : i \in 1 .. Len(q)}
       PROVE  Taken'
  <2>1. td'[d].pc = "unregister" /\ td'[d].todo = q
    BY <1>8, <1>10
  <2>2. Todo(d)' = {q[i] : i \in 1 .. Len(q)}
    BY <2>1 DEF Todo
  <2>3. \A h : registryLookup(h)' = registryLookup(h)
    BY <1>10 DEF registryLookup
  <2>4. \A v2 : HashesOf(v2)' = HashesOf(v2)
    BY <1>10 DEF HashesOf
  <2>5. Listed(d)'
    <3>1. ASSUME NEW v2 \in registryLookup(td[d].todo[1])' PROVE HashesOf(v2)' \subseteq Todo(d)'
      <4>1. v2 \in registryLookup(s[1])
        BY <1>10, <2>1, <3>1 DEF registryLookup
      <4> QED
        BY <1>10, <2>2, <2>4, <4>1
    <3> QED
      BY <3>1 DEF Listed
  <2>6. ~Purging(d)
    BY <1>10 DEF Purging
  <2>7. Held \subseteq Held'
    BY <1>5, <1>10, <2>6, OthersPending
  <2>8. \A e \in Del : Listed(e)'
    BY <1>7, <1>10, <2>5
  <2> QED
    BY <1>1, <1>10, <2>7, <2>8, TakenPartsNext
<1>11. ASSUME UNCHANGED <<registry, blocklist, removed, dropped>>, td[d].pc = "resolve",
              registryLookup(s[1]) = {}, Moves(d, "unregister", s)
       PROVE  Taken'
  BY <1>3, <1>s, <1>10, <1>11
<1>12. ASSUME UNCHANGED <<registry, blocklist, removed, dropped>>, td[d].pc = "resolve",
              NEW v \in registryLookup(s[1]), HashesOf(v) \ {s[1]} = {},
              Moves(d, "unregister", <<s[1]>>)
       PROVE  Taken'
  <2>1. PICK q : q = <<s[1]>>
    OBVIOUS
  <2>2. q \in Seq(Hash) /\ Len(q) = 1 /\ q[1] = s[1] /\ Short(q)
    BY <1>3, <2>1 DEF Short
  <2>3. {q[i] : i \in 1 .. Len(q)} = {s[1]}
    BY <2>2
  <2>4. \A v2 \in registryLookup(s[1]) : HashesOf(v2) \subseteq {s[1]}
    BY <1>0, <1>3, <1>12, OneRow, TwoHashes
  <2> QED
    BY <1>10, <1>12, <2>1, <2>2, <2>3, <2>4
<1>13. ASSUME UNCHANGED <<registry, blocklist, removed, dropped>>, td[d].pc = "resolve",
              NEW v \in registryLookup(s[1]), NEW x \in HashesOf(v) \ {s[1]},
              Moves(d, "unregister", <<s[1], x>>)
       PROVE  Taken'
  <2>0. x \in Hash
    BY <1>0, <1>13 DEF registryLookup, HashesOf, RegistryTypes
  <2>1. PICK q : q = <<s[1], x>>
    OBVIOUS
  <2>2. q \in Seq(Hash) /\ Len(q) = 2 /\ q[1] = s[1] /\ q[2] = x /\ Short(q)
    BY <1>3, <2>0, <2>1 DEF Short
  <2>3. {q[i] : i \in 1 .. Len(q)} = {s[1], x}
    BY <2>2
  <2>4. \A v2 \in registryLookup(s[1]) : HashesOf(v2) \subseteq {s[1], x}
    BY <1>0, <1>3, <1>13, OneRow, TwoHashes
  <2> QED
    BY <1>10, <1>13, <2>1, <2>2, <2>3, <2>4
<1>14. ASSUME td[d].pc = "unregister", UNCHANGED <<blocklist, dropped>>,
              registry' = Without(registry, registryLookup(s[1])),
              removed' = removed \cup UNION {HashesOf(v2) : v2 \in registryLookup(s[1])},
              Moves(d, "peers", s)
       PROVE  Taken'
  <2>1. td'[d].pc = "peers" /\ td'[d].todo = s
    BY <1>3, <1>8, <1>s, <1>14
  <2>2. Purging(d)' /\ Todo(d)' = Todo(d) /\ ~Purging(d)
    BY <1>2, <1>14, <2>1 DEF Purging, Todo
  <2>3. Held \subseteq Held' /\ Todo(d) \subseteq Held'
    BY <1>5, <1>14, <2>2, OthersPending DEF Held, Pending
  <2>4. \A v2 \in registryLookup(s[1]) : HashesOf(v2) \subseteq Todo(d)
    BY <1>1, <1>2, <1>14 DEF Listed
  <2>5. removed' \subseteq Held'
    BY <1>1, <1>14, <2>3, <2>4
  <2>6. \A v2 \in DOMAIN registry' : v2 \in DOMAIN registry /\ registry'[v2] = registry[v2]
    BY <1>14 DEF Without
  <2>7. Listed(d)'
    BY <2>1 DEF Listed
  <2>8. \A e \in Del : Listed(e)'
    BY <1>6, <2>6, <2>7
  <2> QED
    BY <2>5, <2>8, TakenPartsNext
<1>15. ASSUME UNCHANGED <<registry, blocklist, removed, dropped>>,
              NEW l \in {"swarm", "block"}, Moves(d, l, s)
       PROVE  Taken'
  <2>1. td'[d].pc = l /\ td'[d].todo = s
    BY <1>3, <1>8, <1>s, <1>15
  <2>2. Purging(d)' /\ Todo(d)' = Todo(d)
    BY <1>2, <2>1 DEF Purging, Todo
  <2>3. Todo(d) \subseteq Held'
    BY <2>2 DEF Held, Pending
  <2>4. Held \subseteq Held'
    BY <1>5, <1>15, <2>3, OthersPending
  <2>5. Listed(d)'
    BY <1>15, <2>1 DEF Listed
  <2>6. \A e \in Del : Listed(e)'
    BY <1>7, <1>15, <2>5
  <2> QED
    BY <1>1, <1>15, <2>4, <2>6, TakenPartsNext
<1>16. ASSUME UNCHANGED <<registry, removed, dropped>>, blocklist' = blocklist \cup {s[1]},
              \/ Len(s) = 1 /\ Moves(d, "done", <<>>)
              \/ Len(s) = 2 /\ Moves(d, "peers", Tail(s))
       PROVE  Taken'
  <2>3. Todo(d) \subseteq Held' /\ Listed(d)'
    <3>1. CASE Len(s) = 1 /\ Moves(d, "done", <<>>)
      <4>2. td'[d].pc = "done"
        BY <1>0, <3>1, EndFacts
      <4> QED
        BY <1>4, <1>16, <3>1, <4>2 DEF Held, Listed
    <3>2. CASE Len(s) = 2 /\ Moves(d, "peers", Tail(s))
      <4>1. td'[d].pc = "peers" /\ td'[d].todo = Tail(s)
        BY <1>3, <1>8, <1>s, <3>2
      <4>2. Len(td'[d].todo) = 1 /\ td'[d].todo[1] = s[2]
        BY <1>3, <3>2, <4>1
      <4>3. Purging(d)' /\ s[2] \in Todo(d)'
        BY <4>1, <4>2 DEF Purging, Todo
      <4> QED
        BY <1>4, <1>16, <3>2, <4>1, <4>3 DEF Held, Pending, Listed
    <3> QED
      BY <1>16, <3>1, <3>2
  <2>4. Held \subseteq Held'
    BY <1>5, <1>16, <2>3, OthersPending
  <2>5. \A e \in Del : Listed(e)'
    BY <1>7, <1>16, <2>3
  <2> QED
    BY <1>1, <1>16, <2>4, <2>5, TakenPartsNext
<1> QED
  BY <1>0, <1>2, <1>9, <1>11, <1>12, <1>13, <1>14, <1>15, <1>16, TakedownCases

LEMMA TakenStep ==
    ASSUME ~PostBetween, OwnHashes, TypeOK, Entered, Taken, [Next]_vars
    PROVE  Taken'
<1> USE DEF dbVars, flushVars, observed, boundVars
<1>0. RegistryTypes /\ TakedownTypes
  BY TypeParts DEF Types
<1>1. removed \subseteq Held /\ \A d \in Del : Listed(d)
  BY TakenParts
<1>2. ASSUME UNCHANGED <<td, removed, dropped, blocklist>>, \A d \in Del : Listed(d)'
      PROVE  Taken'
  <2>1. Held' = Held
    BY <1>2 DEF Held, Pending, Purging, Todo
  <2> QED
    BY <1>1, <1>2, <2>1, TakenPartsNext
<1>3. CASE UNCHANGED <<registry, td, removed, dropped, blocklist>>
  BY <1>1, <1>2, <1>3, ListedStays
<1>4. ASSUME NEW r \in Req, CountCompletion(r) PROVE Taken'
  <2>1. UNCHANGED <<td, removed, dropped, blocklist>>
    BY <1>4 DEF CountCompletion
  <2>2. /\ DOMAIN registry' = DOMAIN registry
        /\ \A v2 \in DOMAIN registry : registry'[v2].v1 = registry[v2].v1
    BY <1>0, <1>4, CompletionKeepsHashes
  <2> QED
    BY <1>1, <1>2, <2>1, <2>2, ListedStays
<1>5. ASSUME NEW e \in Entries, Register(e) PROVE Taken'
  <2>1. UNCHANGED <<td, removed, dropped, blocklist>> /\ \A d \in Del : td[d].pc # "unregister"
    BY <1>5 DEF Register
  <2>2. \A d \in Del : Listed(d)'
    BY <2>1 DEF Listed
  <2> QED
    BY <1>2, <2>1, <2>2
<1>6. ASSUME NEW d \in Del, NEW h \in Hash, TakedownStart(d, h) PROVE Taken'
  <2>1. /\ td[d].pc = "new" /\ UNCHANGED <<registry, removed, dropped, blocklist>>
        /\ \A e \in Del : e # d => td'[e] = td[e]
        /\ td'[d].pc = "resolve"
    BY <1>0, <1>6 DEF TakedownStart, TakedownTypes
  <2>2. Held \subseteq Held'
    BY <2>1, OthersPending DEF Purging
  <2>3. \A e \in Del : Listed(e)'
    BY <1>1, <2>1, ListedStays DEF Listed
  <2> QED
    BY <1>1, <2>1, <2>2, <2>3, TakenPartsNext
<1>7. CASE Crash
  <2>1. UNCHANGED <<registry, blocklist, removed>> /\ dropped' = dropped \cup Pending
    BY <1>7 DEF Crash, Pending
  <2>2. Held \subseteq Held'
    BY <2>1 DEF Held
  <2>3. \A d \in Del : td'[d].pc # "unregister"
    BY <1>7 DEF Crash
  <2>4. \A d \in Del : Listed(d)'
    BY <2>3 DEF Listed
  <2> QED
    BY <1>1, <2>1, <2>2, <2>4, TakenPartsNext
<1>8. ASSUME NEW d \in Del, TakedownStep(d) PROVE Taken'
  BY <1>8, TakedownTaken
<1> QED
  BY <1>3, <1>4, <1>5, <1>6, <1>7, <1>8
  DEF Next, AnnounceStep, ScrapeStep, Announce, CheckBlocklist, CheckRegistry,
      ApplyAnnounce, Respond, Scrape, ScrapeRegistry, ScrapeBlocklist, ScrapeCounts,
      FlushSnapshot, FlushStep, FlushBegin, FlushInsert, FlushCommit, FlushReturns,
      PruneMemory, Advance, Restart, vars

(* However many takedowns overlap, fail or repeat one another, as long as  *)
(* no POST falls between the two queries of one and no two entries share a *)
(* hash: what was deleted is blocked, or a takedown at work still has it   *)
(* on its list, or one that failed had.  A row is resolved by one query    *)
(* and deleted by another, and the handler that finds nothing to delete    *)
(* blocks only the hash it was given.                                      *)
THEOREM TakedownBlocksBoth ==
    ASSUME ~PostBetween, OwnHashes
    PROVE  Spec => []TakedownComplete
<1>1. Init => Entered /\ Taken
  BY DEF Init, Entered, Taken, TakedownComplete
<1>2. TypeOK /\ Entered /\ Taken /\ [Next]_vars => Taken'
  BY TakenStep
<1>3. Taken => TakedownComplete
  BY DEF Taken
<1> QED
  BY <1>1, <1>2, <1>3, EnteredStep, TypeCorrect, PTL DEF Spec

=============================================================================
