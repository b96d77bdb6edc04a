-------------------------- MODULE UsageSyncProofs --------------------------
(***************************************************************************)
(* Proofs about UsageSync, for every set of users, every bound and every   *)
(* kind of Hub and database failure the specification admits.              *)
(***************************************************************************)
EXTENDS UsageSync, WellFoundedInduction, TLAPS

(* The flush pass of one goroutine at a time: the shutdown goroutine leaves *)
(* "join" only when the ticker has stopped for good.                        *)
Exclusion ==
    /\ pc["ticker"] \notin {"signal", "join", "shutdown", "exit", "dead"}
    /\ pc["final"] \notin {"select", "stopped"}
    /\ pc["final"] \notin {"signal", "join"} => pc["ticker"] = "stopped"

(* DrainBacklog starts with no records. *)
NoRecords == \A p \in Flusher :
                pc[p] \notin {"scan", "drainPost", "delete"} => recs[p] = {}

IInv == /\ TypeOK
        /\ Exclusion
        /\ NoRecords
        /\ PayloadCovered
        /\ RowsInFlight
        /\ NoEmptyEntry

-----------------------------------------------------------------------------
(* Arithmetic of usage records and maps *)

(* Sums of usage records are usage records. *)
LEMMA PlusType ==
    ASSUME NEW a \in Usage, NEW b \in Usage
    PROVE  /\ Plus(a, b) \in Usage
           /\ Leq(a, Plus(a, b)) /\ Leq(b, Plus(a, b))
           /\ b # Zero => Plus(a, b) # Zero
BY DEF Usage, Plus, Leq, Zero

(* Subtracting a smaller record leaves a usage record. *)
LEMMA MinusType ==
    ASSUME NEW a \in Usage, NEW b \in Usage, Leq(b, a)
    PROVE  Minus(a, b) \in Usage
BY DEF Usage, Minus, Leq

(* The empty map is a map of usage records. *)
LEMMA EmptyMapType == IsUsageMap(EmptyMap) /\ DOMAIN EmptyMap = {}
BY DEF IsUsageMap, EmptyMap

(* Reading a map, a missing key included, gives a usage record. *)
LEMMA AtType ==
    ASSUME NEW m, NEW k, IsUsageMap(m)
    PROVE  At(m, k) \in Usage
BY DEF IsUsageMap, At, Usage, Zero

(* Adding to a map keeps its keys, adds one, and lowers no entry. *)
LEMMA AddType ==
    ASSUME NEW m, IsUsageMap(m), NEW k \in User, NEW d \in Usage
    PROVE  /\ IsUsageMap(Add(m, k, d))
           /\ DOMAIN Add(m, k, d) = DOMAIN m \cup {k}
           /\ \A x \in DOMAIN m : Leq(m[x], Add(m, k, d)[x])
           /\ Leq(d, Add(m, k, d)[k])
           /\ d # Zero => Add(m, k, d)[k] # Zero
           /\ \A x \in DOMAIN m \ {k} : Add(m, k, d)[x] = m[x]
<1>1. At(m, k) \in Usage
  BY AtType
<1>2. /\ Plus(At(m, k), d) \in Usage
      /\ Leq(At(m, k), Plus(At(m, k), d)) /\ Leq(d, Plus(At(m, k), d))
      /\ d # Zero => Plus(At(m, k), d) # Zero
  BY <1>1, PlusType
<1>3. \A x \in DOMAIN m : m[x] \in Usage /\ Leq(m[x], m[x])
  BY DEF IsUsageMap, Usage, Leq
<1> QED
  BY <1>2, <1>3 DEF IsUsageMap, Add, At

(* Adding a map to a total per user gives a total per user. *)
LEMMA PlusMapType ==
    ASSUME NEW t, NEW m, IsUsageMap(m)
    PROVE  /\ t \in [User -> Usage] => PlusMap(t, m) \in [User -> Usage]
           /\ t \in [User -> SignedUsage] => PlusMap(t, m) \in [User -> SignedUsage]
<1>1. \A u \in User : At(m, u) \in Usage
  BY AtType
<1> QED
  BY <1>1 DEF PlusMap, Plus, Usage, SignedUsage

(* Inequality of records is transitive. *)
LEMMA LeqTrans ==
    ASSUME NEW a \in Usage, NEW b \in Usage, NEW c \in Usage,
           Leq(a, b), Leq(b, c)
    PROVE  Leq(a, c)
BY DEF Usage, Leq

-----------------------------------------------------------------------------
(* The initial states *)

(* IInv holds initially. *)
LEMMA InitIInv == Init => IInv
<1> SUFFICES ASSUME Init PROVE IInv
  OBVIOUS
<1> USE ConstantsAssumption
<1>1. TypeOK
  BY EmptyMapType DEF Init, TypeOK, Flusher, RowId, Usage, SignedUsage, Zero
<1>2. Exclusion /\ NoRecords /\ PayloadCovered /\ RowsInFlight
  BY DEF Init, Exclusion, NoRecords, PayloadCovered, RowsInFlight, Flusher
<1>3. NoEmptyEntry
  BY DEF Init, NoEmptyEntry, EmptyMap
<1> QED
  BY <1>1, <1>2, <1>3 DEF IInv

-----------------------------------------------------------------------------
(* One lemma per action: it preserves IInv. *)

(* Crediting a user raises live deltas only, so every batch stays covered. *)
LEMMA TrackUsageStep ==
    ASSUME IInv, NEW u \in User, NEW d \in Deltas, TrackUsage(u, d)
    PROVE  IInv'
<1> USE ConstantsAssumption
<1>1. d \in Usage /\ d # Zero
  OBVIOUS
<1>2. IsUsageMap(users)
  BY DEF IInv, TypeOK
<1>3. /\ IsUsageMap(users')
      /\ DOMAIN users' = DOMAIN users \cup {u}
      /\ \A x \in DOMAIN users : Leq(users[x], users'[x])
      /\ users'[u] # Zero
      /\ \A x \in DOMAIN users \ {u} : users'[x] = users[x]
  BY <1>1, <1>2, AddType DEF TrackUsage
<1>4. TypeOK'
  <2>1. earned' \in [User -> Usage]
    BY <1>1, PlusType DEF IInv, TypeOK, TrackUsage
  <2> QED
    BY <1>3, <2>1 DEF IInv, TypeOK, TrackUsage
<1>5. PayloadCovered'
  <2> SUFFICES ASSUME NEW p \in Flusher, pc[p] \in {"post", "backup", "subtract"},
                      NEW v \in DOMAIN batch[p]
               PROVE  v \in DOMAIN users' /\ Leq(batch[p][v], users'[v])
    BY DEF PayloadCovered, TrackUsage
  <2>1. v \in DOMAIN users /\ Leq(batch[p][v], users[v])
    BY DEF IInv, PayloadCovered
  <2>2. batch[p][v] \in Usage /\ users[v] \in Usage /\ users'[v] \in Usage
    BY <1>2, <1>3, <2>1 DEF IInv, TypeOK, IsUsageMap
  <2> QED
    BY <1>3, <2>1, <2>2, LeqTrans
<1>6. NoEmptyEntry'
  BY <1>3 DEF IInv, NoEmptyEntry
<1>7. Exclusion' /\ NoRecords' /\ RowsInFlight'
  BY DEF IInv, Exclusion, NoRecords, RowsInFlight, TrackUsage
<1> QED
  BY <1>4, <1>5, <1>6, <1>7 DEF IInv

(* The copy FlushUsers takes is covered by what it copies. *)
LEMMA FlushUsersSnapshotStep ==
    ASSUME IInv, NEW p \in Flusher, FlushUsersSnapshot(p)
    PROVE  IInv'
<1>1. TypeOK'
  BY DEF IInv, TypeOK, FlushUsersSnapshot, Goto, ghostVars, Flusher
<1>2. Exclusion' /\ NoRecords' /\ NoEmptyEntry'
  BY DEF IInv, TypeOK, Exclusion, NoRecords, NoEmptyEntry,
         FlushUsersSnapshot, Goto, Flusher
<1>3. PayloadCovered'
  <2> SUFFICES ASSUME NEW q \in Flusher, pc'[q] \in {"post", "backup", "subtract"},
                      NEW v \in DOMAIN batch'[q]
               PROVE  v \in DOMAIN users /\ Leq(batch'[q][v], users[v])
    BY DEF PayloadCovered, FlushUsersSnapshot
  <2>1. CASE q = p
    <3>1. batch'[q] = users
      BY <2>1 DEF FlushUsersSnapshot, Goto, IInv, TypeOK
    <3> QED
      BY <3>1 DEF IInv, TypeOK, IsUsageMap, Leq, Usage
  <2>2. CASE q # p
    BY <2>2 DEF FlushUsersSnapshot, Goto, IInv, TypeOK, PayloadCovered
  <2> QED
    BY <2>1, <2>2
<1>4. RowsInFlight'
  BY DEF IInv, TypeOK, RowsInFlight, FlushUsersSnapshot, Goto, Flusher
<1> QED
  BY <1>1, <1>2, <1>3, <1>4 DEF IInv

(* A function that returns, or moves on, without touching RAM or the table *)
(* leaves the other goroutine's batch and records as they were.            *)
LEMMA PostOKStep ==
    ASSUME IInv, NEW p \in Flusher, PostOK(p)
    PROVE  IInv'
<1>1. TypeOK'
  <2>1. IsUsageMap(batch[p])
    BY DEF IInv, TypeOK
  <2>2. hub' \in [User -> Usage] /\ unacked' \in [User -> SignedUsage]
    BY <2>1, PlusMapType DEF PostOK, IInv, TypeOK
  <2> QED
    BY <2>2 DEF IInv, TypeOK, PostOK, Goto, Flusher
<1>2. Exclusion' /\ NoRecords' /\ NoEmptyEntry'
  BY DEF IInv, TypeOK, Exclusion, NoRecords, NoEmptyEntry, PostOK, Goto,
         Flusher
<1>3. PayloadCovered' /\ RowsInFlight'
  BY DEF IInv, TypeOK, PayloadCovered, RowsInFlight, PostOK, Goto, Flusher
<1> QED
  BY <1>1, <1>2, <1>3 DEF IInv

(* A refused batch goes on to the backup, still covered; refused rows stay *)
(* in the table.                                                           *)
LEMMA PostRejectedStep ==
    ASSUME IInv, NEW p \in Flusher, PostRejected(p)
    PROVE  IInv'
<1>1. TypeOK'
  BY EmptyMapType DEF IInv, TypeOK, PostRejected, Posting, Return, Goto, AfterPass,
         ghostVars, Flusher
<1>2. Exclusion' /\ NoRecords' /\ NoEmptyEntry'
  BY DEF IInv, TypeOK, Exclusion, NoRecords, NoEmptyEntry, PostRejected,
         Posting, Return, Goto, AfterPass, Flusher
<1>3. PayloadCovered' /\ RowsInFlight'
  BY DEF IInv, TypeOK, PayloadCovered, RowsInFlight, PostRejected, Posting,
         Return, Goto, AfterPass, Flusher
<1> QED
  BY <1>1, <1>2, <1>3 DEF IInv

(* After a transport error the deltas stay in RAM and the rows in the      *)
(* table, whether or not the Hub applied the batch.                        *)
LEMMA TransportErrorStep ==
    ASSUME IInv, NEW p \in Flusher, PostUnreachable(p) \/ PostReplyLost(p)
    PROVE  IInv'
<1> USE ConstantsAssumption
<1>1. /\ TransportError(p) /\ Posting(p)
      /\ UNCHANGED <<users, backlog, srv, hubSet, earned, lost, credits, restarts>>
  BY DEF PostUnreachable, PostReplyLost, ghostVars
<1>2. TypeOK'
  <2>1. IsUsageMap(batch[p])
    BY DEF IInv, TypeOK
  <2>2. /\ hub' \in [User -> Usage] /\ unacked' \in [User -> SignedUsage]
        /\ faults' \in 0 .. MaxFaults
    BY <2>1, PlusMapType DEF PostUnreachable, PostReplyLost, Fault,
       ghostVars, IInv, TypeOK
  <2> QED
    BY <1>1, <2>2, EmptyMapType DEF IInv, TypeOK, TransportError, Posting, Return,
       Goto, AfterPass, Flusher
<1>3. Exclusion' /\ NoRecords' /\ NoEmptyEntry'
  BY <1>1 DEF IInv, TypeOK, Exclusion, NoRecords, NoEmptyEntry,
     TransportError, Posting, Return, Goto, AfterPass, Flusher
<1>4. PayloadCovered' /\ RowsInFlight'
  BY <1>1 DEF IInv, TypeOK, PayloadCovered, RowsInFlight, TransportError,
     Posting, Return, Goto, AfterPass, Flusher
<1> QED
  BY <1>2, <1>3, <1>4 DEF IInv

(* A backup adds rows under fresh ids: the rows another DrainBacklog read  *)
(* keep their contents.                                                    *)
LEMMA BackupStep ==
    ASSUME IInv, NEW p \in Flusher, BackupUsageToDB(p)
    PROVE  IInv'
<1>1. IsUsageMap(batch[p]) /\ DOMAIN backlog \subseteq RowId
  BY DEF IInv, TypeOK
<1>2. /\ DOMAIN backlog \subseteq DOMAIN backlog'
      /\ \A r \in DOMAIN backlog : backlog'[r] = backlog[r]
      /\ DOMAIN backlog' \subseteq RowId
      /\ \A r \in DOMAIN backlog' : backlog'[r] \in Row
  <2>1. PICK row \in [DOMAIN batch[p] -> RowId] :
          backlog' = [r \in DOMAIN backlog \cup {row[u] : u \in DOMAIN batch[p]} |->
                        IF r \in DOMAIN backlog THEN backlog[r]
                        ELSE LET u == CHOOSE v \in DOMAIN batch[p] : row[v] = r
                             IN [id |-> u, u |-> batch[p][u]]]
    BY DEF BackupUsageToDB, Insert
  <2> DEFINE new == {row[u] : u \in DOMAIN batch[p]}
             owner(r) == CHOOSE v \in DOMAIN batch[p] : row[v] = r
  <2>2. ASSUME NEW r \in new
        PROVE  owner(r) \in DOMAIN batch[p]
    <3>1. \E v \in DOMAIN batch[p] : row[v] = r
      BY <2>2
    <3> QED
      BY <3>1
  <2>3. ASSUME NEW r \in new
        PROVE  r \in RowId /\ [id |-> owner(r), u |-> batch[p][owner(r)]] \in Row
    <3> HIDE DEF owner
    <3>1. owner(r) \in DOMAIN batch[p] /\ r \in RowId
      BY <2>2, <2>3
    <3> QED
      BY <3>1, <1>1 DEF Row, IsUsageMap
  <2>4. \A r \in DOMAIN backlog : backlog[r] \in Row
    BY DEF IInv, TypeOK
  <2>5. backlog' = [r \in DOMAIN backlog \cup new |->
                      IF r \in DOMAIN backlog THEN backlog[r]
                      ELSE [id |-> owner(r), u |-> batch[p][owner(r)]]]
    BY <2>1
  <2> HIDE DEF owner, new
  <2> QED
    BY <1>1, <2>3, <2>4, <2>5
<1>3. TypeOK'
  BY <1>2 DEF IInv, TypeOK, BackupUsageToDB, Goto, ghostVars, Flusher
<1>4. Exclusion' /\ NoRecords' /\ NoEmptyEntry'
  BY DEF IInv, TypeOK, Exclusion, NoRecords, NoEmptyEntry, BackupUsageToDB,
     Goto, Flusher
<1>5. PayloadCovered'
  BY DEF IInv, TypeOK, PayloadCovered, BackupUsageToDB, Goto, Flusher
<1>6. RowsInFlight'
  BY <1>2 DEF IInv, TypeOK, RowsInFlight, BackupUsageToDB, Goto, Flusher
<1> QED
  BY <1>3, <1>4, <1>5, <1>6 DEF IInv

(* A failed backup leaves everything in RAM. *)
LEMMA BackupFailsStep ==
    ASSUME IInv, NEW p \in Flusher, BackupFails(p)
    PROVE  IInv'
<1> USE ConstantsAssumption
<1>1. TypeOK'
  BY EmptyMapType DEF IInv, TypeOK, BackupFails, Fault, Return, Goto, Flusher
<1>2. Exclusion' /\ NoRecords' /\ NoEmptyEntry'
  BY DEF IInv, TypeOK, Exclusion, NoRecords, NoEmptyEntry, BackupFails,
     Return, Goto, Flusher
<1>3. PayloadCovered' /\ RowsInFlight'
  BY DEF IInv, TypeOK, PayloadCovered, RowsInFlight, BackupFails, Return,
     Goto, Flusher
<1> QED
  BY <1>1, <1>2, <1>3 DEF IInv

(* Subtracting a covered batch leaves non-negative deltas, and no other    *)
(* goroutine holds a batch that the subtraction could uncover.             *)
LEMMA SubtractStep ==
    ASSUME IInv, NEW p \in Flusher, Subtract(p)
    PROVE  IInv'
<1>1. pc[p] = "subtract" /\ IsUsageMap(users) /\ IsUsageMap(batch[p])
  BY DEF IInv, TypeOK, Subtract
<1>2. \A u \in DOMAIN users : Remaining(p, u) \in Usage
  <2> SUFFICES ASSUME NEW u \in DOMAIN users PROVE Remaining(p, u) \in Usage
    OBVIOUS
  <2>1. CASE u \in DOMAIN batch[p]
    <3>1. Leq(batch[p][u], users[u])
      BY <1>1, <2>1 DEF IInv, PayloadCovered
    <3> QED
      BY <1>1, <2>1, <3>1, MinusType DEF Remaining, IsUsageMap
  <2>2. CASE u \notin DOMAIN batch[p]
    BY <1>1, <2>2 DEF Remaining, IsUsageMap
  <2> QED
    BY <2>1, <2>2
<1>3. IsUsageMap(users') /\ NoEmptyEntry'
  <2>1. \A u \in DOMAIN users : u \notin DOMAIN batch[p] => Remaining(p, u) # Zero
    BY DEF IInv, NoEmptyEntry, Remaining
  <2> QED
    BY <1>1, <1>2, <2>1 DEF Subtract, IsUsageMap, NoEmptyEntry
<1>4. TypeOK'
  BY <1>3, EmptyMapType DEF IInv, TypeOK, Subtract, Return, Goto, ghostVars,
     Flusher
<1>5. Exclusion' /\ NoRecords' /\ RowsInFlight'
  BY DEF IInv, TypeOK, Exclusion, NoRecords, RowsInFlight, Subtract, Return,
     Goto, Flusher
<1>6. PayloadCovered'
  BY DEF IInv, TypeOK, Exclusion, PayloadCovered, Subtract, Return, Goto,
     Flusher
<1> QED
  BY <1>3, <1>4, <1>5, <1>6 DEF IInv

(* DrainBacklog returns early or opens its query. *)
LEMMA DrainStartStep ==
    ASSUME IInv, NEW p \in Flusher, DrainStart(p)
    PROVE  IInv'
<1> USE ConstantsAssumption
<1>1. TypeOK'
  BY DEF IInv, TypeOK, DrainStart, Fault, AfterPass, Goto, Flusher
<1>2. Exclusion' /\ NoRecords' /\ NoEmptyEntry'
  BY DEF IInv, TypeOK, Exclusion, NoRecords, NoEmptyEntry, DrainStart,
     AfterPass, Goto, Flusher
<1>3. PayloadCovered' /\ RowsInFlight'
  BY DEF IInv, TypeOK, NoRecords, PayloadCovered, RowsInFlight, DrainStart,
     AfterPass, Goto, Flusher
<1> QED
  BY <1>1, <1>2, <1>3 DEF IInv

(* A row read is in the table and its bytes are in the batch. *)
LEMMA DrainScanStep ==
    ASSUME IInv, NEW p \in Flusher, DrainScan(p)
    PROVE  IInv'
<1>1. PICK r \in DOMAIN backlog :
        /\ recs' = [recs EXCEPT ![p] = @ \cup {r}]
        /\ batch' = [batch EXCEPT ![p] = Add(batch[p], backlog[r].id, backlog[r].u)]
  BY DEF DrainScan, Unread
<1>2. /\ pc[p] = "scan"
      /\ UNCHANGED <<users, pc, srv, hubSet, backlog, hub, earned, lost,
                     unacked, credits, faults, restarts>>
  BY DEF DrainScan, ghostVars
<1>3. /\ r \in RowId /\ IsUsageMap(batch[p])
      /\ backlog[r].id \in User /\ backlog[r].u \in Usage
  BY DEF IInv, TypeOK, Row
<1> DEFINE m == Add(batch[p], backlog[r].id, backlog[r].u)
<1>4. /\ IsUsageMap(m)
      /\ DOMAIN m = DOMAIN batch[p] \cup {backlog[r].id}
      /\ \A x \in DOMAIN batch[p] : Leq(batch[p][x], m[x])
      /\ Leq(backlog[r].u, m[backlog[r].id])
  BY <1>3, AddType
<1> HIDE DEF m
<1>5. batch'[p] = m /\ \A q \in Flusher \ {p} : batch'[q] = batch[q]
  BY <1>1 DEF m, IInv, TypeOK
<1>6. recs'[p] = recs[p] \cup {r} /\ \A q \in Flusher \ {p} : recs'[q] = recs[q]
  BY <1>1 DEF IInv, TypeOK
<1>7. TypeOK'
  <2>1. DOMAIN batch' = Flusher /\ \A q \in Flusher : IsUsageMap(batch'[q])
    BY <1>1, <1>4, <1>5 DEF IInv, TypeOK
  <2>2. recs' \in [Flusher -> SUBSET RowId]
    BY <1>1, <1>3 DEF IInv, TypeOK
  <2> QED
    BY <1>2, <2>1, <2>2 DEF IInv, TypeOK
<1>8. RowsInFlight'
  <2> SUFFICES ASSUME NEW q \in Flusher, pc[q] \in {"scan", "drainPost", "delete"},
                      NEW x \in recs'[q]
               PROVE  /\ x \in DOMAIN backlog
                      /\ backlog[x].id \in DOMAIN batch'[q]
                      /\ Leq(backlog[x].u, batch'[q][backlog[x].id])
    BY <1>2 DEF RowsInFlight
  <2>1. CASE q # p
    BY <2>1, <1>5, <1>6 DEF IInv, RowsInFlight
  <2>2. CASE q = p /\ x \in recs[p]
    <3>1. /\ x \in DOMAIN backlog /\ backlog[x].id \in DOMAIN batch[p]
          /\ Leq(backlog[x].u, batch[p][backlog[x].id])
      BY <2>2, <1>2 DEF IInv, RowsInFlight
    <3>2. /\ backlog[x].u \in Usage /\ batch[p][backlog[x].id] \in Usage
          /\ m[backlog[x].id] \in Usage
      BY <3>1, <1>3, <1>4 DEF IInv, TypeOK, Row, IsUsageMap
    <3>3. Leq(batch[p][backlog[x].id], m[backlog[x].id])
      BY <3>1, <1>4
    <3> QED
      BY <2>2, <3>1, <3>2, <3>3, <1>4, <1>5, LeqTrans
  <2>3. CASE q = p /\ x = r
    BY <2>3, <1>4, <1>5
  <2> QED
    BY <2>1, <2>2, <2>3, <1>6
<1>9. PayloadCovered'
  BY <1>2, <1>5 DEF IInv, PayloadCovered
<1>10. Exclusion' /\ NoRecords' /\ NoEmptyEntry'
  BY <1>2, <1>6 DEF IInv, Exclusion, NoRecords, NoEmptyEntry
<1> QED
  BY <1>7, <1>8, <1>9, <1>10 DEF IInv

(* The query is exhausted: nothing to send, or a batch to send. *)
LEMMA DrainScannedStep ==
    ASSUME IInv, NEW p \in Flusher, DrainScanned(p)
    PROVE  IInv'
<1>1. TypeOK'
  BY DEF IInv, TypeOK, DrainScanned, AfterPass, Goto, ghostVars, Flusher
<1>2. Exclusion' /\ NoRecords' /\ NoEmptyEntry'
  BY DEF IInv, TypeOK, Exclusion, NoRecords, NoEmptyEntry, DrainScanned,
     AfterPass, Goto, Flusher
<1>3. PayloadCovered' /\ RowsInFlight'
  BY DEF IInv, TypeOK, PayloadCovered, RowsInFlight, DrainScanned,
     AfterPass, Goto, Flusher
<1> QED
  BY <1>1, <1>2, <1>3 DEF IInv

(* Leaving a record behind, deleted or not: the records that remain are    *)
(* still in the table.                                                     *)
LEMMA DeleteStep ==
    ASSUME IInv, NEW p \in Flusher, DrainDelete(p) \/ DrainDeleteFails(p)
    PROVE  IInv'
<1> USE ConstantsAssumption
<1>1. PICK r \in recs[p] :
        /\ AfterRec(p, r)
        /\ \/ backlog' = [q \in DOMAIN backlog \ {r} |-> backlog[q]]
           \/ backlog' = backlog
        /\ \/ unacked' = unacked
           \/ unacked' = [u \in User |->
                           IF r \in DOMAIN backlog /\ backlog[r].id = u
                           THEN Minus(unacked[u], backlog[r].u)
                           ELSE unacked[u]]
  BY DEF DrainDelete, DrainDeleteFails
<1>2. /\ pc[p] = "delete"
      /\ UNCHANGED <<users, srv, hubSet, hub, earned, lost, credits, restarts>>
      /\ faults' \in 0 .. MaxFaults
  BY DEF DrainDelete, DrainDeleteFails, Fault, IInv, TypeOK
<1>3. \/ /\ pc' = [pc EXCEPT ![p] = AfterPass(p)]
         /\ batch' = [batch EXCEPT ![p] = EmptyMap]
         /\ recs' = [recs EXCEPT ![p] = {}]
      \/ /\ recs' = [recs EXCEPT ![p] = @ \ {r}]
         /\ UNCHANGED <<pc, batch>>
  BY <1>1 DEF AfterRec, Return, Goto
<1>4. TypeOK'
  <2>1. unacked' \in [User -> SignedUsage]
    BY <1>1 DEF IInv, TypeOK, SignedUsage, Row, Usage, Minus
  <2>2. DOMAIN backlog' \subseteq RowId /\ \A x \in DOMAIN backlog' : backlog'[x] \in Row
    BY <1>1 DEF IInv, TypeOK
  <2>3. recs' \in [Flusher -> SUBSET RowId]
    BY <1>3 DEF IInv, TypeOK
  <2>4. DOMAIN batch' = Flusher /\ \A q \in Flusher : IsUsageMap(batch'[q])
    BY <1>3, EmptyMapType DEF IInv, TypeOK
  <2> QED
    BY <1>2, <1>3, <2>1, <2>2, <2>3, <2>4 DEF IInv, TypeOK, AfterPass, Flusher
<1>5. Exclusion' /\ NoRecords' /\ NoEmptyEntry'
  BY <1>2, <1>3 DEF IInv, TypeOK, Exclusion, NoRecords, NoEmptyEntry,
     AfterPass, Flusher
<1>6. PayloadCovered'
  BY <1>2, <1>3 DEF IInv, TypeOK, PayloadCovered, AfterPass, Flusher
<1>7. RowsInFlight'
  <2> SUFFICES ASSUME NEW q \in Flusher, pc'[q] \in {"scan", "drainPost", "delete"},
                      NEW x \in recs'[q]
               PROVE  /\ x \in DOMAIN backlog'
                      /\ backlog'[x].id \in DOMAIN batch'[q]
                      /\ Leq(backlog'[x].u, batch'[q][backlog'[x].id])
    BY DEF RowsInFlight
  <2>1. q = p
    BY <1>2, <1>3 DEF IInv, TypeOK, Exclusion, NoRecords, AfterPass, Flusher
  <2>2. x \in recs[p] \ {r} /\ batch'[p] = batch[p]
    BY <2>1, <1>3 DEF IInv, TypeOK, AfterPass
  <2>3. x \in DOMAIN backlog' /\ backlog'[x] = backlog[x]
    BY <1>1, <1>2, <2>2 DEF IInv, RowsInFlight
  <2> QED
    BY <1>2, <2>1, <2>2, <2>3 DEF IInv, RowsInFlight
<1> QED
  BY <1>4, <1>5, <1>6, <1>7 DEF IInv

(* The goroutines of main move between their waits. *)
LEMMA MainStep ==
    ASSUME IInv, Tick \/ TickerStop \/ Signal \/ Join \/ ServerShutdown
    PROVE  IInv'
<1>1. /\ UNCHANGED <<users, batch, recs, hubSet, backlog, hub, earned, lost,
                     unacked, credits, faults, restarts>>
      /\ srv' \in {"up", "late", "closed"}
      /\ \/ pc["ticker"] = "select" /\ Goto("ticker", "users")
         \/ pc["ticker"] = "select" /\ Signalled /\ Goto("ticker", "stopped")
         \/ pc["final"] = "signal" /\ Goto("final", "join")
         \/ /\ pc["final"] = "join" /\ pc["ticker"] = "stopped"
            /\ Goto("final", "shutdown")
         \/ pc["final"] = "shutdown" /\ Goto("final", "users")
  BY DEF Tick, TickerStop, Signal, Join, ServerShutdown, ghostVars, IInv, TypeOK
<1>2. TypeOK'
  BY <1>1 DEF IInv, TypeOK, Goto, Flusher
<1>3. Exclusion' /\ NoRecords' /\ NoEmptyEntry'
  BY <1>1 DEF IInv, TypeOK, Exclusion, NoRecords, NoEmptyEntry, Goto,
     Signalled, Flusher
<1>4. PayloadCovered' /\ RowsInFlight'
  BY <1>1 DEF IInv, TypeOK, PayloadCovered, RowsInFlight, Goto, Flusher
<1> QED
  BY <1>2, <1>3, <1>4 DEF IInv

(* The process ends, by itself or killed, or starts again. *)
LEMMA ProcessStep ==
    ASSUME IInv, Exit \/ Crash \/ Restart
    PROVE  IInv'
<1> USE ConstantsAssumption
<1>1. CASE Exit \/ Crash
  <2>1. ProcessEnds
    BY <1>1 DEF Exit, Crash
  <2>2. lost' \in [User -> SignedUsage]
    <3>1. \A u \in User : At(users, u) \in Usage /\ \A p \in Flusher : At(batch[p], u) \in Usage
      BY AtType DEF IInv, TypeOK
    <3>2. \A u \in User : NotSubtracted(u) \in Usage
      BY <3>1 DEF NotSubtracted, Plus, Zero, Usage, Flusher
    <3> QED
      BY <2>1, <3>1, <3>2 DEF ProcessEnds, Plus, Minus, Usage, SignedUsage,
         IInv, TypeOK
  <2>3. TypeOK'
    BY <2>1, <2>2, EmptyMapType DEF ProcessEnds, IInv, TypeOK, Flusher
  <2>4. Exclusion' /\ NoRecords' /\ NoEmptyEntry' /\ PayloadCovered' /\ RowsInFlight'
    BY <2>1, EmptyMapType DEF ProcessEnds, Exclusion, NoRecords, NoEmptyEntry,
       PayloadCovered, RowsInFlight, Flusher
  <2> QED
    BY <2>3, <2>4 DEF IInv
<1>2. CASE Restart
  <2>1. TypeOK'
    BY <1>2 DEF Restart, IInv, TypeOK, Flusher
  <2>2. Exclusion' /\ NoEmptyEntry' /\ PayloadCovered'
    BY <1>2 DEF Restart, IInv, Exclusion, NoEmptyEntry, PayloadCovered, Flusher
  <2>3. \A p \in Flusher : recs'[p] = {}
    BY <1>2 DEF Restart, Dead, IInv, Exclusion, NoRecords, Flusher
  <2>4. NoRecords' /\ RowsInFlight'
    BY <2>3 DEF NoRecords, RowsInFlight
  <2> QED
    BY <2>1, <2>2, <2>4 DEF IInv
<1> QED
  BY <1>1, <1>2

-----------------------------------------------------------------------------
(* The theorems *)

(* IInv is an inductive invariant of the specification. *)
THEOREM IInvariance == Spec => []IInv
<1>1. Init => IInv
  BY InitIInv
<1>2. IInv /\ [Next]_vars => IInv'
  <2> SUFFICES ASSUME IInv, [Next]_vars PROVE IInv'
    OBVIOUS
  <2>1. CASE \E u \in User, d \in Deltas : TrackUsage(u, d)
    BY <2>1, TrackUsageStep
  <2>2. ASSUME NEW p \in Flusher, PassStep(p) PROVE IInv'
    BY <2>2, FlushUsersSnapshotStep, PostOKStep, PostRejectedStep,
       TransportErrorStep, BackupStep, BackupFailsStep, SubtractStep,
       DrainStartStep, DrainScanStep, DrainScannedStep, DeleteStep
       DEF PassStep, PostReturns
  <2>3. CASE Tick \/ TickerStop \/ Signal \/ Join \/ ServerShutdown
    BY <2>3, MainStep
  <2>4. CASE Exit \/ Crash \/ Restart
    BY <2>4, ProcessStep
  <2>5. CASE UNCHANGED vars
    BY <2>5 DEF vars, procVars, ghostVars, IInv, TypeOK, Exclusion, NoRecords,
       PayloadCovered, RowsInFlight, NoEmptyEntry
  <2> QED
    BY <2>1, <2>2, <2>3, <2>4, <2>5 DEF Next
<1> QED
  BY <1>1, <1>2, PTL DEF Spec

(* Type correctness: in particular no delta in RAM, in a batch or in a row *)
(* of the backlog is ever negative.                                        *)
THEOREM TypeCorrect == Spec => []TypeOK
BY IInvariance, PTL DEF IInv

(* What a flush copied before its POST is still in RAM when it subtracts.  *)
THEOREM PayloadAlwaysCovered == Spec => []PayloadCovered
BY IInvariance, PTL DEF IInv

(* The rows a drain read stay in the table until that drain deletes them.  *)
THEOREM RowsStayInFlight == Spec => []RowsInFlight
BY IInvariance, PTL DEF IInv

(* The map of users never holds an entry without usage. *)
THEOREM EntriesNeverEmpty == Spec => []NoEmptyEntry
BY IInvariance, PTL DEF IInv

-----------------------------------------------------------------------------
(* Sums over the table are defined by recursion.  What they are is shown by *)
(* a least counterexample: a set of natural numbers that is not empty has a *)
(* least element.                                                           *)

Less == {ss \in Nat \X Nat : ss[1] < ss[2]}

LEMMA LessWellFounded == IsWellFoundedOn(Less, Nat)
  BY NatLessThanWellFounded, Zenon DEF OpToRel, Less

LEMMA LeastElement ==
    ASSUME NEW T \in SUBSET Nat, T # {}
    PROVE  \E x \in T : \A y \in T : x <= y
<1>1. PICK x \in T : \A y \in T : ~(<<y, x>> \in Less)
  BY LessWellFounded, WFMin
<1>2. ASSUME NEW y \in T, y < x PROVE FALSE
  <2>1. <<y, x>> \in Less
    BY <1>2 DEF Less
  <2> QED
    BY <1>1, <2>1
<1> QED
  BY <1>2

(* h holds the sums of c over the first n rowids. *)
AreSums(h, c, n) == h = [k \in 0 .. n |-> IF k = 0 THEN Zero ELSE Plus(h[k - 1], c[k])]

(* The sums exist. *)
LEMMA SumsExist ==
    ASSUME NEW c, NEW n \in Nat
    PROVE  \E h : AreSums(h, c, n)
<1> DEFINE T == {m \in Nat : ~\E h : AreSums(h, c, m)}
<1> SUFFICES ASSUME T # {} PROVE FALSE
  OBVIOUS
<1>1. PICK m \in T : \A y \in T : m <= y
  BY LeastElement
<1>2. CASE m = 0
  <2>1. AreSums([k \in 0 .. 0 |-> Zero], c, 0)
    BY DEF AreSums
  <2> QED
    BY <1>1, <1>2, <2>1
<1>3. CASE m # 0
  <2>1. m \in Nat /\ m - 1 \in Nat /\ m - 1 \notin T
    BY <1>1, <1>3
  <2>2. PICK h : AreSums(h, c, m - 1)
    BY <2>1
  <2> DEFINE e == [k \in 0 .. m |-> IF k = m THEN Plus(h[m - 1], c[m]) ELSE h[k]]
  <2>3. ASSUME NEW k \in 0 .. m
        PROVE  e[k] = IF k = 0 THEN Zero ELSE Plus(e[k - 1], c[k])
    <3>1. CASE k = m
      BY <2>1, <1>3, <3>1
    <3>2. CASE k # m
      <4>1. k \in 0 .. m - 1
        BY <2>1, <3>2
      <4>2. h[k] = IF k = 0 THEN Zero ELSE Plus(h[k - 1], c[k])
        BY <4>1, <2>2 DEF AreSums
      <4> QED
        BY <4>1, <4>2, <2>1
    <3> QED
      BY <3>1, <3>2
  <2>4. AreSums(e, c, m)
    <3> HIDE DEF e
    <3>1. e = [k \in 0 .. m |-> e[k]]
      BY DEF e
    <3> QED
      BY <2>3, <3>1 DEF AreSums
  <2> QED
    BY <1>1, <2>4
<1> QED
  BY <1>2, <1>3

(* Sums is the function its definition describes. *)
LEMMA SumsRecur ==
    ASSUME NEW c
    PROVE  /\ Sums(c)[0] = Zero
           /\ \A k \in RowId : Sums(c)[k] = Plus(Sums(c)[k - 1], c[k])
<1>1. PICK n \in Nat : n = MaxCredits
  BY ConstantsAssumption
<1>2. \E h : AreSums(h, c, n)
  BY SumsExist
<1>3. \E h : h = [k \in 0 .. MaxCredits |->
                    IF k = 0 THEN Zero ELSE Plus(h[k - 1], c[k])]
  BY <1>1, <1>2 DEF AreSums
<1>4. Sums(c) = [k \in 0 .. MaxCredits |->
                   IF k = 0 THEN Zero ELSE Plus(Sums(c)[k - 1], c[k])]
  BY <1>3, Zenon DEF Sums
<1>5. PICK o : o = Sums(c)
  OBVIOUS
<1>6. o = [k \in 0 .. n |-> IF k = 0 THEN Zero ELSE Plus(o[k - 1], c[k])]
  BY <1>1, <1>4, <1>5
<1>7. o[0] = Zero /\ \A k \in 1 .. n : o[k] = Plus(o[k - 1], c[k])
  BY <1>6
<1> QED
  BY <1>1, <1>5, <1>7 DEF RowId

(* Sums of counts are counts. *)
LEMMA SumsUsage ==
    ASSUME NEW c \in [RowId -> Usage]
    PROVE  \A k \in 0 .. MaxCredits : Sums(c)[k] \in Usage
<1> DEFINE T == {m \in 0 .. MaxCredits : Sums(c)[m] \notin Usage}
<1> SUFFICES ASSUME T # {} PROVE FALSE
  OBVIOUS
<1>1. T \in SUBSET Nat
  BY ConstantsAssumption
<1>2. PICK m \in T : \A y \in T : m <= y
  BY <1>1, LeastElement
<1>3. m # 0
  BY <1>2, SumsRecur DEF Usage, Zero
<1>4. m \in RowId /\ m - 1 \in 0 .. MaxCredits /\ m - 1 \notin T
  BY <1>2, <1>3, ConstantsAssumption DEF RowId
<1>5. Sums(c)[m] = Plus(Sums(c)[m - 1], c[m])
  BY <1>4, SumsRecur
<1> QED
  BY <1>2, <1>4, <1>5, PlusType

(* A change of one summand changes every sum that it is part of. *)
LEMMA SumsChange ==
    ASSUME NEW c \in [RowId -> Usage], NEW e \in [RowId -> Usage],
           NEW r \in RowId, NEW d \in Usage,
           e[r] = Plus(c[r], d), \A k \in RowId : k # r => e[k] = c[k]
    PROVE  Sums(e)[MaxCredits] = Plus(Sums(c)[MaxCredits], d)
<1> DEFINE T == {m \in 0 .. MaxCredits :
                   Sums(e)[m] # IF r <= m THEN Plus(Sums(c)[m], d) ELSE Sums(c)[m]}
<1>1. T \in SUBSET Nat /\ MaxCredits \in Nat /\ r \in Nat /\ r # 0
  BY ConstantsAssumption DEF RowId
<1>2. ASSUME T # {} PROVE FALSE
  <2>1. PICK m \in T : \A y \in T : m <= y
    BY <1>1, <1>2, LeastElement
  <2>2. m # 0
    BY <1>1, <2>1, SumsRecur
  <2>3. m \in RowId /\ m - 1 \in 0 .. MaxCredits /\ m - 1 \notin T
    BY <2>1, <2>2, ConstantsAssumption DEF RowId
  <2>4. Sums(c)[m] = Plus(Sums(c)[m - 1], c[m]) /\ Sums(e)[m] = Plus(Sums(e)[m - 1], e[m])
    BY <2>3, SumsRecur
  <2>5. PICK a, b, b2 : a = Sums(c)[m - 1] /\ b = c[m] /\ b2 = e[m]
    OBVIOUS
  <2>6. a \in Usage /\ b \in Usage
    BY <2>3, <2>5, SumsUsage
  <2>7. /\ Plus(a, Plus(b, d)) = Plus(Plus(a, b), d)
        /\ Plus(Plus(a, d), b) = Plus(Plus(a, b), d)
    BY <2>6 DEF Usage, Plus
  <2>8. Sums(e)[m - 1] = IF r <= m - 1 THEN Plus(a, d) ELSE a
    BY <2>3, <2>5
  <2>9. Sums(e)[m] # IF r <= m THEN Plus(Plus(a, b), d) ELSE Plus(a, b)
    BY <2>1, <2>4, <2>5
  <2> HIDE DEF T
  <2>10. CASE r = m
    <3>1. Sums(e)[m - 1] = a /\ b2 = Plus(b, d) /\ r <= m
      BY <1>1, <2>5, <2>8, <2>10
    <3> QED
      BY <2>4, <2>5, <2>7, <2>9, <3>1
  <2>11. CASE r < m
    <3>1. Sums(e)[m - 1] = Plus(a, d) /\ b2 = b /\ r <= m
      BY <1>1, <2>3, <2>5, <2>8, <2>11 DEF RowId
    <3> QED
      BY <2>4, <2>5, <2>7, <2>9, <3>1
  <2>12. CASE m < r
    <3>1. Sums(e)[m - 1] = a /\ b2 = b /\ ~(r <= m)
      BY <1>1, <2>3, <2>5, <2>8, <2>12 DEF RowId
    <3> QED
      BY <2>4, <2>5, <2>9, <3>1
  <2> QED
    BY <1>1, <2>3, <2>10, <2>11, <2>12 DEF RowId
<1>3. MaxCredits \in 0 .. MaxCredits /\ r <= MaxCredits /\ MaxCredits \notin T
  BY <1>1, <1>2 DEF RowId
<1> QED
  BY <1>3

(* Smaller summands, smaller sums. *)
LEMMA SumsLeq ==
    ASSUME NEW c \in [RowId -> Usage], NEW e \in [RowId -> Usage],
           \A k \in RowId : Leq(c[k], e[k])
    PROVE  Leq(Sums(c)[MaxCredits], Sums(e)[MaxCredits])
<1> DEFINE T == {m \in 0 .. MaxCredits : ~Leq(Sums(c)[m], Sums(e)[m])}
<1>1. T \in SUBSET Nat /\ MaxCredits \in Nat
  BY ConstantsAssumption
<1>2. ASSUME T # {} PROVE FALSE
  <2>1. PICK m \in T : \A y \in T : m <= y
    BY <1>1, <1>2, LeastElement
  <2>2. m # 0
    BY <1>1, <2>1, SumsRecur DEF Leq, Zero
  <2>3. m \in RowId /\ m - 1 \in 0 .. MaxCredits /\ m - 1 \notin T
    BY <2>1, <2>2, ConstantsAssumption DEF RowId
  <2>4. Sums(c)[m] = Plus(Sums(c)[m - 1], c[m]) /\ Sums(e)[m] = Plus(Sums(e)[m - 1], e[m])
    BY <2>3, SumsRecur
  <2>5. /\ Sums(c)[m - 1] \in Usage /\ Sums(e)[m - 1] \in Usage
        /\ c[m] \in Usage /\ e[m] \in Usage /\ Leq(c[m], e[m])
        /\ Leq(Sums(c)[m - 1], Sums(e)[m - 1])
    BY <2>3, SumsUsage
  <2>6. ~Leq(Sums(c)[m], Sums(e)[m])
    BY <2>1
  <2> HIDE DEF T
  <2> QED
    BY <2>4, <2>5, <2>6 DEF Usage, Plus, Leq
<1>3. MaxCredits \in 0 .. MaxCredits /\ MaxCredits \notin T
  BY <1>1, <1>2
<1> QED
  BY <1>3

-----------------------------------------------------------------------------
(* What the table holds of a user *)

IsTable(b) == DOMAIN b \subseteq RowId /\ \A r \in DOMAIN b : b[r] \in Row

RowsOf(b, u) == [r \in RowId |-> RowOf(b, u, r)]

LEMMA RowsOfType ==
    ASSUME NEW b, IsTable(b), NEW u
    PROVE  RowsOf(b, u) \in [RowId -> Usage]
<1>1. \A r \in RowId : RowOf(b, u, r) \in Usage
  BY DEF IsTable, RowOf, Row, Usage, Zero
<1> QED
  BY <1>1 DEF RowsOf

LEMMA InBacklogType ==
    ASSUME NEW b, IsTable(b), NEW u
    PROVE  InBacklog(b, u) \in Usage
<1>1. MaxCredits \in 0 .. MaxCredits
  BY ConstantsAssumption
<1> QED
  BY <1>1, RowsOfType, SumsUsage DEF InBacklog, RowsOf

(* A row more. *)
LEMMA RowAdded ==
    ASSUME NEW b, IsTable(b), NEW e, IsTable(e), NEW u, NEW r \in RowId,
           RowOf(b, u, r) = Zero,
           \A k \in RowId : k # r => RowOf(e, u, k) = RowOf(b, u, k)
    PROVE  InBacklog(e, u) = Plus(InBacklog(b, u), RowOf(e, u, r))
<1>1. PICK c, d : c = RowsOf(b, u) /\ d = RowsOf(e, u)
  OBVIOUS
<1>2. c \in [RowId -> Usage] /\ d \in [RowId -> Usage]
  BY <1>1, RowsOfType
<1>3. c[r] = Zero /\ d[r] = RowOf(e, u, r) /\ \A k \in RowId : k # r => d[k] = c[k]
  BY <1>1 DEF RowsOf
<1>4. d[r] \in Usage /\ Plus(c[r], d[r]) = d[r]
  BY <1>2, <1>3 DEF Usage, Plus, Zero
<1>5. Sums(d)[MaxCredits] = Plus(Sums(c)[MaxCredits], d[r])
  BY <1>2, <1>3, <1>4, SumsChange
<1> QED
  BY <1>1, <1>3, <1>5 DEF InBacklog, RowsOf

(* The same rows. *)
LEMMA RowsSame ==
    ASSUME NEW b, NEW e, NEW u, \A k \in RowId : RowOf(e, u, k) = RowOf(b, u, k)
    PROVE  InBacklog(e, u) = InBacklog(b, u)
<1>1. [r \in RowId |-> RowOf(e, u, r)] = [r \in RowId |-> RowOf(b, u, r)]
  OBVIOUS
<1> QED
  BY <1>1, Zenon DEF InBacklog

(* backupUsageToDB adds to the table what the batch holds of each user. *)
LEMMA InsertAdds ==
    ASSUME TypeOK, TypeOK', NEW p \in Flusher, Insert(p), NEW u \in User
    PROVE  InBacklog(backlog', u) = Plus(InBacklog(backlog, u), At(batch[p], u))
<1>1. PICK b, e, m : b = backlog /\ e = backlog' /\ m = batch[p]
  OBVIOUS
<1>2. IsTable(b) /\ IsTable(e) /\ IsUsageMap(m)
  BY <1>1 DEF TypeOK, IsTable
<1>3. PICK row \in [DOMAIN batch[p] -> RowId] :
         LET new == {row[v] : v \in DOMAIN batch[p]} IN
         /\ \A v, x \in DOMAIN batch[p] : v # x => row[v] # row[x]
         /\ Follows(DOMAIN backlog, new)
         /\ backlog' = [r \in DOMAIN backlog \cup new |->
                   IF r \in DOMAIN backlog THEN backlog[r]
                   ELSE LET v == CHOOSE x \in DOMAIN batch[p] : row[x] = r
                        IN [id |-> v, u |-> batch[p][v]]]
  BY Zenon DEF Insert
<1> DEFINE new == {row[v] : v \in DOMAIN m}
           by(r) == CHOOSE x \in DOMAIN m : row[x] = r
<1>11. /\ row \in [DOMAIN m -> RowId]
       /\ \A v, x \in DOMAIN m : v # x => row[v] # row[x]
       /\ Follows(DOMAIN b, new)
  BY <1>1, <1>3
<1>12. e = [r \in DOMAIN b \cup new |->
              IF r \in DOMAIN b THEN b[r] ELSE [id |-> by(r), u |-> m[by(r)]]]
  BY <1>1, <1>3
<1>4. DOMAIN e = DOMAIN b \cup new /\ \A r \in DOMAIN b : e[r] = b[r]
  BY <1>12
<1>5. \A v \in DOMAIN m : row[v] \in RowId /\ row[v] \notin DOMAIN b
  <2> SUFFICES ASSUME NEW v \in DOMAIN m, row[v] \in DOMAIN b PROVE FALSE
    BY <1>11
  <2>1. row[v] \in new /\ row[v] \in RowId
    BY <1>11
  <2>2. row[v] < row[v]
    BY <1>11, <2>1 DEF Follows
  <2> QED
    BY <2>1, <2>2, ConstantsAssumption DEF RowId
<1>6. \A v \in DOMAIN m : row[v] \in DOMAIN e /\ e[row[v]] = [id |-> v, u |-> m[v]]
  <2> SUFFICES ASSUME NEW v \in DOMAIN m
               PROVE  row[v] \in DOMAIN e /\ e[row[v]] = [id |-> v, u |-> m[v]]
    OBVIOUS
  <2>1. by(row[v]) = v
    BY <1>11
  <2>2. row[v] \in new
    OBVIOUS
  <2>3. e[row[v]] = [id |-> by(row[v]), u |-> m[by(row[v])]]
    <3> HIDE DEF by, new
    <3> QED
      BY <1>12, <1>5, <2>2
  <2> QED
    BY <1>4, <2>1, <2>2, <2>3
<1>7. \A k \in RowId : k \in DOMAIN b \/ k \notin new => RowOf(e, u, k) = RowOf(b, u, k)
  BY <1>4 DEF RowOf
<1>8. \A v \in DOMAIN m : /\ RowOf(b, u, row[v]) = Zero
                           /\ RowOf(e, u, row[v]) = IF v = u THEN m[v] ELSE Zero
  <2> SUFFICES ASSUME NEW v \in DOMAIN m
               PROVE  /\ RowOf(b, u, row[v]) = Zero
                      /\ RowOf(e, u, row[v]) = IF v = u THEN m[v] ELSE Zero
    OBVIOUS
  <2>1. RowOf(b, u, row[v]) = Zero
    BY <1>5 DEF RowOf
  <2>2. row[v] \in DOMAIN e /\ e[row[v]].id = v /\ e[row[v]].u = m[v]
    <3>1. PICK x, k : x = m[v] /\ k = e[row[v]]
      OBVIOUS
    <3>2. k = [id |-> v, u |-> x]
      BY <1>6, <3>1, Zenon
    <3>3. k.id = v /\ k.u = x
      BY <3>2
    <3> QED
      BY <1>6, <3>1, <3>3, Zenon
  <2>3. RowOf(e, u, row[v]) = IF v = u THEN m[v] ELSE Zero
    BY <2>2 DEF RowOf
  <2> QED
    BY <2>1, <2>3
<1>9. CASE u \in DOMAIN m
  <2>1. \A k \in RowId : k # row[u] => RowOf(e, u, k) = RowOf(b, u, k)
    <3> SUFFICES ASSUME NEW k \in RowId, k # row[u], k \in new, k \notin DOMAIN b
                 PROVE  RowOf(e, u, k) = RowOf(b, u, k)
      BY <1>7
    <3>1. PICK v \in DOMAIN m : k = row[v]
      OBVIOUS
    <3> QED
      BY <1>8, <3>1
  <2>2. /\ row[u] \in RowId /\ RowOf(b, u, row[u]) = Zero
        /\ RowOf(e, u, row[u]) = At(m, u)
    BY <1>5, <1>8, <1>9 DEF At
  <2>3. InBacklog(e, u) = Plus(InBacklog(b, u), RowOf(e, u, row[u]))
    BY <1>2, <2>1, <2>2, RowAdded
  <2> QED
    BY <1>1, <2>2, <2>3
<1>10. CASE u \notin DOMAIN m
  <2>1. \A k \in RowId : RowOf(e, u, k) = RowOf(b, u, k)
    <3> SUFFICES ASSUME NEW k \in RowId, k \in new PROVE RowOf(e, u, k) = RowOf(b, u, k)
      BY <1>7
    <3>1. PICK v \in DOMAIN m : k = row[v]
      OBVIOUS
    <3> QED
      BY <1>8, <1>10, <3>1
  <2>2. InBacklog(e, u) = InBacklog(b, u)
    BY <2>1, RowsSame
  <2>3. InBacklog(b, u) \in Usage
    BY <1>2, InBacklogType
  <2>4. Plus(InBacklog(b, u), Zero) = InBacklog(b, u)
    BY <2>3 DEF Usage, Plus, Zero
  <2> QED
    BY <1>1, <1>10, <2>2, <2>4 DEF At
<1> QED
  BY <1>9, <1>10

(* The DELETE of a row takes from the table what that row holds. *)
LEMMA DeleteTakes ==
    ASSUME NEW b, IsTable(b), NEW r \in DOMAIN b, NEW u
    PROVE  LET e == [k \in DOMAIN b \ {r} |-> b[k]] IN
           /\ IsTable(e)
           /\ InBacklog(b, u) = Plus(InBacklog(e, u), RowOf(b, u, r))
<1>1. PICK e : e = [k \in DOMAIN b \ {r} |-> b[k]]
  OBVIOUS
<1>2. IsTable(e) /\ r \in RowId
  BY <1>1 DEF IsTable
<1>3. RowOf(e, u, r) = Zero /\ \A k \in RowId : k # r => RowOf(b, u, k) = RowOf(e, u, k)
  BY <1>1 DEF RowOf
<1>4. InBacklog(b, u) = Plus(InBacklog(e, u), RowOf(b, u, r))
  BY <1>2, <1>3, RowAdded
<1> QED
  BY <1>1, <1>2, <1>4

-----------------------------------------------------------------------------
(* The balance of a user: what was credited (e), plus what the Hub counted  *)
(* and will be sent again (k), is what RAM (a) and the table (b) hold less  *)
(* what is delivered but not subtracted yet (n), what the Hub counted (h)   *)
(* and what was lost (l).                                                   *)
Balanced(e, k, a, b, n, h, l) ==
    Plus(e, k) = Plus(Plus(Minus(Plus(a, b), n), h), l)

(* The moves that keep a balance. *)
LEMMA BalanceMoves ==
    ASSUME NEW e \in SignedUsage, NEW k \in SignedUsage, NEW a \in SignedUsage,
           NEW b \in SignedUsage, NEW n \in SignedUsage, NEW h \in SignedUsage,
           NEW l \in SignedUsage, NEW d \in SignedUsage,
           Balanced(e, k, a, b, n, h, l)
    PROVE  /\ Balanced(Plus(e, d), k, Plus(a, d), b, n, h, l)
           /\ Balanced(e, k, a, b, Plus(n, d), Plus(h, d), l)
           /\ Balanced(e, Plus(k, d), a, b, n, Plus(h, d), l)
           /\ Balanced(e, k, a, Plus(b, d), Plus(n, d), h, l)
           /\ Balanced(e, k, Minus(a, d), b, Minus(n, d), h, l)
           /\ Balanced(e, Minus(k, d), a, Minus(b, d), n, h, l)
           /\ Balanced(e, k, Zero, b, Zero, h, Plus(l, Minus(a, n)))
<1>8. /\ e.uploaded + k.uploaded
           = a.uploaded + b.uploaded - n.uploaded + h.uploaded + l.uploaded
      /\ e.downloaded + k.downloaded
           = a.downloaded + b.downloaded - n.downloaded + h.downloaded
               + l.downloaded
  BY DEF Balanced, Plus, Minus, SignedUsage
<1>9. \A x \in {e, k, a, b, n, h, l, d} : x.uploaded \in Int /\ x.downloaded \in Int
  BY DEF SignedUsage
<1>1. Balanced(Plus(e, d), k, Plus(a, d), b, n, h, l)
  <2>1. (e.uploaded + d.uploaded) + k.uploaded
           = ((((a.uploaded + d.uploaded) + b.uploaded) - n.uploaded) + h.uploaded) + l.uploaded
    BY <1>8, <1>9
  <2>2. (e.downloaded + d.downloaded) + k.downloaded
           = ((((a.downloaded + d.downloaded) + b.downloaded) - n.downloaded)
                + h.downloaded) + l.downloaded
    BY <1>8, <1>9
  <2> QED
    BY <1>9, <2>1, <2>2 DEF Balanced, Plus, Minus
<1>2. Balanced(e, k, a, b, Plus(n, d), Plus(h, d), l)
  BY <1>8 DEF Balanced, Plus, Minus, SignedUsage, Zero
<1>3. Balanced(e, Plus(k, d), a, b, n, Plus(h, d), l)
  BY <1>8 DEF Balanced, Plus, Minus, SignedUsage, Zero
<1>4. Balanced(e, k, a, Plus(b, d), Plus(n, d), h, l)
  BY <1>8 DEF Balanced, Plus, Minus, SignedUsage, Zero
<1>5. Balanced(e, k, Minus(a, d), b, Minus(n, d), h, l)
  BY <1>8 DEF Balanced, Plus, Minus, SignedUsage, Zero
<1>6. Balanced(e, Minus(k, d), a, Minus(b, d), n, h, l)
  <2>1. e.uploaded + (k.uploaded - d.uploaded)
           = (((a.uploaded + (b.uploaded - d.uploaded)) - n.uploaded) + h.uploaded) + l.uploaded
    BY <1>8, <1>9
  <2>2. e.downloaded + (k.downloaded - d.downloaded)
           = (((a.downloaded + (b.downloaded - d.downloaded)) - n.downloaded)
                + h.downloaded) + l.downloaded
    BY <1>8, <1>9
  <2> QED
    BY <1>9, <2>1, <2>2 DEF Balanced, Plus, Minus
<1>7. Balanced(e, k, Zero, b, Zero, h, Plus(l, Minus(a, n)))
  BY <1>8 DEF Balanced, Plus, Minus, SignedUsage, Zero
<1> QED
  BY <1>1, <1>2, <1>3, <1>4, <1>5, <1>6, <1>7

(* Sums and differences undo each other. *)
LEMMA Undo ==
    ASSUME NEW a \in SignedUsage, NEW b \in SignedUsage
    PROVE  /\ Plus(a, b) \in SignedUsage /\ Minus(a, b) \in SignedUsage
           /\ Minus(Plus(a, b), b) = a
           /\ Plus(a, b) = Plus(b, a)
           /\ Plus(a, Zero) = a /\ Plus(Zero, a) = a /\ Minus(a, Zero) = a
BY DEF Plus, Minus, SignedUsage, Zero

(* Counts are signed counts. *)
LEMMA UsageSigned == Usage \subseteq SignedUsage /\ Zero \in Usage
BY DEF Usage, SignedUsage, Zero

Books(u) == Balanced(earned[u], unacked[u], At(users, u), InBacklog(backlog, u),
                     NotSubtracted(u), hub[u], lost[u])

(* Conservation is a balance for every user. *)
LEMMA ConservationIsBooks == Conservation <=> \A u \in User : Books(u)
BY DEF Conservation, Books, Balanced, Owed

(* What goroutine q delivered and has still to subtract. *)
NS(q, u) == IF pc[q] = "subtract" THEN At(batch[q], u) ELSE Zero

LEMMA NotSubtractedIs ==
    ASSUME NEW u
    PROVE  NotSubtracted(u) = Plus(NS("ticker", u), NS("final", u))
BY DEF NotSubtracted, NS

(* The terms of a balance are counts of bytes. *)
LEMMA BookTypes ==
    ASSUME TypeOK, NEW u \in User
    PROVE  /\ earned[u] \in SignedUsage /\ unacked[u] \in SignedUsage
           /\ At(users, u) \in SignedUsage
           /\ InBacklog(backlog, u) \in SignedUsage
           /\ NotSubtracted(u) \in SignedUsage
           /\ hub[u] \in SignedUsage /\ lost[u] \in SignedUsage
           /\ \A q \in Flusher : /\ NS(q, u) \in SignedUsage
                                 /\ At(batch[q], u) \in SignedUsage
<1>1. earned[u] \in Usage /\ unacked[u] \in SignedUsage /\ hub[u] \in Usage
      /\ lost[u] \in SignedUsage
  BY DEF TypeOK
<1>2. At(users, u) \in Usage /\ \A q \in Flusher : At(batch[q], u) \in Usage
  BY AtType DEF TypeOK
<1>3. IsTable(backlog)
  BY DEF TypeOK, IsTable
<1>4. InBacklog(backlog, u) \in Usage
  BY <1>3, InBacklogType
<1>5. \A q \in Flusher : NS(q, u) \in SignedUsage
  BY <1>2, UsageSigned DEF NS
<1>6. NotSubtracted(u) \in SignedUsage
  BY <1>5, NotSubtractedIs, Undo DEF Flusher
<1> QED
  BY <1>1, <1>2, <1>4, <1>5, <1>6, UsageSigned

(* A step of goroutine p alone. *)
LEMMA NotSubtractedStep ==
    ASSUME TypeOK, TypeOK', NEW p \in Flusher, NEW u \in User,
           \A q \in Flusher \ {p} : pc'[q] = pc[q] /\ batch'[q] = batch[q]
    PROVE  /\ NS(p, u)' = NS(p, u) => NotSubtracted(u)' = NotSubtracted(u)
           /\ NS(p, u) = Zero => NotSubtracted(u)' = Plus(NotSubtracted(u), NS(p, u)')
           /\ NS(p, u)' = Zero => NotSubtracted(u)' = Minus(NotSubtracted(u), NS(p, u))
<1>1. \A q \in Flusher \ {p} : NS(q, u)' = NS(q, u)
  BY DEF NS
<1>2. PICK s, t, s2, t2 : /\ s = NS("ticker", u) /\ s2 = NS("ticker", u)'
                          /\ t = NS("final", u) /\ t2 = NS("final", u)'
  OBVIOUS
<1>3. /\ NotSubtracted(u) = Plus(s, t) /\ NotSubtracted(u)' = Plus(s2, t2)
  <2>1. NotSubtracted(u) = Plus(NS("ticker", u), NS("final", u))
    BY NotSubtractedIs
  <2>2. NotSubtracted(u)' = Plus(NS("ticker", u)', NS("final", u)')
    BY DEF NotSubtracted, NS
  <2> QED
    BY <1>2, <2>1, <2>2
<1>4. s \in SignedUsage /\ t \in SignedUsage
  BY <1>2, BookTypes DEF Flusher
<1>5. s2 \in SignedUsage /\ t2 \in SignedUsage
  <2>1. \A q \in Flusher : At(batch'[q], u) \in Usage
    BY AtType DEF TypeOK
  <2> QED
    BY <1>2, <2>1, UsageSigned DEF Flusher, NS
<1>6. CASE p = "ticker"
  BY <1>1, <1>2, <1>3, <1>4, <1>5, <1>6 DEF Flusher, Plus, Minus, Zero, SignedUsage
<1>7. CASE p = "final"
  BY <1>1, <1>2, <1>3, <1>4, <1>5, <1>7 DEF Flusher, Plus, Minus, Zero, SignedUsage
<1> QED
  BY <1>6, <1>7 DEF Flusher

-----------------------------------------------------------------------------
(* Every step keeps every balance. *)

(* A step that moves no byte: it starts or ends no subtraction. *)
LEMMA QuietStep ==
    ASSUME Conservation, UNCHANGED <<earned, unacked, users, backlog, hub, lost>>,
           \A q \in Flusher : /\ pc'[q] = "subtract" <=> pc[q] = "subtract"
                              /\ pc[q] = "subtract" => batch'[q] = batch[q]
    PROVE  Conservation'
<1>1. \A u \in User : NotSubtracted(u)' = NotSubtracted(u)
  BY DEF NotSubtracted, Flusher
<1>2. \A u \in User : Owed(u)' = Owed(u)
  BY <1>1 DEF Owed
<1> QED
  BY <1>2 DEF Conservation

(* An announce credits a user: RAM gains what was earned. *)
LEMMA TrackBooks ==
    ASSUME IInv, IInv', Conservation, NEW v \in User, NEW d \in Deltas, TrackUsage(v, d)
    PROVE  Conservation'
<1> SUFFICES ASSUME NEW u \in User PROVE Books(u)'
  BY DEF Conservation, Books, Balanced, Owed
<1>1. Books(u)
  BY ConservationIsBooks
<1>2. NotSubtracted(u)' = NotSubtracted(u)
  BY DEF NotSubtracted, TrackUsage
<1>3. /\ unacked'[u] = unacked[u] /\ hub'[u] = hub[u] /\ lost'[u] = lost[u]
      /\ InBacklog(backlog', u) = InBacklog(backlog, u)
  BY DEF TrackUsage
<1>4. d \in SignedUsage
  BY ConstantsAssumption, UsageSigned
<1>5. CASE u = v
  <2>1. earned'[u] = Plus(earned[u], d) /\ At(users', u) = Plus(At(users, u), d)
    BY <1>5 DEF TrackUsage, Add, At, IInv, TypeOK
  <2>2. Balanced(Plus(earned[u], d), unacked[u], Plus(At(users, u), d),
                 InBacklog(backlog, u), NotSubtracted(u), hub[u], lost[u])
    BY <1>1, <1>4, BookTypes, BalanceMoves DEF Books, IInv
  <2> QED
    BY <1>2, <1>3, <2>1, <2>2 DEF Books
<1>6. CASE u # v
  <2>1. earned'[u] = earned[u] /\ At(users', u) = At(users, u)
    BY <1>6 DEF TrackUsage, Add, At, IInv, TypeOK
  <2> QED
    BY <1>1, <1>2, <1>3, <2>1 DEF Books
<1> QED
  BY <1>5, <1>6

(* The Hub counts a batch: what FlushUsers sent is to be subtracted, what  *)
(* DrainBacklog sent is still in the table.                                *)
LEMMA PostOKBooks ==
    ASSUME IInv, IInv', Conservation, NEW p \in Flusher, PostOK(p)
    PROVE  Conservation'
<1> SUFFICES ASSUME NEW u \in User PROVE Books(u)'
  BY DEF Conservation, Books, Balanced, Owed
<1>1. Books(u)
  BY ConservationIsBooks
<1>2. /\ earned'[u] = earned[u] /\ lost'[u] = lost[u]
      /\ At(users', u) = At(users, u)
      /\ InBacklog(backlog', u) = InBacklog(backlog, u)
      /\ hub'[u] = Plus(hub[u], At(batch[p], u))
  BY DEF PostOK, PlusMap
<1>3. \A q \in Flusher \ {p} : pc'[q] = pc[q] /\ batch'[q] = batch[q]
  BY DEF PostOK, Goto, IInv, TypeOK
<1>4. NS(p, u) = Zero
  BY DEF PostOK, Posting, NS
<1>5. CASE pc[p] = "post"
  <2>1. unacked'[u] = unacked[u] /\ NS(p, u)' = At(batch[p], u)
    BY <1>5 DEF PostOK, Goto, NS, IInv, TypeOK
  <2>2. NotSubtracted(u)' = Plus(NotSubtracted(u), At(batch[p], u))
    BY <1>3, <1>4, <2>1, NotSubtractedStep DEF IInv
  <2>3. Balanced(earned[u], unacked[u], At(users, u), InBacklog(backlog, u),
                 Plus(NotSubtracted(u), At(batch[p], u)),
                 Plus(hub[u], At(batch[p], u)), lost[u])
    BY <1>1, BookTypes, BalanceMoves DEF Books, IInv
  <2> QED
    BY <1>2, <2>1, <2>2, <2>3 DEF Books
<1>6. CASE pc[p] = "drainPost"
  <2>1. unacked'[u] = Plus(unacked[u], At(batch[p], u)) /\ NS(p, u)' = NS(p, u)
    BY <1>6 DEF PostOK, PlusMap, Goto, NS, IInv, TypeOK
  <2>2. NotSubtracted(u)' = NotSubtracted(u)
    BY <1>3, <2>1, NotSubtractedStep DEF IInv
  <2>3. Balanced(earned[u], Plus(unacked[u], At(batch[p], u)), At(users, u),
                 InBacklog(backlog, u), NotSubtracted(u),
                 Plus(hub[u], At(batch[p], u)), lost[u])
    BY <1>1, BookTypes, BalanceMoves DEF Books, IInv
  <2> QED
    BY <1>2, <2>1, <2>2, <2>3 DEF Books
<1> QED
  BY <1>5, <1>6 DEF PostOK, Posting

(* The Hub counts a batch and its answer is lost. *)
LEMMA ReplyLostBooks ==
    ASSUME IInv, IInv', Conservation, NEW p \in Flusher, PostReplyLost(p)
    PROVE  Conservation'
<1> SUFFICES ASSUME NEW u \in User PROVE Books(u)'
  BY DEF Conservation, Books, Balanced, Owed
<1>1. Books(u)
  BY ConservationIsBooks
<1>2. /\ earned'[u] = earned[u] /\ lost'[u] = lost[u]
      /\ At(users', u) = At(users, u)
      /\ InBacklog(backlog', u) = InBacklog(backlog, u)
      /\ hub'[u] = Plus(hub[u], At(batch[p], u))
      /\ unacked'[u] = Plus(unacked[u], At(batch[p], u))
  BY DEF PostReplyLost, PlusMap
<1>3. NotSubtracted(u)' = NotSubtracted(u)
  BY DEF PostReplyLost, TransportError, Return, Goto, Posting, AfterPass,
     NotSubtracted, IInv, TypeOK, Flusher
<1>4. Balanced(earned[u], Plus(unacked[u], At(batch[p], u)), At(users, u),
               InBacklog(backlog, u), NotSubtracted(u),
               Plus(hub[u], At(batch[p], u)), lost[u])
  BY <1>1, BookTypes, BalanceMoves DEF Books, IInv
<1> QED
  BY <1>2, <1>3, <1>4 DEF Books

(* The backup writes the batch to the table; RAM still holds it. *)
LEMMA BackupBooks ==
    ASSUME IInv, IInv', Conservation, NEW p \in Flusher, BackupUsageToDB(p)
    PROVE  Conservation'
<1> SUFFICES ASSUME NEW u \in User PROVE Books(u)'
  BY DEF Conservation, Books, Balanced, Owed
<1>1. Books(u)
  BY ConservationIsBooks
<1>2. /\ earned'[u] = earned[u] /\ lost'[u] = lost[u] /\ hub'[u] = hub[u]
      /\ unacked'[u] = unacked[u] /\ At(users', u) = At(users, u)
  BY DEF BackupUsageToDB, ghostVars
<1>3. InBacklog(backlog', u) = Plus(InBacklog(backlog, u), At(batch[p], u))
  BY InsertAdds DEF BackupUsageToDB, IInv
<1>4. \A q \in Flusher \ {p} : pc'[q] = pc[q] /\ batch'[q] = batch[q]
  BY DEF BackupUsageToDB, Goto, IInv, TypeOK
<1>5. NS(p, u) = Zero /\ NS(p, u)' = At(batch[p], u)
  BY DEF BackupUsageToDB, Goto, NS, IInv, TypeOK
<1>6. NotSubtracted(u)' = Plus(NotSubtracted(u), At(batch[p], u))
  BY <1>4, <1>5, NotSubtractedStep DEF IInv
<1>7. Balanced(earned[u], unacked[u], At(users, u),
               Plus(InBacklog(backlog, u), At(batch[p], u)),
               Plus(NotSubtracted(u), At(batch[p], u)), hub[u], lost[u])
  BY <1>1, BookTypes, BalanceMoves DEF Books, IInv
<1> QED
  BY <1>2, <1>3, <1>6, <1>7 DEF Books

(* The subtraction takes the batch from RAM, an entry that reaches zero     *)
(* included: the batch is covered, so no entry is missing.                  *)
LEMMA SubtractBooks ==
    ASSUME IInv, IInv', Conservation, NEW p \in Flusher, Subtract(p)
    PROVE  Conservation'
<1> SUFFICES ASSUME NEW u \in User PROVE Books(u)'
  BY DEF Conservation, Books, Balanced, Owed
<1>1. Books(u)
  BY ConservationIsBooks
<1>2. /\ earned'[u] = earned[u] /\ lost'[u] = lost[u] /\ hub'[u] = hub[u]
      /\ unacked'[u] = unacked[u]
      /\ InBacklog(backlog', u) = InBacklog(backlog, u)
  BY DEF Subtract, ghostVars
<1>3. At(users', u) = Minus(At(users, u), At(batch[p], u))
  <2>1. CASE u \in DOMAIN batch[p]
    <3>1. u \in DOMAIN users /\ Remaining(p, u) = Minus(users[u], batch[p][u])
      BY <2>1 DEF Subtract, IInv, PayloadCovered, Remaining
    <3>2. At(users', u) = Remaining(p, u)
      BY <2>1, <3>1 DEF Subtract, At
    <3> QED
      BY <2>1, <3>1, <3>2 DEF At
  <2>2. CASE u \notin DOMAIN batch[p]
    <3>1. At(users', u) = At(users, u) /\ At(batch[p], u) = Zero
      BY <2>2 DEF Subtract, At, Remaining
    <3>2. Minus(At(users, u), Zero) = At(users, u)
      BY Undo, BookTypes DEF IInv
    <3> QED
      BY <3>1, <3>2
  <2> QED
    BY <2>1, <2>2
<1>4. \A q \in Flusher \ {p} : pc'[q] = pc[q] /\ batch'[q] = batch[q]
  BY DEF Subtract, Return, Goto, IInv, TypeOK
<1>5. NS(p, u)' = Zero /\ NS(p, u) = At(batch[p], u)
  BY DEF Subtract, Return, Goto, NS, IInv, TypeOK
<1>6. NotSubtracted(u)' = Minus(NotSubtracted(u), At(batch[p], u))
  BY <1>4, <1>5, NotSubtractedStep DEF IInv
<1>7. Balanced(earned[u], unacked[u], Minus(At(users, u), At(batch[p], u)),
               InBacklog(backlog, u), Minus(NotSubtracted(u), At(batch[p], u)),
               hub[u], lost[u])
  BY <1>1, BookTypes, BalanceMoves DEF Books, IInv
<1> QED
  BY <1>2, <1>3, <1>6, <1>7 DEF Books

(* The DELETE takes from the table a row the Hub has counted. *)
LEMMA DeleteBooks ==
    ASSUME IInv, IInv', Conservation, NEW p \in Flusher, DrainDelete(p)
    PROVE  Conservation'
<1> SUFFICES ASSUME NEW u \in User PROVE Books(u)'
  BY DEF Conservation, Books, Balanced, Owed
<1>1. Books(u)
  BY ConservationIsBooks
<1>2. PICK r \in recs[p] :
        /\ backlog' = [q \in DOMAIN backlog \ {r} |-> backlog[q]]
        /\ unacked' = [v \in User |-> IF r \in DOMAIN backlog /\ backlog[r].id = v
                                      THEN Minus(unacked[v], backlog[r].u)
                                      ELSE unacked[v]]
        /\ AfterRec(p, r)
  BY DEF DrainDelete
<1>3. /\ earned'[u] = earned[u] /\ lost'[u] = lost[u] /\ hub'[u] = hub[u]
      /\ At(users', u) = At(users, u)
  BY DEF DrainDelete
<1>4. pc[p] = "delete" /\ r \in DOMAIN backlog /\ IsTable(backlog)
  BY DEF DrainDelete, IInv, RowsInFlight, TypeOK, IsTable
<1>5. InBacklog(backlog, u) = Plus(InBacklog(backlog', u), RowOf(backlog, u, r))
      /\ IsTable(backlog')
  BY <1>2, <1>4, DeleteTakes
<1>6. RowOf(backlog, u, r) \in SignedUsage /\ InBacklog(backlog', u) \in SignedUsage
  <2>1. RowOf(backlog, u, r) \in Usage
    BY <1>4, UsageSigned DEF IsTable, RowOf, Row
  <2>2. InBacklog(backlog', u) \in Usage
    BY <1>5, InBacklogType
  <2> QED
    BY <2>1, <2>2, UsageSigned
<1>7. InBacklog(backlog', u) = Minus(InBacklog(backlog, u), RowOf(backlog, u, r))
  BY <1>5, <1>6, Undo
<1>8. unacked'[u] = Minus(unacked[u], RowOf(backlog, u, r))
  BY <1>2, <1>4, Undo, BookTypes DEF RowOf, IInv
<1>9. NotSubtracted(u)' = NotSubtracted(u)
  BY <1>2, <1>4 DEF AfterRec, Return, Goto, AfterPass, NotSubtracted, IInv, TypeOK, Flusher
<1>10. Balanced(earned[u], Minus(unacked[u], RowOf(backlog, u, r)), At(users, u),
                Minus(InBacklog(backlog, u), RowOf(backlog, u, r)),
                NotSubtracted(u), hub[u], lost[u])
  BY <1>1, <1>6, BookTypes, BalanceMoves DEF Books, IInv
<1> QED
  BY <1>3, <1>7, <1>8, <1>9, <1>10 DEF Books

(* The process ends: what RAM held and nobody else does is lost. *)
LEMMA EndBooks ==
    ASSUME IInv, IInv', Conservation, ProcessEnds
    PROVE  Conservation'
<1> SUFFICES ASSUME NEW u \in User PROVE Books(u)'
  BY DEF Conservation, Books, Balanced, Owed
<1>1. Books(u)
  BY ConservationIsBooks
<1>2. /\ earned'[u] = earned[u] /\ hub'[u] = hub[u] /\ unacked'[u] = unacked[u]
      /\ InBacklog(backlog', u) = InBacklog(backlog, u)
      /\ lost'[u] = Plus(lost[u], Minus(At(users, u), NotSubtracted(u)))
  BY DEF ProcessEnds
<1>3. At(users', u) = Zero
  BY DEF ProcessEnds, At, EmptyMap
<1>4. NotSubtracted(u)' = Zero
  BY UsageSigned, Undo DEF ProcessEnds, NotSubtracted
<1>5. Balanced(earned[u], unacked[u], Zero, InBacklog(backlog, u), Zero, hub[u],
               Plus(lost[u], Minus(At(users, u), NotSubtracted(u))))
  BY <1>1, BookTypes, BalanceMoves DEF Books, IInv
<1> QED
  BY <1>2, <1>3, <1>4, <1>5 DEF Books

(* The other steps of a goroutine move no byte. *)
LEMMA QuietPassBooks ==
    ASSUME IInv, Conservation, NEW p \in Flusher,
           \/ FlushUsersSnapshot(p) \/ PostRejected(p) \/ PostUnreachable(p)
           \/ BackupFails(p) \/ DrainStart(p) \/ DrainScan(p) \/ DrainScanned(p)
           \/ DrainDeleteFails(p)
    PROVE  Conservation'
<1>1. UNCHANGED <<earned, unacked, users, backlog, hub, lost>>
  BY DEF FlushUsersSnapshot, PostRejected, PostUnreachable, BackupFails,
     DrainStart, DrainScan, DrainScanned, DrainDeleteFails, ghostVars
<1>2. pc[p] # "subtract" /\ pc'[p] # "subtract"
  BY DEF FlushUsersSnapshot, PostRejected, PostUnreachable, TransportError,
     BackupFails, DrainStart, DrainScan, DrainScanned, DrainDeleteFails, AfterRec,
     Posting, Return, Goto, AfterPass, IInv, TypeOK
<1>3. \A q \in Flusher \ {p} : pc'[q] = pc[q] /\ batch'[q] = batch[q]
  BY DEF FlushUsersSnapshot, PostRejected, PostUnreachable, TransportError,
     BackupFails, DrainStart, DrainScan, DrainScanned, DrainDeleteFails, AfterRec,
     Return, Goto, IInv, TypeOK
<1> QED
  BY <1>1, <1>2, <1>3, QuietStep

(* Nor do the goroutines of main. *)
LEMMA QuietMainBooks ==
    ASSUME IInv, Conservation,
           Tick \/ TickerStop \/ Signal \/ Join \/ ServerShutdown \/ Restart
    PROVE  Conservation'
<1>1. UNCHANGED <<earned, unacked, users, backlog, hub, lost, batch>>
  BY DEF Tick, TickerStop, Signal, Join, ServerShutdown, Restart, ghostVars
<1>2. \A q \in Flusher : pc'[q] = "subtract" <=> pc[q] = "subtract"
  BY DEF Tick, TickerStop, Signal, Join, ServerShutdown, Restart, Dead, Goto,
     IInv, Exclusion, TypeOK, Flusher
<1> QED
  BY <1>1, <1>2, QuietStep

(* A table without rows of u holds nothing of u. *)
LEMMA NoRows ==
    ASSUME NEW b, IsTable(b), NEW u, \A r \in RowId : RowOf(b, u, r) = Zero
    PROVE  InBacklog(b, u) = Zero
<1> DEFINE c == [r \in RowId |-> RowOf(b, u, r)]
           T == {m \in 0 .. MaxCredits : Sums(c)[m] # Zero}
<1>1. \A r \in RowId : c[r] = Zero
  OBVIOUS
<1>2. T \in SUBSET Nat /\ MaxCredits \in Nat
  BY ConstantsAssumption
<1>3. ASSUME T # {} PROVE FALSE
  <2> HIDE DEF c
  <2>1. PICK m \in T : \A y \in T : m <= y
    BY <1>2, <1>3, LeastElement
  <2>2. m # 0
    BY <2>1, SumsRecur
  <2>3. m \in RowId /\ m - 1 \in 0 .. MaxCredits /\ m - 1 \notin T
    BY <2>1, <2>2, ConstantsAssumption DEF RowId
  <2>4. Sums(c)[m] = Plus(Zero, Zero)
    BY <1>1, <2>3, SumsRecur
  <2> QED
    BY <2>1, <2>4, UsageSigned, Undo
<1>4. MaxCredits \in 0 .. MaxCredits /\ MaxCredits \notin T
  BY <1>2, <1>3
<1> QED
  BY <1>4 DEF InBacklog

(* At first there is nothing to account for. *)
LEMMA InitBooks == Init => Conservation
<1> SUFFICES ASSUME Init, NEW u \in User PROVE Books(u)
  BY ConservationIsBooks
<1>1. IsTable(backlog) /\ \A r \in RowId : RowOf(backlog, u, r) = Zero
  BY DEF Init, RowOf, IsTable
<1>3. InBacklog(backlog, u) = Zero
  BY <1>1, NoRows
<1>4. NotSubtracted(u) = Zero /\ At(users, u) = Zero
  BY UsageSigned, Undo DEF Init, NotSubtracted, At, EmptyMap
<1>5. earned[u] = Zero /\ unacked[u] = Zero /\ hub[u] = Zero /\ lost[u] = Zero
  BY DEF Init
<1>6. Balanced(Zero, Zero, Zero, Zero, Zero, Zero, Zero)
  BY DEF Balanced, Plus, Minus, Zero
<1> QED
  BY <1>3, <1>4, <1>5, <1>6 DEF Books

(* No credited byte is unaccounted for, and none is in two places but for  *)
(* those whose acknowledgement is outstanding.                             *)
THEOREM NothingUnaccounted == Spec => []Conservation
<1>1. IInv /\ IInv' /\ Conservation /\ [Next]_vars => Conservation'
  <2> SUFFICES ASSUME IInv, IInv', Conservation, [Next]_vars PROVE Conservation'
    OBVIOUS
  <2>1. CASE \E u \in User, d \in Deltas : TrackUsage(u, d)
    BY <2>1, TrackBooks
  <2>2. ASSUME NEW p \in Flusher, PassStep(p) PROVE Conservation'
    BY <2>2, QuietPassBooks, PostOKBooks, ReplyLostBooks, BackupBooks,
       SubtractBooks, DeleteBooks DEF PassStep, PostReturns
  <2>3. CASE Tick \/ TickerStop \/ Signal \/ Join \/ ServerShutdown \/ Restart
    BY <2>3, QuietMainBooks
  <2>4. CASE Exit \/ Crash
    BY <2>4, EndBooks DEF Exit, Crash
  <2>5. CASE UNCHANGED vars
    BY <2>5, QuietStep DEF vars, procVars, ghostVars
  <2> QED
    BY <2>1, <2>2, <2>3, <2>4, <2>5 DEF Next
<1> QED
  BY <1>1, InitBooks, IInvariance, PTL DEF Spec

-----------------------------------------------------------------------------
(* Exactly once.  A Hub that answers, a database that works, a server that  *)
(* shuts down in time and no kill: what the theorems below assume of an     *)
(* instance.                                                                *)
Dependable ==
    /\ HubConfigs \subseteq {TRUE}
    /\ HubOutcomes \subseteq {"ok", "rejected"}
    /\ MaxFaults = 0
    /\ ~ShutdownTimeouts
    /\ ~Crashes

(* The rows of the table b with an id in S. *)
Part(b, S) == [r \in DOMAIN b \cap S |-> b[r]]

(* A part of a table is a table. *)
LEMMA PartIsTable ==
    ASSUME NEW b, IsTable(b), NEW S
    PROVE  /\ IsTable(Part(b, S))
           /\ \A u, r : RowOf(Part(b, S), u, r) = IF r \in S THEN RowOf(b, u, r) ELSE Zero
<1>1. IsTable(Part(b, S))
  BY DEF IsTable, Part
<1>2. \A u, r : RowOf(Part(b, S), u, r) = IF r \in S THEN RowOf(b, u, r) ELSE Zero
  BY DEF Part, RowOf
<1> QED
  BY <1>1, <1>2

(* No ids, no bytes. *)
LEMMA EmptyPart ==
    ASSUME NEW b, IsTable(b), NEW u
    PROVE  InBacklog(Part(b, {}), u) = Zero
<1>1. PICK e : e = Part(b, {})
  OBVIOUS
<1>2. IsTable(e) /\ \A r : RowOf(e, u, r) = Zero
  BY <1>1, PartIsTable
<1> QED
  BY <1>1, <1>2, NoRows

(* A row more in the part. *)
LEMMA PartGrows ==
    ASSUME NEW b, IsTable(b), NEW S, NEW r \in DOMAIN b, r \notin S, NEW u
    PROVE  InBacklog(Part(b, S \cup {r}), u)
             = Plus(InBacklog(Part(b, S), u), RowOf(b, u, r))
<1>1. PICK e, g : e = Part(b, S) /\ g = Part(b, S \cup {r})
  OBVIOUS
<1>2. /\ IsTable(e) /\ \A k : RowOf(e, u, k) = IF k \in S THEN RowOf(b, u, k) ELSE Zero
      /\ IsTable(g) /\ \A k : RowOf(g, u, k) = IF k \in S \cup {r} THEN RowOf(b, u, k) ELSE Zero
      /\ r \in RowId
  BY <1>1, PartIsTable DEF IsTable
<1>3. RowOf(e, u, r) = Zero /\ RowOf(g, u, r) = RowOf(b, u, r)
      /\ \A k \in RowId : k # r => RowOf(g, u, k) = RowOf(e, u, k)
  BY <1>2
<1>4. InBacklog(g, u) = Plus(InBacklog(e, u), RowOf(g, u, r))
  BY <1>2, <1>3, RowAdded
<1> QED
  BY <1>1, <1>3, <1>4

(* A row less in the table and in the part. *)
LEMMA PartShrinks ==
    ASSUME NEW b, IsTable(b), NEW S, NEW r \in DOMAIN b, r \in S, NEW u
    PROVE  InBacklog(Part(b, S), u)
             = Plus(InBacklog(Part([k \in DOMAIN b \ {r} |-> b[k]], S \ {r}), u),
                    RowOf(b, u, r))
<1>1. Part([k \in DOMAIN b \ {r} |-> b[k]], S \ {r}) = Part(b, S \ {r})
  BY DEF Part
<1>2. (S \ {r}) \cup {r} = S
  OBVIOUS
<1>3. InBacklog(Part(b, (S \ {r}) \cup {r}), u)
        = Plus(InBacklog(Part(b, S \ {r}), u), RowOf(b, u, r))
  BY PartGrows
<1> QED
  BY <1>1, <1>2, <1>3

(* A part holds no more than the table. *)
LEMMA PartLeq ==
    ASSUME NEW b, IsTable(b), NEW S, NEW u
    PROVE  Leq(InBacklog(Part(b, S), u), InBacklog(b, u))
<1>1. PICK e : e = Part(b, S)
  OBVIOUS
<1>2. IsTable(e) /\ \A r : RowOf(e, u, r) = IF r \in S THEN RowOf(b, u, r) ELSE Zero
  BY <1>1, PartIsTable
<1>3. PICK c, d : c = RowsOf(e, u) /\ d = RowsOf(b, u)
  OBVIOUS
<1>4. c \in [RowId -> Usage] /\ d \in [RowId -> Usage]
  BY <1>2, <1>3, RowsOfType
<1>5. \A k \in RowId : c[k] = IF k \in S THEN d[k] ELSE Zero
  BY <1>2, <1>3 DEF RowsOf
<1>6. \A k \in RowId : Leq(c[k], d[k])
  BY <1>4, <1>5 DEF Leq, Usage, Zero
<1>7. Leq(Sums(c)[MaxCredits], Sums(d)[MaxCredits])
  BY <1>4, <1>6, SumsLeq
<1> QED
  BY <1>1, <1>3, <1>7 DEF InBacklog, RowsOf

-----------------------------------------------------------------------------
(* Once the server is closed no delta comes in, and the final pass empties  *)
(* RAM.                                                                     *)
Emptying ==
    /\ InPass("final") \/ pc["final"] = "exit" => srv = "closed"
    /\ pc["final"] \in {"post", "backup", "subtract"} => batch["final"] = users
    /\ pc["final"] \in {"drain", "scan", "drainPost", "delete", "exit"} =>
         users = EmptyMap

(* The payload of DrainBacklog is the rows it read. *)
BatchIsRows ==
    \A p \in Flusher, u \in User :
        pc[p] \notin {"post", "backup", "subtract", "delete"} =>
            At(batch[p], u) = InBacklog(Part(backlog, recs[p]), u)

(* What the Hub counted and the table still holds is the rows to delete. *)
Acked ==
    /\ \A p \in Flusher, u \in User : pc[p] = "delete" =>
          unacked[u] = InBacklog(Part(backlog, recs[p]), u)
    /\ (\A p \in Flusher : pc[p] # "delete") => \A u \in User : unacked[u] = Zero

OnceInv == /\ hubSet = TRUE
           /\ Emptying
           /\ BatchIsRows
           /\ Acked
           /\ ExitLosesNothing

(* While one goroutine is in its pass, the other waits and holds no rows. *)
LEMMA OthersWait ==
    ASSUME IInv, NEW p \in Flusher, InPass(p), NEW q \in Flusher \ {p}
    PROVE  pc[q] \in {"stopped", "signal", "join"} /\ recs[q] = {}
<1>1. pc[q] \in {"stopped", "signal", "join"}
  BY DEF InPass, IInv, Exclusion, TypeOK, Flusher
<1> QED
  BY <1>1 DEF IInv, NoRecords

(* OnceInv holds initially. *)
LEMMA InitOnce == ASSUME Dependable PROVE Init => OnceInv
<1> SUFFICES ASSUME Init PROVE OnceInv
  OBVIOUS
<1>1. IsTable(backlog)
  BY DEF Init, IsTable
<1>2. hubSet = TRUE /\ Emptying /\ ExitLosesNothing
  BY DEF Init, Dependable, Emptying, InPass, ExitLosesNothing
<1>3. BatchIsRows
  <2> SUFFICES ASSUME NEW p \in Flusher, NEW u \in User
               PROVE  At(batch[p], u) = InBacklog(Part(backlog, recs[p]), u)
    BY DEF BatchIsRows
  <2>1. recs[p] = {} /\ At(batch[p], u) = Zero
    BY DEF Init, At, EmptyMap
  <2> QED
    BY <1>1, <2>1, EmptyPart
<1>4. Acked
  BY DEF Init, Acked, Flusher
<1> QED
  BY <1>2, <1>3, <1>4 DEF OnceInv

(* A pass step of p that leaves the other goroutine alone keeps what the    *)
(* invariant says of that other.                                            *)
LEMMA OtherRows ==
    ASSUME IInv, IInv', OnceInv, NEW p \in Flusher, InPass(p),
           NEW q \in Flusher \ {p}, pc'[q] = pc[q], batch'[q] = batch[q],
           recs'[q] = recs[q], NEW u \in User
    PROVE  At(batch'[q], u) = InBacklog(Part(backlog', recs'[q]), u)
<1>1. pc[q] \in {"stopped", "signal", "join"} /\ recs[q] = {}
  BY OthersWait
<1>2. At(batch[q], u) = InBacklog(Part(backlog, {}), u)
  BY <1>1 DEF OnceInv, BatchIsRows
<1>3. IsTable(backlog) /\ IsTable(backlog')
  BY DEF IInv, TypeOK, IsTable
<1>4. InBacklog(Part(backlog, {}), u) = Zero /\ InBacklog(Part(backlog', {}), u) = Zero
  BY <1>3, EmptyPart
<1> QED
  BY <1>1, <1>2, <1>4

(* When p alone moves, BatchIsRows and Acked need only be shown for p. *)
LEMMA OnlyOwnRows ==
    ASSUME IInv, IInv', OnceInv, NEW p \in Flusher, InPass(p),
           \A q \in Flusher \ {p} : /\ pc'[q] = pc[q] /\ batch'[q] = batch[q]
                                    /\ recs'[q] = recs[q],
           \A u \in User : pc'[p] \notin {"post", "backup", "subtract", "delete"} =>
              At(batch'[p], u) = InBacklog(Part(backlog', recs'[p]), u),
           \A u \in User : IF pc'[p] = "delete"
                           THEN unacked'[u] = InBacklog(Part(backlog', recs'[p]), u)
                           ELSE unacked'[u] = Zero
    PROVE  BatchIsRows' /\ Acked'
<1>1. BatchIsRows'
  BY OtherRows DEF BatchIsRows
<1>2. \A q \in Flusher \ {p} : pc'[q] # "delete"
  BY OthersWait
<1>3. Acked'
  BY <1>2 DEF Acked
<1> QED
  BY <1>1, <1>3

(* Outside its delete loop, a goroutine in its pass owes no DELETE. *)
LEMMA NothingAcked ==
    ASSUME IInv, OnceInv, NEW p \in Flusher, InPass(p), pc[p] # "delete"
    PROVE  \A u \in User : unacked[u] = Zero
<1>1. \A q \in Flusher : pc[q] # "delete"
  BY OthersWait
<1> QED
  BY <1>1 DEF OnceInv, Acked

(* After a return nothing is held. *)
LEMMA Returned ==
    ASSUME IInv, IInv', NEW p \in Flusher, batch'[p] = EmptyMap, recs'[p] = {}
    PROVE  \A u \in User : At(batch'[p], u) = InBacklog(Part(backlog', recs'[p]), u)
<1>1. IsTable(backlog')
  BY DEF IInv, TypeOK, IsTable
<1>2. \A u \in User : At(batch'[p], u) = Zero
  BY DEF At, EmptyMap
<1> QED
  BY <1>1, <1>2, EmptyPart

(* The steps of a pass that change neither table nor Hub nor what is held. *)
LEMMA OnceSnapshot ==
    ASSUME IInv, IInv', OnceInv, NEW p \in Flusher, FlushUsersSnapshot(p)
    PROVE  OnceInv'
<1>1. InPass(p) /\ pc[p] = "users" /\ pc'[p] \in {"drain", "post"}
  BY DEF FlushUsersSnapshot, InPass, Goto, IInv, TypeOK
<1>2. \A q \in Flusher \ {p} : /\ pc'[q] = pc[q] /\ batch'[q] = batch[q]
                               /\ recs'[q] = recs[q]
  BY DEF FlushUsersSnapshot, Goto, IInv, TypeOK
<1>3. UNCHANGED <<backlog, recs, unacked, srv, users, hubSet, lost>>
  BY DEF FlushUsersSnapshot, ghostVars
<1>4. \A u \in User : pc'[p] \notin {"post", "backup", "subtract", "delete"} =>
         At(batch'[p], u) = InBacklog(Part(backlog', recs'[p]), u)
  <2>1. pc'[p] # "post" => batch'[p] = batch[p]
    BY DEF FlushUsersSnapshot, Goto, IInv, TypeOK
  <2> QED
    BY <1>1, <1>3, <2>1 DEF OnceInv, BatchIsRows
<1>5. \A u \in User : unacked'[u] = Zero
  BY <1>1, <1>3, NothingAcked
<1>6. BatchIsRows' /\ Acked'
  BY <1>1, <1>2, <1>4, <1>5, OnlyOwnRows
<1>7. Emptying'
  <2>1. pc'[p] = "post" => batch'[p] = users
    BY DEF FlushUsersSnapshot, Goto, IInv, TypeOK
  <2>2. pc'[p] = "drain" => users = EmptyMap
    BY DEF FlushUsersSnapshot, Goto, IInv, TypeOK, OnceInv
  <2>3. CASE p = "final"
    BY <2>1, <2>2, <2>3, <1>1, <1>3 DEF OnceInv, Emptying, InPass, Flusher
  <2>4. CASE p = "ticker"
    BY <2>4, <1>2, <1>3 DEF OnceInv, Emptying, InPass, Flusher
  <2> QED
    BY <2>3, <2>4 DEF Flusher
<1> QED
  BY <1>3, <1>6, <1>7 DEF OnceInv, ExitLosesNothing

(* Emptying is about the final goroutine, RAM and the server. *)
LEMMA EmptyingKept ==
    ASSUME IInv, IInv', OnceInv, NEW p \in Flusher, InPass(p),
           UNCHANGED <<users, srv>>,
           \A q \in Flusher \ {p} : pc'[q] = pc[q] /\ batch'[q] = batch[q],
           pc'[p] \in {"post", "backup", "subtract"} =>
              pc[p] \in {"post", "backup", "subtract"} /\ batch'[p] = batch[p],
           pc'[p] \in {"drain", "scan", "drainPost", "delete", "exit"} =>
              pc[p] \in {"drain", "scan", "drainPost", "delete"}
    PROVE  Emptying'
<1>1. CASE p = "final"
  BY <1>1 DEF OnceInv, Emptying, InPass, Flusher
<1>2. CASE p = "ticker"
  BY <1>2 DEF OnceInv, Emptying, InPass, Flusher
<1> QED
  BY <1>1, <1>2 DEF Flusher

(* The rows the Hub accepted are the rows to delete. *)
LEMMA OncePostOK ==
    ASSUME IInv, IInv', OnceInv, NEW p \in Flusher, PostOK(p)
    PROVE  OnceInv'
<1>1. InPass(p) /\ pc[p] \in {"post", "drainPost"}
      /\ pc'[p] = IF pc[p] = "post" THEN "subtract" ELSE "delete"
  BY DEF PostOK, Posting, InPass, Goto, IInv, TypeOK
<1>2. \A q \in Flusher \ {p} : /\ pc'[q] = pc[q] /\ batch'[q] = batch[q]
                               /\ recs'[q] = recs[q]
  BY DEF PostOK, Goto, IInv, TypeOK
<1>3. UNCHANGED <<backlog, batch, recs, srv, users, hubSet, lost>>
  BY DEF PostOK
<1>4. \A u \in User : IF pc'[p] = "delete"
                      THEN unacked'[u] = InBacklog(Part(backlog', recs'[p]), u)
                      ELSE unacked'[u] = Zero
  <2> SUFFICES ASSUME NEW u \in User
               PROVE  IF pc[p] = "drainPost"
                      THEN unacked'[u] = InBacklog(Part(backlog, recs[p]), u)
                      ELSE unacked'[u] = Zero
    BY <1>1, <1>3
  <2>1. unacked[u] = Zero
    BY <1>1, NothingAcked
  <2>2. CASE pc[p] = "post"
    BY <2>1, <2>2 DEF PostOK
  <2>3. CASE pc[p] = "drainPost"
    <3>1. unacked'[u] = Plus(Zero, At(batch[p], u))
      BY <2>1, <2>3 DEF PostOK, PlusMap
    <3>2. Plus(Zero, At(batch[p], u)) = At(batch[p], u)
      BY BookTypes, Undo DEF IInv
    <3>3. At(batch[p], u) = InBacklog(Part(backlog, recs[p]), u)
      BY <2>3 DEF OnceInv, BatchIsRows
    <3> QED
      BY <2>3, <3>1, <3>2, <3>3
  <2> QED
    BY <1>1, <2>2, <2>3
<1>5. BatchIsRows' /\ Acked'
  BY <1>1, <1>2, <1>4, OnlyOwnRows
<1>6. Emptying'
  BY <1>1, <1>2, <1>3, EmptyingKept
<1> QED
  BY <1>3, <1>5, <1>6 DEF OnceInv, ExitLosesNothing

(* A refused batch goes on to the backup; refused rows stay. *)
LEMMA OncePostRejected ==
    ASSUME IInv, IInv', OnceInv, NEW p \in Flusher, PostRejected(p)
    PROVE  OnceInv'
<1>1. /\ InPass(p) /\ pc[p] \in {"post", "drainPost"}
      /\ pc'[p] = IF pc[p] = "post" THEN "backup" ELSE AfterPass(p)
  BY DEF PostRejected, Posting, InPass, Return, Goto, IInv, TypeOK
<1>2. \A q \in Flusher \ {p} : /\ pc'[q] = pc[q] /\ batch'[q] = batch[q]
                               /\ recs'[q] = recs[q]
  BY DEF PostRejected, Return, Goto, IInv, TypeOK
<1>3. UNCHANGED <<backlog, unacked, srv, users, hubSet, lost>>
  BY DEF PostRejected, ghostVars
<1>4. /\ pc[p] = "post" => batch'[p] = batch[p]
      /\ pc[p] = "drainPost" => batch'[p] = EmptyMap /\ recs'[p] = {}
  BY DEF PostRejected, Return, IInv, TypeOK
<1>5. \A u \in User : pc'[p] \notin {"post", "backup", "subtract", "delete"} =>
         At(batch'[p], u) = InBacklog(Part(backlog', recs'[p]), u)
  BY <1>1, <1>4, Returned
<1>6. \A u \in User : unacked'[u] = Zero
  BY <1>1, <1>3, NothingAcked
<1>7. BatchIsRows' /\ Acked'
  BY <1>1, <1>2, <1>5, <1>6, OnlyOwnRows DEF AfterPass
<1>8. Emptying'
  BY <1>1, <1>2, <1>3, <1>4, EmptyingKept DEF AfterPass
<1> QED
  BY <1>3, <1>7, <1>8 DEF OnceInv, ExitLosesNothing

(* The backup touches no rows that were read. *)
LEMMA OnceBackup ==
    ASSUME IInv, IInv', OnceInv, NEW p \in Flusher, BackupUsageToDB(p)
    PROVE  OnceInv'
<1>1. InPass(p) /\ pc[p] = "backup" /\ pc'[p] = "subtract"
  BY DEF BackupUsageToDB, InPass, Goto, IInv, TypeOK
<1>2. \A q \in Flusher \ {p} : /\ pc'[q] = pc[q] /\ batch'[q] = batch[q]
                               /\ recs'[q] = recs[q]
  BY DEF BackupUsageToDB, Goto, IInv, TypeOK
<1>3. UNCHANGED <<batch, recs, unacked, srv, users, hubSet, lost>>
  BY DEF BackupUsageToDB, ghostVars
<1>4. \A u \in User : unacked'[u] = Zero
  BY <1>1, <1>3, NothingAcked
<1>5. BatchIsRows' /\ Acked'
  BY <1>1, <1>2, <1>4, OnlyOwnRows
<1>6. Emptying'
  BY <1>1, <1>2, <1>3, EmptyingKept
<1> QED
  BY <1>3, <1>5, <1>6 DEF OnceInv, ExitLosesNothing

(* The final subtraction, with no announce since the copy, empties RAM. *)
LEMMA OnceSubtract ==
    ASSUME IInv, IInv', OnceInv, NEW p \in Flusher, Subtract(p)
    PROVE  OnceInv'
<1>1. InPass(p) /\ pc[p] = "subtract" /\ pc'[p] = "drain"
  BY DEF Subtract, InPass, Return, Goto, IInv, TypeOK
<1>2. \A q \in Flusher \ {p} : /\ pc'[q] = pc[q] /\ batch'[q] = batch[q]
                               /\ recs'[q] = recs[q]
  BY DEF Subtract, Return, Goto, IInv, TypeOK
<1>3. UNCHANGED <<backlog, unacked, srv, hubSet, lost>>
  BY DEF Subtract, ghostVars
<1>4. \A u \in User : unacked'[u] = Zero
  BY <1>1, <1>3, NothingAcked
<1>5. batch'[p] = EmptyMap /\ recs'[p] = {}
  BY DEF Subtract, Return, IInv, TypeOK
<1>6. BatchIsRows' /\ Acked'
  BY <1>1, <1>2, <1>4, <1>5, Returned, OnlyOwnRows
<1>7. CASE p = "final"
  <2>1. batch[p] = users
    BY <1>1, <1>7 DEF OnceInv, Emptying
  <2>2. \A u \in DOMAIN users : Remaining(p, u) = Zero
    <3>1. \A u \in DOMAIN users : users[u] \in Usage
      BY DEF IInv, TypeOK, IsUsageMap
    <3>2. \A x \in Usage : Minus(x, x) = Zero
      BY DEF Usage, Minus, Zero
    <3> QED
      BY <2>1, <3>1, <3>2 DEF Remaining
  <2>3. {v \in DOMAIN users : v \notin DOMAIN batch[p] \/ Remaining(p, v) # Zero} = {}
    BY <2>1, <2>2
  <2>4. users' = EmptyMap
    BY <2>3 DEF Subtract, EmptyMap
  <2>5. srv' = "closed"
    BY <1>1, <1>3, <1>7 DEF OnceInv, Emptying
  <2> QED
    BY <1>1, <1>3, <1>6, <1>7, <2>4, <2>5 DEF OnceInv, Emptying, ExitLosesNothing
<1>8. CASE p = "ticker"
  <2>1. pc'["final"] \in {"signal", "join"}
    BY <1>1, <1>2, <1>8 DEF IInv, Exclusion, TypeOK, Flusher
  <2>2. Emptying'
    BY <2>1 DEF Emptying, InPass
  <2> QED
    BY <1>3, <1>6, <2>2 DEF OnceInv, ExitLosesNothing
<1> QED
  BY <1>7, <1>8 DEF Flusher

(* The query opens or is exhausted. *)
LEMMA OnceDrainStart ==
    ASSUME IInv, IInv', OnceInv, NEW p \in Flusher, DrainStart(p) \/ DrainScanned(p)
    PROVE  OnceInv'
<1>1. /\ InPass(p) /\ pc[p] \in {"drain", "scan"}
      /\ pc'[p] \in {"scan", "drainPost", AfterPass(p)}
  BY DEF DrainStart, DrainScanned, InPass, Goto, IInv, TypeOK
<1>2. \A q \in Flusher \ {p} : /\ pc'[q] = pc[q] /\ batch'[q] = batch[q]
                               /\ recs'[q] = recs[q]
  BY DEF DrainStart, DrainScanned, Goto, IInv, TypeOK
<1>3. UNCHANGED <<backlog, batch, recs, unacked, srv, users, hubSet, lost>>
  BY DEF DrainStart, DrainScanned, ghostVars
<1>4. \A u \in User : unacked'[u] = Zero
  BY <1>1, <1>3, NothingAcked
<1>5. \A u \in User : At(batch'[p], u) = InBacklog(Part(backlog', recs'[p]), u)
  BY <1>1, <1>3 DEF OnceInv, BatchIsRows
<1>6. BatchIsRows' /\ Acked'
  BY <1>1, <1>2, <1>4, <1>5, OnlyOwnRows DEF AfterPass
<1>7. Emptying'
  BY <1>1, <1>2, <1>3, EmptyingKept DEF AfterPass
<1> QED
  BY <1>3, <1>6, <1>7 DEF OnceInv, ExitLosesNothing

(* A row read is added to the payload. *)
LEMMA OnceDrainScan ==
    ASSUME IInv, IInv', OnceInv, NEW p \in Flusher, DrainScan(p)
    PROVE  OnceInv'
<1>1. PICK r \in DOMAIN backlog \ recs[p] :
        /\ recs' = [recs EXCEPT ![p] = @ \cup {r}]
        /\ batch' = [batch EXCEPT ![p] = Add(batch[p], backlog[r].id, backlog[r].u)]
  BY DEF DrainScan, Unread
<1>2. InPass(p) /\ pc[p] = "scan" /\ pc'[p] = "scan"
  BY DEF DrainScan, InPass
<1>3. \A q \in Flusher \ {p} : /\ pc'[q] = pc[q] /\ batch'[q] = batch[q]
                               /\ recs'[q] = recs[q]
  BY DEF DrainScan, IInv, TypeOK
<1>4. UNCHANGED <<backlog, unacked, srv, users, hubSet, lost>>
  BY DEF DrainScan, ghostVars
<1>5. \A u \in User : unacked'[u] = Zero
  BY <1>2, <1>4, NothingAcked
<1>6. recs'[p] = recs[p] \cup {r} /\ batch'[p] = Add(batch[p], backlog[r].id, backlog[r].u)
  BY <1>1 DEF IInv, TypeOK
<1>7. IsTable(backlog)
  BY DEF IInv, TypeOK, IsTable
<1>8. \A u \in User : At(batch'[p], u) = InBacklog(Part(backlog', recs'[p]), u)
  <2> SUFFICES ASSUME NEW u \in User
               PROVE  At(batch'[p], u) = InBacklog(Part(backlog, recs[p] \cup {r}), u)
    BY <1>4, <1>6
  <2>1. At(batch[p], u) = InBacklog(Part(backlog, recs[p]), u)
    BY <1>2 DEF OnceInv, BatchIsRows
  <2>2. At(batch'[p], u) = Plus(At(batch[p], u), RowOf(backlog, u, r))
    <3>1. Plus(At(batch[p], u), Zero) = At(batch[p], u)
      BY BookTypes, Undo DEF IInv
    <3>2. CASE backlog[r].id = u
      BY <1>6, <3>2 DEF Add, At, RowOf
    <3>3. CASE backlog[r].id # u
      BY <1>6, <3>1, <3>3 DEF Add, At, RowOf
    <3> QED
      BY <3>2, <3>3
  <2>3. InBacklog(Part(backlog, recs[p] \cup {r}), u)
          = Plus(InBacklog(Part(backlog, recs[p]), u), RowOf(backlog, u, r))
    BY <1>7, PartGrows
  <2> QED
    BY <2>1, <2>2, <2>3
<1>9. BatchIsRows' /\ Acked'
  BY <1>2, <1>3, <1>5, <1>8, OnlyOwnRows
<1>10. Emptying'
  BY <1>2, <1>3, <1>4, EmptyingKept
<1> QED
  BY <1>4, <1>9, <1>10 DEF OnceInv, ExitLosesNothing

(* A row deleted is no longer in the table, nor to be deleted. *)
LEMMA OnceDelete ==
    ASSUME IInv, IInv', OnceInv, NEW p \in Flusher, DrainDelete(p)
    PROVE  OnceInv'
<1>1. PICK r \in recs[p] :
        /\ backlog' = [q \in DOMAIN backlog \ {r} |-> backlog[q]]
        /\ unacked' = [v \in User |-> IF r \in DOMAIN backlog /\ backlog[r].id = v
                                      THEN Minus(unacked[v], backlog[r].u)
                                      ELSE unacked[v]]
        /\ AfterRec(p, r)
  BY DEF DrainDelete
<1>2. InPass(p) /\ pc[p] = "delete" /\ UNCHANGED <<users, srv, hubSet, lost>>
  BY DEF DrainDelete, InPass
<1>3. \A q \in Flusher \ {p} : /\ pc'[q] = pc[q] /\ batch'[q] = batch[q]
                               /\ recs'[q] = recs[q]
  BY <1>1 DEF AfterRec, Return, Goto, IInv, TypeOK
<1>4. r \in DOMAIN backlog /\ IsTable(backlog) /\ IsTable(backlog')
  BY <1>2 DEF IInv, RowsInFlight, TypeOK, IsTable
<1>5. recs'[p] = recs[p] \ {r}
  BY <1>1 DEF AfterRec, Return, IInv, TypeOK
<1>6. \/ pc'[p] = AfterPass(p) /\ batch'[p] = EmptyMap /\ recs'[p] = {}
      \/ pc'[p] = "delete"
  BY <1>1, <1>2 DEF AfterRec, Return, Goto, IInv, TypeOK
<1>7. \A u \in User : unacked'[u] = InBacklog(Part(backlog', recs'[p]), u)
  <2> SUFFICES ASSUME NEW u \in User
               PROVE  unacked'[u] = InBacklog(Part(backlog', recs[p] \ {r}), u)
    BY <1>5
  <2>1. unacked[u] = InBacklog(Part(backlog, recs[p]), u)
    BY <1>2 DEF OnceInv, Acked
  <2>2. InBacklog(Part(backlog, recs[p]), u)
          = Plus(InBacklog(Part(backlog', recs[p] \ {r}), u), RowOf(backlog, u, r))
    BY <1>1, <1>4, PartShrinks
  <2>3. RowOf(backlog, u, r) \in Usage
    BY <1>4, UsageSigned DEF IsTable, RowOf, Row
  <2>4. IsTable(Part(backlog', recs[p] \ {r}))
    BY <1>4, PartIsTable
  <2>5. InBacklog(Part(backlog', recs[p] \ {r}), u) \in Usage
    BY <2>4, InBacklogType
  <2>6. Minus(unacked[u], RowOf(backlog, u, r)) = InBacklog(Part(backlog', recs[p] \ {r}), u)
    BY <2>1, <2>2, <2>3, <2>5, UsageSigned, Undo
  <2>7. unacked'[u] = Minus(unacked[u], RowOf(backlog, u, r))
    BY <1>1, <1>4, Undo, BookTypes DEF RowOf, IInv
  <2> QED
    BY <2>6, <2>7
<1>8. \A u \in User : pc'[p] # "delete" => unacked'[u] = Zero
  BY <1>4, <1>6, <1>7, EmptyPart
<1>9. \A u \in User : pc'[p] \notin {"post", "backup", "subtract", "delete"} =>
         At(batch'[p], u) = InBacklog(Part(backlog', recs'[p]), u)
  BY <1>6, Returned
<1>10. BatchIsRows' /\ Acked'
  BY <1>2, <1>3, <1>7, <1>8, <1>9, OnlyOwnRows
<1>11. Emptying'
  BY <1>2, <1>3, <1>6, EmptyingKept DEF AfterPass
<1> QED
  BY <1>2, <1>10, <1>11 DEF OnceInv, ExitLosesNothing

(* No announce is served once the server is closed. *)
LEMMA OnceTrack ==
    ASSUME OnceInv, NEW v \in User, NEW d \in Deltas, TrackUsage(v, d)
    PROVE  OnceInv'
<1>1. UNCHANGED <<pc, batch, recs, srv, hubSet, backlog, unacked, lost>>
  BY DEF TrackUsage
<1>2. Emptying'
  BY <1>1 DEF OnceInv, Emptying, InPass, TrackUsage
<1>3. BatchIsRows' /\ Acked'
  BY <1>1 DEF OnceInv, BatchIsRows, Acked
<1> QED
  BY <1>1, <1>2, <1>3 DEF OnceInv, ExitLosesNothing

(* The goroutines of main move between their waits. *)
LEMMA OnceMain ==
    ASSUME Dependable, IInv, OnceInv,
           Tick \/ TickerStop \/ Signal \/ Join \/ ServerShutdown
    PROVE  OnceInv'
<1>1. UNCHANGED <<users, batch, recs, hubSet, backlog, unacked, lost>>
  BY DEF Tick, TickerStop, Signal, Join, ServerShutdown, ghostVars
<1>2. \A p \in Flusher : /\ pc'[p] = pc[p] \/ pc'[p] \in {"users", "stopped", "join", "shutdown"}
                         /\ pc'[p] = pc[p] \/ pc[p] \in {"select", "signal", "join", "shutdown"}
  BY DEF Tick, TickerStop, Signal, Join, ServerShutdown, Goto, IInv, TypeOK, Flusher
<1>3. Emptying'
  BY DEF Tick, TickerStop, Signal, Join, ServerShutdown, Goto, IInv, TypeOK, Flusher,
     Exclusion, OnceInv, Emptying, InPass, ghostVars, Dependable
<1>4. BatchIsRows'
  BY <1>1, <1>2 DEF OnceInv, BatchIsRows
<1>5. Acked'
  BY <1>1, <1>2 DEF OnceInv, Acked
<1> QED
  BY <1>1, <1>3, <1>4, <1>5 DEF OnceInv, ExitLosesNothing

(* The process ends with RAM empty. *)
LEMMA OnceExit ==
    ASSUME IInv, IInv', OnceInv, Exit
    PROVE  OnceInv'
<1>1. pc["final"] = "exit" /\ pc["ticker"] = "stopped" /\ users = EmptyMap
  BY DEF Exit, IInv, Exclusion, OnceInv, Emptying
<1>2. \A u \in User : lost'[u] = Zero
  <2> SUFFICES ASSUME NEW u \in User PROVE lost'[u] = Zero
    OBVIOUS
  <2>1. At(users, u) = Zero
    BY <1>1 DEF At, EmptyMap
  <2>2. NotSubtracted(u) = Zero
    BY <1>1, UsageSigned, Undo DEF NotSubtracted
  <2>3. lost'[u] = Plus(Zero, Minus(Zero, Zero))
    BY <2>1, <2>2 DEF Exit, ProcessEnds, OnceInv, ExitLosesNothing
  <2> QED
    BY <2>3, UsageSigned, Undo
<1>3. \A p \in Flusher : recs'[p] = {} /\ batch'[p] = EmptyMap /\ pc'[p] # "delete"
  BY DEF Exit, ProcessEnds, Flusher
<1>4. BatchIsRows'
  BY <1>3, Returned DEF BatchIsRows
<1>5. \A u \in User : unacked'[u] = Zero
  BY <1>1 DEF Exit, ProcessEnds, OnceInv, Acked, Flusher
<1>6. Acked'
  BY <1>3, <1>5 DEF Acked
<1>7. hubSet' = TRUE /\ Emptying'
  BY DEF Exit, ProcessEnds, OnceInv, Emptying, InPass
<1> QED
  BY <1>2, <1>4, <1>6, <1>7 DEF OnceInv, ExitLosesNothing

(* A new process starts with RAM empty. *)
LEMMA OnceRestart ==
    ASSUME Dependable, IInv, OnceInv, Restart
    PROVE  OnceInv'
<1>1. UNCHANGED <<users, batch, recs, backlog, unacked, lost>>
  BY DEF Restart
<1>2. pc["final"] = "dead" /\ pc["ticker"] = "stopped"
  BY DEF Restart, Dead, IInv, Exclusion
<1>3. pc'["final"] = "signal" /\ pc'["ticker"] = "select"
  BY DEF Restart
<1>4. BatchIsRows'
  BY <1>1, <1>2, <1>3 DEF OnceInv, BatchIsRows, Flusher
<1>5. Acked'
  BY <1>1, <1>2, <1>3 DEF OnceInv, Acked, Flusher
<1>6. hubSet' = TRUE /\ Emptying'
  BY <1>3 DEF Restart, Dependable, Emptying, InPass
<1> QED
  BY <1>1, <1>4, <1>5, <1>6 DEF OnceInv, ExitLosesNothing

(* What a dependable instance cannot do. *)
LEMMA NoFault ==
    ASSUME Dependable, IInv, NEW p \in Flusher
    PROVE  /\ ~PostUnreachable(p) /\ ~PostReplyLost(p) /\ ~BackupFails(p)
           /\ ~DrainDeleteFails(p) /\ ~Crash
<1>1. ~Fault
  BY DEF Dependable, Fault, IInv, TypeOK
<1> QED
  BY <1>1 DEF Dependable, PostUnreachable, PostReplyLost, BackupFails,
     DrainDeleteFails, Crash

(* Every step preserves OnceInv. *)
LEMMA OnceStep ==
    ASSUME Dependable, IInv, IInv', OnceInv, [Next]_vars
    PROVE  OnceInv'
<1>1. CASE \E u \in User, d \in Deltas : TrackUsage(u, d)
  BY <1>1, OnceTrack
<1>2. ASSUME NEW p \in Flusher, PassStep(p) PROVE OnceInv'
  BY <1>2, NoFault, OnceSnapshot, OncePostOK, OncePostRejected, OnceBackup,
     OnceSubtract, OnceDrainStart, OnceDrainScan, OnceDelete
     DEF PassStep, PostReturns
<1>3. CASE Tick \/ TickerStop \/ Signal \/ Join \/ ServerShutdown
  BY <1>3, OnceMain
<1>4. CASE Exit
  BY <1>4, OnceExit
<1>5. CASE Crash
  BY <1>5, NoFault DEF Flusher
<1>6. CASE Restart
  BY <1>6, OnceRestart
<1>7. CASE UNCHANGED vars
  BY <1>7 DEF vars, procVars, ghostVars, OnceInv, Emptying, InPass, BatchIsRows,
     Acked, ExitLosesNothing
<1> QED
  BY <1>1, <1>2, <1>3, <1>4, <1>5, <1>6, <1>7 DEF Next

(* OnceInv is an inductive invariant, on top of IInv, of a dependable       *)
(* instance: its final flush empties RAM, and what its Hub counted is in     *)
(* the table only until the delete loop is through.                         *)
THEOREM OnceInvariance == ASSUME Dependable PROVE Spec => []OnceInv
<1>1. Init => OnceInv
  BY InitOnce
<1>2. IInv /\ IInv' /\ OnceInv /\ [Next]_vars => OnceInv'
  BY OnceStep
<1> QED
  BY <1>1, <1>2, IInvariance, PTL DEF Spec

(* A graceful shutdown hands over every delta in RAM, to the Hub or to the  *)
(* table, when the Hub can be reached.                                      *)
THEOREM GracefulExit == ASSUME Dependable PROVE Spec => []ExitLosesNothing
BY OnceInvariance, PTL DEF OnceInv

-----------------------------------------------------------------------------
(* The refinement of UsageLedger *)

(* What the ledger calls owed. *)
Due(u) == Minus(Owed(u), unacked[u])

(* What is due, by Conservation. *)
LEMMA DueIs ==
    ASSUME TypeOK, Conservation, ExitLosesNothing, NEW u \in User
    PROVE  Due(u) = Minus(earned[u], hub[u])
<1>1. PICK e, k, a, b, n, h : /\ e = earned[u] /\ k = unacked[u] /\ a = At(users, u)
                              /\ b = InBacklog(backlog, u) /\ n = NotSubtracted(u)
                              /\ h = hub[u]
  OBVIOUS
<1>2. /\ e \in SignedUsage /\ k \in SignedUsage /\ a \in SignedUsage
      /\ b \in SignedUsage /\ n \in SignedUsage /\ h \in SignedUsage
  BY <1>1, BookTypes
<1>3. Plus(e, k) = Plus(Plus(Minus(Plus(a, b), n), h), Zero)
  BY <1>1 DEF Conservation, Owed, ExitLosesNothing
<1>4. Minus(Minus(Plus(a, b), n), k) = Minus(e, h)
  BY <1>2, <1>3 DEF Plus, Minus, Zero, SignedUsage
<1> QED
  BY <1>1, <1>4 DEF Due, Owed

(* A POST delivers no more than is owed. *)
LEMMA BatchOwed ==
    ASSUME IInv, OnceInv, NEW p \in Flusher, Posting(p), NEW u \in User
    PROVE  Leq(At(batch[p], u), Due(u))
<1>1. PICK a, b, g : /\ a = At(users, u) /\ b = InBacklog(backlog, u)
                     /\ g = At(batch[p], u)
  OBVIOUS
<1>2. /\ IsTable(backlog) /\ IsUsageMap(users) /\ IsUsageMap(batch[p])
  BY DEF IInv, TypeOK, IsTable
<1>3. a \in Usage /\ b \in Usage /\ g \in Usage
  BY <1>1, <1>2, AtType, InBacklogType
<1>4. InPass(p) /\ pc[p] \in {"post", "drainPost"}
  BY DEF Posting, InPass
<1>5. unacked[u] = Zero
  BY <1>4, NothingAcked
<1>6. NotSubtracted(u) = Zero
  <2>1. \A q \in Flusher : pc[q] # "subtract"
    BY <1>4, OthersWait
  <2> QED
    BY <2>1, UsageSigned, Undo DEF NotSubtracted, Flusher
<1>7. Due(u) = Minus(Minus(Plus(a, b), Zero), Zero)
  BY <1>1, <1>5, <1>6 DEF Due, Owed
<1>8. Leq(g, a) \/ Leq(g, b)
  <2>1. CASE pc[p] = "post"
    <3>1. u \in DOMAIN batch[p] => u \in DOMAIN users /\ Leq(batch[p][u], users[u])
      BY <2>1 DEF IInv, PayloadCovered
    <3>2. Leq(Zero, a)
      BY <1>3 DEF Leq, Zero, Usage
    <3> QED
      BY <1>1, <3>1, <3>2 DEF At
  <2>2. CASE pc[p] = "drainPost"
    <3>1. g = InBacklog(Part(backlog, recs[p]), u)
      BY <1>1, <2>2 DEF OnceInv, BatchIsRows
    <3> QED
      BY <1>1, <1>2, <3>1, PartLeq
  <2> QED
    BY <1>4, <2>1, <2>2
<1>9. Leq(g, Minus(Minus(Plus(a, b), Zero), Zero))
  BY <1>3, <1>8 DEF Leq, Minus, Plus, Zero, Usage
<1> QED
  BY <1>1, <1>7, <1>9

(* At first nothing is owed and nothing paid. *)
LEMMA LedgerInit == Init => Ledger!Init
<1> SUFFICES ASSUME Init PROVE Ledger!Init
  OBVIOUS
<1>1. TypeOK /\ Conservation /\ ExitLosesNothing
  BY InitIInv, InitBooks DEF IInv, Init, ExitLosesNothing
<1>2. \A u \in User : Due(u) = Zero
  <2> SUFFICES ASSUME NEW u \in User PROVE Due(u) = Zero
    OBVIOUS
  <2>1. Due(u) = Minus(Zero, Zero)
    BY <1>1, DueIs DEF Init
  <2> QED
    BY <2>1, UsageSigned, Undo
<1>3. [u \in User |-> Minus(Owed(u), unacked[u])] = [u \in User |-> Zero]
  BY <1>2 DEF Due
<1> QED
  BY <1>3 DEF Init, Ledger!Init, Zero

(* What is due was credited and not counted. *)
DueIsRest == \A u \in User : Due(u) = Minus(earned[u], hub[u])

(* By Conservation, with nothing lost. *)
LEMMA DueNow == TypeOK /\ Conservation /\ ExitLosesNothing => DueIsRest
BY DueIs DEF DueIsRest

(* A step that neither credits nor delivers is invisible. *)
LEMMA LedgerQuiet ==
    ASSUME DueIsRest, DueIsRest', UNCHANGED <<earned, hub>>
    PROVE  UNCHANGED <<earned, [u \in User |-> Minus(Owed(u), unacked[u])], hub>>
<1>1. \A u \in User : Due(u)' = Due(u)
  BY DEF DueIsRest
<1>2. [u \in User |-> Minus(Owed(u), unacked[u])]' = [u \in User |-> Minus(Owed(u), unacked[u])]
  BY <1>1 DEF Due
<1> QED
  BY <1>2

(* An announce is a credit. *)
LEMMA LedgerCredit ==
    ASSUME TypeOK, DueIsRest, DueIsRest', NEW v \in User, NEW d \in Deltas,
           TrackUsage(v, d)
    PROVE  Ledger!Credit(v)
<1>1. hub' = hub /\ earned'[v] = Plus(earned[v], d)
      /\ \A u \in User \ {v} : earned'[u] = earned[u]
  BY DEF TrackUsage, TypeOK
<1>2. \A u \in User \ {v} : Due(u)' = Due(u)
  BY <1>1 DEF DueIsRest
<1>3. /\ Due(v) = Minus(earned[v], hub[v])
      /\ Due(v)' = Minus(Plus(earned[v], d), hub[v])
  BY <1>1 DEF DueIsRest
<1>4. earned[v] \in Usage /\ hub[v] \in Usage /\ d \in Usage
  BY ConstantsAssumption DEF TypeOK
<1>5. PICK e, h, x, y : e = earned[v] /\ h = hub[v] /\ x = Due(v) /\ y = Due(v)'
  OBVIOUS
<1>6. /\ Plus(e, d)["uploaded"] >= e["uploaded"]
      /\ Plus(e, d)["downloaded"] >= e["downloaded"]
      /\ y["uploaded"] - x["uploaded"] = Plus(e, d)["uploaded"] - e["uploaded"]
      /\ y["downloaded"] - x["downloaded"] = Plus(e, d)["downloaded"] - e["downloaded"]
  BY <1>3, <1>4, <1>5 DEF Usage, Minus, Plus
<1>7. \A u \in User : Due(u) = Minus(Owed(u), unacked[u])
  BY DEF Due
<1>8. \A u \in User : Due(u)' = Minus(Owed(u), unacked[u])'
  BY DEF Due
<1> QED
  BY <1>1, <1>2, <1>5, <1>6, <1>7, <1>8 DEF Ledger!Credit, Ledger!Fields

(* A POST that the Hub accepts is a delivery. *)
LEMMA LedgerDeliver ==
    ASSUME IInv, OnceInv, DueIsRest, DueIsRest', NEW p \in Flusher, PostOK(p)
    PROVE  Ledger!Deliver
<1>1. Posting(p) /\ earned' = earned /\ hub' = PlusMap(hub, batch[p])
  BY DEF PostOK
<1>2. ASSUME NEW u \in User
      PROVE  \A f \in Ledger!Fields :
                /\ Due(u)'[f] \in 0 .. Due(u)[f]
                /\ hub'[u][f] = hub[u][f] + (Due(u)[f] - Due(u)'[f])
  <2>1. PICK e, h, x, y, g : /\ e = earned[u] /\ h = hub[u] /\ x = Due(u)
                             /\ y = Due(u)' /\ g = At(batch[p], u)
    OBVIOUS
  <2>2. e \in Usage /\ h \in Usage
    BY <2>1 DEF IInv, TypeOK
  <2>3. g \in Usage
    BY <2>1, AtType DEF IInv, TypeOK
  <2>4. hub'[u] = Plus(h, g)
    BY <1>1, <2>1 DEF PlusMap
  <2>5. x = Minus(e, h) /\ y = Minus(e, Plus(h, g))
    BY <1>1, <2>1, <2>4 DEF DueIsRest
  <2>6. Leq(g, x)
    BY <1>1, <2>1, BatchOwed
  <2>7. /\ y["uploaded"] \in 0 .. x["uploaded"]
        /\ y["downloaded"] \in 0 .. x["downloaded"]
        /\ Plus(h, g)["uploaded"] = h["uploaded"] + (x["uploaded"] - y["uploaded"])
        /\ Plus(h, g)["downloaded"] = h["downloaded"] + (x["downloaded"] - y["downloaded"])
    BY <2>2, <2>3, <2>5, <2>6 DEF Usage, Minus, Plus, Leq
  <2> QED
    BY <2>1, <2>4, <2>7 DEF Ledger!Fields
<1>3. \A u \in User : Due(u) = Minus(Owed(u), unacked[u])
  BY DEF Due
<1>4. \A u \in User : Due(u)' = Minus(Owed(u), unacked[u])'
  BY DEF Due
<1> QED
  BY <1>1, <1>2, <1>3, <1>4 DEF Ledger!Deliver

(* Every other step neither credits nor delivers. *)
LEMMA LedgerOther ==
    ASSUME Dependable, IInv, [Next]_vars,
           ~\E u \in User, d \in Deltas : TrackUsage(u, d),
           ~\E p \in Flusher : PostOK(p)
    PROVE  UNCHANGED <<earned, hub>>
<1>1. ASSUME NEW p \in Flusher, PassStep(p) PROVE UNCHANGED <<earned, hub>>
  BY <1>1, NoFault DEF PassStep, PostReturns, FlushUsersSnapshot, PostRejected,
     BackupUsageToDB, Subtract, DrainStart, DrainScan, DrainScanned, DrainDelete,
     ghostVars
<1>2. CASE Tick \/ TickerStop \/ Signal \/ Join \/ ServerShutdown
  BY <1>2 DEF Tick, TickerStop, Signal, Join, ServerShutdown, ghostVars
<1>3. CASE Exit \/ Crash \/ Restart
  BY <1>3 DEF Exit, Crash, ProcessEnds, Restart
<1>4. CASE UNCHANGED vars
  BY <1>4 DEF vars, ghostVars
<1> QED
  BY <1>1, <1>2, <1>3, <1>4 DEF Next

(* The tracker implements the ledger: without lost answers and failed      *)
(* DELETEs every credited byte is delivered exactly once.                  *)
THEOREM DeliveredOnce == ASSUME Dependable PROVE Spec => ExactlyOnce
<1>1. Init => Ledger!Init
  BY LedgerInit
<1>2. IInv /\ OnceInv /\ DueIsRest /\ DueIsRest' /\ [Next]_vars
        => [Ledger!Next]_<<earned, [u \in User |-> Minus(Owed(u), unacked[u])], hub>>
  <2> SUFFICES ASSUME IInv, OnceInv, DueIsRest, DueIsRest', [Next]_vars
               PROVE  \/ Ledger!Next
                      \/ UNCHANGED <<earned, [u \in User |-> Minus(Owed(u), unacked[u])], hub>>
    OBVIOUS
  <2>1. CASE \E u \in User, d \in Deltas : TrackUsage(u, d)
    <3>1. PICK v \in User, d \in Deltas : TrackUsage(v, d)
      BY <2>1
    <3>2. Ledger!Credit(v)
      BY <3>1, LedgerCredit DEF IInv
    <3> QED
      BY <3>2 DEF Ledger!Next
  <2>2. CASE \E p \in Flusher : PostOK(p)
    BY <2>2, LedgerDeliver DEF Ledger!Next
  <2>3. CASE /\ ~\E u \in User, d \in Deltas : TrackUsage(u, d)
             /\ ~\E p \in Flusher : PostOK(p)
    BY <2>3, LedgerOther, LedgerQuiet
  <2> QED
    BY <2>1, <2>2, <2>3
<1>3. TypeOK /\ Conservation /\ ExitLosesNothing => DueIsRest
  BY DueNow
<1> QED
  BY <1>1, <1>2, <1>3, TypeCorrect, NothingUnaccounted, GracefulExit,
     IInvariance, OnceInvariance, PTL DEF Spec, ExactlyOnce, Ledger!Spec

=============================================================================
