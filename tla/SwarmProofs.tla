---------------------------- MODULE SwarmProofs ----------------------------
(***************************************************************************)
(* The download coordinator, for any number of pieces and workers, any     *)
(* addresses and any failures of dials, downloads and the disk.            *)
(***************************************************************************)
EXTENDS Swarm, FiniteSetTheorems, SequenceTheorems, TLAPS

Busy == {w \in Worker : HasConn(w) \/ pc[w] = "dial"}
Have == {p \in Piece : status[p] = "completed"}

Queued(p) == \E i \in 1 .. Len(work) : work[i] = p
Held(p)   == \E w \in Worker : Holds(w) /\ item[w] = p
Back(p)   == col = "requeue" /\ failed = p

(* A piece is in one place, and its state is the one that goes with it.    *)
InOnePlace ==
    /\ \A i, j \in 1 .. Len(work) : work[i] = work[j] => i = j
    /\ \A v, w \in Worker : Holds(v) /\ Holds(w) /\ item[v] = item[w] => v = w
    /\ \A p \in Piece : /\ ~(Queued(p) /\ Held(p))
                        /\ ~(Queued(p) /\ Back(p)) /\ ~(Held(p) /\ Back(p))

StateFits ==
    /\ \A w \in Worker : Holds(w) => item[w] \in Piece
    /\ col = "requeue" => failed \in Piece
    /\ \A i \in 1 .. Len(work) : status[work[i]] = "pending"
    /\ \A w \in Worker : /\ pc[w] = "got" => status[item[w]] = "pending"
                         /\ pc[w] \in {"download", "sendErr", "sendData"}
                              => status[item[w]] = "inprogress"
    /\ col = "requeue" => status[failed] = "pending"

(* Before ctx is cancelled, what is not completed is somewhere. *)
NoneLost == ~cancelled => \A p \in Piece :
              status[p] # "completed" => Queued(p) \/ Held(p) \/ Back(p)

(* The counters count. *)
Counted == inFlight = Cardinality(Busy) /\ completed = Cardinality(Have)

(* The end: a failed write leaves a piece out for good; the loops end when *)
(* all workers have, and Start after the supervisor.                       *)
Ending ==
    /\ col \in {"recv", "requeue"} => result = "none"
    /\ result = "disk" => Have # Piece
    /\ col # "returned" => result \in {"none", "disk"}
    /\ col \in {"wait", "returned"} => \A w \in Worker : pc[w] = "exit"
    /\ col \in {"drain", "wait", "returned"} => cancelled
    /\ col = "returned" => sup = "done"
    /\ sup = "poll" => confirms < Confirms

IInv == TypeOK /\ InOnePlace /\ StateFits /\ NoneLost /\ Counted /\ Ending

-----------------------------------------------------------------------------
(* Queues *)

(* What a queue holds after its head is taken, and after an element is put *)
(* at its end.                                                             *)
LEMMA QueueFacts ==
    ASSUME NEW S, NEW q \in Seq(S)
    PROVE  /\ q # <<>> => /\ 1 \in 1 .. Len(q) /\ Head(q) = q[1] /\ Head(q) \in S
                          /\ Tail(q) \in Seq(S) /\ Len(Tail(q)) = Len(q) - 1
                          /\ \A i \in 1 .. Len(Tail(q)) : Tail(q)[i] = q[i + 1]
           /\ \A e \in S : /\ Append(q, e) \in Seq(S) /\ Len(Append(q, e)) = Len(q) + 1
                            /\ \A i \in 1 .. Len(q) : Append(q, e)[i] = q[i]
                            /\ Append(q, e)[Len(q) + 1] = e
           /\ Len(q) \in Nat
           /\ \A i \in 1 .. Len(q) : q[i] \in S
<1>1. Len(q) \in Nat /\ \A i \in 1 .. Len(q) : q[i] \in S
  BY LenProperties, ElementOfSeq
<1>2. \A e \in S : /\ Append(q, e) \in Seq(S) /\ Len(Append(q, e)) = Len(q) + 1
                   /\ \A i \in 1 .. Len(q) : Append(q, e)[i] = q[i]
                   /\ Append(q, e)[Len(q) + 1] = e
  BY AppendProperties
<1>3. ASSUME q # <<>>
      PROVE  /\ 1 \in 1 .. Len(q) /\ Head(q) = q[1] /\ Head(q) \in S
             /\ Tail(q) \in Seq(S) /\ Len(Tail(q)) = Len(q) - 1
             /\ \A i \in 1 .. Len(Tail(q)) : Tail(q)[i] = q[i + 1]
  BY <1>3, HeadTailProperties, EmptySeq
<1> QED
  BY <1>1, <1>2, <1>3

-----------------------------------------------------------------------------
(* Types *)

QueueTypes == /\ work \in Seq(Piece) /\ Len(work) <= PieceCount
              /\ pool \in Seq(Addr) /\ Len(pool) <= PoolCap /\ known \subseteq Addr

PieceTypes == /\ status \in [Piece -> {"pending", "inprogress", "completed"}]
              /\ completed \in 0 .. PieceCount

WorkerTypes == /\ pc \in [Worker -> {"acquire", "took", "dial", "select", "got",
                                     "download", "sendErr", "sendData", "exit"}]
               /\ item \in [Worker -> 0 .. PieceCount]
               /\ slow \subseteq Worker

ControlTypes == /\ inFlight \in Int /\ exhausted \in BOOLEAN /\ cancelled \in BOOLEAN
                /\ col \in {"recv", "requeue", "drain", "wait", "returned"}
                /\ failed \in 0 .. PieceCount
                /\ result \in {"none", "ok", "disk", "exhausted", "died"}
                /\ sup \in {"poll", "done"}
                /\ confirms \in 0 .. Confirms

LEMMA TypeParts == TypeOK <=> QueueTypes /\ PieceTypes /\ WorkerTypes /\ ControlTypes
  BY DEF TypeOK, QueueTypes, PieceTypes, WorkerTypes, ControlTypes

LEMMA InitType == Init => TypeOK
<1> SUFFICES ASSUME Init PROVE TypeOK
  OBVIOUS
<1> USE ConstantsAssumption DEF Init
<1>1. work \in Seq(Piece) /\ Len(work) = PieceCount
  BY DEF Piece
<1>2. pool \in Seq(Addr) /\ Len(pool) <= PoolCap
  <2> DEFINE n == Least(Len(Seeds), PoolCap)
  <2>1. Len(Seeds) \in Nat /\ \A i \in 1 .. Len(Seeds) : Seeds[i] \in Addr
    BY QueueFacts
  <2>2. n \in Nat /\ n <= Len(Seeds) /\ n <= PoolCap
    BY <2>1 DEF Least
  <2> HIDE DEF n
  <2>3. \A i \in 1 .. n : Seeds[i] \in Addr
    BY <2>1, <2>2
  <2>4. SubSeq(Seeds, 1, n) \in Seq(Addr) /\ Len(SubSeq(Seeds, 1, n)) <= n
    BY <2>2, <2>3, SubSeqProperties
  <2> QED
    BY <2>2, <2>4 DEF n
<1>3. known \subseteq Addr
  BY <1>2, QueueFacts DEF Elems
<1>4. QueueTypes
  BY <1>1, <1>2, <1>3 DEF QueueTypes
<1>5. PieceTypes
  BY DEF PieceTypes
<1>7. WorkerTypes
  <2>1. pc = [w \in Worker |-> "acquire"] /\ item = [w \in Worker |-> 0] /\ slow = {}
    BY DEF NoPiece
  <2> HIDE DEF Init
  <2> QED
    BY <2>1 DEF WorkerTypes
<1>6. ControlTypes
  <2>1. /\ inFlight = 0 /\ exhausted = FALSE /\ cancelled = FALSE /\ col = "recv"
        /\ failed = 0 /\ result = "none" /\ sup = "poll" /\ confirms = 0
    BY DEF NoPiece
  <2> HIDE DEF Init
  <2>2. inFlight \in Int /\ failed \in 0 .. PieceCount /\ confirms \in 0 .. Confirms
    BY <2>1
  <2> QED
    BY <2>1, <2>2, Zenon DEF ControlTypes
<1> QED
  BY <1>4, <1>5, <1>6, <1>7, TypeParts

(* An address that peer exchange brings keeps the pool within its limit.   *)
LEMMA PexType ==
    ASSUME QueueTypes, AddPexPeers, UNCHANGED work
    PROVE  QueueTypes'
<1> USE DEF QueueTypes
<1>1. CASE UNCHANGED <<pool, known>>
  BY <1>1
<1>2. ASSUME NEW a \in Pex, AddPeer(a)
      PROVE  QueueTypes'
  <2>1. a \in Addr
    BY ConstantsAssumption
  <2>2. /\ Append(pool, a) \in Seq(Addr) /\ Len(Append(pool, a)) = Len(pool) + 1
        /\ Len(pool) \in Nat
    BY <2>1, QueueFacts
  <2>3. CASE UNCHANGED <<pool, known>>
    BY <2>3
  <2>4. CASE Len(pool) < PoolCap /\ pool' = Append(pool, a) /\ known' = known \cup {a}
    BY <2>1, <2>2, <2>4, ConstantsAssumption
  <2> QED
    BY <1>2, <2>3, <2>4 DEF AddPeer
<1> QED
  BY <1>1, <1>2 DEF AddPexPeers

(* A worker's result, once sent, leaves it without a piece. *)
LEMMA SentType ==
    ASSUME WorkerTypes, NEW w \in Worker, Sent(w), UNCHANGED slow
    PROVE  WorkerTypes'
<1>1. item' \in [Worker -> 0 .. PieceCount]
  BY ConstantsAssumption DEF WorkerTypes, Sent, NoPiece
<1>2. (IF pc[w] = "sendErr" THEN "acquire" ELSE "select") \in {"acquire", "select"}
  OBVIOUS
<1>3. pc' \in [Worker -> {"acquire", "took", "dial", "select", "got",
                         "download", "sendErr", "sendData", "exit"}]
  BY <1>2 DEF WorkerTypes, Sent, Goto
<1> QED
  BY <1>1, <1>3 DEF WorkerTypes

(* The invariant gives every step the types it needs. *)
LEMMA TypeStep == IInv /\ [Next]_vars => TypeOK'
<1> SUFFICES ASSUME IInv, [Next]_vars
             PROVE  QueueTypes' /\ PieceTypes' /\ WorkerTypes' /\ ControlTypes'
  BY DEF TypeOK, QueueTypes, PieceTypes, WorkerTypes, ControlTypes
<1> DEFINE Typed == QueueTypes' /\ PieceTypes' /\ WorkerTypes' /\ ControlTypes'
<1> USE DEF Goto, workerVars, colVars, supVars
<1>0. QueueTypes /\ PieceTypes /\ WorkerTypes /\ ControlTypes
  BY TypeParts DEF IInv
<1>c. PieceCount \in Nat \ {0} /\ Confirms \in Nat \ {0}
  BY ConstantsAssumption
<1>1. ASSUME NEW w \in Worker, TakeAddr(w) PROVE Typed
  <2>1. Tail(pool) \in Seq(Addr) /\ Len(Tail(pool)) <= PoolCap
    BY <1>0, <1>1, QueueFacts, ConstantsAssumption DEF TakeAddr, QueueTypes
  <2>2. QueueTypes' /\ PieceTypes'
    BY <1>0, <1>1, <2>1 DEF TakeAddr, QueueTypes, PieceTypes
  <2>3. WorkerTypes' /\ ControlTypes'
    BY <1>0, <1>1 DEF TakeAddr, WorkerTypes, ControlTypes
  <2> QED
    BY <2>2, <2>3
<1>2. ASSUME NEW w \in Worker,
             CountInFlight(w) \/ DialFails(w) \/ DialSucceeds(w) \/ WorkerExits(w)
      PROVE  Typed
  <2>1. QueueTypes' /\ PieceTypes'
    BY <1>0, <1>2 DEF CountInFlight, DialFails, DialSucceeds, WorkerExits, QueueTypes,
       PieceTypes
  <2>2. WorkerTypes'
    BY <1>0, <1>2 DEF CountInFlight, DialFails, DialSucceeds, WorkerExits, WorkerTypes
  <2>3. ControlTypes'
    BY <1>0, <1>2 DEF CountInFlight, DialFails, DialSucceeds, WorkerExits, ControlTypes
  <2> QED
    BY <2>1, <2>2, <2>3
<1>3. ASSUME NEW w \in Worker, TakeWork(w) PROVE Typed
  <2>1. /\ Tail(work) \in Seq(Piece) /\ Len(Tail(work)) <= PieceCount
        /\ Head(work) \in 0 .. PieceCount
    <3>1. Len(Tail(work)) = Len(work) - 1 /\ Len(work) \in Nat /\ Head(work) \in Piece
          /\ Tail(work) \in Seq(Piece)
      BY <1>0, <1>3, QueueFacts DEF TakeWork, QueueTypes
    <3> QED
      BY <1>0, <1>c, <3>1 DEF QueueTypes, Piece
  <2>2. QueueTypes' /\ PieceTypes'
    BY <1>0, <1>3, <2>1 DEF TakeWork, QueueTypes, PieceTypes
  <2>3. WorkerTypes'
    BY <1>0, <1>3, <2>1 DEF TakeWork, WorkerTypes
  <2>4. ControlTypes'
    BY <1>0, <1>3 DEF TakeWork, ControlTypes
  <2> QED
    BY <2>2, <2>3, <2>4
<1>4. ASSUME NEW w \in Worker, ClaimPiece(w) PROVE Typed
  <2>1. QueueTypes' /\ ControlTypes'
    BY <1>0, <1>4 DEF ClaimPiece, QueueTypes, ControlTypes
  <2>2. PieceTypes'
    BY <1>0, <1>4 DEF ClaimPiece, PieceTypes
  <2>3. WorkerTypes'
    BY <1>0, <1>4, <1>c DEF ClaimPiece, WorkerTypes, NoPiece
  <2> QED
    BY <2>1, <2>2, <2>3
<1>5. ASSUME NEW w \in Worker, DownloadFails(w) \/ DownloadSucceeds(w) PROVE Typed
  <2>1. QueueTypes'
    BY <1>0, <1>5, PexType DEF DownloadFails, DownloadSucceeds
  <2>2. PieceTypes' /\ ControlTypes'
    BY <1>0, <1>5 DEF DownloadFails, DownloadSucceeds, PieceTypes, ControlTypes
  <2>3. WorkerTypes'
    BY <1>0, <1>5 DEF DownloadFails, DownloadSucceeds, WorkerTypes
  <2> QED
    BY <2>1, <2>2, <2>3
<1>6. ASSUME NEW w \in Worker, CollectError(w) PROVE Typed
  <2>1. WorkerTypes'
    BY <1>0, <1>6, SentType DEF CollectError
  <2>2. QueueTypes' /\ PieceTypes'
    BY <1>0, <1>6 DEF CollectError, QueueTypes, PieceTypes
  <2>3. ControlTypes'
    BY <1>0, <1>6 DEF CollectError, WorkerTypes, ControlTypes
  <2> QED
    BY <2>1, <2>2, <2>3
<1>7. CASE Requeue
  <2>1. failed \in Piece
    BY <1>7 DEF Requeue, IInv, StateFits
  <2>2. /\ Append(work, failed) \in Seq(Piece) /\ Len(Append(work, failed)) = Len(work) + 1
        /\ Len(work) \in Nat
    BY <1>0, <2>1, QueueFacts DEF QueueTypes
  <2>3. work' \in Seq(Piece) /\ Len(work') <= PieceCount
    BY <1>0, <1>7, <1>c, <2>2 DEF Requeue, QueueTypes
  <2>4. QueueTypes' /\ PieceTypes'
    BY <1>0, <1>7, <2>3 DEF Requeue, QueueTypes, PieceTypes
  <2>5. WorkerTypes' /\ ControlTypes'
    BY <1>0, <1>7, <1>c DEF Requeue, WorkerTypes, ControlTypes, NoPiece
  <2> QED
    BY <2>4, <2>5
<1>8. ASSUME NEW w \in Worker, CollectPiece(w) PROVE Typed
  <2>1. item[w] \in Piece /\ status[item[w]] = "inprogress"
    BY <1>8 DEF CollectPiece, IInv, StateFits, Holds
  <2>2. completed < PieceCount
    <3>1. Have \in SUBSET Piece /\ Have # Piece
      BY <2>1 DEF Have
    <3>2. IsFiniteSet(Piece) /\ Cardinality(Piece) = PieceCount
      BY <1>c, FS_Interval DEF Piece
    <3>3. Cardinality(Have) <= PieceCount /\ Cardinality(Have) # PieceCount
      BY <3>1, <3>2, FS_Subset
    <3> QED
      BY <1>0, <1>c, <3>3 DEF IInv, Counted, PieceTypes
  <2>3. WorkerTypes'
    BY <1>0, <1>8, SentType DEF CollectPiece
  <2>4. QueueTypes' /\ ControlTypes'
    BY <1>0, <1>8 DEF CollectPiece, QueueTypes, ControlTypes
  <2>5. PieceTypes'
    <3>1. completed' \in 0 .. PieceCount
      BY <1>0, <1>8, <1>c, <2>2 DEF CollectPiece, PieceTypes
    <3>2. status' \in [Piece -> {"pending", "inprogress", "completed"}]
      BY <1>0, <1>8 DEF CollectPiece, PieceTypes
    <3> QED
      BY <3>1, <3>2 DEF PieceTypes
  <2> QED
    BY <2>3, <2>4, <2>5
<1>9. ASSUME NEW w \in Worker, CollectWriteFails(w) \/ DrainResult(w) PROVE Typed
  <2>1. WorkerTypes'
    BY <1>0, <1>9, SentType DEF CollectWriteFails, DrainResult
  <2>2. QueueTypes' /\ PieceTypes' /\ ControlTypes'
    BY <1>0, <1>9 DEF CollectWriteFails, DrainResult, QueueTypes, PieceTypes, ControlTypes
  <2> QED
    BY <2>1, <2>2
<1>10. CASE ResultsClosed \/ Return
  <2>1. QueueTypes' /\ PieceTypes' /\ WorkerTypes'
    BY <1>0, <1>10 DEF ResultsClosed, Return, QueueTypes, PieceTypes, WorkerTypes
  <2>2. ControlTypes'
    BY <1>0, <1>10 DEF ResultsClosed, Return, ControlTypes
  <2> QED
    BY <2>1, <2>2
<1>11. CASE Poll
  <2>1. QueueTypes' /\ PieceTypes' /\ WorkerTypes'
    BY <1>0, <1>11 DEF Poll, QueueTypes, PieceTypes, WorkerTypes
  <2>2. ControlTypes'
    <3>1. confirms' \in 0 .. Confirms
      BY <1>0, <1>11, <1>c DEF Poll, IInv, Ending, ControlTypes
    <3> QED
      BY <1>0, <1>11, <3>1 DEF Poll, ControlTypes
  <2> QED
    BY <2>1, <2>2
<1>12. CASE SupervisorStops \/ UserCancel
  BY <1>0, <1>12 DEF SupervisorStops, UserCancel, QueueTypes, PieceTypes, WorkerTypes,
     ControlTypes
<1>13. CASE UNCHANGED vars
  BY <1>0, <1>13 DEF vars, QueueTypes, PieceTypes, WorkerTypes, ControlTypes
<1> QED
  BY <1>1, <1>2, <1>3, <1>4, <1>5, <1>6, <1>7, <1>8, <1>9, <1>10, <1>11, <1>12, <1>13
  DEF Next, WorkerStep, CollectorStep, Terminated

-----------------------------------------------------------------------------
(* The counters *)

BusyAt == {"dial", "select", "got", "download", "sendData"}

(* A move of one worker changes the number of busy ones by at most one.    *)
LEMMA BusyMove ==
    ASSUME WorkerTypes, NEW w \in Worker, NEW l, Goto(w, l)
    PROVE  /\ Cardinality(Busy) \in Nat
           /\ (pc[w] \in BusyAt <=> l \in BusyAt) => Cardinality(Busy') = Cardinality(Busy)
           /\ pc[w] \notin BusyAt /\ l \in BusyAt
                => Cardinality(Busy') = Cardinality(Busy) + 1
           /\ pc[w] \in BusyAt /\ l \notin BusyAt
                => Cardinality(Busy') = Cardinality(Busy) - 1
<1>1. IsFiniteSet(Busy)
  <2>1. Busy \in SUBSET Worker
    BY DEF Busy
  <2> QED
    BY <2>1, FS_Subset, ConstantsAssumption
<1>2. Cardinality(Busy) \in Nat
  BY <1>1, FS_CardinalityType
<1>3. Busy = {v \in Worker : pc[v] \in BusyAt} /\ Busy' = {v \in Worker : pc'[v] \in BusyAt}
  BY DEF Busy, HasConn, BusyAt
<1>4. \A v \in Worker : pc'[v] = IF v = w THEN l ELSE pc[v]
  BY DEF WorkerTypes, Goto
<1>5. CASE pc[w] \in BusyAt /\ l \in BusyAt
  <2>1. Busy' = Busy
    BY <1>3, <1>4, <1>5
  <2> QED
    BY <1>2, <1>5, <2>1
<1>6. CASE pc[w] \notin BusyAt /\ l \notin BusyAt
  <2>1. Busy' = Busy
    BY <1>3, <1>4, <1>6
  <2> QED
    BY <1>2, <1>6, <2>1
<1>7. CASE pc[w] \notin BusyAt /\ l \in BusyAt
  <2>1. Busy' = Busy \cup {w} /\ w \notin Busy
    BY <1>3, <1>4, <1>7
  <2>2. Cardinality(Busy') = Cardinality(Busy) + 1
    BY <1>1, <2>1, FS_AddElement
  <2> QED
    BY <1>2, <1>7, <2>2
<1>8. CASE pc[w] \in BusyAt /\ l \notin BusyAt
  <2>1. Busy' = Busy \ {w} /\ w \in Busy
    BY <1>3, <1>4, <1>8
  <2>2. Cardinality(Busy') = Cardinality(Busy) - 1
    BY <1>1, <2>1, FS_RemoveElement
  <2> QED
    BY <1>2, <1>8, <2>2
<1> QED
  BY <1>5, <1>6, <1>7, <1>8

(* The counters follow every step. *)
LEMMA CountedStep == IInv /\ [Next]_vars => Counted'
<1> SUFFICES ASSUME IInv, [Next]_vars
             PROVE  inFlight' = Cardinality(Busy') /\ completed' = Cardinality(Have')
  BY DEF Counted
<1> DEFINE Right == inFlight' = Cardinality(Busy') /\ completed' = Cardinality(Have')
<1> USE DEF workerVars, colVars, supVars, BusyAt
<1>0. /\ PieceTypes /\ WorkerTypes /\ inFlight \in Int
      /\ inFlight = Cardinality(Busy) /\ completed = Cardinality(Have)
  BY TypeParts DEF IInv, Counted, ControlTypes
<1>b. ASSUME UNCHANGED pc PROVE Busy' = Busy
  BY <1>b DEF Busy, HasConn
<1>h. ASSUME \A p \in Piece : status'[p] = "completed" <=> status[p] = "completed"
      PROVE  Have' = Have
  BY <1>h DEF Have
<1>1. ASSUME NEW w \in Worker, TakeAddr(w) \/ CountInFlight(w) PROVE Right
  <2>1. Have' = Have
    BY <1>1, <1>h DEF TakeAddr, CountInFlight
  <2>2. inFlight' = Cardinality(Busy')
    BY <1>0, <1>1, BusyMove DEF TakeAddr, CountInFlight
  <2> QED
    BY <1>0, <1>1, <2>1, <2>2 DEF TakeAddr, CountInFlight
<1>2. ASSUME NEW w \in Worker, DialFails(w) \/ DialSucceeds(w) \/ WorkerExits(w)
      PROVE  Right
  <2>1. Have' = Have
    BY <1>2, <1>h DEF DialFails, DialSucceeds, WorkerExits
  <2>2. inFlight' = Cardinality(Busy')
    BY <1>0, <1>2, BusyMove DEF DialFails, DialSucceeds, WorkerExits
  <2> QED
    BY <1>0, <1>2, <2>1, <2>2 DEF DialFails, DialSucceeds, WorkerExits
<1>3. ASSUME NEW w \in Worker, TakeWork(w) PROVE Right
  <2>1. Have' = Have
    BY <1>3, <1>h DEF TakeWork
  <2>2. inFlight' = Cardinality(Busy')
    BY <1>0, <1>3, BusyMove DEF TakeWork
  <2> QED
    BY <1>0, <1>3, <2>1, <2>2 DEF TakeWork
<1>4. ASSUME NEW w \in Worker, ClaimPiece(w) PROVE Right
  <2>1. Have' = Have
    BY <1>0, <1>4, <1>h DEF ClaimPiece, PieceTypes
  <2>2. inFlight' = Cardinality(Busy')
    BY <1>0, <1>4, BusyMove DEF ClaimPiece
  <2> QED
    BY <1>0, <1>4, <2>1, <2>2 DEF ClaimPiece
<1>5. ASSUME NEW w \in Worker, DownloadFails(w) \/ DownloadSucceeds(w) PROVE Right
  <2>1. Have' = Have
    BY <1>5, <1>h DEF DownloadFails, DownloadSucceeds
  <2>2. inFlight' = Cardinality(Busy')
    BY <1>0, <1>5, BusyMove DEF DownloadFails, DownloadSucceeds
  <2> QED
    BY <1>0, <1>5, <2>1, <2>2 DEF DownloadFails, DownloadSucceeds
<1>s. ASSUME NEW w \in Worker, pc[w] \in {"sendErr", "sendData"}, Sent(w)
      PROVE  Cardinality(Busy') = Cardinality(Busy)
  <2>1. CASE pc[w] = "sendErr"
    BY <1>0, <1>s, <2>1, BusyMove DEF Sent
  <2>2. CASE pc[w] = "sendData"
    BY <1>0, <1>s, <2>2, BusyMove DEF Sent
  <2> QED
    BY <1>s, <2>1, <2>2
<1>6. ASSUME NEW w \in Worker, CollectError(w) PROVE Right
  <2>1. item[w] \in Piece /\ status[item[w]] = "inprogress"
    BY <1>6 DEF CollectError, IInv, StateFits, Holds
  <2>2. Have' = Have
    BY <1>0, <1>6, <1>h, <2>1 DEF CollectError, PieceTypes
  <2> QED
    BY <1>0, <1>6, <1>s, <2>2 DEF CollectError
<1>7. ASSUME NEW w \in Worker, CollectPiece(w) PROVE Right
  <2>1. item[w] \in Piece /\ status[item[w]] = "inprogress"
    BY <1>7 DEF CollectPiece, IInv, StateFits, Holds
  <2>2. Have' = Have \cup {item[w]} /\ item[w] \notin Have
    BY <1>0, <1>7, <2>1 DEF CollectPiece, PieceTypes, Have
  <2>3. IsFiniteSet(Have)
    <3>1. Have \in SUBSET (1 .. PieceCount) /\ IsFiniteSet(1 .. PieceCount)
      BY ConstantsAssumption, FS_Interval DEF Have, Piece
    <3> QED
      BY <3>1, FS_Subset
  <2>4. Cardinality(Have') = Cardinality(Have) + 1
    BY <2>2, <2>3, FS_AddElement
  <2> QED
    BY <1>0, <1>7, <1>s, <2>4 DEF CollectPiece
<1>8. ASSUME NEW w \in Worker, CollectWriteFails(w) \/ DrainResult(w) PROVE Right
  <2>1. Have' = Have
    BY <1>8, <1>h DEF CollectWriteFails, DrainResult
  <2> QED
    BY <1>0, <1>8, <1>s, <2>1 DEF CollectWriteFails, DrainResult
<1>9. CASE Requeue \/ ResultsClosed \/ Return
  BY <1>0, <1>9, <1>b, <1>h DEF Requeue, ResultsClosed, Return
<1>10. CASE Poll \/ SupervisorStops \/ UserCancel
  BY <1>0, <1>10, <1>b, <1>h DEF Poll, SupervisorStops, UserCancel
<1>11. CASE UNCHANGED vars
  BY <1>0, <1>11, <1>b, <1>h DEF vars
<1> QED
  BY <1>1, <1>2, <1>3, <1>4, <1>5, <1>6, <1>7, <1>8, <1>9, <1>10, <1>11
  DEF Next, WorkerStep, CollectorStep, Terminated

-----------------------------------------------------------------------------
(* The places of a piece *)

(* Moves that bring no piece anywhere keep every piece in one place. *)
LEMMA NoNewToken ==
    ASSUME InOnePlace, StateFits, UNCHANGED <<work, status>>,
           \A v \in Worker : Holds(v)' =>
              /\ Holds(v) /\ item'[v] = item[v]
              /\ pc'[v] = "got" => pc[v] = "got"
              /\ pc'[v] \in {"download", "sendErr", "sendData"}
                   => pc[v] \in {"download", "sendErr", "sendData"},
           col' = "requeue" => col = "requeue" /\ failed' = failed
    PROVE  InOnePlace' /\ StateFits'
<1>1. \A p : (Queued(p)' <=> Queued(p)) /\ (Held(p)' => Held(p)) /\ (Back(p)' => Back(p))
  BY DEF Queued, Held, Back
<1>2. InOnePlace'
  BY <1>1 DEF InOnePlace
<1>3. \A v \in Worker : pc'[v] \in {"got", "download", "sendErr", "sendData"} => Holds(v)'
  BY DEF Holds
<1>4. StateFits'
  BY <1>3 DEF StateFits
<1> QED
  BY <1>2, <1>4

(* A worker moves on with the piece it has. *)
LEMMA NoTokenMoved ==
    ASSUME InOnePlace, StateFits, NoneLost, UNCHANGED <<work, status, item, failed>>,
           \A v \in Worker : /\ Holds(v)' <=> Holds(v)
                             /\ pc'[v] = "got" => pc[v] = "got"
                             /\ pc'[v] \in {"download", "sendErr", "sendData"}
                                  => pc[v] \in {"download", "sendErr", "sendData"},
           (col' = "requeue") <=> (col = "requeue"),
           cancelled => cancelled'
    PROVE  InOnePlace' /\ StateFits' /\ NoneLost'
<1>1. InOnePlace' /\ StateFits'
  BY NoNewToken
<1>2. \A p : (Queued(p)' <=> Queued(p)) /\ (Held(p)' <=> Held(p)) /\ (Back(p)' <=> Back(p))
  BY DEF Queued, Held, Back
<1>3. NoneLost'
  BY <1>2 DEF NoneLost
<1> QED
  BY <1>1, <1>3

(* Every step leaves a piece where it is, moves it, or lets it go for a     *)
(* reason: it is completed, or the download is cancelled.                   *)
LEMMA PlaceStep == IInv /\ [Next]_vars => InOnePlace' /\ StateFits' /\ NoneLost'
<1> SUFFICES ASSUME IInv, [Next]_vars
             PROVE  InOnePlace' /\ StateFits' /\ NoneLost'
  OBVIOUS
<1> DEFINE Placed == InOnePlace' /\ StateFits' /\ NoneLost'
<1> USE DEF workerVars, colVars, supVars
<1>0. /\ QueueTypes /\ PieceTypes /\ WorkerTypes /\ ControlTypes
      /\ InOnePlace /\ StateFits /\ NoneLost /\ Ending
  BY TypeParts DEF IInv
<1>q. /\ work \in Seq(Piece) /\ Len(work) \in Nat
      /\ \A i \in 1 .. Len(work) : work[i] \in Piece
  BY <1>0, QueueFacts DEF QueueTypes
<1>w. ASSUME NEW w \in Worker, NEW l, Goto(w, l)
      PROVE  \A v \in Worker : pc'[v] = IF v = w THEN l ELSE pc[v]
  BY <1>0, <1>w DEF Goto, WorkerTypes
<1>1. ASSUME NEW w \in Worker, TakeAddr(w) \/ CountInFlight(w) PROVE Placed
  <2>1. UNCHANGED <<work, status, item, failed, col, cancelled>>
    BY <1>1 DEF TakeAddr, CountInFlight
  <2>2. \A v \in Worker : \/ pc'[v] = pc[v]
                          \/ pc[v] \in {"acquire", "took"} /\ pc'[v] \in {"took", "dial"}
    BY <1>1, <1>w DEF TakeAddr, CountInFlight
  <2>3. \A v \in Worker : /\ Holds(v)' <=> Holds(v)
                          /\ pc'[v] = "got" => pc[v] = "got"
                          /\ pc'[v] \in {"download", "sendErr", "sendData"}
                               => pc[v] \in {"download", "sendErr", "sendData"}
    BY <2>2 DEF Holds
  <2> QED
    BY <1>0, <2>1, <2>3, NoTokenMoved
<1>2. ASSUME NEW w \in Worker, DialFails(w) \/ DialSucceeds(w) \/ WorkerExits(w)
      PROVE  Placed
  <2>1. UNCHANGED <<work, status, item, failed, col, cancelled>>
    BY <1>2 DEF DialFails, DialSucceeds, WorkerExits
  <2>2. \A v \in Worker : \/ pc'[v] = pc[v]
                          \/ /\ pc[v] \in {"dial", "acquire", "select"}
                             /\ pc'[v] \in {"acquire", "select", "exit"}
    BY <1>2, <1>w DEF DialFails, DialSucceeds, WorkerExits
  <2>3. \A v \in Worker : /\ Holds(v)' <=> Holds(v)
                          /\ pc'[v] = "got" => pc[v] = "got"
                          /\ pc'[v] \in {"download", "sendErr", "sendData"}
                               => pc[v] \in {"download", "sendErr", "sendData"}
    BY <2>2 DEF Holds
  <2> QED
    BY <1>0, <2>1, <2>3, NoTokenMoved
<1>5. ASSUME NEW w \in Worker, DownloadFails(w) \/ DownloadSucceeds(w) PROVE Placed
  <2>1. UNCHANGED <<work, status, item, failed, col, cancelled>>
    BY <1>5 DEF DownloadFails, DownloadSucceeds
  <2>2. \A v \in Worker : \/ pc'[v] = pc[v]
                          \/ pc[v] = "download" /\ pc'[v] \in {"sendErr", "sendData"}
    BY <1>5, <1>w DEF DownloadFails, DownloadSucceeds
  <2>3. \A v \in Worker : /\ Holds(v)' <=> Holds(v)
                          /\ pc'[v] = "got" => pc[v] = "got"
                          /\ pc'[v] \in {"download", "sendErr", "sendData"}
                               => pc[v] \in {"download", "sendErr", "sendData"}
    BY <2>2 DEF Holds
  <2> QED
    BY <1>0, <2>1, <2>3, NoTokenMoved
<1>10. CASE ResultsClosed \/ Return \/ Poll \/ SupervisorStops \/ UserCancel \/ UNCHANGED vars
  <2>1. UNCHANGED <<work, status, item, failed, pc>>
    BY <1>10 DEF ResultsClosed, Return, Poll, SupervisorStops, UserCancel, vars
  <2>2. (col' = "requeue") <=> (col = "requeue")
    BY <1>10 DEF ResultsClosed, Return, Poll, SupervisorStops, UserCancel, vars
  <2>3. cancelled => cancelled'
    BY <1>10 DEF ResultsClosed, Return, Poll, SupervisorStops, UserCancel, vars
  <2>4. \A v \in Worker : /\ Holds(v)' <=> Holds(v)
                          /\ pc'[v] = "got" => pc[v] = "got"
                          /\ pc'[v] \in {"download", "sendErr", "sendData"}
                               => pc[v] \in {"download", "sendErr", "sendData"}
    BY <2>1 DEF Holds
  <2> QED
    BY <1>0, <2>1, <2>2, <2>3, <2>4, NoTokenMoved
<1>s. ASSUME NEW w \in Worker, pc[w] \in {"sendErr", "sendData"}, Sent(w)
      PROVE  /\ ~Holds(w)' /\ pc'[w] \in {"acquire", "select"}
             /\ \A v \in Worker : v # w => pc'[v] = pc[v] /\ item'[v] = item[v]
  BY <1>0, <1>s DEF Sent, Goto, Holds, WorkerTypes
<1>8. ASSUME NEW w \in Worker, CollectWriteFails(w) \/ DrainResult(w) PROVE Placed
  <2>1. UNCHANGED <<work, status, failed>> /\ cancelled' /\ col' # "requeue"
    BY <1>0, <1>8 DEF CollectWriteFails, DrainResult, Ending
  <2>2. /\ ~Holds(w)' /\ pc'[w] \in {"acquire", "select"}
        /\ \A v \in Worker : v # w => pc'[v] = pc[v] /\ item'[v] = item[v]
    BY <1>8, <1>s DEF CollectWriteFails, DrainResult
  <2>3. InOnePlace' /\ StateFits'
    BY <1>0, <2>1, <2>2, NoNewToken DEF Holds
  <2> QED
    BY <2>1, <2>3 DEF NoneLost
<1>3. ASSUME NEW w \in Worker, TakeWork(w) PROVE Placed
  <2> DEFINE p == Head(work)
  <2>1. /\ p \in Piece /\ p = work[1] /\ 1 \in 1 .. Len(work) /\ Len(work') = Len(work) - 1
        /\ \A i \in 1 .. Len(work') : work'[i] = work[i + 1]
    BY <1>3, <1>q, QueueFacts DEF TakeWork
  <2> HIDE DEF p
  <2>2. /\ pc'[w] = "got" /\ item'[w] = p /\ ~Holds(w)
        /\ \A v \in Worker : v # w => pc'[v] = pc[v] /\ item'[v] = item[v]
        /\ UNCHANGED <<status, failed, col, cancelled>>
    BY <1>0, <1>3 DEF TakeWork, Goto, Holds, WorkerTypes, p
  <2>3. \A i \in 1 .. Len(work') : i + 1 \in 1 .. Len(work) /\ i + 1 # 1
    BY <1>q, <2>1
  <2>4. \A i \in 1 .. Len(work) : i # 1 => i - 1 \in 1 .. Len(work') /\ work'[i - 1] = work[i]
    BY <1>q, <2>1
  <2>5. \A r : Queued(r)' <=> Queued(r) /\ r # p
    <3>1. ASSUME NEW r, Queued(r)' PROVE Queued(r) /\ r # p
      <4>1. PICK i \in 1 .. Len(work') : work'[i] = r
        BY <3>1 DEF Queued
      <4> QED
        BY <1>0, <2>1, <2>3, <4>1 DEF Queued, InOnePlace
    <3>2. ASSUME NEW r, Queued(r), r # p PROVE Queued(r)'
      <4>1. PICK i \in 1 .. Len(work) : work[i] = r
        BY <3>2 DEF Queued
      <4>2. i # 1
        BY <2>1, <3>2, <4>1
      <4> QED
        BY <2>4, <4>1, <4>2 DEF Queued
    <3> QED
      BY <3>1, <3>2
  <2>6. Holds(w)' /\ \A v \in Worker : v # w => (Holds(v)' <=> Holds(v))
    BY <2>2 DEF Holds
  <2>7. \A r : (Held(r)' <=> Held(r) \/ r = p) /\ (Back(r)' <=> Back(r))
    BY <2>2, <2>6 DEF Held, Back
  <2>8. Queued(p)
    BY <2>1 DEF Queued
  <2>9. InOnePlace'
    <3>1. \A i, j \in 1 .. Len(work') : work'[i] = work'[j] => i = j
      BY <1>0, <1>q, <2>1, <2>3 DEF InOnePlace
    <3>2. \A v \in Worker : Holds(v) => item[v] # p
      BY <1>0, <2>1, <2>8 DEF InOnePlace, Held
    <3>3. \A u, v \in Worker : Holds(u)' /\ Holds(v)' /\ item'[u] = item'[v] => u = v
      BY <1>0, <2>2, <2>6, <3>2 DEF InOnePlace
    <3>4. \A r \in Piece : /\ ~(Queued(r)' /\ Held(r)')
                           /\ ~(Queued(r)' /\ Back(r)') /\ ~(Held(r)' /\ Back(r)')
      BY <1>0, <2>5, <2>7, <2>8 DEF InOnePlace
    <3> QED
      BY <3>1, <3>3, <3>4 DEF InOnePlace
  <2>10. StateFits'
    BY <1>0, <2>1, <2>2, <2>3, <2>6 DEF StateFits
  <2>11. NoneLost'
    BY <1>0, <2>2, <2>5, <2>7 DEF NoneLost
  <2> QED
    BY <2>9, <2>10, <2>11
<1>4. ASSUME NEW w \in Worker, ClaimPiece(w) PROVE Placed
  <2>1. pc[w] = "got" /\ Holds(w) /\ item[w] \in Piece /\ status[item[w]] = "pending"
    BY <1>0, <1>4 DEF ClaimPiece, StateFits, Holds
  <2>2. /\ pc'[w] = "download" /\ UNCHANGED <<work, item, failed, col, cancelled>>
        /\ status'[item[w]] = "inprogress"
        /\ \A r \in Piece : r # item[w] => status'[r] = status[r]
        /\ \A v \in Worker : v # w => pc'[v] = pc[v]
    BY <1>0, <1>4, <2>1 DEF ClaimPiece, Goto, WorkerTypes, PieceTypes
  <2>3. \A v \in Worker : Holds(v)' <=> Holds(v)
    BY <2>1, <2>2 DEF Holds
  <2>4. \A r : (Queued(r)' <=> Queued(r)) /\ (Held(r)' <=> Held(r)) /\ (Back(r)' <=> Back(r))
    BY <2>2, <2>3 DEF Queued, Held, Back
  <2>5. InOnePlace'
    BY <1>0, <2>2, <2>3, <2>4 DEF InOnePlace
  <2>6. Held(item[w])
    BY <2>1 DEF Held
  <2>7. /\ \A i \in 1 .. Len(work) : work[i] # item[w]
        /\ col = "requeue" => failed # item[w]
        /\ \A v \in Worker : Holds(v) /\ v # w => item[v] # item[w]
    BY <1>0, <2>1, <2>6 DEF InOnePlace, Queued, Back
  <2>8. StateFits'
    <3>1. \A v \in Worker : Holds(v)' => item'[v] \in Piece
      BY <1>0, <2>2, <2>3 DEF StateFits
    <3>2. col' = "requeue" => failed' \in Piece /\ status'[failed'] = "pending"
      BY <1>0, <2>2, <2>7 DEF StateFits
    <3>3. \A i \in 1 .. Len(work') : status'[work'[i]] = "pending"
      BY <1>0, <1>q, <2>2, <2>7 DEF StateFits
    <3>4. ASSUME NEW v \in Worker
          PROVE  /\ pc'[v] = "got" => status'[item'[v]] = "pending"
                 /\ pc'[v] \in {"download", "sendErr", "sendData"}
                      => status'[item'[v]] = "inprogress"
      <4>1. CASE v = w
        BY <2>2, <4>1
      <4>2. CASE v # w /\ Holds(v)
        BY <1>0, <2>2, <2>7, <4>2 DEF StateFits
      <4>3. CASE v # w /\ ~Holds(v)
        BY <2>2, <4>3 DEF Holds
      <4> QED
        BY <4>1, <4>2, <4>3
    <3> QED
      BY <3>1, <3>2, <3>3, <3>4 DEF StateFits
  <2>9. NoneLost'
    BY <1>0, <2>1, <2>2, <2>4 DEF NoneLost
  <2> QED
    BY <2>5, <2>8, <2>9
<1>6. ASSUME NEW w \in Worker, CollectError(w) \/ CollectPiece(w) PROVE Placed
  <2> DEFINE p == item[w]
  <2>1. /\ Holds(w) /\ p \in Piece /\ status[p] = "inprogress" /\ pc[w] \in {"sendErr", "sendData"}
        /\ col = "recv"
    BY <1>0, <1>6 DEF CollectError, CollectPiece, StateFits, Holds
  <2> HIDE DEF p
  <2>2. /\ ~Holds(w)' /\ pc'[w] \in {"acquire", "select"}
        /\ \A v \in Worker : v # w => pc'[v] = pc[v] /\ item'[v] = item[v]
    BY <1>6, <1>s, <2>1 DEF CollectError, CollectPiece
  <2>3. /\ UNCHANGED work
        /\ cancelled => cancelled'
        /\ \A r \in Piece : r # p => status'[r] = status[r]
    BY <1>0, <1>6 DEF CollectError, CollectPiece, PieceTypes, p
  <2>4. \/ col' = "requeue" /\ failed' = p /\ status'[p] = "pending"
        \/ col' # "requeue" /\ status'[p] = "completed"
    BY <1>0, <1>6, <2>1 DEF CollectError, CollectPiece, PieceTypes, p
  <2>5. \A v \in Worker : v # w => (Holds(v)' <=> Holds(v))
    BY <2>2 DEF Holds
  <2>6. Held(p)
    BY <2>1 DEF Held, p
  <2>7. \A v \in Worker : Holds(v) /\ v # w => item[v] # p
    BY <1>0, <2>1 DEF InOnePlace, p
  <2>8. \A r : /\ Queued(r)' <=> Queued(r)
               /\ Held(r)' <=> (Held(r) /\ r # p)
               /\ Back(r)' <=> (col' = "requeue" /\ r = p)
    <3>1. \A r : (Queued(r)' <=> Queued(r)) /\ (Back(r)' <=> (col' = "requeue" /\ r = p))
      BY <2>3, <2>4 DEF Queued, Back
    <3>2. \A r : Held(r)' => Held(r) /\ r # p
      BY <2>2, <2>5, <2>7 DEF Held
    <3>3. \A r : Held(r) /\ r # p => Held(r)'
      BY <2>2, <2>5 DEF Held, p
    <3> QED
      BY <3>1, <3>2, <3>3
  <2>9. InOnePlace'
    <3>1. \A u, v \in Worker : Holds(u)' /\ Holds(v)' /\ item'[u] = item'[v] => u = v
      BY <1>0, <2>2, <2>5 DEF InOnePlace
    <3>2. \A r \in Piece : /\ ~(Queued(r)' /\ Held(r)')
                           /\ ~(Queued(r)' /\ Back(r)') /\ ~(Held(r)' /\ Back(r)')
      BY <1>0, <2>6, <2>8 DEF InOnePlace
    <3> QED
      BY <1>0, <2>3, <3>1, <3>2 DEF InOnePlace
  <2>10. StateFits'
    <3>1. \A i \in 1 .. Len(work) : work[i] # p
      BY <1>0, <2>1, <2>6 DEF InOnePlace, Queued
    <3>2. \A i \in 1 .. Len(work') : status'[work'[i]] = "pending"
      BY <1>0, <1>q, <2>3, <3>1 DEF StateFits
    <3>3. ASSUME NEW v \in Worker
          PROVE  /\ Holds(v)' => item'[v] \in Piece
                 /\ pc'[v] = "got" => status'[item'[v]] = "pending"
                 /\ pc'[v] \in {"download", "sendErr", "sendData"}
                      => status'[item'[v]] = "inprogress"
      <4>1. CASE v = w
        BY <2>2, <4>1
      <4>2. CASE v # w /\ Holds(v)
        BY <1>0, <2>2, <2>3, <2>5, <2>7, <4>2 DEF StateFits
      <4>3. CASE v # w /\ ~Holds(v)
        BY <2>2, <4>3 DEF Holds
      <4> QED
        BY <4>1, <4>2, <4>3
    <3> QED
      BY <2>1, <2>4, <3>2, <3>3 DEF StateFits
  <2>11. NoneLost'
    BY <1>0, <2>1, <2>3, <2>4, <2>8 DEF NoneLost, Back
  <2> QED
    BY <2>9, <2>10, <2>11
<1>7. CASE Requeue
  <2>1. /\ col = "requeue" /\ failed \in Piece /\ status[failed] = "pending"
        /\ col' = "recv" /\ UNCHANGED <<status, cancelled, pc, item>>
    BY <1>0, <1>7 DEF Requeue, StateFits
  <2>2. CASE cancelled /\ UNCHANGED work
    <3>1. InOnePlace' /\ StateFits'
      BY <1>0, <2>1, <2>2, NoNewToken DEF Holds
    <3> QED
      BY <2>1, <2>2, <3>1 DEF NoneLost
  <2>3. CASE work' = Append(work, failed)
    <3>1. /\ Len(work') = Len(work) + 1 /\ work'[Len(work) + 1] = failed
          /\ \A i \in 1 .. Len(work) : work'[i] = work[i]
      BY <1>q, <2>1, <2>3, QueueFacts
    <3>2. 1 .. Len(work') = (1 .. Len(work)) \cup {Len(work) + 1}
      BY <1>q, <3>1
    <3>3. \A v \in Worker : Holds(v)' <=> Holds(v)
      BY <2>1 DEF Holds
    <3>4. \A r : /\ Queued(r)' <=> Queued(r) \/ r = failed
                 /\ Held(r)' <=> Held(r)
                 /\ ~Back(r)' /\ (Back(r) <=> r = failed)
      BY <2>1, <3>1, <3>2, <3>3 DEF Queued, Held, Back
    <3>5. \A i \in 1 .. Len(work) : work[i] # failed
      BY <1>0, <2>1 DEF InOnePlace, Queued, Back
    <3>6. InOnePlace'
      <4>1. \A i, j \in 1 .. Len(work') : work'[i] = work'[j] => i = j
        BY <1>0, <3>1, <3>2, <3>5 DEF InOnePlace
      <4>2. \A u, v \in Worker : Holds(u)' /\ Holds(v)' /\ item'[u] = item'[v] => u = v
        BY <1>0, <2>1, <3>3 DEF InOnePlace
      <4>3. \A r \in Piece : /\ ~(Queued(r)' /\ Held(r)')
                             /\ ~(Queued(r)' /\ Back(r)') /\ ~(Held(r)' /\ Back(r)')
        BY <1>0, <2>1, <3>4 DEF InOnePlace
      <4> QED
        BY <4>1, <4>2, <4>3 DEF InOnePlace
    <3>7. StateFits'
      BY <1>0, <2>1, <3>1, <3>2, <3>3 DEF StateFits
    <3>8. NoneLost'
      BY <1>0, <2>1, <3>4 DEF NoneLost
    <3> QED
      BY <3>6, <3>7, <3>8
  <2> QED
    BY <1>7, <2>2, <2>3 DEF Requeue
<1> QED
  BY <1>1, <1>2, <1>3, <1>4, <1>5, <1>6, <1>7, <1>8, <1>10
  DEF Next, WorkerStep, CollectorStep, Terminated

(* How the download ends. *)
LEMMA EndingStep == IInv /\ [Next]_vars => Ending'
<1> SUFFICES ASSUME IInv, [Next]_vars PROVE Ending'
  OBVIOUS
<1> USE DEF workerVars, colVars, supVars
<1>0. PieceTypes /\ WorkerTypes /\ ControlTypes /\ StateFits /\ Ending /\ Counted
  BY TypeParts DEF IInv
<1>1. ASSUME NEW w \in Worker, WorkerStep(w) PROVE Ending'
  <2>1. pc[w] # "exit" /\ UNCHANGED <<colVars, supVars, cancelled>>
    BY <1>1 DEF WorkerStep, TakeAddr, CountInFlight, DialFails, DialSucceeds, TakeWork,
       ClaimPiece, DownloadFails, DownloadSucceeds, WorkerExits
  <2>2. Have' = Have
    <3>1. CASE ClaimPiece(w)
      <4>1. item[w] \in Piece /\ status[item[w]] = "pending"
        BY <1>0, <3>1 DEF ClaimPiece, StateFits, Holds
      <4> QED
        BY <1>0, <3>1, <4>1 DEF ClaimPiece, PieceTypes, Have
    <3>2. CASE ~ClaimPiece(w)
      <4>1. UNCHANGED status
        BY <1>1, <3>2 DEF WorkerStep, TakeAddr, CountInFlight, DialFails, DialSucceeds,
           TakeWork, DownloadFails, DownloadSucceeds, WorkerExits
      <4> QED
        BY <4>1 DEF Have
    <3> QED
      BY <3>1, <3>2
  <2>3. col \notin {"wait", "returned"}
    BY <1>0, <1>1, <2>1 DEF Ending
  <2> QED
    BY <1>0, <2>1, <2>2, <2>3 DEF Ending
<1>2. ASSUME NEW w \in Worker, CollectError(w) \/ DrainResult(w) PROVE Ending'
  <2>1. /\ UNCHANGED <<result, supVars, cancelled>>
        /\ \/ col = "recv" /\ col' = "requeue"
           \/ col = "drain" /\ col' = "drain"
    BY <1>2 DEF CollectError, DrainResult
  <2>2. col = "recv" => result = "none"
    BY <1>0 DEF Ending
  <2>3. col = "drain" => Have' = Have
    BY <1>2 DEF CollectError, DrainResult, Have
  <2> QED
    BY <1>0, <2>1, <2>2, <2>3 DEF Ending
<1>3. ASSUME NEW w \in Worker, CollectPiece(w) PROVE Ending'
  <2>1. /\ UNCHANGED <<result, supVars>> /\ result = "none"
        /\ col' = "recv" \/ (col' = "drain" /\ cancelled')
    BY <1>0, <1>3 DEF CollectPiece, Ending
  <2> QED
    BY <1>0, <2>1 DEF Ending
<1>4. ASSUME NEW w \in Worker, CollectWriteFails(w) PROVE Ending'
  <2>1. item[w] \in Piece /\ status[item[w]] = "inprogress"
    BY <1>0, <1>4 DEF CollectWriteFails, StateFits, Holds
  <2>2. Have' # Piece
    BY <1>4, <2>1 DEF CollectWriteFails, Have
  <2> QED
    BY <1>0, <1>4, <2>2 DEF CollectWriteFails, Ending
<1>5. CASE Requeue \/ ResultsClosed
  BY <1>0, <1>5 DEF Requeue, ResultsClosed, Ending, Have
<1>6. CASE Return
  BY <1>0, <1>6 DEF Return, Ending, Have
<1>7. CASE Poll
  <2>1. /\ UNCHANGED <<col, result, pc, status>> /\ sup = "poll"
        /\ cancelled => cancelled'
        /\ sup' = "poll" => confirms' < Confirms
    BY <1>0, <1>7, ConstantsAssumption DEF Poll, ControlTypes
  <2> QED
    BY <1>0, <2>1 DEF Ending, Have
<1>8. CASE SupervisorStops \/ UserCancel \/ UNCHANGED vars
  BY <1>0, <1>8 DEF SupervisorStops, UserCancel, vars, Ending, Have
<1> QED
  BY <1>1, <1>2, <1>3, <1>4, <1>5, <1>6, <1>7, <1>8 DEF Next, CollectorStep, Terminated

LEMMA InitIInv == Init => IInv
<1> SUFFICES ASSUME Init PROVE IInv
  OBVIOUS
<1>1. TypeOK
  BY InitType
<1>2. /\ work = [i \in 1 .. PieceCount |-> i] /\ Len(work) = PieceCount
      /\ \A p \in Piece : status[p] = "pending"
      /\ \A w \in Worker : pc[w] = "acquire"
      /\ inFlight = 0 /\ completed = 0 /\ col = "recv" /\ result = "none"
      /\ sup = "poll" /\ confirms = 0
  BY ConstantsAssumption DEF Init, Piece
<1>3. \A p : ~Held(p) /\ ~Back(p)
  BY <1>2 DEF Held, Back, Holds
<1>4. \A p \in Piece : Queued(p)
  BY <1>2 DEF Queued, Piece
<1>5. InOnePlace
  BY <1>2, <1>3 DEF InOnePlace, Holds
<1>6. StateFits
  BY <1>2 DEF StateFits, Holds, Piece
<1>7. NoneLost
  BY <1>4 DEF NoneLost
<1>8. Busy = {} /\ Have = {}
  BY <1>2 DEF Busy, Have, HasConn
<1>9. Counted
  BY <1>2, <1>8, FS_EmptySet DEF Counted
<1>10. Ending
  BY <1>2, ConstantsAssumption DEF Ending
<1> QED
  BY <1>1, <1>5, <1>6, <1>7, <1>9, <1>10 DEF IInv

(* The queue, the workers and the collection loop always hold the pieces   *)
(* as the invariant says, and the counters count them.                     *)
THEOREM IInvariance == Spec => []IInv
<1>1. IInv /\ [Next]_vars => IInv'
  BY TypeStep, PlaceStep, CountedStep, EndingStep DEF IInv
<1> QED
  BY InitIInv, <1>1, PTL DEF Spec

(* The variables keep the types of the Go values, whatever peers do, and   *)
(* no channel is filled beyond its capacity.                               *)
THEOREM TypeCorrect == Spec => []TypeOK
<1>1. IInv => TypeOK
  BY DEF IInv
<1> QED
  BY <1>1, IInvariance, PTL

(* The number the supervisor reads is the number of workers that hold a    *)
(* connection or are dialing, however dials, errors and exits interleave.  *)
THEOREM CountExact == Spec => []InFlightExact
<1>1. IInv => InFlightExact
  BY DEF IInv, Counted, InFlightExact, Busy
<1> QED
  BY <1>1, IInvariance, PTL

(* When Start has returned all workers and the supervisor have ended and   *)
(* every connection is given back.                                         *)
THEOREM NothingLeaks == Spec => []NoLeak
<1>1. ASSUME IInv, col = "returned" PROVE sup = "done" /\ inFlight = 0
                                          /\ \A w \in Worker : pc[w] = "exit"
  <2>1. sup = "done" /\ \A w \in Worker : pc[w] = "exit"
    BY <1>1 DEF IInv, Ending
  <2>2. Busy = {}
    BY <2>1 DEF Busy, HasConn
  <2> QED
    BY <1>1, <2>1, <2>2, FS_EmptySet DEF IInv, Counted
<1>2. IInv => NoLeak
  BY <1>1 DEF NoLeak
<1> QED
  BY <1>2, IInvariance, PTL

(* The number of places that hold piece p. *)
LEMMA TokensOf ==
    ASSUME IInv, NEW p \in Piece
    PROVE  Tokens(p) = (IF Queued(p) \/ Held(p) \/ Back(p) THEN 1 ELSE 0)
<1> DEFINE Q == {i \in 1 .. Len(work) : work[i] = p}
           H == {w \in Worker : Holds(w) /\ item[w] = p}
<1>0. InOnePlace
  BY DEF IInv
<1>1. Cardinality(Q) = IF Queued(p) THEN 1 ELSE 0
  <2>1. CASE Queued(p)
    <3>1. PICK i \in 1 .. Len(work) : work[i] = p
      BY <2>1 DEF Queued
    <3>2. Q = {i}
      BY <1>0, <3>1 DEF InOnePlace
    <3> QED
      BY <2>1, <3>2, FS_Singleton
  <2>2. CASE ~Queued(p)
    <3>1. Q = {}
      BY <2>2 DEF Queued
    <3> QED
      BY <2>2, <3>1, FS_EmptySet
  <2> QED
    BY <2>1, <2>2
<1>2. Cardinality(H) = IF Held(p) THEN 1 ELSE 0
  <2>1. CASE Held(p)
    <3>1. PICK w \in Worker : Holds(w) /\ item[w] = p
      BY <2>1 DEF Held
    <3>2. H = {w}
      BY <1>0, <3>1 DEF InOnePlace
    <3> QED
      BY <2>1, <3>2, FS_Singleton
  <2>2. CASE ~Held(p)
    <3>1. H = {}
      BY <2>2 DEF Held
    <3> QED
      BY <2>2, <3>1, FS_EmptySet
  <2> QED
    BY <2>1, <2>2
<1>3. Tokens(p) = Cardinality(Q) + Cardinality(H) + (IF Back(p) THEN 1 ELSE 0)
  BY DEF Tokens, Back
<1>4. ~(Queued(p) /\ Held(p)) /\ ~(Queued(p) /\ Back(p)) /\ ~(Held(p) /\ Back(p))
  BY <1>0 DEF InOnePlace
<1> HIDE DEF Q, H
<1> QED
  BY <1>1, <1>2, <1>3, <1>4

(* No piece is ever in two hands, and until the download is cancelled an   *)
(* unfinished piece is in exactly one: for every number of pieces and      *)
(* workers, no interleaving of failures and requeues loses or doubles one. *)
THEOREM PieceInOnePlace == Spec => []OneToken
<1>1. ASSUME IInv PROVE OneToken
  <2>1. ASSUME NEW p \in Piece PROVE Tokens(p) <= 1
    BY <1>1, <2>1, TokensOf
  <2>2. ASSUME ~cancelled, NEW p \in Piece
        PROVE  Tokens(p) = IF status[p] = "completed" THEN 0 ELSE 1
    <3>1. CASE status[p] = "completed"
      <4>1. ~Queued(p) /\ ~Held(p) /\ ~Back(p)
        BY <1>1, <3>1 DEF IInv, StateFits, Queued, Held, Back, Holds
      <4> QED
        BY <1>1, <3>1, <4>1, TokensOf
    <3>2. CASE status[p] # "completed"
      <4>1. Queued(p) \/ Held(p) \/ Back(p)
        BY <1>1, <2>2, <3>2 DEF IInv, NoneLost
      <4> QED
        BY <1>1, <3>2, <4>1, TokensOf
    <3> QED
      BY <3>1, <3>2
  <2> QED
    BY <2>1, <2>2 DEF OneToken
<1> QED
  BY <1>1, IInvariance, PTL

-----------------------------------------------------------------------------
(* Start implements Fetch *)

(* Success is reported exactly when every piece is on disk. *)
LEMMA AllCounted == IInv => (completed = PieceCount <=> Have = Piece)
<1> SUFFICES ASSUME IInv PROVE completed = PieceCount <=> Have = Piece
  OBVIOUS
<1>1. IsFiniteSet(Piece) /\ Cardinality(Piece) = PieceCount
  BY ConstantsAssumption, FS_Interval DEF Piece
<1>2. Have \in SUBSET Piece
  BY DEF Have
<1>3. Cardinality(Have) = Cardinality(Piece) => Have = Piece
  BY <1>1, <1>2, FS_Subset
<1> QED
  BY <1>1, <1>3 DEF IInv, Counted

Outcome == IF col # "returned" THEN "running" ELSE IF result = "ok" THEN "ok" ELSE "error"

(* The step that writes a piece writes one that is missing, before the      *)
(* end; Return ends with the outcome Fetch asks for; no other step is       *)
(* visible.                                                                 *)
LEMMA FetchStep == IInv /\ [Next]_vars => [Abstract!Next]_<<Have, Outcome>>
<1> SUFFICES ASSUME IInv, [Next]_vars PROVE Abstract!Next \/ (Have' = Have /\ Outcome' = Outcome)
  OBVIOUS
<1> DEFINE Seen == Abstract!Next \/ (Have' = Have /\ Outcome' = Outcome)
<1> USE DEF workerVars, colVars, supVars
<1>0. PieceTypes /\ StateFits /\ Ending
  BY TypeParts DEF IInv
<1>1. ASSUME NEW w \in Worker, CollectPiece(w) PROVE Abstract!Next
  <2>1. item[w] \in Piece /\ status[item[w]] = "inprogress"
    BY <1>0, <1>1 DEF CollectPiece, StateFits, Holds
  <2>2. PICK p \in Piece : p = item[w]
    BY <2>1
  <2>3. Have' = Have \cup {p} /\ p \notin Have
    BY <1>0, <1>1, <2>1, <2>2 DEF CollectPiece, PieceTypes, Have
  <2>4. Outcome = "running" /\ Outcome' = "running"
    BY <1>1 DEF CollectPiece, Outcome
  <2>5. Abstract!Write(p)
    BY <2>3, <2>4 DEF Abstract!Write, Have, Outcome
  <2> QED
    BY <2>5 DEF Abstract!Next
<1>2. CASE Return
  <2>1. Have' = Have /\ Outcome = "running"
    BY <1>2 DEF Return, Have, Outcome
  <2>2. Outcome' = IF Have = Piece THEN "ok" ELSE "error"
    <3>1. result = "disk" => Have # Piece
      BY <1>0 DEF Ending
    <3>2. completed = PieceCount <=> Have = Piece
      BY AllCounted
    <3> QED
      BY <1>2, <3>1, <3>2 DEF Return, Outcome
  <2>3. Abstract!End
    BY <2>1, <2>2 DEF Abstract!End, Have, Outcome
  <2> QED
    BY <2>3 DEF Abstract!Next
<1>3. ASSUME NEW w \in Worker, WorkerStep(w) PROVE Seen
  <2>1. UNCHANGED colVars
    BY <1>3 DEF WorkerStep, TakeAddr, CountInFlight, DialFails, DialSucceeds, TakeWork,
       ClaimPiece, DownloadFails, DownloadSucceeds, WorkerExits
  <2>2. Have' = Have
    <3>1. CASE ClaimPiece(w)
      <4>1. item[w] \in Piece /\ status[item[w]] = "pending"
        BY <1>0, <3>1 DEF ClaimPiece, StateFits, Holds
      <4> QED
        BY <1>0, <3>1, <4>1 DEF ClaimPiece, PieceTypes, Have
    <3>2. CASE ~ClaimPiece(w)
      <4>1. UNCHANGED status
        BY <1>3, <3>2 DEF WorkerStep, TakeAddr, CountInFlight, DialFails, DialSucceeds,
           TakeWork, DownloadFails, DownloadSucceeds, WorkerExits
      <4> QED
        BY <4>1 DEF Have
    <3> QED
      BY <3>1, <3>2
  <2> QED
    BY <2>1, <2>2 DEF Outcome
<1>4. ASSUME NEW w \in Worker, CollectError(w) PROVE Seen
  <2>1. item[w] \in Piece /\ status[item[w]] = "inprogress"
    BY <1>0, <1>4 DEF CollectError, StateFits, Holds
  <2>2. Have' = Have
    BY <1>0, <1>4, <2>1 DEF CollectError, PieceTypes, Have
  <2> QED
    BY <1>4, <2>2 DEF CollectError, Outcome
<1>5. ASSUME NEW w \in Worker, CollectWriteFails(w) \/ DrainResult(w) PROVE Seen
  BY <1>5 DEF CollectWriteFails, DrainResult, Have, Outcome
<1>6. CASE Requeue \/ ResultsClosed \/ Poll \/ SupervisorStops \/ UserCancel
  BY <1>6 DEF Requeue, ResultsClosed, Poll, SupervisorStops, UserCancel, Have, Outcome
<1>7. CASE UNCHANGED vars
  BY <1>7 DEF vars, Have, Outcome
<1> QED
  BY <1>1, <1>2, <1>3, <1>4, <1>5, <1>6, <1>7 DEF Next, CollectorStep, Terminated

(* Start writes each verified piece once, none after it returned, and      *)
(* reports success exactly when all are written: it implements Fetch, but  *)
(* for the promise that it returns, which TLC checks.                      *)
THEOREM ImplementsSafeFetch == Spec => Abstract!Safe
<1>1. Init => Abstract!Init
  BY DEF Init, Abstract!Init
<1>2. IInv /\ [Next]_vars => [Abstract!Next]_<<Have, Outcome>>
  BY FetchStep
<1> QED
  BY <1>1, <1>2, IInvariance, PTL DEF Spec, Abstract!Safe, Have, Outcome

-----------------------------------------------------------------------------
(* The supervisor *)

(* Between the polls that find nothing left, no address comes and every     *)
(* worker that took one before was seen.                                    *)
Watched ==
    /\ Elems(Seeds) \subseteq known
    /\ sup = "poll" /\ confirms > 0 /\ known \subseteq Elems(Seeds) =>
          pool = <<>> /\ \A w \in Worker : pc[w] = "took" => w \in slow

(* When the tracker's addresses fit into the pool. *)
LEMMA InitWatched == ASSUME Len(Seeds) <= PoolCap PROVE Init => Watched
<1> SUFFICES ASSUME Init PROVE Watched
  OBVIOUS
<1>1. Least(Len(Seeds), PoolCap) = Len(Seeds) /\ Len(Seeds) \in Nat
  BY ConstantsAssumption, QueueFacts DEF Least
<1>2. pool = Seeds
  <2>1. /\ SubSeq(Seeds, 1, Len(Seeds)) \in Seq(Addr)
        /\ Len(SubSeq(Seeds, 1, Len(Seeds))) = Len(Seeds)
        /\ \A i \in 1 .. Len(Seeds) : SubSeq(Seeds, 1, Len(Seeds))[i] = Seeds[i]
    BY <1>1, ConstantsAssumption, SubSeqProperties, ElementOfSeq
  <2>2. SubSeq(Seeds, 1, Len(Seeds)) = Seeds
    BY <2>1, ConstantsAssumption, SeqEqual
  <2> QED
    BY <1>1, <2>2 DEF Init
<1>3. known = Elems(Seeds) /\ confirms = 0
  BY <1>2 DEF Init
<1> QED
  BY <1>3 DEF Watched

LEMMA WatchedStep == IInv /\ Watched /\ [Next]_vars => Watched'
<1> SUFFICES ASSUME IInv, Watched, [Next]_vars PROVE Watched'
  OBVIOUS
<1> USE DEF workerVars, colVars, supVars
<1>0. QueueTypes /\ WorkerTypes /\ ControlTypes
  BY TypeParts DEF IInv
<1>w. ASSUME NEW w \in Worker, NEW l, Goto(w, l)
      PROVE  \A v \in Worker : pc'[v] = IF v = w THEN l ELSE pc[v]
  BY <1>0, <1>w DEF Goto, WorkerTypes
<1>1. ASSUME NEW w \in Worker, TakeAddr(w) PROVE Watched'
  BY <1>1 DEF TakeAddr, Watched
<1>2. ASSUME NEW w \in Worker, CountInFlight(w) PROVE Watched'
  BY <1>2, <1>w DEF CountInFlight, Watched
<1>3. ASSUME NEW w \in Worker, DialFails(w) \/ DialSucceeds(w) \/ TakeWork(w)
                               \/ ClaimPiece(w) \/ WorkerExits(w)
      PROVE  Watched'
  <2>1. UNCHANGED <<known, supVars, pool, slow>>
    BY <1>3 DEF DialFails, DialSucceeds, TakeWork, ClaimPiece, WorkerExits
  <2>2. \A v \in Worker : pc'[v] = "took" => pc[v] = "took"
    BY <1>3, <1>w DEF DialFails, DialSucceeds, TakeWork, ClaimPiece, WorkerExits
  <2> QED
    BY <2>1, <2>2 DEF Watched
<1>4. ASSUME NEW w \in Worker, DownloadFails(w) \/ DownloadSucceeds(w) PROVE Watched'
  <2>1. AddPexPeers /\ UNCHANGED <<supVars, slow>>
    BY <1>4 DEF DownloadFails, DownloadSucceeds
  <2>2. \A v \in Worker : pc'[v] = "took" => pc[v] = "took"
    BY <1>4, <1>w DEF DownloadFails, DownloadSucceeds
  <2>3. known \subseteq known' /\ (known' \subseteq Elems(Seeds) => UNCHANGED <<pool, known>>)
    BY <2>1 DEF AddPexPeers, AddPeer, Watched
  <2> QED
    BY <2>1, <2>2, <2>3 DEF Watched
<1>5. ASSUME NEW w \in Worker, pc[w] \in {"sendErr", "sendData"}, Sent(w)
      PROVE  \A v \in Worker : pc'[v] = "took" => pc[v] = "took"
  BY <1>0, <1>5 DEF Sent, Goto, WorkerTypes
<1>6. ASSUME NEW w \in Worker, CollectError(w) \/ CollectPiece(w) \/ CollectWriteFails(w)
                               \/ DrainResult(w)
      PROVE  Watched'
  <2>1. UNCHANGED <<known, supVars, pool, slow>>
    BY <1>6 DEF CollectError, CollectPiece, CollectWriteFails, DrainResult
  <2>2. \A v \in Worker : pc'[v] = "took" => pc[v] = "took"
    BY <1>5, <1>6 DEF CollectError, CollectPiece, CollectWriteFails, DrainResult
  <2> QED
    BY <2>1, <2>2 DEF Watched
<1>7. CASE Requeue \/ ResultsClosed \/ Return \/ UserCancel \/ UNCHANGED vars
  BY <1>7 DEF Requeue, ResultsClosed, Return, UserCancel, vars, Watched
<1>8. CASE Poll
  BY <1>8 DEF Poll, Stalled, Watched
<1>9. CASE SupervisorStops
  BY <1>9 DEF SupervisorStops, Watched
<1> QED
  BY <1>1, <1>2, <1>3, <1>4, <1>6, <1>7, <1>8, <1>9
  DEF Next, WorkerStep, CollectorStep, Terminated

(* Two polls are enough when no worker is held up between taking an        *)
(* address and counting itself for a whole period, and the tracker sent no *)
(* more addresses than the pool takes: the supervisor then never gives up  *)
(* while one of the tracker's peers may still answer.                      *)
THEOREM GivesUpSoundly ==
    ASSUME PromptWorkers, Confirms >= 2, Len(Seeds) <= PoolCap
    PROVE  Spec => ExhaustedSound
<1> DEFINE Sound == exhausted' /\ ~exhausted /\ known \subseteq Elems(Seeds) =>
                      /\ pool = <<>>
                      /\ \A w \in Worker : pc[w] \notin {"took", "dial"} /\ ~HasConn(w)
<1>1. IInv /\ Watched /\ [Next]_vars => [Sound]_vars
  <2> SUFFICES ASSUME IInv, Watched, Next, exhausted', ~exhausted,
                      known \subseteq Elems(Seeds)
               PROVE  /\ pool = <<>>
                      /\ \A w \in Worker : pc[w] \notin {"took", "dial"} /\ ~HasConn(w)
    BY DEF vars
  <2>1. Poll
    BY DEF Next, WorkerStep, CollectorStep, Terminated, TakeAddr, CountInFlight, DialFails,
       DialSucceeds, TakeWork, ClaimPiece, DownloadFails, DownloadSucceeds, WorkerExits,
       CollectError, CollectPiece, CollectWriteFails, DrainResult, Requeue, ResultsClosed,
       Return, SupervisorStops, UserCancel, vars, supVars
  <2>2. Stalled /\ confirms + 1 >= Confirms /\ sup = "poll" /\ slow = {}
    BY <2>1 DEF Poll, IInv, TypeOK
  <2>3. confirms > 0
    BY <2>2, ConstantsAssumption DEF IInv, TypeOK
  <2>4. \A w \in Worker : pc[w] # "took"
    BY <2>2, <2>3 DEF Watched
  <2>5. Busy = {}
    <3>1. Busy \in SUBSET Worker /\ Cardinality(Busy) = 0
      BY <2>2 DEF Stalled, IInv, Counted, Busy
    <3>2. IsFiniteSet(Busy)
      BY <3>1, FS_Subset, ConstantsAssumption
    <3> QED
      BY <3>1, <3>2, FS_EmptySet
  <2> QED
    BY <2>2, <2>4, <2>5 DEF Stalled, Busy
<1>2. Init => Watched
  BY InitWatched
<1> QED
  BY <1>1, <1>2, WatchedStep, IInvariance, PTL DEF Spec, ExhaustedSound

=============================================================================
