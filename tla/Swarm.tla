------------------------------- MODULE Swarm -------------------------------
(***************************************************************************)
(* The download coordinator of the client (internal/client/swarm.go):      *)
(* Start's collection loop, a fixed pool of workers, and the supervisor    *)
(* that gives up when the peer supply is exhausted.  They share the piece  *)
(* queue workChan, the unbuffered resultChan, the peer pool peerChan with  *)
(* its set of known addresses, the piece states and three atomics.         *)
(*                                                                         *)
(* A peer is external: a dial and a piece download may fail at any time,   *)
(* and a download may bring one new address by peer exchange.  The hash    *)
(* table of the torrent covers every piece: DownloadMVP checks it before   *)
(* it calls Start.                                                         *)
(***************************************************************************)
EXTENDS Integers, Sequences, FiniteSets

CONSTANTS
    PieceCount,         \* meta.PieceCount, also the capacity of workChan
    Worker,             \* the worker goroutines
    Addr,               \* peer addresses
    Seeds,              \* addrs given to Start: a sequence without repeats
    Pex,                \* addresses peers may exchange
    PoolCap,            \* peerPoolHeadroom
    Confirms,           \* exhaustionConfirms
    DiskFails,          \* may WritePiece fail?
    UserCancels,        \* may the caller cancel ctx?
    PromptWorkers       \* is a worker never held up for a whole poll period
                        \* between taking an address and counting itself?

Piece == 1 .. PieceCount

ASSUME ConstantsAssumption ==
    /\ PieceCount \in Nat \ {0} /\ IsFiniteSet(Worker)
    /\ Seeds \in Seq(Addr) /\ Pex \subseteq Addr
    /\ PoolCap \in Nat \ {0} /\ Confirms \in Nat \ {0}
    /\ DiskFails \in BOOLEAN /\ UserCancels \in BOOLEAN
    /\ PromptWorkers \in BOOLEAN

VARIABLES
    work,       \* workChan
    status,     \* s.pieces
    pool,       \* peerChan
    known,      \* knownAddrs
    inFlight,   \* workers holding or acquiring a connection
    completed,  \* verified pieces
    exhausted,
    cancelled,  \* ctx.Done() is closed
    pc, item,   \* each worker: where it is, and the piece it works on
    col,        \* the collection loop: "recv", "requeue", "drain", "wait",
                \* "returned"
    failed,     \* the piece the collection loop is about to put back
    result,     \* what Start returned; "disk" also stands for dlErr before
    sup,        \* the supervisor: "poll" or "done"
    confirms,
    slow        \* workers seen in "took" by the last poll, still there

workerVars == <<pc, item>>
colVars    == <<col, failed, result>>
supVars    == <<sup, confirms, exhausted>>
vars == <<work, status, pool, known, inFlight, completed, cancelled,
          workerVars, colVars, supVars, slow>>

NoPiece == 0
Elems(s) == {s[i] : i \in 1 .. Len(s)}
Least(a, b) == IF a < b THEN a ELSE b

Init ==
    /\ work = [i \in Piece |-> i]
    /\ status = [p \in Piece |-> "pending"]
    /\ pool = SubSeq(Seeds, 1, Least(Len(Seeds), PoolCap))
    /\ known = Elems(pool)
    /\ inFlight = 0 /\ completed = 0
    /\ exhausted = FALSE /\ cancelled = FALSE
    /\ pc = [w \in Worker |-> "acquire"]
    /\ item = [w \in Worker |-> NoPiece]
    /\ col = "recv" /\ failed = NoPiece /\ result = "none"
    /\ sup = "poll" /\ confirms = 0
    /\ slow = {}

Goto(w, l) == pc' = [pc EXCEPT ![w] = l]

-----------------------------------------------------------------------------
(* acquireConn *)

(* Take an address.  With ctx cancelled as well the select may choose it   *)
(* all the same.                                                           *)
TakeAddr(w) ==
    /\ pc[w] = "acquire" /\ pool # <<>>
    /\ pool' = Tail(pool)
    /\ Goto(w, "took")
    /\ UNCHANGED <<work, status, known, inFlight, completed, cancelled, item,
                   colVars, supVars, slow>>

CountInFlight(w) ==
    /\ pc[w] = "took"
    /\ inFlight' = inFlight + 1
    /\ slow' = slow \ {w}
    /\ Goto(w, "dial")
    /\ UNCHANGED <<work, status, pool, known, completed, cancelled, item,
                   colVars, supVars>>

(* Mutant: a failed dial keeps its count. *)
DialFailsCounted(w) ==
    /\ pc[w] = "dial"
    /\ Goto(w, "acquire")
    /\ UNCHANGED <<work, status, pool, known, inFlight, completed, cancelled,
                   item, colVars, supVars, slow>>

DialFails(w) ==
    /\ pc[w] = "dial"
    /\ inFlight' = inFlight - 1
    /\ Goto(w, "acquire")
    /\ UNCHANGED <<work, status, pool, known, completed, cancelled, item,
                   colVars, supVars, slow>>

(* A handshake that was nearly done outlives a cancelled ctx. *)
DialSucceeds(w) ==
    /\ pc[w] = "dial"
    /\ Goto(w, "select")
    /\ UNCHANGED <<work, status, pool, known, inFlight, completed, cancelled,
                   item, colVars, supVars, slow>>

(* worker *)

TakeWork(w) ==
    /\ pc[w] = "select" /\ work # <<>>
    /\ item' = [item EXCEPT ![w] = Head(work)]
    /\ work' = Tail(work)
    /\ Goto(w, "got")
    /\ UNCHANGED <<status, pool, known, inFlight, completed, cancelled,
                   colVars, supVars, slow>>

(* Under s.mu: skip a piece that is not pending, else mark it. *)
ClaimPiece(w) ==
    /\ pc[w] = "got"
    /\ IF status[item[w]] = "pending"
       THEN /\ status' = [status EXCEPT ![item[w]] = "inprogress"]
            /\ Goto(w, "download")
            /\ UNCHANGED item
       ELSE /\ item' = [item EXCEPT ![w] = NoPiece]
            /\ Goto(w, "select")
            /\ UNCHANGED status
    /\ UNCHANGED <<work, pool, known, inFlight, completed, cancelled, colVars,
                   supVars, slow>>

(* AddPeers for one address: known ones are skipped; a full pool drops it  *)
(* and does not remember it.                                               *)
AddPeer(a) ==
    \/ /\ a \notin known /\ Len(pool) < PoolCap
       /\ pool' = Append(pool, a)
       /\ known' = known \cup {a}
    \/ /\ a \in known \/ Len(pool) = PoolCap
       /\ UNCHANGED <<pool, known>>

AddPexPeers == \/ UNCHANGED <<pool, known>>
               \/ \E a \in Pex : AddPeer(a)

(* downloadPiece returns an error; the connection is given up before the   *)
(* error is sent.                                                          *)
DownloadFails(w) ==
    /\ pc[w] = "download"
    /\ AddPexPeers
    /\ inFlight' = inFlight - 1
    /\ Goto(w, "sendErr")
    /\ UNCHANGED <<work, status, completed, cancelled, item, colVars, supVars,
                   slow>>

DownloadSucceeds(w) ==
    /\ pc[w] = "download"
    /\ AddPexPeers
    /\ Goto(w, "sendData")
    /\ UNCHANGED <<work, status, inFlight, completed, cancelled, item, colVars,
                   supVars, slow>>

(* Mutant: the worker returns without releasing its connection. *)
WorkerExitsHolding(w) ==
    /\ cancelled
    /\ pc[w] \in {"acquire", "select"}
    /\ Goto(w, "exit")
    /\ UNCHANGED <<work, status, pool, known, inFlight, completed, cancelled,
                   item, colVars, supVars, slow>>

(* ctx.Done() in acquireConn or in the worker's select; the deferred close *)
(* releases the connection.                                                *)
WorkerExits(w) ==
    /\ cancelled
    /\ pc[w] \in {"acquire", "select"}
    /\ inFlight' = IF pc[w] = "select" THEN inFlight - 1 ELSE inFlight
    /\ Goto(w, "exit")
    /\ UNCHANGED <<work, status, pool, known, completed, cancelled, item,
                   colVars, supVars, slow>>

WorkerStep(w) == \/ TakeAddr(w) \/ CountInFlight(w)
                 \/ DialFails(w) \/ DialSucceeds(w)
                 \/ TakeWork(w) \/ ClaimPiece(w)
                 \/ DownloadFails(w) \/ DownloadSucceeds(w) \/ WorkerExits(w)

-----------------------------------------------------------------------------
(* The collection loop of Start.  resultChan is unbuffered: a send and its *)
(* receive are one step.                                                   *)

(* The worker's send completes; after an error it has no connection. *)
Sent(w) == /\ item' = [item EXCEPT ![w] = NoPiece]
           /\ Goto(w, IF pc[w] = "sendErr" THEN "acquire" ELSE "select")

(* Mutant: the piece goes back to the queue before it is pending again. *)
CollectErrorStale(w) ==
    /\ col = "recv" /\ pc[w] = "sendErr"
    /\ Sent(w)
    /\ failed' = item[w]
    /\ col' = "requeue"
    /\ UNCHANGED <<work, status, pool, known, inFlight, completed, cancelled,
                   result, supVars, slow>>

CollectError(w) ==
    /\ col = "recv" /\ pc[w] = "sendErr"
    /\ Sent(w)
    /\ status' = [status EXCEPT ![item[w]] = "pending"]
    /\ failed' = item[w]
    /\ col' = "requeue"
    /\ UNCHANGED <<work, pool, known, inFlight, completed, cancelled, result,
                   supVars, slow>>

(* select { workChan <- index; <-ctx.Done() } *)
Requeue ==
    /\ col = "requeue"
    /\ \/ Len(work) < PieceCount /\ work' = Append(work, failed)
       \/ cancelled /\ UNCHANGED work
    /\ col' = "recv" /\ failed' = NoPiece
    /\ UNCHANGED <<status, pool, known, inFlight, completed, cancelled,
                   workerVars, result, supVars, slow>>

(* The piece is written and counted; the last one ends the loop. *)
CollectPiece(w) ==
    /\ col = "recv" /\ pc[w] = "sendData"
    /\ Sent(w)
    /\ status' = [status EXCEPT ![item[w]] = "completed"]
    /\ completed' = completed + 1
    /\ IF completed' = PieceCount
       THEN cancelled' = TRUE /\ col' = "drain"
       ELSE UNCHANGED <<cancelled, col>>
    /\ UNCHANGED <<work, pool, known, inFlight, failed, result, supVars, slow>>

(* WritePiece fails: dlErr, cancel, break. *)
CollectWriteFails(w) ==
    /\ DiskFails
    /\ col = "recv" /\ pc[w] = "sendData"
    /\ Sent(w)
    /\ result' = "disk"
    /\ cancelled' = TRUE /\ col' = "drain"
    /\ UNCHANGED <<work, status, pool, known, inFlight, completed, failed,
                   supVars, slow>>

DrainResult(w) ==
    /\ col = "drain" /\ pc[w] \in {"sendErr", "sendData"}
    /\ Sent(w)
    /\ UNCHANGED <<work, status, pool, known, inFlight, completed, cancelled,
                   colVars, supVars, slow>>

(* Every worker has returned, resultChan is closed: both loops end. *)
ResultsClosed ==
    /\ col \in {"recv", "drain"}
    /\ \A w \in Worker : pc[w] = "exit"
    /\ cancelled' = TRUE
    /\ col' = "wait"
    /\ UNCHANGED <<work, status, pool, known, inFlight, completed, workerVars,
                   failed, result, supVars, slow>>

(* Mutant: the outcome is taken from the error variables only. *)
ReturnNoCount ==
    /\ col = "wait" /\ sup = "done"
    /\ col' = "returned"
    /\ result' = IF result = "disk" THEN "disk"
                 ELSE IF exhausted THEN "exhausted" ELSE "ok"
    /\ UNCHANGED <<work, status, pool, known, inFlight, completed, cancelled,
                   workerVars, failed, supVars, slow>>

(* <-supDone, then the value of Start. *)
Return ==
    /\ col = "wait" /\ sup = "done"
    /\ col' = "returned"
    /\ result' = IF result = "disk" THEN "disk"
                 ELSE IF completed = PieceCount THEN "ok"
                 ELSE IF exhausted THEN "exhausted" ELSE "died"
    /\ UNCHANGED <<work, status, pool, known, inFlight, completed, cancelled,
                   workerVars, failed, supVars, slow>>

CollectorStep == \/ \E w \in Worker : \/ CollectError(w) \/ CollectPiece(w)
                                      \/ CollectWriteFails(w) \/ DrainResult(w)
                 \/ Requeue \/ ResultsClosed \/ Return

-----------------------------------------------------------------------------
(* superviseExhaustion *)

Stalled == pool = <<>> /\ inFlight = 0 /\ completed < PieceCount

(* Mutant: a single poll is believed. *)
PollOnce ==
    /\ sup = "poll"
    /\ PromptWorkers => slow = {}
    /\ slow' = {w \in Worker : pc[w] = "took"}
    /\ \/ ~Stalled /\ UNCHANGED <<supVars, cancelled>>
       \/ /\ Stalled
          /\ confirms' = 1
          /\ exhausted' = TRUE /\ cancelled' = TRUE /\ sup' = "done"
    /\ UNCHANGED <<work, status, pool, known, inFlight, completed, workerVars,
                   colVars>>

(* One tick of the poll timer. *)
Poll ==
    /\ sup = "poll"
    /\ PromptWorkers => slow = {}
    /\ slow' = {w \in Worker : pc[w] = "took"}
    /\ \/ /\ ~Stalled
          /\ confirms' = 0
          /\ UNCHANGED <<sup, exhausted, cancelled>>
       \/ /\ Stalled /\ confirms + 1 < Confirms
          /\ confirms' = confirms + 1
          /\ UNCHANGED <<sup, exhausted, cancelled>>
       \/ /\ Stalled /\ confirms + 1 >= Confirms
          /\ confirms' = confirms + 1
          /\ exhausted' = TRUE /\ cancelled' = TRUE /\ sup' = "done"
    /\ UNCHANGED <<work, status, pool, known, inFlight, completed, workerVars,
                   colVars>>

SupervisorStops ==
    /\ sup = "poll" /\ cancelled
    /\ sup' = "done"
    /\ UNCHANGED <<work, status, pool, known, inFlight, completed, cancelled,
                   workerVars, colVars, confirms, exhausted, slow>>

(* The caller of Start cancels its context. *)
UserCancel ==
    /\ UserCancels /\ ~cancelled
    /\ cancelled' = TRUE
    /\ UNCHANGED <<work, status, pool, known, inFlight, completed, workerVars,
                   colVars, supVars, slow>>

Terminated == col = "returned" /\ UNCHANGED vars

Next == \/ \E w \in Worker : WorkerStep(w)
        \/ CollectorStep
        \/ Poll \/ SupervisorStops \/ UserCancel
        \/ Terminated

Spec == Init /\ [][Next]_vars

(* Goroutines are scheduled, a dial has deadlines for all it does, and the *)
(* select statements of the supervisor and the workers notice a cancelled  *)
(* ctx at last.  A peer may keep a worker in downloadPiece as long as it   *)
(* likes, because every message it sends renews the read deadline; only a  *)
(* cancelled ctx ends that.                                                *)
Fairness == /\ \A w \in Worker :
                 WF_vars(WorkerStep(w) /\ (pc[w] = "download" => cancelled))
            /\ WF_vars(CollectorStep)
            /\ WF_vars(Poll) /\ SF_vars(SupervisorStops)

FairSpec == Spec /\ Fairness

-----------------------------------------------------------------------------
(* Properties *)

HasConn(w) == pc[w] \in {"select", "got", "download", "sendData"}
Holds(w)   == pc[w] \in {"got", "download", "sendErr", "sendData"}

(* The variables have the types of the Go values they stand for; a channel  *)
(* never holds more than its capacity.                                      *)
TypeOK ==
    /\ work \in Seq(Piece) /\ Len(work) <= PieceCount
    /\ status \in [Piece -> {"pending", "inprogress", "completed"}]
    /\ pool \in Seq(Addr) /\ Len(pool) <= PoolCap
    /\ known \subseteq Addr
    /\ inFlight \in Int /\ completed \in 0 .. PieceCount
    /\ exhausted \in BOOLEAN /\ cancelled \in BOOLEAN
    /\ pc \in [Worker -> {"acquire", "took", "dial", "select", "got",
                          "download", "sendErr", "sendData", "exit"}]
    /\ item \in [Worker -> 0 .. PieceCount]
    /\ col \in {"recv", "requeue", "drain", "wait", "returned"}
    /\ failed \in 0 .. PieceCount
    /\ result \in {"none", "ok", "disk", "exhausted", "died"}
    /\ sup \in {"poll", "done"}
    /\ confirms \in 0 .. Confirms
    /\ slow \subseteq Worker

(* The atomic counter the supervisor trusts equals the number of workers    *)
(* that hold a connection or are dialing.                                   *)
InFlightExact ==
    inFlight = Cardinality({w \in Worker : HasConn(w) \/ pc[w] = "dial"})

(* How many times piece p is queued, worked on, or about to be put back. *)
Tokens(p) == Cardinality({i \in 1 .. Len(work) : work[i] = p})
             + Cardinality({w \in Worker : Holds(w) /\ item[w] = p})
             + (IF col = "requeue" /\ failed = p THEN 1 ELSE 0)

(* Until the download is cancelled an unfinished piece is in exactly one    *)
(* place, so none is forgotten and no two workers fetch the same one;       *)
(* a finished piece is nowhere.                                             *)
OneToken == /\ \A p \in Piece : Tokens(p) <= 1
            /\ ~cancelled => \A p \in Piece :
                 Tokens(p) = (IF status[p] = "completed" THEN 0 ELSE 1)

(* The supervisor declares the supply exhausted only when no worker is      *)
(* about to connect and no address is waiting, as long as all addresses are *)
(* the tracker's.  With peer exchange its two polls can fall into the gaps  *)
(* of two workers that take different addresses.                            *)
ExhaustedSound ==
    [][exhausted' /\ ~exhausted /\ known \subseteq Elems(Seeds) =>
          /\ pool = <<>>
          /\ \A w \in Worker : pc[w] \notin {"took", "dial"} /\ ~HasConn(w)]_vars

(* Start implements Fetch: pieces are written once each, never after it     *)
(* returned, and it reports success exactly when all are written.  It       *)
(* returns once ctx is cancelled, and also if it is not, unless some peer   *)
(* keeps a worker in downloadPiece for ever.                                *)
Abstract == INSTANCE Fetch
              WITH have <- {p \in Piece : status[p] = "completed"},
                   outcome <- IF col # "returned" THEN "running"
                              ELSE IF result = "ok" THEN "ok" ELSE "error",
                   busy <- ~cancelled /\ \E w \in Worker : pc[w] = "download"
ImplementsFetch == Abstract!Spec

(* When Start is over no goroutine it started is left and no connection is  *)
(* counted.                                                                 *)
NoLeak == col = "returned" => /\ sup = "done"
                              /\ \A w \in Worker : pc[w] = "exit"
                              /\ inFlight = 0

=============================================================================
