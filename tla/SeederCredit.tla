---------------------------- MODULE SeederCredit ----------------------------
(***************************************************************************)
(* How an announce turns into credit (executeAnnounce, the seeder economy  *)
(* part), for one user's client in one swarm.  The client reports the      *)
(* counter of its session; the tracker credits the growth since the        *)
(* counter it remembers for the peer.  GetPeer, TrackUsage and UpdatePeer  *)
(* each take the lock on their own, so handlers interleave between them.   *)
(* The remembered counter is persisted by FlushToDB, the credit is handed  *)
(* to the Hub by FlushUsers later in the same tick, and a restart reloads  *)
(* the counter but not the credit.                                         *)
(*                                                                         *)
(* Uploaded and Downloaded are clamped and summed independently of each    *)
(* other; one stands for both.  The hand-over to the Hub is the reliable   *)
(* one; UsageSync has its failures.                                        *)
(***************************************************************************)
EXTENDS Integers

CONSTANTS
    Req,          \* slots for announces of this peer handled at one time
    Serial,       \* does the client wait for an answer before it goes on?
    MaxBytes,     \* bound: what the client really transfers
    MaxCrashes    \* bound: how often the tracker is killed

ASSUME ConstantsAssumption ==
    /\ Serial \in BOOLEAN
    /\ MaxBytes \in Nat /\ MaxCrashes \in Nat

Nil == -1                           \* no such peer
Counter == 0 .. MaxBytes
MaybeCounter == Counter \cup {Nil}

VARIABLES
    sent,     \* bytes the client really transferred, in all its sessions
    shown,    \* the counter the client reports: bytes of this session
    ram,      \* Uploaded of the peer in State.Peers
    row,      \* Uploaded of the peer in table peers
    snap,     \* Uploaded of the peer in the snapshot of FlushToDB
    usage,    \* the user's delta in State.Users
    hub,      \* what this process has handed to the Hub
    total,    \* observed: what all processes have handed to the Hub
    req,      \* the announce handlers
    ticker,   \* "select", "commit" or "users"
    crashes

clientVars == <<sent, shown>>
vars == <<clientVars, ram, row, snap, usage, hub, total, req, ticker, crashes>>

Idle == [pc |-> "idle", val |-> 0, old |-> Nil]

Init == /\ sent = 0 /\ shown = 0
        /\ ram = Nil /\ row = Nil /\ snap = Nil
        /\ usage = 0 /\ hub = 0 /\ total = 0
        /\ req = [r \in Req |-> Idle]
        /\ ticker = "select" /\ crashes = 0

Quiet == \A r \in Req : req[r].pc = "idle"

-----------------------------------------------------------------------------
(* The client *)

Transfer == /\ sent < MaxBytes
            /\ sent' = sent + 1 /\ shown' = shown + 1
            /\ UNCHANGED <<ram, row, snap, usage, hub, total, req, ticker, crashes>>

(* A new session: the counter starts again. *)
CounterReset == /\ shown > 0
                /\ Serial => Quiet
                /\ shown' = 0
                /\ UNCHANGED <<sent, ram, row, snap, usage, hub, total, req,
                               ticker, crashes>>

-----------------------------------------------------------------------------
(* executeAnnounce *)

Announce(r, e) ==
    /\ req[r].pc = "idle"
    /\ Serial => Quiet
    /\ req' = [req EXCEPT ![r] = [pc |-> e, val |-> shown, old |-> Nil]]
    /\ UNCHANGED <<clientVars, ram, row, snap, usage, hub, total, ticker, crashes>>

(* A stopped event removes the peer and credits nothing. *)
RemovePeer(r) ==
    /\ req[r].pc = "stopped"
    /\ ram' = Nil
    /\ req' = [req EXCEPT ![r] = Idle]
    /\ UNCHANGED <<clientVars, row, snap, usage, hub, total, ticker, crashes>>

GetPeer(r) ==
    /\ req[r].pc = "update"
    /\ req' = [req EXCEPT ![r] = [pc |-> "track", val |-> req[r].val, old |-> ram]]
    /\ UNCHANGED <<clientVars, ram, row, snap, usage, hub, total, ticker, crashes>>

(* Mutant: a counter that was reset is not clamped. *)
DeltaUnclamped(q) == IF q.old = Nil THEN 0 ELSE q.val - q.old

(* Mutant: a peer that was not known is credited its whole counter. *)
DeltaNewPeer(q) == IF q.old = Nil THEN q.val
                   ELSE IF q.val < q.old THEN 0 ELSE q.val - q.old

(* The growth since the remembered counter, never below zero; nothing for  *)
(* a peer that was not known.                                              *)
Delta(q) == IF q.old = Nil \/ q.val < q.old THEN 0 ELSE q.val - q.old

TrackUsage(r) ==
    /\ req[r].pc = "track"
    /\ usage' = usage + Delta(req[r])
    /\ req' = [req EXCEPT ![r] = [pc |-> "put", val |-> req[r].val, old |-> Nil]]
    /\ UNCHANGED <<clientVars, ram, row, snap, hub, total, ticker, crashes>>

UpdatePeer(r) ==
    /\ req[r].pc = "put"
    /\ ram' = req[r].val
    /\ req' = [req EXCEPT ![r] = Idle]
    /\ UNCHANGED <<clientVars, row, snap, usage, hub, total, ticker, crashes>>

Handle(r) == RemovePeer(r) \/ GetPeer(r) \/ TrackUsage(r) \/ UpdatePeer(r)

-----------------------------------------------------------------------------
(* The tick: FlushToDB, then FlushUsers *)

FlushSnapshot == /\ ticker = "select"
                 /\ snap' = ram
                 /\ ticker' = "commit"
                 /\ UNCHANGED <<clientVars, ram, row, usage, hub, total, req,
                                crashes>>

(* The transaction commits, or an error leaves the table as it was. *)
FlushCommit == /\ ticker = "commit"
               /\ row' \in {snap, row}
               /\ snap' = Nil
               /\ ticker' = "users"
               /\ UNCHANGED <<clientVars, ram, usage, hub, total, req,
                                crashes>>

FlushUsers == /\ ticker = "users"
              /\ hub' = hub + usage /\ total' = total + usage
              /\ usage' = 0
              /\ ticker' = "select"
              /\ UNCHANGED <<clientVars, ram, row, snap, req, crashes>>

(* The process is killed and started again: LoadFromDB.  The handlers and  *)
(* the credit in RAM are gone.                                             *)
CrashRestart == /\ crashes < MaxCrashes
                /\ crashes' = crashes + 1
                /\ ram' = row
                /\ snap' = Nil
                /\ usage' = 0 /\ hub' = 0
                /\ req' = [r \in Req |-> Idle]
                /\ ticker' = "select"
                /\ UNCHANGED <<clientVars, row, total>>

Next == \/ Transfer \/ CounterReset
        \/ \E r \in Req : Announce(r, "update") \/ Announce(r, "stopped")
        \/ \E r \in Req : Handle(r)
        \/ FlushSnapshot \/ FlushCommit \/ FlushUsers
        \/ CrashRestart

Spec == Init /\ [][Next]_vars

-----------------------------------------------------------------------------
(* Properties *)

(* The variables have the types of the Go values they stand for; a delta is *)
(* never negative.                                                          *)
TypeOK == /\ sent \in Counter /\ shown \in 0 .. sent
          /\ ram \in MaybeCounter /\ row \in MaybeCounter /\ snap \in MaybeCounter
          /\ usage \in Nat /\ hub \in Nat /\ total \in Nat
          /\ req \in [Req -> [pc : {"idle", "update", "stopped", "track", "put"},
                              val : Counter, old : MaybeCounter]]
          /\ ticker \in {"select", "commit", "users"}
          /\ crashes \in 0 .. MaxCrashes

(* One process never credits a user with more than the client transferred:  *)
(* what it handed to the Hub and what waits in RAM stay within the bytes of *)
(* all sessions, however the client resets its counter, stops and returns.  *)
CreditWithinTransfer == usage + hub <= sent

(* The Hub's total, over all lives of the tracker, never exceeds what the   *)
(* client transferred.                                                      *)
NoOverCredit == usage + total <= sent

=============================================================================
