------------------------- MODULE SeederCreditProofs -------------------------
(***************************************************************************)
(* For every set of handler slots and every bound: a client that waits for *)
(* its answers is never credited, by one tracker process, with more than   *)
(* it transferred.                                                         *)
(***************************************************************************)
EXTENDS SeederCredit, TLAPS

Credit == usage + hub
Earlier == sent - shown             \* bytes of the client's earlier sessions

(* The client has one announce under way at most. *)
OneAnnounce == \A q, r \in Req : req[q].pc # "idle" /\ req[r].pc # "idle" => q = r

(* What has been credited is covered by the earlier sessions and the       *)
(* counter a handler carries ...                                           *)
CoveredByHandler ==
    \A r \in Req :
       /\ req[r].pc \in {"update", "track", "put"} =>
            req[r].val <= shown /\ Credit <= Earlier + req[r].val
       /\ req[r].pc = "track" /\ req[r].old # Nil => Credit <= Earlier + req[r].old

(* ... and by the remembered counter, unless a handler has credited and    *)
(* not yet stored its own.                                                 *)
CoveredByPeer ==
    ram # Nil /\ (\A r \in Req : req[r].pc # "put") => Credit <= Earlier + ram

Covered == Serial => /\ OneAnnounce
                     /\ CoveredByHandler
                     /\ CoveredByPeer
                     /\ Credit <= sent

IInv == TypeOK /\ Covered

-----------------------------------------------------------------------------

(* A delta is never negative, and never leads past the announced counter.  *)
LEMMA DeltaBounds ==
    ASSUME NEW q, q.val \in Counter, q.old \in MaybeCounter
    PROVE  /\ Delta(q) \in Nat
           /\ q.old = Nil => Delta(q) = 0
           /\ q.old # Nil /\ q.old <= q.val => q.old + Delta(q) = q.val
           /\ q.old # Nil /\ q.old > q.val => Delta(q) = 0
  BY ConstantsAssumption DEF Delta, Counter, MaybeCounter, Nil

LEMMA InitHolds == Init => IInv
  BY ConstantsAssumption
  DEF Init, IInv, TypeOK, Covered, OneAnnounce, CoveredByHandler, CoveredByPeer,
      Credit, Earlier, Idle, Nil, Counter, MaybeCounter

(* TypeOK is inductive by itself. *)
LEMMA TypeStep == TypeOK /\ [Next]_vars => TypeOK'
<1> SUFFICES ASSUME TypeOK, [Next]_vars PROVE TypeOK'
  OBVIOUS
<1> USE ConstantsAssumption DEF TypeOK, Counter, MaybeCounter, Nil, Idle, clientVars
<1>1. CASE Transfer
  BY <1>1 DEF Transfer
<1>2. CASE CounterReset
  BY <1>2 DEF CounterReset
<1>3. ASSUME NEW r \in Req, NEW e \in {"update", "stopped"}, Announce(r, e)
      PROVE  TypeOK'
  BY <1>3 DEF Announce
<1>4. ASSUME NEW r \in Req, RemovePeer(r) PROVE TypeOK'
  BY <1>4 DEF RemovePeer
<1>5. ASSUME NEW r \in Req, GetPeer(r) PROVE TypeOK'
  BY <1>5 DEF GetPeer
<1>6. ASSUME NEW r \in Req, TrackUsage(r) PROVE TypeOK'
  <2>1. Delta(req[r]) \in Nat
    BY DeltaBounds
  <2>2. QED
    BY <1>6, <2>1 DEF TrackUsage
<1>7. ASSUME NEW r \in Req, UpdatePeer(r) PROVE TypeOK'
  BY <1>7 DEF UpdatePeer
<1>8. CASE FlushSnapshot
  BY <1>8 DEF FlushSnapshot
<1>9. CASE FlushCommit
  BY <1>9 DEF FlushCommit
<1>10. CASE FlushUsers
  BY <1>10 DEF FlushUsers
<1>11. CASE CrashRestart
  BY <1>11 DEF CrashRestart
<1>12. CASE UNCHANGED vars
  BY <1>12 DEF vars
<1>13. QED
  BY <1>1, <1>2, <1>3, <1>4, <1>5, <1>6, <1>7, <1>8, <1>9, <1>10, <1>11, <1>12
  DEF Next, Handle

(* One step per action: what has been credited stays covered. *)
LEMMA CoveredStep == IInv /\ [Next]_vars => Covered'
<1> SUFFICES ASSUME TypeOK, Covered, Serial, [Next]_vars, TypeOK'
             PROVE  /\ OneAnnounce' /\ CoveredByHandler'
                    /\ CoveredByPeer' /\ (Credit <= sent)'
  BY TypeStep DEF IInv, Covered
<1> USE ConstantsAssumption
    DEF TypeOK, Covered, OneAnnounce, CoveredByHandler, CoveredByPeer, Credit,
        Earlier, Counter, MaybeCounter, Nil, Idle, clientVars
<1>1. CASE Transfer
  BY <1>1 DEF Transfer
<1>2. CASE CounterReset
  BY <1>2 DEF CounterReset, Quiet
<1>3. ASSUME NEW r \in Req, NEW e \in {"update", "stopped"}, Announce(r, e)
      PROVE  /\ OneAnnounce' /\ CoveredByHandler'
             /\ CoveredByPeer' /\ (Credit <= sent)'
  BY <1>3 DEF Announce, Quiet
<1>4. ASSUME NEW r \in Req, RemovePeer(r)
      PROVE  /\ OneAnnounce' /\ CoveredByHandler'
             /\ CoveredByPeer' /\ (Credit <= sent)'
  BY <1>4 DEF RemovePeer
<1>5. ASSUME NEW r \in Req, GetPeer(r)
      PROVE  /\ OneAnnounce' /\ CoveredByHandler'
             /\ CoveredByPeer' /\ (Credit <= sent)'
  <2>1. \A q \in Req : req[q].pc # "put"
    BY <1>5 DEF GetPeer
  <2>2. ram # Nil => Credit <= Earlier + ram
    BY <2>1
  <2>3. QED
    BY <1>5, <2>2 DEF GetPeer
<1>6. ASSUME NEW r \in Req, TrackUsage(r)
      PROVE  /\ OneAnnounce' /\ CoveredByHandler'
             /\ CoveredByPeer' /\ (Credit <= sent)'
  <2>1. /\ req[r].val \in Counter /\ req[r].old \in MaybeCounter
        /\ req'[r].pc = "put" /\ req'[r].val = req[r].val
        /\ \A q \in Req : q # r => req'[q] = req[q] /\ req[q].pc = "idle"
    BY <1>6 DEF TrackUsage
  <2>2. Credit + Delta(req[r]) <= Earlier + req[r].val
    BY <1>6, <2>1, DeltaBounds DEF TrackUsage
  <2>3. Credit' <= Earlier' + req'[r].val
    BY <1>6, <2>1, <2>2, DeltaBounds DEF TrackUsage
  <2>4. QED
    BY <1>6, <2>1, <2>3 DEF TrackUsage
<1>7. ASSUME NEW r \in Req, UpdatePeer(r)
      PROVE  /\ OneAnnounce' /\ CoveredByHandler'
             /\ CoveredByPeer' /\ (Credit <= sent)'
  BY <1>7 DEF UpdatePeer
<1>8. CASE FlushSnapshot
  BY <1>8 DEF FlushSnapshot
<1>9. CASE FlushCommit
  BY <1>9 DEF FlushCommit
<1>10. CASE FlushUsers
  <2>1. Credit' = Credit
    BY <1>10 DEF FlushUsers
  <2>2. QED
    BY <1>10, <2>1 DEF FlushUsers
<1>11. CASE CrashRestart
  BY <1>11 DEF CrashRestart
<1>12. CASE UNCHANGED vars
  BY <1>12 DEF vars
<1>13. QED
  BY <1>1, <1>2, <1>3, <1>4, <1>5, <1>6, <1>7, <1>8, <1>9, <1>10, <1>11, <1>12
  DEF Next, Handle

(* The inductive invariant holds in every reachable state. *)
THEOREM IInvariance == Spec => []IInv
<1>1. IInv /\ [Next]_vars => IInv'
  BY TypeStep, CoveredStep DEF IInv
<1>2. QED
  BY InitHolds, <1>1, PTL DEF Spec

(* Deltas stay non-negative, whoever announces and however often: the      *)
(* clamp of executeAnnounce is enough.                                     *)
THEOREM TypeCorrect == Spec => []TypeOK
<1>1. IInv => TypeOK
  BY DEF IInv
<1>2. QED
  BY IInvariance, <1>1, PTL

(* One tracker process never credits a client that waits for its answers   *)
(* with more than it transferred, through resets, stops, failed flushes    *)
(* and earlier crashes.                                                    *)
THEOREM SerialCredit ==
    ASSUME Serial
    PROVE  Spec => []CreditWithinTransfer
<1>1. IInv => CreditWithinTransfer
  BY DEF IInv, Covered, Credit, CreditWithinTransfer
<1>2. QED
  BY IInvariance, <1>1, PTL

=============================================================================
