----------------------------- MODULE GetProofs -----------------------------
(***************************************************************************)
(* The command `wl get`, for any number of addresses in an answer: it      *)
(* leaves the swarms it joined, saves what the magnet names and reports    *)
(* only what it has.                                                       *)
(***************************************************************************)
EXTENDS Get, TLAPS

(* The dictionary a magnet stands for. *)
Named == IF magnet.v1 = "none" THEN magnet.v2 ELSE magnet.v1

(* The way of the dictionary: a magnet is asked of peers only by its v1    *)
(* hash, what is in hand is what the magnet names, and it is in the file   *)
(* before anything else is done with it.                                   *)
InHand ==
    /\ meta \in {"none", Named}
    /\ saved \in {"none", "cut", meta}
    /\ pc \in {"metaStarted", "fetch", "metaStopped"} => magnet.v1 # "none"
    /\ pc \in {"registry", "metaStarted", "fetch", "metaStopped", "save"} => saved = "none"
    /\ pc \in {"save", "prepare", "started", "swarm", "completed", "stopped"} => meta # "none"
    /\ pc \in {"prepare", "started", "swarm", "completed", "stopped"} => saved = meta
    /\ pc = "metaStopped" /\ ~failed => meta # "none"
    /\ Answered => Recognized
    /\ "download" \in joined => Recognized /\ meta # "none" /\ saved = meta

(* The completed announce exists only while or after all data is there,    *)
(* and is sent once.                                                       *)
Earned ==
    /\ have => pc \in {"completed", "stopped", "exit"}
    /\ pc = "completed" => have /\ ~failed
    /\ pc \in {"stopped", "exit"} /\ ~failed => have
    /\ pc = "exit" /\ ~failed => saved = meta /\ meta # "none"
    /\ pc \notin {"metaStopped", "stopped", "exit"} => ~failed
    /\ Announces.completed \in net \/ completions > 0 \/ listed["download"] = "seed" => have
    /\ Announces.completed \in net => completions = 0
    /\ pc = "completed" /\ call = "none" => Announces.completed \notin net /\ completions = 0

Msgs(s) == {m \in net : m.session = s}

(* A session before it joins, while it does, inside, and on its way out:   *)
(* what the tracker may still get from it.  What was given up may arrive   *)
(* at any time.                                                            *)
MetaOrder ==
    /\ pc = "registry" => "meta" \notin joined /\ Msgs("meta") = {}
    /\ pc = "metaStarted" =>
         /\ "meta" \notin joined
         /\ call = "none" \/ Answered => Msgs("meta") = {}
         /\ call = "out" => Msgs("meta") \subseteq {Announces.metaStarted}
    /\ "meta" \in joined /\ "meta" \notin late =>
         /\ pc = "fetch" => Msgs("meta") = {}
         /\ pc = "metaStopped" =>
              /\ call # "failed"
              /\ call = "none" \/ Answered => Msgs("meta") = {}
              /\ call = "out" => Msgs("meta") \subseteq {Announces.metaStopped}
              /\ Answered => listed["meta"] = "no"
         /\ pc \notin {"registry", "metaStarted", "fetch", "metaStopped"} =>
              Msgs("meta") = {} /\ listed["meta"] = "no"

DownloadOrder ==
    /\ pc \in {"registry", "metaStarted", "fetch", "metaStopped", "save", "prepare"} =>
         "download" \notin joined /\ Msgs("download") = {}
    /\ pc = "started" =>
         /\ "download" \notin joined
         /\ call = "none" \/ Answered => Msgs("download") = {}
         /\ call = "out" => Msgs("download") \subseteq {Announces.started}
    /\ "download" \in joined /\ "download" \notin late =>
         /\ pc = "swarm" => Msgs("download") = {}
         /\ pc = "completed" =>
              /\ call \in {"none", "failed"} \/ Answered => Msgs("download") = {}
              /\ call = "out" => Msgs("download") \subseteq {Announces.completed}
         /\ pc = "stopped" =>
              /\ call # "failed"
              /\ call = "none" \/ Answered => Msgs("download") = {}
              /\ call = "out" => Msgs("download") \subseteq {Announces.stopped}
              /\ Answered => listed["download"] = "no"
         /\ pc = "exit" => Msgs("download") = {} /\ listed["download"] = "no"

(* The command waits only at an announce, and asks peers only while there  *)
(* are some.                                                               *)
Waiting == (call # "none" => Announcing) /\ (pc = "fetch" => addrs >= 1)

IInv == TypeOK /\ Waiting /\ InHand /\ Earned /\ MetaOrder /\ DownloadOrder

-----------------------------------------------------------------------------

(* The announces differ in session or event. *)
LEMMA AnnounceFacts ==
    /\ DOMAIN Announces = {"metaStarted", "metaStopped", "started", "completed", "stopped"}
    /\ Announces["metaStarted"] = [session |-> "meta", event |-> "started"]
    /\ Announces["metaStopped"] = [session |-> "meta", event |-> "stopped"]
    /\ Announces["started"] = [session |-> "download", event |-> "started"]
    /\ Announces["completed"] = [session |-> "download", event |-> "completed"]
    /\ Announces["stopped"] = [session |-> "download", event |-> "stopped"]
  BY DEF Announces

LEMMA InitIInv == Init => IInv
<1> SUFFICES ASSUME Init PROVE IInv
  OBVIOUS
<1> USE AddrsAssumption DEF Init
<1>1. TypeOK
  <2>1. pc \in DOMAIN Announces \cup {"registry", "fetch", "save", "prepare", "swarm", "exit"}
    OBVIOUS
  <2>2. listed \in [Session -> {"no", "leech", "seed"}] /\ addrs \in 0 .. MaxAddrs
    OBVIOUS
  <2>3. /\ net \subseteq {Announces[a] : a \in DOMAIN Announces}
        /\ completions \in 0 .. 1 /\ joined \subseteq Session /\ late \subseteq Session
    OBVIOUS
  <2>4. /\ magnet \in Magnets /\ contents \in [Dict -> Contents]
        /\ registry \in Dict \cup {"none", "garbage"}
        /\ meta = "none" /\ failed = FALSE /\ ctxDone = FALSE /\ call = "none"
        /\ saved = "none" /\ have = FALSE
    OBVIOUS
  <2> HIDE DEF Init
  <2> QED
    BY <2>1, <2>2, <2>3, <2>4 DEF TypeOK
<1>2. Waiting /\ InHand /\ Earned
  BY DEF Waiting, InHand, Earned, Answered, Session
<1>3. MetaOrder /\ DownloadOrder
  BY DEF MetaOrder, DownloadOrder, Msgs, Answered
<1> QED
  BY <1>1, <1>2, <1>3 DEF IInv

(* TypeOK, given that no completion is counted twice. *)
LEMMA TypeStep == IInv /\ [Next]_vars => TypeOK'
<1> SUFFICES ASSUME IInv, [Next]_vars PROVE TypeOK'
  OBVIOUS
<1> USE AddrsAssumption, AnnounceFacts
    DEF IInv, TypeOK, Goto, Fail, given, acquired, trackerVars
<1>1. CASE Send
  BY <1>1 DEF Send, Announcing
<1>2. CASE CtxEnds
  BY <1>2 DEF CtxEnds
<1>3. CASE GiveUp
  <2>1. pc \in DOMAIN Announces
    BY <1>3 DEF GiveUp, Waiting, Announcing
  <2>2. Announces[pc].session \in Session
    BY <2>1 DEF Session
  <2>3. late' \subseteq Session /\ net' \subseteq net
    BY <1>3, <2>2 DEF GiveUp
  <2> QED
    BY <1>3, <2>3 DEF GiveUp
<1>4. ASSUME NEW m \in net, TrackerApplies(m) PROVE TypeOK'
  <2>1. m.session \in Session /\ Listing(m) \in {"no", "leech", "seed"}
    BY DEF Session, Listing
  <2>2. completions' \in 0 .. 1
    <3>1. CASE m.event = "completed"
      BY <1>4, <3>1 DEF TrackerApplies, Earned
    <3>2. CASE m.event # "completed"
      BY <1>4, <3>2 DEF TrackerApplies
    <3> QED
      BY <3>1, <3>2
  <2> QED
    BY <1>4, <2>1, <2>2 DEF TrackerApplies
<1>5. ASSUME NEW m \in net, TrackerRefuses(m) PROVE TypeOK'
  <2>1. m.session \in Session /\ late' \subseteq Session
    BY <1>5 DEF TrackerRefuses, Session
  <2> QED
    BY <1>5, <2>1 DEF TrackerRefuses
<1>6. CASE Registry
  BY <1>6 DEF Registry, Usable
<1>7. CASE MetaStarted
  <2>1. joined' \subseteq Session
    BY <1>7 DEF MetaStarted, Session
  <2>2. addrs' \in 0 .. MaxAddrs
    BY <1>7 DEF MetaStarted
  <2> QED
    BY <1>7, <2>1, <2>2 DEF MetaStarted
<1>8. CASE TryPeer
  <2>1. addrs' \in 0 .. MaxAddrs
    BY <1>8 DEF TryPeer, Waiting
  <2> QED
    BY <1>8, <2>1 DEF TryPeer
<1>9. CASE PeerServes
  <2>1. magnet.v1 \in Dict
    BY <1>9 DEF PeerServes, InHand, Magnets, Dict
  <2>2. meta' \in Dict \cup {"none"} /\ addrs' \in 0 .. MaxAddrs
    BY <1>9, <2>1 DEF PeerServes
  <2> QED
    BY <1>9, <2>2 DEF PeerServes
<1>10. CASE MetaStopped
  BY <1>10 DEF MetaStopped
<1>11. CASE Save
  BY <1>11 DEF Save, InHand
<1>12. CASE Prepare
  BY <1>12 DEF Prepare
<1>13. CASE Started
  BY <1>13 DEF Started, Session
<1>14. CASE Swarm
  BY <1>14 DEF Swarm
<1>15. CASE Completed \/ Stopped \/ CtrlC
  BY <1>15 DEF Completed, Stopped, CtrlC
<1>16. CASE Terminated \/ UNCHANGED vars
  BY <1>16 DEF Terminated, vars
<1> QED
  BY <1>1, <1>2, <1>3, <1>4, <1>5, <1>6, <1>7, <1>8, <1>9, <1>10, <1>11, <1>12,
     <1>13, <1>14, <1>15, <1>16
  DEF Next, ClientStep, TrackerStep

(* What an announce under way may be, and where the command may be. *)
LEMMA TypeFacts ==
    ASSUME TypeOK
    PROVE  /\ \A m \in net : m \in {Announces["metaStarted"], Announces["metaStopped"],
                                   Announces["started"], Announces["completed"],
                                   Announces["stopped"]}
           /\ call \in {"none", "out", "failed", "nopeers", "peers"}
           /\ pc \in {"metaStarted", "metaStopped", "started", "completed", "stopped",
                     "registry", "fetch", "save", "prepare", "swarm", "exit"}
           /\ listed \in [{"meta", "download"} -> {"no", "leech", "seed"}]
           /\ completions \in 0 .. 1
  BY AnnounceFacts DEF TypeOK, Session

(* The dictionary stays what the magnet names. *)
LEMMA InHandStep == IInv /\ [Next]_vars => Waiting' /\ InHand'
<1> SUFFICES ASSUME IInv, [Next]_vars PROVE Waiting' /\ InHand'
  OBVIOUS
<1> USE AnnounceFacts DEF Waiting, InHand, Named, Answered, Recognized, Announcing,
        Goto, Fail, given, acquired, trackerVars
<1>0. TypeOK /\ Waiting /\ InHand
  BY DEF IInv
<1>1. CASE Send \/ CtxEnds \/ GiveUp \/ CtrlC
  BY <1>0, <1>1 DEF Send, CtxEnds, GiveUp, CtrlC
<1>2. ASSUME NEW m \in net, TrackerApplies(m) \/ TrackerRefuses(m) PROVE Waiting' /\ InHand'
  BY <1>0, <1>2 DEF TrackerApplies, TrackerRefuses, Awaited
<1>3. CASE Registry
  <2>1. Usable => registry = Named /\ registry # "none"
    BY <1>0 DEF Usable, VerifyInfoHash, Dict, TypeOK, Magnets
  <2> QED
    BY <1>0, <1>3, <2>1 DEF Registry
<1>4. CASE MetaStarted \/ MetaStopped
  BY <1>0, <1>4 DEF MetaStarted, MetaStopped
<1>5. CASE TryPeer
  BY <1>0, <1>5 DEF TryPeer, TypeOK
<1>6. CASE PeerServes
  BY <1>0, <1>6 DEF PeerServes
<1>7. CASE Save
  BY <1>0, <1>7 DEF Save
<1>8. CASE Prepare \/ Swarm \/ Completed \/ Stopped
  BY <1>0, <1>8 DEF Prepare, Swarm, Completed, Stopped
<1>9. CASE Started
  BY <1>0, <1>9 DEF Started
<1>10. CASE Terminated \/ UNCHANGED vars
  BY <1>0, <1>10 DEF Terminated, vars
<1> QED
  BY <1>1, <1>2, <1>3, <1>4, <1>5, <1>6, <1>7, <1>8, <1>9, <1>10
  DEF Next, ClientStep, TrackerStep

(* Nothing is reported that is not there. *)
LEMMA EarnedStep == IInv /\ [Next]_vars => Earned'
<1> SUFFICES ASSUME IInv, [Next]_vars PROVE Earned'
  OBVIOUS
<1> USE AnnounceFacts DEF Earned, Goto, Fail, given, acquired, trackerVars
<1>0. Earned /\ InHand
  BY DEF IInv
<1>t. /\ \A m \in net : m \in {Announces["metaStarted"], Announces["metaStopped"],
                              Announces["started"], Announces["completed"],
                              Announces["stopped"]}
      /\ listed \in [{"meta", "download"} -> {"no", "leech", "seed"}]
      /\ completions \in 0 .. 1 /\ have \in BOOLEAN /\ failed \in BOOLEAN
  BY TypeFacts DEF IInv, TypeOK
<1>1. CASE Send
  BY <1>0, <1>1 DEF Send, Announcing
<1>2. CASE CtxEnds \/ GiveUp \/ CtrlC
  BY <1>0, <1>2 DEF CtxEnds, GiveUp, CtrlC
<1>3. ASSUME NEW m \in net, TrackerApplies(m) PROVE Earned'
  BY <1>0, <1>t, <1>3 DEF TrackerApplies, Awaited, Listing
<1>4. ASSUME NEW m \in net, TrackerRefuses(m) PROVE Earned'
  BY <1>0, <1>t, <1>4 DEF TrackerRefuses, Awaited
<1>5. CASE Registry \/ MetaStarted \/ TryPeer \/ PeerServes \/ MetaStopped
  BY <1>0, <1>5 DEF Registry, MetaStarted, TryPeer, PeerServes, MetaStopped
<1>6. CASE Save \/ Prepare \/ Started
  BY <1>0, <1>6 DEF Save, Prepare, Started
<1>7. CASE Swarm
  BY <1>0, <1>t, <1>7 DEF Swarm
<1>8. CASE Completed \/ Stopped
  BY <1>0, <1>8 DEF Completed, Stopped, InHand
<1>9. CASE Terminated \/ UNCHANGED vars
  BY <1>0, <1>9 DEF Terminated, vars
<1> QED
  BY <1>1, <1>2, <1>3, <1>4, <1>5, <1>6, <1>7, <1>8, <1>9
  DEF Next, ClientStep, TrackerStep

(* The session of the metadata exchange ends with a stopped announce.          *)
LEMMA MetaOrderStep == IInv /\ [Next]_vars => MetaOrder'
<1> SUFFICES ASSUME IInv, [Next]_vars PROVE MetaOrder'
  OBVIOUS
<1> USE AnnounceFacts DEF MetaOrder, Msgs, Answered, Goto, Fail, given, acquired, trackerVars
<1>0. MetaOrder
  BY DEF IInv
<1>t. /\ \A m \in net : m \in {Announces["metaStarted"], Announces["metaStopped"],
                              Announces["started"], Announces["completed"],
                              Announces["stopped"]}
      /\ listed \in [{"meta", "download"} -> {"no", "leech", "seed"}]
  BY TypeFacts DEF IInv
<1>1. CASE Send
  BY <1>0, <1>t, <1>1 DEF Send, Announcing
<1>2. CASE CtxEnds \/ CtrlC
  BY <1>0, <1>2 DEF CtxEnds, InCtx, Announcing, CtrlC
<1>3. CASE GiveUp
  BY <1>0, <1>t, <1>3 DEF GiveUp, IInv, Waiting, Announcing
<1>4. ASSUME NEW m \in net, TrackerApplies(m) PROVE MetaOrder'
  BY <1>0, <1>t, <1>4 DEF TrackerApplies, Awaited, Listing
<1>5. ASSUME NEW m \in net, TrackerRefuses(m) PROVE MetaOrder'
  BY <1>0, <1>t, <1>5 DEF TrackerRefuses, Awaited
<1>6. CASE Registry \/ MetaStarted \/ TryPeer \/ PeerServes \/ MetaStopped
  BY <1>0, <1>6 DEF Registry, MetaStarted, TryPeer, PeerServes, MetaStopped
<1>7. CASE Save \/ Prepare \/ Started
  BY <1>0, <1>7 DEF Save, Prepare, Started
<1>8. CASE Swarm \/ Completed \/ Stopped
  BY <1>0, <1>8 DEF Swarm, Completed, Stopped
<1>9. CASE Terminated \/ UNCHANGED vars
  BY <1>0, <1>9 DEF Terminated, vars
<1> QED
  BY <1>1, <1>2, <1>3, <1>4, <1>5, <1>6, <1>7, <1>8, <1>9
  DEF Next, ClientStep, TrackerStep

(* The session of the download ends with a stopped announce.                *)
LEMMA DownloadOrderStep == IInv /\ [Next]_vars => DownloadOrder'
<1> SUFFICES ASSUME IInv, [Next]_vars PROVE DownloadOrder'
  OBVIOUS
<1> USE AnnounceFacts DEF DownloadOrder, Msgs, Answered, Goto, Fail, given, acquired, trackerVars
<1>0. DownloadOrder
  BY DEF IInv
<1>t. /\ \A m \in net : m \in {Announces["metaStarted"], Announces["metaStopped"],
                              Announces["started"], Announces["completed"],
                              Announces["stopped"]}
      /\ listed \in [{"meta", "download"} -> {"no", "leech", "seed"}]
  BY TypeFacts DEF IInv
<1>1. CASE Send
  BY <1>0, <1>t, <1>1 DEF Send, Announcing
<1>2. CASE CtxEnds \/ CtrlC
  BY <1>0, <1>2 DEF CtxEnds, InCtx, Announcing, CtrlC
<1>3. CASE GiveUp
  BY <1>0, <1>t, <1>3 DEF GiveUp, IInv, Waiting, Announcing
<1>4. ASSUME NEW m \in net, TrackerApplies(m) PROVE DownloadOrder'
  BY <1>0, <1>t, <1>4 DEF TrackerApplies, Awaited, Listing
<1>5. ASSUME NEW m \in net, TrackerRefuses(m) PROVE DownloadOrder'
  BY <1>0, <1>t, <1>5 DEF TrackerRefuses, Awaited
<1>6. CASE Registry \/ MetaStarted \/ TryPeer \/ PeerServes \/ MetaStopped
  BY <1>0, <1>6 DEF Registry, MetaStarted, TryPeer, PeerServes, MetaStopped
<1>7. CASE Save \/ Prepare \/ Started
  BY <1>0, <1>7 DEF Save, Prepare, Started
<1>8. CASE Swarm \/ Completed \/ Stopped
  BY <1>0, <1>8 DEF Swarm, Completed, Stopped
<1>9. CASE Terminated \/ UNCHANGED vars
  BY <1>0, <1>9 DEF Terminated, vars
<1> QED
  BY <1>1, <1>2, <1>3, <1>4, <1>5, <1>6, <1>7, <1>8, <1>9
  DEF Next, ClientStep, TrackerStep

(* The inductive invariant holds in every reachable state. *)
THEOREM IInvariance == Spec => []IInv
<1>1. IInv /\ [Next]_vars => IInv'
  BY TypeStep, InHandStep, EarnedStep, MetaOrderStep, DownloadOrderStep DEF IInv
<1> QED
  BY InitIInv, <1>1, PTL DEF Spec

(* However the command ends, Ctrl-C included, it has told the tracker: once *)
(* the tracker has handled what was sent, a session that the command knows  *)
(* to have joined is not listed, unless one of its announces was given up   *)
(* or its stopped refused.                                                  *)
THEOREM SwarmsLeft == Spec => []LeavesSwarm
<1>1. IInv => LeavesSwarm
  BY DEF IInv, TypeOK, Session, MetaOrder, DownloadOrder, LeavesSwarm
<1> QED
  BY IInvariance, <1>1, PTL

(* Whatever registry and peers hand out, what is saved, and what is joined  *)
(* to download, is the torrent that the magnet names.                       *)
THEOREM OnlyNamedSaved == Spec => []SavedIsNamed
<1>1. IInv => SavedIsNamed
  BY DEF IInv, TypeOK, InHand, Named, Recognized, Dict, SavedIsNamed
<1> QED
  BY IInvariance, <1>1, PTL

(* A completion is counted, a seeder listed and success reported only with  *)
(* the data complete on disk.                                               *)
THEOREM OnlyEarnedReported == Spec => []CompletionEarned
<1>1. IInv => CompletionEarned
  BY DEF IInv, TypeOK, Earned, InHand, CompletionEarned
<1> QED
  BY IInvariance, <1>1, PTL

=============================================================================
