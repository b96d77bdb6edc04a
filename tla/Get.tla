-------------------------------- MODULE Get --------------------------------
(***************************************************************************)
(* The command `wl get` (runGet and acquireMetadata in cmd/wl/main.go,     *)
(* DownloadMVP in internal/client/downloader.go) and what the tracker sees *)
(* of it.  The command joins a swarm up to twice, under two peer ids: once *)
(* to fetch the info dictionary from peers, when the registry does not     *)
(* have it, and once to download.  It must not stay listed after it ends.  *)
(*                                                                         *)
(* An announce is a request that the tracker handles at some later moment; *)
(* the client waits for the answer, but gives up when its context ends,    *)
(* and a request that is under way then is handled all the same.  The      *)
(* started announces run in the context that Ctrl-C cancels, the others in *)
(* one of their own with a grace period.  One connection of the metadata   *)
(* exchange (Metadata.tla), the swarm (Swarm.tla) and the disk succeed or  *)
(* fail; the tracker may be silent and the swarm at work for ever.         *)
(*                                                                         *)
(* A hash is the dictionary it is the hash of.  A hybrid magnet may name   *)
(* two different ones.                                                     *)
(***************************************************************************)
EXTENDS Integers

CONSTANT MaxAddrs                   \* bound: addresses in an answer

ASSUME AddrsAssumption == MaxAddrs \in Nat \ {0}

Session == {"meta", "download"}     \* the two peer ids
Dict == {"a", "b"}                  \* info dictionaries

VARIABLES
    magnet,     \* the dictionaries its hashes v1 and v2 name, or "none"
    contents,   \* of each dictionary: what ParseInfo makes of it
    registry,   \* what the registry serves: "none", "garbage" or a dictionary
    meta,       \* the dictionary in hand, or "none"
    addrs,      \* addresses that fetchMetadataFromPeers has not tried
    pc,         \* where the command is
    failed,     \* is it on its way out with an error?
    ctxDone,    \* ctx of signal.NotifyContext is cancelled
    call,       \* the announce the command waits for: "none", "out",
                \* "failed", "nopeers" or "peers"
    net,        \* announces under way to the tracker
    listed,     \* the tracker's list: each session "no", "leech" or "seed"
    completions,
    joined,     \* sessions whose started announce was answered
    late,       \* sessions with an announce that was given up, or a stopped
                \* that was refused
    saved,      \* the .torrent file: "none", "cut" or a dictionary
    have        \* all pieces are verified and on disk

given == <<magnet, contents, registry>>
acquired == <<given, meta, addrs>>
trackerVars == <<net, listed, completions>>
vars == <<acquired, pc, failed, ctxDone, call, joined, late, saved, have,
          trackerVars>>

Announces ==
    [metaStarted  |-> [session |-> "meta",     event |-> "started"],
     metaStopped  |-> [session |-> "meta",     event |-> "stopped"],
     started      |-> [session |-> "download", event |-> "started"],
     completed    |-> [session |-> "download", event |-> "completed"],
     stopped      |-> [session |-> "download", event |-> "stopped"]]

(* ParseMagnet, which refuses a magnet without a hash. *)
Magnets == {m \in [v1 : {"a", "none"}, v2 : {"a", "b", "none"}] :
              m.v1 # "none" \/ m.v2 = "a"}

(* "pieces": parsed, with v1 piece hashes; "v2": parsed, without them;     *)
(* "bad": ParseInfo refuses it.                                            *)
Contents == {"pieces", "v2", "bad"}

Init == /\ magnet \in Magnets /\ contents \in [Dict -> Contents]
        /\ registry \in Dict \cup {"none", "garbage"}
        /\ meta = "none" /\ addrs = 0
        /\ pc = "registry" /\ failed = FALSE /\ ctxDone = FALSE /\ late = {}
        /\ call = "none" /\ net = {} /\ completions = 0
        /\ listed = [s \in Session |-> "no"]
        /\ joined = {} /\ saved = "none" /\ have = FALSE

Goto(l) == pc' = l /\ call' = "none"
Fail(l) == Goto(l) /\ failed' = TRUE

-----------------------------------------------------------------------------
(* Announce and BestEffortAnnounce *)

Announcing == pc \in DOMAIN Announces
InCtx(m) == m.event = "started"

Send == /\ Announcing /\ call = "none"
        /\ ~(InCtx(Announces[pc]) /\ ctxDone)
        /\ call' = "out"
        /\ net' = net \cup {Announces[pc]}
        /\ UNCHANGED <<acquired, pc, failed, ctxDone, joined, late, saved, have, listed,
                       completions>>

(* The context ends before the request is sent, or before it is answered. *)
CtxEnds == /\ Announcing /\ call \in {"none", "out"}
           /\ InCtx(Announces[pc]) /\ ctxDone
           /\ call' = "failed"
           /\ UNCHANGED <<acquired, pc, failed, ctxDone, joined, late, saved, have,
                       trackerVars>>

(* The grace period is over, or the connection breaks. *)
GiveUp == /\ call = "out"
          /\ call' = "failed"
          /\ late' = late \cup {Announces[pc].session}
          /\ net' \in {net, net \ {Announces[pc]}}
          /\ UNCHANGED <<acquired, pc, failed, ctxDone, joined, saved, have, listed,
                         completions>>

(* The tracker applies an announce and answers.  The metadata session      *)
(* reports Left = 0.                                                       *)
Listing(m) == IF m.event = "stopped" THEN "no"
              ELSE IF m.session = "meta" \/ m.event = "completed" THEN "seed"
              ELSE "leech"

Awaited(m) == call = "out" /\ Announces[pc] = m

(* A v2-only magnet announces an empty info_hash. *)
Recognized == magnet.v1 # "none"

TrackerApplies(m) ==
    /\ Recognized
    /\ net' = net \ {m}
    /\ listed' = [listed EXCEPT ![m.session] = Listing(m)]
    /\ completions' = completions + (IF m.event = "completed" THEN 1 ELSE 0)
    /\ IF Awaited(m) THEN call' \in {"peers", "nopeers"} ELSE UNCHANGED call
    /\ UNCHANGED <<acquired, pc, failed, ctxDone, joined, late, saved, have>>

(* A torrent that is blocked or not registered, by now, a failing query or *)
(* the rate limiter: whatever the event, the announce changes nothing.     *)
TrackerRefuses(m) ==
    /\ net' = net \ {m}
    /\ call' = IF Awaited(m) THEN "failed" ELSE call
    /\ late' = IF m.event = "stopped" THEN late \cup {m.session} ELSE late
    /\ UNCHANGED <<acquired, pc, failed, ctxDone, joined, saved, have, listed,
                   completions>>

-----------------------------------------------------------------------------
(* acquireMetadata *)

(* Mutant: one of the two hashes is enough. *)
VerifyBestHash(d) == d = IF magnet.v2 # "none" THEN magnet.v2 ELSE magnet.v1

(* Every hash of the magnet names the dictionary. *)
VerifyInfoHash(d) == \A h \in {"v1", "v2"} : magnet[h] \in {d, "none"}

(* The body of fetchTorrent is taken if it has a dictionary, with the      *)
(* right hashes, that can be parsed.                                       *)
Usable == registry \in Dict /\ VerifyInfoHash(registry) /\ contents[registry] # "bad"

(* The registry may also not answer; then, or when what it has is of no    *)
(* use, the peers are asked, which a magnet without a v1 hash cannot do.   *)
Registry == /\ pc = "registry"
            /\ \/ Usable /\ meta' = registry /\ Goto("save") /\ UNCHANGED failed
               \/ /\ UNCHANGED meta
                  /\ IF magnet.v1 = "none" THEN Fail("exit")
                     ELSE Goto("metaStarted") /\ UNCHANGED failed
            /\ UNCHANGED <<given, addrs, ctxDone, joined, late, saved, have,
                       trackerVars>>

Answered == call \in {"peers", "nopeers"}

(* Mutant: the stopped announce is deferred once there are peers. *)
MetaStartedNoStop ==
    /\ pc = "metaStarted" /\ (Answered \/ call = "failed")
    /\ joined' = IF Answered THEN joined \cup {"meta"} ELSE joined
    /\ \/ call \in {"failed", "nopeers"} /\ Fail("exit") /\ UNCHANGED addrs
       \/ call = "peers" /\ addrs' \in 1 .. MaxAddrs /\ Goto("fetch") /\ UNCHANGED failed
    /\ UNCHANGED <<given, meta, ctxDone, late, saved, have, trackerVars>>

(* From here on every way out runs the deferred stopped announce. *)
MetaStarted ==
    /\ pc = "metaStarted" /\ (Answered \/ call = "failed")
    /\ joined' = IF Answered THEN joined \cup {"meta"} ELSE joined
    /\ \/ call = "failed" /\ Fail("exit") /\ UNCHANGED addrs
       \/ call = "nopeers" /\ Fail("metaStopped") /\ UNCHANGED addrs
       \/ call = "peers" /\ addrs' \in 1 .. MaxAddrs /\ Goto("fetch") /\ UNCHANGED failed
    /\ UNCHANGED <<given, meta, ctxDone, late, saved, have, trackerVars>>

(* One turn of fetchMetadataFromPeers: a peer that cannot be reached, does *)
(* not serve or, once ctx is cancelled, any peer is passed over ...        *)
TryPeer == /\ pc = "fetch"
           /\ IF addrs = 1 THEN Fail("metaStopped")
              ELSE UNCHANGED <<pc, call, failed>>
           /\ addrs' = addrs - 1
           /\ UNCHANGED <<given, meta, ctxDone, joined, late, saved, have,
                       trackerVars>>

(* ... the first that serves has the dictionary of the v1 hash, which may  *)
(* still be one that ParseInfo refuses.                                    *)
PeerServes ==
    /\ pc = "fetch"
    /\ addrs' = 0
    /\ IF contents[magnet.v1] = "bad" THEN Fail("metaStopped") /\ UNCHANGED meta
       ELSE meta' = magnet.v1 /\ Goto("metaStopped") /\ UNCHANGED failed
    /\ UNCHANGED <<given, ctxDone, joined, late, saved, have,
                       trackerVars>>

MetaStopped == /\ pc = "metaStopped" /\ (Answered \/ call = "failed")
               /\ Goto(IF failed THEN "exit" ELSE "save")
               /\ UNCHANGED <<acquired, failed, ctxDone, joined, late, saved, have,
                       trackerVars>>

-----------------------------------------------------------------------------
(* runGet writes the .torrent file and calls DownloadMVP, which checks the *)
(* piece hashes and prepares the storage before it announces.              *)
Save == /\ pc = "save"
        /\ \/ saved' = meta /\ Goto("prepare") /\ UNCHANGED failed
           \/ saved' \in {saved, "cut"} /\ Fail("exit")
        /\ UNCHANGED <<acquired, ctxDone, joined, late, have, trackerVars>>

Prepare == /\ pc = "prepare"
           /\ \/ contents[meta] = "pieces" /\ Goto("started") /\ UNCHANGED failed
              \/ Fail("exit")
           /\ UNCHANGED <<acquired, ctxDone, joined, late, saved, have,
                          trackerVars>>

Started ==
    /\ pc = "started" /\ (Answered \/ call = "failed")
    /\ joined' = IF Answered THEN joined \cup {"download"} ELSE joined
    /\ \/ call = "failed" /\ Fail("exit")
       \/ call = "nopeers" /\ Fail("stopped")
       \/ call = "peers" /\ Goto("swarm") /\ UNCHANGED failed
    /\ UNCHANGED <<acquired, ctxDone, late, saved, have, trackerVars>>

(* Mutant: completion is reported whatever the swarm returned. *)
SwarmAlwaysCompleted ==
    /\ pc = "swarm"
    /\ have' \in BOOLEAN
    /\ Goto("completed") /\ failed' = ~have'
    /\ UNCHANGED <<acquired, ctxDone, joined, late, saved, trackerVars>>

(* swarm.Start *)
Swarm == /\ pc = "swarm"
         /\ \/ have' = TRUE /\ Goto("completed") /\ UNCHANGED failed
            \/ Fail("stopped") /\ UNCHANGED have
         /\ UNCHANGED <<acquired, ctxDone, joined, late, saved, trackerVars>>

(* Best effort: the command goes on whatever came of the announce. *)
Completed == /\ pc = "completed" /\ (Answered \/ call = "failed")
             /\ Goto("stopped")
             /\ UNCHANGED <<acquired, failed, ctxDone, joined, late, saved, have,
                       trackerVars>>

(* Mutant: the announce is repeated until it is answered. *)
StoppedRetries ==
    /\ pc = "stopped" /\ (Answered \/ call = "failed")
    /\ Goto(IF Answered THEN "exit" ELSE "stopped")
    /\ UNCHANGED <<acquired, failed, ctxDone, joined, late, saved, have,
                       trackerVars>>

Stopped == /\ pc = "stopped" /\ (Answered \/ call = "failed")
           /\ Goto("exit")
           /\ UNCHANGED <<acquired, failed, ctxDone, joined, late, saved, have,
                       trackerVars>>

CtrlC == /\ ~ctxDone /\ pc # "exit"
         /\ ctxDone' = TRUE
         /\ UNCHANGED <<acquired, pc, failed, call, joined, late, saved, have,
                       trackerVars>>

-----------------------------------------------------------------------------

ClientStep == \/ Send \/ CtxEnds
              \/ Registry \/ MetaStarted \/ TryPeer \/ PeerServes \/ MetaStopped
              \/ Save \/ Prepare \/ Started \/ Swarm \/ Completed \/ Stopped

TrackerStep == \E m \in net : TrackerApplies(m) \/ TrackerRefuses(m)

Terminated == pc = "exit" /\ net = {} /\ UNCHANGED vars

Next == ClientStep \/ GiveUp \/ CtrlC \/ TrackerStep \/ Terminated

(* The command runs: what it asks the registry, the peers and the disk is  *)
(* over in time, and a completed or stopped announce ends with its grace   *)
(* period.  A started announce has no timeout and swarm.Start may be at    *)
(* work for ever (Swarm.tla), but both return once ctx is cancelled.       *)
Fairness == /\ WF_vars(ClientStep /\ (pc = "swarm" => ctxDone))
            /\ WF_vars(GiveUp /\ ~InCtx(Announces[pc]))

Spec == Init /\ [][Next]_vars /\ Fairness

-----------------------------------------------------------------------------
(* Properties *)

(* The variables have the types of the values they stand for. *)
TypeOK == /\ magnet \in Magnets /\ contents \in [Dict -> Contents]
          /\ registry \in Dict \cup {"none", "garbage"}
          /\ meta \in Dict \cup {"none"} /\ addrs \in 0 .. MaxAddrs
          /\ pc \in DOMAIN Announces
                    \cup {"registry", "fetch", "save", "prepare", "swarm", "exit"}
          /\ failed \in BOOLEAN /\ ctxDone \in BOOLEAN
          /\ call \in {"none", "out", "failed", "nopeers", "peers"}
          /\ net \subseteq {Announces[a] : a \in DOMAIN Announces}
          /\ listed \in [Session -> {"no", "leech", "seed"}]
          /\ completions \in 0 .. 1
          /\ joined \subseteq Session /\ late \subseteq Session
          /\ saved \in Dict \cup {"none", "cut"} /\ have \in BOOLEAN

(* When the command is over and the tracker has handled what was sent, no   *)
(* session that the command knows to have joined is still listed, unless an *)
(* announce of that very session was given up or its stopped refused: every *)
(* way out tells the tracker, in the right order.  (A stopped that is lost  *)
(* or refused, or a completed that outlasts its grace period and is applied *)
(* after stopped, leaves the peer listed until it is pruned.)               *)
LeavesSwarm == pc = "exit" /\ net = {}
                  => \A s \in joined : listed[s] = "no" \/ s \in late

(* Whatever registry and peers hand out, the torrent that is saved is the   *)
(* one the magnet names, by the v1 hash if it has one, and the swarm that   *)
(* is joined to download is that torrent's.  (With peers the v2 hash is not *)
(* looked at; it matters for a magnet whose hashes name two dictionaries.)  *)
SavedIsNamed ==
    /\ saved \in Dict => saved = IF magnet.v1 = "none" THEN magnet.v2 ELSE magnet.v1
    /\ "download" \in joined => saved = magnet.v1

(* The tracker counts a completion, and a seeder for the download, only if  *)
(* the data is complete on disk; a command that succeeds has the data and   *)
(* the torrent.                                                             *)
CompletionEarned == /\ completions > 0 \/ listed["download"] = "seed" => have
                    /\ pc = "exit" /\ ~failed => have /\ saved \in Dict

(* The command ends once the user cancels it; if he does not, it ends       *)
(* unless it waits for ever, for swarm.Start or for the answer to started.  *)
GetEnds == \/ <>(pc = "exit")
           \/ <>[](~ctxDone /\ pc \in {"metaStarted", "started", "swarm"})

=============================================================================
