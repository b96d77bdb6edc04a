------------------------------ MODULE PeerWire ------------------------------
(***************************************************************************)
(* One connection of a download worker to a peer (internal/client/peer.go, *)
(* downloadPiece of downloader.go): the handshakes, then one piece after   *)
(* another, block by block, over two FIFO byte streams.  Swarm treats a    *)
(* dial and a piece as one step each; this module looks inside.            *)
(*                                                                         *)
(* The peer is external.  It chokes and unchokes as it likes (also         *)
(* redundantly), forgets requests when it chokes, may answer a request     *)
(* twice, and interleaves other messages; one that is not honest also      *)
(* sends blocks of any length with wrong data while it is unchoking.       *)
(* Bytes are counted in units; a unit of data is its place in the torrent, *)
(* and 0 if it is wrong.                                                   *)
(*                                                                         *)
(* ut_pex messages bring addresses, which the worker buffers and gives to  *)
(* the swarm after each piece.  A connection that is for the info          *)
(* dictionary (use = "info") has the same handshakes and the same peer;    *)
(* what it is used for is in Metadata.                                     *)
(***************************************************************************)
EXTENDS Integers, Sequences

CONSTANTS
    TotalSize, PieceLength,     \* of the torrent
    BlockSize,                  \* 16 KiB in the code
    SkipLimit,                  \* maxPreExtHandshakeMsgs
    PexAddr,                    \* addresses the peer may tell us
    Faults,                     \* may reads and writes fail or time out?
    MaxNoise                    \* bound: chokes, redundant unchokes, repeated
                                \* blocks and messages of no interest here

ASSUME ConstantsAssumption ==
    /\ TotalSize \in Nat \ {0} /\ PieceLength \in Nat \ {0}
    /\ BlockSize \in Nat \ {0} /\ SkipLimit \in Nat \ {0}
    /\ Faults \in BOOLEAN /\ MaxNoise \in Nat

Least(a, b) == IF a < b THEN a ELSE b

Piece == {i \in 0 .. TotalSize : i * PieceLength < TotalSize}

VARIABLES
    use,       \* what the connection is for: "pieces" or "info"
    cl,        \* the client: "hello", "exthello", "idle" (in its select),
               \* "read" (in downloadPiece), "meta" (in FetchMetadata) or
               \* "closed"
    skipped,   \* messages read while waiting for the extended handshake
    choked,    \* p.PeerChoking
    index,     \* the piece downloadPiece works on
    data,      \* pieceData[:downloaded]
    done,      \* pieces returned, verified
    verdict,   \* why downloadPiece gave up: "none", "choked", "large", "hash"
    pexPeers,  \* addresses read and not yet drained
    given,     \* addresses handed to the swarm (AddPeers)
    heard,     \* observed: all addresses read
    pipe,      \* messages on their way to the worker
    reqs,      \* requests on their way to the peer, or not answered yet
    choking,   \* the peer: is it choking us?
    bep10,     \* does it speak the extension protocol?
    honest,    \* does it serve correct blocks only?
    extSent,
    noise

clientVars == <<cl, skipped, choked, index, data, done, verdict>>
pexVars    == <<pexPeers, given, heard>>
peerKind   == <<use, bep10, honest>>
peerVars   == <<choking, peerKind, extSent, noise>>
vars       == <<clientVars, pexVars, pipe, reqs, peerVars>>

(* The size of a piece: the last one is what remains. *)
Size(i) == Least(PieceLength, TotalSize - i * PieceLength)

(* blockSize *)
blockSize(size, downloaded) == Least(BlockSize, size - downloaded)

Request(i, n) == [index |-> i, begin |-> n, length |-> blockSize(Size(i), n)]

(* The data at a place of the torrent, and what sha1 accepts as piece i. *)
Bytes(i, from, n) == [k \in 1 .. n |-> i * PieceLength + from + k]
Expected(i) == Bytes(i, 0, Size(i))

Plain(t) == [type |-> t]
Block(r) == [type |-> "piece", index |-> r.index, begin |-> r.begin,
             bytes |-> Bytes(r.index, r.begin, r.length)]
Junk(n)  == [type |-> "piece", index |-> index, begin |-> Len(data),
             bytes |-> [k \in 1 .. n |-> 0]]

Init == /\ use \in {"pieces", "info"}
        /\ cl = "hello" /\ skipped = 0 /\ choked = TRUE
        /\ index = 0 /\ data = <<>> /\ done = {}
        /\ verdict = "none"
        /\ pexPeers = {} /\ given = {} /\ heard = {}
        /\ pipe = <<>> /\ reqs = <<>>
        /\ choking = TRUE /\ bep10 \in BOOLEAN /\ honest \in BOOLEAN
        /\ extSent = FALSE /\ noise = 0

-----------------------------------------------------------------------------
(* dialAndHandshake *)

(* The 68 bytes of the peer are read and recognised.  Without BEP 10 the   *)
(* handshake is over and "interested" is sent.                             *)
Handshake ==
    /\ cl = "hello"
    /\ cl' = IF bep10 THEN "exthello" ELSE "idle"
    /\ UNCHANGED <<skipped, choked, index, data, done, verdict, pexVars,
                   pipe, reqs, peerVars>>

(* Mutant: choke and unchoke are skipped like the other messages. *)
SkipMessageBlind(m) ==
    /\ skipped' = skipped + 1
    /\ cl' = IF skipped' = SkipLimit THEN "closed" ELSE cl
    /\ UNCHANGED choked

(* A message before the extended handshake: choke and unchoke are noted,   *)
(* others skipped, SkipLimit of them at most.                              *)
SkipMessage(m) ==
    /\ skipped' = skipped + 1
    /\ cl' = IF skipped' = SkipLimit THEN "closed" ELSE cl
    /\ choked' = IF m.type = "choke" THEN TRUE
                 ELSE IF m.type = "unchoke" THEN FALSE ELSE choked

readExtendedHandshake ==
    /\ cl = "exthello" /\ pipe # <<>>
    /\ pipe' = Tail(pipe)
    /\ \/ /\ Head(pipe).type = "ext"
          /\ cl' = "idle"
          /\ UNCHANGED <<skipped, choked>>
       \/ /\ Head(pipe).type = "pex"      \* not the handshake: an error
          /\ cl' = "closed"
          /\ UNCHANGED <<skipped, choked>>
       \/ Head(pipe).type \notin {"ext", "pex"} /\ SkipMessage(Head(pipe))
    /\ UNCHANGED <<index, data, done, verdict, pexVars, reqs, peerVars>>

-----------------------------------------------------------------------------
(* downloadPiece *)

(* Mutant: the first request always waits for an unchoke. *)
FirstRequestLazy(i) == UNCHANGED reqs

(* Already unchoked, by an earlier piece or during the handshake: the      *)
(* first block is requested at once.                                       *)
FirstRequest(i) == IF choked THEN UNCHANGED reqs
                   ELSE reqs' = Append(reqs, Request(i, 0))

(* The worker took piece i and claimed it. *)
StartPiece(i) ==
    /\ use = "pieces" /\ cl = "idle" /\ i \notin done
    /\ cl' = "read" /\ index' = i /\ data' = <<>>
    /\ FirstRequest(i)
    /\ UNCHANGED <<skipped, choked, done, verdict, pexVars, pipe, peerVars>>

GiveUp(why) == cl' = "closed" /\ verdict' = why

Unchoked ==
    /\ choked' = FALSE
    /\ IF data = <<>> THEN reqs' = Append(reqs, Request(index, 0))
       ELSE UNCHANGED reqs
    /\ UNCHANGED <<cl, data, done, verdict>>

Choked ==
    /\ choked' = TRUE
    /\ GiveUp("choked")
    /\ UNCHANGED <<data, done, reqs>>

(* Mutant: the index of a block is compared, its offset is not. *)
WantedAnyOffset(m) == m.index = index

(* Is the block the one that comes next?  Strays, repeats and blocks of an *)
(* earlier piece are not.                                                  *)
Wanted(m) == m.index = index /\ m.begin = Len(data)

(* Mutant: no room check; the buffer is taken to be large enough. *)
FitsAlways(new) == TRUE

Fits(new) == Len(new) <= Size(index)

(* A block that belongs here is appended; the next one is requested, or    *)
(* the whole piece is verified.                                            *)
GotBlock(m) ==
    LET new == data \o m.bytes IN
    \/ /\ Wanted(m) /\ ~Fits(new)
       /\ GiveUp("large")
       /\ UNCHANGED <<data, done, reqs>>
    \/ /\ Wanted(m) /\ Fits(new) /\ Len(new) < Size(index)
       /\ data' = new
       /\ reqs' = Append(reqs, Request(index, Len(new)))
       /\ UNCHANGED <<cl, done, verdict>>
    \/ /\ Wanted(m) /\ Fits(new) /\ Len(new) >= Size(index)
       /\ data' = new
       /\ IF new = Expected(index)
          THEN cl' = "idle" /\ done' = done \cup {index} /\ UNCHANGED verdict
          ELSE GiveUp("hash") /\ UNCHANGED done
       /\ UNCHANGED reqs

Skip == UNCHANGED <<cl, choked, data, done, verdict, reqs>>

(* Mutant: only a piece that was verified is followed by a drain. *)
HarvestOnSuccess(addrs) ==
    LET all == pexPeers \cup addrs IN
    /\ heard' = heard \cup addrs
    /\ pexPeers' = IF cl' = "read" THEN all ELSE {}
    /\ given' = IF cl' = "idle" THEN given \cup all ELSE given

(* handlePexMessage, and the drain after downloadPiece whatever it returned *)
Harvest(addrs) ==
    LET all == pexPeers \cup addrs IN
    /\ heard' = heard \cup addrs
    /\ pexPeers' = IF cl' = "read" THEN all ELSE {}
    /\ given' = IF cl' = "read" THEN given ELSE given \cup all

(* One turn of the loop. *)
ReadMessage ==
    /\ cl = "read" /\ pipe # <<>>
    /\ pipe' = Tail(pipe)
    /\ LET m == Head(pipe) IN
       \/ m.type = "unchoke" /\ Unchoked
       \/ m.type = "choke" /\ Choked
       \/ m.type = "piece" /\ GotBlock(m) /\ UNCHANGED choked
       \/ m.type = "piece" /\ ~Wanted(m) /\ Skip
       \/ m.type \in {"other", "pex"} /\ Skip
    /\ Harvest(IF Head(pipe).type = "pex" THEN Head(pipe).addrs ELSE {})
    /\ UNCHANGED <<skipped, index, peerVars>>

(* A read or write fails, a deadline passes, or ctx is cancelled. *)
ConnFails ==
    /\ Faults /\ cl \in {"hello", "exthello", "read"}
    /\ cl' = "closed"
    /\ Harvest({})
    /\ UNCHANGED <<skipped, choked, index, data, done, verdict, pipe, reqs,
                   peerVars>>

ClientStep == \/ Handshake \/ readExtendedHandshake
              \/ \E i \in Piece : StartPiece(i)
              \/ ReadMessage

-----------------------------------------------------------------------------
(* The peer *)

Say(m) == pipe' = Append(pipe, m)

Noise == /\ cl # "closed" /\ noise < MaxNoise
         /\ noise' = noise + 1

PeerExtended == /\ cl # "closed" /\ bep10 /\ ~extSent
                /\ extSent' = TRUE
                /\ Say(Plain("ext"))
                /\ UNCHANGED <<clientVars, pexVars, reqs, choking, peerKind, noise>>

PeerUnchokes == /\ cl # "closed" /\ choking
                /\ choking' = FALSE
                /\ Say(Plain("unchoke"))
                /\ UNCHANGED <<clientVars, pexVars, reqs, peerKind, extSent, noise>>

PeerUnchokesAgain == /\ Noise /\ ~choking
                     /\ Say(Plain("unchoke"))
                     /\ UNCHANGED <<clientVars, pexVars, reqs, choking, peerKind, extSent>>

(* Choking discards what was requested. *)
PeerChokes == /\ Noise /\ ~choking
              /\ choking' = TRUE
              /\ reqs' = <<>>
              /\ Say(Plain("choke"))
              /\ UNCHANGED <<clientVars, pexVars, peerKind, extSent>>

(* A request that arrives while the peer is choking is dropped. *)
PeerIgnores == /\ choking /\ reqs # <<>>
               /\ reqs' = Tail(reqs)
               /\ UNCHANGED <<clientVars, pexVars, pipe, peerVars>>

PeerAnswers == /\ cl # "closed" /\ ~choking /\ reqs # <<>>
               /\ Say(Block(Head(reqs)))
               /\ reqs' = Tail(reqs)
               /\ UNCHANGED <<clientVars, pexVars, peerVars>>

PeerRepeats == /\ Noise /\ ~choking /\ reqs # <<>>
               /\ Say(Block(Head(reqs)))
               /\ UNCHANGED <<clientVars, pexVars, reqs, choking, peerKind, extSent>>

(* Also without bound, one at a time, while the worker reads a piece: the   *)
(* keep-alives that renew its deadline.                                    *)
PeerChatters == /\ \/ Noise
                   \/ cl = "read" /\ pipe = <<>> /\ UNCHANGED noise
                /\ Say(Plain("other"))
                /\ UNCHANGED <<clientVars, pexVars, reqs, choking, peerKind, extSent>>

(* Peer exchange; before its own handshake only a peer off the protocol. *)
PeerExchanges == /\ Noise /\ bep10 /\ (extSent \/ ~honest)
                 /\ \E a \in PexAddr : Say([type |-> "pex", addrs |-> {a}])
                 /\ UNCHANGED <<clientVars, pexVars, reqs, choking, peerKind, extSent>>

PeerSendsJunk == /\ Noise /\ ~honest /\ ~choking /\ cl = "read"
                 /\ \E n \in 0 .. BlockSize + 1 : Say(Junk(n))
                 /\ UNCHANGED <<clientVars, pexVars, reqs, choking, peerKind, extSent>>

Next == \/ ClientStep \/ ConnFails
        \/ PeerExtended \/ PeerUnchokes \/ PeerUnchokesAgain \/ PeerChokes
        \/ PeerIgnores \/ PeerAnswers \/ PeerRepeats \/ PeerChatters
        \/ PeerExchanges \/ PeerSendsJunk

Spec == Init /\ [][Next]_vars

(* A read that nothing comes for. *)
ReadTimesOut == cl = "read" /\ pipe = <<>> /\ ConnFails

(* The worker runs, and a read ends when its deadline passes.  Nothing is  *)
(* asked of the peer.                                                      *)
Fairness == WF_vars(ClientStep) /\ WF_vars(ReadTimesOut)

FairSpec == Spec /\ Fairness

-----------------------------------------------------------------------------
(* Properties *)

Control == [type : {"choke", "unchoke", "other", "ext"}]
Offset  == 0 .. PieceLength - 1

(* The variables have the types of the Go values they stand for; no more    *)
(* than the piece is ever buffered.                                         *)
TypeOK ==
    /\ use \in {"pieces", "info"}
    /\ cl \in {"hello", "exthello", "idle", "read", "meta", "closed"}
    /\ skipped \in 0 .. SkipLimit
    /\ choked \in BOOLEAN
    /\ index \in Piece /\ done \subseteq Piece
    /\ Len(data) <= Size(index)
    /\ \A k \in 1 .. Len(data) : data[k] \in 0 .. TotalSize
    /\ verdict \in {"none", "choked", "large", "hash"}
    /\ pexPeers \subseteq PexAddr /\ given \subseteq PexAddr
    /\ heard \subseteq PexAddr
    /\ \A k \in 1 .. Len(pipe) :
         \/ pipe[k] \in Control \/ pipe[k].type \in {"pex", "meta"}
         \/ /\ pipe[k].type = "piece"
            /\ pipe[k].index \in Piece /\ pipe[k].begin \in Offset
    /\ \A k \in 1 .. Len(reqs) :
         \E i \in Piece, n \in Offset : reqs[k] = Request(i, n)
    /\ choking \in BOOLEAN /\ extSent \in BOOLEAN
    /\ bep10 \in BOOLEAN /\ honest \in BOOLEAN
    /\ noise \in 0 .. MaxNoise

(* A peer that serves correct blocks never fails the hash or the size       *)
(* check: repeated blocks, blocks of an earlier piece and a first block     *)
(* requested twice do not spoil a piece.                                    *)
HonestPeerVerifies == honest => verdict \notin {"large", "hash"}

(* The worker's view of the choke state is the peer's, once it has read     *)
(* what is under way: none of it is lost between the phases that read.      *)
LastChoke == {k \in 1 .. Len(pipe) :
                /\ pipe[k].type \in {"choke", "unchoke"}
                /\ \A l \in k + 1 .. Len(pipe) :
                     pipe[l].type \notin {"choke", "unchoke"}}

ChokeTracked ==
    cl \notin {"meta", "closed"} =>
        IF LastChoke = {} THEN choked = choking
        ELSE \A k \in LastChoke : (pipe[k].type = "choke") = choking

(* While the worker waits, the next move is the peer's: a block it owes,    *)
(* a message under way, or an unchoke it has not sent.                      *)
NoStall == cl = "read" /\ pipe = <<>> /\ reqs = <<>> => choking

(* Every address a peer told the worker reaches the swarm, also when the    *)
(* piece it worked on failed or the connection broke meanwhile.             *)
PexKept == use = "pieces" => /\ heard = pexPeers \cup given
                             /\ cl # "read" => pexPeers = {}

(* A piece that is begun ends, verified or given up, if the peer serves:    *)
(* correct blocks, not choking us for ever and not leaving a request        *)
(* unanswered for ever, whatever it sends besides.  It also ends if the     *)
(* peer falls silent.  (A peer that does neither, but keeps sending, holds  *)
(* the worker: each message renews the deadline.)                           *)
Serves == honest /\ []<>~choking /\ []<>(reqs = <<>>)
Silent == <>[](pipe = <<>>)

PieceEnds == Serves \/ Silent => ((cl = "read") ~> (cl # "read"))

=============================================================================
