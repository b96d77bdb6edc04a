------------------------------ MODULE Metadata ------------------------------
(***************************************************************************)
(* The info dictionary from a peer (BEP 9): FetchMetadata of               *)
(* internal/client/metadata.go, called by fetchMetadataFromPeers of        *)
(* cmd/wl/main.go on a connection of its own.  It asks for one piece after *)
(* the other and reads until the answer comes, past a bounded number of    *)
(* other messages.  The answer is a bencoded header with the raw bytes of  *)
(* the piece right behind it, so the client has to find the cut.           *)
(*                                                                         *)
(* Payloads are sequences of one-character strings.  How a header is       *)
(* written and read is a parameter; MetadataHeader gives it, byte by byte. *)
(* The hash of bytes is the bytes.                                         *)
(***************************************************************************)
EXTENDS PeerWire, FiniteSets

CONSTANTS
    Byte,             \* one-character strings
    Infos,            \* info dictionaries: sequences of bytes
    InfoPiece,        \* metadataPieceSize
    MaxInfo,          \* maxMetadataSize
    MetaSkipLimit,    \* maxMetadataSkipMsgs
    OddHalves,        \* what a peer off the protocol may send for an answer,
                      \* in two parts
    Header(_, _),     \* the header of a message with a msg_type and a piece
    ReadHeader(_)     \* the client on a payload: is there a header, where does
                      \* the rest start, and which type and piece does it tell

ASSUME MetadataAssumption ==
    /\ InfoPiece \in Nat \ {0} /\ MaxInfo \in Nat /\ MetaSkipLimit \in Nat \ {0}
    /\ {"e", "x"} \subseteq Byte
    /\ Infos \subseteq Seq(Byte)
    /\ OddHalves \subseteq Seq(Byte) \ {<<>>}

-----------------------------------------------------------------------------
(* What a peer may send for piece i of the dictionary d *)

Chunk(d, i) == SubSeq(d, i * InfoPiece + 1, Least(Len(d), (i + 1) * InfoPiece))

RightAnswer(d, i) == Header(1, i) \o Chunk(d, i)

(* Rejects, other types and pieces, too many and too few bytes, wrong bytes. *)
WrongAnswers(d, i) ==
    {Header(2, i), Header(0, i) \o Chunk(d, i), Header(1, i + 1) \o Chunk(d, i),
     Header(1, i) \o Chunk(d, i) \o <<"e">>, Header(1, i),
     Header(1, i) \o [k \in 1 .. Len(Chunk(d, i)) |-> "x"]}

OddAnswers == {a \o b : a, b \in OddHalves}

AnswersTo(d, i) == {RightAnswer(d, i)} \cup WrongAnswers(d, i)

Payloads == OddAnswers \cup
            UNION {UNION {AnswersTo(d, i) : i \in 0 .. MaxInfo} : d \in Infos}

(* A header is read as it was written, whatever bytes follow, and never    *)
(* ends behind its payload.                                                *)
ASSUME HeaderAssumption ==
    /\ \A t \in 0 .. 2, i \in 0 .. MaxInfo + 1 : Header(t, i) \in Seq(Byte)
    /\ \A d \in Infos, i \in 0 .. MaxInfo :
         ReadHeader(RightAnswer(d, i)) =
           [ok |-> TRUE, rest |-> Len(Header(1, i)) + 1, type |-> 1, piece |-> i]
    /\ \A b \in Payloads : ReadHeader(b).ok => ReadHeader(b).rest \in 1 .. Len(b) + 1

-----------------------------------------------------------------------------
VARIABLES
    info,       \* the dictionary that the info hash names
    msize,      \* metadata_size of the peer's extended handshake, 0 if absent
    utMeta,     \* does the handshake name ut_metadata?
    asked,      \* metadata requests the peer has not answered
    meta,       \* metadata[:i * metadataPieceSize], i being the next piece
    mskip,      \* messages read since the last request
    outcome,    \* of FetchMetadata
    odd         \* the peer: the first part of an odd answer

infoKind == <<info, msize, utMeta, odd>>
metaVars == <<infoKind, asked, meta, mskip, outcome>>
allVars  == <<vars, metaVars>>

(* An honest peer tells the right size, or that it cannot serve. *)
MInit == /\ Init
         /\ info \in Infos
         /\ msize \in {0, Len(info), Len(info) + 1, MaxInfo + 1}
         /\ utMeta \in BOOLEAN
         /\ honest => \/ msize = 0 /\ ~utMeta
                      \/ msize = Len(info) /\ utMeta
         /\ use = "pieces" => msize = 0 /\ ~utMeta
         /\ asked = <<>> /\ meta = <<>> /\ mskip = 0 /\ outcome = "none"
         /\ odd = <<>>

NextPiece == Len(meta) \div InfoPiece

(* The connection is closed; addresses learned on it go with it. *)
Over(why) == /\ cl' = "closed" /\ outcome' = why
             /\ pexPeers' = {}

MetadataSize == IF bep10 THEN msize ELSE 0

(* Sizes that are missing or beyond the maximum end the attempt, and so    *)
(* does a peer without ut_metadata.                                        *)
SizeOk == MetadataSize > 0 /\ MetadataSize <= MaxInfo

StartFetch ==
    /\ use = "info" /\ cl = "idle"
    /\ IF SizeOk /\ utMeta
       THEN /\ cl' = "meta" /\ asked' = <<0>>
            /\ UNCHANGED <<outcome, pexPeers>>
       ELSE Over("refused") /\ UNCHANGED asked
    /\ UNCHANGED <<skipped, choked, index, data, done, verdict, given, heard,
                   pipe, reqs, peerVars, infoKind, meta, mskip>>

-----------------------------------------------------------------------------
(* FetchMetadata, after RequestMetadata *)

(* Mutant: the last piece is expected to be full. *)
WantFull(i) == InfoPiece

Want(i) == Least(InfoPiece, msize - i * InfoPiece)

(* Mutant: one request stands for all pieces. *)
AskNextOnce == UNCHANGED asked

AskNext == asked' = Append(asked, NextPiece')

(* The bytes behind the header. *)
Rest(b) == SubSeq(b, ReadHeader(b).rest, Len(b))

(* Why an answer to the request for piece i is no good. *)
Refusal(b, i) ==
    LET header == ReadHeader(b) IN
    IF ~header.ok THEN "header"
    ELSE IF header.type = 2 THEN "rejected"
    ELSE IF header.type # 1 THEN "type"
    ELSE IF header.piece # i THEN "piece"
    ELSE IF Len(Rest(b)) # Want(i) THEN "length"
    ELSE "none"

GotReply(b) ==
    LET new == meta \o Rest(b) IN
    \/ /\ Refusal(b, NextPiece) # "none"
       /\ Over(Refusal(b, NextPiece))
       /\ UNCHANGED <<meta, asked>>
    \/ /\ Refusal(b, NextPiece) = "none" /\ Len(new) < msize
       /\ meta' = new
       /\ AskNext
       /\ UNCHANGED <<cl, outcome, pexPeers>>
    \/ /\ Refusal(b, NextPiece) = "none" /\ Len(new) >= msize
       /\ meta' = new
       /\ Over(IF new = info THEN "ok" ELSE "hash")
       /\ UNCHANGED asked

(* readMetadataReply: messages for others are skipped, addresses of ut_pex *)
(* buffered.  The count starts again with each request.                    *)
OneReply(m) ==
    \/ /\ m.type = "meta"
       /\ GotReply(m.payload)
       /\ mskip' = 0
       /\ UNCHANGED heard
    \/ /\ m.type # "meta"
       /\ mskip' = mskip + 1
       /\ heard' = heard \cup (IF m.type = "pex" THEN m.addrs ELSE {})
       /\ IF mskip' = MetaSkipLimit THEN Over("silent")
          ELSE /\ pexPeers' = pexPeers \cup (heard' \ heard)
               /\ UNCHANGED <<cl, outcome>>
       /\ UNCHANGED <<meta, asked>>

readMetadataReply ==
    /\ cl = "meta" /\ pipe # <<>>
    /\ pipe' = Tail(pipe)
    /\ OneReply(Head(pipe))
    /\ UNCHANGED <<skipped, choked, index, data, done, verdict, given,
                   reqs, peerVars, infoKind>>

(* A read or write fails, a deadline passes, or ctx is cancelled. *)
FetchFails == /\ Faults /\ cl = "meta"
              /\ Over("io")
              /\ UNCHANGED <<skipped, choked, index, data, done, verdict, given,
                             heard, pipe, reqs, peerVars, infoKind, asked, meta,
                             mskip>>

-----------------------------------------------------------------------------
(* The peer *)

Answer(b) == Say([type |-> "meta", payload |-> b])

PeerServesInfo ==
    /\ cl = "meta" /\ asked # <<>>
    /\ Answer(RightAnswer(info, Head(asked)))
    /\ asked' = Tail(asked)
    /\ UNCHANGED <<clientVars, pexVars, reqs, peerVars, infoKind, meta, mskip,
                   outcome>>

PeerSendsWrongInfo ==
    /\ Noise /\ ~honest /\ cl = "meta" /\ asked # <<>>
    /\ \E b \in WrongAnswers(info, Head(asked)) : Answer(b)
    /\ asked' = Tail(asked)
    /\ UNCHANGED <<clientVars, pexVars, reqs, choking, peerKind, extSent,
                   infoKind, meta, mskip, outcome>>

(* Anything at all, put together in two steps.  Bound: as the first answer, *)
(* and nothing else with it.                                               *)
PeerPlansOddInfo ==
    /\ ~honest /\ cl = "meta" /\ asked = <<0>> /\ msize = Len(info)
    /\ pipe = <<>> /\ choking /\ noise = 0
    /\ noise' = MaxNoise
    /\ odd' \in OddHalves
    /\ asked' = <<>>
    /\ UNCHANGED <<clientVars, pexVars, pipe, reqs, choking, peerKind, extSent,
                   info, msize, utMeta, meta, mskip, outcome>>

PeerSendsOddInfo ==
    /\ cl = "meta" /\ odd # <<>>
    /\ \E b \in OddHalves : Answer(odd \o b)
    /\ odd' = <<>>
    /\ UNCHANGED <<clientVars, pexVars, reqs, peerVars, info, msize, utMeta,
                   asked, meta, mskip, outcome>>

MNext == \/ Next /\ UNCHANGED metaVars
         \/ StartFetch \/ readMetadataReply \/ FetchFails \/ PeerServesInfo
         \/ PeerSendsWrongInfo \/ PeerPlansOddInfo \/ PeerSendsOddInfo

(* Fairness as in PeerWire: for the pieces. *)
MSpec == /\ MInit /\ [][MNext]_allVars
         /\ WF_allVars(ClientStep /\ UNCHANGED metaVars)
         /\ WF_allVars(ReadTimesOut /\ UNCHANGED metaVars)

-----------------------------------------------------------------------------
(* Properties *)

(* The dictionary is put together right.  What is accepted is what the info *)
(* hash names; a peer that serves it fails no check on the way, whatever it *)
(* sends in between and whatever the raw bytes behind the header look like. *)
InfoExact ==
    /\ outcome = "ok" => meta = info
    /\ honest => outcome \in {"none", "ok", "refused", "silent", "io"}

(* While a fetch is under way the client waits for one answer, never for    *)
(* none that anybody owes and never for two, from a peer whose size is in   *)
(* range; the buffer stays within that size.                                *)
OneRequest ==
    cl = "meta" =>
        /\ 1 = Len(asked) + (IF odd # <<>> THEN 1 ELSE 0)
                + Cardinality({k \in 1 .. Len(pipe) : pipe[k].type = "meta"})
        /\ msize \in 1 .. MaxInfo /\ Len(meta) < msize

=============================================================================
