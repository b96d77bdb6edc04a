--------------------------- MODULE PeerWireProofs ---------------------------
(***************************************************************************)
(* A connection that downloads pieces, for any sizes of torrent, piece and *)
(* block and any behaviour of the peer: what the worker believes about     *)
(* choking, whom it waits for, and that an honest peer is not blamed.      *)
(* Then a connection of either kind: a fetch of the info dictionary waits  *)
(* for one answer at a time and ends with the right bytes or none.         *)
(***************************************************************************)
EXTENDS Metadata, SequenceTheorems, FiniteSetTheorems, TLAPS

BlockMsg == [type : {"piece"}, index : Piece, begin : Offset, bytes : Seq(0 .. TotalSize)]
PexMsg   == [type : {"pex"}, addrs : SUBSET PexAddr]
Message  == Control \cup BlockMsg \cup PexMsg

(* Requests the worker may send. *)
Req == {r \in [index : Piece, begin : Nat, length : Nat] :
          r.begin < Size(r.index) /\ r = Request(r.index, r.begin)}

StreamTypes == pipe \in Seq(Message) /\ reqs \in Seq(Req)

DataTypes == /\ index \in Piece /\ done \subseteq Piece
             /\ data \in Seq(0 .. TotalSize) /\ Len(data) <= Size(index)
             /\ cl = "read" => Len(data) < Size(index)

ControlTypes == /\ use \in {"pieces", "info"}
                /\ cl \in {"hello", "exthello", "idle", "read", "closed"}
                /\ verdict \in {"none", "choked", "large", "hash"}
                /\ choked \in BOOLEAN /\ choking \in BOOLEAN /\ extSent \in BOOLEAN
                /\ bep10 \in BOOLEAN /\ honest \in BOOLEAN

CountTypes == /\ skipped \in 0 .. SkipLimit /\ noise \in 0 .. MaxNoise
              /\ cl \in {"hello", "exthello"} => skipped < SkipLimit

PexTypes == pexPeers \subseteq PexAddr /\ given \subseteq PexAddr /\ heard \subseteq PexAddr

WTypes == StreamTypes /\ DataTypes /\ ControlTypes /\ CountTypes /\ PexTypes

(* What a stream of messages says about choking: c is what its reader      *)
(* believes, g what its writer does.                                       *)
Ctl(m)   == m.type \in {"choke", "unchoke"}
NoCtl(q) == \A k \in 1 .. Len(q) : ~Ctl(q[k])
Last(q)  == {k \in 1 .. Len(q) : Ctl(q[k]) /\ \A l \in k + 1 .. Len(q) : ~Ctl(q[l])}
Tells(q, c, g) == /\ NoCtl(q) => (c <=> g)
                  /\ \A k \in Last(q) : (q[k].type = "choke") <=> g
                  /\ NoCtl(q) \/ Last(q) # {}

ChokeKnown == cl # "closed" => Tells(pipe, choked, choking)

(* Nothing is asked for in the handshakes.  A worker that is choked has    *)
(* asked for nothing either, has no data, and reads an unchoke before the  *)
(* next block.                                                             *)
Greeting == cl \in {"hello", "exthello"} =>
              reqs = <<>> /\ \A k \in 1 .. Len(pipe) : pipe[k].type # "piece"

WaitsChoked == cl # "closed" /\ choked =>
    /\ reqs = <<>>
    /\ \A k \in 1 .. Len(pipe) : pipe[k].type = "piece" =>
          \E j \in 1 .. k - 1 : pipe[j].type = "unchoke"
    /\ cl = "read" => data = <<>>

(* The next block is requested, or on its way; or a choke is.              *)
Asked  == \E k \in 1 .. Len(reqs) : reqs[k].index = index /\ reqs[k].begin = Len(data)
Coming == \E k \in 1 .. Len(pipe) : pipe[k].type = "piece" /\ Wanted(pipe[k])
Ending == \E k \in 1 .. Len(pipe) : pipe[k].type = "choke"
Owed   == cl = "read" => choked \/ Asked \/ Coming \/ Ending

(* An honest peer's blocks answer requests, and what is buffered is a      *)
(* prefix of the piece.                                                    *)
Exact == honest =>
    /\ \A k \in 1 .. Len(pipe) : pipe[k].type = "piece" =>
          \E r \in Req : pipe[k] = Block(r)
    /\ \A k \in 1 .. Len(data) : data[k] = index * PieceLength + k
    /\ verdict \notin {"large", "hash"}

IInv == WTypes /\ ChokeKnown /\ Greeting /\ WaitsChoked /\ Owed /\ Exact /\ PexKept

-----------------------------------------------------------------------------
(* Streams *)

(* A stream after a message is sent, and after one is read. *)
LEMMA Sending ==
    ASSUME NEW S, NEW q \in Seq(S), NEW m \in S, NEW t, t = Append(q, m)
    PROVE  /\ t \in Seq(S) /\ Len(q) \in Nat /\ Len(t) = Len(q) + 1
           /\ t[Len(t)] = m /\ t[Len(q) + 1] = m /\ t # <<>>
           /\ \A i \in 1 .. Len(q) : t[i] = q[i]
           /\ 1 .. Len(t) = (1 .. Len(q)) \cup {Len(q) + 1}
<1>1. Len(q) \in Nat
  BY LenProperties
<1>2. t \in Seq(S) /\ Len(t) = Len(q) + 1 /\ t[Len(q) + 1] = m
      /\ \A i \in 1 .. Len(q) : t[i] = q[i]
  BY AppendProperties
<1>3. t # <<>>
  BY <1>1, <1>2, EmptySeq
<1> QED
  BY <1>1, <1>2, <1>3

LEMMA Reading ==
    ASSUME NEW S, NEW q \in Seq(S), q # <<>>, NEW t, t = Tail(q)
    PROVE  /\ Head(q) = q[1] /\ Head(q) \in S /\ Len(q) \in Nat /\ 1 \in 1 .. Len(q)
           /\ t \in Seq(S) /\ Len(t) = Len(q) - 1
           /\ \A i \in 1 .. Len(t) : i + 1 \in 1 .. Len(q) /\ t[i] = q[i + 1]
           /\ \A i \in 1 .. Len(q) : i # 1 => i - 1 \in 1 .. Len(t) /\ t[i - 1] = q[i]
<1>1. Len(q) \in Nat
  BY LenProperties
<1>2. /\ t \in Seq(S) /\ Len(t) = Len(q) - 1 /\ Head(q) = q[1] /\ Head(q) \in S
      /\ \A i \in 1 .. Len(t) : t[i] = q[i + 1]
  BY HeadTailProperties
<1>3. Len(q) # 0
  BY EmptySeq
<1> QED
  BY <1>1, <1>2, <1>3

(* A message that is not about choking changes nothing. *)
LEMMA TellsOther ==
    ASSUME NEW S, NEW q \in Seq(S), NEW m \in S, ~Ctl(m), NEW c, NEW g, Tells(q, c, g)
    PROVE  Tells(Append(q, m), c, g)
<1> DEFINE t == Append(q, m)
<1>1. /\ Len(q) \in Nat /\ Len(t) = Len(q) + 1 /\ t[Len(q) + 1] = m
      /\ \A i \in 1 .. Len(q) : t[i] = q[i]
      /\ 1 .. Len(t) = (1 .. Len(q)) \cup {Len(q) + 1}
  BY Sending
<1> HIDE DEF t
<1>2. NoCtl(t) <=> NoCtl(q)
  BY <1>1 DEF NoCtl
<1>3. Last(t) = Last(q)
  <2>1. ASSUME NEW k \in Last(t) PROVE k \in Last(q)
    BY <1>1, <2>1 DEF Last
  <2>2. ASSUME NEW k \in Last(q) PROVE k \in Last(t)
    <3>1. k \in 1 .. Len(t) /\ Ctl(t[k])
      BY <1>1, <2>2 DEF Last
    <3>2. ASSUME NEW l \in k + 1 .. Len(t) PROVE ~Ctl(t[l])
      <4>1. l \in k + 1 .. Len(q) \/ l = Len(q) + 1
        BY <1>1, <3>2
      <4>2. CASE l \in k + 1 .. Len(q)
        BY <1>1, <2>2, <4>2 DEF Last
      <4> QED
        BY <1>1, <4>1, <4>2
    <3> QED
      BY <3>1, <3>2 DEF Last
  <2> QED
    BY <2>1, <2>2
<1>4. \A k \in Last(q) : t[k] = q[k]
  BY <1>1 DEF Last
<1>5. Tells(t, c, g)
  BY <1>2, <1>3, <1>4 DEF Tells
<1> QED
  BY <1>5 DEF t

(* A choke or unchoke says what the peer does from then on. *)
LEMMA TellsControl ==
    ASSUME NEW S, NEW q \in Seq(S), NEW m \in S, Ctl(m),
           NEW c, NEW g, (m.type = "choke") <=> g
    PROVE  Tells(Append(q, m), c, g)
<1> DEFINE t == Append(q, m)
           n == Len(q) + 1
<1>1. /\ Len(q) \in Nat /\ Len(t) = n /\ t[n] = m
      /\ \A i \in 1 .. Len(q) : t[i] = q[i]
      /\ 1 .. Len(t) = (1 .. Len(q)) \cup {n}
  BY Sending
<1> HIDE DEF t
<1>2. n \in 1 .. Len(t) /\ n + 1 .. Len(t) = {}
  BY <1>1
<1>3. n \in Last(t) /\ ~NoCtl(t)
  BY <1>1, <1>2 DEF Last, NoCtl
<1>4. \A k \in Last(t) : k = n
  <2> SUFFICES ASSUME NEW k \in Last(t), k # n PROVE FALSE
    OBVIOUS
  <2>1. n \in k + 1 .. Len(t)
    BY <1>1 DEF Last
  <2> QED
    BY <1>1, <2>1 DEF Last
<1>5. Tells(t, c, g)
  BY <1>1, <1>3, <1>4 DEF Tells
<1> QED
  BY <1>5 DEF t

(* A reader that notes the chokes and unchokes it reads is right at the    *)
(* end of the stream.                                                      *)
LEMMA TellsRead ==
    ASSUME NEW S, NEW q \in Seq(S), q # <<>>, NEW c, NEW d, NEW g, Tells(q, c, g),
           Head(q).type = "choke" => d, Head(q).type = "unchoke" => ~d,
           ~Ctl(Head(q)) => (d <=> c)
    PROVE  Tells(Tail(q), d, g)
<1> DEFINE t == Tail(q)
<1>1. /\ Head(q) = q[1] /\ Len(q) \in Nat /\ 1 \in 1 .. Len(q) /\ Len(t) = Len(q) - 1
      /\ \A i \in 1 .. Len(t) : i + 1 \in 1 .. Len(q) /\ t[i] = q[i + 1]
      /\ \A i \in 1 .. Len(q) : i # 1 => i - 1 \in 1 .. Len(t) /\ t[i - 1] = q[i]
  BY Reading
<1> HIDE DEF t
<1>2. \A k \in Last(t) : k + 1 \in Last(q) /\ t[k] = q[k + 1]
  <2> SUFFICES ASSUME NEW k \in Last(t) PROVE k + 1 \in Last(q) /\ t[k] = q[k + 1]
    OBVIOUS
  <2>1. k \in 1 .. Len(t) /\ Ctl(t[k]) /\ \A l \in k + 1 .. Len(t) : ~Ctl(t[l])
    BY DEF Last
  <2>2. k + 1 \in 1 .. Len(q) /\ t[k] = q[k + 1]
    BY <1>1, <2>1
  <2>3. ASSUME NEW l \in (k + 1) + 1 .. Len(q) PROVE ~Ctl(q[l])
    <3>1. l - 1 \in k + 1 .. Len(t) /\ l # 1 /\ l \in 1 .. Len(q)
      BY <1>1, <2>1, <2>3
    <3>2. t[l - 1] = q[l]
      BY <1>1, <3>1
    <3> QED
      BY <2>1, <3>1, <3>2
  <2> QED
    BY <2>1, <2>2, <2>3 DEF Last
<1>3. \A k \in Last(q) : k # 1 => k - 1 \in Last(t)
  <2> SUFFICES ASSUME NEW k \in Last(q), k # 1 PROVE k - 1 \in Last(t)
    OBVIOUS
  <2>1. k \in 1 .. Len(q) /\ Ctl(q[k]) /\ \A l \in k + 1 .. Len(q) : ~Ctl(q[l])
    BY DEF Last
  <2>2. k - 1 \in 1 .. Len(t) /\ t[k - 1] = q[k]
    BY <1>1, <2>1
  <2>3. ASSUME NEW l \in (k - 1) + 1 .. Len(t) PROVE ~Ctl(t[l])
    <3>1. l + 1 \in k + 1 .. Len(q) /\ l \in 1 .. Len(t)
      BY <1>1, <2>1, <2>3
    <3> QED
      BY <1>1, <2>1, <3>1
  <2> QED
    BY <2>1, <2>2, <2>3 DEF Last
<1>4. NoCtl(t) => \A l \in 1 + 1 .. Len(q) : ~Ctl(q[l])
  <2> SUFFICES ASSUME NoCtl(t), NEW l \in 1 + 1 .. Len(q) PROVE ~Ctl(q[l])
    OBVIOUS
  <2>1. l \in 1 .. Len(q) /\ l # 1
    BY <1>1
  <2> QED
    BY <1>1, <2>1 DEF NoCtl
<1>5. NoCtl(t) => (d <=> g)
  <2> SUFFICES ASSUME NoCtl(t) PROVE d <=> g
    OBVIOUS
  <2>1. CASE Ctl(q[1])
    <3>1. 1 \in Last(q)
      BY <1>1, <1>4, <2>1 DEF Last
    <3>2. (q[1].type = "choke") <=> g
      BY <3>1 DEF Tells
    <3> QED
      BY <1>1, <2>1, <3>2 DEF Ctl
  <2>2. CASE ~Ctl(q[1])
    <3>1. NoCtl(q)
      BY <1>1, <1>4, <2>2 DEF NoCtl
    <3> QED
      BY <1>1, <2>2, <3>1 DEF Tells
  <2> QED
    BY <2>1, <2>2
<1>6. NoCtl(t) \/ Last(t) # {}
  <2> SUFFICES ASSUME ~NoCtl(t) PROVE Last(t) # {}
    OBVIOUS
  <2>1. PICK i \in 1 .. Len(t) : Ctl(t[i])
    BY DEF NoCtl
  <2>2. i + 1 \in 1 .. Len(q) /\ Ctl(q[i + 1]) /\ i + 1 \in 1 + 1 .. Len(q)
    BY <1>1, <2>1
  <2>3. PICK k \in Last(q) : TRUE
    BY <2>2 DEF Tells, NoCtl
  <2>4. k # 1
    BY <2>2, <2>3 DEF Last
  <2> QED
    BY <1>3, <2>3, <2>4
<1>7. Tells(t, d, g)
  BY <1>2, <1>5, <1>6 DEF Tells
<1> QED
  BY <1>7 DEF t

-----------------------------------------------------------------------------
(* Sizes, requests and blocks *)

LEMMA SizeFacts ==
    ASSUME NEW i \in Piece
    PROVE  /\ i * PieceLength \in Nat /\ Size(i) \in Nat /\ 0 < Size(i)
           /\ Size(i) <= PieceLength /\ i * PieceLength + Size(i) <= TotalSize
<1>1. i \in Nat /\ i * PieceLength < TotalSize /\ TotalSize \in Nat
      /\ PieceLength \in Nat /\ PieceLength > 0
  BY ConstantsAssumption DEF Piece
<1>2. i * PieceLength \in Nat
  BY <1>1
<1> DEFINE s == i * PieceLength
<1>3. s \in Nat /\ s < TotalSize /\ Size(i) = Least(PieceLength, TotalSize - s)
  BY <1>1, <1>2 DEF Size
<1> HIDE DEF s
<1>4. Size(i) \in Nat /\ 0 < Size(i) /\ Size(i) <= PieceLength /\ s + Size(i) <= TotalSize
  BY <1>1, <1>3 DEF Least
<1> QED
  BY <1>2, <1>4 DEF s

LEMMA FirstPiece == 0 \in Piece
  BY ConstantsAssumption DEF Piece

LEMMA Requests ==
    ASSUME NEW i \in Piece, NEW n \in Nat, n < Size(i)
    PROVE  /\ Request(i, n) \in Req
           /\ Request(i, n).index = i /\ Request(i, n).begin = n
<1>1. Size(i) \in Nat /\ BlockSize \in Nat
  BY SizeFacts, ConstantsAssumption
<1>2. blockSize(Size(i), n) \in Nat
  BY <1>1 DEF blockSize, Least
<1>3. Request(i, n) \in [index : Piece, begin : Nat, length : Nat]
  BY <1>2 DEF Request
<1>4. Request(i, n).index = i /\ Request(i, n).begin = n
  BY DEF Request
<1>5. Request(Request(i, n).index, Request(i, n).begin) = Request(i, n)
  BY <1>4
<1> QED
  BY <1>3, <1>4, <1>5 DEF Req

(* What a request asks for lies within its piece. *)
LEMMA Asking ==
    ASSUME NEW r \in Req
    PROVE  /\ r.index \in Piece /\ r.begin \in Nat /\ r.length \in Nat
           /\ r.begin + r.length <= Size(r.index) /\ r.begin < Size(r.index)
<1>1. /\ r.index \in Piece /\ r.begin \in Nat /\ r.length \in Nat
      /\ r.begin < Size(r.index) /\ r = Request(r.index, r.begin)
  BY DEF Req
<1>2. r.length = blockSize(Size(r.index), r.begin)
  BY <1>1 DEF Request
<1>3. Size(r.index) \in Nat /\ BlockSize \in Nat
  BY <1>1, SizeFacts, ConstantsAssumption
<1> QED
  BY <1>1, <1>2, <1>3 DEF blockSize, Least

(* The block that answers it. *)
LEMMA Answers ==
    ASSUME NEW r \in Req
    PROVE  /\ Block(r) \in BlockMsg /\ Block(r).type = "piece"
           /\ Block(r).index = r.index /\ Block(r).begin = r.begin
           /\ Len(Block(r).bytes) = r.length
           /\ \A k \in 1 .. r.length :
                Block(r).bytes[k] = r.index * PieceLength + r.begin + k
<1>1. /\ r.index \in Piece /\ r.begin \in Nat /\ r.length \in Nat
      /\ r.begin + r.length <= Size(r.index) /\ r.begin < Size(r.index)
  BY Asking
<1>2. /\ r.index * PieceLength \in Nat /\ Size(r.index) \in Nat
      /\ Size(r.index) <= PieceLength
      /\ r.index * PieceLength + Size(r.index) <= TotalSize /\ TotalSize \in Nat
      /\ PieceLength \in Nat
  BY <1>1, SizeFacts, ConstantsAssumption
<1> DEFINE b == Bytes(r.index, r.begin, r.length)
           s == r.index * PieceLength
<1>3. b = [k \in 1 .. r.length |-> s + r.begin + k]
  BY DEF Bytes
<1>4. \A k \in 1 .. r.length : s + r.begin + k \in 0 .. TotalSize
  <2> HIDE DEF s
  <2>1. s \in Nat /\ s + Size(r.index) <= TotalSize
    BY <1>2 DEF s
  <2> QED
    BY <1>1, <1>2, <2>1
<1>5. b \in Seq(0 .. TotalSize) /\ Len(b) = r.length
  <2> HIDE DEF s
  <2>1. b \in [1 .. r.length -> 0 .. TotalSize]
    BY <1>3, <1>4
  <2>2. b \in Seq(0 .. TotalSize)
    BY <1>1, <2>1, SeqDef
  <2>3. Len(b) \in Nat /\ 1 .. Len(b) = 1 .. r.length
    BY <2>1, <2>2, LenProperties
  <2> HIDE DEF b
  <2>4. Len(b) = r.length
    <3>1. r.length <= Len(b)
      BY <1>1, <2>3
    <3>2. Len(b) <= r.length
      BY <1>1, <2>3
    <3> QED
      BY <1>1, <2>3, <3>1, <3>2
  <2> QED
    BY <2>2, <2>4
<1>6. r.begin \in Offset
  BY <1>1, <1>2 DEF Offset
<1>7. Block(r) = [type |-> "piece", index |-> r.index, begin |-> r.begin, bytes |-> b]
  BY DEF Block
<1> HIDE DEF b
<1>8. /\ Block(r) \in BlockMsg /\ Block(r).type = "piece"
      /\ Block(r).index = r.index /\ Block(r).begin = r.begin /\ Block(r).bytes = b
  BY <1>1, <1>5, <1>6, <1>7 DEF BlockMsg
<1> QED
  BY <1>3, <1>5, <1>8

LEMMA JunkType ==
    ASSUME DataTypes, cl = "read", NEW n \in Nat
    PROVE  Junk(n) \in BlockMsg
<1>1. index \in Piece /\ Len(data) < Size(index) /\ Len(data) \in Nat
  BY LenProperties DEF DataTypes
<1>2. Size(index) \in Nat /\ Size(index) <= PieceLength /\ PieceLength \in Nat
  BY <1>1, SizeFacts, ConstantsAssumption
<1>3. Len(data) \in Offset
  BY <1>1, <1>2 DEF Offset
<1>4. [k \in 1 .. n |-> 0] \in Seq(0 .. TotalSize)
  <2>1. [k \in 1 .. n |-> 0] \in [1 .. n -> 0 .. TotalSize]
    BY ConstantsAssumption
  <2> QED
    BY <2>1, SeqDef
<1> QED
  BY <1>1, <1>3, <1>4 DEF Junk, BlockMsg

LEMMA PlainType == \A t \in {"choke", "unchoke", "other", "ext"} :
                     Plain(t) \in Message /\ Plain(t).type = t
  BY DEF Plain, Message, Control

LEMMA MessageFacts ==
    ASSUME NEW m \in Message
    PROVE  /\ m.type \in {"choke", "unchoke", "other", "ext", "piece", "pex"}
           /\ m.type = "piece" => m \in BlockMsg
           /\ m.type = "pex" => m.addrs \subseteq PexAddr
  BY DEF Message, Control, BlockMsg, PexMsg

-----------------------------------------------------------------------------
(* What the peer can do to the connection *)

PeerStep == \/ PeerExtended \/ PeerUnchokes \/ PeerUnchokesAgain \/ PeerChokes
            \/ PeerIgnores \/ PeerAnswers \/ PeerRepeats \/ PeerChatters
            \/ PeerExchanges \/ PeerSendsJunk

Dropped == choking /\ reqs # <<>> /\ reqs' = Tail(reqs) /\ UNCHANGED <<pipe, choking>>

Said(m) ==
    /\ cl # "closed" /\ pipe' = Append(pipe, m)
    /\ \/ m.type = "unchoke" /\ choking' = FALSE /\ UNCHANGED reqs
       \/ m.type = "choke" /\ choking' = TRUE /\ reqs' = <<>>
       \/ m.type \in {"ext", "other", "pex"} /\ UNCHANGED <<reqs, choking>>
       \/ /\ ~choking /\ UNCHANGED choking /\ reqs # <<>> /\ m = Block(Head(reqs))
          /\ reqs' = Tail(reqs) \/ UNCHANGED reqs
       \/ ~honest /\ ~choking /\ cl = "read" /\ m.type = "piece" /\ UNCHANGED <<reqs, choking>>

LEMMA PeerActs ==
    ASSUME WTypes, PeerStep
    PROVE  /\ UNCHANGED <<clientVars, pexVars, peerKind>>
           /\ noise' \in 0 .. MaxNoise /\ extSent' \in BOOLEAN
           /\ Dropped \/ \E m \in Message : Said(m)
<1> USE DEF peerVars
<1> DEFINE Acts == Dropped \/ \E m \in Message : Said(m)
<1>1. UNCHANGED <<clientVars, pexVars, peerKind>>
  BY DEF PeerStep, PeerExtended, PeerUnchokes, PeerUnchokesAgain, PeerChokes, PeerIgnores,
     PeerAnswers, PeerRepeats, PeerChatters, PeerExchanges, PeerSendsJunk
<1>2. noise' \in 0 .. MaxNoise
  <2>1. UNCHANGED noise \/ Noise
    BY DEF PeerStep, PeerExtended, PeerUnchokes, PeerUnchokesAgain, PeerChokes, PeerIgnores,
       PeerAnswers, PeerRepeats, PeerChatters, PeerExchanges, PeerSendsJunk
  <2> QED
    BY <2>1, ConstantsAssumption DEF Noise, WTypes, CountTypes
<1>3. extSent' \in BOOLEAN
  <2>1. UNCHANGED extSent \/ extSent' = TRUE
    BY DEF PeerStep, PeerExtended, PeerUnchokes, PeerUnchokesAgain, PeerChokes, PeerIgnores,
       PeerAnswers, PeerRepeats, PeerChatters, PeerExchanges, PeerSendsJunk
  <2> QED
    BY <2>1, Zenon DEF WTypes, ControlTypes
<1>4. ASSUME PeerExtended PROVE Acts
  BY <1>4, PlainType DEF PeerExtended, Say, Said
<1>5. ASSUME PeerUnchokes PROVE Acts
  BY <1>5, PlainType DEF PeerUnchokes, Say, Said
<1>6. ASSUME PeerUnchokesAgain PROVE Acts
  <2>1. choking' = FALSE
    BY <1>6, Zenon DEF PeerUnchokesAgain, WTypes, ControlTypes
  <2> QED
    BY <1>6, <2>1, PlainType DEF PeerUnchokesAgain, Noise, Say, Said
<1>7. ASSUME PeerChokes PROVE Acts
  BY <1>7, PlainType DEF PeerChokes, Noise, Say, Said
<1>8. ASSUME PeerIgnores PROVE Acts
  BY <1>8 DEF PeerIgnores, Dropped
<1>9. ASSUME PeerAnswers \/ PeerRepeats PROVE Acts
  <2>1. reqs # <<>> /\ reqs \in Seq(Req)
    BY <1>9 DEF PeerAnswers, PeerRepeats, WTypes, StreamTypes
  <2>2. Head(reqs) \in Req
    BY <2>1, Reading
  <2>3. Block(Head(reqs)) \in Message
    BY <2>2, Answers DEF Message
  <2>4. Said(Block(Head(reqs)))
    BY <1>9 DEF PeerAnswers, PeerRepeats, Noise, Say, Said
  <2> QED
    BY <2>3, <2>4
<1>10. ASSUME PeerChatters PROVE Acts
  BY <1>10, PlainType DEF PeerChatters, Noise, Say, Said
<1>11. ASSUME PeerExchanges PROVE Acts
  <2>1. PICK a \in PexAddr : pipe' = Append(pipe, [type |-> "pex", addrs |-> {a}])
    BY <1>11 DEF PeerExchanges, Say
  <2>2. [type |-> "pex", addrs |-> {a}] \in Message /\ [type |-> "pex", addrs |-> {a}].type = "pex"
    BY DEF Message, PexMsg
  <2> QED
    BY <1>11, <2>1, <2>2 DEF PeerExchanges, Noise, Said
<1>12. ASSUME PeerSendsJunk PROVE Acts
  <2>1. PICK n \in 0 .. BlockSize + 1 : pipe' = Append(pipe, Junk(n))
    BY <1>12 DEF PeerSendsJunk, Say
  <2>2. n \in Nat
    BY ConstantsAssumption
  <2>3. Junk(n) \in Message /\ Junk(n).type = "piece"
    BY <1>12, <2>2, JunkType DEF PeerSendsJunk, WTypes, Message, Junk
  <2> QED
    BY <1>12, <2>1, <2>3 DEF PeerSendsJunk, Noise, Said
<1> QED
  BY <1>1, <1>2, <1>3, <1>4, <1>5, <1>6, <1>7, <1>8, <1>9, <1>10, <1>11, <1>12 DEF PeerStep

LEMMA Steps == Next <=> \/ Handshake \/ readExtendedHandshake \/ ReadMessage \/ ConnFails
                        \/ \E i \in Piece : StartPiece(i)
                        \/ PeerStep
  BY DEF Next, ClientStep, PeerStep

LEMMA NewData ==
    ASSUME DataTypes, NEW m \in BlockMsg
    PROVE  /\ data \o m.bytes \in Seq(0 .. TotalSize)
           /\ Len(data) \in Nat /\ Len(m.bytes) \in Nat
           /\ Len(data \o m.bytes) = Len(data) + Len(m.bytes)
           /\ \A k \in 1 .. Len(data) + Len(m.bytes) :
                (data \o m.bytes)[k] = IF k <= Len(data) THEN data[k] ELSE m.bytes[k - Len(data)]
<1>1. data \in Seq(0 .. TotalSize) /\ m.bytes \in Seq(0 .. TotalSize)
  BY DEF DataTypes, BlockMsg
<1>2. Len(data) \in Nat /\ Len(m.bytes) \in Nat
  BY <1>1, LenProperties
<1> QED
  BY <1>1, <1>2, ConcatProperties

-----------------------------------------------------------------------------
(* Types *)

LEMMA InitTypes == Init => WTypes
<1> SUFFICES ASSUME Init PROVE WTypes
  OBVIOUS
<1>1. StreamTypes
  BY EmptySeq DEF Init, StreamTypes
<1>2. DataTypes
  <2>1. <<>> \in Seq(0 .. TotalSize) /\ Len(<<>>) = 0
    BY EmptySeq
  <2>2. 0 \in Piece /\ Size(0) \in Nat
    BY FirstPiece, SizeFacts
  <2> QED
    BY <2>1, <2>2 DEF Init, DataTypes
<1>3. ControlTypes
  BY Zenon DEF Init, ControlTypes
<1>4. CountTypes
  BY ConstantsAssumption DEF Init, CountTypes
<1>5. PexTypes
  BY DEF Init, PexTypes
<1> QED
  BY <1>1, <1>2, <1>3, <1>4, <1>5 DEF WTypes

LEMMA StreamStep == WTypes /\ [Next]_vars => StreamTypes'
<1> SUFFICES ASSUME WTypes, [Next]_vars PROVE StreamTypes'
  OBVIOUS
<1> USE DEF clientVars, pexVars, peerVars, peerKind
<1>0. pipe \in Seq(Message) /\ reqs \in Seq(Req) /\ DataTypes
  BY DEF WTypes, StreamTypes
<1>r. ASSUME NEW i \in Piece, NEW n \in Nat, n < Size(i)
      PROVE  Append(reqs, Request(i, n)) \in Seq(Req)
  <2>1. Request(i, n) \in Req
    BY <1>r, Requests
  <2> QED
    BY <1>0, <2>1, Sending
<1>f. ASSUME NEW i \in Piece PROVE Append(reqs, Request(i, 0)) \in Seq(Req)
  BY <1>r, SizeFacts
<1>1. CASE readExtendedHandshake
  BY <1>0, <1>1, Reading DEF readExtendedHandshake, StreamTypes
<1>2. ASSUME NEW i \in Piece, StartPiece(i) PROVE StreamTypes'
  BY <1>0, <1>2, <1>f DEF StartPiece, FirstRequest, StreamTypes
<1>3. CASE ReadMessage
  <2>1. pipe' \in Seq(Message) /\ Head(pipe) \in Message
    BY <1>0, <1>3, Reading DEF ReadMessage
  <2>2. ASSUME Unchoked PROVE reqs' \in Seq(Req)
    BY <1>0, <1>f, <2>2 DEF Unchoked, DataTypes
  <2>3. ASSUME Head(pipe).type = "piece", GotBlock(Head(pipe)) PROVE reqs' \in Seq(Req)
    <3>1. Head(pipe) \in BlockMsg
      BY <2>1, <2>3, MessageFacts
    <3>2. Len(data \o Head(pipe).bytes) \in Nat
      BY <1>0, <3>1, NewData
    <3>3. CASE UNCHANGED reqs
      BY <1>0, <3>3
    <3>4. CASE /\ Len(data \o Head(pipe).bytes) < Size(index)
               /\ reqs' = Append(reqs, Request(index, Len(data \o Head(pipe).bytes)))
      BY <1>0, <1>r, <3>2, <3>4 DEF DataTypes
    <3> QED
      BY <2>3, <3>3, <3>4 DEF GotBlock
  <2>4. ASSUME Choked \/ Skip PROVE reqs' \in Seq(Req)
    BY <1>0, <2>4 DEF Choked, Skip
  <2> QED
    BY <1>3, <2>1, <2>2, <2>3, <2>4 DEF ReadMessage, StreamTypes
<1>4. CASE PeerStep
  <2>1. Dropped \/ \E m \in Message : Said(m)
    BY <1>4, PeerActs
  <2>2. CASE Dropped
    BY <1>0, <2>2, Reading DEF Dropped, StreamTypes
  <2>3. ASSUME NEW m \in Message, Said(m) PROVE StreamTypes'
    <3>1. pipe' \in Seq(Message)
      BY <1>0, <2>3, Sending DEF Said
    <3>2. reqs' \in Seq(Req)
      BY <1>0, <2>3, Reading, EmptySeq DEF Said
    <3> QED
      BY <3>1, <3>2 DEF StreamTypes
  <2> QED
    BY <2>1, <2>2, <2>3
<1>5. CASE UNCHANGED <<pipe, reqs>>
  BY <1>0, <1>5 DEF StreamTypes
<1> QED
  BY <1>1, <1>2, <1>3, <1>4, <1>5, Steps DEF Handshake, ConnFails, vars

LEMMA DataStep == WTypes /\ [Next]_vars => DataTypes'
<1> SUFFICES ASSUME WTypes, [Next]_vars PROVE DataTypes'
  OBVIOUS
<1> USE DEF clientVars, pexVars, peerVars, peerKind
<1>0. DataTypes /\ pipe \in Seq(Message)
  BY DEF WTypes, StreamTypes
<1>1. ASSUME NEW i \in Piece, StartPiece(i) PROVE DataTypes'
  <2>1. <<>> \in Seq(0 .. TotalSize) /\ Len(<<>>) = 0
    BY EmptySeq
  <2>2. Size(i) \in Nat /\ 0 < Size(i)
    BY SizeFacts
  <2> QED
    BY <1>0, <1>1, <2>1, <2>2 DEF StartPiece, DataTypes
<1>2. CASE ReadMessage
  <2>1. Head(pipe) \in Message /\ UNCHANGED index /\ cl = "read"
    BY <1>0, <1>2, Reading DEF ReadMessage
  <2>2. ASSUME Unchoked \/ Choked \/ Skip PROVE DataTypes'
    BY <1>0, <2>1, <2>2 DEF Unchoked, Choked, Skip, GiveUp, DataTypes
  <2>3. ASSUME Head(pipe).type = "piece", GotBlock(Head(pipe)) PROVE DataTypes'
    <3> DEFINE new == data \o Head(pipe).bytes
    <3>1. Head(pipe) \in BlockMsg
      BY <2>1, <2>3, MessageFacts
    <3>2. new \in Seq(0 .. TotalSize) /\ Len(new) \in Nat /\ index \in Piece /\ Size(index) \in Nat
      BY <1>0, <3>1, NewData, SizeFacts DEF DataTypes
    <3>3. CASE cl' = "closed" /\ UNCHANGED <<data, done>>
      BY <1>0, <2>1, <3>3 DEF DataTypes
    <3>4. CASE Len(new) < Size(index) /\ data' = new /\ UNCHANGED <<cl, done>>
      BY <1>0, <2>1, <3>2, <3>4 DEF DataTypes
    <3>5. CASE /\ Len(new) <= Size(index) /\ data' = new /\ cl' \in {"idle", "closed"}
               /\ done' = done \cup {index} \/ UNCHANGED done
      BY <1>0, <2>1, <3>2, <3>5 DEF DataTypes
    <3> HIDE DEF new
    <3> QED
      BY <2>3, <3>3, <3>4, <3>5 DEF GotBlock, GiveUp, Fits, new
  <2> QED
    BY <1>2, <2>2, <2>3 DEF ReadMessage
<1>3. CASE UNCHANGED <<index, done, data>> /\ (cl' = cl \/ cl' # "read")
  BY <1>0, <1>3 DEF DataTypes
<1>4. CASE PeerStep
  BY <1>3, <1>4, PeerActs
<1>5. CASE Handshake \/ readExtendedHandshake \/ ConnFails \/ UNCHANGED vars
  BY <1>3, <1>5 DEF Handshake, readExtendedHandshake, SkipMessage, ConnFails, vars
<1> QED
  BY <1>1, <1>2, <1>4, <1>5, Steps

LEMMA ControlStep == WTypes /\ [Next]_vars => ControlTypes'
<1> SUFFICES ASSUME WTypes, [Next]_vars PROVE ControlTypes'
  OBVIOUS
<1> USE DEF clientVars, pexVars, peerVars, peerKind
<1>0. ControlTypes
  BY DEF WTypes
<1>1. cl' \in {"hello", "exthello", "idle", "read", "closed"}
  <2>1. CASE PeerStep
    BY <1>0, <2>1, PeerActs DEF ControlTypes
  <2>2. CASE ReadMessage
    BY <1>0, <2>2 DEF ReadMessage, Unchoked, Choked, GotBlock, Skip, GiveUp, ControlTypes
  <2>3. CASE ~PeerStep /\ ~ReadMessage
    BY <1>0, <2>3, Steps DEF Handshake, readExtendedHandshake, SkipMessage, StartPiece,
       ConnFails, vars, ControlTypes
  <2> QED
    BY <2>1, <2>2, <2>3
<1>2. verdict' \in {"none", "choked", "large", "hash"}
  <2>1. CASE PeerStep
    BY <1>0, <2>1, PeerActs DEF ControlTypes
  <2>2. CASE ReadMessage
    BY <1>0, <2>2 DEF ReadMessage, Unchoked, Choked, GotBlock, Skip, GiveUp, ControlTypes
  <2>3. CASE ~PeerStep /\ ~ReadMessage
    BY <1>0, <2>3, Steps DEF Handshake, readExtendedHandshake, StartPiece, ConnFails, vars,
       ControlTypes
  <2> QED
    BY <2>1, <2>2, <2>3
<1>3. choked' \in BOOLEAN
  <2>1. choked' = choked \/ choked' = TRUE \/ choked' = FALSE
    <3>1. CASE PeerStep
      BY <3>1, PeerActs
    <3>2. CASE ReadMessage
      BY <3>2 DEF ReadMessage, Unchoked, Choked, GotBlock, Skip
    <3>3. CASE ~PeerStep /\ ~ReadMessage
      BY <3>3, Steps DEF Handshake, readExtendedHandshake, SkipMessage, StartPiece,
         ConnFails, vars
    <3> QED
      BY <3>1, <3>2, <3>3
  <2> QED
    BY <1>0, <2>1, Zenon DEF ControlTypes
<1>4. use' \in {"pieces", "info"} /\ bep10' \in BOOLEAN /\ honest' \in BOOLEAN
  <2>1. UNCHANGED peerKind
    <3>1. CASE PeerStep
      BY <3>1, PeerActs
    <3>2. CASE ~PeerStep
      BY <3>2, Steps DEF Handshake, readExtendedHandshake, StartPiece, ReadMessage, ConnFails,
         vars
    <3> QED
      BY <3>1, <3>2
  <2> QED
    BY <1>0, <2>1, Zenon DEF ControlTypes
<1>5. choking' \in BOOLEAN /\ extSent' \in BOOLEAN
  <2>1. CASE PeerStep
    <3>1. extSent' \in BOOLEAN
      BY <2>1, PeerActs
    <3>2. choking' = choking \/ choking' = TRUE \/ choking' = FALSE
      BY <2>1, PeerActs DEF Dropped, Said
    <3> QED
      BY <1>0, <3>1, <3>2, Zenon DEF ControlTypes
  <2>2. CASE ~PeerStep
    <3>1. UNCHANGED <<choking, extSent>>
      BY <2>2, Steps DEF Handshake, readExtendedHandshake, StartPiece, ReadMessage, ConnFails,
         vars
    <3> QED
      BY <1>0, <3>1, Zenon DEF ControlTypes
  <2> QED
    BY <2>1, <2>2
<1> QED
  BY <1>1, <1>2, <1>3, <1>4, <1>5, Zenon DEF ControlTypes

LEMMA CountStep == WTypes /\ [Next]_vars => CountTypes'
<1> SUFFICES ASSUME WTypes, [Next]_vars PROVE CountTypes'
  OBVIOUS
<1> USE DEF clientVars, pexVars, peerVars, peerKind
<1>0. CountTypes /\ SkipLimit \in Nat \ {0}
  BY ConstantsAssumption DEF WTypes
<1>1. CASE PeerStep
  BY <1>0, <1>1, PeerActs DEF CountTypes
<1>2. CASE readExtendedHandshake
  <2>1. UNCHANGED noise /\ cl = "exthello"
    BY <1>2 DEF readExtendedHandshake
  <2>2. \/ UNCHANGED skipped /\ cl' \in {"idle", "closed"}
        \/ skipped' = skipped + 1 /\ cl' = (IF skipped' = SkipLimit THEN "closed" ELSE cl)
    BY <1>2 DEF readExtendedHandshake, SkipMessage
  <2> QED
    BY <1>0, <2>1, <2>2 DEF CountTypes
<1>3. CASE /\ UNCHANGED <<skipped, noise>>
           /\ cl' = cl \/ cl' \notin {"hello", "exthello"} \/ cl = "hello"
  BY <1>0, <1>3 DEF CountTypes
<1>4. CASE Handshake \/ ConnFails \/ (\E i \in Piece : StartPiece(i)) \/ UNCHANGED vars
  BY <1>3, <1>4 DEF Handshake, ConnFails, StartPiece, vars
<1>5. CASE ReadMessage
  <2>1. cl = "read" /\ cl' \in {"read", "idle", "closed"} /\ UNCHANGED <<skipped, noise>>
    BY <1>5 DEF ReadMessage, Unchoked, Choked, GotBlock, Skip, GiveUp
  <2> QED
    BY <1>3, <2>1
<1> QED
  BY <1>1, <1>2, <1>4, <1>5, Steps

LEMMA PexStep == WTypes /\ PexKept /\ [Next]_vars => PexTypes' /\ PexKept'
<1> SUFFICES ASSUME WTypes, PexKept, [Next]_vars PROVE PexTypes' /\ PexKept'
  OBVIOUS
<1> USE DEF clientVars, pexVars, peerVars, peerKind
<1>0. PexTypes /\ pipe \in Seq(Message)
  BY DEF WTypes, StreamTypes
<1>1. CASE ReadMessage
  <2> DEFINE addrs == IF Head(pipe).type = "pex" THEN Head(pipe).addrs ELSE {}
  <2>1. Head(pipe) \in Message
    BY <1>0, <1>1, Reading DEF ReadMessage
  <2>2. addrs \subseteq PexAddr
    BY <2>1, MessageFacts
  <2>3. Harvest(addrs) /\ UNCHANGED use
    BY <1>1 DEF ReadMessage
  <2> HIDE DEF addrs
  <2> QED
    BY <1>0, <2>2, <2>3 DEF Harvest, PexTypes, PexKept
<1>2. CASE ConnFails
  <2>1. Harvest({}) /\ UNCHANGED use
    BY <1>2 DEF ConnFails
  <2> QED
    BY <1>0, <2>1 DEF Harvest, PexTypes, PexKept
<1>3. ASSUME NEW i \in Piece, StartPiece(i) PROVE PexTypes' /\ PexKept'
  BY <1>0, <1>3 DEF StartPiece, PexTypes, PexKept
<1>4. CASE Handshake \/ readExtendedHandshake
  <2>1. cl # "read" /\ UNCHANGED <<pexPeers, given, heard, use>>
    BY <1>4 DEF Handshake, readExtendedHandshake
  <2> QED
    BY <1>0, <2>1 DEF PexTypes, PexKept
<1>5. CASE PeerStep
  BY <1>0, <1>5, PeerActs DEF PexTypes, PexKept
<1>6. CASE UNCHANGED vars
  BY <1>0, <1>6 DEF vars, PexTypes, PexKept
<1> QED
  BY <1>1, <1>2, <1>3, <1>4, <1>5, <1>6, Steps

-----------------------------------------------------------------------------
(* Choking *)

LEMMA ChokeStep == WTypes /\ ChokeKnown /\ [Next]_vars => ChokeKnown'
<1> SUFFICES ASSUME WTypes, ChokeKnown, [Next]_vars, cl' # "closed"
             PROVE  Tells(pipe', choked', choking')
  BY DEF ChokeKnown
<1> USE DEF clientVars, pexVars, peerVars, peerKind
<1>0. pipe \in Seq(Message)
  BY DEF WTypes, StreamTypes
<1>1. CASE readExtendedHandshake
  <2>1. pipe # <<>> /\ pipe' = Tail(pipe) /\ cl # "closed" /\ UNCHANGED choking
    BY <1>1 DEF readExtendedHandshake
  <2>2. /\ Head(pipe).type = "choke" => choked'
        /\ Head(pipe).type = "unchoke" => ~choked'
        /\ ~Ctl(Head(pipe)) => (choked' <=> choked)
    <3>1. CASE Head(pipe).type \in {"ext", "pex"}
      BY <1>1, <3>1 DEF readExtendedHandshake, Ctl
    <3>2. CASE Head(pipe).type \notin {"ext", "pex"}
      <4>1. choked' = IF Head(pipe).type = "choke" THEN TRUE
                      ELSE IF Head(pipe).type = "unchoke" THEN FALSE ELSE choked
        BY <1>1, <3>2, Zenon DEF readExtendedHandshake, SkipMessage
      <4>2. CASE Head(pipe).type = "choke"
        BY <4>1, <4>2 DEF Ctl
      <4>3. CASE Head(pipe).type = "unchoke"
        BY <4>1, <4>3 DEF Ctl
      <4>4. CASE ~Ctl(Head(pipe))
        BY <4>1, <4>4 DEF Ctl
      <4> QED
        BY <4>2, <4>3, <4>4 DEF Ctl
    <3> QED
      BY <3>1, <3>2
  <2>3. Tells(Tail(pipe), choked', choking)
    BY <1>0, <2>1, <2>2, TellsRead DEF ChokeKnown
  <2> QED
    BY <2>1, <2>3
<1>2. CASE ReadMessage
  <2>1. pipe # <<>> /\ pipe' = Tail(pipe) /\ cl # "closed" /\ UNCHANGED choking
    BY <1>2 DEF ReadMessage
  <2>2. Head(pipe).type # "choke"
    BY <1>2 DEF ReadMessage, Choked, GiveUp
  <2>3. Head(pipe).type = "unchoke" => ~choked'
    BY <1>2 DEF ReadMessage, Unchoked
  <2>4. ~Ctl(Head(pipe)) => (choked' <=> choked)
    BY <1>2 DEF ReadMessage, Skip, Ctl
  <2>5. Tells(Tail(pipe), choked', choking)
    BY <1>0, <2>1, <2>2, <2>3, <2>4, TellsRead DEF ChokeKnown
  <2> QED
    BY <2>1, <2>5
<1>3. CASE PeerStep
  <2>1. UNCHANGED <<cl, choked>> /\ (Dropped \/ \E m \in Message : Said(m))
    BY <1>3, PeerActs
  <2>2. Tells(pipe, choked, choking)
    BY <2>1 DEF ChokeKnown
  <2>3. CASE Dropped
    BY <2>1, <2>2, <2>3 DEF Dropped
  <2>4. ASSUME NEW m \in Message, Said(m) PROVE Tells(pipe', choked', choking')
    <3>1. pipe' = Append(pipe, m)
      BY <2>4 DEF Said
    <3>2. CASE ~Ctl(m)
      <4>1. UNCHANGED choking
        BY <2>4, <3>2 DEF Said, Ctl
      <4>2. Tells(Append(pipe, m), choked, choking)
        BY <1>0, <2>2, <3>2, TellsOther
      <4> QED
        BY <2>1, <3>1, <4>1, <4>2
    <3>3. CASE Ctl(m)
      <4>1. m.type = "choke" <=> choking'
        <5>1. CASE m.type = "unchoke" /\ choking' = FALSE
          BY <5>1
        <5>2. CASE m.type = "choke" /\ choking' = TRUE
          BY <5>2
        <5>3. ~(reqs # <<>> /\ m = Block(Head(reqs)))
          <6> SUFFICES ASSUME reqs # <<>>, m = Block(Head(reqs)) PROVE FALSE
            OBVIOUS
          <6>1. Head(reqs) \in Req
            BY Reading DEF WTypes, StreamTypes
          <6> QED
            BY <3>3, <6>1, Answers DEF Ctl
        <5> QED
          BY <2>4, <3>3, <5>1, <5>2, <5>3 DEF Said, Ctl
      <4>2. Tells(Append(pipe, m), choked', choking')
        BY <1>0, <3>3, <4>1, TellsControl
      <4> QED
        BY <3>1, <4>2
    <3> QED
      BY <3>2, <3>3
  <2> QED
    BY <2>1, <2>3, <2>4
<1>4. CASE UNCHANGED <<pipe, choked, choking>> /\ cl # "closed"
  BY <1>4 DEF ChokeKnown
<1>5. CASE Handshake \/ ConnFails \/ (\E i \in Piece : StartPiece(i)) \/ UNCHANGED vars
  BY <1>4, <1>5 DEF Handshake, ConnFails, StartPiece, vars
<1> QED
  BY <1>1, <1>2, <1>3, <1>5, Steps

(* The requests and blocks of a greeting: none. *)
LEMMA GreetingStep == WTypes /\ Greeting /\ [Next]_vars => Greeting'
<1> SUFFICES ASSUME WTypes, Greeting, [Next]_vars, cl' \in {"hello", "exthello"}
             PROVE  reqs' = <<>> /\ \A k \in 1 .. Len(pipe') : pipe'[k].type # "piece"
  BY DEF Greeting
<1> USE DEF clientVars, pexVars, peerVars, peerKind
<1>0. pipe \in Seq(Message)
  BY DEF WTypes, StreamTypes
<1>1. CASE readExtendedHandshake
  <2>1. pipe # <<>> /\ pipe' = Tail(pipe) /\ cl = "exthello" /\ UNCHANGED reqs
    BY <1>1 DEF readExtendedHandshake
  <2>2. \A k \in 1 .. Len(pipe') : k + 1 \in 1 .. Len(pipe) /\ pipe'[k] = pipe[k + 1]
    BY <1>0, <2>1, Reading
  <2> QED
    BY <2>1, <2>2 DEF Greeting
<1>2. CASE PeerStep
  <2>1. UNCHANGED cl /\ (Dropped \/ \E m \in Message : Said(m))
    BY <1>2, PeerActs
  <2>2. reqs = <<>> /\ \A k \in 1 .. Len(pipe) : pipe[k].type # "piece"
    BY <2>1 DEF Greeting
  <2>3. PICK m \in Message : Said(m)
    BY <2>1, <2>2 DEF Dropped
  <2>4. m.type # "piece" /\ reqs' = <<>>
    BY <2>1, <2>2, <2>3 DEF Said
  <2>5. /\ pipe' = Append(pipe, m) /\ pipe'[Len(pipe) + 1] = m
        /\ \A i \in 1 .. Len(pipe) : pipe'[i] = pipe[i]
        /\ 1 .. Len(pipe') = (1 .. Len(pipe)) \cup {Len(pipe) + 1}
    BY <1>0, <2>3, Sending DEF Said
  <2> QED
    BY <2>2, <2>4, <2>5
<1>3. CASE UNCHANGED <<pipe, reqs>> /\ cl \in {"hello", "exthello"}
  BY <1>3 DEF Greeting
<1>4. CASE Handshake \/ ConnFails \/ (\E i \in Piece : StartPiece(i)) \/ UNCHANGED vars
  BY <1>3, <1>4 DEF Handshake, ConnFails, StartPiece, vars
<1>5. ~ReadMessage
  BY DEF ReadMessage, Unchoked, Choked, GotBlock, Skip, GiveUp
<1> QED
  BY <1>1, <1>2, <1>4, <1>5, Steps

-----------------------------------------------------------------------------
(* Waiting *)

(* Where the worker and the peer disagree, the message that settles it is  *)
(* under way.                                                              *)
LEMMA UnderWay ==
    ASSUME ChokeKnown, cl # "closed", ~(choked <=> choking)
    PROVE  \E k \in 1 .. Len(pipe) : Ctl(pipe[k]) /\ ((pipe[k].type = "choke") <=> choking)
  BY DEF ChokeKnown, Tells, Last

LEMMA WaitsStep == WTypes /\ ChokeKnown /\ Greeting /\ WaitsChoked /\ [Next]_vars => WaitsChoked'
<1> DEFINE After(q) == \A k \in 1 .. Len(q) : q[k].type = "piece" =>
                         \E j \in 1 .. k - 1 : q[j].type = "unchoke"
           Goal == reqs' = <<>> /\ After(pipe') /\ (cl' = "read" => data' = <<>>)
<1> SUFFICES ASSUME WTypes, ChokeKnown, Greeting, WaitsChoked, [Next]_vars,
                    cl' # "closed", choked'
             PROVE  Goal
  BY DEF WaitsChoked
<1> USE DEF clientVars, pexVars, peerVars, peerKind
<1>0. pipe \in Seq(Message)
  BY DEF WTypes, StreamTypes
<1>w. ASSUME cl # "closed", choked
      PROVE  reqs = <<>> /\ After(pipe) /\ (cl = "read" => data = <<>>)
  BY <1>w DEF WaitsChoked
<1>1. CASE readExtendedHandshake
  <2>1. pipe # <<>> /\ pipe' = Tail(pipe) /\ cl = "exthello" /\ UNCHANGED reqs
    BY <1>1 DEF readExtendedHandshake
  <2>2. \A k \in 1 .. Len(pipe') : k + 1 \in 1 .. Len(pipe) /\ pipe'[k] = pipe[k + 1]
    BY <1>0, <2>1, Reading
  <2>3. reqs' = <<>> /\ \A k \in 1 .. Len(pipe') : pipe'[k].type # "piece"
    BY <2>1, <2>2 DEF Greeting
  <2>4. cl' # "read"
    BY <1>1 DEF readExtendedHandshake, SkipMessage
  <2> QED
    BY <2>3, <2>4
<1>2. ASSUME NEW i \in Piece, StartPiece(i) PROVE Goal
  <2>1. cl # "closed" /\ choked /\ UNCHANGED <<pipe, reqs>> /\ data' = <<>>
    BY <1>2 DEF StartPiece, FirstRequest
  <2> QED
    BY <1>w, <2>1
<1>3. CASE ReadMessage
  <2>1. pipe # <<>> /\ pipe' = Tail(pipe) /\ cl = "read"
    BY <1>3 DEF ReadMessage
  <2>2. /\ Head(pipe) = pipe[1] /\ Len(pipe) \in Nat /\ 1 \in 1 .. Len(pipe)
        /\ \A k \in 1 .. Len(pipe') : k + 1 \in 1 .. Len(pipe) /\ pipe'[k] = pipe[k + 1]
        /\ \A k \in 1 .. Len(pipe) : k # 1 => k - 1 \in 1 .. Len(pipe') /\ pipe'[k - 1] = pipe[k]
    BY <1>0, <2>1, Reading
  <2>3. Head(pipe).type \notin {"choke", "unchoke"}
    BY <1>3 DEF ReadMessage, Choked, GiveUp, Unchoked
  <2>4. choked
    BY <1>3, <2>3 DEF ReadMessage, Skip
  <2>5. reqs = <<>> /\ After(pipe) /\ data = <<>>
    BY <1>w, <2>1, <2>4
  <2>6. Head(pipe).type # "piece"
    BY <2>2, <2>5
  <2>7. UNCHANGED <<reqs, data>>
    BY <1>3, <2>3, <2>6 DEF ReadMessage, Skip
  <2>8. ASSUME NEW k \in 1 .. Len(pipe'), pipe'[k].type = "piece"
        PROVE  \E j \in 1 .. k - 1 : pipe'[j].type = "unchoke"
    <3>1. k + 1 \in 1 .. Len(pipe) /\ pipe[k + 1].type = "piece"
      BY <2>2, <2>8
    <3>2. PICK j \in 1 .. (k + 1) - 1 : pipe[j].type = "unchoke"
      BY <2>5, <3>1
    <3>3. j # 1 /\ j \in 1 .. Len(pipe)
      BY <2>2, <2>3, <3>1, <3>2
    <3>4. pipe'[j - 1].type = "unchoke" /\ j - 1 \in 1 .. k - 1
      BY <2>2, <3>2, <3>3
    <3> QED
      BY <3>4
  <2> QED
    BY <2>5, <2>7, <2>8
<1>4. CASE PeerStep
  <2>1. UNCHANGED <<cl, choked, data>> /\ (Dropped \/ \E m \in Message : Said(m))
    BY <1>4, PeerActs
  <2>2. reqs = <<>> /\ After(pipe) /\ (cl = "read" => data = <<>>)
    BY <1>w, <2>1
  <2>3. PICK m \in Message : Said(m)
    BY <2>1, <2>2 DEF Dropped
  <2>4. reqs' = <<>>
    BY <2>2, <2>3 DEF Said
  <2>5. /\ Len(pipe) \in Nat /\ pipe'[Len(pipe) + 1] = m
        /\ \A k \in 1 .. Len(pipe) : pipe'[k] = pipe[k]
        /\ 1 .. Len(pipe') = (1 .. Len(pipe)) \cup {Len(pipe) + 1}
    BY <1>0, <2>3, Sending DEF Said
  <2>6. m.type = "piece" => \E j \in 1 .. Len(pipe) : pipe[j].type = "unchoke"
    <3> SUFFICES ASSUME m.type = "piece"
                 PROVE  \E j \in 1 .. Len(pipe) : pipe[j].type = "unchoke"
      OBVIOUS
    <3>1. ~choking
      BY <2>2, <2>3 DEF Said
    <3>2. PICK j \in 1 .. Len(pipe) : Ctl(pipe[j]) /\ ((pipe[j].type = "choke") <=> choking)
      BY <2>1, <3>1, UnderWay
    <3> QED
      BY <3>1, <3>2 DEF Ctl
  <2>7. ASSUME NEW k \in 1 .. Len(pipe'), pipe'[k].type = "piece"
        PROVE  \E j \in 1 .. k - 1 : pipe'[j].type = "unchoke"
    <3>1. CASE k \in 1 .. Len(pipe)
      <4>1. PICK j \in 1 .. k - 1 : pipe[j].type = "unchoke"
        BY <2>2, <2>5, <2>7, <3>1
      <4>2. j \in 1 .. Len(pipe)
        BY <2>5, <3>1
      <4> QED
        BY <2>5, <4>1, <4>2
    <3>2. CASE k = Len(pipe) + 1
      <4>1. PICK j \in 1 .. Len(pipe) : pipe[j].type = "unchoke"
        BY <2>5, <2>6, <2>7, <3>2
      <4>2. j \in 1 .. k - 1
        BY <2>5, <3>2
      <4> QED
        BY <2>5, <4>1, <4>2
    <3> QED
      BY <2>5, <2>7, <3>1, <3>2
  <2> QED
    BY <2>1, <2>2, <2>4, <2>7
<1>5. CASE UNCHANGED <<pipe, reqs, choked, data>> /\ cl # "closed" /\ (cl' # "read" \/ cl = "read")
  BY <1>w, <1>5
<1>6. CASE Handshake \/ ConnFails \/ UNCHANGED vars
  BY <1>5, <1>6 DEF Handshake, ConnFails, vars
<1> QED
  BY <1>1, <1>2, <1>3, <1>4, <1>6, Steps

LEMMA OwedStep == WTypes /\ ChokeKnown /\ WaitsChoked /\ Owed /\ [Next]_vars => Owed'
<1> DEFINE Goal == choked' \/ Asked' \/ Coming' \/ Ending'
<1> SUFFICES ASSUME WTypes, ChokeKnown, WaitsChoked, Owed, [Next]_vars, cl' = "read"
             PROVE  Goal
  BY DEF Owed
<1> USE DEF clientVars, pexVars, peerVars, peerKind
<1>0. pipe \in Seq(Message) /\ reqs \in Seq(Req) /\ DataTypes
  BY DEF WTypes, StreamTypes
<1>a. ASSUME NEW i \in Piece, NEW n \in Nat, n < Size(i), index' = i, Len(data') = n,
             reqs' = Append(reqs, Request(i, n))
      PROVE  Asked'
  <2>1. Request(i, n) \in Req /\ Request(i, n).index = i /\ Request(i, n).begin = n
    BY <1>a, Requests
  <2>2. Len(reqs) + 1 \in 1 .. Len(reqs') /\ reqs'[Len(reqs) + 1] = Request(i, n)
    BY <1>0, <1>a, <2>1, Sending
  <2> QED
    BY <1>a, <2>1, <2>2 DEF Asked
<1>1. ASSUME NEW i \in Piece, StartPiece(i) PROVE Goal
  <2>1. CASE choked
    BY <1>1, <2>1 DEF StartPiece
  <2>2. CASE ~choked
    <3>1. index' = i /\ data' = <<>> /\ reqs' = Append(reqs, Request(i, 0))
      BY <1>1, <2>2 DEF StartPiece, FirstRequest
    <3>2. Len(data') = 0 /\ 0 < Size(i)
      BY <3>1, SizeFacts, EmptySeq
    <3> QED
      BY <1>a, <3>1, <3>2
  <2> QED
    BY <2>1, <2>2
<1>2. CASE ReadMessage
  <2>1. pipe # <<>> /\ pipe' = Tail(pipe) /\ cl = "read" /\ UNCHANGED index
    BY <1>2 DEF ReadMessage
  <2>2. /\ Head(pipe) = pipe[1] /\ Head(pipe) \in Message
        /\ \A k \in 1 .. Len(pipe) : k # 1 => k - 1 \in 1 .. Len(pipe') /\ pipe'[k - 1] = pipe[k]
    BY <1>0, <2>1, Reading
  <2>3. index \in Piece /\ Size(index) \in Nat /\ 0 < Size(index)
    BY <1>0, SizeFacts DEF DataTypes
  <2>4. ASSUME ~choked, UNCHANGED <<data, reqs>>, Head(pipe).type # "choke",
               ~(Head(pipe).type = "piece" /\ Wanted(Head(pipe)))
        PROVE  Goal
    <3>1. CASE Asked
      BY <2>1, <2>4, <3>1 DEF Asked
    <3>2. CASE Coming
      <4>1. PICK k \in 1 .. Len(pipe) : pipe[k].type = "piece" /\ Wanted(pipe[k])
        BY <3>2 DEF Coming
      <4>2. k - 1 \in 1 .. Len(pipe') /\ pipe'[k - 1] = pipe[k]
        BY <2>2, <2>4, <4>1
      <4> QED
        BY <2>1, <2>4, <4>1, <4>2 DEF Coming, Wanted
    <3>3. CASE Ending
      <4>1. PICK k \in 1 .. Len(pipe) : pipe[k].type = "choke"
        BY <3>3 DEF Ending
      <4>2. k - 1 \in 1 .. Len(pipe') /\ pipe'[k - 1] = pipe[k]
        BY <2>2, <2>4, <4>1
      <4> QED
        BY <4>1, <4>2 DEF Ending
    <3> QED
      BY <2>1, <2>4, <3>1, <3>2, <3>3 DEF Owed
  <2>5. ASSUME Head(pipe).type = "unchoke", Unchoked PROVE Goal
    <3>1. CASE data = <<>>
      <4>1. Len(data') = 0 /\ reqs' = Append(reqs, Request(index, 0)) /\ UNCHANGED index
        BY <2>1, <2>5, <3>1, EmptySeq DEF Unchoked
      <4> QED
        BY <1>a, <2>3, <4>1
    <3>2. CASE data # <<>>
      <4>1. ~choked /\ UNCHANGED <<data, reqs>>
        BY <2>1, <2>5, <3>2 DEF Unchoked, WaitsChoked
      <4> QED
        BY <2>4, <2>5, <4>1
    <3> QED
      BY <3>1, <3>2
  <2>6. ASSUME Head(pipe).type = "piece", GotBlock(Head(pipe)) PROVE Goal
    <3> DEFINE new == data \o Head(pipe).bytes
    <3>1. Len(new) \in Nat
      BY <1>0, <2>2, <2>6, MessageFacts, NewData
    <3>2. /\ Len(new) < Size(index) /\ data' = new
          /\ reqs' = Append(reqs, Request(index, Len(new)))
      BY <2>6 DEF GotBlock, GiveUp
    <3> HIDE DEF new
    <3> QED
      BY <1>a, <2>1, <2>3, <3>1, <3>2
  <2>7. ASSUME Skip, Head(pipe).type # "choke", ~(Head(pipe).type = "piece" /\ Wanted(Head(pipe)))
        PROVE  Goal
    <3>1. CASE choked
      BY <2>7, <3>1 DEF Skip
    <3>2. CASE ~choked
      BY <2>4, <2>7, <3>2 DEF Skip
    <3> QED
      BY <3>1, <3>2
  <2> QED
    BY <1>2, <2>5, <2>6, <2>7 DEF ReadMessage, Choked, GiveUp
<1>3. CASE PeerStep
  <2>1. UNCHANGED <<cl, choked, data, index>> /\ (Dropped \/ \E m \in Message : Said(m))
    BY <1>3, PeerActs
  <2>2. CASE choked
    BY <2>1, <2>2
  <2>3. CASE ~choked /\ Dropped
    <3>1. PICK k \in 1 .. Len(pipe) : Ctl(pipe[k]) /\ ((pipe[k].type = "choke") <=> choking)
      BY <2>1, <2>3, UnderWay DEF Dropped
    <3> QED
      BY <2>3, <3>1 DEF Dropped, Ending
  <2>4. ASSUME ~choked, NEW m \in Message, Said(m) PROVE Goal
    <3>1. /\ Len(pipe) \in Nat /\ pipe'[Len(pipe) + 1] = m
          /\ \A k \in 1 .. Len(pipe) : pipe'[k] = pipe[k]
          /\ 1 .. Len(pipe') = (1 .. Len(pipe)) \cup {Len(pipe) + 1}
      BY <1>0, <2>4, Sending DEF Said
    <3>2. CASE Coming
      BY <2>1, <3>1, <3>2 DEF Coming, Wanted
    <3>3. CASE Ending \/ m.type = "choke"
      BY <3>1, <3>3 DEF Ending
    <3>4. CASE Asked /\ UNCHANGED reqs
      BY <2>1, <3>4 DEF Asked
    <3>5. CASE Asked /\ reqs # <<>> /\ m = Block(Head(reqs)) /\ reqs' = Tail(reqs)
      <4>1. PICK k \in 1 .. Len(reqs) : reqs[k].index = index /\ reqs[k].begin = Len(data)
        BY <3>5 DEF Asked
      <4>2. /\ Head(reqs) = reqs[1] /\ Head(reqs) \in Req
            /\ k # 1 => k - 1 \in 1 .. Len(reqs') /\ reqs'[k - 1] = reqs[k]
        BY <1>0, <3>5, Reading
      <4>3. CASE k = 1
        <5>1. m.type = "piece" /\ m.index = index /\ m.begin = Len(data)
          BY <3>5, <4>1, <4>2, <4>3, Answers
        <5> QED
          BY <2>1, <3>1, <5>1 DEF Coming, Wanted
      <4>4. CASE k # 1
        BY <2>1, <4>1, <4>2, <4>4 DEF Asked
      <4> QED
        BY <4>3, <4>4
    <3> QED
      BY <2>1, <2>4, <3>2, <3>3, <3>4, <3>5 DEF Owed, Said
  <2> QED
    BY <2>1, <2>2, <2>3, <2>4
<1>4. CASE UNCHANGED vars
  BY <1>4 DEF vars, Owed, Asked, Coming, Ending, Wanted
<1>5. ~(Handshake \/ readExtendedHandshake \/ ConnFails)
  BY DEF Handshake, readExtendedHandshake, SkipMessage, ConnFails
<1> QED
  BY <1>1, <1>2, <1>3, <1>4, <1>5, Steps

-----------------------------------------------------------------------------
(* Correct data *)

(* What a wanted block of an honest peer makes of the buffer. *)
LEMMA Extends ==
    ASSUME DataTypes, NEW r \in Req, NEW m, m = Block(r), Wanted(m),
           \A k \in 1 .. Len(data) : data[k] = index * PieceLength + k
    PROVE  /\ Len(data \o m.bytes) \in Nat /\ Len(data \o m.bytes) <= Size(index)
           /\ \A k \in 1 .. Len(data \o m.bytes) :
                (data \o m.bytes)[k] = index * PieceLength + k
           /\ Len(data \o m.bytes) >= Size(index) => data \o m.bytes = Expected(index)
<1> DEFINE new == data \o m.bytes
           s == index * PieceLength
<1>1. /\ m \in BlockMsg /\ r.index = index /\ r.begin = Len(data)
      /\ Len(m.bytes) = r.length
      /\ \A k \in 1 .. r.length : m.bytes[k] = s + Len(data) + k
  BY Answers DEF Wanted
<1>2. /\ index \in Piece /\ r.length \in Nat /\ Len(data) + r.length <= Size(index)
      /\ Size(index) \in Nat /\ s \in Nat
  BY <1>1, Asking, SizeFacts
<1>3. /\ new \in Seq(0 .. TotalSize) /\ Len(data) \in Nat /\ Len(new) = Len(data) + r.length
      /\ \A k \in 1 .. Len(data) + r.length :
           new[k] = IF k <= Len(data) THEN data[k] ELSE m.bytes[k - Len(data)]
  BY <1>1, NewData
<1>4. \A k \in 1 .. Len(data) : data[k] = s + k
  OBVIOUS
<1> HIDE DEF new, s
<1>5. Len(new) \in Nat /\ Len(new) <= Size(index)
  BY <1>2, <1>3
<1>6. ASSUME NEW k \in 1 .. Len(new) PROVE new[k] = s + k
  <2>1. CASE k <= Len(data)
    BY <1>2, <1>3, <1>4, <2>1
  <2>2. CASE ~(k <= Len(data))
    <3>1. k - Len(data) \in 1 .. r.length
      BY <1>2, <1>3, <2>2
    <3>2. new[k] = m.bytes[k - Len(data)]
      BY <1>2, <1>3, <2>2
    <3>3. new[k] = s + Len(data) + (k - Len(data))
      BY <1>1, <3>1, <3>2
    <3> QED
      BY <1>2, <1>3, <3>3
  <2> QED
    BY <2>1, <2>2
<1>7. ASSUME Len(new) >= Size(index) PROVE new = Expected(index)
  <2>1. Len(new) = Size(index)
    BY <1>2, <1>5, <1>7
  <2>2. Expected(index) = [k \in 1 .. Size(index) |-> s + 0 + k]
    BY DEF Expected, Bytes, s
  <2>3. new = [k \in 1 .. Len(new) |-> new[k]]
    BY <1>3, LenProperties
  <2>4. \A k \in 1 .. Size(index) : new[k] = s + 0 + k
    BY <1>2, <1>6, <2>1
  <2> QED
    BY <2>1, <2>2, <2>3, <2>4
<1> QED
  BY <1>5, <1>6, <1>7 DEF new, s

LEMMA ExactStep == WTypes /\ Exact /\ [Next]_vars => Exact'
<1> SUFFICES ASSUME WTypes, Exact, [Next]_vars, honest' PROVE Exact'
  BY DEF Exact
<1> USE DEF clientVars, pexVars, peerVars, peerKind
<1> DEFINE Blocks(q) == \A k \in 1 .. Len(q) : q[k].type = "piece" => \E r \in Req : q[k] = Block(r)
           Prefix(d, i) == \A k \in 1 .. Len(d) : d[k] = i * PieceLength + k
           Blame(v) == v \in {"large", "hash"}
<1>0. pipe \in Seq(Message) /\ reqs \in Seq(Req) /\ DataTypes
  BY DEF WTypes, StreamTypes
<1>1. honest
  <2>1. UNCHANGED peerKind
    <3>1. CASE PeerStep
      BY <3>1, PeerActs
    <3>2. CASE ~PeerStep
      BY <3>2, Steps DEF Handshake, readExtendedHandshake, StartPiece, ReadMessage, ConnFails,
         vars
    <3> QED
      BY <3>1, <3>2
  <2> QED
    BY <2>1
<1>2. Blocks(pipe) /\ Prefix(data, index) /\ ~Blame(verdict)
  BY <1>1 DEF Exact
<1>3. SUFFICES Blocks(pipe') /\ Prefix(data', index') /\ ~Blame(verdict')
  BY DEF Exact
<1>4. ASSUME pipe # <<>>, pipe' = Tail(pipe) PROVE Blocks(pipe')
  <2>1. \A k \in 1 .. Len(pipe') : k + 1 \in 1 .. Len(pipe) /\ pipe'[k] = pipe[k + 1]
    BY <1>0, <1>4, Reading
  <2> QED
    BY <1>2, <2>1
<1>5. CASE readExtendedHandshake
  BY <1>2, <1>4, <1>5 DEF readExtendedHandshake
<1>6. ASSUME NEW i \in Piece, StartPiece(i)
      PROVE  Blocks(pipe') /\ Prefix(data', index') /\ ~Blame(verdict')
  <2>1. UNCHANGED <<pipe, verdict>> /\ Len(data') = 0
    BY <1>6, EmptySeq DEF StartPiece
  <2> QED
    BY <1>2, <2>1
<1>7. CASE ReadMessage
  <2>1. pipe # <<>> /\ pipe' = Tail(pipe) /\ UNCHANGED index
    BY <1>7 DEF ReadMessage
  <2>2. Blocks(pipe')
    BY <1>4, <2>1
  <2>3. Head(pipe) = pipe[1] /\ 1 \in 1 .. Len(pipe)
    BY <1>0, <2>1, Reading
  <2>4. CASE UNCHANGED data /\ (UNCHANGED verdict \/ verdict' = "choked")
    BY <1>2, <2>1, <2>2, <2>4
  <2>5. ASSUME Head(pipe).type = "piece", GotBlock(Head(pipe))
        PROVE  Prefix(data', index) /\ ~Blame(verdict')
    <3> DEFINE m == Head(pipe)
               new == data \o m.bytes
    <3>1. PICK r \in Req : m = Block(r)
      BY <1>2, <2>3, <2>5
    <3>2. Wanted(m)
      BY <2>5 DEF GotBlock
    <3>3. /\ Len(new) \in Nat /\ Len(new) <= Size(index) /\ Prefix(new, index)
          /\ Len(new) >= Size(index) => new = Expected(index)
      BY <1>0, <1>2, <3>1, <3>2, Extends
    <3>4. data' = new /\ UNCHANGED verdict
      BY <2>5, <3>3 DEF GotBlock, Fits
    <3> HIDE DEF new
    <3> QED
      BY <1>2, <3>3, <3>4
  <2>6. CASE Unchoked \/ Choked \/ Skip
    BY <2>4, <2>6 DEF Unchoked, Choked, Skip, GiveUp
  <2> QED
    BY <1>7, <2>1, <2>2, <2>5, <2>6 DEF ReadMessage
<1>8. CASE PeerStep
  <2>1. UNCHANGED <<data, index, verdict>> /\ (Dropped \/ \E m \in Message : Said(m))
    BY <1>8, PeerActs
  <2>2. CASE Dropped
    BY <1>2, <2>1, <2>2 DEF Dropped
  <2>3. ASSUME NEW m \in Message, Said(m) PROVE Blocks(pipe')
    <3>1. /\ pipe'[Len(pipe) + 1] = m
          /\ \A k \in 1 .. Len(pipe) : pipe'[k] = pipe[k]
          /\ 1 .. Len(pipe') = (1 .. Len(pipe)) \cup {Len(pipe) + 1}
      BY <1>0, <2>3, Sending DEF Said
    <3>2. m.type = "piece" => reqs # <<>> /\ m = Block(Head(reqs))
      BY <1>1, <2>3 DEF Said
    <3>3. reqs # <<>> => Head(reqs) \in Req
      BY <1>0, Reading
    <3> QED
      BY <1>2, <3>1, <3>2, <3>3
  <2> QED
    BY <1>2, <2>1, <2>2, <2>3
<1>9. CASE Handshake \/ ConnFails \/ UNCHANGED vars
  BY <1>2, <1>9 DEF Handshake, ConnFails, vars
<1> QED
  BY <1>5, <1>6, <1>7, <1>8, <1>9, Steps

-----------------------------------------------------------------------------
(* The invariant *)

LEMMA InitIInv == Init => IInv
<1> SUFFICES ASSUME Init PROVE IInv
  OBVIOUS
<1>1. WTypes
  BY InitTypes
<1>2. pipe = <<>> /\ Len(pipe) = 0 /\ reqs = <<>> /\ data = <<>> /\ Len(data) = 0
      /\ cl = "hello" /\ choked = TRUE /\ choking = TRUE /\ verdict = "none"
  BY EmptySeq DEF Init
<1>3. ChokeKnown
  BY <1>2 DEF ChokeKnown, Tells, NoCtl, Last
<1>4. Greeting /\ WaitsChoked /\ Owed /\ Exact
  BY <1>2 DEF Greeting, WaitsChoked, Owed, Exact
<1>5. PexKept
  BY DEF Init, PexKept
<1> QED
  BY <1>1, <1>3, <1>4, <1>5 DEF IInv

LEMMA IInvStep == IInv /\ [Next]_vars => IInv'
<1> SUFFICES ASSUME IInv, [Next]_vars PROVE IInv'
  OBVIOUS
<1>1. WTypes /\ ChokeKnown /\ Greeting /\ WaitsChoked /\ Owed /\ Exact /\ PexKept
  BY DEF IInv
<1>2. StreamTypes' /\ DataTypes' /\ ControlTypes' /\ CountTypes'
  BY <1>1, StreamStep, DataStep, ControlStep, CountStep
<1>3. PexTypes' /\ PexKept'
  BY <1>1, PexStep
<1>4. ChokeKnown' /\ Greeting'
  BY <1>1, ChokeStep, GreetingStep
<1>5. WaitsChoked' /\ Owed' /\ Exact'
  BY <1>1, WaitsStep, OwedStep, ExactStep
<1> QED
  BY <1>2, <1>3, <1>4, <1>5 DEF IInv, WTypes

(* The invariant of a connection that downloads pieces. *)
THEOREM IInvariance == Spec => []IInv
  BY InitIInv, IInvStep, PTL DEF Spec

-----------------------------------------------------------------------------
(* What follows *)

LEMMA TypesFollow == IInv => TypeOK
<1> SUFFICES ASSUME IInv PROVE TypeOK
  OBVIOUS
<1>1. StreamTypes /\ DataTypes /\ ControlTypes /\ CountTypes /\ PexTypes
  BY DEF IInv, WTypes
<1>2. /\ use \in {"pieces", "info"}
      /\ cl \in {"hello", "exthello", "idle", "read", "meta", "closed"}
      /\ verdict \in {"none", "choked", "large", "hash"}
  BY <1>1 DEF ControlTypes
<1>3. /\ choked \in BOOLEAN /\ choking \in BOOLEAN /\ extSent \in BOOLEAN
      /\ bep10 \in BOOLEAN /\ honest \in BOOLEAN
  BY <1>1 DEF ControlTypes
<1>4. /\ index \in Piece /\ done \subseteq Piece /\ Len(data) <= Size(index)
      /\ \A k \in 1 .. Len(data) : data[k] \in 0 .. TotalSize
  BY <1>1, ElementOfSeq DEF DataTypes
<1>5. ASSUME NEW k \in 1 .. Len(pipe)
      PROVE  \/ pipe[k] \in Control \/ pipe[k].type \in {"pex", "meta"}
             \/ /\ pipe[k].type = "piece"
                /\ pipe[k].index \in Piece /\ pipe[k].begin \in Offset
  <2>1. pipe[k] \in Message
    BY <1>1, ElementOfSeq DEF StreamTypes
  <2> QED
    BY <2>1 DEF Message, BlockMsg, PexMsg
<1>6. ASSUME NEW k \in 1 .. Len(reqs)
      PROVE  \E i \in Piece, n \in Offset : reqs[k] = Request(i, n)
  <2>1. reqs[k] \in Req
    BY <1>1, ElementOfSeq DEF StreamTypes
  <2>2. /\ reqs[k].index \in Piece /\ reqs[k].begin \in Nat
        /\ reqs[k].begin < Size(reqs[k].index)
        /\ reqs[k] = Request(reqs[k].index, reqs[k].begin)
    BY <2>1 DEF Req
  <2>3. /\ Size(reqs[k].index) \in Nat /\ Size(reqs[k].index) <= PieceLength
        /\ PieceLength \in Nat
    BY <2>2, SizeFacts, ConstantsAssumption
  <2>4. reqs[k].begin \in Offset
    BY <2>2, <2>3 DEF Offset
  <2> QED
    BY <2>2, <2>4
<1>7. skipped \in 0 .. SkipLimit /\ noise \in 0 .. MaxNoise
  BY <1>1 DEF CountTypes
<1>8. pexPeers \subseteq PexAddr /\ given \subseteq PexAddr /\ heard \subseteq PexAddr
  BY <1>1 DEF PexTypes
<1> QED
  BY <1>2, <1>3, <1>4, <1>5, <1>6, <1>7, <1>8, Zenon DEF TypeOK

LEMMA ChokeFollows == IInv => ChokeTracked
<1> SUFFICES ASSUME IInv, cl \notin {"meta", "closed"}
             PROVE  IF LastChoke = {} THEN choked = choking
                    ELSE \A k \in LastChoke : (pipe[k].type = "choke") = choking
  BY DEF ChokeTracked
<1>1. Tells(pipe, choked, choking)
  BY DEF IInv, ChokeKnown
<1>2. choked \in BOOLEAN /\ choking \in BOOLEAN
  BY DEF IInv, WTypes, ControlTypes
<1>3. LastChoke = Last(pipe)
  BY DEF LastChoke, Last, Ctl
<1>4. CASE LastChoke = {}
  <2>1. choked <=> choking
    BY <1>1, <1>3, <1>4 DEF Tells
  <2>2. choked = choking
    BY <1>2, <2>1, Zenon
  <2> QED
    BY <1>4, <2>2
<1>5. CASE LastChoke # {}
  <2>1. ASSUME NEW k \in LastChoke PROVE (pipe[k].type = "choke") = choking
    <3>1. (pipe[k].type = "choke") <=> choking
      BY <1>1, <1>3, <2>1 DEF Tells
    <3> QED
      BY <1>2, <3>1, Zenon
  <2> QED
    BY <1>5, <2>1
<1> QED
  BY <1>4, <1>5

LEMMA MoveFollows == IInv => NoStall
<1> SUFFICES ASSUME IInv, cl = "read", pipe = <<>>, reqs = <<>> PROVE choking
  BY DEF NoStall
<1>1. 1 .. Len(pipe) = {} /\ 1 .. Len(reqs) = {}
  BY EmptySeq
<1>2. choked
  BY <1>1 DEF IInv, Owed, Asked, Coming, Ending
<1>3. choked <=> choking
  BY <1>1 DEF IInv, ChokeKnown, Tells, NoCtl
<1> QED
  BY <1>2, <1>3

(* Of any torrent, with any peer, the variables keep the types of the      *)
(* values of peer.go, every request on its way is one of the protocol, and *)
(* pieceData never holds more than its piece.                              *)
THEOREM TypeCorrect == Spec => []TypeOK
  BY TypesFollow, IInvariance, PTL

(* p.PeerChoking is what the peer does, or the last choke or unchoke under *)
(* way says what it does: none that arrives in the handshake, or between   *)
(* two pieces, is lost.                                                    *)
THEOREM ChokingKnown == Spec => []ChokeTracked
  BY ChokeFollows, IInvariance, PTL

(* downloadPiece never waits for a block that nobody will send: with       *)
(* nothing under way in either direction, it is the peer that has to       *)
(* unchoke.                                                                *)
THEOREM PeerToMove == Spec => []NoStall
  BY MoveFollows, IInvariance, PTL

(* downloadPiece never rejects the data of a peer that serves correct      *)
(* blocks, whatever it repeats and whenever it chokes.                     *)
THEOREM HonestNotBlamed == Spec => []HonestPeerVerifies
<1>1. IInv => HonestPeerVerifies
  BY DEF IInv, Exact, HonestPeerVerifies
<1> QED
  BY <1>1, IInvariance, PTL

(* Every address of a ut_pex message is buffered or given to the swarm,    *)
(* and none stays buffered between pieces.                                 *)
THEOREM AddressesKept == Spec => []PexKept
<1>1. IInv => PexKept
  BY DEF IInv
<1> QED
  BY <1>1, IInvariance, PTL

-----------------------------------------------------------------------------
(* A connection of either kind: the invariant of Metadata *)

(* Messages of the whole protocol. *)
MetaMsg == [type : {"meta"}, payload : Payloads]
AnyMsg  == Message \cup MetaMsg

(* No answer is under way, or one is: in the place k. *)
NoAnswer(q)    == \A k \in 1 .. Len(q) : q[k].type # "meta"
OnlyAnswer(q, k) == /\ k \in 1 .. Len(q) /\ q[k].type = "meta"
                    /\ \A j \in 1 .. Len(q) : q[j].type = "meta" => j = k

MetaTypes == /\ use \in {"pieces", "info"}
             /\ info \in Infos /\ msize \in Nat /\ utMeta \in BOOLEAN
             /\ meta \in Seq(Byte)
             /\ honest => msize = 0 \/ msize = Len(info)

(* Before a fetch, and on a connection for pieces, there is only PeerWire. *)
Before == cl \notin {"meta", "closed"} \/ use = "pieces" =>
            /\ IInv
            /\ asked = <<>> /\ odd = <<>> /\ meta = <<>> /\ outcome = "none"

(* What PeerWire's variables keep once the fetch has begun. *)
InfoConn == use = "info" =>
    /\ reqs = <<>> /\ cl # "read" /\ verdict = "none"
    /\ pipe \in Seq(AnyMsg) /\ DataTypes /\ CountTypes /\ PexTypes
    /\ choked \in BOOLEAN /\ choking \in BOOLEAN /\ extSent \in BOOLEAN
    /\ bep10 \in BOOLEAN /\ honest \in BOOLEAN
    /\ cl \in {"hello", "exthello", "idle", "meta", "closed"}

(* The client waits for exactly one answer: the peer has to give it, is    *)
(* about to give an odd one, or it is on its way.                          *)
Asks    == asked = <<NextPiece>> /\ odd = <<>> /\ NoAnswer(pipe)
Plans   == asked = <<>> /\ odd \in OddHalves /\ ~honest /\ NoAnswer(pipe)
Arrives == /\ asked = <<>> /\ odd = <<>>
           /\ \E k \in 1 .. Len(pipe) :
                /\ OnlyAnswer(pipe, k)
                /\ honest => pipe[k].payload = RightAnswer(info, NextPiece)

(* The pieces so far are full ones, and right if the peer is honest. *)
Fetching == cl = "meta" =>
    /\ use = "info" /\ outcome = "none" /\ msize \in 1 .. MaxInfo
    /\ Asks \/ Plans \/ Arrives
    /\ Len(meta) < msize /\ \E i \in Nat : Len(meta) = i * InfoPiece
    /\ honest => msize = Len(info) /\ meta = SubSeq(info, 1, Len(meta))

MInv == MetaTypes /\ Before /\ InfoConn /\ Fetching /\ InfoExact

-----------------------------------------------------------------------------
(* The bytes of the dictionary and of the answers *)

LEMMA Pieces ==
    ASSUME NEW i \in Nat, NEW p \in Nat \ {0}
    PROVE  /\ i * p \in Nat /\ (i + 1) * p \in Nat /\ (i + 1) * p = i * p + p
           /\ i <= i * p
           /\ (i * p) \div p = i
<1>1. i * p \in Nat /\ (i + 1) * p = i * p + p /\ i <= i * p
  OBVIOUS
<1>2. PICK q : q = (i * p) \div p
  OBVIOUS
<1>3. q \in Nat /\ q * p <= i * p /\ i * p < q * p + p
  BY <1>1, <1>2
<1>4. ~(q < i)
  <2> SUFFICES ASSUME q < i PROVE FALSE
    OBVIOUS
  <2>1. q * p <= i * p - p
    BY <1>3
  <2> QED
    BY <1>1, <1>3, <2>1
<1>5. ~(i < q)
  <2> SUFFICES ASSUME i < q PROVE FALSE
    OBVIOUS
  <2>1. i * p <= q * p - p
    BY <1>3
  <2> QED
    BY <1>1, <1>3, <2>1
<1> QED
  BY <1>1, <1>2, <1>3, <1>4, <1>5

LEMMA ChunkFacts ==
    ASSUME NEW d \in Seq(Byte), NEW i \in Nat
    PROVE  /\ Chunk(d, i) \in Seq(Byte)
           /\ i * InfoPiece < Len(d) =>
                /\ Len(Chunk(d, i)) = Least(InfoPiece, Len(d) - i * InfoPiece)
                /\ SubSeq(d, 1, i * InfoPiece) \o Chunk(d, i)
                     = SubSeq(d, 1, i * InfoPiece + Len(Chunk(d, i)))
<1>1. PICK p, a, n, e : /\ p = InfoPiece /\ a = i * p /\ n = Len(d)
                        /\ e = Least(n, (i + 1) * p)
  OBVIOUS
<1>2. p \in Nat \ {0} /\ n \in Nat
  BY <1>1, MetadataAssumption, LenProperties
<1>3. a \in Nat /\ (i + 1) * p = a + p
  BY <1>1, <1>2, Pieces
<1>4. e = (IF n < a + p THEN n ELSE a + p) /\ e \in Nat /\ e <= n
  BY <1>1, <1>2, <1>3 DEF Least
<1>5. Chunk(d, i) = SubSeq(d, a + 1, e)
  BY <1>1, Zenon DEF Chunk
<1>6. \A k \in a + 1 .. e : d[k] \in Byte
  <2> TAKE k \in a + 1 .. e
  <2>1. k \in 1 .. Len(d)
    BY <1>1, <1>2, <1>3, <1>4
  <2> QED
    BY <2>1, ElementOfSeq
<1>7. /\ SubSeq(d, a + 1, e) \in Seq(Byte)
      /\ Len(SubSeq(d, a + 1, e)) = IF a + 1 <= e THEN e - (a + 1) + 1 ELSE 0
  <2>1. a + 1 \in Int /\ e \in Int
    BY <1>3, <1>4
  <2> QED
    BY <1>6, <2>1, SubSeqProperties
<1>8. ASSUME a < n
      PROVE  /\ Len(SubSeq(d, a + 1, e)) = Least(p, n - a)
             /\ SubSeq(d, 1, a) \o SubSeq(d, a + 1, e)
                  = SubSeq(d, 1, a + Len(SubSeq(d, a + 1, e)))
  <2>1. Len(SubSeq(d, a + 1, e)) = e - a /\ e - a = Least(p, n - a) /\ a <= e
    BY <1>2, <1>3, <1>4, <1>7, <1>8 DEF Least
  <2>2. a + (e - a) = e
    BY <1>3, <1>4
  <2>3. SubSeq(d, 1, a) \o SubSeq(d, a + 1, e) = SubSeq(d, 1, e)
    <3>1. 1 \in 1 .. Len(d) + 1 /\ a \in 1 - 1 .. Len(d) /\ e \in a .. Len(d)
      BY <1>1, <1>2, <1>3, <1>4, <1>8, <2>1
    <3> QED
      BY <3>1, ConcatAdjacentSubSeq
  <2> QED
    BY <2>1, <2>2, <2>3
<1> QED
  BY <1>1, <1>5, <1>7, <1>8, Zenon

LEMMA PayloadKinds ==
    \A b : b \in Payloads <=> \/ b \in OddAnswers
                             \/ \E d \in Infos : \E i \in 0 .. MaxInfo : b \in AnswersTo(d, i)
<1> SUFFICES ASSUME NEW b
             PROVE  b \in Payloads <=>
                      \/ b \in OddAnswers
                      \/ \E d \in Infos : \E i \in 0 .. MaxInfo : b \in AnswersTo(d, i)
  OBVIOUS
<1> DEFINE All(d) == UNION {AnswersTo(d, i) : i \in 0 .. MaxInfo}
<1>1. \A d : b \in All(d) <=> \E i \in 0 .. MaxInfo : b \in AnswersTo(d, i)
  OBVIOUS
<1>2. Payloads = OddAnswers \cup UNION {All(d) : d \in Infos}
  BY DEF Payloads
<1> HIDE DEF All
<1>3. b \in UNION {All(d) : d \in Infos} <=> \E d \in Infos : b \in All(d)
  OBVIOUS
<1> QED
  BY <1>1, <1>2, <1>3

(* Everything a peer sends for an answer is a sequence of bytes. *)
LEMMA PayloadBytes == Payloads \subseteq Seq(Byte)
<1> SUFFICES ASSUME NEW b \in Payloads PROVE b \in Seq(Byte)
  OBVIOUS
<1>1. CASE b \in OddAnswers
  <2>1. PICK x, y \in OddHalves : b = x \o y
    BY <1>1 DEF OddAnswers
  <2>2. x \in Seq(Byte) /\ y \in Seq(Byte)
    BY <2>1, MetadataAssumption
  <2> QED
    BY <2>1, <2>2, ConcatProperties
<1>2. CASE b \notin OddAnswers
  <2>1. PICK d \in Infos, i \in 0 .. MaxInfo : b = RightAnswer(d, i) \/ b \in WrongAnswers(d, i)
    BY <1>2, PayloadKinds DEF AnswersTo
  <2>2. d \in Seq(Byte) /\ i \in Nat /\ i + 1 \in Nat
        /\ i \in 0 .. MaxInfo + 1 /\ i + 1 \in 0 .. MaxInfo + 1
    BY MetadataAssumption
  <2>3. PICK c : c = Chunk(d, i)
    OBVIOUS
  <2>4. c \in Seq(Byte)
    BY <2>2, <2>3, ChunkFacts
  <2>5. 0 \in 0 .. 2 /\ 1 \in 0 .. 2 /\ 2 \in 0 .. 2
    OBVIOUS
  <2>6. /\ Header(0, i) \in Seq(Byte) /\ Header(1, i) \in Seq(Byte)
        /\ Header(2, i) \in Seq(Byte) /\ Header(1, i + 1) \in Seq(Byte)
    BY <2>2, <2>5, HeaderAssumption, Zenon
  <2>7. PICK x : x = [k \in 1 .. Len(c) |-> "x"]
    OBVIOUS
  <2>8. x \in Seq(Byte)
    <3>1. x \in [1 .. Len(c) -> Byte] /\ Len(c) \in Nat
      BY <2>4, <2>7, LenProperties, MetadataAssumption
    <3> QED
      BY <3>1, SeqDef
  <2>9. <<"e">> \in Seq(Byte)
    BY MetadataAssumption
  <2>10. /\ Header(0, i) \o c \in Seq(Byte) /\ Header(1, i) \o c \in Seq(Byte)
         /\ Header(1, i + 1) \o c \in Seq(Byte) /\ Header(1, i) \o x \in Seq(Byte)
    BY <2>4, <2>6, <2>8, ConcatProperties
  <2>11. (Header(1, i) \o c) \o <<"e">> \in Seq(Byte)
    BY <2>9, <2>10, ConcatProperties
  <2>12. CASE b = RightAnswer(d, i)
    BY <2>3, <2>10, <2>12 DEF RightAnswer
  <2>13. CASE b \in WrongAnswers(d, i)
    <3>1. \/ b = Header(2, i) \/ b = Header(0, i) \o c \/ b = Header(1, i + 1) \o c
          \/ b = (Header(1, i) \o c) \o <<"e">> \/ b = Header(1, i)
          \/ b = Header(1, i) \o x
      BY <2>3, <2>7, <2>13, Zenon DEF WrongAnswers
    <3> QED
      BY <2>6, <2>10, <2>11, <3>1, Zenon
  <2> QED
    BY <2>1, <2>12, <2>13
<1> QED
  BY <1>1, <1>2

LEMMA RestBytes ==
    ASSUME NEW b \in Payloads, ReadHeader(b).ok
    PROVE  Rest(b) \in Seq(Byte) /\ Len(Rest(b)) \in Nat
<1>1. PICK h : h = ReadHeader(b).rest
  OBVIOUS
<1>2. h \in 1 .. Len(b) + 1
  BY <1>1, HeaderAssumption
<1>3. b \in Seq(Byte) /\ Len(b) \in Nat
  BY PayloadBytes, LenProperties
<1>4. \A k \in h .. Len(b) : b[k] \in Byte
  <2> TAKE k \in h .. Len(b)
  <2>1. k \in 1 .. Len(b)
    BY <1>2, <1>3
  <2> QED
    BY <1>3, <2>1, ElementOfSeq
<1>5. h \in Int /\ Len(b) \in Int
  BY <1>2, <1>3
<1>6. SubSeq(b, h, Len(b)) \in Seq(Byte)
  BY <1>4, <1>5, SubSeqProperties
<1>7. Rest(b) \in Seq(Byte)
  BY <1>1, <1>6, Zenon DEF Rest
<1> QED
  BY <1>7, LenProperties

(* A right answer is cut where its piece begins. *)
LEMMA RightRest ==
    ASSUME NEW d \in Infos, NEW i \in 0 .. MaxInfo
    PROVE  /\ RightAnswer(d, i) \in Payloads
           /\ ReadHeader(RightAnswer(d, i)).ok /\ ReadHeader(RightAnswer(d, i)).type = 1
           /\ ReadHeader(RightAnswer(d, i)).piece = i
           /\ Rest(RightAnswer(d, i)) = Chunk(d, i)
<1>0. RightAnswer(d, i) \in Payloads
  BY PayloadKinds DEF AnswersTo
<1>1. PICK h, c, b, r : /\ h = Header(1, i) /\ c = Chunk(d, i) /\ b = RightAnswer(d, i)
                        /\ r = ReadHeader(b)
  OBVIOUS
<1>2. r = [ok |-> TRUE, rest |-> Len(h) + 1, type |-> 1, piece |-> i]
  BY <1>1, HeaderAssumption, Zenon
<1>3. r.ok /\ r.rest = Len(h) + 1 /\ r.type = 1 /\ r.piece = i
  BY <1>2
<1>4. i \in Nat /\ i \in 0 .. MaxInfo + 1 /\ 1 \in 0 .. 2
  BY MetadataAssumption
<1>5. h \in Seq(Byte) /\ c \in Seq(Byte)
  <2>1. h \in Seq(Byte)
    BY <1>1, <1>4, HeaderAssumption, Zenon
  <2>2. c \in Seq(Byte)
    BY <1>1, <1>4, ChunkFacts, MetadataAssumption
  <2> QED
    BY <2>1, <2>2
<1>6. /\ Len(h) \in Nat /\ Len(c) \in Nat /\ Len(h \o c) = Len(h) + Len(c)
      /\ h \o c \in Seq(Byte)
  BY <1>5, LenProperties, ConcatProperties
<1>7. b = h \o c
  BY <1>1, Zenon DEF RightAnswer
<1>8. SubSeq(h \o c, Len(h) + 1, Len(h) + Len(c)) = c
  <2>1. CASE Len(c) = 0
    <3>1. c = <<>>
      BY <1>5, <2>1, EmptySeq
    <3>2. Len(h) + 1 \in Int /\ Len(h) + Len(c) \in Int /\ Len(h) + Len(c) < Len(h) + 1
      BY <1>6, <2>1
    <3> QED
      BY <3>1, <3>2, SubSeqEmpty
  <2>2. CASE Len(c) # 0
    <3>1. /\ Len(h) + 1 \in Len(h) + 1 .. Len(h) + Len(c)
          /\ Len(h) + Len(c) \in Len(h) + 1 .. Len(h) + Len(c)
          /\ (Len(h) + 1) - Len(h) = 1 /\ (Len(h) + Len(c)) - Len(h) = Len(c)
      BY <1>6, <2>2
    <3>2. SubSeq(h \o c, Len(h) + 1, Len(h) + Len(c))
            = SubSeq(c, (Len(h) + 1) - Len(h), (Len(h) + Len(c)) - Len(h))
      BY <1>5, <3>1, SubSeqOfConcat2
    <3>3. SubSeq(c, 1, Len(c)) = c
      BY <1>5, SubSeqFull
    <3> QED
      BY <3>1, <3>2, <3>3
  <2> QED
    BY <2>1, <2>2
<1>9. Rest(b) = SubSeq(b, r.rest, Len(b))
  BY <1>1, Zenon DEF Rest
<1>10. Rest(b) = c
  BY <1>3, <1>6, <1>7, <1>8, <1>9
<1> QED
  BY <1>0, <1>1, <1>3, <1>10, Zenon


-----------------------------------------------------------------------------
(* Streams with answers *)

LEMMA NoMetaMessage == \A m \in Message : m.type # "meta"
  BY DEF Message, Control, BlockMsg, PexMsg

LEMMA SayOther ==
    ASSUME NEW q \in Seq(AnyMsg), NEW m \in Message
    PROVE  /\ Append(q, m) \in Seq(AnyMsg)
           /\ NoAnswer(q) => NoAnswer(Append(q, m))
           /\ \A k : OnlyAnswer(q, k) =>
                OnlyAnswer(Append(q, m), k) /\ k \in 1 .. Len(Append(q, m))
                  /\ Append(q, m)[k] = q[k]
<1> DEFINE t == Append(q, m)
<1>1. m \in AnyMsg /\ m.type # "meta"
  BY NoMetaMessage DEF AnyMsg
<1>2. /\ t \in Seq(AnyMsg) /\ Len(q) \in Nat /\ t[Len(q) + 1] = m
      /\ \A i \in 1 .. Len(q) : t[i] = q[i]
      /\ 1 .. Len(t) = (1 .. Len(q)) \cup {Len(q) + 1}
  BY <1>1, Sending
<1> HIDE DEF t
<1>3. NoAnswer(q) => NoAnswer(t)
  BY <1>1, <1>2 DEF NoAnswer
<1>4. ASSUME NEW k, OnlyAnswer(q, k)
      PROVE  OnlyAnswer(t, k) /\ k \in 1 .. Len(t) /\ t[k] = q[k]
  BY <1>1, <1>2, <1>4 DEF OnlyAnswer
<1> QED
  BY <1>2, <1>3, <1>4 DEF t

LEMMA SayAnswer ==
    ASSUME NEW q \in Seq(AnyMsg), NoAnswer(q), NEW b \in Payloads
    PROVE  LET t == Append(q, [type |-> "meta", payload |-> b])
           IN /\ t \in Seq(AnyMsg)
              /\ \E k \in 1 .. Len(t) : OnlyAnswer(t, k) /\ t[k].payload = b
<1> DEFINE m == [type |-> "meta", payload |-> b]
           t == Append(q, m)
<1>1. m \in AnyMsg /\ m.type = "meta" /\ m.payload = b
  BY DEF AnyMsg, MetaMsg
<1> HIDE DEF m
<1>2. /\ t \in Seq(AnyMsg) /\ Len(q) \in Nat /\ t[Len(q) + 1] = m
      /\ \A i \in 1 .. Len(q) : t[i] = q[i]
      /\ 1 .. Len(t) = (1 .. Len(q)) \cup {Len(q) + 1}
  BY <1>1, Sending
<1> HIDE DEF t
<1>3. OnlyAnswer(t, Len(q) + 1) /\ Len(q) + 1 \in 1 .. Len(t) /\ t[Len(q) + 1].payload = b
  BY <1>1, <1>2 DEF OnlyAnswer, NoAnswer
<1> QED
  BY <1>2, <1>3 DEF t, m

LEMMA ReadOne ==
    ASSUME NEW q \in Seq(AnyMsg), q # <<>>
    PROVE  /\ Tail(q) \in Seq(AnyMsg) /\ Head(q) \in AnyMsg
           /\ Head(q).type = "meta" => Head(q).payload \in Payloads
           /\ NoAnswer(q) => Head(q).type # "meta" /\ NoAnswer(Tail(q))
           /\ \A k : OnlyAnswer(q, k) =>
                /\ Head(q).type = "meta" => Head(q) = q[k] /\ NoAnswer(Tail(q))
                /\ Head(q).type # "meta" =>
                     \E l \in 1 .. Len(Tail(q)) : OnlyAnswer(Tail(q), l) /\ Tail(q)[l] = q[k]
<1> DEFINE t == Tail(q)
<1>1. /\ Head(q) = q[1] /\ Head(q) \in AnyMsg /\ Len(q) \in Nat /\ 1 \in 1 .. Len(q)
      /\ t \in Seq(AnyMsg) /\ Len(t) = Len(q) - 1
      /\ \A i \in 1 .. Len(t) : i + 1 \in 1 .. Len(q) /\ t[i] = q[i + 1]
      /\ \A i \in 1 .. Len(q) : i # 1 => i - 1 \in 1 .. Len(t) /\ t[i - 1] = q[i]
  BY Reading
<1> HIDE DEF t
<1>2. Head(q).type = "meta" => Head(q).payload \in Payloads
  <2>1. PICK h : h = Head(q)
    OBVIOUS
  <2>2. h \in MetaMsg => h.payload \in Payloads
    BY DEF MetaMsg
  <2>3. h \in Message => h.type # "meta"
    BY NoMetaMessage
  <2>4. h \in MetaMsg \/ h \in Message
    BY <1>1, <2>1 DEF AnyMsg
  <2> QED
    BY <2>1, <2>2, <2>3, <2>4
<1>3. NoAnswer(q) => Head(q).type # "meta" /\ NoAnswer(t)
  BY <1>1 DEF NoAnswer
<1>4. ASSUME NEW k, OnlyAnswer(q, k), Head(q).type = "meta"
      PROVE  Head(q) = q[k] /\ NoAnswer(t)
  <2>1. k = 1
    BY <1>1, <1>4 DEF OnlyAnswer
  <2>2. \A i \in 1 .. Len(t) : i + 1 # 1
    BY <1>1
  <2> QED
    BY <1>1, <1>4, <2>1, <2>2 DEF OnlyAnswer, NoAnswer
<1>5. ASSUME NEW k, OnlyAnswer(q, k), Head(q).type # "meta"
      PROVE  \E l \in 1 .. Len(t) : OnlyAnswer(t, l) /\ t[l] = q[k]
  <2>1. k # 1 /\ k \in 1 .. Len(q)
    BY <1>1, <1>5 DEF OnlyAnswer
  <2>2. k - 1 \in 1 .. Len(t) /\ t[k - 1] = q[k]
    BY <1>1, <2>1
  <2>3. t[k - 1].type = "meta"
    BY <1>5, <2>2 DEF OnlyAnswer
  <2>4. ASSUME NEW j \in 1 .. Len(t), t[j].type = "meta" PROVE j = k - 1
    <3>1. j + 1 = k
      BY <1>1, <1>5, <2>4 DEF OnlyAnswer
    <3> QED
      BY <1>1, <2>1, <3>1
  <2>5. OnlyAnswer(t, k - 1)
    BY <2>2, <2>3, <2>4 DEF OnlyAnswer
  <2> QED
    BY <2>2, <2>5
<1> QED
  BY <1>1, <1>2, <1>3, <1>4, <1>5 DEF t

-----------------------------------------------------------------------------
(* PeerWire under a connection for the dictionary *)

(* Nothing is asked for; once the fetch has begun only the peer moves. *)
LEMMA InfoNext ==
    ASSUME Next, use = "info", reqs = <<>>, cl # "read", CountTypes, choking \in BOOLEAN,
           extSent \in BOOLEAN
    PROVE  /\ UNCHANGED <<peerKind, reqs, verdict>> /\ cl # "closed"
           /\ cl' # "read" /\ (cl' = "meta" <=> cl = "meta")
           /\ cl = "meta" =>
                /\ UNCHANGED <<clientVars, pexVars>> /\ noise' \in 0 .. MaxNoise
                /\ choking' \in BOOLEAN /\ extSent' \in BOOLEAN
                /\ \E m \in Message : pipe' = Append(pipe, m)
<1> USE DEF peerVars, peerKind, clientVars, pexVars
<1>1. CASE Handshake \/ readExtendedHandshake \/ ReadMessage \/ ConnFails
           \/ \E i \in Piece : StartPiece(i)
  <2>1. CASE Handshake
    BY <2>1 DEF Handshake
  <2>2. CASE readExtendedHandshake
    BY <2>2 DEF readExtendedHandshake, SkipMessage
  <2>3. CASE ConnFails
    BY <2>3 DEF ConnFails
  <2> QED
    BY <1>1, <2>1, <2>2, <2>3 DEF ReadMessage, StartPiece
<1>2. CASE PeerStep
  <2> DEFINE Talks == \E m \in Message : pipe' = Append(pipe, m)
  <2>1. /\ UNCHANGED <<clientVars, pexVars, peerKind>> /\ cl # "closed"
        /\ ~(PeerIgnores \/ PeerAnswers \/ PeerRepeats \/ PeerSendsJunk)
    BY <1>2 DEF PeerStep, PeerExtended, PeerUnchokes, PeerUnchokesAgain, PeerChokes, PeerIgnores,
       PeerAnswers, PeerRepeats, PeerChatters, PeerExchanges, PeerSendsJunk, Noise
  <2>2. noise' \in 0 .. MaxNoise
    <3>1. UNCHANGED noise \/ Noise
      BY <1>2, <2>1 DEF PeerStep, PeerExtended, PeerUnchokes, PeerUnchokesAgain, PeerChokes,
         PeerChatters, PeerExchanges
    <3> QED
      BY <3>1, ConstantsAssumption DEF Noise, CountTypes
  <2>3. extSent' \in BOOLEAN /\ choking' \in BOOLEAN
    <3>1. (UNCHANGED extSent \/ extSent' = TRUE)
          /\ (UNCHANGED choking \/ choking' = TRUE \/ choking' = FALSE)
      BY <1>2, <2>1 DEF PeerStep, PeerExtended, PeerUnchokes, PeerUnchokesAgain, PeerChokes,
         PeerChatters, PeerExchanges
    <3> QED
      BY <3>1, Zenon
  <2>4. reqs' = <<>>
    BY <1>2, <2>1 DEF PeerStep, PeerExtended, PeerUnchokes, PeerUnchokesAgain, PeerChokes,
       PeerChatters, PeerExchanges
  <2>5. Talks
    <3>1. /\ Plain("ext") \in Message /\ Plain("unchoke") \in Message
          /\ Plain("choke") \in Message /\ Plain("other") \in Message
      BY PlainType
    <3>2. CASE PeerExchanges
      <4>1. PICK a \in PexAddr : pipe' = Append(pipe, [type |-> "pex", addrs |-> {a}])
        BY <3>2 DEF PeerExchanges, Say
      <4>2. [type |-> "pex", addrs |-> {a}] \in Message
        BY DEF Message, PexMsg
      <4> QED
        BY <4>1, <4>2
    <3>3. CASE ~PeerExchanges
      BY <1>2, <2>1, <3>1, <3>3 DEF PeerStep, PeerExtended, PeerUnchokes, PeerUnchokesAgain,
         PeerChokes, PeerChatters, Say
    <3> QED
      BY <3>2, <3>3
  <2> QED
    BY <2>1, <2>2, <2>3, <2>4, <2>5
<1> QED
  BY <1>1, <1>2, Steps

(* The part of PeerWire stays typed while the dictionary is fetched. *)
LEMMA ConnKept ==
    ASSUME InfoConn, use = "info",
           UNCHANGED <<use, bep10, honest, reqs, verdict, skipped, choked, index, data, done>>,
           cl' \in {"meta", "closed"}, pipe' \in Seq(AnyMsg), PexTypes',
           noise' \in 0 .. MaxNoise, choking' \in BOOLEAN, extSent' \in BOOLEAN
    PROVE  InfoConn'
<1>1. DataTypes'
  BY DEF InfoConn, DataTypes, Size, Piece
<1>2. CountTypes'
  BY DEF InfoConn, CountTypes
<1> QED
  BY <1>1, <1>2 DEF InfoConn

LEMMA PiecePlace ==
    ASSUME MInv, cl = "meta"
    PROVE  /\ NextPiece \in 0 .. MaxInfo /\ Len(meta) = NextPiece * InfoPiece
           /\ Len(meta) \in Nat /\ msize \in Nat /\ msize <= MaxInfo
           /\ Len(meta) < msize /\ InfoPiece \in Nat \ {0} /\ MaxInfo \in Nat
<1>1. PICK i \in Nat : Len(meta) = i * InfoPiece
  BY DEF MInv, Fetching
<1>2. Len(meta) < msize /\ msize \in 1 .. MaxInfo /\ meta \in Seq(Byte)
  BY DEF MInv, Fetching, MetaTypes
<1>3. InfoPiece \in Nat \ {0} /\ MaxInfo \in Nat /\ Len(meta) \in Nat
  BY <1>2, MetadataAssumption, LenProperties
<1>4. NextPiece = i /\ i <= Len(meta)
  BY <1>1, <1>3, Pieces DEF NextPiece
<1> QED
  BY <1>1, <1>2, <1>3, <1>4

(* What is refused, and what an answer that passes brings. *)
LEMMA Accepted ==
    ASSUME MInv, cl = "meta", NEW b \in Payloads
    PROVE  /\ Refusal(b, NextPiece) \in {"header", "rejected", "type", "piece", "length", "none"}
           /\ Refusal(b, NextPiece) = "none" =>
                /\ meta \o Rest(b) \in Seq(Byte)
                /\ Len(meta \o Rest(b)) = Len(meta) + Want(NextPiece)
                /\ Len(meta \o Rest(b)) < msize =>
                     \E i \in Nat : Len(meta \o Rest(b)) = i * InfoPiece
<1>1. Refusal(b, NextPiece) \in {"header", "rejected", "type", "piece", "length", "none"}
  BY DEF Refusal
<1>2. ASSUME Refusal(b, NextPiece) = "none"
      PROVE  /\ meta \o Rest(b) \in Seq(Byte)
             /\ Len(meta \o Rest(b)) = Len(meta) + Want(NextPiece)
             /\ Len(meta \o Rest(b)) < msize =>
                  \E i \in Nat : Len(meta \o Rest(b)) = i * InfoPiece
  <2>1. ReadHeader(b).ok /\ Len(Rest(b)) = Want(NextPiece)
    BY <1>2 DEF Refusal
  <2>2. Rest(b) \in Seq(Byte) /\ meta \in Seq(Byte)
    BY <2>1, RestBytes DEF MInv, MetaTypes
  <2>3. meta \o Rest(b) \in Seq(Byte) /\ Len(meta \o Rest(b)) = Len(meta) + Want(NextPiece)
    BY <2>1, <2>2, ConcatProperties
  <2>4. ASSUME Len(meta \o Rest(b)) < msize
        PROVE  \E i \in Nat : Len(meta \o Rest(b)) = i * InfoPiece
    <3>1. PICK i, a, p, n : /\ i = NextPiece /\ a = Len(meta) /\ p = InfoPiece
                            /\ n = Len(meta \o Rest(b))
      OBVIOUS
    <3>2. i \in Nat /\ a = i * p /\ a \in Nat /\ p \in Nat \ {0} /\ msize \in Nat
      BY <3>1, PiecePlace
    <3>3. n = a + Want(i) /\ n < msize
      BY <2>3, <2>4, <3>1, Zenon
    <3>4. Want(i) = IF p < msize - a THEN p ELSE msize - a
      BY <3>1, <3>2 DEF Want, Least
    <3>5. n = a + p
      BY <3>2, <3>3, <3>4
    <3>6. i + 1 \in Nat /\ n = (i + 1) * p
      BY <3>2, <3>5, Pieces
    <3> QED
      BY <3>1, <3>6
  <2> QED
    BY <2>3, <2>4
<1> QED
  BY <1>1, <1>2

(* The answer of an honest peer passes and carries on the dictionary. *)
LEMMA HonestPasses ==
    ASSUME MInv, cl = "meta", honest
    PROVE  LET b == RightAnswer(info, NextPiece)
               new == meta \o Rest(b)
           IN /\ Refusal(b, NextPiece) = "none"
              /\ new = SubSeq(info, 1, Len(new))
              /\ Len(new) >= msize => new = info
<1>1. PICK i, b, c, a, p : /\ i = NextPiece /\ b = RightAnswer(info, i) /\ c = Chunk(info, i)
                           /\ a = Len(meta) /\ p = InfoPiece
  OBVIOUS
<1>2. /\ info \in Infos /\ msize = Len(info) /\ meta = SubSeq(info, 1, a)
      /\ meta \in Seq(Byte) /\ info \in Seq(Byte)
  BY <1>1, MetadataAssumption DEF MInv, MetaTypes, Fetching
<1>3. i \in 0 .. MaxInfo /\ a = i * p /\ a \in Nat /\ a < msize /\ p \in Nat \ {0} /\ msize \in Nat
      /\ i \in Nat
  BY <1>1, PiecePlace
<1>4. ReadHeader(b).ok /\ ReadHeader(b).type = 1 /\ ReadHeader(b).piece = i /\ Rest(b) = c
  BY <1>1, <1>2, <1>3, RightRest
<1>5. Len(c) = Least(p, msize - a) /\ meta \o c = SubSeq(info, 1, a + Len(c)) /\ c \in Seq(Byte)
  BY <1>1, <1>2, <1>3, ChunkFacts
<1>6. Want(i) = Least(p, msize - a)
  BY <1>1, <1>3, Zenon DEF Want
<1>7. Refusal(b, i) = "none"
  BY <1>4, <1>5, <1>6 DEF Refusal
<1>8. Len(meta \o c) = a + Len(c) /\ Len(c) \in Nat
  BY <1>1, <1>2, <1>5, ConcatProperties, LenProperties
<1>9. ASSUME a + Len(c) >= msize PROVE meta \o c = info
  <2>1. a + Len(c) <= msize
    BY <1>3, <1>5 DEF Least
  <2>2. a + Len(c) = msize
    BY <1>3, <1>8, <1>9, <2>1
  <2>3. SubSeq(info, 1, Len(info)) = info
    BY <1>2, SubSeqFull
  <2> QED
    BY <1>2, <1>5, <2>2, <2>3
<1>10. Rest(b) = c
  BY <1>4
<1>11. /\ Refusal(b, i) = "none" /\ meta \o Rest(b) = SubSeq(info, 1, Len(meta \o Rest(b)))
       /\ Len(meta \o Rest(b)) >= msize => meta \o Rest(b) = info
  BY <1>5, <1>7, <1>8, <1>9, <1>10
<1> QED
  BY <1>1, <1>11, Zenon

LEMMA InitMInv == MInit => MInv
<1> SUFFICES ASSUME MInit PROVE MInv
  OBVIOUS
<1>1. IInv
  BY InitIInv DEF MInit
<1>2. /\ info \in Infos /\ info \in Seq(Byte) /\ Len(info) \in Nat /\ MaxInfo \in Nat
  BY MetadataAssumption, LenProperties DEF MInit
<1>3. MetaTypes
  <2>1. msize \in Nat
    BY <1>2 DEF MInit
  <2>2. utMeta \in BOOLEAN /\ (honest => msize = 0 \/ msize = Len(info))
    BY Zenon DEF MInit
  <2> QED
    BY <1>2, <2>1, <2>2, EmptySeq DEF MInit, Init, MetaTypes
<1>4. Before
  BY <1>1 DEF Before, MInit
<1>5. InfoConn
  <2>1. StreamTypes /\ DataTypes /\ ControlTypes /\ CountTypes /\ PexTypes
    BY <1>1 DEF IInv, WTypes
  <2>2. reqs = <<>> /\ cl = "hello" /\ verdict = "none" /\ pipe = <<>>
    BY DEF MInit, Init
  <2>3. pipe \in Seq(AnyMsg)
    BY <2>2, EmptySeq
  <2> QED
    BY <2>1, <2>2, <2>3 DEF InfoConn, ControlTypes
<1>6. Fetching
  BY DEF Fetching, MInit, Init
<1>7. InfoExact
  BY DEF InfoExact, MInit
<1> QED
  BY <1>3, <1>4, <1>5, <1>6, <1>7 DEF MInv

(* A step of PeerWire. *)
LEMMA KeepsNext ==
    ASSUME MInv, Next, UNCHANGED metaVars
    PROVE  MInv'
<1> USE DEF metaVars, infoKind
<1>0. UNCHANGED <<info, msize, utMeta, odd, asked, meta, mskip, outcome>>
  OBVIOUS
<1>1. MetaTypes /\ Before /\ InfoConn /\ Fetching /\ InfoExact
  BY DEF MInv
<1>2. UNCHANGED peerKind
  <2>1. CASE PeerStep
    BY <2>1 DEF PeerStep, PeerExtended, PeerUnchokes, PeerUnchokesAgain, PeerChokes, PeerIgnores,
       PeerAnswers, PeerRepeats, PeerChatters, PeerExchanges, PeerSendsJunk, peerVars
  <2>2. CASE ~PeerStep
    BY <2>2, Steps DEF Handshake, readExtendedHandshake, ReadMessage, ConnFails, StartPiece, peerVars
  <2> QED
    BY <2>1, <2>2
<1>3. use' = use /\ honest' = honest
  BY <1>2 DEF peerKind
<1>4. MetaTypes' /\ InfoExact'
  BY <1>0, <1>1, <1>3 DEF MetaTypes, InfoExact
<1>5. CASE cl \notin {"meta", "closed"} \/ use = "pieces"
  <2>1. IInv /\ asked = <<>> /\ odd = <<>> /\ meta = <<>> /\ outcome = "none"
    BY <1>1, <1>5 DEF Before
  <2>2. IInv'
    BY <2>1, IInvStep
  <2>3. StreamTypes' /\ DataTypes' /\ ControlTypes' /\ CountTypes' /\ PexTypes'
    BY <2>2 DEF IInv, WTypes
  <2>4. Before'
    BY <1>0, <2>1, <2>2 DEF Before
  <2>5. cl' # "meta"
    BY <2>3 DEF ControlTypes
  <2>6. Fetching'
    BY <2>5 DEF Fetching
  <2>7. InfoConn'
    <3> SUFFICES ASSUME use' = "info" PROVE InfoConn'
      BY DEF InfoConn
    <3>1. use = "info" /\ reqs = <<>> /\ cl # "read" /\ verdict = "none" /\ CountTypes
          /\ choking \in BOOLEAN /\ extSent \in BOOLEAN
      BY <1>1, <1>3 DEF InfoConn
    <3>2. reqs' = <<>> /\ verdict' = "none" /\ cl' # "read"
      BY <3>1, InfoNext
    <3>3. pipe' \in Seq(AnyMsg)
      <4>1. Message \subseteq AnyMsg
        BY DEF AnyMsg
      <4>2. pipe' \in Seq(Message)
        BY <2>3 DEF StreamTypes
      <4> QED
        BY <4>1, <4>2, SeqMonotonic
    <3> QED
      BY <2>3, <3>2, <3>3 DEF InfoConn, ControlTypes
  <2> QED
    BY <1>4, <2>4, <2>6, <2>7 DEF MInv
<1>6. CASE cl \in {"meta", "closed"} /\ use # "pieces"
  <2>1. use = "info"
    BY <1>1, <1>6 DEF MetaTypes
  <2>2. reqs = <<>> /\ cl # "read" /\ verdict = "none" /\ CountTypes /\ pipe \in Seq(AnyMsg)
        /\ choking \in BOOLEAN /\ extSent \in BOOLEAN /\ PexTypes
    BY <1>1, <2>1 DEF InfoConn
  <2>3. /\ UNCHANGED <<peerKind, reqs, verdict>> /\ cl # "closed"
        /\ cl = "meta" =>
                /\ UNCHANGED <<clientVars, pexVars>> /\ noise' \in 0 .. MaxNoise
                /\ choking' \in BOOLEAN /\ extSent' \in BOOLEAN
                /\ \E m \in Message : pipe' = Append(pipe, m)
    BY <2>1, <2>2, InfoNext
  <2>4. cl = "meta" /\ cl' = "meta"
    BY <1>6, <2>3 DEF clientVars
  <2>5. PICK m \in Message : pipe' = Append(pipe, m)
    BY <2>3, <2>4
  <2>6. /\ pipe' \in Seq(AnyMsg)
        /\ NoAnswer(pipe) => NoAnswer(pipe')
        /\ \A k : OnlyAnswer(pipe, k) =>
             OnlyAnswer(pipe', k) /\ k \in 1 .. Len(pipe') /\ pipe'[k] = pipe[k]
    BY <2>2, <2>5, SayOther
  <2>7. InfoConn'
    <3>1. PexTypes'
      BY <2>2, <2>3, <2>4 DEF PexTypes, pexVars
    <3>2. UNCHANGED <<use, bep10, honest, reqs, verdict, skipped, choked, index, data, done>>
      BY <2>3, <2>4 DEF peerKind, clientVars
    <3>3. noise' \in 0 .. MaxNoise /\ choking' \in BOOLEAN /\ extSent' \in BOOLEAN
      BY <2>3, <2>4
    <3> QED
      BY <1>1, <2>1, <2>4, <2>6, <3>1, <3>2, <3>3, ConnKept
  <2>8. Before'
    BY <1>3, <2>1, <2>4 DEF Before
  <2>9. Fetching'
    <3>1. NextPiece' = NextPiece
      BY <1>0 DEF NextPiece
    <3>2. Asks => Asks'
      BY <1>0, <2>6, <3>1 DEF Asks
    <3>3. Plans => Plans'
      BY <1>0, <1>3, <2>6 DEF Plans
    <3>4. Arrives => Arrives'
      <4> SUFFICES ASSUME Arrives PROVE Arrives'
        OBVIOUS
      <4>1. PICK k \in 1 .. Len(pipe) :
              /\ OnlyAnswer(pipe, k)
              /\ honest => pipe[k].payload = RightAnswer(info, NextPiece)
        BY DEF Arrives
      <4>2. OnlyAnswer(pipe', k) /\ k \in 1 .. Len(pipe') /\ pipe'[k] = pipe[k]
        BY <2>6, <4>1
      <4>3. asked' = <<>> /\ odd' = <<>> /\ info' = info
        BY <1>0 DEF Arrives
      <4>4. honest' => pipe'[k].payload = RightAnswer(info, NextPiece)'
        BY <1>3, <3>1, <4>1, <4>2, <4>3 DEF RightAnswer, Chunk, Least
      <4> QED
        BY <4>2, <4>3, <4>4 DEF Arrives
    <3> QED
      BY <1>0, <1>1, <1>3, <2>4, <3>2, <3>3, <3>4 DEF Fetching
  <2> QED
    BY <1>4, <2>7, <2>8, <2>9 DEF MInv
<1> QED
  BY <1>5, <1>6

LEMMA KeepsStartFetch ==
    ASSUME MInv, StartFetch
    PROVE  MInv'
<1> USE DEF infoKind, peerVars, peerKind
<1>0. /\ use = "info" /\ cl = "idle" /\ use' = use /\ honest' = honest
      /\ UNCHANGED <<skipped, choked, index, data, done, verdict, given, heard, pipe, reqs,
                     choking, use, bep10, honest, extSent, noise, info, msize, utMeta, odd,
                     meta, mskip>>
  BY DEF StartFetch
<1>1. MetaTypes /\ Before /\ InfoConn /\ Fetching /\ InfoExact
  BY DEF MInv
<1>2. IInv /\ asked = <<>> /\ odd = <<>> /\ meta = <<>> /\ outcome = "none"
  BY <1>0, <1>1 DEF Before
<1>3. /\ reqs = <<>> /\ verdict = "none" /\ CountTypes /\ pipe \in Seq(AnyMsg)
      /\ choking \in BOOLEAN /\ extSent \in BOOLEAN /\ PexTypes /\ noise \in 0 .. MaxNoise
  BY <1>0, <1>1 DEF InfoConn, CountTypes
<1>4. MetaTypes'
  BY <1>0, <1>1 DEF MetaTypes
<1>5. \/ SizeOk /\ cl' = "meta" /\ asked' = <<0>> /\ UNCHANGED <<outcome, pexPeers>>
      \/ cl' = "closed" /\ outcome' = "refused" /\ pexPeers' = {}
  BY DEF StartFetch, Over
<1>6. InfoConn'
  <2>1. PexTypes'
    BY <1>0, <1>3, <1>5 DEF PexTypes
  <2>2. cl' \in {"meta", "closed"} /\ pipe' \in Seq(AnyMsg)
    BY <1>0, <1>3, <1>5
  <2>3. noise' \in 0 .. MaxNoise /\ choking' \in BOOLEAN /\ extSent' \in BOOLEAN
    BY <1>0, <1>3
  <2> QED
    BY <1>0, <1>1, <2>1, <2>2, <2>3, ConnKept
<1>7. Before'
  BY <1>0, <1>5 DEF Before
<1>8. InfoExact'
  BY <1>0, <1>2, <1>5 DEF InfoExact
<1>9. Fetching'
  <2> SUFFICES ASSUME cl' = "meta" PROVE Fetching'
    BY DEF Fetching
  <2>1. SizeOk /\ asked' = <<0>> /\ outcome' = "none" /\ meta' = <<>>
    BY <1>0, <1>2, <1>5
  <2>2. msize \in 1 .. MaxInfo /\ MaxInfo \in Nat
    BY <1>1, <2>1, MetadataAssumption DEF SizeOk, MetadataSize, MetaTypes
  <2>3. Len(meta') = 0 /\ InfoPiece \in Nat \ {0}
    BY <2>1, EmptySeq, MetadataAssumption
  <2>4. NextPiece' = 0 /\ Len(meta') = 0 * InfoPiece /\ 0 \in Nat
    BY <2>3 DEF NextPiece
  <2>5. NoAnswer(pipe)
    BY <1>2, NoMetaMessage, ElementOfSeq DEF IInv, WTypes, StreamTypes, NoAnswer
  <2>6. Asks'
    BY <1>0, <1>2, <2>1, <2>4, <2>5 DEF Asks, NoAnswer
  <2>7. honest' => msize' = Len(info)' /\ meta' = SubSeq(info', 1, Len(meta'))
    <3> SUFFICES ASSUME honest PROVE msize = Len(info) /\ meta' = SubSeq(info', 1, Len(meta'))
      BY <1>0
    <3>1. msize = Len(info)
      BY <1>1, <2>2 DEF MetaTypes
    <3>2. 1 \in Int /\ 0 \in Int /\ 0 < 1
      OBVIOUS
    <3>3. SubSeq(info', 1, 0) = <<>>
      BY <3>2, SubSeqEmpty
    <3> QED
      BY <2>1, <2>3, <3>1, <3>3
  <2>8. Len(meta') < msize'
    BY <1>0, <2>2, <2>3
  <2> QED
    BY <1>0, <2>1, <2>2, <2>4, <2>6, <2>7, <2>8 DEF Fetching
<1> QED
  BY <1>4, <1>6, <1>7, <1>8, <1>9 DEF MInv

LEMMA KeepsFetchFails ==
    ASSUME MInv, FetchFails
    PROVE  MInv'
<1> USE DEF infoKind, peerVars, peerKind
<1>0. /\ cl = "meta" /\ cl' = "closed" /\ outcome' = "io" /\ pexPeers' = {}
      /\ UNCHANGED <<skipped, choked, index, data, done, verdict, given, heard, pipe, reqs,
                     choking, use, bep10, honest, extSent, noise, info, msize, utMeta, odd,
                     meta, mskip>>
  BY DEF FetchFails, Over
<1>1. MetaTypes /\ Before /\ InfoConn /\ Fetching /\ InfoExact /\ use = "info"
  BY <1>0 DEF MInv, Fetching
<1>2. /\ CountTypes /\ pipe \in Seq(AnyMsg)
      /\ choking \in BOOLEAN /\ extSent \in BOOLEAN /\ PexTypes /\ noise \in 0 .. MaxNoise
  BY <1>0, <1>1 DEF InfoConn, CountTypes
<1>3. InfoConn'
  <2>1. PexTypes'
    BY <1>0, <1>2 DEF PexTypes
  <2>2. cl' \in {"meta", "closed"} /\ pipe' \in Seq(AnyMsg)
    BY <1>0, <1>2
  <2>3. noise' \in 0 .. MaxNoise /\ choking' \in BOOLEAN /\ extSent' \in BOOLEAN
    BY <1>0, <1>2
  <2> QED
    BY <1>0, <1>1, <2>1, <2>2, <2>3, ConnKept
<1>4. MetaTypes' /\ Before' /\ Fetching' /\ InfoExact'
  BY <1>0, <1>1 DEF MetaTypes, Before, Fetching, InfoExact
<1> QED
  BY <1>3, <1>4 DEF MInv

(* The peer answers, in whatever way. *)
LEMMA Answered ==
    ASSUME MInv, cl = "meta", NEW b \in Payloads, Answer(b), NoAnswer(pipe),
           honest => b = RightAnswer(info, NextPiece),
           asked' = <<>>, odd' = <<>>, noise' \in 0 .. MaxNoise,
           UNCHANGED <<clientVars, pexVars, reqs, choking, peerKind, extSent,
                       info, msize, utMeta, meta, mskip, outcome>>
    PROVE  MInv'
<1> USE DEF clientVars, pexVars, peerKind
<1>1. MetaTypes /\ Before /\ InfoConn /\ Fetching /\ InfoExact /\ use = "info"
  BY DEF MInv, Fetching
<1>2. /\ pipe \in Seq(AnyMsg)
      /\ choking \in BOOLEAN /\ extSent \in BOOLEAN /\ PexTypes
  BY <1>1 DEF InfoConn
<1>3. /\ pipe' \in Seq(AnyMsg)
      /\ \E k \in 1 .. Len(pipe') : OnlyAnswer(pipe', k) /\ pipe'[k].payload = b
  BY <1>2, SayAnswer DEF Answer, Say
<1>4. InfoConn'
  <2>1. PexTypes'
    BY <1>2 DEF PexTypes
  <2>2. cl' \in {"meta", "closed"} /\ choking' \in BOOLEAN /\ extSent' \in BOOLEAN
    BY <1>2
  <2> QED
    BY <1>1, <1>3, <2>1, <2>2, ConnKept
<1>5. MetaTypes' /\ Before' /\ InfoExact'
  BY <1>1 DEF MetaTypes, Before, InfoExact
<1>6. NextPiece' = NextPiece
  BY DEF NextPiece
<1>7. RightAnswer(info, NextPiece)' = RightAnswer(info, NextPiece)
  BY <1>6 DEF RightAnswer, Chunk, Least
<1>8. Arrives'
  BY <1>3, <1>7 DEF Arrives
<1>9. Fetching'
  BY <1>1, <1>8 DEF Fetching
<1> QED
  BY <1>4, <1>5, <1>9 DEF MInv

LEMMA KeepsServes ==
    ASSUME MInv, PeerServesInfo \/ PeerSendsWrongInfo
    PROVE  MInv'
<1> USE DEF infoKind, peerVars
<1>1. cl = "meta" /\ asked # <<>> /\ Fetching /\ InfoConn /\ MetaTypes
  BY DEF PeerServesInfo, PeerSendsWrongInfo, MInv
<1>2. Asks
  BY <1>1 DEF Fetching, Plans, Arrives
<1>3. PICK i : i = NextPiece
  OBVIOUS
<1>4. /\ asked = <<i>> /\ odd = <<>> /\ NoAnswer(pipe) /\ i \in 0 .. MaxInfo
      /\ Head(asked) = i /\ Tail(asked) = <<>>
  BY <1>1, <1>2, <1>3, PiecePlace DEF Asks
<1>5. info \in Infos /\ noise \in 0 .. MaxNoise
  BY <1>1 DEF MetaTypes, InfoConn, CountTypes, Fetching
<1>6. asked' = <<>> /\ odd' = <<>>
  BY <1>4 DEF PeerServesInfo, PeerSendsWrongInfo
<1>7. CASE PeerServesInfo
  <2>1. RightAnswer(info, i) \in Payloads /\ Answer(RightAnswer(info, i))
    BY <1>4, <1>5, <1>7, RightRest DEF PeerServesInfo
  <2>2. /\ UNCHANGED <<clientVars, pexVars, reqs, choking, peerKind, extSent,
                       info, msize, utMeta, meta, mskip, outcome>>
        /\ noise' \in 0 .. MaxNoise
    BY <1>5, <1>7 DEF PeerServesInfo
  <2> QED
    BY <1>1, <1>3, <1>4, <1>6, <2>1, <2>2, Answered
<1>8. CASE PeerSendsWrongInfo
  <2>1. PICK b \in WrongAnswers(info, i) : Answer(b)
    BY <1>4, <1>8 DEF PeerSendsWrongInfo
  <2>2. b \in Payloads
    BY <1>4, <1>5, PayloadKinds DEF AnswersTo
  <2>3. /\ UNCHANGED <<clientVars, pexVars, reqs, choking, peerKind, extSent,
                       info, msize, utMeta, meta, mskip, outcome>>
        /\ ~honest
    BY <1>8 DEF PeerSendsWrongInfo
  <2>4. noise' \in 0 .. MaxNoise
    BY <1>5, <1>8, ConstantsAssumption DEF PeerSendsWrongInfo, Noise
  <2> QED
    BY <1>1, <1>4, <1>6, <2>1, <2>2, <2>3, <2>4, Answered
<1> QED
  BY <1>7, <1>8

LEMMA KeepsPlans ==
    ASSUME MInv, PeerPlansOddInfo
    PROVE  MInv'
<1> USE DEF clientVars, pexVars, peerKind
<1>0. /\ cl = "meta" /\ ~honest /\ asked = <<0>> /\ noise' = MaxNoise /\ odd' \in OddHalves
      /\ asked' = <<>>
      /\ UNCHANGED <<clientVars, pexVars, pipe, reqs, choking, peerKind, extSent,
                     info, msize, utMeta, meta, mskip, outcome>>
  BY DEF PeerPlansOddInfo
<1>1. MetaTypes /\ Before /\ InfoConn /\ Fetching /\ InfoExact /\ use = "info"
  BY <1>0 DEF MInv, Fetching
<1>2. /\ pipe \in Seq(AnyMsg)
      /\ choking \in BOOLEAN /\ extSent \in BOOLEAN /\ PexTypes
  BY <1>1 DEF InfoConn
<1>3. InfoConn'
  <2>1. PexTypes'
    BY <1>0, <1>2 DEF PexTypes
  <2>2. cl' \in {"meta", "closed"} /\ choking' \in BOOLEAN /\ extSent' \in BOOLEAN
        /\ pipe' \in Seq(AnyMsg)
    BY <1>0, <1>2
  <2>3. noise' \in 0 .. MaxNoise
    BY <1>0, ConstantsAssumption
  <2> QED
    BY <1>0, <1>1, <2>1, <2>2, <2>3, ConnKept
<1>4. MetaTypes' /\ Before' /\ InfoExact'
  BY <1>0, <1>1 DEF MetaTypes, Before, InfoExact
<1>5. asked # <<>>
  BY <1>0
<1>6. Asks
  BY <1>0, <1>1, <1>5 DEF Fetching, Plans, Arrives
<1>7. Plans'
  BY <1>0, <1>6 DEF Asks, Plans, NoAnswer
<1>8. Fetching'
  BY <1>0, <1>1, <1>7 DEF Fetching
<1> QED
  BY <1>3, <1>4, <1>8 DEF MInv

LEMMA KeepsOdd ==
    ASSUME MInv, PeerSendsOddInfo
    PROVE  MInv'
<1> USE DEF peerVars
<1>1. cl = "meta" /\ odd # <<>> /\ Fetching /\ InfoConn
  BY DEF PeerSendsOddInfo, MInv
<1>2. Plans
  BY <1>1 DEF Fetching, Asks, Arrives
<1>3. asked = <<>> /\ odd \in OddHalves /\ ~honest /\ NoAnswer(pipe)
  BY <1>2 DEF Plans
<1>4. PICK b \in OddHalves : Answer(odd \o b)
  BY DEF PeerSendsOddInfo
<1>5. odd \o b \in Payloads
  <2>1. odd \o b \in OddAnswers
    BY <1>3, <1>4 DEF OddAnswers
  <2> QED
    BY <2>1, PayloadKinds
<1>6. noise \in 0 .. MaxNoise
  BY <1>1 DEF InfoConn, CountTypes, Fetching
<1>7. /\ UNCHANGED <<clientVars, pexVars, reqs, choking, peerKind, extSent,
                     info, msize, utMeta, meta, mskip, outcome>>
      /\ noise' \in 0 .. MaxNoise /\ asked' = <<>> /\ odd' = <<>>
  BY <1>3, <1>6 DEF PeerSendsOddInfo
<1> QED
  BY <1>1, <1>3, <1>4, <1>5, <1>7, Answered

(* The client reads. *)
LEMMA KeepsReply ==
    ASSUME MInv, readMetadataReply
    PROVE  MInv'
<1> USE DEF infoKind, peerVars, peerKind
<1>0. /\ cl = "meta" /\ pipe # <<>> /\ pipe' = Tail(pipe) /\ OneReply(Head(pipe))
      /\ UNCHANGED <<skipped, choked, index, data, done, verdict, given, reqs,
                     choking, use, bep10, honest, extSent, noise, info, msize, utMeta, odd>>
  BY DEF readMetadataReply
<1>1. MetaTypes /\ Before /\ InfoConn /\ Fetching /\ InfoExact /\ use = "info"
      /\ (Asks \/ Plans \/ Arrives) /\ outcome = "none"
  BY <1>0 DEF MInv, Fetching
<1>2. /\ pipe \in Seq(AnyMsg) /\ CountTypes /\ noise \in 0 .. MaxNoise
      /\ choking \in BOOLEAN /\ extSent \in BOOLEAN /\ PexTypes
  BY <1>1 DEF InfoConn, CountTypes
<1>3. PICK m : m = Head(pipe)
  OBVIOUS
<1>4. /\ pipe' \in Seq(AnyMsg) /\ m \in AnyMsg
      /\ m.type = "meta" => m.payload \in Payloads
      /\ NoAnswer(pipe) => m.type # "meta" /\ NoAnswer(pipe')
      /\ \A k : OnlyAnswer(pipe, k) =>
           /\ m.type = "meta" => m = pipe[k] /\ NoAnswer(pipe')
           /\ m.type # "meta" =>
                \E l \in 1 .. Len(pipe') : OnlyAnswer(pipe', l) /\ pipe'[l] = pipe[k]
  BY <1>0, <1>2, <1>3, ReadOne
<1>5. ASSUME cl' \in {"meta", "closed"}, PexTypes' PROVE InfoConn'
  <2>1. noise' \in 0 .. MaxNoise /\ choking' \in BOOLEAN /\ extSent' \in BOOLEAN
    BY <1>0, <1>2
  <2> QED
    BY <1>0, <1>1, <1>4, <1>5, <2>1, ConnKept
<1>6. CASE m.type = "meta"
  <2>1. PICK b : b = m.payload
    OBVIOUS
  <2>2. b \in Payloads /\ GotReply(b) /\ UNCHANGED heard
    BY <1>0, <1>3, <1>4, <1>6, <2>1 DEF OneReply
  <2>3. Arrives
    BY <1>1, <1>4, <1>6 DEF Asks, Plans
  <2>4. PICK k \in 1 .. Len(pipe) :
          /\ OnlyAnswer(pipe, k)
          /\ honest => pipe[k].payload = RightAnswer(info, NextPiece)
    BY <2>3 DEF Arrives
  <2>5. NoAnswer(pipe') /\ asked = <<>> /\ odd = <<>>
    BY <1>4, <1>6, <2>3, <2>4 DEF Arrives
  <2>6. honest => b = RightAnswer(info, NextPiece)
    BY <1>4, <1>6, <2>1, <2>4
  <2>7. PICK new : new = meta \o Rest(b)
    OBVIOUS
  <2>8. PICK r : r = Refusal(b, NextPiece)
    OBVIOUS
  <2>9. /\ r \in {"header", "rejected", "type", "piece", "length", "none"}
        /\ r = "none" =>
             /\ new \in Seq(Byte)
             /\ Len(new) < msize => \E i \in Nat : Len(new) = i * InfoPiece
    BY <1>0, <2>2, <2>7, <2>8, Accepted
  <2>10. honest => /\ r = "none" /\ new = SubSeq(info, 1, Len(new))
                   /\ Len(new) >= msize => new = info
    BY <1>0, <2>6, <2>7, <2>8, HonestPasses
  <2>11. \/ /\ r # "none" /\ Over(r) /\ UNCHANGED <<meta, asked>>
         \/ /\ r = "none" /\ Len(new) < msize /\ meta' = new /\ AskNext
            /\ UNCHANGED <<cl, outcome, pexPeers>>
         \/ /\ r = "none" /\ Len(new) >= msize /\ meta' = new
            /\ Over(IF new = info THEN "ok" ELSE "hash")
    BY <2>2, <2>7, <2>8, Zenon DEF GotReply
  <2>12. CASE cl' = "closed"
    <3>1. MetaTypes'
      BY <1>0, <1>1, <2>9, <2>11 DEF MetaTypes
    <3>2. PexTypes'
      BY <1>0, <1>2, <2>2, <2>11 DEF PexTypes, Over
    <3>3. InfoExact'
      <4>1. CASE r # "none"
        <5>1. outcome' = r /\ ~honest
          BY <2>10, <2>11, <4>1 DEF Over
        <5>2. outcome' # "ok" /\ ~honest'
          BY <1>0, <2>9, <5>1
        <5> QED
          BY <5>2 DEF InfoExact
      <4>2. CASE r = "none"
        <5>1. /\ Len(new) >= msize /\ meta' = new
              /\ outcome' = (IF new = info THEN "ok" ELSE "hash")
          BY <1>0, <2>11, <2>12, <4>2 DEF Over
        <5>2. honest' => new = info
          BY <1>0, <2>10, <5>1
        <5> QED
          BY <1>0, <5>1, <5>2 DEF InfoExact
      <4> QED
        BY <4>1, <4>2
    <3>4. Before' /\ Fetching'
      BY <1>0, <1>1, <2>12 DEF Before, Fetching
    <3> QED
      BY <1>5, <2>12, <3>1, <3>2, <3>3, <3>4 DEF MInv
  <2>13. CASE cl' # "closed"
    <3>1. /\ r = "none" /\ Len(new) < msize /\ meta' = new /\ AskNext
          /\ UNCHANGED <<cl, outcome, pexPeers>>
      BY <2>11, <2>13 DEF Over
    <3>2. MetaTypes'
      BY <1>0, <1>1, <2>9, <3>1 DEF MetaTypes
    <3>3. PexTypes' /\ cl' = "meta"
      BY <1>0, <1>2, <2>2, <3>1 DEF PexTypes
    <3>4. InfoExact'
      BY <1>0, <1>1, <3>1 DEF InfoExact
    <3>5. asked' = <<NextPiece'>>
      BY <2>5, <3>1 DEF AskNext
    <3>6. Asks'
      BY <1>0, <2>5, <3>5 DEF Asks
    <3>7. \E i \in Nat : Len(meta') = i * InfoPiece
      BY <2>9, <3>1
    <3>8. honest' => msize' = Len(info') /\ meta' = SubSeq(info', 1, Len(meta'))
      BY <1>0, <1>1, <2>10, <3>1 DEF Fetching
    <3>9. Fetching'
      BY <1>0, <1>1, <3>1, <3>3, <3>6, <3>7, <3>8 DEF Fetching
    <3>10. Before'
      BY <1>0, <1>1, <3>3 DEF Before
    <3> QED
      BY <1>5, <3>2, <3>3, <3>4, <3>9, <3>10 DEF MInv
  <2> QED
    BY <2>12, <2>13
<1>7. CASE m.type # "meta"
  <2>1. /\ heard' = heard \cup (IF m.type = "pex" THEN m.addrs ELSE {})
        /\ \/ Over("silent")
           \/ pexPeers' = pexPeers \cup (heard' \ heard) /\ UNCHANGED <<cl, outcome>>
        /\ UNCHANGED <<meta, asked>>
    BY <1>0, <1>3, <1>7 DEF OneReply
  <2>2. m.type = "pex" => m.addrs \subseteq PexAddr
    <3>1. m \in MetaMsg => m.type = "meta"
      BY DEF MetaMsg
    <3>2. m \in PexMsg => m.addrs \subseteq PexAddr
      BY DEF PexMsg
    <3>3. m \in Control \/ m \in BlockMsg => m.type # "pex"
      BY DEF Control, BlockMsg
    <3> QED
      BY <1>4, <1>7, <3>1, <3>2, <3>3 DEF AnyMsg, Message
  <2>3. PexTypes'
    <3>1. heard' \subseteq PexAddr
      BY <1>2, <2>1, <2>2 DEF PexTypes
    <3> QED
      BY <1>0, <1>2, <2>1, <3>1 DEF PexTypes, Over
  <2>4. MetaTypes'
    BY <1>0, <1>1, <2>1 DEF MetaTypes
  <2>5. cl' \in {"meta", "closed"} /\ outcome' \in {"none", "silent"}
        /\ (cl' = "meta" => outcome' = "none")
    BY <1>0, <1>1, <2>1 DEF Over
  <2>6. InfoExact' /\ Before'
    BY <1>0, <1>1, <2>1, <2>5 DEF InfoExact, Before
  <2>7. NextPiece' = NextPiece
    BY <2>1 DEF NextPiece
  <2>8. RightAnswer(info, NextPiece)' = RightAnswer(info, NextPiece)
    BY <1>0, <2>7 DEF RightAnswer, Chunk, Least
  <2>9. Asks => Asks'
    BY <1>0, <1>4, <2>1, <2>7 DEF Asks
  <2>10. Plans => Plans'
    BY <1>0, <1>4, <2>1 DEF Plans
  <2>11. Arrives => Arrives'
    <3> SUFFICES ASSUME Arrives PROVE Arrives'
      OBVIOUS
    <3>1. PICK k \in 1 .. Len(pipe) :
            /\ OnlyAnswer(pipe, k)
            /\ honest => pipe[k].payload = RightAnswer(info, NextPiece)
      BY DEF Arrives
    <3>2. PICK l \in 1 .. Len(pipe') : OnlyAnswer(pipe', l) /\ pipe'[l] = pipe[k]
      BY <1>4, <1>7, <3>1
    <3>3. asked' = <<>> /\ odd' = <<>> /\ honest' = honest
      BY <1>0, <2>1 DEF Arrives
    <3>4. honest' => pipe'[l].payload = RightAnswer(info, NextPiece)'
      BY <2>8, <3>1, <3>2, <3>3
    <3> QED
      BY <3>2, <3>3, <3>4 DEF Arrives
  <2>12. Fetching'
    BY <1>0, <1>1, <2>1, <2>5, <2>9, <2>10, <2>11 DEF Fetching
  <2> QED
    BY <1>5, <2>3, <2>4, <2>5, <2>6, <2>12 DEF MInv
<1> QED
  BY <1>6, <1>7

LEMMA MInvStep == MInv /\ [MNext]_allVars => MInv'
<1> SUFFICES ASSUME MInv, [MNext]_allVars PROVE MInv'
  OBVIOUS
<1>1. CASE MNext
  BY <1>1, KeepsNext, KeepsStartFetch, KeepsReply, KeepsFetchFails, KeepsServes, KeepsPlans,
     KeepsOdd DEF MNext
<1>2. CASE UNCHANGED allVars
  <2>1. /\ UNCHANGED vars
        /\ UNCHANGED <<info, msize, utMeta, odd, asked, meta, mskip, outcome>>
    BY <1>2 DEF allVars, metaVars, infoKind
  <2>2. UNCHANGED <<use, bep10, honest, choking, extSent, noise, cl, skipped, choked, index,
                    data, done, verdict, pexPeers, given, heard, pipe, reqs>>
    BY <2>1 DEF vars, clientVars, pexVars, peerVars, peerKind
  <2>3. IInv => IInv'
    BY <2>1, IInvStep
  <2>4. MetaTypes' /\ InfoExact'
    BY <2>1, <2>2 DEF MInv, MetaTypes, InfoExact
  <2>5. Before'
    BY <2>1, <2>2, <2>3 DEF MInv, Before
  <2>6. InfoConn'
    BY <2>2 DEF MInv, InfoConn, DataTypes, CountTypes, PexTypes
  <2>7. Fetching'
    <3>1. NextPiece' = NextPiece
      BY <2>1 DEF NextPiece
    <3>2. Asks => Asks'
      BY <2>1, <2>2, <3>1 DEF Asks, NoAnswer
    <3>3. Plans => Plans'
      BY <2>1, <2>2 DEF Plans, NoAnswer
    <3>4. RightAnswer(info, NextPiece)' = RightAnswer(info, NextPiece)
      BY <2>1, <3>1 DEF RightAnswer, Chunk
    <3>5. Arrives => Arrives'
      BY <2>1, <2>2, <3>4 DEF Arrives, OnlyAnswer
    <3> QED
      BY <2>1, <2>2, <3>2, <3>3, <3>5 DEF MInv, Fetching
  <2> QED
    BY <2>4, <2>5, <2>6, <2>7 DEF MInv
<1> QED
  BY <1>1, <1>2


-----------------------------------------------------------------------------
(* What follows for a connection of either kind *)

(* The invariant of a connection, whatever it is for. *)
THEOREM MInvariance == MSpec => []MInv
  BY InitMInv, MInvStep, PTL DEF MSpec

(* Of a dictionary of any size, from any peer: FetchMetadata accepts only  *)
(* what the info hash names, and refuses no peer that serves it, if a      *)
(* header is read as it was written (HeaderAssumption).                    *)
THEOREM DictionaryExact == MSpec => []InfoExact
<1>1. MInv => InfoExact
  BY DEF MInv
<1> QED
  BY <1>1, MInvariance, PTL

(* While FetchMetadata runs exactly one answer is due or under way, and    *)
(* the buffer is smaller than the size that the peer announced, which is   *)
(* in range.                                                               *)
THEOREM OneAnswerDue == MSpec => []OneRequest
<1>1. MInv => OneRequest
  <2> SUFFICES ASSUME MInv, cl = "meta" PROVE OneRequest
    BY DEF OneRequest
  <2> DEFINE K == {k \in 1 .. Len(pipe) : pipe[k].type = "meta"}
             o == IF odd # <<>> THEN 1 ELSE 0
  <2>1. (Asks \/ Plans \/ Arrives) /\ msize \in 1 .. MaxInfo /\ Len(meta) < msize
    BY DEF MInv, Fetching
  <2>2. 1 = Len(asked) + o + Cardinality(K)
    <3>1. NoAnswer(pipe) => Cardinality(K) = 0
      <4>1. NoAnswer(pipe) => K = {}
        BY DEF NoAnswer
      <4> QED
        BY <4>1, FS_EmptySet
    <3>2. CASE Asks
      <4>1. Len(asked) = 1 /\ o = 0 /\ NoAnswer(pipe)
        BY <3>2 DEF Asks
      <4> QED
        BY <3>1, <4>1
    <3>3. CASE Plans
      <4>1. <<>> \notin OddHalves
        BY MetadataAssumption
      <4>2. asked = <<>> /\ o = 1 /\ NoAnswer(pipe)
        BY <3>3, <4>1 DEF Plans
      <4> QED
        BY <3>1, <4>2, EmptySeq
    <3>4. CASE Arrives
      <4>1. PICK k \in 1 .. Len(pipe) : OnlyAnswer(pipe, k)
        BY <3>4 DEF Arrives
      <4>2. K = {k}
        BY <4>1 DEF OnlyAnswer
      <4>3. Cardinality(K) = 1
        BY <4>2, FS_Singleton
      <4>4. Len(asked) = 0 /\ o = 0
        BY <3>4, EmptySeq DEF Arrives
      <4> QED
        BY <4>3, <4>4
    <3> QED
      BY <2>1, <3>2, <3>3, <3>4
  <2> QED
    BY <2>1, <2>2 DEF OneRequest
<1> QED
  BY <1>1, MInvariance, PTL

(* On a connection of either kind, for pieces or for the dictionary, all   *)
(* that peer.go relies on holds: the types, the choke state, who has to    *)
(* move, that an honest peer is not blamed and no address is lost.         *)
THEOREM ConnectionCorrect ==
    MSpec => [](TypeOK /\ ChokeTracked /\ NoStall /\ HonestPeerVerifies /\ PexKept)
<1>1. MInv => TypeOK
  <2> SUFFICES ASSUME MInv PROVE TypeOK
    OBVIOUS
  <2>1. CASE use = "pieces"
    BY <2>1, TypesFollow DEF MInv, Before
  <2>2. CASE use # "pieces"
    <3>1. use = "info" /\ InfoConn
      BY <2>2 DEF MInv, MetaTypes
    <3>2. /\ cl \in {"hello", "exthello", "idle", "read", "meta", "closed"}
          /\ verdict \in {"none", "choked", "large", "hash"}
          /\ DataTypes /\ CountTypes /\ PexTypes /\ pipe \in Seq(AnyMsg) /\ reqs = <<>>
      BY <3>1 DEF InfoConn
    <3>3. /\ choked \in BOOLEAN /\ choking \in BOOLEAN /\ extSent \in BOOLEAN
          /\ bep10 \in BOOLEAN /\ honest \in BOOLEAN
      BY <3>1 DEF InfoConn
    <3>4. /\ index \in Piece /\ done \subseteq Piece /\ Len(data) <= Size(index)
          /\ \A k \in 1 .. Len(data) : data[k] \in 0 .. TotalSize
      BY <3>2, ElementOfSeq DEF DataTypes
    <3>5. ASSUME NEW k \in 1 .. Len(pipe)
          PROVE  \/ pipe[k] \in Control \/ pipe[k].type \in {"pex", "meta"}
                 \/ /\ pipe[k].type = "piece"
                    /\ pipe[k].index \in Piece /\ pipe[k].begin \in Offset
      <4>1. PICK m : m = pipe[k]
        OBVIOUS
      <4>2. m \in AnyMsg
        BY <3>2, <4>1, ElementOfSeq
      <4>3. \/ m \in Control \/ m.type \in {"pex", "meta"}
            \/ m.type = "piece" /\ m.index \in Piece /\ m.begin \in Offset
        BY <4>2 DEF AnyMsg, MetaMsg, Message, BlockMsg, PexMsg
      <4> QED
        BY <4>1, <4>3, Zenon
    <3>6. 1 .. Len(reqs) = {}
      BY <3>2, EmptySeq
    <3>7. skipped \in 0 .. SkipLimit /\ noise \in 0 .. MaxNoise
      BY <3>2 DEF CountTypes
    <3>8. pexPeers \subseteq PexAddr /\ given \subseteq PexAddr /\ heard \subseteq PexAddr
      BY <3>2 DEF PexTypes
    <3> QED
      BY <3>1, <3>2, <3>3, <3>4, <3>5, <3>6, <3>7, <3>8, Zenon DEF TypeOK
  <2> QED
    BY <2>1, <2>2
<1>2. MInv => ChokeTracked
  BY ChokeFollows DEF MInv, Before, ChokeTracked
<1>3. MInv => NoStall
  BY MoveFollows DEF MInv, Before, NoStall
<1>4. MInv => HonestPeerVerifies
  <2>1. IInv => HonestPeerVerifies
    BY DEF IInv, Exact, HonestPeerVerifies
  <2> QED
    BY <2>1 DEF MInv, MetaTypes, Before, InfoConn, HonestPeerVerifies
<1>5. MInv => PexKept
  BY DEF MInv, Before, IInv, PexKept
<1> QED
  BY <1>1, <1>2, <1>3, <1>4, <1>5, MInvariance, PTL

=============================================================================
