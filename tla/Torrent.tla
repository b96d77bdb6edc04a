------------------------------ MODULE Torrent ------------------------------
(***************************************************************************)
(* From files to a torrent and back: creation (internal/torrent/torrent.go *)
(* and runCreate in cmd/wl/main.go), parsing (parse.go), the checks of     *)
(* DownloadMVP, and then Storage, which writes the pieces again.           *)
(*                                                                         *)
(* A file is hashed for v2 block by block into a Merkle tree; a directory  *)
(* is read a second time for v1, whose pieces run across the files while   *)
(* the reads return any number of bytes.  A torrent made elsewhere may     *)
(* have any piece length, any number of hashes, and no v1 file list.       *)
(*                                                                         *)
(* A hash is what was hashed: a record of the bytes, or of two hashes.     *)
(***************************************************************************)
EXTENDS Storage, Functions

CONSTANTS
    Block,          \* BlockSize, which is also MinPieceLength
    Buffer          \* bytes asked for by one Read of the v1 pass

ASSUME TorrentAssumption == Block \in Nat \ {0} /\ Buffer \in Nat \ {0}

VARIABLES
    kind,       \* "file", "dir", "stream", or "foreign": made elsewhere
    phase,      \* "options", "hash", "read", "made", "ready", "failed"
    delivered,  \* bytes a stream yields before it ends
    f, off,     \* the file being hashed, and the offset of its v1 pass
    buf,        \* buf[offset:n]: bytes read and not hashed yet
    run,        \* bytes in the SHA-1 hasher
    pieces,     \* allV1Pieces
    v2,         \* the fileResult of each file
    info        \* the info dictionary

makeVars == <<kind, phase, delivered, f, off, buf, run, pieces, v2, info>>
allVars  == <<vars, makeVars>>

NoInfo == [form |-> "none"]

(* Foreign dictionaries: any number of piece hashes, none for a v2-only    *)
(* torrent; "tree" is one without v1 lengths.                              *)
ForeignInfo ==
    [form : {"list", "tree"}, files : {length}, pieceLength : {0, pieceLength},
     pieces : {[i \in 1 .. n |-> [bytes |-> <<>>]] : n \in 0 .. TotalSize + 1}]

Kinds == {"foreign", "dir"} \cup (IF Len(length) = 1 THEN {"file", "stream"} ELSE {})

TInit == /\ Init
         /\ kind \in Kinds
         /\ delivered \in IF kind = "stream" THEN 0 .. TotalSize ELSE {TotalSize}
         /\ phase = IF kind = "foreign" THEN "made" ELSE "options"
         /\ info \in IF kind = "foreign" THEN ForeignInfo ELSE {NoInfo}
         /\ f = 0 /\ off = 0 /\ buf = <<>> /\ run = <<>> /\ pieces = <<>>
         /\ v2 = <<>>

-----------------------------------------------------------------------------
(* The Merkle tree *)

Leaf(s) == [bytes |-> s]
zeroHash == Leaf(<<0>>)
Node(a, b) == [left |-> a, right |-> b]

Pow2[n \in Nat] == IF n = 0 THEN 1 ELSE 2 * Pow2[n - 1]

isPowerOfTwo(n) == n > 0 /\ \E k \in 0 .. n : n = Pow2[k]

ASSUME BlockAssumption == isPowerOfTwo(Block)

(* log2 of nextPowerOfTwo *)
Height(n) == CHOOSE k \in 0 .. n : Pow2[k] >= n /\ \A j \in 0 .. k - 1 : Pow2[j] < n

(* All levels, level 0 being the leaves padded to a power of two. *)
buildMerkleTree(leaves) ==
    LET h == Height(Len(leaves))
        level[k \in 0 .. h] ==
          IF k = 0
          THEN [i \in 1 .. Pow2[h] |-> IF i <= Len(leaves) THEN leaves[i] ELSE zeroHash]
          ELSE [i \in 1 .. Pow2[h - k] |->
                  Node(level[k - 1][2 * i - 1], level[k - 1][2 * i])]
    IN level

(* Mutant: the level is taken for the piece length instead of the blocks   *)
(* of a piece.                                                             *)
PieceLevelOfBytes == Height(pieceLength)

(* The level where one hash stands for one piece. *)
PieceLevel == Height(pieceLength \div Block)

(* Its first numPieces hashes, if the tree is that high. *)
extractPieceLayer(tree, numPieces) ==
    IF PieceLevel \notin DOMAIN tree THEN <<>>
    ELSE SubSeq(tree[PieceLevel], 1, Lesser(numPieces, Len(tree[PieceLevel])))

PiecesIn(size) == (size + pieceLength - 1) \div pieceLength

-----------------------------------------------------------------------------
(* hashReaderHybrid: the bytes s of a file of the given size, in blocks.   *)

BlockCount(size) == (size + Block - 1) \div Block

BlocksOf(s) == [k \in 1 .. BlockCount(Len(s)) |->
                  SubSeq(s, (k - 1) * Block + 1, Lesser(k * Block, Len(s)))]

(* One block into the v1 hasher: a piece is closed at the first block end  *)
(* that reaches its length.                                                *)
HashBlock(a, block) ==
    LET open == a.open \o block IN
    IF Len(open) >= pieceLength
    THEN [closed |-> Append(a.closed, Leaf(open)), open |-> <<>>]
    ELSE [closed |-> a.closed, open |-> open]

AfterBlocks(b) ==
    LET after[k \in 0 .. Len(b)] ==
          IF k = 0 THEN [closed |-> <<>>, open |-> <<>>]
          ELSE HashBlock(after[k - 1], b[k])
    IN after

(* The v1 pieces; what is left at the end is one too. *)
V1Pieces(s) ==
    LET end == AfterBlocks(BlocksOf(s))[Len(BlocksOf(s))]
    IN IF end.open = <<>> THEN end.closed ELSE Append(end.closed, Leaf(end.open))

hashReaderHybrid(s, size) ==
    IF size = 0 THEN [length |-> 0]
    ELSE LET tree == buildMerkleTree([k \in DOMAIN BlocksOf(s) |-> Leaf(BlocksOf(s)[k])])
         IN [length |-> size,
             root   |-> tree[Height(Len(BlocksOf(s)))][1],
             layer  |-> IF PiecesIn(size) > 1
                        THEN extractPieceLayer(tree, PiecesIn(size)) ELSE <<>>]

-----------------------------------------------------------------------------
(* Create, CreateStream *)

Contents(g) == [x \in 1 .. length[g] |-> Start(g) + x]

PieceLengthOk == pieceLength >= Block /\ isPowerOfTwo(pieceLength)

Refuse == phase' = "failed" /\ UNCHANGED f

(* The piece length, the size of a stream, a directory without files.  A   *)
(* directory's files are walked and sorted.                                *)
CheckOptions ==
    /\ phase = "options"
    /\ IF /\ PieceLengthOk
          /\ kind = "stream" => TotalSize > 0
          /\ length # <<>>
       THEN phase' = "hash" /\ f' = 1
       ELSE Refuse
    /\ UNCHANGED <<vars, kind, delivered, off, buf, run, pieces, v2, info>>

(* The info dictionary, with v1 and v2 fields. *)
Hybrid(form, hashes) == [form |-> form, files |-> length,
                         pieceLength |-> pieceLength, pieces |-> hashes]

(* A file is opened, measured and hashed.  For a single file that is all;  *)
(* a stream that breaks off is taken for one that ended.                   *)
HashFile ==
    /\ phase = "hash"
    /\ LET s == IF kind = "stream" THEN SubSeq(Contents(1), 1, delivered)
                ELSE Contents(f)
       IN /\ v2' = Append(v2, hashReaderHybrid(s, length[f]))
          /\ IF kind = "dir"
             THEN phase' = "read" /\ UNCHANGED info
             ELSE phase' = "made" /\ info' = Hybrid("single", V1Pieces(s))
    /\ UNCHANGED <<vars, kind, delivered, f, off, buf, run, pieces>>

(* buildDirHybrid, the v1 pass: one Read ... *)
ReadChunk ==
    /\ phase = "read" /\ buf = <<>> /\ off < length[f]
    /\ \E n \in 1 .. Lesser(Buffer, length[f] - off) :
         /\ buf' = SubSeq(Contents(f), off + 1, off + n)
         /\ off' = off + n
    /\ UNCHANGED <<vars, kind, phase, delivered, f, run, pieces, v2, info>>

(* Mutant: a chunk goes into the hasher as a whole. *)
ToWriteAll == Len(buf)

(* ... what of it belongs into the current piece ... *)
ToWrite == Lesser(Len(buf), pieceLength - Len(run))

(* ... and one turn of the loop that splits it. *)
HashPart ==
    /\ phase = "read" /\ buf # <<>>
    /\ LET full == run \o SubSeq(buf, 1, ToWrite) IN
       IF Len(full) = pieceLength
       THEN pieces' = Append(pieces, Leaf(full)) /\ run' = <<>>
       ELSE run' = full /\ UNCHANGED pieces
    /\ buf' = SubSeq(buf, ToWrite + 1, Len(buf))
    /\ UNCHANGED <<vars, kind, phase, delivered, f, off, v2, info>>

(* EOF: the next file, or the last partial piece and the dictionary. *)
FileDone ==
    /\ phase = "read" /\ buf = <<>> /\ off = length[f]
    /\ off' = 0
    /\ IF f < Len(length)
       THEN f' = f + 1 /\ phase' = "hash" /\ UNCHANGED info
       ELSE /\ phase' = "made" /\ UNCHANGED f
            /\ info' = Hybrid("list", IF run = <<>> THEN pieces
                                      ELSE Append(pieces, Leaf(run)))
    /\ UNCHANGED <<vars, kind, delivered, buf, run, pieces, v2>>

(* A file cannot be opened or read. *)
ReadFails == /\ Faults /\ phase \in {"hash", "read"}
             /\ Refuse
             /\ UNCHANGED <<vars, kind, delivered, off, buf, run, pieces, v2, info>>

-----------------------------------------------------------------------------
(* parseInfoMap and the guard of DownloadMVP *)

(* The v1 lengths; without them the files of the tree, which Go walks in   *)
(* any order.                                                              *)
ParsedFiles == IF info.form = "tree"
               THEN {[k \in DOMAIN info.files |-> info.files[p[k]]] :
                       p \in Bijection(DOMAIN info.files, DOMAIN info.files)}
               ELSE {info.files}

(* Mutant: the number of hashes is not compared with the layout. *)
CountOkNever == TRUE

(* A torrent that lists no files is not compared. *)
CountOk == length # <<>> => Len(info.pieces) = PiecesIn(TotalSize)

(* The order of the files does not change the total.  A torrent without v1 *)
(* hashes is parsed, and not downloaded.  Preallocate follows.             *)
Parse ==
    /\ phase = "made"
    /\ IF info.pieceLength > 0 /\ CountOk /\ info.pieces # <<>>
       THEN /\ phase' = "ready"
            /\ length' \in ParsedFiles
            /\ disk' = [g \in DOMAIN length' |-> [x \in 0 .. length'[g] - 1 |-> 0]]
       ELSE phase' = "failed" /\ UNCHANGED <<length, disk>>
    /\ UNCHANGED <<pieceLength, done, w, kind, delivered, f, off, buf, run,
                   pieces, v2, info>>

Download == phase = "ready" /\ Next /\ UNCHANGED makeVars

TNext == \/ CheckOptions \/ HashFile \/ ReadChunk \/ HashPart \/ FileDone
         \/ ReadFails \/ Parse \/ Download

TSpec == TInit /\ [][TNext]_allVars

-----------------------------------------------------------------------------
(* Properties *)

Made == phase \in {"made", "ready"} /\ kind # "foreign" /\ delivered = TotalSize

(* What is created is a torrent of the files: hash i is the hash of the     *)
(* bytes that Storage writes as piece i, however the pieces run across the  *)
(* files and the reads were cut, and the layout survives parsing.  (A       *)
(* stream that ends early is hashed as if it were complete.)                *)
PiecesHashed ==
    Made => /\ info.pieces = [i \in 1 .. PiecesIn(TotalSize) |->
                 Leaf([x \in 1 .. PieceSize(i - 1) |-> (i - 1) * pieceLength + x])]
            /\ info.files = length

(* The root of height h over these hashes, those missing being pad. *)
RootOver(hashes, h, pad) ==
    LET at[k \in 0 .. h] ==
          IF k = 0 THEN [i \in 1 .. Pow2[h] |-> IF i <= Len(hashes) THEN hashes[i] ELSE pad]
          ELSE [i \in 1 .. Pow2[h - k] |-> Node(at[k - 1][2 * i - 1], at[k - 1][2 * i])]
    IN at[h][1]

LeavesOf(s) == [k \in DOMAIN BlocksOf(s) |-> Leaf(BlocksOf(s)[k])]

(* The leaf that BEP 52 puts where a file has no block: 32 zero bytes in    *)
(* place of a hash.  The code puts their SHA-256 there (zeroHash).          *)
missingLeaf == [zeros |-> 32]

(* A client that pads with missing verifies the hashes r of the bytes s:    *)
(* the layer holds one hash per piece, each computable from the bytes of    *)
(* that piece alone, and it gives the root, padded with the hashes of empty *)
(* pieces.                                                                  *)
Verifies(r, s, size, missing) ==
    PiecesIn(size) > 1 =>
      /\ r.layer = [i \in 1 .. PiecesIn(size) |->
           RootOver(LeavesOf(SubSeq(s, (i - 1) * pieceLength + 1,
                                    Lesser(i * pieceLength, size))),
                    PieceLevel, missing)]
      /\ r.root = RootOver(r.layer, Height(PiecesIn(size)),
                           RootOver(<<>>, PieceLevel, missing))

(* The v2 hashes that hashReaderHybrid makes of a file of several pieces:   *)
(* by the padding of buildMerkleTree they always verify, and by that of     *)
(* BEP 52, which Create and docs/CLI_SPEC.md name, if the file has a power  *)
(* of two of blocks, so that no leaf is missing.  A v2 client that pads as  *)
(* BEP 52 says is not promised anything about the other files: zeroHash is  *)
(* not the missing leaf, and the root it computes is another one.           *)
LayersVerify ==
    Made => \A g \in DOMAIN v2 :
              /\ Verifies(v2[g], Contents(g), length[g], zeroHash)
              /\ isPowerOfTwo(BlockCount(length[g]))
                   => Verifies(v2[g], Contents(g), length[g], missingLeaf)

(* A download begins only with one hash for every piece that the layout     *)
(* has, and no piece without bytes: the index of the worker into the hashes *)
(* and the size of its piece are in range.  (Not so for a torrent that      *)
(* lists no files: parseInfoMap lets any number of hashes pass.)            *)
EveryPieceHashed ==
    phase = "ready" /\ length # <<>> => Piece = 0 .. Len(info.pieces) - 1

=============================================================================
