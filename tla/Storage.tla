------------------------------ MODULE Storage ------------------------------
(***************************************************************************)
(* How verified pieces reach the files of a torrent                        *)
(* (internal/client/storage.go).  The files lie end to end in one byte     *)
(* space that the pieces cut at multiples of the piece length, so a piece  *)
(* may end one file, fill others and begin the next.  WritePiece walks     *)
(* over the files and writes to each what falls into it; an I/O error ends *)
(* the walk and the download with it.                                      *)
(*                                                                         *)
(* Byte g of the torrent has the value g + 1; a byte that was never        *)
(* written is 0.                                                           *)
(***************************************************************************)
EXTENDS Integers, Sequences

CONSTANTS
    Layouts,        \* the file lengths of a torrent: sequences
    PieceLengths,
    Faults          \* may opening or writing a file fail?

ASSUME ConstantsAssumption ==
    /\ Layouts \subseteq Seq(Nat)
    /\ PieceLengths \subseteq Nat \ {0}
    /\ Faults \in BOOLEAN

VARIABLES
    length,         \* fe.Length of each file
    pieceLength,
    disk,           \* the contents of each file
    done,           \* pieces whose WritePiece has returned without an error
    w               \* the WritePiece call under way

vars == <<length, pieceLength, disk, done, w>>

File == DOMAIN length

(* currentPos before the walk and after each of its turns: the lengths of  *)
(* the files so far.                                                        *)
Offsets(len) == LET after[k \in 0 .. Len(len)] ==
                      IF k = 0 THEN 0 ELSE after[k - 1] + len[k]
                IN after

(* currentPos when the walk reaches file f. *)
Start(f) == Offsets(length)[f - 1]

TotalSize == Start(Len(length) + 1)
Piece == {i \in 0 .. TotalSize : i * pieceLength < TotalSize}

Lesser(a, b) == IF a < b THEN a ELSE b

(* The size of a piece, as the worker computes it. *)
PieceSize(i) == Lesser(pieceLength, TotalSize - i * pieceLength)

-----------------------------------------------------------------------------
(* The arithmetic of WritePiece, for a piece of n bytes at g of the byte   *)
(* space and a file of L bytes at c.                                       *)

Overlaps(g, n, c, L) == g < c + L /\ g + n > c

(* Where in the file writing starts ... *)
WriteAt(g, c) == IF g > c THEN g - c ELSE 0

(* Mutant: the rest of a piece starts from its beginning again. *)
StartInPieceZero(g, c) == 0

(* ... and which part of the piece, data[from:to], is written. *)
StartInPiece(g, c) == IF c > g THEN c - g ELSE 0

EndInPiece(g, n, c, L) ==
    Lesser(StartInPiece(g, c) + (L - WriteAt(g, c)), n)

-----------------------------------------------------------------------------

Idle == [file |-> 0, piece |-> 0, wrote |-> 0, err |-> "none"]

(* Preallocate: every file exists with its length; Truncate leaves zeros.  *)
Init == /\ length \in Layouts
        /\ pieceLength \in PieceLengths
        /\ disk = [f \in File |-> [x \in 0 .. length[f] - 1 |-> 0]]
        /\ done = {}
        /\ w = Idle

(* The collection loop hands over a piece; it writes one at a time. *)
WritePiece(i) ==
    /\ w = Idle /\ i \notin done
    /\ w' = [file |-> 1, piece |-> i, wrote |-> 0, err |-> "none"]
    /\ UNCHANGED <<length, pieceLength, disk, done>>

Global == w.piece * pieceLength
Bytes  == PieceSize(w.piece)

InFile(f) == Overlaps(Global, Bytes, Start(f), length[f])

(* f.WriteAt(data[from:to], at) *)
Written(f) ==
    LET c    == Start(f)
        at   == WriteAt(Global, c)
        from == StartInPiece(Global, c)
        to   == EndInPiece(Global, Bytes, c, length[f])
    IN [x \in DOMAIN disk[f] \cup at .. at + (to - from) - 1 |->
          IF x \in at .. at + (to - from) - 1
          THEN Global + from + (x - at) + 1 ELSE disk[f][x]]

Count(f) == EndInPiece(Global, Bytes, Start(f), length[f])
              - StartInPiece(Global, Start(f))

Walking == w.file \in File /\ w.err = "none"

(* One turn of the loop: the file has a part of the piece ... *)
WriteFile ==
    /\ Walking /\ InFile(w.file)
    /\ disk' = [disk EXCEPT ![w.file] = Written(w.file)]
    /\ w' = [w EXCEPT !.file = @ + 1, !.wrote = @ + Count(w.file)]
    /\ UNCHANGED <<length, pieceLength, done>>

(* ... or not. *)
PassFile ==
    /\ Walking /\ ~InFile(w.file)
    /\ w' = [w EXCEPT !.file = @ + 1]
    /\ UNCHANGED <<length, pieceLength, disk, done>>

(* Opening or writing fails; a prefix may have been written. *)
FileFails ==
    /\ Faults /\ Walking /\ InFile(w.file)
    /\ \/ UNCHANGED disk
       \/ \E n \in 1 .. Count(w.file) :
            LET at == WriteAt(Global, Start(w.file)) IN
            disk' = [disk EXCEPT ![w.file] =
                       [x \in DOMAIN disk[w.file] |->
                          IF x < at + n THEN Written(w.file)[x]
                          ELSE disk[w.file][x]]]
    /\ w' = [w EXCEPT !.err = "io"]
    /\ UNCHANGED <<length, pieceLength, done>>

(* The walk is over: every byte must have gone to some file. *)
WriteEnds ==
    /\ w.file = Len(length) + 1 /\ w.err = "none"
    /\ IF w.wrote = Bytes
       THEN done' = done \cup {w.piece} /\ w' = Idle
       ELSE w' = [w EXCEPT !.err = "mismatch"] /\ UNCHANGED done
    /\ UNCHANGED <<length, pieceLength, disk>>

Next == \/ \E i \in Piece : WritePiece(i)
        \/ WriteFile \/ PassFile \/ FileFails \/ WriteEnds

Spec == Init /\ [][Next]_vars

-----------------------------------------------------------------------------
(* Properties *)

(* The variables have their types; files keep their lengths, as no write    *)
(* goes past the end of one, and no byte of a piece is counted twice.       *)
TypeOK == /\ length \in Layouts /\ pieceLength \in PieceLengths
          /\ DOMAIN disk = File
          /\ \A f \in File : disk[f] \in [0 .. length[f] - 1 -> 0 .. TotalSize]
          /\ done \subseteq Piece
          /\ w.file \in 0 .. Len(length) + 1 /\ w.piece \in Piece \cup {0}
          /\ w.wrote \in 0 .. pieceLength
          /\ w.err \in {"none", "io", "mismatch"}

PieceOf(g) == g \div pieceLength

(* Every byte of a file is the byte of the torrent that belongs there or    *)
(* still zero, and it is not zero once its piece has been written, in       *)
(* whatever order pieces come and however they straddle files.  The offset  *)
(* arithmetic accounts for every byte of every piece: the final check of    *)
(* WritePiece never fires.                                                  *)
BytesInPlace ==
    /\ \A f \in File : \A x \in DOMAIN disk[f] :
         LET g == Start(f) + x IN
         /\ disk[f][x] \in {0, g + 1}
         /\ PieceOf(g) \in done => disk[f][x] = g + 1
    /\ w.err # "mismatch"

=============================================================================
