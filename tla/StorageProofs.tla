---------------------------- MODULE StorageProofs ----------------------------
(***************************************************************************)
(* The offset arithmetic of WritePiece, for pieces and files of any size,  *)
(* and what it makes of the files: for every layout and every piece length *)
(* the bytes reach the places that are theirs.  Then the hashes that       *)
(* creation makes: v1 piece by piece, v2 as layers of Merkle trees.        *)
(***************************************************************************)
EXTENDS Torrent, SequenceTheorems, WellFoundedInduction, TLAPS

(* The bytes of the file that the write of one turn covers, and the byte   *)
(* of the torrent that goes to place x of the file.                        *)
Covered(g, n, c, L) ==
    WriteAt(g, c) .. WriteAt(g, c)
        + (EndInPiece(g, n, c, L) - StartInPiece(g, c)) - 1
Source(g, c, x) == g + StartInPiece(g, c) + (x - WriteAt(g, c))

(* Where a piece and a file overlap, WritePiece takes a part of the piece   *)
(* that exists, writes it inside the file, covers exactly the bytes of the  *)
(* file that lie in the piece, and puts to each the byte of the torrent     *)
(* that belongs there (nothing, for an empty file inside a piece).          *)
THEOREM WriteCoversOverlap ==
    ASSUME NEW g \in Nat, NEW n \in Nat \ {0}, NEW c \in Nat, NEW L \in Nat,
           Overlaps(g, n, c, L)
    PROVE  /\ 0 <= StartInPiece(g, c)
           /\ StartInPiece(g, c) <= EndInPiece(g, n, c, L)
           /\ EndInPiece(g, n, c, L) <= n
           /\ Covered(g, n, c, L) \subseteq 0 .. L - 1
           /\ \A x \in 0 .. L - 1 :
                 x \in Covered(g, n, c, L) <=> g <= c + x /\ c + x < g + n
           /\ \A x \in Covered(g, n, c, L) : Source(g, c, x) = c + x
<1> DEFINE end == EndInPiece(g, n, c, L)
<1>1. CASE g > c
  <2>1. /\ WriteAt(g, c) = g - c /\ StartInPiece(g, c) = 0
        /\ end = IF c + L - g < n THEN c + L - g ELSE n
    BY <1>1 DEF WriteAt, StartInPiece, EndInPiece, Lesser
  <2>2. end \in Nat /\ 0 < end /\ end <= n /\ end <= c + L - g
    BY <1>1, <2>1 DEF Overlaps
  <2>3. CASE end = n
    BY <1>1, <2>1, <2>2, <2>3 DEF Overlaps, Covered, Source
  <2>4. CASE end = c + L - g
    BY <1>1, <2>1, <2>2, <2>4 DEF Overlaps, Covered, Source
  <2>5. QED
    BY <2>1, <2>3, <2>4
<1>2. CASE g <= c
  <2>0. WriteAt(g, c) = 0 /\ StartInPiece(g, c) = c - g
    BY <1>2 DEF WriteAt, StartInPiece
  <2>1. /\ WriteAt(g, c) = 0 /\ StartInPiece(g, c) = c - g
        /\ end = IF (c - g) + L < n THEN (c - g) + L ELSE n
    BY <1>2, <2>0 DEF EndInPiece, Lesser
  <2>2. end \in Nat /\ c - g <= end /\ end <= n /\ end <= (c - g) + L
    BY <1>2, <2>1 DEF Overlaps
  <2>3. CASE end = n
    BY <1>2, <2>1, <2>2, <2>3 DEF Overlaps, Covered, Source
  <2>4. CASE end = (c - g) + L
    BY <1>2, <2>1, <2>2, <2>4 DEF Overlaps, Covered, Source
  <2>5. QED
    BY <2>1, <2>3, <2>4
<1>3. QED
  BY <1>1, <1>2

(* A file that WritePiece passes over holds no byte of the piece. *)
THEOREM PassedFilesDisjoint ==
    ASSUME NEW g \in Nat, NEW n \in Nat \ {0}, NEW c \in Nat, NEW L \in Nat,
           ~Overlaps(g, n, c, L)
    PROVE  \A x \in 0 .. L - 1 : ~(g <= c + x /\ c + x < g + n)
  BY DEF Overlaps

-----------------------------------------------------------------------------
(* Offsets is defined by recursion.  What it computes is shown by its least *)
(* counterexample: a set of natural numbers that is not empty has a least   *)
(* element.                                                                 *)

Less == {ss \in Nat \X Nat : ss[1] < ss[2]}

LEMMA LessWellFounded == IsWellFoundedOn(Less, Nat)
  BY NatLessThanWellFounded, Zenon DEF OpToRel, Less

LEMMA LeastElement ==
    ASSUME NEW T \in SUBSET Nat, T # {}
    PROVE  \E x \in T : \A y \in T : x <= y
<1>1. PICK x \in T : \A y \in T : ~(<<y, x>> \in Less)
  BY LessWellFounded, WFMin
<1>2. ASSUME NEW y \in T, y < x PROVE FALSE
  <2>1. <<y, x>> \in Less
    BY <1>2 DEF Less
  <2> QED
    BY <1>1, <2>1
<1> QED
  BY <1>2

(* h is the function of the offsets after up to n files. *)
Sums(h, len, n) == h = [k \in 0 .. n |-> IF k = 0 THEN 0 ELSE h[k - 1] + len[k]]

LEMMA SumsExist ==
    ASSUME NEW len \in Seq(Nat), NEW n \in Nat
    PROVE  \E h : Sums(h, len, n)
<1> DEFINE T == {m \in Nat : ~\E h : Sums(h, len, m)}
<1> SUFFICES ASSUME T # {} PROVE FALSE
  OBVIOUS
<1>1. PICK m \in T : \A y \in T : m <= y
  BY LeastElement
<1>2. CASE m = 0
  <2>1. Sums([k \in 0 .. 0 |-> 0], len, 0)
    BY DEF Sums
  <2> QED
    BY <1>1, <1>2, <2>1
<1>3. CASE m # 0
  <2>1. m \in Nat /\ m - 1 \in Nat /\ m - 1 \notin T
    BY <1>1, <1>3
  <2>2. PICK h : Sums(h, len, m - 1)
    BY <2>1
  <2> DEFINE e == [k \in 0 .. m |-> IF k = m THEN h[m - 1] + len[m] ELSE h[k]]
  <2>3. ASSUME NEW k \in 0 .. m
        PROVE  e[k] = IF k = 0 THEN 0 ELSE e[k - 1] + len[k]
    <3>1. CASE k = m
      BY <2>1, <1>3, <3>1
    <3>2. CASE k # m
      <4>1. k \in 0 .. m - 1
        BY <2>1, <3>2
      <4>2. h[k] = IF k = 0 THEN 0 ELSE h[k - 1] + len[k]
        BY <4>1, <2>2 DEF Sums
      <4> QED
        BY <4>1, <4>2, <2>1
    <3> QED
      BY <3>1, <3>2
  <2>4. Sums(e, len, m)
    <3> HIDE DEF e
    <3>1. e = [k \in 0 .. m |-> e[k]]
      BY DEF e
    <3> QED
      BY <2>3, <3>1 DEF Sums
  <2> QED
    BY <1>1, <2>4
<1> QED
  BY <1>2, <1>3

(* Offsets is the function its definition describes. *)
LEMMA OffsetsRecur ==
    ASSUME NEW len \in Seq(Nat)
    PROVE  /\ DOMAIN Offsets(len) = 0 .. Len(len)
           /\ Offsets(len)[0] = 0
           /\ \A k \in 1 .. Len(len) :
                Offsets(len)[k] = Offsets(len)[k - 1] + len[k]
<1>1. PICK n \in Nat : n = Len(len)
  OBVIOUS
<1>2. \E h : Sums(h, len, n)
  BY SumsExist
<1>3. \E h : h = [k \in 0 .. Len(len) |->
                    IF k = 0 THEN 0 ELSE h[k - 1] + len[k]]
  BY <1>1, <1>2 DEF Sums
<1>4. Offsets(len) = [k \in 0 .. Len(len) |->
                        IF k = 0 THEN 0 ELSE Offsets(len)[k - 1] + len[k]]
  BY <1>3, Zenon DEF Offsets
<1>5. PICK o : o = Offsets(len)
  OBVIOUS
<1>6. o = [k \in 0 .. Len(len) |-> IF k = 0 THEN 0 ELSE o[k - 1] + len[k]]
  BY <1>4, <1>5
<1>7. /\ DOMAIN o = 0 .. Len(len) /\ o[0] = 0
      /\ \A k \in 1 .. Len(len) : o[k] = o[k - 1] + len[k]
  BY <1>1, <1>6
<1> QED
  BY <1>5, <1>7

LEMMA OffsetsNat ==
    ASSUME NEW len \in Seq(Nat)
    PROVE  \A k \in 0 .. Len(len) : Offsets(len)[k] \in Nat
<1> DEFINE T == {m \in 0 .. Len(len) : Offsets(len)[m] \notin Nat}
<1> SUFFICES ASSUME T # {} PROVE FALSE
  OBVIOUS
<1>1. T \in SUBSET Nat
  OBVIOUS
<1>2. PICK m \in T : \A y \in T : m <= y
  BY <1>1, LeastElement
<1>3. m # 0
  BY <1>2, OffsetsRecur
<1>4. m - 1 \in 0 .. Len(len) /\ m - 1 \notin T /\ len[m] \in Nat
  BY <1>2, <1>3
<1>5. Offsets(len)[m] = Offsets(len)[m - 1] + len[m]
  BY <1>2, <1>3, OffsetsRecur
<1> QED
  BY <1>2, <1>4, <1>5

(* Files lie one after the other. *)
LEMMA OffsetsGrow ==
    ASSUME NEW len \in Seq(Nat), NEW j \in 0 .. Len(len)
    PROVE  \A k \in j .. Len(len) : Offsets(len)[j] <= Offsets(len)[k]
<1> DEFINE T == {m \in j .. Len(len) : ~(Offsets(len)[j] <= Offsets(len)[m])}
<1> SUFFICES ASSUME T # {} PROVE FALSE
  OBVIOUS
<1>1. T \in SUBSET Nat
  OBVIOUS
<1>2. PICK m \in T : \A y \in T : m <= y
  BY <1>1, LeastElement
<1>3. m # j
  BY <1>2, OffsetsNat
<1>4. m - 1 \in j .. Len(len) /\ m - 1 \notin T /\ len[m] \in Nat
  BY <1>2, <1>3
<1>5. Offsets(len)[m] = Offsets(len)[m - 1] + len[m]
  BY <1>2, <1>3, OffsetsRecur
<1>6. /\ Offsets(len)[m] \in Nat /\ Offsets(len)[m - 1] \in Nat
      /\ Offsets(len)[j] \in Nat
  BY <1>2, <1>4, OffsetsNat
<1> QED
  BY <1>2, <1>4, <1>5, <1>6

(* The offsets of the files, for a layout of any number of files. *)
LEMMA Starts ==
    ASSUME length \in Seq(Nat)
    PROVE  /\ TotalSize \in Nat /\ Start(1) = 0
           /\ \A e \in 1 .. Len(length) + 1 : Start(e) \in Nat
           /\ \A e \in 1 .. Len(length) :
                /\ Start(e + 1) = Start(e) + length[e]
                /\ Start(e) + length[e] <= TotalSize
<1>1. Len(length) \in Nat
  OBVIOUS
<1>2. \A e \in 1 .. Len(length) + 1 : Start(e) \in Nat
  BY <1>1, OffsetsNat DEF Start
<1>3. Start(1) = 0
  BY <1>1, OffsetsRecur DEF Start
<1>4. TotalSize \in Nat
  BY <1>1, <1>2 DEF TotalSize
<1>5. ASSUME NEW e \in 1 .. Len(length)
      PROVE  /\ Start(e + 1) = Start(e) + length[e]
             /\ Start(e) + length[e] <= TotalSize
  <2>1. Offsets(length)[e] = Offsets(length)[e - 1] + length[e]
    BY OffsetsRecur
  <2>2. Start(e + 1) = Offsets(length)[e] /\ Start(e) = Offsets(length)[e - 1]
    BY DEF Start
  <2>3. TotalSize = Offsets(length)[Len(length)]
    BY <1>1 DEF Start, TotalSize
  <2>4. Offsets(length)[e] <= Offsets(length)[Len(length)]
    BY <1>1, OffsetsGrow
  <2> QED
    BY <2>1, <2>2, <2>3, <2>4
<1> QED
  BY <1>2, <1>3, <1>4, <1>5

-----------------------------------------------------------------------------
(* The inductive invariant *)

(* How much of a piece of n bytes at g lies before position c. *)
Clip(g, n, c) == IF c <= g THEN 0 ELSE IF c < g + n THEN c - g ELSE n

Typed == /\ length \in Seq(Nat) /\ pieceLength \in Nat \ {0}
         /\ done \subseteq Piece
         /\ w \in [file : 0 .. Len(length) + 1, piece : Nat, wrote : Nat,
                   err : {"none", "io"}]
         /\ w.file = 0 => w = Idle
         /\ w.file # 0 => w.piece \in Piece
         /\ DOMAIN disk = DOMAIN length
         /\ \A e \in DOMAIN length : disk[e] = [x \in 0 .. length[e] - 1 |-> disk[e][x]]

(* No byte is in a place that is not its own. *)
InPlace == \A e \in DOMAIN length : \A x \in 0 .. length[e] - 1 :
             disk[e][x] \in {0, Start(e) + x + 1}

(* The bytes from g on that lie in the files before file k are written. *)
WrittenBefore(g, n, k) ==
    \A e \in DOMAIN length : \A x \in 0 .. length[e] - 1 :
      e < k /\ g <= Start(e) + x /\ Start(e) + x < g + n
        => disk[e][x] = Start(e) + x + 1

(* Finished pieces are complete, ... *)
DoneWritten == \A i \in done :
                 WrittenBefore(i * pieceLength, PieceSize(i), Len(length) + 1)

(* ... and of the piece under way as much as the walk has come past.        *)
Progress == w.file # 0 =>
              /\ WrittenBefore(Global, Bytes, w.file)
              /\ w.wrote = Clip(Global, Bytes, Start(w.file))

SInv == Typed /\ InPlace /\ DoneWritten /\ Progress

-----------------------------------------------------------------------------

(* What a turn of the walk adds to dataOffset is what the file holds of the *)
(* piece.                                                                   *)
LEMMA CountIsOverlap ==
    ASSUME NEW g \in Nat, NEW n \in Nat \ {0}, NEW c \in Nat, NEW L \in Nat
    PROVE  Clip(g, n, c + L) =
             IF Overlaps(g, n, c, L)
             THEN Clip(g, n, c) + (EndInPiece(g, n, c, L) - StartInPiece(g, c))
             ELSE Clip(g, n, c)
  BY DEF Clip, Overlaps, EndInPiece, StartInPiece, WriteAt, Lesser

(* The place and the size of a piece: it is not empty and ends inside the   *)
(* byte space.                                                              *)
LEMMA PieceBounds ==
    ASSUME Typed, NEW i \in Piece
    PROVE  /\ i \in Nat /\ i * pieceLength \in Nat
           /\ PieceSize(i) \in Nat \ {0} /\ PieceSize(i) <= pieceLength
           /\ i * pieceLength + PieceSize(i) <= TotalSize
<1>1. length \in Seq(Nat) /\ pieceLength \in Nat \ {0}
  BY DEF Typed
<1>2. TotalSize \in Nat
  BY <1>1, Starts
<1>3. i \in Nat /\ i * pieceLength \in Nat /\ i * pieceLength < TotalSize
  BY <1>1, <1>2 DEF Piece
<1> QED
  BY <1>1, <1>2, <1>3 DEF PieceSize, Lesser

(* Byte g belongs to the piece that PieceOf names. *)
LEMMA DivBounds ==
    ASSUME NEW g \in Nat, NEW p \in Nat \ {0}
    PROVE  (g \div p) \in Nat /\ (g \div p) * p <= g /\ g < (g \div p) * p + p
  OBVIOUS

LEMMA SInvGives == SInv => BytesInPlace
<1> SUFFICES ASSUME SInv PROVE BytesInPlace
  OBVIOUS
<1>1. w.err # "mismatch"
  BY DEF SInv, Typed
<1>2. ASSUME NEW e \in File, NEW x \in DOMAIN disk[e]
      PROVE  /\ disk[e][x] \in {0, Start(e) + x + 1}
             /\ PieceOf(Start(e) + x) \in done => disk[e][x] = Start(e) + x + 1
  <2>1. /\ e \in DOMAIN length /\ e \in 1 .. Len(length) /\ x \in 0 .. length[e] - 1
        /\ length \in Seq(Nat) /\ length[e] \in Nat
        /\ pieceLength \in Nat \ {0} /\ Typed
    <3>1. e \in DOMAIN length /\ Typed
      BY <1>2 DEF SInv, File
    <3>2. disk[e] = [y \in 0 .. length[e] - 1 |-> disk[e][y]]
      BY <3>1 DEF Typed
    <3>3. x \in 0 .. length[e] - 1
      BY <1>2, <3>2
    <3> QED
      BY <3>1, <3>3 DEF Typed
  <2>2. disk[e][x] \in {0, Start(e) + x + 1}
    BY <2>1 DEF SInv, InPlace
  <2>3. ASSUME PieceOf(Start(e) + x) \in done PROVE disk[e][x] = Start(e) + x + 1
    <3>1. Start(e) \in Nat /\ Start(e) + length[e] <= TotalSize /\ TotalSize \in Nat
      BY <2>1, Starts
    <3>2. PICK g \in Nat : g = Start(e) + x
      BY <2>1, <3>1
    <3>3. PICK i : i = g \div pieceLength
      OBVIOUS
    <3>4. i \in Nat /\ i * pieceLength <= g /\ g < i * pieceLength + pieceLength
      BY <2>1, <3>2, <3>3, DivBounds
    <3>5. i \in done
      BY <2>3, <3>2, <3>3, Zenon DEF PieceOf
    <3>6. g < i * pieceLength + PieceSize(i)
      <4>1. PICK P, T, z : P = pieceLength /\ T = TotalSize /\ z = i * P
        OBVIOUS
      <4>2. P \in Nat /\ T \in Nat /\ z \in Int /\ g \in Nat /\ g < z + P
        BY <2>1, <3>1, <3>4, <4>1
      <4>3. g < T
        BY <2>1, <3>1, <3>2, <4>1
      <4>4. PieceSize(i) = IF P < T - z THEN P ELSE T - z
        BY <4>1, Zenon DEF PieceSize, Lesser
      <4> QED
        BY <4>1, <4>2, <4>3, <4>4
    <3>7. WrittenBefore(i * pieceLength, PieceSize(i), Len(length) + 1)
      BY <3>5 DEF SInv, DoneWritten
    <3>8. PICK z, n, k : z = i * pieceLength /\ n = PieceSize(i) /\ k = Len(length) + 1
      OBVIOUS
    <3>9. WrittenBefore(z, n, k)
      BY <3>7, <3>8, Zenon
    <3>10. e < k
      BY <2>1, <3>8
    <3>11. z <= g /\ g < z + n
      BY <3>4, <3>6, <3>8, Zenon
    <3> QED
      BY <2>1, <3>2, <3>9, <3>10, <3>11 DEF WrittenBefore
  <2> QED
    BY <2>2, <2>3
<1> QED
  BY <1>1, <1>2 DEF BytesInPlace

-----------------------------------------------------------------------------
(* Every step keeps the invariant. *)

(* The files as Preallocate leaves them. *)
Fresh == /\ length \in Seq(Nat) /\ pieceLength \in Nat \ {0}
         /\ disk = [e \in DOMAIN length |-> [x \in 0 .. length[e] - 1 |-> 0]]
         /\ done = {} /\ w = Idle

LEMMA FreshHolds == Fresh => SInv
<1> SUFFICES ASSUME Fresh PROVE SInv
  OBVIOUS
<1>1. Typed
  BY DEF Fresh, Typed, Idle
<1>2. InPlace
  BY DEF Fresh, InPlace
<1>3. DoneWritten /\ Progress
  BY DEF Fresh, DoneWritten, Progress, Idle
<1> QED
  BY <1>1, <1>2, <1>3 DEF SInv

(* The layout does not change while pieces are written. *)
LEMMA LayoutKept ==
    ASSUME UNCHANGED <<length, pieceLength>>
    PROVE  /\ \A e : Start(e)' = Start(e)
           /\ TotalSize' = TotalSize /\ Piece' = Piece
           /\ \A i : PieceSize(i)' = PieceSize(i)
<1>1. \A e : Start(e)' = Start(e)
  BY DEF Start
<1>2. TotalSize' = TotalSize
  BY DEF Start, TotalSize
<1> QED
  BY <1>1, <1>2 DEF Piece, PieceSize

(* Writing to the file where the walk stands. *)
LEMMA TurnFacts ==
    ASSUME SInv, Walking
    PROVE  /\ w.file \in DOMAIN length /\ w.file \in 1 .. Len(length)
           /\ length \in Seq(Nat) /\ length[w.file] \in Nat
           /\ w.piece \in Piece /\ Global \in Nat /\ Bytes \in Nat \ {0}
           /\ Start(w.file) \in Nat
           /\ Start(w.file + 1) = Start(w.file) + length[w.file]
<1>1. /\ w.file \in DOMAIN length /\ w.file \in 1 .. Len(length)
      /\ length \in Seq(Nat) /\ length[w.file] \in Nat /\ w.piece \in Piece
      /\ Typed
  BY DEF SInv, Typed, Walking, File
<1>2. Global \in Nat /\ Bytes \in Nat \ {0}
  BY <1>1, PieceBounds DEF Global, Bytes
<1> QED
  BY <1>1, <1>2, Starts

(* The file after the write: each byte of it that lies in the piece is in   *)
(* its place, the others are as they were.                                  *)
LEMMA WrittenIs ==
    ASSUME SInv, Walking, InFile(w.file)
    PROVE  LET c == Start(w.file) IN
           /\ Written(w.file) = [x \in 0 .. length[w.file] - 1 |-> Written(w.file)[x]]
           /\ \A x \in 0 .. length[w.file] - 1 :
                Written(w.file)[x] = IF Global <= c + x /\ c + x < Global + Bytes
                                     THEN c + x + 1 ELSE disk[w.file][x]
<1>1. PICK k : k = w.file
  OBVIOUS
<1> DEFINE g == Global n == Bytes c == Start(k) L == length[k]
           from == StartInPiece(g, c) at == WriteAt(g, c)
           to == EndInPiece(g, n, c, L)
<1>2. g \in Nat /\ n \in Nat \ {0} /\ c \in Nat /\ L \in Nat /\ Overlaps(g, n, c, L)
  BY <1>1, TurnFacts DEF InFile
<1>3. DOMAIN disk[k] = 0 .. L - 1
  <2>1. k \in DOMAIN length /\ Typed
    BY <1>1, TurnFacts DEF SInv
  <2>2. disk[k] = [x \in 0 .. length[k] - 1 |-> disk[k][x]]
    BY <2>1 DEF Typed
  <2> QED
    BY <2>2
<1>4. at .. at + (to - from) - 1 = Covered(g, n, c, L)
  BY DEF Covered
<1>5. /\ Covered(g, n, c, L) \subseteq 0 .. L - 1
      /\ \A x \in 0 .. L - 1 :
            x \in Covered(g, n, c, L) <=> g <= c + x /\ c + x < g + n
      /\ \A x \in Covered(g, n, c, L) : Source(g, c, x) = c + x
  <2> HIDE DEF g, n, c, L
  <2> QED
    BY <1>2, WriteCoversOverlap
<1>6. Written(k) = [x \in 0 .. L - 1 |->
                      IF x \in Covered(g, n, c, L) THEN Source(g, c, x) + 1
                      ELSE disk[k][x]]
  <2>1. DOMAIN disk[k] \cup Covered(g, n, c, L) = 0 .. L - 1
    BY <1>3, <1>5
  <2>2. Written(k) = [x \in DOMAIN disk[k] \cup Covered(g, n, c, L) |->
                       IF x \in Covered(g, n, c, L) THEN g + from + (x - at) + 1
                       ELSE disk[k][x]]
    BY <1>4, Zenon DEF Written
  <2> QED
    BY <2>1, <2>2 DEF Source
<1> QED
  <2> HIDE DEF g, n, c, L
  <2>1. \A x \in 0 .. L - 1 :
          Written(k)[x] = IF g <= c + x /\ c + x < g + n THEN c + x + 1
                          ELSE disk[k][x]
    BY <1>5, <1>6
  <2>2. Written(k) = [x \in 0 .. L - 1 |-> Written(k)[x]]
    BY <1>6
  <2> QED
    BY <1>1, <2>1, <2>2 DEF g, n, c, L

(* However much of it reaches the disk, a write leaves every byte in place *)
(* and what was written stays written.                                     *)
LEMMA DiskKept ==
    ASSUME SInv, Walking, InFile(w.file), NEW d,
           d = [x \in 0 .. length[w.file] - 1 |-> d[x]],
           \A x \in 0 .. length[w.file] - 1 :
              d[x] = Written(w.file)[x] \/ d[x] = disk[w.file][x],
           disk' = [disk EXCEPT ![w.file] = d],
           UNCHANGED <<length, pieceLength>>
    PROVE  /\ DOMAIN disk' = DOMAIN length
           /\ \A e \in DOMAIN length :
                disk'[e] = [x \in 0 .. length[e] - 1 |-> disk'[e][x]]
           /\ InPlace'
           /\ \A g, n, k : WrittenBefore(g, n, k) => WrittenBefore(g, n, k)'
<1>1. /\ w.file \in DOMAIN length /\ DOMAIN disk = DOMAIN length
      /\ \A e \in DOMAIN length : disk[e] = [x \in 0 .. length[e] - 1 |-> disk[e][x]]
  BY TurnFacts DEF SInv, Typed
<1>2. \A e \in DOMAIN length : disk'[e] = IF e = w.file THEN d ELSE disk[e]
  BY <1>1
<1>3. DOMAIN disk' = DOMAIN length
  BY <1>1
<1>4. \A e \in DOMAIN length : disk'[e] = [x \in 0 .. length[e] - 1 |-> disk'[e][x]]
  BY <1>1, <1>2
<1>5. \A e : Start(e)' = Start(e)
  BY LayoutKept
<1>6. \A e \in DOMAIN length : \A x \in 0 .. length[e] - 1 :
        disk'[e][x] = disk[e][x] \/ disk'[e][x] = Start(e) + x + 1
  <2> SUFFICES ASSUME NEW e \in DOMAIN length, NEW x \in 0 .. length[e] - 1
               PROVE  disk'[e][x] = disk[e][x] \/ disk'[e][x] = Start(e) + x + 1
    OBVIOUS
  <2>1. CASE e = w.file
    <3>1. disk'[e][x] = Written(e)[x] \/ disk'[e][x] = disk[e][x]
      BY <1>2, <2>1
    <3>2. Written(e)[x] = Start(e) + x + 1 \/ Written(e)[x] = disk[e][x]
      BY <2>1, WrittenIs
    <3> QED
      BY <3>1, <3>2
  <2>2. CASE e # w.file
    BY <1>2, <2>2
  <2> QED
    BY <2>1, <2>2
<1>7. InPlace'
  <2>1. InPlace
    BY DEF SInv
  <2> QED
    BY <1>5, <1>6, <2>1 DEF InPlace
<1>8. ASSUME NEW g, NEW n, NEW k, WrittenBefore(g, n, k)
      PROVE  WrittenBefore(g, n, k)'
  BY <1>5, <1>6, <1>8 DEF WrittenBefore
<1> QED
  BY <1>3, <1>4, <1>7, <1>8

LEMMA KeepsWritePiece ==
    ASSUME SInv, NEW i \in Piece, WritePiece(i)
    PROVE  SInv'
<1>1. /\ UNCHANGED <<length, pieceLength, disk, done>>
      /\ w' = [file |-> 1, piece |-> i, wrote |-> 0, err |-> "none"]
  BY DEF WritePiece
<1>2. /\ \A e : Start(e)' = Start(e)
      /\ Piece' = Piece /\ \A j : PieceSize(j)' = PieceSize(j)
  BY <1>1, LayoutKept
<1>3. length \in Seq(Nat) /\ Typed /\ i \in Nat
  BY PieceBounds DEF SInv, Typed
<1>4. Typed'
  BY <1>1, <1>2, <1>3 DEF Typed
<1>5. InPlace' /\ DoneWritten'
  BY <1>1, <1>2 DEF SInv, InPlace, DoneWritten, WrittenBefore
<1>6. Progress'
  <2>1. Global' = i * pieceLength /\ Bytes' = PieceSize(i)
    BY <1>1, <1>2 DEF Global, Bytes
  <2>2. Start(w'.file) = 0 /\ w'.wrote = 0 /\ w'.file = 1
    BY <1>1, <1>3, Starts
  <2>3. Clip(i * pieceLength, PieceSize(i), 0) = 0
    BY <1>3, PieceBounds DEF Clip
  <2>4. WrittenBefore(Global, Bytes, w.file)'
    BY <1>1, <1>3, <2>2 DEF WrittenBefore
  <2>5. Start(w.file)' = 0
    BY <2>2, <1>1 DEF Start
  <2> QED
    BY <2>1, <2>2, <2>3, <2>4, <2>5 DEF Progress
<1> QED
  BY <1>4, <1>5, <1>6 DEF SInv

LEMMA KeepsWriteFile ==
    ASSUME SInv, WriteFile
    PROVE  SInv'
<1>1. /\ Walking /\ InFile(w.file) /\ UNCHANGED <<length, pieceLength, done>>
      /\ disk' = [disk EXCEPT ![w.file] = Written(w.file)]
      /\ w' = [w EXCEPT !.file = @ + 1, !.wrote = @ + Count(w.file)]
  BY DEF WriteFile
<1>2. /\ \A e : Start(e)' = Start(e)
      /\ Piece' = Piece /\ \A j : PieceSize(j)' = PieceSize(j)
  BY <1>1, LayoutKept
<1>3. /\ DOMAIN disk' = DOMAIN length
      /\ \A e \in DOMAIN length :
           disk'[e] = [x \in 0 .. length[e] - 1 |-> disk'[e][x]]
      /\ InPlace'
      /\ \A g, n, k : WrittenBefore(g, n, k) => WrittenBefore(g, n, k)'
  BY <1>1, WrittenIs, DiskKept
<1>4. /\ w \in [file : 0 .. Len(length) + 1, piece : Nat, wrote : Nat,
                 err : {"none", "io"}]
      /\ w.file \in 1 .. Len(length) /\ w.piece \in Piece /\ Global \in Nat
      /\ Bytes \in Nat \ {0} /\ length[w.file] \in Nat /\ Start(w.file) \in Nat
      /\ length \in Seq(Nat) /\ w.file \in DOMAIN length
      /\ Start(w.file + 1) = Start(w.file) + length[w.file]
  BY <1>1, TurnFacts DEF SInv, Typed
<1>5. /\ Count(w.file) \in Nat
      /\ Clip(Global, Bytes, Start(w.file + 1))
           = Clip(Global, Bytes, Start(w.file)) + Count(w.file)
  <2>1. PICK g, n, c, L : /\ g = Global /\ n = Bytes
                          /\ c = Start(w.file) /\ L = length[w.file]
    OBVIOUS
  <2>2. g \in Nat /\ n \in Nat \ {0} /\ c \in Nat /\ L \in Nat
    BY <1>4, <2>1
  <2>3. Overlaps(g, n, c, L)
    BY <1>1, <2>1 DEF InFile
  <2>4. Count(w.file) = EndInPiece(g, n, c, L) - StartInPiece(g, c)
    BY <2>1 DEF Count
  <2>5. EndInPiece(g, n, c, L) - StartInPiece(g, c) \in Nat
    BY <2>2, <2>3 DEF EndInPiece, StartInPiece, WriteAt, Lesser, Overlaps
  <2>6. Clip(g, n, c + L) = Clip(g, n, c) + (EndInPiece(g, n, c, L) - StartInPiece(g, c))
    BY <2>2, <2>3, CountIsOverlap
  <2> QED
    BY <1>4, <2>1, <2>4, <2>5, <2>6
<1>6. /\ w'.file = w.file + 1 /\ w'.piece = w.piece /\ w'.err = w.err
      /\ w'.wrote = w.wrote + Count(w.file)
      /\ w' \in [file : 0 .. Len(length) + 1, piece : Nat, wrote : Nat,
                 err : {"none", "io"}]
  <2>1. PICK v, m : v = w /\ m = Count(w.file)
    OBVIOUS
  <2>2. /\ v \in [file : 0 .. Len(length) + 1, piece : Nat, wrote : Nat,
                  err : {"none", "io"}]
        /\ v.file + 1 \in 0 .. Len(length) + 1 /\ v.wrote + m \in Nat
    <3>1. /\ v \in [file : 0 .. Len(length) + 1, piece : Nat, wrote : Nat,
                     err : {"none", "io"}]
          /\ v.file \in 1 .. Len(length) /\ m \in Nat
      BY <1>4, <1>5, <2>1, Zenon
    <3>2. v.wrote \in Nat /\ Len(length) \in Nat
      BY <1>4, <3>1
    <3> QED
      BY <3>1, <3>2
  <2>3. w' = [v EXCEPT !.file = v.file + 1, !.wrote = v.wrote + m]
    BY <1>1, <2>1
  <2>4. /\ w'.file = v.file + 1 /\ w'.piece = v.piece /\ w'.err = v.err
        /\ w'.wrote = v.wrote + m
    <3>1. PICK a, b, u : a = v.file + 1 /\ b = v.wrote + m /\ u = w'
      OBVIOUS
    <3>2. u = [v EXCEPT !.file = a, !.wrote = b]
      BY <2>3, <3>1, Zenon
    <3>3. u.file = a /\ u.piece = v.piece /\ u.err = v.err /\ u.wrote = b
      BY <2>2, <3>2
    <3> QED
      BY <3>1, <3>3, Zenon
  <2>5. w' \in [file : 0 .. Len(length) + 1, piece : Nat, wrote : Nat,
               err : {"none", "io"}]
    <3>1. PICK a, b, u, S : /\ a = v.file + 1 /\ b = v.wrote + m /\ u = w'
                            /\ S = 0 .. Len(length) + 1
      OBVIOUS
    <3>2. u = [v EXCEPT !.file = a, !.wrote = b]
      BY <2>3, <3>1, Zenon
    <3>3. /\ v \in [file : S, piece : Nat, wrote : Nat, err : {"none", "io"}]
          /\ a \in S /\ b \in Nat
      BY <2>2, <3>1, Zenon
    <3>4. u \in [file : S, piece : Nat, wrote : Nat, err : {"none", "io"}]
      BY <3>2, <3>3
    <3> QED
      BY <3>1, <3>4, Zenon
  <2> QED
    BY <2>1, <2>4, <2>5
<1>7. Typed'
  <2>1. w'.file # 0
    BY <1>4, <1>6
  <2> QED
    BY <1>1, <1>2, <1>3, <1>4, <1>6, <2>1 DEF SInv, Typed
<1>8. DoneWritten'
  BY <1>1, <1>2, <1>3 DEF SInv, DoneWritten
<1>9. Progress'
  <2>1. Global' = Global /\ Bytes' = Bytes
    BY <1>1, <1>2, <1>6 DEF Global, Bytes
  <2>2. WrittenBefore(Global, Bytes, w.file) /\ w.wrote = Clip(Global, Bytes, Start(w.file))
    BY <1>4 DEF SInv, Progress
  <2>3. WrittenBefore(Global, Bytes, w.file)'
    <3>1. PICK g, n, k : g = Global /\ n = Bytes /\ k = w.file
      OBVIOUS
    <3>2. WrittenBefore(g, n, k)'
      BY <1>3, <2>2, <3>1
    <3>3. \A x \in 0 .. length[k] - 1 :
             g <= Start(k) + x /\ Start(k) + x < g + n => disk'[k][x] = Start(k) + x + 1
      BY <1>1, <1>3, <1>4, <3>1, WrittenIs
    <3>4. WrittenBefore(g, n, k + 1)'
      <4>1. k \in Int /\ k \in DOMAIN length /\ length' = length
        BY <1>1, <1>4, <3>1
      <4>2. ASSUME NEW e \in DOMAIN length, NEW x \in 0 .. length[e] - 1,
                   e < k + 1, g <= Start(e) + x, Start(e) + x < g + n
            PROVE  disk'[e][x] = Start(e) + x + 1
        <5>1. e \in Int
          BY <1>4, <4>2
        <5>2. CASE e = k
          BY <3>3, <4>2, <5>2
        <5>3. CASE e < k
          BY <1>2, <3>2, <4>1, <4>2, <5>3 DEF WrittenBefore
        <5> QED
          BY <4>1, <4>2, <5>1, <5>2, <5>3
      <4> QED
        BY <1>2, <4>1, <4>2 DEF WrittenBefore
    <3>5. Global' = g /\ Bytes' = n /\ w'.file = k + 1
      BY <1>6, <2>1, <3>1
    <3> QED
      BY <3>4, <3>5 DEF WrittenBefore
  <2> QED
    BY <1>2, <1>5, <1>6, <2>1, <2>2, <2>3 DEF Progress
<1> QED
  BY <1>3, <1>7, <1>8, <1>9 DEF SInv

LEMMA KeepsPassFile ==
    ASSUME SInv, PassFile
    PROVE  SInv'
<1>1. /\ Walking /\ ~InFile(w.file) /\ UNCHANGED <<length, pieceLength, disk, done>>
      /\ w' = [w EXCEPT !.file = @ + 1]
  BY DEF PassFile
<1>2. /\ \A e : Start(e)' = Start(e)
      /\ Piece' = Piece /\ \A j : PieceSize(j)' = PieceSize(j)
  BY <1>1, LayoutKept
<1>3. /\ w \in [file : 0 .. Len(length) + 1, piece : Nat, wrote : Nat,
                 err : {"none", "io"}]
      /\ w.file \in 1 .. Len(length) /\ w.piece \in Piece /\ Global \in Nat
      /\ Bytes \in Nat \ {0} /\ length[w.file] \in Nat /\ Start(w.file) \in Nat
      /\ length \in Seq(Nat) /\ w.file \in DOMAIN length
      /\ Start(w.file + 1) = Start(w.file) + length[w.file]
  BY <1>1, TurnFacts DEF SInv, Typed
<1>4. /\ w'.file = w.file + 1 /\ w'.piece = w.piece /\ w'.err = w.err
      /\ w'.wrote = w.wrote
      /\ w' \in [file : 0 .. Len(length) + 1, piece : Nat, wrote : Nat,
                 err : {"none", "io"}]
  <2>1. PICK v, a, u, S : /\ v = w /\ a = w.file + 1 /\ u = w'
                          /\ S = 0 .. Len(length) + 1
    OBVIOUS
  <2>2. Len(length) \in Nat /\ w.file + 1 \in 0 .. Len(length) + 1
    BY <1>3
  <2>3. /\ v \in [file : S, piece : Nat, wrote : Nat, err : {"none", "io"}]
        /\ a \in S /\ a = v.file + 1
    BY <1>3, <2>1, <2>2, Zenon
  <2>4. u = [v EXCEPT !.file = a]
    BY <1>1, <2>1
  <2>5. /\ u.file = a /\ u.piece = v.piece /\ u.err = v.err /\ u.wrote = v.wrote
        /\ u \in [file : S, piece : Nat, wrote : Nat, err : {"none", "io"}]
    BY <2>3, <2>4
  <2> QED
    BY <2>1, <2>5, Zenon
<1>5. Typed'
  <2>1. w'.file # 0
    BY <1>3, <1>4
  <2> QED
    BY <1>1, <1>2, <1>3, <1>4, <2>1 DEF SInv, Typed
<1>6. InPlace' /\ DoneWritten'
  BY <1>1, <1>2 DEF SInv, InPlace, DoneWritten, WrittenBefore
<1>7. Progress'
  <2>1. Global' = Global /\ Bytes' = Bytes
    BY <1>1, <1>2, <1>4 DEF Global, Bytes
  <2>2. WrittenBefore(Global, Bytes, w.file) /\ w.wrote = Clip(Global, Bytes, Start(w.file))
    BY <1>3 DEF SInv, Progress
  <2>3. PICK g, n, k : g = Global /\ n = Bytes /\ k = w.file
    OBVIOUS
  <2>4. /\ g \in Nat /\ n \in Nat \ {0} /\ Start(k) \in Nat /\ length[k] \in Nat
        /\ k \in Int /\ k \in DOMAIN length /\ ~Overlaps(g, n, Start(k), length[k])
        /\ length \in Seq(Nat)
    BY <1>1, <1>3, <2>3 DEF InFile
  <2>5. Clip(g, n, Start(k) + length[k]) = Clip(g, n, Start(k))
    BY <2>4, CountIsOverlap
  <2>6. \A x \in 0 .. length[k] - 1 : ~(g <= Start(k) + x /\ Start(k) + x < g + n)
    BY <2>4, PassedFilesDisjoint
  <2>7. WrittenBefore(g, n, k + 1)
    <3>1. WrittenBefore(g, n, k)
      BY <2>2, <2>3
    <3>2. ASSUME NEW e \in DOMAIN length, NEW x \in 0 .. length[e] - 1,
                 e < k + 1, g <= Start(e) + x, Start(e) + x < g + n
          PROVE  disk[e][x] = Start(e) + x + 1
      <4>1. e \in Int /\ e # k
        BY <2>4, <2>6, <3>2
      <4> QED
        BY <2>4, <3>1, <3>2, <4>1 DEF WrittenBefore
    <3> QED
      BY <3>2 DEF WrittenBefore
  <2>8. Global' = g /\ Bytes' = n /\ w'.file = k + 1
    BY <1>4, <2>1, <2>3
  <2>9. WrittenBefore(Global, Bytes, w.file)'
    BY <1>1, <1>2, <2>7, <2>8 DEF WrittenBefore
  <2> QED
    BY <1>2, <1>3, <1>4, <2>1, <2>2, <2>3, <2>5, <2>9 DEF Progress
<1> QED
  BY <1>5, <1>6, <1>7 DEF SInv

LEMMA KeepsFileFails ==
    ASSUME SInv, FileFails
    PROVE  SInv'
<1>1. /\ Walking /\ InFile(w.file) /\ UNCHANGED <<length, pieceLength, done>>
      /\ w' = [w EXCEPT !.err = "io"]
  BY DEF FileFails
<1>2. /\ \A e : Start(e)' = Start(e)
      /\ Piece' = Piece /\ \A j : PieceSize(j)' = PieceSize(j)
  BY <1>1, LayoutKept
<1>3. /\ DOMAIN disk' = DOMAIN length
      /\ \A e \in DOMAIN length :
           disk'[e] = [x \in 0 .. length[e] - 1 |-> disk'[e][x]]
      /\ InPlace'
      /\ \A g, n, k : WrittenBefore(g, n, k) => WrittenBefore(g, n, k)'
  <2>1. CASE UNCHANGED disk
    BY <1>1, <1>2, <2>1 DEF SInv, Typed, InPlace, WrittenBefore
  <2>2. CASE \E n \in 1 .. Count(w.file) :
               LET at == WriteAt(Global, Start(w.file)) IN
               disk' = [disk EXCEPT ![w.file] =
                          [x \in DOMAIN disk[w.file] |->
                             IF x < at + n THEN Written(w.file)[x]
                             ELSE disk[w.file][x]]]
    <3>1. PICK n, at :
             disk' = [disk EXCEPT ![w.file] =
                        [x \in DOMAIN disk[w.file] |->
                           IF x < at + n THEN Written(w.file)[x]
                           ELSE disk[w.file][x]]]
      BY <2>2
    <3> DEFINE d == [x \in DOMAIN disk[w.file] |->
                       IF x < at + n THEN Written(w.file)[x]
                       ELSE disk[w.file][x]]
    <3>2. disk[w.file] = [x \in 0 .. length[w.file] - 1 |-> disk[w.file][x]]
      BY <1>1, TurnFacts DEF SInv, Typed
    <3>3. DOMAIN disk[w.file] = 0 .. length[w.file] - 1
      BY <3>2
    <3>4. /\ d = [x \in 0 .. length[w.file] - 1 |-> d[x]]
          /\ \A x \in 0 .. length[w.file] - 1 :
               d[x] = Written(w.file)[x] \/ d[x] = disk[w.file][x]
      BY <3>3
    <3> HIDE DEF d
    <3> QED
      BY <1>1, <3>1, <3>4, DiskKept DEF d
  <2> QED
    BY <2>1, <2>2 DEF FileFails
<1>4. /\ w \in [file : 0 .. Len(length) + 1, piece : Nat, wrote : Nat,
                 err : {"none", "io"}]
      /\ w.file # 0
  BY <1>1, TurnFacts DEF SInv, Typed
<1>5. /\ w'.file = w.file /\ w'.piece = w.piece /\ w'.wrote = w.wrote
      /\ w' \in [file : 0 .. Len(length) + 1, piece : Nat, wrote : Nat,
                 err : {"none", "io"}]
  BY <1>1, <1>4
<1>6. Typed'
  BY <1>1, <1>2, <1>3, <1>4, <1>5 DEF SInv, Typed
<1>7. DoneWritten'
  BY <1>1, <1>2, <1>3 DEF SInv, DoneWritten
<1>8. Progress'
  <2>1. Global' = Global /\ Bytes' = Bytes
    BY <1>1, <1>2, <1>5 DEF Global, Bytes
  <2>2. WrittenBefore(Global, Bytes, w.file) /\ w.wrote = Clip(Global, Bytes, Start(w.file))
    BY <1>4 DEF SInv, Progress
  <2>3. PICK g, n, k : g = Global /\ n = Bytes /\ k = w.file
    OBVIOUS
  <2>4. WrittenBefore(g, n, k)'
    BY <1>3, <2>2, <2>3
  <2>5. WrittenBefore(Global, Bytes, w.file)'
    BY <1>5, <2>1, <2>3, <2>4 DEF WrittenBefore
  <2> QED
    BY <1>2, <1>5, <2>1, <2>2, <2>5 DEF Progress
<1> QED
  BY <1>3, <1>6, <1>7, <1>8 DEF SInv

(* The final check of WritePiece: dataOffset is len(data). *)
LEMMA KeepsWriteEnds ==
    ASSUME SInv, WriteEnds
    PROVE  SInv'
<1>1. /\ w.file = Len(length) + 1 /\ UNCHANGED <<length, pieceLength, disk>>
      /\ length \in Seq(Nat) /\ Len(length) \in Nat
  BY DEF SInv, Typed, WriteEnds
<1>2. /\ \A e : Start(e)' = Start(e)
      /\ Piece' = Piece /\ \A j : PieceSize(j)' = PieceSize(j)
  BY <1>1, LayoutKept
<1>3. w.piece \in Piece /\ w.file # 0
  BY <1>1 DEF SInv, Typed
<1>4. w.wrote = Bytes
  <2>1. w.wrote = Clip(Global, Bytes, Start(w.file))
    BY <1>3 DEF SInv, Progress
  <2>2. Start(w.file) = TotalSize /\ TotalSize \in Nat
    BY <1>1, Starts DEF TotalSize
  <2>3. Global \in Nat /\ Bytes \in Nat \ {0} /\ Global + Bytes <= TotalSize
    BY <1>3, PieceBounds DEF SInv, Global, Bytes
  <2> QED
    BY <2>1, <2>2, <2>3 DEF Clip
<1>5. done' = done \cup {w.piece} /\ w' = Idle
  BY <1>4 DEF WriteEnds
<1>6. Typed'
  BY <1>1, <1>2, <1>3, <1>5 DEF SInv, Typed, Idle
<1>7. InPlace' /\ Progress'
  BY <1>1, <1>2, <1>5 DEF SInv, InPlace, Progress, Idle
<1>8. DoneWritten'
  <2>1. WrittenBefore(w.piece * pieceLength, PieceSize(w.piece), Len(length) + 1)
    BY <1>1, <1>3 DEF SInv, Progress, Global, Bytes
  <2>2. \A i \in done \cup {w.piece} :
           WrittenBefore(i * pieceLength, PieceSize(i), Len(length) + 1)
    BY <2>1 DEF SInv, DoneWritten
  <2> QED
    BY <1>1, <1>2, <1>5, <2>2 DEF DoneWritten, WrittenBefore
<1> QED
  BY <1>6, <1>7, <1>8 DEF SInv

LEMMA StorageKeeps == SInv /\ [Next]_vars => SInv'
<1> SUFFICES ASSUME SInv, [Next]_vars PROVE SInv'
  OBVIOUS
<1>1. CASE \E i \in Piece : WritePiece(i)
  BY <1>1, KeepsWritePiece
<1>2. CASE WriteFile \/ PassFile \/ FileFails \/ WriteEnds
  BY <1>2, KeepsWriteFile, KeepsPassFile, KeepsFileFails, KeepsWriteEnds
<1>3. CASE UNCHANGED vars
  <2>1. UNCHANGED <<length, pieceLength, disk, done, w>>
    BY <1>3 DEF vars
  <2>2. /\ \A e : Start(e)' = Start(e)
        /\ Piece' = Piece /\ \A j : PieceSize(j)' = PieceSize(j)
    BY <2>1, LayoutKept
  <2>3. Typed' /\ InPlace' /\ DoneWritten'
    BY <2>1, <2>2 DEF SInv, Typed, InPlace, DoneWritten, WrittenBefore
  <2>4. Progress'
    BY <2>1, <2>2 DEF SInv, Progress, WrittenBefore, Global, Bytes, Start
  <2> QED
    BY <2>3, <2>4 DEF SInv
<1> QED
  BY <1>1, <1>2, <1>3 DEF Next

LEMMA StorageStarts == Init => SInv
<1> SUFFICES ASSUME Init PROVE SInv
  OBVIOUS
<1>1. Fresh
  BY ConstantsAssumption DEF Init, Fresh, File
<1> QED
  BY <1>1, FreshHolds

(* WritePiece on any layout, with any piece length and in any order of the  *)
(* pieces, also when a file cannot be written: every byte is in its own     *)
(* place or still zero, those of a finished piece are there, and the check  *)
(* "written bytes mismatch" never fires.                                    *)
THEOREM WrittenInPlace == Spec => []BytesInPlace
<1>1. Spec => []SInv
  BY StorageStarts, StorageKeeps, PTL DEF Spec
<1> QED
  BY <1>1, SInvGives, PTL

(* Storage is well typed: no file grows past its length, and dataOffset     *)
(* never exceeds the piece.                                                 *)
THEOREM TypeCorrect == Spec => []TypeOK
<1> DEFINE K == length \in Layouts /\ pieceLength \in PieceLengths
<1>1. Init => K
  BY DEF Init
<1>2. K /\ [Next]_vars => K'
  BY DEF Next, vars, WritePiece, WriteFile, PassFile, FileFails, WriteEnds
<1>3. SInv /\ K => TypeOK
  <2> SUFFICES ASSUME SInv, K PROVE TypeOK
    OBVIOUS
  <2>1. Typed /\ length \in Seq(Nat) /\ pieceLength \in Nat \ {0}
    BY DEF SInv, Typed
  <2>2. ASSUME NEW e \in File
        PROVE  disk[e] \in [0 .. length[e] - 1 -> 0 .. TotalSize]
    <3>1. /\ e \in DOMAIN length /\ e \in 1 .. Len(length) /\ length[e] \in Nat
      BY <2>1, <2>2 DEF File
    <3>2. disk[e] = [x \in 0 .. length[e] - 1 |-> disk[e][x]]
      BY <2>1, <3>1 DEF Typed
    <3>3. /\ Start(e) \in Nat /\ TotalSize \in Nat
          /\ Start(e) + length[e] <= TotalSize
      BY <2>1, <3>1, Starts
    <3>4. \A x \in 0 .. length[e] - 1 : disk[e][x] \in 0 .. TotalSize
      BY <3>1, <3>3 DEF SInv, InPlace
    <3> QED
      BY <3>2, <3>4
  <2>3. w.wrote \in 0 .. pieceLength
    <3>1. CASE w.file = 0
      BY <2>1, <3>1 DEF Typed, Idle
    <3>2. CASE w.file # 0
      <4>1. w.piece \in Piece /\ w.file \in 1 .. Len(length) + 1
        BY <2>1, <3>2 DEF Typed
      <4>2. /\ Global \in Nat /\ Bytes \in Nat \ {0} /\ Bytes <= pieceLength
            /\ Start(w.file) \in Nat
        BY <2>1, <4>1, PieceBounds, Starts DEF Global, Bytes
      <4> QED
        BY <2>1, <3>2, <4>2 DEF SInv, Progress, Clip
    <3> QED
      BY <3>1, <3>2
  <2>4. w.piece \in Piece \cup {0}
    BY <2>1 DEF Typed, Idle
  <2> QED
    BY <2>1, <2>2, <2>3, <2>4 DEF TypeOK, Typed, File
<1>4. Spec => []SInv
  BY StorageStarts, StorageKeeps, PTL DEF Spec
<1> QED
  BY <1>1, <1>2, <1>3, <1>4, PTL DEF Spec

-----------------------------------------------------------------------------
(* The same for a torrent from its creation on, whose layout is that of the *)
(* dictionary as it is parsed.                                              *)

TInv == /\ SInv
        /\ phase # "ready" => Fresh
        /\ phase = "made" => info.files = length

(* Parsing gives a layout, in whatever order the tree is walked. *)
LEMMA LayoutParsed ==
    ASSUME length \in Seq(Nat), info.files = length, NEW l \in ParsedFiles
    PROVE  l \in Seq(Nat)
<1>1. CASE info.form = "tree"
  <2>1. PICK p \in Bijection(DOMAIN length, DOMAIN length) :
            l = [k \in DOMAIN length |-> length[p[k]]]
    BY <1>1 DEF ParsedFiles
  <2>2. p \in [DOMAIN length -> DOMAIN length]
    BY DEF Bijection, Injection
  <2>3. l \in [1 .. Len(length) -> Nat] /\ Len(length) \in Nat
    BY <2>1, <2>2
  <2> QED
    BY <2>3
<1>2. CASE info.form # "tree"
  BY <1>2 DEF ParsedFiles
<1> QED
  BY <1>1, <1>2

LEMMA MakingKeeps == TInv /\ [TNext]_allVars => TInv'
<1> SUFFICES ASSUME TInv, [TNext]_allVars PROVE TInv'
  OBVIOUS
<1>1. CASE CheckOptions \/ HashFile \/ ReadChunk \/ HashPart \/ FileDone \/ ReadFails
  <2>1. UNCHANGED vars
    BY <1>1 DEF CheckOptions, HashFile, ReadChunk, HashPart, FileDone, ReadFails
  <2>2. SInv'
    BY <2>1, StorageKeeps DEF TInv
  <2>3. phase \in {"options", "hash", "read"}
    BY <1>1 DEF CheckOptions, HashFile, ReadChunk, HashPart, FileDone, ReadFails
  <2>4. Fresh'
    BY <2>1, <2>3 DEF TInv, Fresh, vars
  <2>5. phase' = "made" => info'.files = length'
    BY <1>1, <2>1, <2>3 DEF CheckOptions, HashFile, ReadChunk, HashPart, FileDone,
                            ReadFails, Refuse, Hybrid, vars
  <2> QED
    BY <2>2, <2>4, <2>5 DEF TInv
<1>2. CASE Parse
  <2>1. phase = "made" /\ Fresh /\ info.files = length
    BY <1>2 DEF Parse, TInv
  <2>2. UNCHANGED <<pieceLength, done, w, info>> /\ phase' # "made"
    BY <1>2 DEF Parse
  <2>3. Fresh'
    <3>1. CASE UNCHANGED <<length, disk>>
      BY <2>1, <2>2, <3>1 DEF Fresh
    <3>2. CASE /\ length' \in ParsedFiles
               /\ disk' = [g \in DOMAIN length' |-> [x \in 0 .. length'[g] - 1 |-> 0]]
      <4>1. length' \in Seq(Nat)
        BY <2>1, <3>2, LayoutParsed DEF Fresh
      <4> QED
        BY <2>1, <2>2, <3>2, <4>1 DEF Fresh
    <3> QED
      BY <1>2, <3>1, <3>2 DEF Parse
  <2>4. SInv'
    BY <2>3, FreshHolds, PTL
  <2> QED
    BY <2>2, <2>3, <2>4 DEF TInv
<1>3. CASE Download
  <2>1. SInv'
    BY <1>3, StorageKeeps DEF Download, TInv
  <2>2. phase' = "ready"
    BY <1>3 DEF Download, makeVars
  <2> QED
    BY <2>1, <2>2 DEF TInv
<1>4. CASE UNCHANGED allVars
  <2>1. SInv'
    BY <1>4, StorageKeeps DEF allVars, TInv
  <2> QED
    BY <1>4, <2>1 DEF allVars, vars, makeVars, TInv, Fresh
<1> QED
  BY <1>1, <1>2, <1>3, <1>4 DEF TNext

LEMMA MakingStarts == TInit => TInv
<1> SUFFICES ASSUME TInit PROVE TInv
  OBVIOUS
<1>1. Fresh
  BY ConstantsAssumption DEF TInit, Init, Fresh, File
<1>2. SInv
  BY <1>1, FreshHolds
<1>3. phase = "made" => info.files = length
  BY DEF TInit, ForeignInfo
<1> QED
  BY <1>1, <1>2, <1>3 DEF TInv

(* A torrent that was created here or elsewhere, parsed and downloaded: the *)
(* bytes of every piece that was written are at the places that the parsed  *)
(* layout gives them, and no write ends with a mismatch.                    *)
THEOREM DownloadInPlace == TSpec => []BytesInPlace
<1>1. TInv => BytesInPlace
  BY SInvGives DEF TInv
<1> QED
  BY <1>1, MakingStarts, MakingKeeps, PTL DEF TSpec

-----------------------------------------------------------------------------
(* The total does not depend on the order of the files. *)

(* The lengths of the files in A, the others being empty. *)
Masked(len, A) == [k \in 1 .. Len(len) |-> IF k \in A THEN len[k] ELSE 0]

LEMMA MaskedSeq ==
    ASSUME NEW len \in Seq(Nat), NEW A
    PROVE  Masked(len, A) \in Seq(Nat) /\ Len(Masked(len, A)) = Len(len)
<1>1. Len(len) \in Nat /\ Masked(len, A) \in [1 .. Len(len) -> Nat]
  BY DEF Masked
<1> QED
  BY <1>1 DEF Masked

(* One file more adds its length to every offset behind it. *)
LEMMA OneMore ==
    ASSUME NEW len \in Seq(Nat), NEW A, NEW a \in 1 .. Len(len), a \notin A
    PROVE  \A k \in 0 .. Len(len) :
             Offsets(Masked(len, A \cup {a}))[k]
               = Offsets(Masked(len, A))[k] + IF a <= k THEN len[a] ELSE 0
<1> DEFINE x == Masked(len, A)
           y == Masked(len, A \cup {a})
           T == {m \in 0 .. Len(len) :
                   Offsets(y)[m] # Offsets(x)[m] + IF a <= m THEN len[a] ELSE 0}
<1>0. /\ x \in Seq(Nat) /\ Len(x) = Len(len) /\ y \in Seq(Nat) /\ Len(y) = Len(len)
      /\ len[a] \in Nat /\ Len(len) \in Nat
  BY MaskedSeq
<1>1. \A k \in 1 .. Len(len) : y[k] = x[k] + IF k = a THEN len[a] ELSE 0
  BY DEF Masked
<1>a. \A k \in 1 .. Len(len) : x[k] \in Nat
  BY DEF Masked
<1> HIDE DEF x, y
<1>2. T \in SUBSET Nat
  OBVIOUS
<1>3. SUFFICES ASSUME T # {} PROVE FALSE
  BY DEF x, y
<1>4. PICK m \in T : \A z \in T : m <= z
  BY <1>2, <1>3, LeastElement
<1>5. m # 0
  BY <1>0, <1>4, OffsetsRecur
<1>6. m \in 1 .. Len(len) /\ m - 1 \in 0 .. Len(len) /\ m - 1 \notin T
  BY <1>4, <1>5
<1>7. Offsets(y)[m] = Offsets(y)[m - 1] + y[m] /\ Offsets(x)[m] = Offsets(x)[m - 1] + x[m]
  BY <1>0, <1>6, OffsetsRecur
<1>8. Offsets(x)[m - 1] \in Nat /\ x[m] \in Nat
  <2>1. Offsets(x)[m - 1] \in Nat
    BY <1>0, <1>6, OffsetsNat
  <2>2. x[m] \in Nat
    BY <1>a, <1>6, Zenon
  <2> QED
    BY <2>1, <2>2
<1>9. Offsets(y)[m - 1] = Offsets(x)[m - 1] + IF a <= m - 1 THEN len[a] ELSE 0
  BY <1>6
<1>10. y[m] = x[m] + IF m = a THEN len[a] ELSE 0
  BY <1>1, <1>6
<1>11. Offsets(y)[m] # Offsets(x)[m] + IF a <= m THEN len[a] ELSE 0
  BY <1>4
<1>12. m \in Int /\ a \in Int
  BY <1>6
<1> HIDE DEF T
<1>13. PICK p, q, r, s, L, xm, ym :
          /\ p = Offsets(x)[m - 1] /\ q = Offsets(y)[m - 1] /\ r = Offsets(x)[m]
          /\ s = Offsets(y)[m] /\ L = len[a] /\ xm = x[m] /\ ym = y[m]
  OBVIOUS
<1>14. p \in Nat /\ L \in Nat /\ xm \in Nat
  BY <1>0, <1>8, <1>13, Zenon
<1>15. s = q + ym /\ r = p + xm
  BY <1>7, <1>13, Zenon
<1>16. /\ q = p + IF a <= m - 1 THEN L ELSE 0
       /\ ym = xm + IF m = a THEN L ELSE 0
       /\ s # r + IF a <= m THEN L ELSE 0
  BY <1>9, <1>10, <1>11, <1>13, Zenon
<1> QED
  BY <1>12, <1>14, <1>15, <1>16

(* The first k values of p. *)
Seen(p, k) == {p[j] : j \in 1 .. k}

LEMMA SeenGrows ==
    ASSUME NEW n \in Nat, NEW p \in [1 .. n -> 1 .. n],
           \A j, k \in 1 .. n : p[j] = p[k] => j = k,
           NEW m \in 1 .. n
    PROVE  /\ Seen(p, m) = Seen(p, m - 1) \cup {p[m]}
           /\ p[m] \notin Seen(p, m - 1) /\ p[m] \in 1 .. n
<1>1. 1 .. m = (1 .. m - 1) \cup {m}
  OBVIOUS
<1>2. Seen(p, m) = Seen(p, m - 1) \cup {p[m]}
  BY <1>1, Zenon DEF Seen
<1>3. \A j \in 1 .. m - 1 : j \in 1 .. n /\ j # m
  OBVIOUS
<1>4. p[m] \notin Seen(p, m - 1)
  BY <1>3 DEF Seen
<1> QED
  BY <1>2, <1>4

LEMMA SameTotal ==
    ASSUME NEW len \in Seq(Nat), NEW p \in Bijection(DOMAIN len, DOMAIN len),
           NEW l, l = [k \in DOMAIN len |-> len[p[k]]]
    PROVE  /\ l \in Seq(Nat) /\ Len(l) = Len(len)
           /\ Offsets(l)[Len(l)] = Offsets(len)[Len(len)]
<1>0. PICK n \in Nat : n = Len(len)
  OBVIOUS
<1> DEFINE T == {m \in 0 .. n : Offsets(l)[m] # Offsets(Masked(len, Seen(p, m)))[n]}
<1>1. /\ p \in [1 .. n -> 1 .. n]
      /\ \A j, k \in 1 .. n : p[j] = p[k] => j = k
      /\ \A t \in 1 .. n : \E j \in 1 .. n : p[j] = t
  <2>1. DOMAIN len = 1 .. n
    BY <1>0
  <2>2. p \in [1 .. n -> 1 .. n]
    BY <2>1 DEF Bijection, Injection
  <2>3. \A j, k \in DOMAIN p : p[j] = p[k] => j = k
    BY DEF Bijection, Injection, IsInjective
  <2>4. \A t \in 1 .. n : \E j \in 1 .. n : p[j] = t
    BY <2>1 DEF Bijection, Surjection
  <2> QED
    BY <2>2, <2>3, <2>4
<1>2. l \in Seq(Nat) /\ Len(l) = n
  <2>0. \A j \in 1 .. n : len[j] \in Nat
    BY <1>0
  <2>1. l \in [1 .. n -> Nat]
    <3>1. l = [k \in 1 .. n |-> len[p[k]]]
      BY <1>0
    <3> QED
      BY <1>1, <2>0, <3>1
  <2> QED
    BY <1>0, <2>1
<1>3. T = {}
  <2> SUFFICES ASSUME T # {} PROVE FALSE
    OBVIOUS
  <2>1. T \in SUBSET Nat
    BY <1>0
  <2>2. PICK m \in T : \A z \in T : m <= z
    BY <2>1, LeastElement
  <2>3. m # 0
    <3>1. SUFFICES ASSUME m = 0 PROVE FALSE
      OBVIOUS
    <3>2. Seen(p, 0) = {}
      BY DEF Seen
    <3> DEFINE e == Masked(len, {})
    <3>3. e \in Seq(Nat) /\ Len(e) = n /\ \A k \in 1 .. n : e[k] = 0
      BY <1>0, MaskedSeq DEF Masked
    <3> DEFINE Z == {z \in 0 .. n : Offsets(e)[z] # 0}
    <3> HIDE DEF e
    <3>4. Z = {}
      <4> SUFFICES ASSUME Z # {} PROVE FALSE
        OBVIOUS
      <4>1. Z \in SUBSET Nat
        BY <1>0
      <4>2. PICK z \in Z : \A y \in Z : z <= y
        BY <4>1, LeastElement
      <4>3. z # 0
        BY <3>3, <4>2, OffsetsRecur
      <4>4. z \in 1 .. n /\ z - 1 \in 0 .. n /\ z - 1 \notin Z
        BY <1>0, <4>2, <4>3
      <4>5. Offsets(e)[z] = Offsets(e)[z - 1] + e[z]
        BY <3>3, <4>4, OffsetsRecur
      <4> QED
        BY <3>3, <4>2, <4>4, <4>5
    <3>5. Offsets(e)[n] = 0
      BY <1>0, <3>4
    <3>6. Offsets(l)[0] = 0
      BY <1>2, OffsetsRecur
    <3> QED
      BY <2>2, <3>1, <3>2, <3>5, <3>6 DEF e
  <2>4. m \in 1 .. n /\ m - 1 \in 0 .. n /\ m - 1 \notin T
    BY <2>2, <2>3
  <2>5. Offsets(l)[m] = Offsets(l)[m - 1] + l[m] /\ l[m] = len[p[m]]
    <3>1. m \in 1 .. Len(l)
      BY <1>2, <2>4
    <3>2. l[m] = len[p[m]]
      BY <1>0, <2>4
    <3> QED
      BY <1>2, <3>1, <3>2, OffsetsRecur
  <2>6. Offsets(l)[m - 1] = Offsets(Masked(len, Seen(p, m - 1)))[n]
    BY <2>4
  <2>7. /\ Seen(p, m) = Seen(p, m - 1) \cup {p[m]}
        /\ p[m] \notin Seen(p, m - 1) /\ p[m] \in 1 .. n
    <3> HIDE DEF T
    <3>1. m \in 1 .. n
      BY <2>4
    <3> QED
      BY <1>1, <3>1, SeenGrows
  <2>8. n \in 0 .. Len(len) /\ p[m] <= n
    BY <1>0, <2>7
  <2>9. Offsets(Masked(len, Seen(p, m - 1) \cup {p[m]}))[n]
          = Offsets(Masked(len, Seen(p, m - 1)))[n] + len[p[m]]
    <3>1. PICK a, A : a = p[m] /\ A = Seen(p, m - 1)
      OBVIOUS
    <3>2. a \in 1 .. Len(len) /\ a \notin A
      BY <1>0, <2>7, <3>1
    <3>3. Offsets(Masked(len, A \cup {a}))[n]
            = Offsets(Masked(len, A))[n] + IF a <= n THEN len[a] ELSE 0
      BY <2>8, <3>2, OneMore
    <3> QED
      BY <2>8, <3>1, <3>3
  <2>10. Offsets(l)[m] = Offsets(Masked(len, Seen(p, m)))[n]
    <3>1. PICK A, B, u : A = Seen(p, m - 1) /\ B = Seen(p, m) /\ u = p[m]
      OBVIOUS
    <3>2. B = A \cup {u}
      BY <2>7, <3>1, Zenon
    <3>3. Offsets(l)[m] = Offsets(Masked(len, A))[n] + len[u]
      BY <2>5, <2>6, <3>1, Zenon
    <3>4. Offsets(Masked(len, B))[n] = Offsets(Masked(len, A))[n] + len[u]
      BY <2>9, <3>1, <3>2, Zenon
    <3> QED
      BY <3>1, <3>3, <3>4, Zenon
  <2> QED
    BY <2>2, <2>10, Zenon
<1>4. Offsets(l)[n] = Offsets(Masked(len, Seen(p, n)))[n]
  <2>1. n \in 0 .. n /\ n \notin T
    BY <1>0, <1>3
  <2> QED
    BY <2>1
<1>5. Masked(len, Seen(p, n)) = len
  <2>1. Seen(p, n) = 1 .. n
    BY <1>1 DEF Seen
  <2>2. len = [k \in 1 .. n |-> len[k]]
    BY <1>0
  <2> QED
    BY <2>1, <2>2 DEF Masked
<1> QED
  BY <1>2, <1>4, <1>5

LEMMA DownloadUnchanged ==
    ASSUME [Next]_vars
    PROVE  UNCHANGED <<length, pieceLength>>
  BY DEF Next, vars, WritePiece, WriteFile, PassFile, FileFails, WriteEnds

(* i is a piece iff it is one of so many. *)
LEMMA CeilBounds ==
    ASSUME NEW t \in Nat, NEW p \in Nat \ {0}
    PROVE  LET n == (t + p - 1) \div p IN
           n \in Nat /\ t <= n * p /\ (n # 0 => n * p - p < t)
<1>1. PICK n : n = (t + p - 1) \div p
  OBVIOUS
<1>2. t + p - 1 \in Nat
  OBVIOUS
<1>3. n \in Nat /\ n * p <= t + p - 1 /\ t + p - 1 < n * p + p
  BY <1>1, <1>2, DivBounds
<1>4. n * p \in Int
  BY <1>3
<1>5. t <= n * p /\ n * p - p < t
  BY <1>3, <1>4
<1> QED
  BY <1>1, <1>3, <1>5

(* Multiples of p keep the order of their factors. *)
LEMMA Multiples ==
    ASSUME NEW i \in Nat, NEW n \in Nat, NEW p \in Nat \ {0}
    PROVE  i * p \in Nat /\ n * p \in Nat /\ (i < n => i * p <= n * p - p)
  OBVIOUS

LEMMA PieceIsCounted ==
    ASSUME length \in Seq(Nat), pieceLength \in Nat \ {0}
    PROVE  Piece = 0 .. PiecesIn(TotalSize) - 1
<1>1. PICK t, p, n : t = TotalSize /\ p = pieceLength /\ n = PiecesIn(TotalSize)
  OBVIOUS
<1>2. t \in Nat /\ p \in Nat \ {0}
  BY <1>1, Starts
<1>3. n \in Nat /\ t <= n * p /\ (n # 0 => n * p - p < t)
  BY <1>1, <1>2, CeilBounds DEF PiecesIn
<1>4. ASSUME NEW i \in 0 .. t, i * p < t PROVE i \in 0 .. n - 1
  <2>1. i \in Nat /\ n * p \in Nat /\ i * p \in Nat /\ (n <= i => n * p <= i * p)
    BY <1>2, <1>3
  <2> QED
    BY <1>2, <1>3, <1>4, <2>1
<1>5. ASSUME NEW i \in 0 .. n - 1 PROVE i \in 0 .. t /\ i * p < t
  <2>1. i \in Nat /\ i < n /\ n # 0
    BY <1>3
  <2>2. i * p \in Nat /\ n * p \in Nat /\ i * p <= n * p - p
    BY <1>2, <1>3, <2>1, Multiples
  <2>3. i * p < t
    BY <1>2, <1>3, <2>1, <2>2
  <2>4. i <= i * p
    BY <1>2, <2>1
  <2> QED
    BY <1>2, <2>1, <2>2, <2>3, <2>4
<1>6. Piece = {i \in 0 .. t : i * p < t}
  BY <1>1 DEF Piece
<1> QED
  BY <1>1, <1>4, <1>5, <1>6

Counted == phase = "ready" /\ length # <<>>
             => Len(info.pieces) = PiecesIn(TotalSize)

LEMMA CountedKept == TInv /\ Counted /\ [TNext]_allVars => Counted'
<1> SUFFICES ASSUME TInv, Counted, [TNext]_allVars PROVE Counted'
  OBVIOUS
<1>1. CASE CheckOptions \/ HashFile \/ ReadChunk \/ HashPart \/ FileDone \/ ReadFails
  <2>1. phase' # "ready"
    BY <1>1 DEF CheckOptions, HashFile, ReadChunk, HashPart, FileDone, ReadFails, Refuse
  <2> QED
    BY <2>1 DEF Counted
<1>2. CASE Parse
  <2> SUFFICES ASSUME phase' = "ready", length' # <<>>
               PROVE  Len(info'.pieces) = PiecesIn(TotalSize)'
    BY DEF Counted
  <2>1. /\ CountOk /\ length' \in ParsedFiles
        /\ UNCHANGED <<pieceLength, info>>
    BY <1>2 DEF Parse
  <2>2. length \in Seq(Nat) /\ info.files = length
    BY <1>2 DEF Parse, TInv, Fresh
  <2>3. TotalSize' = TotalSize /\ length # <<>>
    <3>1. CASE info.form # "tree"
      <4>1. length' = length
        BY <2>1, <2>2, <3>1 DEF ParsedFiles
      <4> QED
        BY <4>1 DEF TotalSize, Start
    <3>2. CASE info.form = "tree"
      <4>1. PICK p \in Bijection(DOMAIN length, DOMAIN length) :
                length' = [k \in DOMAIN length |-> length[p[k]]]
        BY <2>1, <2>2, <3>2 DEF ParsedFiles
      <4>2. PICK l : l = length'
        OBVIOUS
      <4>3. /\ l \in Seq(Nat) /\ Len(l) = Len(length)
            /\ Offsets(l)[Len(l)] = Offsets(length)[Len(length)]
        BY <2>2, <4>1, <4>2, SameTotal
      <4>4. TotalSize = Offsets(length)[Len(length)]
        BY <2>2 DEF TotalSize, Start
      <4>5. TotalSize' = Offsets(l)[Len(l)]
        BY <4>2, <4>3 DEF TotalSize, Start
      <4>6. length # <<>>
        BY <4>2, <4>3
      <4> QED
        BY <4>3, <4>4, <4>5, <4>6
    <3> QED
      BY <3>1, <3>2
  <2> QED
    BY <2>1, <2>3 DEF CountOk, PiecesIn
<1>3. CASE Download \/ UNCHANGED allVars
  <2>1. UNCHANGED <<length, pieceLength, phase, info>>
    <3>1. UNCHANGED makeVars /\ [Next]_vars
      BY <1>3 DEF Download, allVars
    <3> QED
      BY <3>1, DownloadUnchanged DEF makeVars
  <2> QED
    BY <2>1 DEF Counted, PiecesIn, TotalSize, Start
<1> QED
  BY <1>1, <1>2, <1>3 DEF TNext

(* For any dictionary, made here or elsewhere, and whatever order its tree  *)
(* is walked in: a download begins only with exactly one hash for each      *)
(* piece of the layout.                                                     *)
THEOREM HashForEveryPiece == TSpec => []EveryPieceHashed
<1>1. TInit => TInv /\ Counted
  BY MakingStarts DEF TInit, Counted
<1>2. TInv /\ Counted => EveryPieceHashed
  BY PieceIsCounted DEF TInv, SInv, Typed, Counted, EveryPieceHashed
<1> QED
  BY <1>1, <1>2, MakingKeeps, CountedKept, PTL DEF TSpec

-----------------------------------------------------------------------------
(* Powers of two.  h is their function up to n. *)
Doubles(h, n) == h = [k \in 0 .. n |-> IF k = 0 THEN 1 ELSE 2 * h[k - 1]]

LEMMA DoublesExist ==
    ASSUME NEW n \in Nat
    PROVE  \E h : Doubles(h, n)
<1> DEFINE T == {m \in Nat : ~\E h : Doubles(h, m)}
<1> SUFFICES ASSUME T # {} PROVE FALSE
  OBVIOUS
<1>1. PICK m \in T : \A y \in T : m <= y
  BY LeastElement
<1>2. CASE m = 0
  <2>1. Doubles([k \in 0 .. 0 |-> 1], 0)
    BY DEF Doubles
  <2> QED
    BY <1>1, <1>2, <2>1
<1>3. CASE m # 0
  <2>1. m \in Nat /\ m - 1 \in Nat /\ m - 1 \notin T
    BY <1>1, <1>3
  <2>2. PICK h : Doubles(h, m - 1)
    BY <2>1
  <2> DEFINE e == [k \in 0 .. m |-> IF k = m THEN 2 * h[m - 1] ELSE h[k]]
  <2>3. ASSUME NEW k \in 0 .. m
        PROVE  e[k] = IF k = 0 THEN 1 ELSE 2 * e[k - 1]
    <3>1. CASE k = m
      BY <2>1, <1>3, <3>1
    <3>2. CASE k # m
      <4>1. k \in 0 .. m - 1
        BY <2>1, <3>2
      <4>2. h[k] = IF k = 0 THEN 1 ELSE 2 * h[k - 1]
        BY <4>1, <2>2 DEF Doubles
      <4> QED
        BY <4>1, <4>2, <2>1
    <3> QED
      BY <3>1, <3>2
  <2>4. Doubles(e, m)
    <3> HIDE DEF e
    <3>1. e = [k \in 0 .. m |-> e[k]]
      BY DEF e
    <3> QED
      BY <2>3, <3>1 DEF Doubles
  <2> QED
    BY <1>1, <2>4
<1> QED
  BY <1>2, <1>3

LEMMA DoublesAgree ==
    ASSUME NEW g, NEW h, NEW n \in Nat, NEW m \in Nat, n <= m,
           Doubles(g, n), Doubles(h, m)
    PROVE  \A k \in 0 .. n : g[k] = h[k]
<1> DEFINE T == {k \in 0 .. n : g[k] # h[k]}
<1> SUFFICES ASSUME T # {} PROVE FALSE
  OBVIOUS
<1>1. T \in SUBSET Nat
  OBVIOUS
<1>2. PICK k \in T : \A y \in T : k <= y
  BY <1>1, LeastElement
<1>3. k \in 0 .. n /\ k \in 0 .. m /\ g[k] # h[k]
  BY <1>2
<1>4. /\ g[k] = IF k = 0 THEN 1 ELSE 2 * g[k - 1]
      /\ h[k] = IF k = 0 THEN 1 ELSE 2 * h[k - 1]
  BY <1>3 DEF Doubles
<1>5. k # 0
  BY <1>3, <1>4
<1>6. k - 1 \in 0 .. n /\ k - 1 \notin T
  BY <1>2, <1>3, <1>5
<1>7. g[k - 1] = h[k - 1]
  BY <1>6
<1> QED
  BY <1>3, <1>4, <1>7

LEMMA PowersExist ==
    \E g : g = [n \in Nat |-> IF n = 0 THEN 1 ELSE 2 * g[n - 1]]
<1> DEFINE D(n) == CHOOSE h : Doubles(h, n)
           g == [n \in Nat |-> D(n)[n]]
<1>1. \A n \in Nat : Doubles(D(n), n)
  BY DoublesExist
<1> HIDE DEF D
<1>2. ASSUME NEW n \in Nat
      PROVE  g[n] = IF n = 0 THEN 1 ELSE 2 * g[n - 1]
  <2>1. g[n] = D(n)[n] /\ Doubles(D(n), n)
    BY <1>1
  <2>2. D(n)[n] = IF n = 0 THEN 1 ELSE 2 * D(n)[n - 1]
    <3>1. PICK d : d = D(n)
      OBVIOUS
    <3>2. Doubles(d, n) /\ n \in 0 .. n
      BY <2>1, <3>1
    <3>3. d[n] = IF n = 0 THEN 1 ELSE 2 * d[n - 1]
      BY <3>2 DEF Doubles
    <3> QED
      BY <3>1, <3>3
  <2>3. CASE n = 0
    BY <2>1, <2>2, <2>3
  <2>4. CASE n # 0
    <3>1. n - 1 \in Nat /\ n - 1 <= n /\ n - 1 \in 0 .. n - 1
      BY <2>4
    <3>2. Doubles(D(n - 1), n - 1)
      BY <1>1, <3>1
    <3>3. D(n - 1)[n - 1] = D(n)[n - 1]
      BY <2>1, <3>1, <3>2, DoublesAgree
    <3>4. g[n - 1] = D(n - 1)[n - 1]
      BY <3>1
    <3> QED
      BY <2>1, <2>2, <2>4, <3>3, <3>4
  <2> QED
    BY <2>3, <2>4
<1>3. g = [n \in Nat |-> g[n]]
  OBVIOUS
<1> HIDE DEF g
<1>4. g = [n \in Nat |-> IF n = 0 THEN 1 ELSE 2 * g[n - 1]]
  BY <1>2, <1>3
<1> QED
  BY <1>4

LEMMA Pow2Recur ==
    Pow2[0] = 1 /\ \A n \in Nat : Pow2[n + 1] = 2 * Pow2[n]
<1>1. Pow2 = [n \in Nat |-> IF n = 0 THEN 1 ELSE 2 * Pow2[n - 1]]
  BY PowersExist, Zenon DEF Pow2
<1>2. PICK g : g = Pow2
  OBVIOUS
<1>3. g = [n \in Nat |-> IF n = 0 THEN 1 ELSE 2 * g[n - 1]]
  BY <1>1, <1>2
<1>4. g[0] = 1
  BY <1>3
<1>5. ASSUME NEW n \in Nat PROVE g[n + 1] = 2 * g[n]
  <2>1. n + 1 \in Nat /\ n + 1 # 0 /\ (n + 1) - 1 = n
    OBVIOUS
  <2>2. g[n + 1] = 2 * g[(n + 1) - 1]
    BY <1>3, <2>1
  <2> QED
    BY <2>1, <2>2
<1> QED
  BY <1>2, <1>4, <1>5

LEMMA Pow2Nat == \A n \in Nat : Pow2[n] \in Nat \ {0}
<1> DEFINE T == {n \in Nat : Pow2[n] \notin Nat \ {0}}
<1> SUFFICES ASSUME T # {} PROVE FALSE
  OBVIOUS
<1>1. PICK n \in T : \A y \in T : n <= y
  BY LeastElement
<1>2. n # 0
  BY <1>1, Pow2Recur
<1>3. n - 1 \in Nat /\ n - 1 \notin T /\ (n - 1) + 1 = n
  BY <1>1, <1>2
<1>4. Pow2[n] = 2 * Pow2[n - 1]
  BY <1>3, Pow2Recur
<1>5. Pow2[n - 1] \in Nat \ {0}
  BY <1>3
<1> QED
  BY <1>1, <1>4, <1>5

LEMMA Pow2Sum ==
    ASSUME NEW a \in Nat
    PROVE  \A b \in Nat : Pow2[a + b] = Pow2[a] * Pow2[b]
<1> DEFINE T == {b \in Nat : Pow2[a + b] # Pow2[a] * Pow2[b]}
<1> SUFFICES ASSUME T # {} PROVE FALSE
  OBVIOUS
<1>1. PICK b \in T : \A y \in T : b <= y
  BY LeastElement
<1>2. PICK A \in Nat : A = Pow2[a]
  BY Pow2Nat
<1>3. b # 0
  <2>1. a + 0 = a /\ A * 1 = A
    BY <1>2
  <2> QED
    BY <1>1, <1>2, <2>1, Pow2Recur
<1>4. b - 1 \in Nat /\ b - 1 \notin T /\ (b - 1) + 1 = b
  BY <1>1, <1>3
<1>5. Pow2[b] = 2 * Pow2[b - 1]
  BY <1>4, Pow2Recur
<1>6. Pow2[a + b] = 2 * Pow2[a + (b - 1)]
  <2>1. a + (b - 1) \in Nat /\ (a + (b - 1)) + 1 = a + b
    BY <1>4
  <2> QED
    BY <2>1, Pow2Recur
<1>7. PICK B \in Nat : B = Pow2[b - 1]
  BY <1>4, Pow2Nat
<1>8. Pow2[a + (b - 1)] = A * B
  BY <1>2, <1>4, <1>7
<1>9. 2 * (A * B) = A * (2 * B)
  BY <1>2, <1>7
<1> QED
  BY <1>1, <1>2, <1>5, <1>6, <1>7, <1>8, <1>9

(* Larger powers are larger, and a power exceeds its exponent. *)
LEMMA Pow2Grows ==
    ASSUME NEW a \in Nat, NEW b \in Nat, a < b
    PROVE  Pow2[a] < Pow2[b]
<1>1. PICK d \in Nat : b = a + (d + 1)
  <2>1. b - a - 1 \in Nat /\ b = a + ((b - a - 1) + 1)
    OBVIOUS
  <2> QED
    BY <2>1
<1>2. PICK A, D : A = Pow2[a] /\ D = Pow2[d]
  OBVIOUS
<1>3. A \in Nat \ {0} /\ D \in Nat \ {0}
  BY <1>2, Pow2Nat
<1>4. Pow2[d + 1] = 2 * D
  BY <1>2, Pow2Recur
<1>5. Pow2[b] = A * (2 * D)
  <2>1. d + 1 \in Nat
    OBVIOUS
  <2> QED
    BY <1>1, <1>2, <1>4, <2>1, Pow2Sum
<1>6. A < A * (2 * D)
  BY <1>3
<1> QED
  BY <1>2, <1>5, <1>6

LEMMA Pow2Exceeds == \A n \in Nat : n < Pow2[n]
<1> DEFINE T == {n \in Nat : ~(n < Pow2[n])}
<1> SUFFICES ASSUME T # {} PROVE FALSE
  OBVIOUS
<1>1. PICK n \in T : \A y \in T : n <= y
  BY LeastElement
<1>2. n # 0
  BY <1>1, Pow2Recur
<1>3. n - 1 \in Nat /\ n - 1 \notin T /\ (n - 1) + 1 = n
  BY <1>1, <1>2
<1>4. Pow2[n] = 2 * Pow2[n - 1]
  BY <1>3, Pow2Recur
<1>5. Pow2[n - 1] \in Nat /\ n - 1 < Pow2[n - 1]
  BY <1>3, Pow2Nat
<1> QED
  BY <1>1, <1>3, <1>4, <1>5

(* Height is the logarithm, rounded up. *)
LEMMA HeightIs ==
    ASSUME NEW n \in Nat, NEW k \in Nat, n <= Pow2[k], \A j \in 0 .. k - 1 : Pow2[j] < n
    PROVE  Height(n) = k
<1> DEFINE Fits(c) == Pow2[c] >= n /\ \A j \in 0 .. c - 1 : Pow2[j] < n
<1>1. k \in 0 .. n
  <2>1. SUFFICES ASSUME n < k PROVE FALSE
    OBVIOUS
  <2>2. n \in 0 .. k - 1 /\ Pow2[n] \in Nat /\ n < Pow2[n]
    BY <2>1, Pow2Nat, Pow2Exceeds
  <2>3. Pow2[n] < n
    BY <2>2
  <2> QED
    BY <2>2, <2>3
<1>2. \A c \in Nat : Pow2[c] \in Nat
  BY Pow2Nat
<1>3. Fits(k)
  BY <1>2
<1>4. ASSUME NEW c \in 0 .. n, Fits(c) PROVE c = k
  <2>1. c \in Nat /\ Pow2[c] \in Nat /\ Pow2[k] \in Nat
    BY <1>2
  <2>2. CASE c < k
    <3>1. c \in 0 .. k - 1
      BY <2>1, <2>2
    <3>2. Pow2[c] < n
      BY <3>1
    <3> QED
      BY <1>4, <2>1, <3>2
  <2>3. CASE k < c
    <3>1. k \in 0 .. c - 1
      BY <2>1, <2>3
    <3>2. Pow2[k] < n
      BY <1>4, <3>1
    <3> QED
      BY <2>1, <3>2
  <2> QED
    BY <2>1, <2>2, <2>3
<1>5. Height(n) = CHOOSE c \in 0 .. n : Fits(c)
  BY Zenon DEF Height
<1> HIDE DEF Fits
<1> QED
  BY <1>1, <1>3, <1>4, <1>5

LEMMA HeightGives ==
    ASSUME NEW n \in Nat
    PROVE  /\ Height(n) \in Nat /\ n <= Pow2[Height(n)]
           /\ \A j \in 0 .. Height(n) - 1 : Pow2[j] < n
<1> DEFINE T == {k \in Nat : n <= Pow2[k]}
<1>0. \A c \in Nat : Pow2[c] \in Nat
  BY Pow2Nat
<1>1. n \in T
  BY <1>0, Pow2Exceeds
<1>2. PICK k \in T : \A y \in T : k <= y
  BY <1>1, LeastElement
<1>3. ASSUME NEW j \in 0 .. k - 1 PROVE Pow2[j] < n
  <2>1. j \in Nat /\ j \notin T
    BY <1>2
  <2> QED
    BY <1>0, <2>1
<1>4. Height(n) = k
  BY <1>2, <1>3, HeightIs
<1> QED
  BY <1>2, <1>3, <1>4

LEMMA HeightOfPower == \A k \in Nat : Height(Pow2[k]) = k
<1> SUFFICES ASSUME NEW k \in Nat PROVE Height(Pow2[k]) = k
  OBVIOUS
<1>1. PICK n : n = Pow2[k]
  OBVIOUS
<1>2. n \in Nat
  BY <1>1, Pow2Nat
<1>3. \A j \in 0 .. k - 1 : Pow2[j] < n
  BY <1>1, Pow2Grows
<1>4. Height(n) = k
  BY <1>1, <1>2, <1>3, HeightIs
<1> QED
  BY <1>1, <1>4

(* A multiple of b, divided by b. *)
LEMMA DivMultiple ==
    ASSUME NEW a \in Nat, NEW b \in Nat \ {0}
    PROVE  (a * b) \div b = a
<1>1. PICK x, q : x = a * b /\ q = x \div b
  OBVIOUS
<1>2. x \in Nat
  BY <1>1, Multiples
<1>3. q \in Nat /\ q * b <= x /\ x < q * b + b
  BY <1>1, <1>2, DivBounds
<1>4. ~(q < a) /\ ~(a < q)
  <2>1. (q < a => q * b <= a * b - b) /\ (a < q => a * b <= q * b - b)
        /\ a * b \in Nat /\ q * b \in Nat
    BY <1>3, Multiples
  <2>2. PICK u : u = q * b
    OBVIOUS
  <2> QED
    BY <1>1, <1>3, <2>1, <2>2
<1>5. q = a
  BY <1>3, <1>4
<1> QED
  BY <1>1, <1>5

(* A legal piece length is a number of blocks that is a power of two, and  *)
(* PieceLevel is its logarithm.                                            *)
LEMMA PieceLevelIs ==
    ASSUME PieceLengthOk, pieceLength \in Nat
    PROVE  PieceLevel \in Nat /\ pieceLength = Pow2[PieceLevel] * Block
<1>1. PICK a \in Nat : pieceLength = Pow2[a]
  BY DEF PieceLengthOk, isPowerOfTwo
<1>2. PICK b \in Nat : Block = Pow2[b]
  BY BlockAssumption, TorrentAssumption DEF isPowerOfTwo
<1>3. b <= a
  <2>1. SUFFICES ASSUME a < b PROVE FALSE
    BY <1>1, <1>2
  <2>2. Pow2[a] < Pow2[b] /\ Pow2[a] \in Nat /\ Pow2[b] \in Nat
    BY <2>1, Pow2Grows, Pow2Nat
  <2>3. Pow2[a] >= Pow2[b]
    BY <1>1, <1>2 DEF PieceLengthOk
  <2> QED
    BY <2>2, <2>3
<1>4. PICK l \in Nat : l = a - b /\ l + b = a
  BY <1>3
<1>5. pieceLength = Pow2[l] * Block
  BY <1>1, <1>2, <1>4, Pow2Sum
<1>6. Pow2[l] \in Nat
  BY Pow2Nat
<1>7. (Pow2[l] * Block) \div Block = Pow2[l]
  BY <1>6, TorrentAssumption, DivMultiple
<1>8. PieceLevel = l
  BY <1>5, <1>7, HeightOfPower DEF PieceLevel
<1> QED
  BY <1>5, <1>8

-----------------------------------------------------------------------------
(* Hashing: n bytes of the torrent from g on, ... *)
Stretch(g, n) == [x \in 1 .. n |-> g + x]

(* ... the hashes of the first q pieces of length p, ... *)
FullPieces(q, p) == [i \in 1 .. q |-> Leaf(Stretch((i - 1) * p, p))]

(* ... and of all pieces of t bytes. *)
AllPieces(t, p) ==
    [i \in 1 .. (t + p - 1) \div p |->
       Leaf(Stretch((i - 1) * p, Lesser(p, t - (i - 1) * p)))]

LEMMA StretchSeq ==
    ASSUME NEW g \in Nat, NEW n \in Nat
    PROVE  Stretch(g, n) \in Seq(Nat) /\ Len(Stretch(g, n)) = n
<1>1. Stretch(g, n) \in [1 .. n -> Nat]
  BY DEF Stretch
<1> QED
  BY <1>1 DEF Stretch

LEMMA AppendIs ==
    ASSUME NEW S, NEW s \in Seq(S), NEW e
    PROVE  Append(s, e) = [i \in 1 .. Len(s) + 1 |-> IF i = Len(s) + 1 THEN e ELSE s[i]]
<1>1. PICK U : U = S \cup {e}
  OBVIOUS
<1>2. s \in Seq(U) /\ e \in U
  <2>1. s \in [1 .. Len(s) -> U] /\ Len(s) \in Nat
    BY <1>1
  <2> QED
    BY <1>1, <2>1
<1>3. /\ Append(s, e) \in Seq(U) /\ Len(Append(s, e)) = Len(s) + 1
      /\ \A i \in 1 .. Len(s) : Append(s, e)[i] = s[i]
      /\ Append(s, e)[Len(s) + 1] = e
  BY <1>2, AppendProperties
<1>4. PICK a, n : a = Append(s, e) /\ n = Len(s)
  OBVIOUS
<1>5. a \in Seq(U) /\ Len(a) = n + 1 /\ n \in Nat
  BY <1>2, <1>3, <1>4
<1>6. a = [i \in 1 .. n + 1 |-> a[i]]
  BY <1>5
<1>7. \A i \in 1 .. n + 1 : a[i] = IF i = n + 1 THEN e ELSE s[i]
  BY <1>3, <1>4, <1>5
<1> QED
  BY <1>4, <1>6, <1>7

LEMMA StretchJoin ==
    ASSUME NEW g \in Nat, NEW n \in Nat, NEW m \in Nat
    PROVE  Stretch(g, n) \o Stretch(g + n, m) = Stretch(g, n + m)
<1>1. PICK s, t : s = Stretch(g, n) /\ t = Stretch(g + n, m)
  OBVIOUS
<1>2. s \in Seq(Nat) /\ Len(s) = n /\ t \in Seq(Nat) /\ Len(t) = m
  <2>1. g + n \in Nat
    OBVIOUS
  <2> QED
    BY <1>1, <2>1, StretchSeq
<1>3. (\A x \in 1 .. n : s[x] = g + x) /\ (\A x \in 1 .. m : t[x] = g + n + x)
  BY <1>1 DEF Stretch
<1>4. /\ s \o t \in Seq(Nat) /\ Len(s \o t) = n + m
      /\ \A x \in 1 .. n + m : (s \o t)[x] = IF x <= n THEN s[x] ELSE t[x - n]
  BY <1>2, ConcatProperties
<1>5. PICK j : j = s \o t
  OBVIOUS
<1>6. j = [x \in 1 .. n + m |-> j[x]]
  <2>1. PICK l \in Nat : l = n + m
    OBVIOUS
  <2>2. j \in Seq(Nat) /\ Len(j) = l
    BY <1>4, <1>5, <2>1
  <2>3. j = [x \in 1 .. l |-> j[x]]
    BY <2>2
  <2> QED
    BY <2>1, <2>3
<1>7. \A x \in 1 .. n + m : j[x] = g + x
  <2> SUFFICES ASSUME NEW x \in 1 .. n + m PROVE j[x] = g + x
    OBVIOUS
  <2>1. j[x] = IF x <= n THEN s[x] ELSE t[x - n]
    BY <1>4, <1>5
  <2>2. CASE x <= n
    BY <1>3, <2>1, <2>2
  <2>3. CASE ~(x <= n)
    <3>1. x - n \in 1 .. m
      BY <2>3
    <3>2. t[x - n] = g + n + (x - n)
      BY <1>3, <3>1
    <3> QED
      BY <2>1, <2>3, <3>2
  <2> QED
    BY <2>2, <2>3
<1> QED
  BY <1>1, <1>5, <1>6, <1>7 DEF Stretch

LEMMA StretchCut ==
    ASSUME NEW g \in Nat, NEW n \in Nat, NEW a \in 1 .. n + 1, NEW b \in a - 1 .. n
    PROVE  SubSeq(Stretch(g, n), a, b) = Stretch(g + a - 1, b - a + 1)
<1>1. Stretch(g, n) \in Seq(Nat) /\ Len(Stretch(g, n)) = n
  BY StretchSeq
<1>2. SubSeq(Stretch(g, n), a, b)
        = [x \in 1 .. b - a + 1 |-> Stretch(g, n)[x + a - 1]]
  BY <1>1
<1>3. \A x \in 1 .. b - a + 1 : Stretch(g, n)[x + a - 1] = (g + a - 1) + x
  BY DEF Stretch
<1> QED
  BY <1>2, <1>3 DEF Stretch

LEMMA FullPiecesSeq ==
    ASSUME NEW q \in Nat, NEW p
    PROVE  /\ FullPieces(q, p) \in Seq({Leaf(Stretch((i - 1) * p, p)) : i \in 1 .. q})
           /\ Len(FullPieces(q, p)) = q
<1>1. PICK S : S = {Leaf(Stretch((i - 1) * p, p)) : i \in 1 .. q}
  OBVIOUS
<1>2. FullPieces(q, p) \in [1 .. q -> S]
  BY <1>1 DEF FullPieces
<1>3. \A t \in [1 .. q -> S] : t \in Seq(S) /\ Len(t) = q
  OBVIOUS
<1> QED
  BY <1>1, <1>2, <1>3, Zenon

LEMMA OnePieceMore ==
    ASSUME NEW q \in Nat, NEW p \in Nat \ {0}
    PROVE  Append(FullPieces(q, p), Leaf(Stretch(q * p, p))) = FullPieces(q + 1, p)
<1>1. /\ FullPieces(q, p) \in Seq({Leaf(Stretch((i - 1) * p, p)) : i \in 1 .. q})
      /\ Len(FullPieces(q, p)) = q
  BY FullPiecesSeq
<1>2. PICK s, e : s = FullPieces(q, p) /\ e = Leaf(Stretch(q * p, p))
  OBVIOUS
<1>3. PICK S : s \in Seq(S) /\ Len(s) = q
  BY <1>1, <1>2
<1>4. Append(s, e) = [i \in 1 .. q + 1 |-> IF i = q + 1 THEN e ELSE s[i]]
  BY <1>3, AppendIs
<1>5. \A i \in 1 .. q + 1 : (IF i = q + 1 THEN e ELSE s[i]) = Leaf(Stretch((i - 1) * p, p))
  <2> SUFFICES ASSUME NEW i \in 1 .. q + 1
               PROVE  (IF i = q + 1 THEN e ELSE s[i]) = Leaf(Stretch((i - 1) * p, p))
    OBVIOUS
  <2>1. CASE i = q + 1
    <3>1. i - 1 = q
      BY <2>1
    <3> QED
      BY <1>2, <2>1, <3>1
  <2>2. CASE i # q + 1
    BY <1>2, <2>2 DEF FullPieces
  <2> QED
    BY <2>1, <2>2
<1> QED
  BY <1>2, <1>4, <1>5 DEF FullPieces

(* The hash of what is left closes the list. *)
LEMMA LastPiece ==
    ASSUME NEW q \in Nat, NEW p \in Nat \ {0}, NEW r \in 0 .. p - 1
    PROVE  (IF Stretch(q * p, r) = <<>> THEN FullPieces(q, p)
            ELSE Append(FullPieces(q, p), Leaf(Stretch(q * p, r)))) = AllPieces(q * p + r, p)
<1>00. PICK t : t = q * p + r
  OBVIOUS
<1>0. q * p \in Nat /\ t \in Nat /\ t = q * p + r
  BY <1>00, Multiples
<1>1. (t + p - 1) \div p = IF r = 0 THEN q ELSE q + 1
  <2>1. PICK n : n = (t + p - 1) \div p
    OBVIOUS
  <2>2. n \in Nat /\ t <= n * p /\ (n # 0 => n * p - p < t)
    BY <1>0, <2>1, CeilBounds
  <2>3. /\ n < q => n * p <= q * p - p
        /\ q < n => q * p <= n * p - p
        /\ q + 1 < n => (q + 1) * p <= n * p - p
    BY <2>2, Multiples
  <2>4. (q + 1) * p = q * p + p /\ n * p \in Nat
    BY <2>2
  <2>5. CASE r = 0
    BY <1>0, <2>1, <2>2, <2>3, <2>4, <2>5
  <2>6. CASE r # 0
    <3>1. ~(n < q) /\ n # q /\ ~(q + 1 < n)
      BY <1>0, <2>2, <2>3, <2>4, <2>6
    <3> QED
      BY <2>1, <2>2, <2>6, <3>1
  <2> QED
    BY <2>5, <2>6
<1>2. ASSUME NEW i \in 1 .. q
      PROVE  Lesser(p, t - (i - 1) * p) = p
  <2>1. (i - 1) * p <= q * p - p /\ (i - 1) * p \in Nat
    <3>1. i - 1 \in Nat /\ i - 1 < q
      OBVIOUS
    <3> QED
      BY <3>1, Multiples
  <2>2. PICK b \in Nat : b = (i - 1) * p
    BY <2>1
  <2> QED
    BY <1>0, <2>1, <2>2 DEF Lesser
<1>3. Stretch(q * p, r) = <<>> <=> r = 0
  <2>1. Len(Stretch(q * p, r)) = r /\ Stretch(q * p, r) \in Seq(Nat)
    BY <1>0, StretchSeq
  <2> QED
    BY <2>1
<1>4. CASE r = 0
  <2>1. AllPieces(t, p) = [i \in 1 .. q |-> Leaf(Stretch((i - 1) * p, p))]
    BY <1>1, <1>2, <1>4 DEF AllPieces
  <2> QED
    BY <1>0, <1>3, <1>4, <2>1 DEF FullPieces
<1>5. CASE r # 0
  <2>1. PICK s, e : s = FullPieces(q, p) /\ e = Leaf(Stretch(q * p, r))
    OBVIOUS
  <2>2. PICK S : s \in Seq(S) /\ Len(s) = q
    BY <2>1, FullPiecesSeq
  <2>3. Append(s, e) = [i \in 1 .. q + 1 |-> IF i = q + 1 THEN e ELSE s[i]]
    BY <2>2, AppendIs
  <2>4. \A i \in 1 .. q + 1 : (IF i = q + 1 THEN e ELSE s[i])
                  = Leaf(Stretch((i - 1) * p, Lesser(p, t - (i - 1) * p)))
    <3> SUFFICES ASSUME NEW i \in 1 .. q + 1
                 PROVE  (IF i = q + 1 THEN e ELSE s[i])
                          = Leaf(Stretch((i - 1) * p, Lesser(p, t - (i - 1) * p)))
      OBVIOUS
    <3>1. CASE i = q + 1
      <4>1. i - 1 = q
        BY <3>1
      <4>2. Lesser(p, t - q * p) = r
        BY <1>0 DEF Lesser
      <4> QED
        BY <2>1, <3>1, <4>1, <4>2
    <3>2. CASE i # q + 1
      <4>1. i \in 1 .. q
        BY <3>2
      <4>2. s[i] = Leaf(Stretch((i - 1) * p, p))
        BY <2>1, <4>1 DEF FullPieces
      <4> QED
        BY <1>2, <3>2, <4>1, <4>2
    <3> QED
      BY <3>1, <3>2
  <2>5. AllPieces(t, p) = [i \in 1 .. q + 1 |->
                             Leaf(Stretch((i - 1) * p, Lesser(p, t - (i - 1) * p)))]
    BY <1>1, <1>5 DEF AllPieces
  <2>6. Append(s, e) = AllPieces(t, p)
    BY <2>3, <2>4, <2>5
  <2> QED
    BY <1>0, <1>3, <1>5, <2>1, <2>6
<1> QED
  BY <1>4, <1>5

LEMMA EmptyStretch ==
    ASSUME NEW g \in Nat
    PROVE  Stretch(g, 0) = <<>>
<1>1. Stretch(g, 0) \in Seq(Nat) /\ Len(Stretch(g, 0)) = 0
  BY StretchSeq
<1> QED
  BY <1>1

(* hashReaderHybrid, block by block: AfterBlocks is the function its        *)
(* definition describes.                                                    *)
BlockSteps(h, b, n) ==
    h = [k \in 0 .. n |-> IF k = 0 THEN [closed |-> <<>>, open |-> <<>>]
                          ELSE HashBlock(h[k - 1], b[k])]

LEMMA BlockStepsExist ==
    ASSUME NEW b, NEW n \in Nat
    PROVE  \E h : BlockSteps(h, b, n)
<1> DEFINE T == {m \in Nat : ~\E h : BlockSteps(h, b, m)}
           zero == [closed |-> <<>>, open |-> <<>>]
<1> SUFFICES ASSUME T # {} PROVE FALSE
  OBVIOUS
<1>1. PICK m \in T : \A y \in T : m <= y
  BY LeastElement
<1>2. CASE m = 0
  <2>1. BlockSteps([k \in 0 .. 0 |-> zero], b, 0)
    BY DEF BlockSteps
  <2> QED
    BY <1>1, <1>2, <2>1
<1>3. CASE m # 0
  <2>1. m \in Nat /\ m - 1 \in Nat /\ m - 1 \notin T
    BY <1>1, <1>3
  <2>2. PICK h : BlockSteps(h, b, m - 1)
    BY <2>1
  <2> DEFINE e == [k \in 0 .. m |-> IF k = m THEN HashBlock(h[m - 1], b[m]) ELSE h[k]]
  <2> HIDE DEF zero
  <2>3. ASSUME NEW k \in 0 .. m
        PROVE  e[k] = IF k = 0 THEN zero ELSE HashBlock(e[k - 1], b[k])
    <3>1. CASE k = m
      BY <2>1, <1>3, <3>1
    <3>2. CASE k # m
      <4>1. k \in 0 .. m - 1
        BY <2>1, <3>2
      <4>2. h[k] = IF k = 0 THEN zero ELSE HashBlock(h[k - 1], b[k])
        BY <4>1, <2>2 DEF BlockSteps, zero
      <4> QED
        BY <4>1, <4>2, <2>1
    <3> QED
      BY <3>1, <3>2
  <2>4. BlockSteps(e, b, m)
    <3> HIDE DEF e
    <3>1. e = [k \in 0 .. m |-> e[k]]
      BY DEF e
    <3>2. e = [k \in 0 .. m |-> IF k = 0 THEN zero ELSE HashBlock(e[k - 1], b[k])]
      BY <2>3, <3>1
    <3> QED
      BY <3>2 DEF BlockSteps, zero
  <2> QED
    BY <1>1, <2>4
<1> QED
  BY <1>2, <1>3

LEMMA BlocksRecur ==
    ASSUME NEW b, Len(b) \in Nat
    PROVE  /\ AfterBlocks(b)[0] = [closed |-> <<>>, open |-> <<>>]
           /\ \A k \in 1 .. Len(b) :
                AfterBlocks(b)[k] = HashBlock(AfterBlocks(b)[k - 1], b[k])
<1>1. PICK n \in Nat : n = Len(b)
  OBVIOUS
<1>2. \E h : BlockSteps(h, b, n)
  BY BlockStepsExist
<1>3. \E h : h = [k \in 0 .. Len(b) |->
                    IF k = 0 THEN [closed |-> <<>>, open |-> <<>>]
                    ELSE HashBlock(h[k - 1], b[k])]
  BY <1>1, <1>2 DEF BlockSteps
<1>4. AfterBlocks(b) = [k \in 0 .. Len(b) |->
                          IF k = 0 THEN [closed |-> <<>>, open |-> <<>>]
                          ELSE HashBlock(AfterBlocks(b)[k - 1], b[k])]
  BY <1>3, Zenon DEF AfterBlocks
<1>5. PICK o, zero : o = AfterBlocks(b) /\ zero = [closed |-> <<>>, open |-> <<>>]
  OBVIOUS
<1>6. o = [k \in 0 .. n |-> IF k = 0 THEN zero ELSE HashBlock(o[k - 1], b[k])]
  BY <1>1, <1>4, <1>5
<1>7. o[0] = zero /\ \A k \in 1 .. n : o[k] = HashBlock(o[k - 1], b[k])
  BY <1>6
<1> QED
  BY <1>1, <1>5, <1>7

(* The blocks of n bytes. *)
LEMMA BlocksAre ==
    ASSUME NEW n \in Nat
    PROVE  /\ BlockCount(n) \in Nat /\ Len(BlocksOf(Stretch(0, n))) = BlockCount(n)
           /\ n <= BlockCount(n) * Block
           /\ \A k \in 1 .. BlockCount(n) :
                /\ (k - 1) * Block \in Nat /\ (k - 1) * Block < n
                /\ k * Block = (k - 1) * Block + Block
                /\ BlocksOf(Stretch(0, n))[k]
                     = Stretch((k - 1) * Block, Lesser(k * Block, n) - (k - 1) * Block)
<1>0. PICK B, K : B = Block /\ K = BlockCount(n)
  OBVIOUS
<1>1. B \in Nat \ {0} /\ K \in Nat /\ n <= K * B /\ (K # 0 => K * B - B < n)
  BY <1>0, TorrentAssumption, CeilBounds DEF BlockCount
<1>2. Len(Stretch(0, n)) = n
  BY StretchSeq
<1>3. BlocksOf(Stretch(0, n)) = [k \in 1 .. K |->
         SubSeq(Stretch(0, n), (k - 1) * B + 1, Lesser(k * B, n))]
  BY <1>0, <1>2 DEF BlocksOf, BlockCount
<1>4. Len(BlocksOf(Stretch(0, n))) = K
  BY <1>1, <1>3
<1>5. ASSUME NEW k \in 1 .. K
      PROVE  /\ (k - 1) * B \in Nat /\ k * B = (k - 1) * B + B /\ (k - 1) * B < n
             /\ BlocksOf(Stretch(0, n))[k]
                  = Stretch((k - 1) * B, Lesser(k * B, n) - (k - 1) * B)
  <2>1. k - 1 \in Nat /\ k - 1 < K /\ K # 0
    BY <1>1
  <2>2. /\ (k - 1) * B \in Nat /\ K * B \in Nat /\ (k - 1) * B <= K * B - B
    BY <1>1, <2>1, Multiples
  <2>3. k * B = (k - 1) * B + B
    BY <1>1, <2>1
  <2>4. PICK c, d : c = (k - 1) * B /\ d = Lesser(k * B, n)
    OBVIOUS
  <2>5. c \in Nat /\ c < n /\ d \in c .. n
    BY <1>1, <2>1, <2>2, <2>3, <2>4 DEF Lesser
  <2>6. SubSeq(Stretch(0, n), c + 1, d) = Stretch(0 + (c + 1) - 1, d - (c + 1) + 1)
    <3>1. c + 1 \in 1 .. n + 1 /\ d \in (c + 1) - 1 .. n
      BY <2>5
    <3> QED
      BY <3>1, StretchCut
  <2>7. 0 + (c + 1) - 1 = c /\ d - (c + 1) + 1 = d - c
    BY <2>5
  <2>8. BlocksOf(Stretch(0, n))[k] = SubSeq(Stretch(0, n), c + 1, d)
    BY <1>3, <2>4
  <2> QED
    BY <2>3, <2>4, <2>5, <2>6, <2>7, <2>8
<1> QED
  BY <1>0, <1>1, <1>4, <1>5

(* After so many bytes: full pieces, and the beginning of the next one. *)
HashedUpTo(a, c, p) ==
    \E q \in Nat, r \in 0 .. p - 1 :
       /\ c = q * p + r
       /\ a = [closed |-> FullPieces(q, p), open |-> Stretch(q * p, r)]

(* A block that does not cross the end of a piece. *)
LEMMA BlockStep ==
    ASSUME NEW p, p = pieceLength, p \in Nat \ {0}, NEW q \in Nat,
           NEW r \in 0 .. p - 1, NEW m \in Nat, r + m <= p, NEW g, g = q * p + r
    PROVE  HashedUpTo(HashBlock([closed |-> FullPieces(q, p),
                                 open   |-> Stretch(q * p, r)], Stretch(g, m)),
                      q * p + r + m, p)
<1>1. q * p \in Nat /\ g \in Nat
  BY Multiples
<1>2. Stretch(q * p, r) \o Stretch(g, m) = Stretch(q * p, r + m)
  <2>1. PICK b \in Nat : b = q * p
    BY <1>1
  <2>2. r \in Nat /\ g = b + r
    BY <2>1
  <2>3. Stretch(b, r) \o Stretch(b + r, m) = Stretch(b, r + m)
    BY <2>2, StretchJoin
  <2> QED
    BY <2>1, <2>2, <2>3
<1>3. Len(Stretch(q * p, r + m)) = r + m
  BY <1>1, StretchSeq
<1>4. PICK h : h = HashBlock([closed |-> FullPieces(q, p),
                              open   |-> Stretch(q * p, r)], Stretch(g, m))
  OBVIOUS
<1>5. h = IF r + m >= p
          THEN [closed |-> Append(FullPieces(q, p), Leaf(Stretch(q * p, r + m))),
                open |-> <<>>]
          ELSE [closed |-> FullPieces(q, p), open |-> Stretch(q * p, r + m)]
  BY <1>2, <1>3, <1>4 DEF HashBlock
<1>6. CASE r + m >= p
  <2>1. r + m = p
    BY <1>6
  <2>2. (q + 1) * p = q * p + p /\ q + 1 \in Nat /\ (q + 1) * p \in Nat
    BY <1>1
  <2>3. h = [closed |-> FullPieces(q + 1, p), open |-> Stretch((q + 1) * p, 0)]
    BY <1>5, <2>1, <2>2, OnePieceMore, EmptyStretch
  <2>4. q * p + r + m = (q + 1) * p + 0 /\ 0 \in 0 .. p - 1
    BY <1>1, <2>1, <2>2
  <2> QED
    BY <1>4, <2>2, <2>3, <2>4 DEF HashedUpTo
<1>7. CASE ~(r + m >= p)
  <2>1. r + m \in 0 .. p - 1 /\ q * p + r + m = q * p + (r + m)
    BY <1>1, <1>7
  <2> QED
    BY <1>4, <1>5, <1>7, <2>1 DEF HashedUpTo
<1> QED
  BY <1>6, <1>7

(* The pieces of a single file are those of its bytes: as a piece is a      *)
(* whole number of blocks, no block crosses the end of one.                 *)
LEMMA V1PiecesAre ==
    ASSUME pieceLength \in Nat \ {0}, \E M \in Nat : pieceLength = M * Block,
           NEW n \in Nat
    PROVE  V1Pieces(Stretch(0, n)) = AllPieces(n, pieceLength)
<1>1. PICK p, B, K, b : /\ p = pieceLength /\ B = Block /\ K = BlockCount(n)
                        /\ b = BlocksOf(Stretch(0, n))
  OBVIOUS
<1>2. p \in Nat \ {0} /\ B \in Nat \ {0}
  BY <1>1, TorrentAssumption
<1>3. PICK M \in Nat : p = M * B
  BY <1>1
<1>4. /\ K \in Nat /\ Len(b) = K /\ n <= K * B
      /\ \A k \in 1 .. K :
           /\ (k - 1) * B \in Nat /\ k * B = (k - 1) * B + B /\ (k - 1) * B < n
           /\ b[k] = Stretch((k - 1) * B, Lesser(k * B, n) - (k - 1) * B)
  BY <1>1, BlocksAre
<1> DEFINE A == AfterBlocks(b)
           c(k) == Lesser(k * B, n)
           T == {m \in 0 .. K : ~HashedUpTo(A[m], c(m), p)}
<1>5. /\ A[0] = [closed |-> <<>>, open |-> <<>>]
      /\ \A k \in 1 .. K : A[k] = HashBlock(A[k - 1], b[k])
  BY <1>4, BlocksRecur
<1> HIDE DEF A
<1>6. HashedUpTo(A[0], c(0), p)
  <2>1. c(0) = 0 /\ 0 * p = 0 /\ 0 \in 0 .. p - 1
    BY <1>2 DEF Lesser
  <2>2. FullPieces(0, p) = <<>>
    <3>0. 0 \in Nat
      OBVIOUS
    <3>1. PICK s, S : s = FullPieces(0, p) /\ s \in Seq(S) /\ Len(s) = 0
      BY <3>0, FullPiecesSeq, Zenon
    <3> QED
      BY <3>1
  <2>3. Stretch(0, 0) = <<>>
    BY EmptyStretch
  <2>4. c(0) = 0 * p + 0
    BY <2>1
  <2>5. A[0] = [closed |-> FullPieces(0, p), open |-> Stretch(0 * p, 0)]
    BY <1>5, <2>1, <2>2, <2>3
  <2> QED
    BY <2>1, <2>4, <2>5 DEF HashedUpTo
<1>7. ASSUME NEW m \in 1 .. K, HashedUpTo(A[m - 1], c(m - 1), p)
      PROVE  HashedUpTo(A[m], c(m), p)
  <2>1. PICK d : d = (m - 1) * B
    OBVIOUS
  <2>2. /\ d \in Nat /\ m * B = d + B /\ d < n /\ m - 1 \in Nat
        /\ b[m] = Stretch(d, c(m) - d)
    BY <1>4, <2>1
  <2>3. c(m - 1) = d
    BY <2>1, <2>2 DEF Lesser
  <2>4. PICK q \in Nat, r \in 0 .. p - 1 :
           /\ d = q * p + r
           /\ A[m - 1] = [closed |-> FullPieces(q, p), open |-> Stretch(q * p, r)]
    BY <1>7, <2>3 DEF HashedUpTo
  <2>5. c(m) \in Nat /\ d <= c(m) /\ c(m) <= d + B
    BY <1>2, <2>2 DEF Lesser
  <2>6. d + B <= q * p + p
    <3>1. PICK z : z = (q + 1) * M
      OBVIOUS
    <3>2. z \in Nat /\ z * B = q * p + p
      BY <1>2, <1>3, <3>1
    <3>3. q * p \in Nat /\ d < q * p + p
      BY <1>2, <2>4, Multiples
    <3>4. m - 1 < z
      <4>1. SUFFICES ASSUME z <= m - 1 PROVE FALSE
        BY <2>2, <3>2
      <4>2. z * B <= (m - 1) * B
        BY <1>2, <2>2, <3>2, <4>1
      <4>3. PICK y, x : y = z * B /\ x = q * p /\ y = x + p /\ x \in Nat
        BY <3>2, <3>3
      <4>4. y <= d /\ d < x + p
        BY <2>1, <3>3, <4>2, <4>3
      <4> QED
        BY <1>2, <2>2, <4>3, <4>4
    <3>5. (m - 1) * B <= z * B - B
      BY <1>2, <2>2, <3>2, <3>4, Multiples
    <3> QED
      BY <1>2, <2>1, <2>2, <3>2, <3>3, <3>5
  <2>7. PICK e \in Nat : e = c(m) - d
    BY <2>2, <2>5
  <2>8. q * p \in Nat /\ r + e <= p /\ c(m) = q * p + r + e
    <3>1. q * p \in Nat
      BY <1>2, Multiples
    <3> QED
      BY <1>2, <2>2, <2>4, <2>5, <2>6, <2>7, <3>1
  <2>9. A[m] = HashBlock([closed |-> FullPieces(q, p), open |-> Stretch(q * p, r)],
                         Stretch(d, e))
    BY <1>5, <2>2, <2>4, <2>7
  <2>10. HashedUpTo(HashBlock([closed |-> FullPieces(q, p), open |-> Stretch(q * p, r)],
                              Stretch(d, e)), q * p + r + e, p)
    BY <1>1, <1>2, <2>4, <2>8, BlockStep
  <2> QED
    BY <2>8, <2>9, <2>10
<1>8. T = {}
  <2> SUFFICES ASSUME T # {} PROVE FALSE
    OBVIOUS
  <2>1. T \in SUBSET Nat
    OBVIOUS
  <2>2. PICK m \in T : \A y \in T : m <= y
    BY <2>1, LeastElement
  <2>3. m \in 0 .. K /\ ~HashedUpTo(A[m], c(m), p) /\ m # 0
    BY <1>6, <2>2
  <2>4. m \in 1 .. K /\ m - 1 \in 0 .. K
    BY <1>4, <2>3
  <2>5. m - 1 \notin T
    BY <2>2, <2>4
  <2>6. HashedUpTo(A[m - 1], c(m - 1), p)
    BY <2>4, <2>5
  <2> QED
    BY <1>7, <2>3, <2>4, <2>6
<1>9. HashedUpTo(A[K], n, p)
  <2>1. K \in 0 .. K
    BY <1>4
  <2>2. HashedUpTo(A[K], c(K), p)
    BY <1>8, <2>1
  <2>3. K * B \in Nat
    BY <1>2, <1>4, Multiples
  <2>4. c(K) = n
    BY <1>4, <2>3 DEF Lesser
  <2> QED
    BY <2>2, <2>4
<1>10. PICK q \in Nat, r \in 0 .. p - 1 :
          /\ n = q * p + r
          /\ A[K] = [closed |-> FullPieces(q, p), open |-> Stretch(q * p, r)]
  BY <1>9 DEF HashedUpTo
<1>11. V1Pieces(Stretch(0, n)) = IF A[K].open = <<>> THEN A[K].closed
                                ELSE Append(A[K].closed, Leaf(A[K].open))
  BY <1>1, <1>4, Zenon DEF V1Pieces, A
<1>12. A[K].open = Stretch(q * p, r) /\ A[K].closed = FullPieces(q, p)
  BY <1>10
<1>13. (IF Stretch(q * p, r) = <<>> THEN FullPieces(q, p)
        ELSE Append(FullPieces(q, p), Leaf(Stretch(q * p, r)))) = AllPieces(n, p)
  BY <1>2, <1>10, LastPiece
<1> QED
  BY <1>1, <1>11, <1>12, <1>13

-----------------------------------------------------------------------------
(* Creation.  The v1 pass over a directory has hashed what it has read:    *)
(* q pieces are complete, r bytes are in the hasher and m in the buffer.   *)

PassAt(q, r, m) ==
    /\ q \in Nat /\ r \in Nat /\ m \in Nat /\ r < pieceLength /\ m <= off
    /\ pieces = FullPieces(q, pieceLength)
    /\ run = Stretch(q * pieceLength, r)
    /\ buf = Stretch(q * pieceLength + r, m)
    /\ q * pieceLength + r + m = Start(f) + off

Passing == /\ f \in 1 .. Len(length) /\ off \in 0 .. length[f]
           /\ phase = "hash" => off = 0
           /\ \E q, r, m : PassAt(q, r, m)

Single == kind \in {"file", "stream"}

HInv ==
    /\ pieceLength \in PieceLengths
    /\ kind \in {"foreign", "dir", "file", "stream"}
    /\ kind = "foreign" => phase \in {"made", "ready", "failed"}
    /\ Single => /\ phase # "ready" => Len(length) = 1
                 /\ phase # "read" /\ (phase = "hash" => f = 1)
    /\ phase = "options" => off = 0 /\ buf = <<>> /\ run = <<>> /\ pieces = <<>>
    /\ phase = "hash" => PieceLengthOk
    /\ phase = "read" => PieceLengthOk
    /\ kind = "dir" /\ phase \in {"hash", "read"} => Passing
    /\ kind # "foreign" /\ phase \in {"made", "ready"} =>
         /\ info.form # "tree" /\ info.files = length
         /\ delivered = TotalSize => info.pieces = AllPieces(TotalSize, pieceLength)

LEMMA HInvGives == HInv => PiecesHashed
<1> SUFFICES ASSUME HInv, Made
             PROVE  /\ info.pieces = [i \in 1 .. PiecesIn(TotalSize) |->
                         Leaf([x \in 1 .. PieceSize(i - 1) |->
                                 (i - 1) * pieceLength + x])]
                    /\ info.files = length
  BY DEF PiecesHashed
<1>1. info.pieces = AllPieces(TotalSize, pieceLength) /\ info.files = length
  BY DEF HInv, Made
<1>2. AllPieces(TotalSize, pieceLength)
        = [i \in 1 .. PiecesIn(TotalSize) |->
             Leaf([x \in 1 .. PieceSize(i - 1) |-> (i - 1) * pieceLength + x])]
  BY DEF AllPieces, Stretch, PiecesIn, PieceSize
<1> QED
  BY <1>1, <1>2

LEMMA HashingStarts == TInit => HInv
<1> SUFFICES ASSUME TInit PROVE HInv
  OBVIOUS
<1>1. pieceLength \in PieceLengths
  BY DEF TInit, Init
<1>2. kind \in {"foreign", "dir", "file", "stream"} /\ (Single => Len(length) = 1)
  BY DEF TInit, Kinds, Single
<1>3. /\ phase = IF kind = "foreign" THEN "made" ELSE "options"
      /\ off = 0 /\ buf = <<>> /\ run = <<>> /\ pieces = <<>>
  BY DEF TInit
<1> QED
  BY <1>1, <1>2, <1>3 DEF HInv, Single

LEMMA OffsetsUnchanged ==
    ASSUME UNCHANGED vars
    PROVE  /\ \A e : Start(e)' = Start(e)
           /\ UNCHANGED <<length, pieceLength, TotalSize>>
  BY LayoutKept DEF vars

LEMMA HashKeepsOptions ==
    ASSUME TInv, HInv, CheckOptions
    PROVE  HInv'
<1>1. /\ UNCHANGED <<vars, kind, off, buf, run, pieces>>
      /\ phase = "options" /\ kind # "foreign"
  BY DEF CheckOptions, HInv
<1>2. UNCHANGED <<length, pieceLength, TotalSize>> /\ \A e : Start(e)' = Start(e)
  BY <1>1, OffsetsUnchanged
<1>3. CASE phase' = "failed"
  BY <1>1, <1>2, <1>3 DEF HInv, Single
<1>4. CASE phase' = "hash" /\ f' = 1 /\ PieceLengthOk /\ length # <<>>
  <2>1. length \in Seq(Nat) /\ pieceLength \in Nat \ {0}
    BY DEF TInv, SInv, Typed
  <2>2. Start(1) = 0 /\ 1 \in 1 .. Len(length) /\ length[1] \in Nat
    BY <1>4, <2>1, Starts
  <2>3. PassAt(0, 0, 0)'
    <3>1. off' = 0 /\ buf' = <<>> /\ run' = <<>> /\ pieces' = <<>>
      BY <1>1 DEF HInv
    <3>2. Stretch(0, 0) = <<>>
      BY EmptyStretch
    <3>3. FullPieces(0, pieceLength) = <<>>
      <4>0. 0 \in Nat
        OBVIOUS
      <4>1. PICK s, S : s = FullPieces(0, pieceLength) /\ s \in Seq(S) /\ Len(s) = 0
        BY <4>0, FullPiecesSeq, Zenon
      <4> QED
        BY <4>1
    <3>4. 0 * pieceLength = 0 /\ 0 * pieceLength + 0 = 0 /\ 0 < pieceLength
      BY <2>1
    <3>5. Start(f)' = 0
      BY <1>2, <1>4, <2>2 DEF Start
    <3> QED
      BY <1>2, <2>1, <3>1, <3>2, <3>3, <3>4, <3>5 DEF PassAt
  <2>4. Passing'
    <3>1. off' = 0
      BY <1>1 DEF HInv
    <3> QED
      BY <1>2, <1>4, <2>2, <2>3, <3>1 DEF Passing
  <2>5. PieceLengthOk'
    BY <1>2, <1>4 DEF PieceLengthOk, isPowerOfTwo
  <2> QED
    BY <1>1, <1>2, <1>4, <2>4, <2>5 DEF HInv, Single
<1> QED
  BY <1>3, <1>4 DEF CheckOptions, Refuse

LEMMA ContentsAre == \A e : Contents(e) = Stretch(Start(e), length[e])
  BY DEF Contents, Stretch

LEMMA HashKeepsFile ==
    ASSUME TInv, HInv, HashFile
    PROVE  HInv'
<1>1. /\ UNCHANGED <<vars, kind, delivered, f, off, buf, run, pieces>>
      /\ phase = "hash" /\ kind # "foreign"
  BY DEF HashFile, HInv
<1>2. UNCHANGED <<length, pieceLength, TotalSize>> /\ \A e : Start(e)' = Start(e)
  BY <1>1, OffsetsUnchanged
<1>3. CASE kind = "dir"
  <2>1. phase' = "read"
    BY <1>3 DEF HashFile
  <2>2. Passing /\ PieceLengthOk
    BY <1>1, <1>3 DEF HInv
  <2>3. PICK q, r, m : PassAt(q, r, m)
    BY <2>2 DEF Passing
  <2>4. PassAt(q, r, m)'
    BY <1>1, <1>2, <2>3 DEF PassAt, Start
  <2>5. Passing' /\ PieceLengthOk'
    BY <1>1, <1>2, <2>1, <2>2, <2>4 DEF Passing, PieceLengthOk, isPowerOfTwo
  <2> QED
    BY <1>1, <1>2, <1>3, <2>1, <2>5 DEF HInv, Single
<1>4. CASE kind # "dir"
  <2>1. Single /\ f = 1 /\ Len(length) = 1 /\ PieceLengthOk
    BY <1>1, <1>4 DEF HInv, Single
  <2>2. PICK s : /\ s = IF kind = "stream" THEN SubSeq(Contents(1), 1, delivered)
                         ELSE Contents(f)
                 /\ phase' = "made" /\ info' = Hybrid("single", V1Pieces(s))
    BY <1>4 DEF HashFile
  <2>3. info'.form # "tree" /\ info'.files = length /\ info'.pieces = V1Pieces(s)
    BY <2>2 DEF Hybrid
  <2>4. ASSUME delivered = TotalSize
        PROVE  V1Pieces(s) = AllPieces(TotalSize, pieceLength)
    <3>1. /\ length \in Seq(Nat) /\ 1 \in 1 .. Len(length) /\ length[1] \in Nat
          /\ pieceLength \in Nat \ {0}
      <4>1. length \in Seq(Nat) /\ pieceLength \in Nat \ {0}
        BY DEF TInv, SInv, Typed
      <4>2. 1 \in 1 .. Len(length)
        BY <2>1
      <4> QED
        BY <4>1, <4>2
    <3>2. Start(1) = 0 /\ TotalSize = length[1]
      <4>1. Start(1) = 0 /\ Start(1 + 1) = Start(1) + length[1]
        BY <3>1, Starts
      <4>2. TotalSize = Start(1 + 1)
        BY <2>1 DEF TotalSize
      <4> QED
        BY <3>1, <4>1, <4>2
    <3>3. PICK n \in Nat : n = length[1]
      BY <3>1
    <3>4. Contents(1) = Stretch(0, n)
      BY <3>2, <3>3, ContentsAre
    <3>5. s = Stretch(0, n)
      <4>1. CASE kind = "stream"
        <5>1. SubSeq(Stretch(0, n), 1, n) = Stretch(0 + 1 - 1, n - 1 + 1)
          <6>1. 1 \in 1 .. n + 1 /\ n \in 1 - 1 .. n
            OBVIOUS
          <6> QED
            BY <6>1, StretchCut
        <5>2. 0 + 1 - 1 = 0 /\ n - 1 + 1 = n
          OBVIOUS
        <5> QED
          BY <2>2, <2>4, <3>2, <3>3, <3>4, <4>1, <5>1, <5>2
      <4>2. CASE kind # "stream"
        BY <2>1, <2>2, <3>4, <4>2
      <4> QED
        BY <4>1, <4>2
    <3>6. \E M \in Nat : pieceLength = M * Block
      <4>1. PieceLevel \in Nat /\ pieceLength = Pow2[PieceLevel] * Block
        BY <2>1, <3>1, PieceLevelIs
      <4>2. Pow2[PieceLevel] \in Nat
        BY <4>1, Pow2Nat
      <4> QED
        BY <4>1, <4>2
    <3> QED
      BY <3>1, <3>2, <3>3, <3>5, <3>6, V1PiecesAre
  <2>5. UNCHANGED <<TotalSize, delivered>>
    BY <1>1, <1>2
  <2> QED
    BY <1>1, <1>2, <1>4, <2>1, <2>2, <2>3, <2>4, <2>5 DEF HInv, Single
<1> QED
  BY <1>3, <1>4

(* What the steps of the v1 pass start from. *)
LEMMA PassFacts ==
    ASSUME TInv, HInv, phase = "read"
    PROVE  /\ kind = "dir" /\ length \in Seq(Nat) /\ pieceLength \in Nat \ {0}
           /\ Passing /\ PieceLengthOk /\ f \in 1 .. Len(length) /\ length[f] \in Nat
           /\ off \in Nat /\ off <= length[f] /\ Start(f) \in Nat
           /\ Start(f) + length[f] = Start(f + 1)
<1>1. kind = "dir" /\ Passing /\ PieceLengthOk
  BY DEF HInv, Single
<1>2. length \in Seq(Nat) /\ pieceLength \in Nat \ {0}
  BY DEF TInv, SInv, Typed
<1>3. f \in 1 .. Len(length) /\ off \in 0 .. length[f]
  BY <1>1 DEF Passing
<1>4. length[f] \in Nat
  BY <1>2, <1>3
<1>5. Start(f) \in Nat /\ Start(f) + length[f] = Start(f + 1)
  BY <1>2, <1>3, Starts
<1> QED
  BY <1>1, <1>2, <1>3, <1>4, <1>5

LEMMA HashKeepsRead ==
    ASSUME TInv, HInv, ReadChunk
    PROVE  HInv'
<1>1. /\ UNCHANGED <<vars, kind, phase, f, run, pieces, info, delivered>>
      /\ phase = "read" /\ buf = <<>>
  BY DEF ReadChunk
<1>2. UNCHANGED <<length, pieceLength, TotalSize>> /\ \A e : Start(e)' = Start(e)
  BY <1>1, OffsetsUnchanged
<1>3. PICK n \in 1 .. Lesser(Buffer, length[f] - off) :
         buf' = SubSeq(Contents(f), off + 1, off + n) /\ off' = off + n
  BY DEF ReadChunk
<1>4. /\ kind = "dir" /\ length \in Seq(Nat) /\ pieceLength \in Nat \ {0}
      /\ Passing /\ PieceLengthOk /\ f \in 1 .. Len(length) /\ length[f] \in Nat
      /\ off \in Nat /\ off <= length[f] /\ Start(f) \in Nat
  BY <1>1, PassFacts
<1>5. n \in Nat /\ off + n <= length[f]
  BY <1>3, <1>4, TorrentAssumption DEF Lesser
<1>6. PICK q, r, m : PassAt(q, r, m)
  BY <1>4 DEF Passing
<1>7. PICK p, b, g, o : /\ p = pieceLength /\ b = q * p /\ g = Start(f) /\ o = off
  OBVIOUS
<1>8. /\ q \in Nat /\ r \in Nat /\ m \in Nat /\ r < p /\ p \in Nat \ {0}
      /\ g \in Nat /\ o \in Nat /\ b + r + m = g + o /\ buf = Stretch(b + r, m)
  BY <1>4, <1>6, <1>7 DEF PassAt
<1>9. b \in Nat
  BY <1>7, <1>8, Multiples
<1>10. m = 0
  <2>1. b + r \in Nat
    BY <1>8, <1>9
  <2>2. Len(Stretch(b + r, m)) = m
    BY <1>8, <2>1, StretchSeq
  <2> QED
    BY <1>1, <1>8, <2>2
<1>11. buf' = Stretch(b + r, n)
  <2>1. PICK L \in Nat : L = length[f]
    BY <1>4
  <2>2. o + 1 \in 1 .. L + 1 /\ o + n \in (o + 1) - 1 .. L
    BY <1>5, <1>7, <1>8, <2>1
  <2>3. SubSeq(Stretch(g, L), o + 1, o + n) = Stretch(g + (o + 1) - 1, (o + n) - (o + 1) + 1)
    BY <1>8, <2>2, StretchCut
  <2>4. g + (o + 1) - 1 = b + r /\ (o + n) - (o + 1) + 1 = n
    BY <1>5, <1>8, <1>9, <1>10
  <2>5. Contents(f) = Stretch(g, L)
    BY <1>7, <2>1, ContentsAre
  <2> QED
    BY <1>3, <1>7, <2>3, <2>4, <2>5
<1>12. PassAt(q, r, n)'
  <2>1. n <= off' /\ q * pieceLength + r + n = Start(f) + off'
    BY <1>3, <1>5, <1>7, <1>8, <1>9, <1>10
  <2>2. Start(f)' = Start(f)
    BY <1>1, <1>2 DEF Start
  <2> QED
    BY <1>1, <1>2, <1>5, <1>6, <1>7, <1>8, <1>11, <2>1, <2>2 DEF PassAt
<1>13. Passing'
  <2>1. off' \in 0 .. length[f]
    BY <1>3, <1>4, <1>5
  <2> QED
    BY <1>1, <1>2, <1>4, <1>12, <2>1 DEF Passing
<1>14. PieceLengthOk'
  BY <1>2, <1>4 DEF PieceLengthOk, isPowerOfTwo
<1> QED
  BY <1>1, <1>2, <1>4, <1>13, <1>14 DEF HInv, Single

(* While the pass is where PassAt says, nothing else has changed. *)
LEMMA HashPartRest ==
    ASSUME HInv, Passing, PieceLengthOk, phase = "read", kind = "dir",
           UNCHANGED <<kind, phase, f, off, info, delivered, length, pieceLength,
                       TotalSize>>,
           NEW q, NEW r, NEW m, PassAt(q, r, m)'
    PROVE  HInv'
<1>1. Passing'
  BY DEF Passing
<1>2. PieceLengthOk'
  BY DEF PieceLengthOk, isPowerOfTwo
<1> QED
  BY <1>1, <1>2 DEF HInv, Single

LEMMA HashKeepsPart ==
    ASSUME TInv, HInv, HashPart
    PROVE  HInv'
<1>1. /\ UNCHANGED <<vars, kind, phase, f, off, info, delivered>>
      /\ phase = "read" /\ buf # <<>>
  BY DEF HashPart
<1>2. UNCHANGED <<length, pieceLength, TotalSize>> /\ \A e : Start(e)' = Start(e)
  BY <1>1, OffsetsUnchanged
<1>4. /\ kind = "dir" /\ length \in Seq(Nat) /\ pieceLength \in Nat \ {0}
      /\ Passing /\ PieceLengthOk /\ f \in 1 .. Len(length) /\ length[f] \in Nat
      /\ off \in Nat /\ off <= length[f] /\ Start(f) \in Nat
  BY <1>1, PassFacts
<1>6. PICK q, r, m : PassAt(q, r, m)
  BY <1>4 DEF Passing
<1>7. PICK p, b, g, o : /\ p = pieceLength /\ b = q * p /\ g = Start(f) /\ o = off
  OBVIOUS
<1>8. /\ q \in Nat /\ r \in Nat /\ m \in Nat /\ r < p /\ p \in Nat \ {0}
      /\ g \in Nat /\ o \in Nat /\ b + r + m = g + o /\ m <= o
      /\ buf = Stretch(b + r, m) /\ run = Stretch(b, r) /\ pieces = FullPieces(q, p)
  BY <1>4, <1>6, <1>7 DEF PassAt
<1>9. b \in Nat /\ b + r \in Nat
  <2>1. b \in Nat
    BY <1>7, <1>8, Multiples
  <2> QED
    BY <1>8, <2>1
<1>10. Len(buf) = m /\ Len(run) = r /\ m # 0
  <2>1. Len(buf) = m /\ Len(run) = r
    BY <1>8, <1>9, StretchSeq
  <2>2. m # 0
    BY <1>1, <1>8, <1>9, EmptyStretch
  <2> QED
    BY <2>1, <2>2
<1>11. PICK u : u = ToWrite
  OBVIOUS
<1>12. u \in Nat /\ u <= m /\ r + u <= p
  BY <1>7, <1>8, <1>10, <1>11 DEF ToWrite, Lesser
<1>13. run \o SubSeq(buf, 1, u) = Stretch(b, r + u)
  <2>1. 1 \in 1 .. m + 1 /\ u \in 1 - 1 .. m
    BY <1>8, <1>12
  <2>2. SubSeq(Stretch(b + r, m), 1, u) = Stretch((b + r) + 1 - 1, u - 1 + 1)
    BY <1>8, <1>9, <2>1, StretchCut
  <2>3. (b + r) + 1 - 1 = b + r /\ u - 1 + 1 = u
    BY <1>9, <1>12
  <2>4. Stretch(b, r) \o Stretch(b + r, u) = Stretch(b, r + u)
    <3>1. b \in Nat /\ r \in Nat /\ u \in Nat
      BY <1>8, <1>9, <1>12
    <3> QED
      BY <3>1, StretchJoin
  <2> QED
    BY <1>8, <2>2, <2>3, <2>4
<1>14. buf' = Stretch(b + r + u, m - u)
  <2>1. u + 1 \in 1 .. m + 1 /\ m \in (u + 1) - 1 .. m
    BY <1>8, <1>12
  <2>2. SubSeq(Stretch(b + r, m), u + 1, m) = Stretch((b + r) + (u + 1) - 1, m - (u + 1) + 1)
    <3>1. PICK z, v : z = b + r /\ v = u + 1
      OBVIOUS
    <3>2. z \in Nat /\ m \in Nat /\ v \in 1 .. m + 1 /\ m \in v - 1 .. m
      BY <1>8, <1>9, <2>1, <3>1, Zenon
    <3>3. SubSeq(Stretch(z, m), v, m) = Stretch(z + v - 1, m - v + 1)
      BY <3>2, StretchCut
    <3> QED
      BY <3>1, <3>3, Zenon
  <2>3. (b + r) + (u + 1) - 1 = b + r + u /\ m - (u + 1) + 1 = m - u
    BY <1>8, <1>9, <1>12
  <2>4. buf' = SubSeq(buf, u + 1, m)
    BY <1>10, <1>11 DEF HashPart
  <2> QED
    BY <1>8, <2>2, <2>3, <2>4
<1>15. Len(Stretch(b, r + u)) = r + u
  BY <1>8, <1>9, <1>12, StretchSeq
<1>16. Start(f)' = g /\ pieceLength' = p /\ off' = o
  BY <1>1, <1>2, <1>7 DEF Start
<1>17. CASE r + u = p
  <2>1. /\ pieces' = Append(pieces, Leaf(Stretch(b, p))) /\ run' = <<>>
    BY <1>7, <1>11, <1>13, <1>15, <1>17 DEF HashPart
  <2>2. q + 1 \in Nat /\ (q + 1) * p = b + p /\ b + p \in Nat
    BY <1>7, <1>8, <1>9
  <2>3. pieces' = FullPieces(q + 1, p)
    BY <1>7, <1>8, <2>1, OnePieceMore
  <2>4. run' = Stretch((q + 1) * p, 0)
    BY <2>1, <2>2, EmptyStretch
  <2>5. b + r + u = b + p /\ b + p + 0 = b + p /\ b + p + (m - u) = g + o
    BY <1>8, <1>9, <1>12, <1>17
  <2>6. buf' = Stretch((q + 1) * p + 0, m - u)
    BY <1>14, <2>2, <2>5
  <2>7. m - u \in Nat /\ m - u <= o /\ 0 < p /\ 0 \in Nat
    BY <1>8, <1>12
  <2>8. (q + 1) * p + 0 + (m - u) = g + o
    BY <2>2, <2>5
  <2>9. PassAt(q + 1, 0, m - u)'
    BY <1>16, <2>2, <2>3, <2>4, <2>6, <2>7, <2>8 DEF PassAt
  <2> QED
    BY <2>9, <1>1, <1>2, <1>4, HashPartRest
<1>18. CASE r + u # p
  <2>1. UNCHANGED pieces /\ run' = Stretch(b, r + u)
    BY <1>7, <1>11, <1>13, <1>15, <1>18 DEF HashPart
  <2>2. r + u \in Nat /\ r + u < p /\ m - u \in Nat /\ m - u <= o
    BY <1>8, <1>12, <1>18
  <2>3. b + (r + u) = b + r + u /\ b + (r + u) + (m - u) = g + o
    BY <1>8, <1>9, <1>12
  <2>4. PassAt(q, r + u, m - u)'
    BY <1>7, <1>8, <1>14, <1>16, <2>1, <2>2, <2>3 DEF PassAt
  <2> QED
    BY <2>4, <1>1, <1>2, <1>4, HashPartRest
<1> QED
  BY <1>17, <1>18

LEMMA HashKeepsDone ==
    ASSUME TInv, HInv, FileDone
    PROVE  HInv'
<1>1. /\ UNCHANGED <<vars, kind, buf, run, pieces, delivered>> /\ off' = 0
      /\ phase = "read" /\ buf = <<>> /\ off = length[f]
  BY DEF FileDone
<1>2. UNCHANGED <<length, pieceLength, TotalSize>> /\ \A e : Start(e)' = Start(e)
  BY <1>1, OffsetsUnchanged
<1>4. /\ kind = "dir" /\ length \in Seq(Nat) /\ pieceLength \in Nat \ {0}
      /\ Passing /\ PieceLengthOk /\ f \in 1 .. Len(length) /\ length[f] \in Nat
      /\ off \in Nat /\ off <= length[f] /\ Start(f) \in Nat
      /\ Start(f) + length[f] = Start(f + 1)
  BY <1>1, PassFacts
<1>6. PICK q, r, m : PassAt(q, r, m)
  BY <1>4 DEF Passing
<1>7. PICK p, b : p = pieceLength /\ b = q * p
  OBVIOUS
<1>8. /\ q \in Nat /\ r \in Nat /\ m \in Nat /\ r < p /\ p \in Nat \ {0}
      /\ b + r + m = Start(f) + off
      /\ buf = Stretch(b + r, m) /\ run = Stretch(b, r) /\ pieces = FullPieces(q, p)
  BY <1>4, <1>6, <1>7 DEF PassAt
<1>9. b \in Nat /\ b + r \in Nat
  <2>1. b \in Nat
    BY <1>7, <1>8, Multiples
  <2> QED
    BY <1>8, <2>1
<1>10. m = 0
  <2>1. Len(Stretch(b + r, m)) = m
    BY <1>8, <1>9, StretchSeq
  <2> QED
    BY <1>1, <1>8, <2>1
<1>11. b + r = Start(f + 1)
  BY <1>1, <1>4, <1>8, <1>9, <1>10
<1>12. CASE f < Len(length)
  <2>1. f' = f + 1 /\ phase' = "hash" /\ UNCHANGED info
    BY <1>12 DEF FileDone
  <2>2. f + 1 \in 1 .. Len(length) /\ length[f + 1] \in Nat
    <3>1. f + 1 \in 1 .. Len(length)
      BY <1>4, <1>12
    <3> QED
      BY <1>4, <3>1
  <2>3. Start(f)' = Start(f + 1)
    BY <1>2, <2>1 DEF Start
  <2>4. PassAt(q, r, 0)'
    <3>1. b + r + 0 = Start(f + 1) + 0 /\ 0 \in Nat /\ 0 <= 0
      BY <1>9, <1>11
    <3> QED
      BY <1>1, <1>2, <1>7, <1>8, <1>10, <2>3, <3>1 DEF PassAt
  <2>5. Passing'
    BY <1>1, <1>2, <2>1, <2>2, <2>4 DEF Passing
  <2>6. PieceLengthOk'
    BY <1>2, <1>4 DEF PieceLengthOk, isPowerOfTwo
  <2> QED
    BY <1>1, <1>2, <1>4, <2>1, <2>5, <2>6 DEF HInv, Single
<1>13. CASE ~(f < Len(length))
  <2>1. /\ phase' = "made" /\ UNCHANGED f
        /\ info' = Hybrid("list", IF run = <<>> THEN pieces
                                  ELSE Append(pieces, Leaf(run)))
    BY <1>13 DEF FileDone
  <2>2. f = Len(length)
    BY <1>4, <1>13
  <2>3. TotalSize = b + r
    BY <1>11, <2>2 DEF TotalSize
  <2>4. r \in 0 .. p - 1
    BY <1>8
  <2>5. (IF Stretch(q * p, r) = <<>> THEN FullPieces(q, p)
         ELSE Append(FullPieces(q, p), Leaf(Stretch(q * p, r)))) = AllPieces(q * p + r, p)
    BY <1>8, <2>4, LastPiece
  <2>6. (IF run = <<>> THEN pieces ELSE Append(pieces, Leaf(run)))
          = AllPieces(TotalSize, pieceLength)
    BY <1>7, <1>8, <2>3, <2>5
  <2>7. /\ info'.form # "tree" /\ info'.files = length
        /\ info'.pieces = AllPieces(TotalSize, pieceLength)
    BY <2>1, <2>6 DEF Hybrid
  <2> QED
    BY <1>1, <1>2, <1>4, <2>1, <2>7 DEF HInv, Single
<1> QED
  BY <1>12, <1>13

LEMMA HashKeepsParse ==
    ASSUME TInv, HInv, Parse
    PROVE  HInv'
<1>1. /\ phase = "made" /\ info.files = length
      /\ UNCHANGED <<pieceLength, kind, delivered, info>>
  BY DEF Parse, TInv
<1>2. CASE phase' = "failed"
  <2>1. UNCHANGED length
    BY <1>2 DEF Parse
  <2> QED
    BY <1>1, <1>2, <2>1 DEF HInv, Single
<1>3. CASE phase' = "ready" /\ length' \in ParsedFiles
  <2>1. ASSUME kind # "foreign" PROVE UNCHANGED <<length, TotalSize>>
    <3>1. info.form # "tree"
      BY <1>1, <2>1 DEF HInv
    <3>2. UNCHANGED length
      BY <1>1, <1>3, <3>1 DEF ParsedFiles
    <3> QED
      BY <3>2 DEF TotalSize, Start
  <2>2. CASE kind = "foreign"
    BY <1>1, <1>3, <2>2 DEF HInv, Single
  <2>3. CASE kind # "foreign"
    BY <1>1, <1>3, <2>1, <2>3 DEF HInv, Single
  <2> QED
    BY <2>2, <2>3
<1> QED
  BY <1>2, <1>3 DEF Parse

LEMMA HashingKeeps == TInv /\ HInv /\ [TNext]_allVars => HInv'
<1> SUFFICES ASSUME TInv, HInv, [TNext]_allVars PROVE HInv'
  OBVIOUS
<1>1. CASE CheckOptions \/ HashFile \/ ReadChunk \/ HashPart \/ FileDone \/ Parse
  BY <1>1, HashKeepsOptions, HashKeepsFile, HashKeepsRead, HashKeepsPart,
     HashKeepsDone, HashKeepsParse
<1>2. CASE ReadFails
  <2>1. phase' = "failed" /\ UNCHANGED <<vars, kind>> /\ phase \in {"hash", "read"}
    BY <1>2 DEF ReadFails, Refuse
  <2>2. UNCHANGED <<length, pieceLength>>
    BY <2>1, OffsetsUnchanged
  <2> QED
    BY <2>1, <2>2 DEF HInv, Single
<1>3. CASE Download \/ UNCHANGED allVars
  <2>1. UNCHANGED <<length, pieceLength>> /\ UNCHANGED makeVars
    <3>1. UNCHANGED makeVars /\ [Next]_vars
      BY <1>3 DEF Download, allVars
    <3> QED
      BY <3>1, DownloadUnchanged
  <2>2. /\ UNCHANGED <<length, pieceLength, kind, phase, delivered, f, off, buf, run,
                       pieces, info>>
        /\ TotalSize' = TotalSize /\ Start(f)' = Start(f)
    BY <2>1 DEF makeVars, TotalSize, Start
  <2>3. PieceLengthOk' <=> PieceLengthOk
    BY <2>2 DEF PieceLengthOk, isPowerOfTwo
  <2>4. Passing => Passing'
    BY <2>2 DEF Passing, PassAt
  <2> QED
    BY <2>2, <2>3, <2>4 DEF HInv, Single
<1> QED
  BY <1>1, <1>2, <1>3 DEF TNext

(* For files of any number and size, any read sizes, any legal piece length *)
(* and any stream that yields what it announced: hash i of the torrent that *)
(* Create and CreateStream make is the hash of the bytes of piece i.        *)
THEOREM HashesAreOfPieces == TSpec => []PiecesHashed
<1>1. TSpec => [](TInv /\ HInv)
  BY MakingStarts, HashingStarts, MakingKeeps, HashingKeeps, PTL DEF TSpec
<1> QED
  BY <1>1, HInvGives, PTL

-----------------------------------------------------------------------------
(* The levels of a tree of height h over the hashes x, padded with p: the   *)
(* lowest, and the one over a level of which it is known.                   *)
Bottom(x, h, p) == [i \in 1 .. Pow2[h] |-> IF i <= Len(x) THEN x[i] ELSE p]
Over(s, m) == [i \in 1 .. Pow2[m] |-> Node(s[2 * i - 1], s[2 * i])]

Levels(x, h, p) ==
    LET at[k \in 0 .. h] == IF k = 0 THEN Bottom(x, h, p) ELSE Over(at[k - 1], h - k)
    IN at

LevelSteps(g, x, h, p, n) ==
    g = [k \in 0 .. n |-> IF k = 0 THEN Bottom(x, h, p) ELSE Over(g[k - 1], h - k)]

LEMMA LevelStepsExist ==
    ASSUME NEW x, NEW h, NEW p, NEW n \in Nat
    PROVE  \E g : LevelSteps(g, x, h, p, n)
<1> DEFINE T == {m \in Nat : ~\E g : LevelSteps(g, x, h, p, m)}
<1> SUFFICES ASSUME T # {} PROVE FALSE
  OBVIOUS
<1>1. PICK m \in T : \A y \in T : m <= y
  BY LeastElement
<1>2. CASE m = 0
  <2>1. LevelSteps([k \in 0 .. 0 |-> Bottom(x, h, p)], x, h, p, 0)
    BY DEF LevelSteps
  <2> QED
    BY <1>1, <1>2, <2>1
<1>3. CASE m # 0
  <2>1. m \in Nat /\ m - 1 \in Nat /\ m - 1 \notin T
    BY <1>1, <1>3
  <2>2. PICK g : LevelSteps(g, x, h, p, m - 1)
    BY <2>1
  <2> DEFINE e == [k \in 0 .. m |-> IF k = m THEN Over(g[m - 1], h - m) ELSE g[k]]
  <2>3. ASSUME NEW k \in 0 .. m
        PROVE  e[k] = IF k = 0 THEN Bottom(x, h, p) ELSE Over(e[k - 1], h - k)
    <3>1. CASE k = m
      BY <2>1, <1>3, <3>1
    <3>2. CASE k # m
      <4>1. k \in 0 .. m - 1
        BY <2>1, <3>2
      <4>2. g[k] = IF k = 0 THEN Bottom(x, h, p) ELSE Over(g[k - 1], h - k)
        BY <4>1, <2>2 DEF LevelSteps
      <4> QED
        BY <4>1, <4>2, <2>1
    <3> QED
      BY <3>1, <3>2
  <2>4. LevelSteps(e, x, h, p, m)
    <3> HIDE DEF e
    <3>1. e = [k \in 0 .. m |-> e[k]]
      BY DEF e
    <3> QED
      BY <2>3, <3>1 DEF LevelSteps
  <2> QED
    BY <1>1, <2>4
<1> QED
  BY <1>2, <1>3

(* Levels is the function its definition describes. *)
LEMMA LevelsRecur ==
    ASSUME NEW x, NEW h \in Nat, NEW p
    PROVE  /\ DOMAIN Levels(x, h, p) = 0 .. h
           /\ Levels(x, h, p)[0] = Bottom(x, h, p)
           /\ \A k \in 1 .. h : Levels(x, h, p)[k] = Over(Levels(x, h, p)[k - 1], h - k)
<1>1. \E g : LevelSteps(g, x, h, p, h)
  BY LevelStepsExist
<1>2. \E g : g = [k \in 0 .. h |->
                    IF k = 0 THEN Bottom(x, h, p) ELSE Over(g[k - 1], h - k)]
  BY <1>1 DEF LevelSteps
<1>3. Levels(x, h, p) = [k \in 0 .. h |->
         IF k = 0 THEN Bottom(x, h, p) ELSE Over(Levels(x, h, p)[k - 1], h - k)]
  BY <1>2, Zenon DEF Levels
<1>4. PICK o, b : o = Levels(x, h, p) /\ b = Bottom(x, h, p)
  OBVIOUS
<1>5. o = [k \in 0 .. h |-> IF k = 0 THEN b ELSE Over(o[k - 1], h - k)]
  BY <1>3, <1>4
<1>6. DOMAIN o = 0 .. h /\ o[0] = b /\ \A k \in 1 .. h : o[k] = Over(o[k - 1], h - k)
  BY <1>5
<1> QED
  BY <1>4, <1>6

LEMMA TreeIsLevels ==
    \A x : buildMerkleTree(x) = Levels(x, Height(Len(x)), zeroHash)
  BY Zenon DEF buildMerkleTree, Levels, Bottom, Over

LEMMA RootIsLevels ==
    \A x, h, p : RootOver(x, h, p) = Levels(x, h, p)[h][1]
  BY Zenon DEF RootOver, Levels, Bottom, Over

LEMMA LevelBottom ==
    ASSUME NEW x, NEW h \in Nat, NEW p
    PROVE  \A i \in 1 .. Pow2[h] :
              Levels(x, h, p)[0][i] = IF i <= Len(x) THEN x[i] ELSE p
<1>1. Levels(x, h, p)[0] = Bottom(x, h, p)
  BY LevelsRecur
<1> QED
  BY <1>1 DEF Bottom

Built(t, h) ==
    \A k \in 1 .. h : \A i \in 1 .. Pow2[h - k] :
      t[k][i] = Node(t[k - 1][2 * i - 1], t[k - 1][2 * i])

LEMMA LevelNode ==
    ASSUME NEW x, NEW h \in Nat, NEW p
    PROVE  Built(Levels(x, h, p), h)
<1>1. PICK o : o = Levels(x, h, p)
  OBVIOUS
<1>2. \A k \in 1 .. h : o[k] = Over(o[k - 1], h - k)
  BY <1>1, LevelsRecur
<1>3. ASSUME NEW k \in 1 .. h, NEW i \in 1 .. Pow2[h - k]
      PROVE  o[k][i] = Node(o[k - 1][2 * i - 1], o[k - 1][2 * i])
  BY <1>2 DEF Over
<1> QED
  BY <1>1, <1>3 DEF Built

-----------------------------------------------------------------------------
(* A tree whose lowest level is a part of a level of another one, c widths *)
(* from its beginning, is a part of that one at all its levels.            *)
LEMMA Subtree ==
    ASSUME NEW x, NEW h \in Nat, NEW p, NEW y, NEW m \in Nat, NEW q,
           NEW s \in Nat, s + m <= h, NEW c \in Nat, c < Pow2[h - (s + m)],
           \A j \in 1 .. Pow2[m] :
              Levels(x, h, p)[s][c * Pow2[m] + j] = Levels(y, m, q)[0][j]
    PROVE  \A k \in 0 .. m : \A j \in 1 .. Pow2[m - k] :
              Levels(x, h, p)[s + k][c * Pow2[m - k] + j] = Levels(y, m, q)[k][j]
<1>0. PICK A, C : A = Levels(x, h, p) /\ C = Levels(y, m, q)
  OBVIOUS
<1>a. Built(A, h)
  BY <1>0, LevelNode
<1>b. Built(C, m)
  BY <1>0, LevelNode
<1> DEFINE Same(k) == \A j \in 1 .. Pow2[m - k] :
                        A[s + k][c * Pow2[m - k] + j] = C[k][j]
           T == {k \in 0 .. m : ~Same(k)}
<1>1. T \in SUBSET Nat
  OBVIOUS
<1>2. SUFFICES ASSUME T # {} PROVE FALSE
  BY <1>0
<1>3. PICK k \in T : \A z \in T : k <= z
  BY <1>1, <1>2, LeastElement
<1>4. k \in 0 .. m /\ ~Same(k)
  BY <1>3
<1>5. k # 0
  <2>1. s + 0 = s /\ m - 0 = m
    OBVIOUS
  <2>2. Same(0)
    BY <1>0, <2>1
  <2> QED
    BY <1>4, <2>2
<1>6. k - 1 \in 0 .. m /\ ~(k - 1 \in T)
  BY <1>3, <1>4, <1>5
<1>7. Same(k - 1)
  BY <1>6
<1>8. PICK W, V : W = Pow2[m - k] /\ V = Pow2[h - (s + m)]
  OBVIOUS
<1>9. /\ m - k \in Nat /\ h - (s + m) \in Nat /\ W \in Nat \ {0} /\ V \in Nat \ {0}
      /\ c < V
  BY <1>4, <1>8, Pow2Nat
<1>10. Pow2[m - (k - 1)] = 2 * W
  <2>1. (m - k) + 1 = m - (k - 1)
    BY <1>4
  <2> QED
    BY <1>8, <1>9, <2>1, Pow2Recur
<1>11. Pow2[h - (s + k)] = W * V
  <2>1. (m - k) + (h - (s + m)) = h - (s + k)
    BY <1>4
  <2> QED
    BY <1>8, <1>9, <2>1, Pow2Sum
<1>12. PICK e : e = c * W
  OBVIOUS
<1>13. e \in Nat /\ e + W <= W * V /\ c * (2 * W) = 2 * e
  <2>1. c * W \in Nat /\ V * W \in Nat /\ c * W <= V * W - W
    BY <1>9, Multiples
  <2>2. V * W = W * V /\ c * (2 * W) = 2 * (c * W)
    BY <1>9
  <2> QED
    BY <1>9, <1>12, <2>1, <2>2
<1>14. ASSUME NEW j \in 1 .. W PROVE A[s + k][e + j] = C[k][j]
  <2>1. PICK i : i = e + j
    OBVIOUS
  <2>2. s + k \in 1 .. h /\ (s + k) - 1 = s + (k - 1)
    BY <1>4, <1>5
  <2>3. i \in 1 .. Pow2[h - (s + k)]
    <3>1. PICK U \in Int : U = W * V
      BY <1>9
    <3>2. i \in 1 .. U
      BY <1>9, <1>13, <2>1, <3>1
    <3> QED
      BY <1>11, <3>1, <3>2
  <2>4. A[s + k][i] = Node(A[s + (k - 1)][2 * i - 1], A[s + (k - 1)][2 * i])
    BY <1>a, <2>2, <2>3 DEF Built
  <2>5. C[k][j] = Node(C[k - 1][2 * j - 1], C[k - 1][2 * j])
    <3>1. k \in 1 .. m /\ j \in 1 .. Pow2[m - k]
      BY <1>4, <1>5, <1>8
    <3> QED
      BY <1>b, <3>1 DEF Built
  <2>6. \A t \in 1 .. 2 * W : A[s + (k - 1)][2 * e + t] = C[k - 1][t]
    BY <1>7, <1>10, <1>13
  <2>7. /\ 2 * j - 1 \in 1 .. 2 * W /\ 2 * j \in 1 .. 2 * W
        /\ 2 * i - 1 = 2 * e + (2 * j - 1) /\ 2 * i = 2 * e + 2 * j
    BY <1>9, <1>13, <2>1
  <2>8. /\ A[s + (k - 1)][2 * i - 1] = C[k - 1][2 * j - 1]
        /\ A[s + (k - 1)][2 * i] = C[k - 1][2 * j]
    BY <2>6, <2>7
  <2> QED
    BY <2>1, <2>4, <2>5, <2>8
<1> QED
  BY <1>4, <1>8, <1>12, <1>14

(* In particular its root is a hash of that level. *)
Within(y, m, q, x, h, p, s, c) ==
    \A j \in 1 .. Pow2[m] : Levels(x, h, p)[s][c * Pow2[m] + j] = Levels(y, m, q)[0][j]

LEMMA SubtreeRoot ==
    ASSUME NEW x, NEW h \in Nat, NEW p, NEW y, NEW m \in Nat, NEW q,
           NEW s \in Nat, s + m <= h, NEW c \in Nat, c < Pow2[h - (s + m)],
           Within(y, m, q, x, h, p, s, c)
    PROVE  Levels(x, h, p)[s + m][c + 1] = RootOver(y, m, q)
<1>1. \A k \in 0 .. m : \A j \in 1 .. Pow2[m - k] :
         Levels(x, h, p)[s + k][c * Pow2[m - k] + j] = Levels(y, m, q)[k][j]
  BY Subtree DEF Within
<1>2. m \in 0 .. m /\ m - m = 0 /\ Pow2[0] = 1 /\ 1 \in 1 .. 1 /\ c * 1 = c
  BY Pow2Recur
<1>3. Levels(x, h, p)[s + m][c + 1] = Levels(y, m, q)[m][1]
  BY <1>1, <1>2
<1> QED
  BY <1>3, RootIsLevels

-----------------------------------------------------------------------------
(* The leaves of n bytes from g on. *)
LEMMA BlockExists ==
    ASSUME NEW n \in Nat
    PROVE  /\ BlockCount(n) \in Nat
           /\ \A k \in Nat \ {0} : (k - 1) * Block \in Nat
                                   /\ k * Block = (k - 1) * Block + Block
           /\ \A k \in Nat \ {0} : k <= BlockCount(n) <=> (k - 1) * Block < n
<1>0. PICK B, K : B = Block /\ K = BlockCount(n)
  OBVIOUS
<1>1. B \in Nat \ {0} /\ K \in Nat /\ n <= K * B /\ (K # 0 => K * B - B < n)
  BY <1>0, TorrentAssumption, CeilBounds DEF BlockCount
<1>2. ASSUME NEW k \in Nat \ {0}
      PROVE  /\ (k - 1) * B \in Nat /\ k * B = (k - 1) * B + B
             /\ k <= K <=> (k - 1) * B < n
  <2>1. k - 1 \in Nat
    OBVIOUS
  <2>2. (k - 1) * B \in Nat /\ K * B \in Nat /\ k * B = (k - 1) * B + B
    BY <1>1, <2>1
  <2>3. k - 1 < K => (k - 1) * B <= K * B - B
    BY <1>1, <2>1, Multiples
  <2>4. K <= k - 1 => K * B <= (k - 1) * B
    BY <1>1, <2>1
  <2>5. PICK u, v : u = (k - 1) * B /\ v = K * B
    OBVIOUS
  <2>6. u \in Nat /\ v \in Nat /\ (k - 1 < K => u <= v - B) /\ (K <= k - 1 => v <= u)
        /\ n <= v /\ (K # 0 => v - B < n)
    BY <1>1, <2>2, <2>3, <2>4, <2>5
  <2>7. k <= K <=> u < n
    BY <1>1, <2>6
  <2> QED
    BY <2>2, <2>5, <2>7
<1> QED
  BY <1>0, <1>1, <1>2

LEMMA LeavesAre ==
    ASSUME NEW g \in Nat, NEW n \in Nat
    PROVE  /\ Len(LeavesOf(Stretch(g, n))) = BlockCount(n)
           /\ \A k \in 1 .. BlockCount(n) :
                LeavesOf(Stretch(g, n))[k]
                  = Leaf(Stretch(g + (k - 1) * Block, Lesser(Block, n - (k - 1) * Block)))
<1>0. PICK B, K : B = Block /\ K = BlockCount(n)
  OBVIOUS
<1>1. /\ B \in Nat \ {0} /\ K \in Nat
      /\ \A k \in Nat \ {0} : (k - 1) * B \in Nat /\ k * B = (k - 1) * B + B
      /\ \A k \in Nat \ {0} : k <= K <=> (k - 1) * B < n
  BY <1>0, TorrentAssumption, BlockExists
<1>2. Len(Stretch(g, n)) = n
  BY StretchSeq
<1>3. BlocksOf(Stretch(g, n)) = [k \in 1 .. K |->
         SubSeq(Stretch(g, n), (k - 1) * B + 1, Lesser(k * B, n))]
  BY <1>0, <1>2 DEF BlocksOf, BlockCount
<1>4. LeavesOf(Stretch(g, n)) = [k \in 1 .. K |->
         Leaf(SubSeq(Stretch(g, n), (k - 1) * B + 1, Lesser(k * B, n)))]
  BY <1>3 DEF LeavesOf
<1>5. Len(LeavesOf(Stretch(g, n))) = K
  BY <1>1, <1>4
<1>6. ASSUME NEW k \in 1 .. K
      PROVE  LeavesOf(Stretch(g, n))[k]
               = Leaf(Stretch(g + (k - 1) * B, Lesser(B, n - (k - 1) * B)))
  <2>1. PICK c, d : c = (k - 1) * B /\ d = Lesser(k * B, n)
    OBVIOUS
  <2>2. k \in Nat \ {0} /\ k <= K
    BY <1>1
  <2>3. c \in Nat /\ k * B = c + B /\ c < n
    BY <1>1, <2>1, <2>2
  <2>4. d \in c .. n /\ d - c = Lesser(B, n - c)
    BY <1>1, <2>1, <2>3 DEF Lesser
  <2>5. SubSeq(Stretch(g, n), c + 1, d) = Stretch(g + (c + 1) - 1, d - (c + 1) + 1)
    <3>1. c + 1 \in 1 .. n + 1 /\ d \in (c + 1) - 1 .. n
      BY <2>3, <2>4
    <3> QED
      BY <3>1, StretchCut
  <2>6. g + (c + 1) - 1 = g + c /\ d - (c + 1) + 1 = d - c
    BY <2>3, <2>4
  <2>7. LeavesOf(Stretch(g, n))[k] = Leaf(SubSeq(Stretch(g, n), c + 1, d))
    BY <1>4, <2>1
  <2> QED
    BY <2>1, <2>4, <2>5, <2>6, <2>7
<1> QED
  BY <1>0, <1>5, <1>6

-----------------------------------------------------------------------------
(* Pieces of W blocks, counted in bytes and in blocks. *)
LEMMA BlocksInPieces ==
    ASSUME NEW size \in Nat, NEW b \in Nat \ {0}, NEW W \in Nat \ {0},
           NEW k \in Nat \ {0}, NEW n \in Nat \ {0},
           size <= k * b, k * b - b < size,
           size <= n * (W * b), n * (W * b) - W * b < size
    PROVE  k <= n * W /\ n * W - W < k
<1>1. PICK d : d = n * W
  OBVIOUS
<1>2. d \in Nat /\ W <= d
  BY <1>1
<1>3. n * (W * b) = d * b /\ (d - W) * b = d * b - W * b /\ d - W \in Nat
  BY <1>1, <1>2
<1>4. k * b \in Nat /\ d * b \in Nat /\ (d - W) * b \in Nat
      /\ (d < k => d * b <= k * b - b)
  BY <1>2, <1>3, Multiples
<1>5. k <= d - W => k * b <= (d - W) * b
  <2>1. k <= d - W => d - W = k + (d - W - k) /\ d - W - k \in Nat
    BY <1>3
  <2>2. ASSUME NEW e \in Nat PROVE k * b <= (k + e) * b
    OBVIOUS
  <2> QED
    BY <1>3, <2>1, <2>2
<1>6. PICK u, v, y : u = k * b /\ v = d * b /\ y = (d - W) * b
  OBVIOUS
<1>7. y < size /\ size <= v /\ size <= u /\ u - b < size /\ u \in Nat /\ v \in Nat /\ y \in Nat
      /\ (d < k => v <= u - b) /\ (k <= d - W => u <= y)
  BY <1>3, <1>4, <1>5, <1>6
<1>8. ~(d < k) /\ ~(k <= d - W)
  BY <1>7
<1> QED
  BY <1>1, <1>2, <1>8

(* The height of the tree over the pieces. *)
LEMMA HeightOfPieces ==
    ASSUME NEW l \in Nat, NEW k \in Nat \ {0}, NEW n \in Nat, n > 1,
           k <= n * Pow2[l], n * Pow2[l] - Pow2[l] < k
    PROVE  /\ l < Height(k) /\ Height(n) = Height(k) - l
           /\ n <= Pow2[Height(k) - l]
           /\ Pow2[Height(k)] = Pow2[Height(k) - l] * Pow2[l]
<1>0. PICK h, W : h = Height(k) /\ W = Pow2[l]
  OBVIOUS
<1>1. /\ h \in Nat /\ k <= Pow2[h] /\ W \in Nat \ {0}
      /\ \A j \in 0 .. h - 1 : Pow2[j] < k
      /\ \A j \in Nat : Pow2[j] \in Nat \ {0}
  BY <1>0, HeightGives, Pow2Nat
<1>2. W < k
  <2>1. 1 * W <= n * W - W /\ n * W \in Nat
    BY <1>1, Multiples
  <2> QED
    BY <1>0, <1>1, <2>1
<1>3. l < h
  <2>1. SUFFICES ASSUME h <= l PROVE FALSE
    BY <1>1
  <2>2. Pow2[h] <= W
    <3>1. CASE h = l
      BY <1>0, <1>1, <3>1
    <3>2. CASE h # l
      BY <1>0, <1>1, <2>1, <3>2, Pow2Grows
    <3> QED
      BY <3>1, <3>2
  <2> QED
    BY <1>1, <1>2, <2>2
<1>4. PICK m \in Nat : m = h - l /\ m + l = h
  BY <1>1, <1>3
<1>5. PICK V \in Nat \ {0} : V = Pow2[m] /\ Pow2[h] = V * W
  <2>1. Pow2[m + l] = Pow2[m] * Pow2[l]
    BY Pow2Sum
  <2> QED
    BY <1>0, <1>1, <1>4, <2>1
<1>6. n <= V
  <2>1. (V < n => V * W <= n * W - W) /\ V * W \in Nat /\ n * W \in Nat
    BY <1>1, <1>5, Multiples
  <2> QED
    BY <1>0, <1>1, <1>5, <2>1
<1>7. ASSUME NEW j \in 0 .. m - 1 PROVE Pow2[j] < n
  <2>1. PICK J \in Nat : J = Pow2[j] /\ Pow2[j + l] = J * W
    <3>1. j \in Nat
      BY <1>4
    <3>2. Pow2[j + l] = Pow2[j] * Pow2[l]
      BY <3>1, Pow2Sum
    <3> QED
      BY <1>0, <1>1, <3>1, <3>2
  <2>2. J * W < k
    <3>1. j + l \in 0 .. h - 1
      BY <1>4
    <3> QED
      BY <1>1, <2>1, <3>1
  <2>3. n <= J => n * W <= J * W
    BY <1>1, <2>1
  <2>4. J * W \in Nat /\ n * W \in Nat
    BY <1>1, <2>1
  <2> QED
    BY <1>0, <2>1, <2>2, <2>3, <2>4
<1>8. Height(n) = m
  BY <1>5, <1>6, <1>7, HeightIs
<1> QED
  BY <1>0, <1>3, <1>4, <1>5, <1>6, <1>8

-----------------------------------------------------------------------------
(* The piece of length p that begins c pieces from the start of a file. *)
Part(g, size, p, c) == Stretch(g + c * p, Lesser(p, size - c * p))

(* Its leaves are those of the file. *)
Aligned(y, x, o, W) ==
    \A j \in 1 .. W : /\ j <= Len(y) <=> o + j <= Len(x)
                      /\ j <= Len(y) => x[o + j] = y[j]

LEMMA PartLeaves ==
    ASSUME NEW g \in Nat, NEW size \in Nat, NEW W \in Nat \ {0}, NEW c \in Nat,
           c * (W * Block) < size
    PROVE  Aligned(LeavesOf(Part(g, size, W * Block, c)), LeavesOf(Stretch(g, size)),
                   c * W, W)
<1> SUFFICES ASSUME NEW j \in 1 .. W
             PROVE  /\ j <= Len(LeavesOf(Part(g, size, W * Block, c)))
                         <=> c * W + j <= Len(LeavesOf(Stretch(g, size)))
                    /\ j <= Len(LeavesOf(Part(g, size, W * Block, c)))
                         => LeavesOf(Stretch(g, size))[c * W + j]
                              = LeavesOf(Part(g, size, W * Block, c))[j]
  BY DEF Aligned
<1>0. PICK B, P, o, e, x, y, u, i :
        /\ B = Block /\ P = W * B /\ o = c * P /\ e = Lesser(P, size - o)
        /\ x = LeavesOf(Stretch(g, size)) /\ y = LeavesOf(Stretch(g + o, e))
        /\ u = (j - 1) * B /\ i = c * W + j
  OBVIOUS
<1>1. B \in Nat \ {0} /\ P \in Nat /\ o \in Nat /\ u \in Nat /\ j - 1 \in Nat
  BY <1>0, TorrentAssumption
<1>2. c * W \in Nat /\ i \in Nat \ {0} /\ j \in Nat \ {0}
  BY <1>0
<1>3. o < size /\ e \in Nat
  BY <1>0, <1>1 DEF Lesser
<1>4. (i - 1) * B = o + u
  <2>1. PICK d \in Nat : d = c * W
    BY <1>2
  <2>2. i - 1 = d + (j - 1)
    BY <1>0, <1>2, <2>1
  <2>3. (d + (j - 1)) * B = d * B + (j - 1) * B
    BY <1>1, <2>1
  <2>4. d * B = c * (W * B)
    BY <1>1, <2>1
  <2> QED
    BY <1>0, <2>2, <2>3, <2>4
<1>5. u <= P - B
  <2>1. j - 1 < W
    OBVIOUS
  <2> QED
    BY <1>0, <1>1, <2>1, Multiples
<1>6. /\ Len(x) = BlockCount(size)
      /\ \A k \in 1 .. BlockCount(size) :
            x[k] = Leaf(Stretch(g + (k - 1) * B, Lesser(B, size - (k - 1) * B)))
  BY <1>0, LeavesAre
<1>7. /\ Len(y) = BlockCount(e)
      /\ \A k \in 1 .. BlockCount(e) :
            y[k] = Leaf(Stretch((g + o) + (k - 1) * B, Lesser(B, e - (k - 1) * B)))
  <2>1. g + o \in Nat
    BY <1>1
  <2>2. /\ Len(LeavesOf(Stretch(g + o, e))) = BlockCount(e)
        /\ \A k \in 1 .. BlockCount(e) :
              LeavesOf(Stretch(g + o, e))[k]
                = Leaf(Stretch((g + o) + (k - 1) * Block,
                               Lesser(Block, e - (k - 1) * Block)))
    BY <1>3, <2>1, LeavesAre
  <2> QED
    BY <1>0, <2>2
<1>8. /\ BlockCount(size) \in Nat /\ BlockCount(e) \in Nat
      /\ i <= BlockCount(size) <=> o + u < size
      /\ j <= BlockCount(e) <=> u < e
  <2>1. i <= BlockCount(size) <=> (i - 1) * B < size
    BY <1>0, <1>2, BlockExists
  <2>2. j <= BlockCount(e) <=> (j - 1) * B < e
    BY <1>0, <1>2, <1>3, BlockExists
  <2>3. BlockCount(size) \in Nat /\ BlockCount(e) \in Nat
    BY <1>3, BlockExists
  <2> QED
    BY <1>0, <1>4, <2>1, <2>2, <2>3
<1>9. j <= BlockCount(e) <=> i <= BlockCount(size)
  BY <1>0, <1>1, <1>3, <1>5, <1>8 DEF Lesser
<1>10. ASSUME j <= BlockCount(e) PROVE x[i] = y[j]
  <2>1. i \in 1 .. BlockCount(size) /\ j \in 1 .. BlockCount(e)
    BY <1>2, <1>8, <1>9, <1>10
  <2>2. x[i] = Leaf(Stretch(g + (o + u), Lesser(B, size - (o + u))))
    BY <1>4, <1>6, <2>1
  <2>3. y[j] = Leaf(Stretch((g + o) + u, Lesser(B, e - u)))
    BY <1>0, <1>7, <2>1
  <2>4. g + (o + u) = (g + o) + u
    BY <1>1
  <2>5. Lesser(B, size - (o + u)) = Lesser(B, e - u)
    <3>1. CASE P <= size - o
      <4>1. e = P
        BY <1>0, <1>1, <3>1 DEF Lesser
      <4>2. Lesser(B, size - (o + u)) = B /\ Lesser(B, P - u) = B
        BY <1>1, <1>5, <3>1 DEF Lesser
      <4> QED
        BY <4>1, <4>2
    <3>2. CASE ~(P <= size - o)
      <4>1. e = size - o
        BY <1>0, <1>1, <3>2 DEF Lesser
      <4>2. size - (o + u) = e - u
        BY <1>1, <4>1
      <4> QED
        BY <4>2
    <3> QED
      BY <3>1, <3>2
  <2> QED
    BY <2>2, <2>3, <2>4, <2>5
<1>11. (j <= Len(y) <=> i <= Len(x)) /\ (j <= Len(y) => x[i] = y[j])
  BY <1>6, <1>7, <1>9, <1>10
<1>12. Part(g, size, W * Block, c) = Stretch(g + o, e)
  BY <1>0 DEF Part
<1> QED
  BY <1>0, <1>11, <1>12

(* Piece c + 1 of the file as a stretch. *)
LEMMA PartIs ==
    ASSUME NEW g \in Nat, NEW size \in Nat, NEW p \in Nat \ {0}, NEW c \in Nat,
           c * p < size
    PROVE  SubSeq(Stretch(g, size), c * p + 1, Lesser((c + 1) * p, size))
             = Part(g, size, p, c)
<1>1. PICK o, d : o = c * p /\ d = Lesser((c + 1) * p, size)
  OBVIOUS
<1>2. o \in Nat /\ (c + 1) * p = o + p /\ o < size
  BY <1>1
<1>3. d \in o .. size /\ d - o = Lesser(p, size - o)
  BY <1>1, <1>2 DEF Lesser
<1>4. SubSeq(Stretch(g, size), o + 1, d) = Stretch(g + (o + 1) - 1, d - (o + 1) + 1)
  <2>1. o + 1 \in 1 .. size + 1 /\ d \in (o + 1) - 1 .. size
    BY <1>2, <1>3
  <2> QED
    BY <2>1, StretchCut
<1>5. g + (o + 1) - 1 = g + o /\ d - (o + 1) + 1 = d - o
  BY <1>2, <1>3
<1> QED
  BY <1>1, <1>3, <1>4, <1>5 DEF Part

(* So a hash at the level of the pieces is the root over one piece ... *)
LEMMA LayerHash ==
    ASSUME NEW g \in Nat, NEW size \in Nat, NEW l \in Nat, NEW h \in Nat, l <= h,
           NEW c \in Nat, c < Pow2[h - l], c * (Pow2[l] * Block) < size, NEW z
    PROVE  Levels(LeavesOf(Stretch(g, size)), h, z)[l][c + 1]
             = RootOver(LeavesOf(Part(g, size, Pow2[l] * Block, c)), l, z)
<1>0. PICK W, x, y :
        /\ W = Pow2[l] /\ x = LeavesOf(Stretch(g, size))
        /\ y = LeavesOf(Part(g, size, W * Block, c))
  OBVIOUS
<1>1. W \in Nat \ {0}
  BY <1>0, Pow2Nat
<1>2. \A j \in 1 .. Pow2[l] :
         Levels(x, h, z)[0][c * Pow2[l] + j] = Levels(y, l, z)[0][j]
  <2>0. SUFFICES ASSUME NEW j \in 1 .. Pow2[l]
        PROVE  Levels(x, h, z)[0][c * Pow2[l] + j] = Levels(y, l, z)[0][j]
    OBVIOUS
  <2>1. j \in 1 .. W /\ c * (W * Block) < size
    BY <1>0
  <2>2. (j <= Len(y) <=> c * W + j <= Len(x)) /\ (j <= Len(y) => x[c * W + j] = y[j])
    <3>1. Aligned(LeavesOf(Part(g, size, W * Block, c)), LeavesOf(Stretch(g, size)),
                  c * W, W)
      BY <1>1, <2>1, PartLeaves
    <3> QED
      BY <1>0, <2>1, <3>1 DEF Aligned
  <2>3. c * W + j \in 1 .. Pow2[h]
    <3>1. PICK V \in Nat \ {0} : V = Pow2[h - l] /\ Pow2[h] = V * W
      <4>1. h - l \in Nat /\ (h - l) + l = h
        OBVIOUS
      <4>2. Pow2[(h - l) + l] = Pow2[h - l] * Pow2[l]
        BY <4>1, Pow2Sum
      <4>3. Pow2[h - l] \in Nat \ {0}
        BY <4>1, Pow2Nat
      <4> QED
        BY <1>0, <4>1, <4>2, <4>3
    <3>2. c * W \in Nat /\ V * W \in Nat /\ c * W <= V * W - W
      BY <1>1, <3>1, Multiples
    <3>3. PICK u, v \in Nat : u = c * W /\ v = V * W
      BY <3>2
    <3>4. u + j \in 1 .. v
      BY <1>1, <2>1, <3>2, <3>3
    <3> QED
      BY <3>1, <3>3, <3>4
  <2>4. Levels(x, h, z)[0][c * W + j] = IF c * W + j <= Len(x) THEN x[c * W + j] ELSE z
    BY <2>3, LevelBottom
  <2>5. Levels(y, l, z)[0][j] = IF j <= Len(y) THEN y[j] ELSE z
    BY LevelBottom
  <2>6. Levels(x, h, z)[0][c * W + j] = Levels(y, l, z)[0][j]
    BY <2>2, <2>4, <2>5
  <2> QED
    BY <1>0, <2>6
<1>3. PICK s \in Nat : s = 0
  OBVIOUS
<1>4. Levels(x, h, z)[s + l][c + 1] = RootOver(y, l, z)
  <2>1. s + l <= h /\ c < Pow2[h - (s + l)]
    BY <1>3
  <2>2. Within(y, l, z, x, h, z, s, c)
    BY <1>2, <1>3 DEF Within
  <2> QED
    BY <2>1, <2>2, SubtreeRoot
<1>5. s + l = l
  BY <1>3
<1> QED
  BY <1>0, <1>4, <1>5

(* ... and beyond the last piece it is the root over an empty one. *)
Beyond(x, l, c) == Len(x) \in Nat /\ Len(x) <= c * Pow2[l]

LEMMA LayerPad ==
    ASSUME NEW x, NEW l \in Nat, NEW h \in Nat, l <= h, NEW c \in Nat,
           c < Pow2[h - l], Beyond(x, l, c), NEW z
    PROVE  Levels(x, h, z)[l][c + 1] = RootOver(<<>>, l, z)
<1>0. PICK W : W = Pow2[l]
  OBVIOUS
<1>1. W \in Nat \ {0}
  BY <1>0, Pow2Nat
<1>2. \A j \in 1 .. Pow2[l] :
         Levels(x, h, z)[0][c * Pow2[l] + j] = Levels(<<>>, l, z)[0][j]
  <2>0. SUFFICES ASSUME NEW j \in 1 .. Pow2[l]
        PROVE  Levels(x, h, z)[0][c * Pow2[l] + j] = Levels(<<>>, l, z)[0][j]
    OBVIOUS
  <2>1. j \in 1 .. W /\ c * W \in Nat /\ Len(x) \in Nat /\ Len(x) <= c * W
    BY <1>0, <1>1 DEF Beyond
  <2>2. c * W + j \in 1 .. Pow2[h]
    <3>1. PICK V \in Nat \ {0} : V = Pow2[h - l] /\ Pow2[h] = V * W
      <4>1. h - l \in Nat /\ (h - l) + l = h
        OBVIOUS
      <4>2. Pow2[(h - l) + l] = Pow2[h - l] * Pow2[l]
        BY <4>1, Pow2Sum
      <4>3. Pow2[h - l] \in Nat \ {0}
        BY <4>1, Pow2Nat
      <4> QED
        BY <1>0, <4>1, <4>2, <4>3
    <3>2. c * W \in Nat /\ V * W \in Nat /\ c * W <= V * W - W
      BY <1>1, <3>1, Multiples
    <3>3. PICK u, v \in Nat : u = c * W /\ v = V * W
      BY <3>2
    <3>4. u + j \in 1 .. v
      BY <1>1, <2>1, <3>2, <3>3
    <3> QED
      BY <3>1, <3>3, <3>4
  <2>3. Levels(x, h, z)[0][c * W + j] = IF c * W + j <= Len(x) THEN x[c * W + j] ELSE z
    BY <2>2, LevelBottom
  <2>4. ~(c * W + j <= Len(x)) /\ ~(j <= 0)
    BY <1>1, <2>1
  <2>5. Levels(<<>>, l, z)[0][j] = z
    <3>1. Levels(<<>>, l, z)[0][j] = IF j <= Len(<<>>) THEN <<>>[j] ELSE z
      BY LevelBottom
    <3>2. Len(<<>>) = 0
      OBVIOUS
    <3> QED
      BY <2>4, <3>1, <3>2
  <2> QED
    BY <1>0, <2>3, <2>4, <2>5
<1>3. PICK s \in Nat : s = 0
  OBVIOUS
<1>4. Levels(x, h, z)[s + l][c + 1] = RootOver(<<>>, l, z)
  <2>1. s + l <= h /\ c < Pow2[h - (s + l)]
    BY <1>3
  <2>2. Within(<<>>, l, z, x, h, z, s, c)
    BY <1>2, <1>3 DEF Within
  <2> QED
    BY <2>1, <2>2, SubtreeRoot
<1>5. s + l = l
  BY <1>3
<1> QED
  BY <1>4, <1>5

(* A level is a sequence. *)
OfLength(t, n) == t = [i \in 1 .. n |-> t[i]]

LEMMA LevelSeq ==
    ASSUME NEW x, NEW h \in Nat, NEW p, NEW k \in 0 .. h
    PROVE  OfLength(Levels(x, h, p)[k], Pow2[h - k])
<1>1. PICK o : o = Levels(x, h, p)
  OBVIOUS
<1>2. o[0] = Bottom(x, h, p) /\ \A m \in 1 .. h : o[m] = Over(o[m - 1], h - m)
  BY <1>1, LevelsRecur
<1>4. CASE k = 0
  <2>1. h - 0 = h
    OBVIOUS
  <2> QED
    BY <1>1, <1>2, <1>4, <2>1 DEF Bottom, OfLength
<1>5. CASE k # 0
  <2>1. o[k] = Over(o[k - 1], h - k)
    BY <1>2, <1>5
  <2>2. o[k] = [i \in 1 .. Pow2[h - k] |-> o[k][i]]
    BY <2>1 DEF Over
  <2> QED
    BY <1>1, <2>2 DEF OfLength
<1> QED
  BY <1>4, <1>5

-----------------------------------------------------------------------------
(* What LayersVerify says of the hashes of one file, s being its bytes. *)
FileVerifies(r, s, size) ==
    /\ Verifies(r, s, size, zeroHash)
    /\ isPowerOfTwo(BlockCount(size)) => Verifies(r, s, size, missingLeaf)

(* The counts and heights that the pieces and blocks of a file have. *)
LEMMA LayerSizes ==
    ASSUME NEW size \in Nat, PieceLengthOk, pieceLength \in Nat \ {0}, PiecesIn(size) > 1
    PROVE  \E l, n, h \in Nat, k \in Nat \ {0} :
              /\ l = PieceLevel /\ n = PiecesIn(size) /\ k = BlockCount(size)
              /\ h = Height(k) /\ pieceLength = Pow2[l] * Block
              /\ n > 1 /\ n * pieceLength - pieceLength < size
              /\ k <= n * Pow2[l]
              /\ l < h /\ Height(n) = h - l /\ n <= Pow2[h - l]
<1>1. PICK P, B, l, W, n, k, h :
        /\ P = pieceLength /\ B = Block /\ l = PieceLevel /\ W = Pow2[l]
        /\ n = PiecesIn(size) /\ k = BlockCount(size) /\ h = Height(k)
  OBVIOUS
<1>2. /\ l \in Nat /\ P = W * B /\ P \in Nat \ {0} /\ B \in Nat \ {0}
      /\ W \in Nat \ {0}
  <2>1. PieceLevel \in Nat /\ pieceLength = Pow2[PieceLevel] * Block
    BY PieceLevelIs
  <2> QED
    BY <1>1, <2>1, Pow2Nat, TorrentAssumption
<1>3. n \in Nat /\ n > 1 /\ size <= n * P /\ n * P - P < size
  <2>1. n \in Nat /\ size <= n * P /\ (n # 0 => n * P - P < size)
    BY <1>1, <1>2, CeilBounds DEF PiecesIn
  <2>2. n > 1
    BY <1>1
  <2> QED
    BY <2>1, <2>2
<1>4. k \in Nat /\ size <= k * B /\ (k # 0 => k * B - B < size)
  BY <1>1, <1>2, CeilBounds DEF BlockCount
<1>5. k # 0
  <2>1. 0 * B = 0
    BY <1>2
  <2>2. 1 * P <= n * P - P /\ n * P \in Nat /\ 1 * P = P
    BY <1>2, <1>3, Multiples
  <2> QED
    BY <1>2, <1>3, <1>4, <2>1, <2>2
<1>6. k <= n * W /\ n * W - W < k
  BY <1>2, <1>3, <1>4, <1>5, BlocksInPieces
<1>7. l < h /\ Height(n) = h - l /\ n <= Pow2[h - l]
  BY <1>1, <1>2, <1>3, <1>4, <1>5, <1>6, HeightOfPieces
<1>8. h \in Nat
  BY <1>1, <1>4, HeightGives
<1> QED
  BY <1>1, <1>2, <1>3, <1>4, <1>5, <1>6, <1>7, <1>8

(* Where no leaf is missing, the padding plays no part. *)
LEMMA PadUnused ==
    ASSUME NEW x, NEW h, NEW a, NEW b, Len(x) \in Nat, Pow2[h] \in Nat, Pow2[h] <= Len(x)
    PROVE  Levels(x, h, a) = Levels(x, h, b)
<1>1. PICK t, n \in Nat : t = Pow2[h] /\ n = Len(x) /\ t \in Nat /\ t <= n
  OBVIOUS
<1>2. ASSUME NEW i \in 1 .. t PROVE i <= n
  BY <1>1
<1>3. Bottom(x, h, a) = Bottom(x, h, b)
  BY <1>1, <1>2 DEF Bottom
<1> QED
  BY <1>3, Zenon DEF Levels

LEMMA HeightOfFull ==
    ASSUME NEW k \in Nat, isPowerOfTwo(k)
    PROVE  Pow2[Height(k)] = k
<1>1. PICK c \in Nat : k = Pow2[c]
  BY DEF isPowerOfTwo
<1> QED
  BY <1>1, HeightOfPower

(* A padding with which the tree over so many blocks comes out the same. *)
Pads(z, k) == z = zeroHash \/ isPowerOfTwo(k)

(* The hashes that hashReaderHybrid makes of a file of several pieces. *)
LEMMA LayerOf ==
    ASSUME NEW g \in Nat, NEW size \in Nat, PieceLengthOk, pieceLength \in Nat \ {0},
           NEW z, Pads(z, BlockCount(size))
    PROVE  Verifies(hashReaderHybrid(Stretch(g, size), size), Stretch(g, size), size, z)
<1> SUFFICES ASSUME PiecesIn(size) > 1
             PROVE  Verifies(hashReaderHybrid(Stretch(g, size), size),
                             Stretch(g, size), size, z)
  BY DEF Verifies
<1>1. PICK l, n, h \in Nat, k \in Nat \ {0} :
        /\ l = PieceLevel /\ n = PiecesIn(size) /\ k = BlockCount(size)
        /\ h = Height(k) /\ pieceLength = Pow2[l] * Block
        /\ n > 1 /\ n * pieceLength - pieceLength < size
        /\ k <= n * Pow2[l]
        /\ l < h /\ Height(n) = h - l /\ n <= Pow2[h - l]
  BY LayerSizes
<1>2. PICK s, x, pad, tree, V, P :
        /\ s = Stretch(g, size) /\ x = LeavesOf(s)
        /\ pad = RootOver(<<>>, l, z) /\ tree = Levels(x, h, z)
        /\ V = Pow2[h - l] /\ P = pieceLength
  OBVIOUS
<1>3. Len(x) = k /\ Len(BlocksOf(s)) = k /\ P \in Nat \ {0} /\ n <= V
  <2>1. Len(x) = k
    BY <1>1, <1>2, LeavesAre
  <2>2. Len(s) = size
    BY <1>2, StretchSeq
  <2>3. BlocksOf(s) = [i \in 1 .. k |->
                         SubSeq(s, (i - 1) * Block + 1, Lesser(i * Block, Len(s)))]
    BY <1>1, <2>2 DEF BlocksOf, BlockCount
  <2>4. Len(BlocksOf(s)) = k
    BY <1>1, <2>3
  <2> QED
    BY <1>1, <1>2, <2>1, <2>4
<1>a. n \in Nat /\ n > 1 /\ n * P - P < size /\ P = Pow2[l] * Block
  BY <1>1, <1>2, Zenon
<1>4. tree[l] = [i \in 1 .. V |-> tree[l][i]] /\ V \in Nat
  <2>1. l \in 0 .. h
    BY <1>1
  <2>2. OfLength(Levels(x, h, z)[l], Pow2[h - l])
    BY <2>1, LevelSeq
  <2>3. OfLength(tree[l], V)
    BY <1>2, <2>2, Zenon
  <2>4. h - l \in Nat
    BY <1>1
  <2>5. V \in Nat
    BY <1>2, <2>4, Pow2Nat
  <2> QED
    BY <2>3, <2>5 DEF OfLength
<1>5. DOMAIN tree = 0 .. h
  BY <1>2, LevelsRecur
<1>6. size # 0
  <2>1. 1 * P <= n * P - P /\ n * P \in Nat /\ 1 * P = P
    <3>1. 1 \in Nat /\ 1 < n
      BY <1>a
    <3> HIDE <1>a
    <3> QED
      BY <1>3, <3>1, Multiples
  <2>2. PICK u : u = n * P
    OBVIOUS
  <2> QED
    BY <1>a, <1>3, <2>1, <2>2
<1>7. PICK layer : layer = [i \in 1 .. n |-> tree[l][i]]
  OBVIOUS
<1>8. extractPieceLayer(tree, n) = layer
  <2>1. l \in DOMAIN tree
    BY <1>1, <1>5
  <2>2. PICK S : S = {tree[l][i] : i \in 1 .. V}
    OBVIOUS
  <2>3. PICK t : t = tree[l]
    OBVIOUS
  <2>4. t = [i \in 1 .. V |-> t[i]] /\ \A i \in 1 .. V : t[i] \in S
    BY <1>4, <2>2, <2>3
  <2>5. t \in Seq(S) /\ Len(t) = V
    BY <1>4, <2>4
  <2>6. Lesser(n, V) = n
    BY <1>1, <1>3, <1>4 DEF Lesser
  <2>7. SubSeq(t, 1, n) = [i \in 1 .. n |-> t[i]]
    BY <1>1, <1>3, <1>4, <2>5
  <2> QED
    BY <1>1, <1>7, <2>1, <2>3, <2>5, <2>6, <2>7 DEF extractPieceLayer
<1>9. PICK r : r = hashReaderHybrid(s, size)
  OBVIOUS
<1>10. r.layer = layer /\ r.root = tree[h][1]
  <2>1. buildMerkleTree(LeavesOf(s)) = tree
    <3>1. buildMerkleTree(x) = Levels(x, h, zeroHash)
      BY <1>1, <1>3, TreeIsLevels
    <3>2. CASE z = zeroHash
      BY <1>2, <3>1, <3>2
    <3>3. CASE isPowerOfTwo(k)
      <4>1. Pow2[h] = k
        BY <1>1, <3>3, HeightOfFull
      <4>2. Levels(x, h, zeroHash) = Levels(x, h, z)
        BY <1>3, <4>1, PadUnused
      <4> QED
        BY <1>2, <3>1, <4>2
    <3> QED
      BY <1>1, <3>2, <3>3 DEF Pads
  <2>2. r = [length |-> size, root |-> tree[h][1], layer |-> extractPieceLayer(tree, n)]
    BY <1>1, <1>3, <1>6, <1>9, <2>1 DEF hashReaderHybrid, LeavesOf
  <2> QED
    BY <1>8, <2>2
<1>11. ASSUME NEW i \in 1 .. n
       PROVE  tree[l][i] = RootOver(LeavesOf(SubSeq(s, (i - 1) * P + 1, Lesser(i * P, size))),
                                    l, z)
  <2>1. PICK c \in Nat : c = i - 1 /\ c + 1 = i /\ c < n
    BY <1>1
  <2>2. c * P < size
    <3>1. c * P <= n * P - P /\ c * P \in Nat /\ n * P \in Nat
      BY <1>3, <2>1, Multiples
    <3>2. PICK u, v : u = c * P /\ v = n * P /\ v - P < size
      BY <1>a
    <3> QED
      BY <1>3, <3>1, <3>2
  <2>3. SubSeq(s, c * P + 1, Lesser((c + 1) * P, size)) = Part(g, size, P, c)
    BY <1>2, <1>3, <2>2, PartIs
  <2>4. Levels(LeavesOf(Stretch(g, size)), h, z)[l][c + 1]
          = RootOver(LeavesOf(Part(g, size, Pow2[l] * Block, c)), l, z)
    <3>1. l <= h /\ c < Pow2[h - l] /\ c * (Pow2[l] * Block) < size
      <4>1. c * (Pow2[l] * Block) < size
        BY <1>a, <2>2, Zenon
      <4>2. l <= h /\ c < V
        BY <1>1, <1>3, <1>4, <2>1
      <4> QED
        BY <1>2, <4>1, <4>2, Zenon
    <3> QED
      BY <3>1, LayerHash
  <2> QED
    BY <1>1, <1>2, <2>1, <2>3, <2>4
<1>12. ASSUME NEW i \in 1 .. V
       PROVE  tree[l][i] = IF i <= n THEN layer[i] ELSE pad
  <2>1. CASE i <= n
    <3>1. i \in 1 .. n
      BY <1>1, <1>4, <2>1
    <3> QED
      BY <1>7, <2>1, <3>1
  <2>2. CASE ~(i <= n)
    <3>1. PICK c \in Nat : c = i - 1 /\ c + 1 = i /\ n <= c /\ c < V
      BY <1>1, <1>4, <2>2
    <3>2. k <= c * Pow2[l]
      <4>1. PICK W \in Nat \ {0} : W = Pow2[l]
        BY Pow2Nat
      <4>2. n * W <= c * W /\ n * W \in Nat /\ c * W \in Nat
        <5>1. PICK d \in Nat : c = n + d
          <6>1. c - n \in Nat /\ c = n + (c - n)
            BY <1>1, <3>1
          <6> QED
            BY <6>1
        <5>2. (n + d) * W = n * W + d * W /\ n * W \in Nat /\ d * W \in Nat
          BY <1>1, <4>1, <5>1
        <5> QED
          BY <5>1, <5>2
      <4> QED
        BY <1>1, <4>1, <4>2
    <3>3. l <= h /\ c < Pow2[h - l] /\ Beyond(x, l, c)
      BY <1>1, <1>2, <1>3, <3>1, <3>2 DEF Beyond
    <3>4. Levels(x, h, z)[l][c + 1] = RootOver(<<>>, l, z)
      BY <3>3, LayerPad
    <3> QED
      BY <1>2, <2>2, <3>1, <3>4
  <2> QED
    BY <2>1, <2>2
<1>13. tree[h][1] = RootOver(layer, h - l, pad)
  <2>1. PICK m, c \in Nat : m = h - l /\ l + m = h /\ c = 0 /\ c + 1 = 1
    BY <1>1
  <2>2. Len(layer) = n
    BY <1>1, <1>7
  <2>3. ASSUME NEW j \in 1 .. Pow2[m]
        PROVE  Levels(x, h, z)[l][c * Pow2[m] + j] = Levels(layer, m, pad)[0][j]
    <3>1. c * Pow2[m] + j = j
      <4>1. Pow2[m] \in Nat
        BY Pow2Nat
      <4> QED
        BY <2>1, <4>1
    <3>2. Levels(layer, m, pad)[0][j] = IF j <= Len(layer) THEN layer[j] ELSE pad
      BY LevelBottom
    <3>3. tree[l][j] = IF j <= n THEN layer[j] ELSE pad
      BY <1>2, <1>12, <2>1
    <3> QED
      BY <1>2, <2>2, <3>1, <3>2, <3>3
  <2>4. Within(layer, m, pad, x, h, z, l, c)
    BY <2>3 DEF Within
  <2>5. l + m <= h /\ c < Pow2[h - (l + m)]
    <3>1. h - (l + m) \in Nat
      BY <2>1
    <3>2. Pow2[h - (l + m)] \in Nat \ {0}
      BY <3>1, Pow2Nat
    <3> QED
      BY <2>1, <3>2
  <2>6. Levels(x, h, z)[l + m][c + 1] = RootOver(layer, m, pad)
    BY <2>4, <2>5, SubtreeRoot
  <2> QED
    BY <1>2, <2>1, <2>6
<1>14. layer = [i \in 1 .. n |->
                  RootOver(LeavesOf(SubSeq(s, (i - 1) * P + 1, Lesser(i * P, size))), l, z)]
  BY <1>7, <1>11
<1> QED
  BY <1>1, <1>2, <1>9, <1>10, <1>13, <1>14 DEF Verifies

-----------------------------------------------------------------------------
(* While a torrent is made: the files hashed so far, in their order, have   *)
(* layers that verify.                                                      *)
Hashed == \A g \in 1 .. Len(v2) :
            g \in 1 .. Len(length) /\ FileVerifies(v2[g], Contents(g), length[g])

LInv ==
    /\ \E S : v2 \in Seq(S)
    /\ phase = "options" => v2 = <<>>
    /\ phase = "hash" => Len(v2) = f - 1
    /\ phase = "read" => Len(v2) = f
    /\ kind # "foreign" /\ delivered = TotalSize => Hashed

LEMMA LInvGives == LInv => LayersVerify
<1> SUFFICES ASSUME LInv, Made, NEW g \in DOMAIN v2
             PROVE  FileVerifies(v2[g], Contents(g), length[g])
  BY Zenon DEF LayersVerify, FileVerifies
<1>1. g \in 1 .. Len(v2)
  BY DEF LInv
<1> QED
  BY <1>1 DEF LInv, Made, Hashed

LEMMA VerifiesKept ==
    ASSUME UNCHANGED pieceLength, NEW r, NEW s, NEW size, FileVerifies(r, s, size)
    PROVE  FileVerifies(r, s, size)'
  BY DEF FileVerifies, Verifies, PiecesIn, PieceLevel

LEMMA HashedKept ==
    ASSUME Hashed, UNCHANGED <<length, pieceLength, v2>>
    PROVE  Hashed'
<1> SUFFICES ASSUME NEW g \in 1 .. Len(v2)
             PROVE  (g \in 1 .. Len(length) /\ FileVerifies(v2[g], Contents(g), length[g]))'
  BY DEF Hashed
<1>1. g \in 1 .. Len(length) /\ FileVerifies(v2[g], Contents(g), length[g])
  BY DEF Hashed
<1>2. PICK r, s, size : r = v2[g] /\ s = Contents(g) /\ size = length[g]
  OBVIOUS
<1>3. r = v2'[g] /\ s = Contents(g)' /\ size = length'[g]
  BY <1>2 DEF Contents, Start
<1>4. FileVerifies(r, s, size)'
  BY <1>1, <1>2, VerifiesKept
<1> QED
  BY <1>1, <1>3, <1>4 DEF FileVerifies, Verifies

(* A step that hashes no file. *)
LEMMA LayersKept ==
    ASSUME LInv, UNCHANGED <<pieceLength, v2, kind, delivered>>,
           kind # "foreign" => UNCHANGED length,
           phase' = "options" => phase = "options",
           phase' = "hash" => Len(v2) = f' - 1,
           phase' = "read" => Len(v2) = f'
    PROVE  LInv'
<1>1. ASSUME kind # "foreign", (delivered = TotalSize)' PROVE Hashed'
  <2>1. UNCHANGED length
    BY <1>1
  <2>2. TotalSize' = TotalSize
    BY <2>1 DEF TotalSize, Start
  <2>3. Hashed
    BY <1>1, <2>2 DEF LInv
  <2> QED
    BY <2>1, <2>3, HashedKept
<1>2. (\E S : v2 \in Seq(S))' /\ (phase' = "options" => v2' = <<>>)
  BY DEF LInv
<1> QED
  BY <1>1, <1>2 DEF LInv

(* What HashFile hashes, if a stream yields what was announced. *)
LEMMA FileFacts ==
    ASSUME TInv, HInv, HashFile, delivered = TotalSize
    PROVE  /\ f \in 1 .. Len(length) /\ length[f] \in Nat /\ Start(f) \in Nat
           /\ PieceLengthOk /\ pieceLength \in Nat \ {0}
           /\ v2' = Append(v2, hashReaderHybrid(Stretch(Start(f), length[f]), length[f]))
<1>1. phase = "hash" /\ kind # "foreign"
  BY DEF HashFile, HInv
<1>2. length \in Seq(Nat) /\ pieceLength \in Nat \ {0} /\ PieceLengthOk
  BY <1>1 DEF TInv, SInv, Typed, HInv
<1>3. f \in 1 .. Len(length) /\ (kind = "stream" => f = 1 /\ Len(length) = 1)
  <2>1. CASE kind = "dir"
    BY <1>1, <2>1 DEF HInv, Passing
  <2>2. CASE kind # "dir"
    <3>1. Single /\ f = 1 /\ Len(length) = 1
      BY <1>1, <2>2 DEF HInv, Single
    <3> QED
      BY <3>1
  <2> QED
    BY <2>1, <2>2
<1>4. length[f] \in Nat /\ Start(f) \in Nat
  BY <1>2, <1>3, Starts
<1>5. Contents(f) = Stretch(Start(f), length[f])
  BY ContentsAre
<1>6. PICK s : /\ s = IF kind = "stream" THEN SubSeq(Contents(1), 1, delivered)
                      ELSE Contents(f)
               /\ v2' = Append(v2, hashReaderHybrid(s, length[f]))
  BY DEF HashFile
<1>7. s = Stretch(Start(f), length[f])
  <2>1. CASE kind # "stream"
    BY <1>5, <1>6, <2>1
  <2>2. CASE kind = "stream"
    <3>1. f = 1 /\ Len(length) = 1
      BY <1>3, <2>2
    <3>2. PICK g, n \in Nat : g = Start(f) /\ n = length[f]
      BY <1>4
    <3>3. TotalSize = n
      <4>1. Start(1) = 0 /\ Start(1 + 1) = Start(1) + length[1]
        BY <1>2, <1>3, <3>1, Starts
      <4>2. TotalSize = Start(1 + 1)
        BY <3>1 DEF TotalSize
      <4> QED
        BY <3>1, <3>2, <4>1, <4>2
    <3>4. SubSeq(Stretch(g, n), 1, n) = Stretch(g + 1 - 1, n - 1 + 1)
      <4>1. 1 \in 1 .. n + 1 /\ n \in 1 - 1 .. n
        BY <3>2
      <4> QED
        BY <3>2, <4>1, StretchCut
    <3>5. g + 1 - 1 = g /\ n - 1 + 1 = n
      BY <3>2
    <3> QED
      BY <1>5, <1>6, <2>2, <3>1, <3>2, <3>3, <3>4, <3>5
  <2> QED
    BY <2>1, <2>2
<1> QED
  BY <1>2, <1>3, <1>4, <1>6, <1>7

LEMMA LayersKeepFile ==
    ASSUME TInv, HInv, LInv, HashFile
    PROVE  LInv'
<1>1. /\ UNCHANGED <<vars, kind, delivered, f>> /\ phase = "hash"
      /\ phase' \in {"read", "made"} /\ kind # "foreign"
  BY DEF HashFile, HInv
<1>2. UNCHANGED <<length, pieceLength, TotalSize>> /\ \A e : Start(e)' = Start(e)
  BY <1>1, OffsetsUnchanged
<1>3. PICK S, t : v2 = t /\ t \in Seq(S)
  BY DEF LInv
<1>4. PICK r : v2' = Append(t, r)
  BY <1>3 DEF HashFile
<1>5. PICK n \in Nat : n = Len(t) /\ n = f - 1
  BY <1>1, <1>3 DEF LInv
<1>6. \A e : Append(t, e) = [i \in 1 .. n + 1 |-> IF i = n + 1 THEN e ELSE t[i]]
  <2> SUFFICES ASSUME NEW e
               PROVE  Append(t, e) = [i \in 1 .. n + 1 |-> IF i = n + 1 THEN e ELSE t[i]]
    OBVIOUS
  <2>1. Append(t, e) = [i \in 1 .. Len(t) + 1 |-> IF i = Len(t) + 1 THEN e ELSE t[i]]
    BY <1>3, AppendIs
  <2> QED
    BY <1>5, <2>1
<1>7. v2' \in Seq(S \cup {r}) /\ Len(v2') = n + 1
  <2>0. t \in Seq(S) /\ n = Len(t)
    BY <1>3, <1>5
  <2>1. \A i \in 1 .. n : t[i] \in S
    BY <2>0, ElementOfSeq
  <2>2. v2' \in [1 .. n + 1 -> S \cup {r}]
    BY <1>4, <1>5, <1>6, <2>1
  <2> QED
    BY <1>5, <2>2
<1>8. ASSUME delivered = TotalSize PROVE Hashed'
  <2>1. /\ f \in 1 .. Len(length) /\ length[f] \in Nat /\ Start(f) \in Nat
        /\ PieceLengthOk /\ pieceLength \in Nat \ {0}
        /\ v2' = Append(v2, hashReaderHybrid(Stretch(Start(f), length[f]), length[f]))
    BY <1>8, FileFacts
  <2>2. PICK a, m \in Nat : a = Start(f) /\ m = length[f]
    BY <2>1
  <2>3. PICK q : q = hashReaderHybrid(Stretch(a, m), m)
    OBVIOUS
  <2>4. v2' = [i \in 1 .. n + 1 |-> IF i = n + 1 THEN q ELSE t[i]]
    <3>1. v2' = Append(t, q)
      BY <1>3, <2>1, <2>2, <2>3
    <3> QED
      BY <1>6, <3>1
  <2>5. FileVerifies(q, Stretch(a, m), m)'
    <3>1. Verifies(q, Stretch(a, m), m, zeroHash)
      BY <2>1, <2>2, <2>3, LayerOf DEF Pads
    <3>2. isPowerOfTwo(BlockCount(m)) => Verifies(q, Stretch(a, m), m, missingLeaf)
      BY <2>1, <2>2, <2>3, LayerOf DEF Pads
    <3>3. FileVerifies(q, Stretch(a, m), m)
      BY <3>1, <3>2 DEF FileVerifies
    <3> QED
      BY <1>2, <3>3, VerifiesKept
  <2>6. n + 1 = f
    BY <1>5, <2>1
  <2>7. ASSUME NEW g \in 1 .. n + 1
        PROVE  (g \in 1 .. Len(length) /\ FileVerifies(v2[g], Contents(g), length[g]))'
    <3>1. Contents(g)' = Contents(g)
      BY <1>2 DEF Contents
    <3>2. CASE g = n + 1
      <4>1. v2'[g] = q /\ Contents(g)' = Stretch(a, m) /\ length'[g] = m
        BY <1>2, <2>2, <2>4, <2>6, <3>1, <3>2, ContentsAre
      <4>2. g \in 1 .. Len(length')
        BY <1>2, <2>1, <2>6, <3>2
      <4> QED
        BY <2>5, <4>1, <4>2 DEF FileVerifies, Verifies
    <3>3. CASE g # n + 1
      <4>1. g \in 1 .. Len(v2) /\ v2'[g] = v2[g]
        BY <1>3, <1>5, <2>4, <3>3
      <4>2. g \in 1 .. Len(length) /\ FileVerifies(v2[g], Contents(g), length[g])
        BY <1>1, <1>8, <4>1 DEF LInv, Hashed
      <4>3. PICK h, s, size : h = v2[g] /\ s = Contents(g) /\ size = length[g]
        OBVIOUS
      <4>4. FileVerifies(h, s, size)'
        BY <1>2, <4>2, <4>3, VerifiesKept
      <4>5. h = v2'[g] /\ s = Contents(g)' /\ size = length'[g]
        BY <1>2, <3>1, <4>1, <4>3
      <4> QED
        BY <1>2, <4>2, <4>4, <4>5 DEF FileVerifies, Verifies
    <3> QED
      BY <3>2, <3>3
  <2> QED
    BY <1>7, <2>7 DEF Hashed
<1>9. phase' = "read" => Len(v2') = f'
  <2>1. f \in Nat
    <3>1. CASE kind = "dir"
      BY <1>1, <3>1 DEF HInv, Passing, TInv, SInv, Typed
    <3>2. CASE kind # "dir"
      BY <1>1, <3>2 DEF HInv, Single
    <3> QED
      BY <3>1, <3>2
  <2> QED
    BY <1>1, <1>5, <1>7, <2>1
<1> QED
  BY <1>1, <1>2, <1>7, <1>8, <1>9 DEF LInv

LEMMA LayersKeep == TInv /\ HInv /\ LInv /\ [TNext]_allVars => LInv'
<1> SUFFICES ASSUME TInv, HInv, LInv, [TNext]_allVars PROVE LInv'
  OBVIOUS
<1>1. CASE CheckOptions
  <2>1. /\ UNCHANGED <<vars, kind, delivered, v2>> /\ v2 = <<>>
        /\ phase' = "failed" \/ (phase' = "hash" /\ f' = 1)
    BY <1>1 DEF CheckOptions, Refuse, LInv
  <2>2. UNCHANGED <<length, pieceLength>>
    BY <2>1, OffsetsUnchanged
  <2>3. phase' = "hash" => Len(v2) = f' - 1
    BY <2>1
  <2> QED
    BY <2>1, <2>2, <2>3, LayersKept
<1>2. CASE HashFile
  BY <1>2, LayersKeepFile
<1>3. CASE ReadChunk \/ HashPart
  <2>1. UNCHANGED <<vars, kind, delivered, v2, phase, f>>
    BY <1>3 DEF ReadChunk, HashPart
  <2>2. UNCHANGED <<length, pieceLength>>
    BY <2>1, OffsetsUnchanged
  <2> QED
    BY <2>1, <2>2, LayersKept DEF LInv
<1>4. CASE FileDone
  <2>1. /\ UNCHANGED <<vars, kind, delivered, v2>> /\ phase = "read"
        /\ (phase' = "hash" /\ f' = f + 1) \/ phase' = "made"
    BY <1>4 DEF FileDone
  <2>2. UNCHANGED <<length, pieceLength>>
    BY <2>1, OffsetsUnchanged
  <2>3. phase' = "hash" => Len(v2) = f' - 1
    <3>1. f \in Nat
      BY <2>1, PassFacts DEF TInv, SInv, Typed
    <3> QED
      BY <2>1, <3>1 DEF LInv
  <2> QED
    BY <2>1, <2>2, <2>3, LayersKept
<1>5. CASE ReadFails
  <2>1. UNCHANGED <<vars, kind, delivered, v2>> /\ phase' = "failed"
    BY <1>5 DEF ReadFails, Refuse
  <2>2. UNCHANGED <<length, pieceLength>>
    BY <2>1, OffsetsUnchanged
  <2> QED
    BY <2>1, <2>2, LayersKept
<1>6. CASE Parse
  <2>1. /\ UNCHANGED <<pieceLength, kind, delivered, v2>>
        /\ phase = "made" /\ phase' \in {"ready", "failed"}
    BY <1>6 DEF Parse
  <2>2. kind # "foreign" => UNCHANGED length
    <3>1. SUFFICES ASSUME kind # "foreign" PROVE UNCHANGED length
      OBVIOUS
    <3>2. info.form # "tree" /\ info.files = length
      BY <2>1, <3>1 DEF HInv
    <3> QED
      BY <1>6, <3>2 DEF Parse, ParsedFiles
  <2> QED
    BY <2>1, <2>2, LayersKept
<1>7. CASE Download \/ UNCHANGED allVars
  <2>1. UNCHANGED makeVars /\ [Next]_vars
    BY <1>7 DEF Download, allVars
  <2>2. UNCHANGED <<length, pieceLength, kind, delivered, v2, phase, f>>
    BY <2>1, DownloadUnchanged DEF makeVars
  <2> QED
    BY <2>2, LayersKept DEF LInv
<1> QED
  BY <1>1, <1>2, <1>3, <1>4, <1>5, <1>6, <1>7 DEF TNext

LEMMA LayersStart == TInit => LInv
<1> SUFFICES ASSUME TInit PROVE LInv
  OBVIOUS
<1>1. v2 = <<>> /\ phase \in {"made", "options"}
  BY DEF TInit
<1>2. v2 \in Seq({}) /\ Len(v2) = 0
  BY <1>1
<1>3. Hashed
  BY <1>2 DEF Hashed
<1> QED
  BY <1>1, <1>2, <1>3 DEF LInv

(* For files of any number and size and any legal piece length: the layer   *)
(* that hashReaderHybrid makes of a file of several pieces holds one hash   *)
(* per piece, that of the tree over the blocks of this piece alone, and,    *)
(* padded with the hashes of empty pieces, gives the root; with the padding *)
(* of buildMerkleTree for every file, with that of BEP 52 for a file whose  *)
(* number of blocks is a power of two.                                      *)
THEOREM LayersAreOfPieces == TSpec => []LayersVerify
<1>1. TSpec => [](TInv /\ HInv /\ LInv)
  BY MakingStarts, HashingStarts, LayersStart, MakingKeeps, HashingKeeps,
     LayersKeep, PTL DEF TSpec
<1> QED
  BY <1>1, LInvGives, PTL

=============================================================================
