------------------------------ MODULE Bencode ------------------------------
(***************************************************************************)
(* Recognition of bencoded bytes: the structural validator that runs       *)
(* before any decoder (internal/bencode/validate.go), and the scan that    *)
(* finds where the header of a metadata message ends (findBencodeEnd in    *)
(* internal/client/metadata.go), with the grammar they are meant to        *)
(* recognise.                                                              *)
(*                                                                         *)
(* Bytes are one-character strings, positions count from 1.  A parser      *)
(* takes the position it starts at and returns the one it stops before, or *)
(* Fail; which error it was does not matter.                               *)
(***************************************************************************)
EXTENDS Integers, Sequences

Fail == 0
Digits == <<"0", "1", "2", "3", "4", "5", "6", "7", "8", "9">>

IsDigit(b, p) == p <= Len(b) /\ \E k \in DOMAIN Digits : Digits[k] = b[p]
At(b, p, c) == p <= Len(b) /\ b[p] = c

DigitsEnd(b, p) ==
    CHOOSE q \in p .. Len(b) + 1 :
        ~IsDigit(b, q) /\ \A k \in p .. q - 1 : IsDigit(b, k)

(* The number written in b[p .. q-1]. *)
Number(b, p, q) ==
    LET upTo[k \in p - 1 .. q - 1] ==
          IF k = p - 1 THEN 0
          ELSE 10 * upTo[k - 1] + (CHOOSE d \in DOMAIN Digits : Digits[d] = b[k]) - 1
    IN upTo[q - 1]

LeadingZero(b, p, q) == q > p + 1 /\ b[p] = "0"

-----------------------------------------------------------------------------
(* Validate *)

(* i<digits>e, without leading zeros and without "-0" *)
integer(b, p) ==
    LET s == IF At(b, p + 1, "-") THEN p + 2 ELSE p + 1
        q == DigitsEnd(b, s)
    IN IF \/ q = s \/ LeadingZero(b, s, q)
          \/ s = p + 2 /\ b[s] = "0"
          \/ ~At(b, q, "e")
       THEN Fail ELSE q + 1

MaxInt32 == 2147483647

(* <length>:<bytes>.  The length is built digit by digit and must not grow *)
(* past 31 bits on the way.                                                *)
byteString(b, p, lim) ==
    LET q == DigitsEnd(b, p)
        n == Number(b, p, q)
    IN IF \/ q = p \/ LeadingZero(b, p, q)
          \/ \E k \in p .. q - 1 : Number(b, p, k) > MaxInt32 \div 10
          \/ lim.MaxStrLen > 0 /\ n > lim.MaxStrLen
          \/ ~At(b, q, ":")
          \/ q + n > Len(b)
       THEN Fail ELSE q + 1 + n

Limit(lim, kind) == IF kind = "d" THEN lim.MaxKeysPerDict ELSE lim.MaxListLen

RECURSIVE value(_, _, _, _), items(_, _, _, _, _, _)

(* Mutant: the limit on elements is checked after the element is read. *)
itemsLate(b, p, depth, lim, kind, count) ==
    IF p > Len(b) THEN Fail
    ELSE IF b[p] = "e" THEN p + 1
    ELSE IF Limit(lim, kind) > 0 /\ count > Limit(lim, kind) THEN Fail
    ELSE LET v == IF kind = "d" THEN byteString(b, p, lim) ELSE p
             q == IF v = Fail THEN Fail ELSE value(b, v, depth, lim)
         IN IF q = Fail THEN Fail ELSE items(b, q, depth, lim, kind, count + 1)

(* The loop of list and dict: elements up to the closing e, each with a    *)
(* key before it in a dict.                                                *)
items(b, p, depth, lim, kind, count) ==
    IF p > Len(b) THEN Fail
    ELSE IF b[p] = "e" THEN p + 1
    ELSE IF Limit(lim, kind) > 0 /\ count >= Limit(lim, kind) THEN Fail
    ELSE LET v == IF kind = "d" THEN byteString(b, p, lim) ELSE p
             q == IF v = Fail THEN Fail ELSE value(b, v, depth, lim)
         IN IF q = Fail THEN Fail ELSE items(b, q, depth, lim, kind, count + 1)

value(b, p, depth, lim) ==
    IF p > Len(b) THEN Fail
    ELSE IF b[p] = "i" THEN integer(b, p)
    ELSE IF b[p] \in {"l", "d"}
    THEN IF depth + 1 > lim.MaxDepth THEN Fail
         ELSE items(b, p + 1, depth + 1, lim, b[p], 0)
    ELSE IF IsDigit(b, p) THEN byteString(b, p, lim)
    ELSE Fail

Validate(b, lim) == /\ lim.MaxBytes > 0 => Len(b) <= lim.MaxBytes
                    /\ value(b, 1, 0, lim) = Len(b) + 1

-----------------------------------------------------------------------------
(* findBencodeEnd: it keeps the nesting depth only and checks no syntax    *)
(* inside integers, no keys and no limits.                                 *)

FirstE(b, p) ==
    IF \E q \in p .. Len(b) : b[q] = "e"
    THEN CHOOSE q \in p .. Len(b) : b[q] = "e" /\ \A k \in p .. q - 1 : b[k] # "e"
    ELSE Fail

(* Mutant: the text of a string is scanned like structure. *)
TokenEndNoString(b, p) ==
    LET q == DigitsEnd(b, p) IN
    IF b[p] \in {"d", "l", "e"} THEN p + 1
    ELSE IF b[p] = "i"
    THEN IF FirstE(b, p + 1) = Fail THEN Fail ELSE FirstE(b, p + 1) + 1
    ELSE IF q = p \/ ~At(b, q, ":") THEN Fail ELSE q + 1

(* Where the token at p ends.  Lengths are taken to fit an int. *)
TokenEnd(b, p) ==
    LET q == DigitsEnd(b, p) IN
    IF b[p] \in {"d", "l", "e"} THEN p + 1
    ELSE IF b[p] = "i"
    THEN IF FirstE(b, p + 1) = Fail THEN Fail ELSE FirstE(b, p + 1) + 1
    ELSE IF q = p \/ ~At(b, q, ":") \/ q + Number(b, p, q) > Len(b) THEN Fail
    ELSE q + 1 + Number(b, p, q)

Nesting(c) == IF c \in {"d", "l"} THEN 1 ELSE IF c = "e" THEN -1 ELSE 0

RECURSIVE scan(_, _, _)
scan(b, p, depth) ==
    IF p > Len(b) THEN Fail
    ELSE LET q == TokenEnd(b, p)
             d == depth + Nesting(b[p])
         IN IF q = Fail THEN Fail ELSE IF d = 0 THEN q ELSE scan(b, q, d)

findBencodeEnd(b) == scan(b, 1, 0)

-----------------------------------------------------------------------------
(* The grammar of BEP 3, as a reference: which byte sequences are the      *)
(* encoding of a value within the limits, found by splitting them.         *)

RECURSIVE Decimal(_)
Decimal(n) == IF n < 10 THEN <<Digits[n + 1]>>
              ELSE Decimal(n \div 10) \o <<Digits[(n % 10) + 1]>>

EncodedInteger(n) ==
    <<"i">> \o (IF n < 0 THEN <<"-">> \o Decimal(-n) ELSE Decimal(n)) \o <<"e">>

MaxInteger == 11      \* bound of the reference: integers up to two digits

EncodesInteger(s) == /\ At(s, 1, "i")
                     /\ \E n \in -MaxInteger .. MaxInteger : s = EncodedInteger(n)

EncodesString(s, lim) ==
    /\ IsDigit(s, 1)
    /\ \E n \in 0 .. Len(s) :
         LET head == Decimal(n) \o <<":">> IN
         /\ lim.MaxStrLen > 0 => n <= lim.MaxStrLen
         /\ Len(s) = Len(head) + n
         /\ SubSeq(s, 1, Len(head)) = head

RECURSIVE Encodes(_, _, _), EncodesItems(_, _, _, _, _)

(* s is the encoding of up to n elements, or pairs of key and element. *)
EncodesItems(s, depth, lim, kind, n) ==
    \/ s = <<>>
    \/ /\ n > 0
       /\ \E k \in 0 .. Len(s) - 1 : \E i \in k + 1 .. Len(s) :
            /\ IF kind = "d" THEN EncodesString(SubSeq(s, 1, k), lim) ELSE k = 0
            /\ Encodes(SubSeq(s, k + 1, i), depth, lim)
            /\ EncodesItems(SubSeq(s, i + 1, Len(s)), depth, lim, kind, n - 1)

Encodes(s, depth, lim) ==
    \/ EncodesInteger(s)
    \/ EncodesString(s, lim)
    \/ /\ depth > 0 /\ Len(s) >= 2
       /\ s[1] \in {"l", "d"} /\ s[Len(s)] = "e"
       /\ EncodesItems(SubSeq(s, 2, Len(s) - 1), depth - 1, lim, s[1],
                       IF Limit(lim, s[1]) > 0 THEN Limit(lim, s[1]) ELSE Len(s))

(* Validate accepts exactly the values of this grammar within its limits.   *)
(* (Keys of a dictionary that are not sorted, or not unique, pass both.)    *)
Recognised(s, lim) ==
    Validate(s, lim) <=> /\ lim.MaxBytes > 0 => Len(s) <= lim.MaxBytes
                         /\ Encodes(s, lim.MaxDepth, lim)

(* If some prefix of s is an encoding, the scan stops right after it, also *)
(* when the bytes that follow look like more of it.                        *)
CutAtEnd(s, lim) ==
    \A n \in 1 .. Len(s) :
        Encodes(SubSeq(s, 1, n), lim.MaxDepth, lim) => findBencodeEnd(s) = n + 1

=============================================================================
