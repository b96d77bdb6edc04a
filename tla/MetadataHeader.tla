--------------------------- MODULE MetadataHeader ---------------------------
(***************************************************************************)
(* The header of a metadata message as bytes: what FetchMetadata of        *)
(* internal/client/metadata.go does with a payload before it looks at the  *)
(* piece.  It scans for the end of the first value, validates what is      *)
(* before it, and decodes that.  The keys msg_type and piece are the       *)
(* one-letter strings m and p.                                             *)
(***************************************************************************)
EXTENDS Metadata, Bencode

CONSTANT PeerLimits     \* PeerMessageLimits

(* The decoder: where the value of a key of a dict starts, or Fail. *)
RECURSIVE ValueOf(_, _, _)
ValueOf(b, p, key) ==
    IF b[p] = "e" THEN Fail
    ELSE LET v == byteString(b, p, PeerLimits) IN
         IF SubSeq(b, p, v - 1) = <<"1", ":", key>> THEN v
         ELSE ValueOf(b, value(b, v, 1, PeerLimits), key)

Decodes(b) == /\ b[1] = "d"
              /\ \A key \in {"m", "p"} :
                   ValueOf(b, 2, key) # Fail => b[ValueOf(b, 2, key)] = "i"

(* An integer of the header; one that is absent is zero. *)
Field(b, key) ==
    LET v == ValueOf(b, 2, key) IN
    IF v = Fail THEN 0
    ELSE IF b[v + 1] = "-" THEN -Number(b, v + 2, DigitsEnd(b, v + 2))
    ELSE Number(b, v + 1, DigitsEnd(b, v + 1))

NoHeader == [ok |-> FALSE]

DecodedHeader(b) ==
    LET end == findBencodeEnd(b)
        header == SubSeq(b, 1, end - 1)
    IN IF end = Fail THEN NoHeader
       ELSE IF ~Validate(header, PeerLimits) THEN NoHeader
       ELSE IF ~Decodes(header) THEN NoHeader
       ELSE [ok |-> TRUE, rest |-> end,
             type |-> Field(header, "m"), piece |-> Field(header, "p")]

EncodedHeader(type, i) == <<"d", "1", ":", "m">> \o EncodedInteger(type)
                            \o <<"1", ":", "p">> \o EncodedInteger(i) \o <<"e">>

-----------------------------------------------------------------------------
(* Properties *)

(* Validate accepts exactly the values of the grammar within its limits,    *)
(* which like the code does not look at the order of keys, and              *)
(* findBencodeEnd cuts behind the value that starts a payload: for every    *)
(* payload that arrives, well-formed or not.                                *)
PayloadsRecognised ==
    cl = "meta" /\ pipe # <<>> /\ Head(pipe).type = "meta" =>
        /\ Recognised(Head(pipe).payload, PeerLimits)
        /\ CutAtEnd(Head(pipe).payload, PeerLimits)

=============================================================================
