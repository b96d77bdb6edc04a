----------------------------- MODULE MCPeerWire -----------------------------
(* Metadata over PeerWire, with its headers as bytes, for TLC. *)
EXTENDS MetadataHeader

SmallLimits == [MaxBytes |-> 16, MaxDepth |-> 1, MaxStrLen |-> 1,
                MaxListLen |-> 1, MaxKeysPerDict |-> 2]

SmallBytes == {Digits[k] : k \in DOMAIN Digits}
                \cup {"d", "l", "i", "e", "-", ":", "m", "p", "x"}

(* Bytes that look like structure, also right behind the header. *)
SmallInfos == {<<"d", "e", "1">>, <<"e", "e">>}

(* Tokens of bencode, whole and broken ones. *)
Token == {<<"l">>, <<"d">>, <<"e">>, <<"i">>, <<"-">>, <<"0">>, <<"1">>, <<":">>,
          <<"0", ":">>, <<"1", ":", "e">>, <<"0", ":", "0", ":">>,
          <<"0", ":", "0", ":", "0", ":", "0", ":">>}

SmallHalves == Token \cup {s \o t : s, t \in Token}

=============================================================================
