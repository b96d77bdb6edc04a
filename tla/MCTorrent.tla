----------------------------- MODULE MCTorrent -----------------------------
(* Torrent, and with it Storage, for TLC: directories of up to MaxFiles     *)
(* files of up to MaxLength bytes, empty ones included, and longer single   *)
(* files.                                                                   *)
EXTENDS Torrent

CONSTANTS MaxFiles, MaxLength, MaxSingle

SmallLayouts == UNION {[1 .. n -> 0 .. MaxLength] : n \in 0 .. MaxFiles}
                  \cup {<<n>> : n \in 0 .. MaxSingle}

=============================================================================
