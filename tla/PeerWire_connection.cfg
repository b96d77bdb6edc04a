SPECIFICATION MSpec
CONSTANTS
    TotalSize = 5
    PieceLength = 3
    BlockSize = 2
    SkipLimit = 3
    PexAddr = {a1, a2}
    Faults = TRUE
    MaxNoise = 2
    InfoPiece = 2
    MaxInfo = 4
    MetaSkipLimit = 3
    Byte <- SmallBytes
    Infos <- SmallInfos
    PeerLimits <- SmallLimits
    OddHalves <- SmallHalves
    Header <- EncodedHeader
    ReadHeader <- DecodedHeader
CHECK_DEADLOCK FALSE
INVARIANT TypeOK
INVARIANT ChokeTracked
INVARIANT NoStall
INVARIANT HonestPeerVerifies
INVARIANT PexKept
INVARIANT InfoExact
INVARIANT PayloadsRecognised
INVARIANT OneRequest
PROPERTY PieceEnds
