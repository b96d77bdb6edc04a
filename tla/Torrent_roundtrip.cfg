SPECIFICATION TSpec
CONSTANTS
    MaxFiles = 3
    MaxLength = 3
    MaxSingle = 9
    Layouts <- SmallLayouts
    PieceLengths = {1, 2, 3, 4, 5}
    Block = 2
    Buffer = 3
    Faults = TRUE
CHECK_DEADLOCK FALSE
INVARIANT BytesInPlace
INVARIANT PiecesHashed
INVARIANT LayersVerify
INVARIANT EveryPieceHashed
