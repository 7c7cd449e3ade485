SPECIFICATION Spec
CONSTANTS
    MaxW = 3
    MaxH = 2
    NegligibleWidth = 1
    NegligibleHeight = 1
    DataFactor = 2
    BaseCost = 1
    NegligibleIncrease = 4
    FillPatternFactor = 1
    QueueSize = 2
    HeatHistory = 2
    JpegBlock = 2
    WebpBlock = 2
    Users = {u1, u2}
    NULL = NULL
    LayerIdx = {1}
    BufferIdx <- MCBufferIdx
    Draws <- MCDraws
    Paints <- MCPaints
    Sets <- MCSets
    Copies <- MCCopies
    Transfers <- MCTransfers
    Clips <- MCClips
    Resizes <- MCResizes
    Moves <- MCMoves
    AllocSizes <- MCAllocSizes
    CursorImages = {"dot"}
    Spots = {"spot"}
    MaxCalls = 3
INVARIANTS
    QueueBounded
    Converged
    CursorShared
CHECK_DEADLOCK FALSE
SYMMETRY UserSymmetry
