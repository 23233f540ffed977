SPECIFICATION CanSpec
CONSTANTS
    RxNum = 1
    TxNum = 2
    Frames = {fa, fb}
    NoFrame = NoFrame
    Width <- MCWidth
    CalmRestart = FALSE
INVARIANTS
    NextSlotFree
