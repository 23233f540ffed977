SPECIFICATION FairSpec
CONSTANTS
    RxNum = 1
    TxNum = 3
    Frames = {fa, fb}
    NoFrame = NoFrame
    Width <- MCWidth
INVARIANTS
    NextSlotFree
    EchoMatches
    NoLostWakeup
PROPERTIES
    IsFifo
    QueueRestarts
    FramesConfirmed
