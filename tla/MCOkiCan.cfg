SPECIFICATION CanFairSpec
CONSTANTS
    RxNum = 1
    TxNum = 2
    Frames = {fa, fb}
    NoFrame = NoFrame
    Width <- MCWidth
    CalmRestart = TRUE
INVARIANTS
    RingSurvives
PROPERTIES
    QueueRestartsLater
