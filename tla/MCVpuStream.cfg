SPECIFICATION FairSpec
CONSTANTS
    Decs = {d1}
    Encs = {e1}
    NoInst = NoInst
    N = 3
    Bufs = {b1}
    NoBuf = NoBuf
    ClearAnytime = FALSE
    DrainAnytime = FALSE
INVARIANTS
    EndKept
    BuffersMatch
PROPERTIES
    IsFifo
    FramesEnd
