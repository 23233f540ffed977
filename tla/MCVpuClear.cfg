SPECIFICATION Spec
CONSTANTS
    Decs = {d1}
    Encs = {e1}
    NoInst = NoInst
    N = 3
    Bufs = {b1}
    NoBuf = NoBuf
    ClearAnytime = TRUE
    DrainAnytime = FALSE
INVARIANTS
    ReleasedReturns
