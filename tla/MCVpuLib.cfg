SPECIFICATION FairSpec
CONSTANTS
    Procs = {p1, p2}
    Insts = {i1, i2}
    NoOne = NoOne
    Dead = Dead
    NoInst = NoInst
    ParaSets = {"sps"}
    TrustRefusal = FALSE
    ColdRace = FALSE
    MaxActive = 2
    MaxCrashes = 1
INVARIANTS
    HolderInside
    HandlesDistinct
    CommandOwner
    FramePending
PROPERTIES
    CallsReturn
