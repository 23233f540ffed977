SPECIFICATION Spec
CONSTANTS
    Procs = {p1, p2}
    Insts = {i1}
    NoOne = NoOne
    Dead = Dead
    NoInst = NoInst
    ParaSets = {"sps"}
    TrustRefusal = FALSE
    ColdRace = FALSE
    MaxActive = 1
    MaxCrashes = 0
INVARIANTS
    RefusedOnlyRunning
