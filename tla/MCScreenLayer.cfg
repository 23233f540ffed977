SPECIFICATION FairSpec
CONSTANTS
    p1 = p1
    p2 = p2
    p3 = p3
    NoOne = NoOne
    Orderly = TRUE
    Procs <- MCProcs
    Failures <- MCFailures
INVARIANTS
    CasesABC
    NoTearing
    PansSnapshot
PROPERTY CallsReturn
