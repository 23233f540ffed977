SPECIFICATION KeyFairSpec
CONSTANTS
    Bytes = {0, 1}
    Status1 = 0
    Gpo = 2
    LastAddr = 2
    AddrWidth = 4
    Writes = {1, 2}
INVARIANTS
    TouchKeepsChange
PROPERTIES
    HostCatchesUp
    ChangeSettles
    IdleErrorRepaired
