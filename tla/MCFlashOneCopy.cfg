SPECIFICATION Spec
CONSTANTS
    Procs = {p1}
    Configs = {ca, cb}
    NoConfig = NoConfig
    MaxGen = 5
INVARIANT UsesOnlyWorkingCopy
