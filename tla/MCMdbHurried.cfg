SPECIFICATION Spec
CONSTANTS
    BufSize = 6
    Hurried = TRUE
    Events <- MCEvents
    Spoilt <- MCSpoilt
INVARIANTS
    EachEventOnce
    RefusedOnlyBad
