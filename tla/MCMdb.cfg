SPECIFICATION Spec
CONSTANTS
    BufSize = 6
    Hurried = FALSE
    Events <- MCEvents
    Spoilt <- MCSpoilt
INVARIANTS
    EachEventOnce
    RefusedOnlyBad
