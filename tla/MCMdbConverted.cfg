SPECIFICATION Spec
CONSTANTS
    BufSize = 6
    Hurried = FALSE
    Events <- MCConverted
    Spoilt <- MCSpoilt
INVARIANT RefusedOnlyBad
