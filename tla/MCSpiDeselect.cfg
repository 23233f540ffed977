SPECIFICATION Spec
CONSTANTS
    Chips = {c1, c2}
    Speeds = {s1, s2}
    TooSlow = slow
    NoSpeed = none
    Sizes = {"short", "middle", "long"}
    MaxXfers = 2
    SetupIdle = TRUE
INVARIANT FailedDeselects
