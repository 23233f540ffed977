SPECIFICATION FairSpec
CONSTANTS
    Chips = {c1, c2}
    Speeds = {s1, s2}
    TooSlow = slow
    NoSpeed = none
    Sizes = {"short", "long"}
    MaxXfers = 2
    SetupIdle = TRUE
INVARIANTS EndIsOwn SelectedAsMeant SpeedAsAsked
PROPERTY MessagesEnd
