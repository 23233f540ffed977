SPECIFICATION FairSpec
CONSTANT None = None
INVARIANTS
    StopIsFinal
PROPERTIES
    StopEnds
\* A chip that has been removed does nothing more.
CHECK_DEADLOCK FALSE
