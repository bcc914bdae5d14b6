SPECIFICATION FairSpec
CONSTANTS
    Replicas = {p1, p2, p3}
    MaxInstalls = 1
    MaxFaults = 2
    MaxEdits = 1
INVARIANTS
    TypeOK
    KeysFit
    NothingForgotten
PROPERTIES
    KeyNeverReplaced
    Published
CHECK_DEADLOCK FALSE
