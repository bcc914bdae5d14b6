SPECIFICATION FairSpec
CONSTANTS
    Pods = {p1, p2}
    Nobody = Nobody
    MaxRestarts = 2
    MaxLosses = 1
    MaxFaults = 1
    MaxEdits = 1
INVARIANTS
    TypeOK
    
    NoStall
PROPERTIES
    ComesUp
CHECK_DEADLOCK FALSE
