SPECIFICATION Spec
CONSTANTS
    Replicas = {r1, r2}
    Names = {n1, n2}
    Scores = {0}
    Labels = {FALSE}
    Limit = 1
    DefaultLimit = 1
    MaxLimit = 2
    FailurePolicy = "Fail"
    MaxRequests = 1
    MaxUid = 2
    MaxEdits = 1
    MaxFaults = 0
SYMMETRY Symmetry
INVARIANTS
    TypeOK
    AtMostOneUnfinished
PROPERTIES
    ConditionsNeverRegress
    FollowsLifecycle
