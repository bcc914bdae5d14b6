SPECIFICATION FairSpec
CONSTANTS
    Replicas = {r1}
    Names = {n1, n2}
    Scores = {0, 1}
    Labels = {FALSE}
    Limit = 1
    DefaultLimit = 1
    MaxLimit = 2
    FailurePolicy = "Ignore"
    MaxRequests = 1
    MaxUid = 2
    MaxEdits = 1
    MaxFaults = 1

    
PROPERTIES
    KeepsLimit
    Converges
