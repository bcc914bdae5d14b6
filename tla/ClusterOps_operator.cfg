SPECIFICATION OperatorSpec
CONSTANTS
    Replicas = {r1}
    Actions = {"install", "reset"}
    ExtraArgs = {"none"}
    Images = {"spray"}
    BadActions = {}
    Unsourced = {}
    BadImages = {}
    HasSSH = FALSE
    Copies = {1, 2, 3, 4, 5}
    JobIds = {1, 2}
    MaxUid = 1
    MaxEdits = 1
    MaxFaults = 1
    MaxPods = 2
    None = None

    
PROPERTIES
    SecondPodStopped
    ModificationNoticed
CHECK_DEADLOCK FALSE
