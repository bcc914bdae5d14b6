SPECIFICATION Spec
CONSTANTS
    Replicas = {r1}
    Actions = {"install"}
    ExtraArgs = {"none", "dry"}
    Images = {"spray"}
    BadActions = {}
    Unsourced = {}
    BadImages = {}
    HasSSH = FALSE
    Copies = {1, 2, 3, 4, 5}
    JobIds = {1, 2}
    MaxUid = 1
    MaxEdits = 1
    MaxFaults = 0
    MaxPods = 1
    None = None
INVARIANTS
    ModifiedIsFlagged
CHECK_DEADLOCK FALSE
