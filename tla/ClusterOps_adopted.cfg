SPECIFICATION Spec
CONSTANTS
    Replicas = {r1}
    Actions = {"install"}
    ExtraArgs = {"none"}
    Images = {"spray"}
    BadActions = {}
    Unsourced = {}
    BadImages = {}
    HasSSH = FALSE
    Copies = {1, 2, 3, 4, 5}
    JobIds = {1, 2}
    MaxUid = 2
    MaxEdits = 0
    MaxFaults = 0
    MaxPods = 1
    None = None
INVARIANTS
    JobRefIsOwn
CHECK_DEADLOCK FALSE
