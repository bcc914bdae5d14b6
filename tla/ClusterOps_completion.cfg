SPECIFICATION FairSpec
CONSTANTS
    Replicas = {r1}
    Actions = {"install", "custom"}
    ExtraArgs = {"none"}
    Images = {"spray"}
    BadActions = {}
    Unsourced = {"custom"}
    BadImages = {}
    HasSSH = FALSE
    Copies = {1, 2, 3, 4, 5}
    JobIds = {1, 2}
    MaxUid = 2
    MaxEdits = 1
    MaxFaults = 1
    MaxPods = 1
    None = None
PROPERTIES
    Completes
    NoLeftovers
CHECK_DEADLOCK FALSE
