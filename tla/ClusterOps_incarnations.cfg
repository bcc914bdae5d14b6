SPECIFICATION Spec
CONSTANTS
    Replicas = {r1}
    Actions = {"install", "bad"}
    ExtraArgs = {"none"}
    Images = {"spray", "bad"}
    BadActions = {"bad"}
    Unsourced = {}
    BadImages = {"bad"}
    HasSSH = TRUE
    Copies = {1, 2, 3, 4, 5}
    JobIds = {1, 2}
    MaxUid = 2
    MaxEdits = 1
    MaxFaults = 1
    MaxPods = 1
    None = None
INVARIANTS
    TypeOK
    SignedOrFlagged
    AlwaysPending
    JobMountsBackups
    OwnEntrypoint
PROPERTIES
    FinalStatusIsFinal
    NoJobAfterFinish
    FinishedMeansJobEnded
    RecordsAreFrozen
    ImplementsLifecycle
CHECK_DEADLOCK FALSE
