SPECIFICATION FairSpec
CONSTANTS
    Names = {1, 2}
    Sets = {"a"}
    Releases = {"master", "r2"}
    Kinds = {"component"}
    Numbers = {1}
    Prefixes = {FALSE}
    Repos = {"repo"}
    Schemes = {"https"}
    Registry = "registry"
    Initial = {"none"}
    MaxEdits = 1
    MaxFaults = 1
INVARIANTS
    TypeOK
    
    CachedIsStored
PROPERTIES
    ImagesKeepVersions
    VersionsArrive
    ImagesArrive
    LocalServiceArrives
CHECK_DEADLOCK FALSE
