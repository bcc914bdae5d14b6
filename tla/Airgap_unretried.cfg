SPECIFICATION FairSpec
CONSTANTS
    Names = {1}
    Sets = {"a"}
    Releases = {"master"}
    Kinds = {"component"}
    Numbers = {1}
    Prefixes = {FALSE}
    Repos = {"repo"}
    Schemes = {"https"}
    Registry = "registry"
    Initial = {"none", "master"}
    MaxEdits = 0
    MaxFaults = 1
PROPERTIES
    VersionsAlwaysArrive
CHECK_DEADLOCK FALSE
