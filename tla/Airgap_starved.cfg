SPECIFICATION FairSpec
CONSTANTS
    Names = {1, 2}
    Sets = {"a"}
    Releases = {"master"}
    Kinds = {"component"}
    Numbers = {1}
    Prefixes = {FALSE}
    Repos = {"repo"}
    Schemes = {"none"}
    Registry = "registry"
    Initial = {"none", "master"}
    MaxEdits = 0
    MaxFaults = 0
PROPERTIES
    ServicesAlwaysArrive
CHECK_DEADLOCK FALSE
