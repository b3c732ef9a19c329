\* One mount, killed anywhere.
SPECIFICATION Spec
CONSTANTS
    Mounts = {m1}
    MaxIno = 3
    Values = {v1}
    Blank = blank
    Sizes = {TRUE, FALSE}
    CrashPoints <- KillAnywhere
    MaxCrashes = 2
    MaxErrors = 0
    MaxMsg = 8
    Absent = absent
    Torn = torn
    None = none
INVARIANTS
    PinnedInodesExist
    TornFilesBounded
    RightKind
PROPERTY ImplementsInodeStore
