\* One mount, killed only between operations, scheduled fairly.
SPECIFICATION FairSpec
CONSTANTS
    Mounts = {m1}
    MaxIno = 2
    Values = {v1, v2}
    Blank = blank
    Sizes = {}
    CrashPoints <- KillIdle
    MaxCrashes = 2
    MaxErrors = 1
    MaxMsg = 11
CONSTRAINT UntilError
INVARIANTS
    ChatExactlyReachable
    CacheIsCurrent
PROPERTIES
    FlushIsDurable
    OperationsReturn
