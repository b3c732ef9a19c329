SPECIFICATION Spec
CONSTANTS
    Mounts = {m1, m2}
    MaxIno = 2
    Values = {}
    Blank = blank
    Sizes = {}
    CrashPoints = {}
    MaxCrashes = 0
    MaxErrors = 0
    MaxMsg = 6
INVARIANT SentTableIsCurrent
