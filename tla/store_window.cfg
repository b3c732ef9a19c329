\* One mount, killed only after the pinned table was looked for (and removed,
\* if there was one) and before the new one is pinned.
SPECIFICATION Spec
CONSTANTS
    Mounts = {m1}
    MaxIno = 2
    Values = {v1}
    Blank = blank
    Sizes = {}
    CrashPoints <- KillAtPin
    MaxCrashes = 1
    MaxErrors = 0
    MaxMsg = 6
INVARIANT StartsOverWithoutFiles
