\* Two mounts that race to publish the root, often enough for a table that a
\* mount already has to be pinned once more.
SPECIFICATION Spec
CONSTANTS
    Mounts = {m1, m2}
    MaxIno = 1
    Values = {}
    Blank = blank
    Sizes = {}
    CrashPoints = {}
    MaxCrashes = 0
    MaxErrors = 1
    MaxMsg = 8
SYMMETRY MountSymmetry
CONSTRAINT ShortAfterError
INVARIANTS
    TypeOK
    TableMatchesPin
    RightKind
