\* Two threads of one mount, one of which may upload.  The process may die.
SPECIFICATION Spec
CONSTANTS
    Threads = {t1, t2}
    MaxIno = 2
    MaxMsg = 4
CHECK_DEADLOCK FALSE
INVARIANT UpToDateIsRight
