\* Two threads that may be in SendQuery at once; nothing fails.
SPECIFICATION Spec
CONSTANTS
    t1 = t1
    t2 = t2
    NoThread = NoThread
    Threads = {t1, t2}
    Files = {1, 2}
    FilesOf <- OwnFiles
    Failures = {}
    MaxQueries = 2
CHECK_DEADLOCK FALSE
INVARIANT OwnAnswer
