\* Two threads that download the same file; nothing fails.
SPECIFICATION FairSpec
CONSTANTS
    t1 = t1
    t2 = t2
    NoThread = NoThread
    Threads = {t1, t2}
    Files = {1}
    FilesOf <- OneFile
    Failures = {}
    MaxQueries = 3
CHECK_DEADLOCK FALSE
PROPERTY CallsReturn
