\* Two threads with files of their own, scheduled fairly; anything may
\* fail.
SPECIFICATION FairSpec
CONSTANTS
    t1 = t1
    t2 = t2
    NoThread = NoThread
    Threads = {t1, t2}
    Files = {1, 2}
    FilesOf <- OwnFiles
    Failures <- AnyFailure
    MaxQueries = 4
CHECK_DEADLOCK FALSE
CONSTRAINT UntilRace
INVARIANTS
    TypeOK
    OwnAnswerUntilRace
    HandlersMatchUntilRace
    SentIsPostedUntilRace
PROPERTIES
    CallsReturn
    ImplementsCallService
