\* Three runs with all options, killed anywhere; a wrong input and one update
\* that nobody asked for in each log-in.
SPECIFICATION FairSpec
CONSTANTS
    NoKey = NoKey
    MaxStarts = 3
    MaxTold = 3
    MaxWrong = 1
CHECK_DEADLOCK FALSE
INVARIANTS
    TypeOK
    NoLostQuestion
    AsksBounded
PROPERTIES
    TakenByItsKey
    KeyIsKept
    StartEnds
