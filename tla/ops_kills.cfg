\* One mount, killed anywhere, also between the two uploads of a handler.
SPECIFICATION FairSpec
CONSTANTS
    Names = {a, b}
    MaxIno = 3
    MaxLookups = 2
    MaxNlink = 7
    KillPoints <- KillAnywhere
    MaxKills = 2
INVARIANTS
    TypeOK
    KernelIsServed
    DamageBounded
    LinksMatch
    NoDanglingEntries
    NothingLeaks
PROPERTIES
    UnnamedIsRemoved
    ImplementsFileTree
