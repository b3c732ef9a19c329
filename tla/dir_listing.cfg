\* Four names come and go during listings in pieces of up to two entries.
SPECIFICATION Spec
CONSTANTS
    Names = {a, b, c, q}
    Quoted = {q}
    MaxRow = 7
    MaxReply = 2
SYMMETRY NameSymmetry
INVARIANTS
    TypeOK
    ListedOnce
    EmptyMeansNoNames
