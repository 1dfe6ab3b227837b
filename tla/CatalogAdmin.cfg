SPECIFICATION Spec
CONSTANTS
    Product = {A}
    Call = {c1, c2, c3}
    NoCall = NoCall
    Amounts <- BoundaryAmounts
    Quantities <- OrderQuantities
    MaxDeducted = 5
    WordHalf = 4
SYMMETRY CallSymmetry
INVARIANTS
    TypeOK
    DeletedIsHidden
    RestockedIsListed
    SoldCounts
    VectorsAreKept
PROPERTIES
    NothingSoldWhileDeleted
CHECK_DEADLOCK FALSE
