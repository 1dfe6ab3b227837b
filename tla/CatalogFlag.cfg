SPECIFICATION Spec
CONSTANTS
    Product = {A}
    Call = {c1, c2}
    NoCall = NoCall
    Amounts <- InRangeAmounts
    Quantities <- OrderQuantities
    MaxDeducted = 3
    WordHalf = 4
INVARIANTS
    SoldOutIsFlagged
CHECK_DEADLOCK FALSE
