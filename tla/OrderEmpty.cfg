SPECIFICATION Spec
CONSTANTS
    A = A
    B = B
    Product = {A, B}
    Request = {r1}
    Carts <- ContendingCarts
    StockLevels <- Levels
    MaxAdmin = 2
    WordHalf = 64
INVARIANTS
    NoEmptyOrder
CHECK_DEADLOCK FALSE
