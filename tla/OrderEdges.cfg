SPECIFICATION FairSpec
CONSTANTS
    A = A
    B = B
    Product = {A, B}
    Request = {r1, r2}
    Carts <- EdgeCarts
    StockLevels <- Levels
    MaxAdmin = 2
    WordHalf = 64
INVARIANTS
    TypeOK
    OrderIsDeducted
PROPERTIES
    EveryHandlerEnds
    EveryRequestAnswered
CHECK_DEADLOCK FALSE
