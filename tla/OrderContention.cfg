SPECIFICATION Spec
CONSTANTS
    A = A
    B = B
    Product = {A, B}
    Request = {r1, r2}
    Carts <- ContendingCarts
    StockLevels <- Levels
    MaxAdmin = 3
    WordHalf = 64
INVARIANTS
    OrderIsDeducted
    AnnouncedOrdersExist
    OkIsComplete
    OmittedLinesWereShort
    SoldIsDeducted
    OrdersAreCounted
PROPERTIES
    RefinesLedger
CHECK_DEADLOCK FALSE
