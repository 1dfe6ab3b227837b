SPECIFICATION Spec
CONSTANTS
    Order = {o, q}
    Sub = {s}
    All = All
    LastStatus = 2
    Capacity = 2
INVARIANTS
    TypeOK
    StatusesInOrder
    OneOrderIsNeverDropped
    NothingElseIsMissed
PROPERTIES
    RefinesFeed
    UpdatesAreHandled
    LeaversAreCleanedUp
CHECK_DEADLOCK FALSE
