SPECIFICATION Spec
CONSTANTS
    Order = {o}
    Sub = {s, t}
    All = All
    LastStatus = 1
    Capacity = 1
PROPERTIES
    OnlyLeavingEnds
CHECK_DEADLOCK FALSE
