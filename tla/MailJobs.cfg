SPECIFICATION Spec
CONSTANTS
    Job = {i, j, k}
    Direct = {d}
    MaxCrashes = 1
INVARIANTS
    TypeOK
    AtMostOnce
    OkWasAnswered
PROPERTIES
    RefinesFeed
    JobsAreHandled
CHECK_DEADLOCK FALSE
