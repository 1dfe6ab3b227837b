SPECIFICATION Spec
CONSTANTS
    User = {u}
    Email = {d}
    Call = {c1, c2, c3, c4}
    NoCall = NoCall
    Offered <- DeactivationAndReset
    MaxFaults = 0
SYMMETRY CallAndEmailSymmetry
INVARIANTS
    DeactivatedIsOut
CHECK_DEADLOCK FALSE
