SPECIFICATION Spec
CONSTANTS
    User = {u}
    Email = {d}
    Call = {c1, c2}
    NoCall = NoCall
    Offered <- SignupAndGlobalLogout
    MaxFaults = 1
SYMMETRY CallAndEmailSymmetry
INVARIANTS
    GlobalLogoutEndsSessions
CHECK_DEADLOCK FALSE
