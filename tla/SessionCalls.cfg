SPECIFICATION Spec
CONSTANTS
    User = {u, v}
    Email = {d, e}
    Call = {c1, c2, c3}
    NoCall = NoCall
    Offered <- Everything
    MaxFaults = 2
SYMMETRY CallAndEmailSymmetry
INVARIANTS
    TypeOK
    LogoutEndsSessions
    DeactivatedNeedsReset
    NobodyIsLoggedOutUnasked
    GlobalLogoutEndsListed
PROPERTIES
    NoTokenComesBack
CHECK_DEADLOCK FALSE
