\* Two overlapping requests on one account.
SPECIFICATION Spec
CONSTANTS
    Request = {r1, r2}
    Email = {e1}
    Org = {o1}
    OtpId = {p1, p2, p3}
    SessionId = {s1, s2, s3}
    MaxPassword = 2
    HeldOtp = p1
    NoAccount = none
    NoOrg = noOrg
    Starts <- MCStarts
    Changes <- MCChanges
SYMMETRY Symmetry
INVARIANTS
    TypeOK
    LiveOtpBounded
    ResetEndsSessions
PROPERTIES
    RefreshTradesSessions
CHECK_DEADLOCK FALSE
