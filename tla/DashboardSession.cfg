\* Two calls, or one at a time, on a network that loses answers or does not.
SPECIFICATION Spec
CONSTANTS
    Token = {t1, t2, t3}
    NoToken = NoToken
    Call = {c1, c2}
    MaxStray = 1
SYMMETRY Symmetry
INVARIANTS
    DashboardTypeOK
    CookieIsCurrent
    SerialNoticeIsTrue
    SerialLogoutExpiresCookie
