SPECIFICATION Spec
CONSTANTS
    Users = {u1, u2}
    Tokens = {t1, t2}
    Attempts = {a1, a2, a3, a4}
    ACCESS_TOKEN_EXPIRE = 1
    REFRESH_TOKEN_EXPIRE = 2
    SECOND = 2
    MAX_TIME = 5
    Nothing = Nothing
INVARIANTS
    SessionsTypeOK
    ServedUntilLogoutOrExpiry
    LoggedOutStaysOut
    SessionBounded
SYMMETRY Symmetry
\* The instance stops when its clock and its attempts are used up.
CHECK_DEADLOCK FALSE
