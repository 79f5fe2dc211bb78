SPECIFICATION ServiceSpec
CONSTANTS
    Token = {t1, t2}
    TTL = 1
    Key = {k1}
    Limit = 2
    Window = 1
    Worker = {w1, w2}
    Run = {r1, r2}
    Conn = {c1}
    MaxLogs = 3
    Hit = {h1, h2}
    Rebuild = {b1, b2}
    MaxRequests = 2
    MaxFound = 1
    Setting = {"port", "password", "password_hash"}
    Value = {v1, v2}
    Valid = {v1}
    Usual = v1
    NotANumber = NotANumber
    Unset = Unset
INVARIANT AuthTypeOK
INVARIANT AnswersRight
INVARIANT FailuresBounded
INVARIANT LifeTypeOK
INVARIANT Graceful
INVARIANT FreshLog
INVARIANT CountsAgree
INVARIANT LastReported
INVARIANT ServesAsGiven
PROPERTY ExpiredLeave
PROPERTY LockoutEnds
PROPERTY StopsWhenTold
