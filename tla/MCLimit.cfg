SPECIFICATION AuthSpec
CONSTANTS
    Token = {t1}
    TTL = 1
    Key = {k1}
    Limit = 2
    Window = 1
    Worker = {w1, w2}
INVARIANT FailuresLimited
