\* Requests of every kind overlap, password attempts too.
CONSTANTS
    Req = {r1, r2}
    MaxFailed = 3
    LockTime = 2
    AccessTTL = 1
    RefreshTTL = 2
    MaxVersion = 2
    MaxStale = 2
SPECIFICATION Spec
INVARIANTS TypeOK GuessesBounded
PROPERTIES LockLasts LogoutKillsAll RevokedSessionEnds
