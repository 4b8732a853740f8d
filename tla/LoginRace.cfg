\* Passwords are tried at the same time.
CONSTANTS
    Req = {r1, r2}
    MaxFailed = 2
    LockTime = 2
    AccessTTL = 1
    RefreshTTL = 2
    MaxVersion = 1
    MaxStale = 1
SPECIFICATION Spec
PROPERTY WrongNeverUnlocks
