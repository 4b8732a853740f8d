\* Two calls in up to two tabs of one browser.
CONSTANTS
    Call = {c1, c2}
    Tab = {t1, t2}
    NoCall = NoCall
    AccessTTL = 1
    RefreshTTL = 2
    MaxTime = 2
    MaxVersion = 1
SPECIFICATION Spec
INVARIANTS TypeOK AppliedOnce
PROPERTIES SuspensionHolds SessionLasts CallsEnd
CHECK_DEADLOCK FALSE
