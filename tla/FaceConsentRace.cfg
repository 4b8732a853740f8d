\* An enrolment and a withdrawal overlap; nothing fails.
CONSTANTS
    Member = {m1}
    Code = {c1}
    Req = {r1, r2}
    MaxImages = 2
    Serial = FALSE
    CodesChange = FALSE
    Faults = {}
SPECIFICATION Spec
INVARIANT ConsentCoversFaces
