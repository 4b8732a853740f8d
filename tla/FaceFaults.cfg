\* Overlapping requests, every kind of fault, fixed member codes.
CONSTANTS
    Member = {m1}
    Code = {c1}
    Req = {r1, r2, r3}
    MaxImages = 2
    Serial = FALSE
    CodesChange = FALSE
    Faults = {"engine_down", "engine_late", "storage", "database", "crash"}
SPECIFICATION Spec
SYMMETRY Symmetry
INVARIANTS TypeOK NeverConsentedNothingStored FaceGoneBeforeImage RowBacked
