\* One request at a time, an engine that may refuse, fixed member codes.
CONSTANTS
    Member = {m1, m2}
    Code = {c1, c2}
    Req = {r1, r2, r3}
    MaxImages = 2
    Serial = TRUE
    CodesChange = FALSE
    Faults = {"engine_down"}
SPECIFICATION Spec
PROPERTIES EraseMeansAllThree RecordSpec RequestsEnd
