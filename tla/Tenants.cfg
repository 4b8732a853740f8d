\* Two requests of the console and two runs of the script, demo data included.
CONSTANTS
    Req = {r1, r2}
    Base = {"acme-industries", "admin"}
    Reserved = {"admin"}
    Attempts = 2
    Legacy = {"acme-industries"}
    Active = {"acme-industries"}
    OwnKey = {"gender"}
    OwnCode = {"EMP-2001"}
    Demo = TRUE
    MaxRuns = 2
SPECIFICATION Spec
SYMMETRY Symmetry
INVARIANTS TypeOK NeverHalfRegistered RegistrationKept SeedConverges
PROPERTIES SeedKeepsChoices
CHECK_DEADLOCK FALSE
