\* A manager of fields, a form for members and an import.
CONSTANTS
    Fields = 3
    Initial = 2
    Code = {c1}
    Manager = {t1}
    Enroller = {m}
    Importing = {w}
    MaxClicks = 3
SPECIFICATION Spec
INVARIANTS TypeOK ReorderIsWhole CreatedOnce
PROPERTIES RetryIsHarmless ButtonsComeBack
CHECK_DEADLOCK FALSE
