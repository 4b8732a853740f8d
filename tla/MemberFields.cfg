\* One write, one import and any field edits overlap.
CONSTANTS
    Key = {k1}
    Member = {m1, m2}
    Code = {c1, c2}
    Option = {o1}
    Word = {w1}
    NoValue = NoValue
    NoCode = NoCode
    NoMember = NoMember
    Writer = {w}
    Importer = {i}
    MaxRows = 2
SPECIFICATION Spec
SYMMETRY Symmetry
INVARIANTS TypeOK StoredValuesTyped
PROPERTIES ImportAllOrNothing RequiredEnforced
