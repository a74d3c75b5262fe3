SPECIFICATION Spec
CONSTANTS
    Ids = {i1, i2}
    Direct = direct
    None = none
    Origins = {o1, o2}
    MaxAttempts = 2
    UnissuedLimit = 2
    RowLimit = 2
    MaxEvents = 4
SYMMETRY Symmetric
INVARIANT StartsAgain
PROPERTY SelectionKept
CHECK_DEADLOCK FALSE
