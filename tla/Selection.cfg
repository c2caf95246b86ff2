SPECIFICATION Spec
CONSTANTS
    NULL = NULL
    Unset = Unset
    Illegal = Illegal
    empty = empty
    nsA = nsA
INVARIANTS PathsSelect QueriesFind
CHECK_DEADLOCK FALSE
