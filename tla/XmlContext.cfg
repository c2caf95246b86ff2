SPECIFICATION Spec
CONSTANTS
    Prefix = {none, p, q}
    Namespace = {nil, u, v}
    NoPrefix = none
    NoNamespace = nil
    Unset = unset
    MaxLinks = 4
    MaxRemembered = 5
INVARIANTS TypeOK PositionsOrdered ChangesAreStored UndoneToIsTheLoop
PROPERTY ImplementsScopes
