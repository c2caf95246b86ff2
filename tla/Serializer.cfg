SPECIFICATION Spec
CONSTANTS
    prefixA = prefixA
    prefixB = prefixB
    Prefix = {none, prefixA, prefixB}
    Namespace = {empty, A, B}
    NoPrefix = none
    NoNamespace = empty
    Unset = unset
    Xsi = B
    Generated <- GeneratedPrefixes
    MaxTag = 4
    MaxRemembered = 6
INVARIANTS TypeOK ScopesAgree NamesResolve DeclarationsAreLegal
