SPECIFICATION Spec
CONSTANTS
    Node = {r, m, n}
    Root = r
    ElemName = {e}
    TextName = text
    String = string
    NULL = null
    MaxAttrs = 1
    MaxElems = 3
    MaxTotal = 4
    MaxBefore = 3
INVARIANTS TypeOK StackIsPath TokensInOrder SiblingMovesReverse
