SPECIFICATION Spec
CONSTANTS
    t1 = t1
    t2 = t2
    a = a
    b = b
    o1 = o1
    o2 = o2
    Thread = {t1, t2}
    Name = {a, b, text}
    TextName = text
    Object = {o1, o2}
    NULL = null
    MaxElems = 3
    MaxIndex = 1
    MaxArray = 2
INVARIANTS TypeOK OneText OperatorsAreTheLoops
PROPERTIES CallsAreUndisturbed ImplementsLists
SYMMETRY Interchangeable
