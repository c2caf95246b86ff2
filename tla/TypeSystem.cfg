SPECIFICATION Spec
CONSTANTS
    any = any
    doc = doc
    inner = inner
    other = other
    xmlObjectDocument = xmlObjectDocument
    root = root
    item = item
    noName = noName
    lib1 = lib1
    lib2 = lib2
    NULL = null
    AnyType <- MCAnyType
    SchemaType <- MCSchemaType
    TypeName <- MCTypeName
    ElementName <- MCElementName
    TypesOf <- MCTypesOf
    Library = {lib1, lib2}
    Client = {c1}
    Asked = {root, item}
    MaxCalls = 2
INVARIANTS DocumentsAreTypes NothingIsLost
PROPERTY EveryCallReturns
CHECK_DEADLOCK FALSE
