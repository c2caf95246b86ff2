SPECIFICATION PartSpec
CONSTANTS
    Prefix = {none, prefixP, kept}
    NoPrefix = none
    NoNamespace = noUri
    Unset = unset
    NULL = NULL
    none = none
    prefixP = prefixP
    kept = kept
    noUri = noUri
    nsA = nsA
    nsXsi = nsXsi
    unset = unset
    Namespace <- MCNamespace
    ElementName <- MCElementName
    TypeName <- MCTypeName
    SchemaType <- MCSchemaType
    AnyType <- tAny
    Persistent = {kept}
    XsiType <- MCXsiType
    XsiArray <- MCXsiArray
    Types <- MCTypes
    Untyped <- tUntyped
    Tags <- MCTags
    Objects <- MCObjects
    MaxNodes = 2
    MaxParses = 2
    MaxObjects = 9
CHECK_DEADLOCK FALSE
INVARIANT DocumentIsRead
