---------------------------- MODULE SchemaTypes ----------------------------
(***************************************************************************)
(* What class TypeSystem (TypeSystem.cpp) knows of the schema types, and   *)
(* how an object of a type finds the type of a part of itself              *)
(* (SchemaType.cpp).  A registry is the two maps of TypeSystem; an object  *)
(* that is created is no more here than its type, and NULL where the code  *)
(* returns an empty pointer.                                               *)
(***************************************************************************)

CONSTANTS
    SchemaType,   \* records: name, documentElementName, elements
    TypeName,     \* names of types
    ElementName,  \* names of elements
    AnyType,      \* XmlObject::type()
    NULL

ASSUME SchemaTypesAssumption ==
    /\ NULL \notin TypeName \cup ElementName \cup SchemaType
    /\ AnyType \in SchemaType
    /\ \A st \in SchemaType :
        /\ st.name \in TypeName
        /\ st.documentElementName \in ElementName \cup {NULL}
        /\ st.elements \in [ElementName -> TypeName \cup {NULL}]

TypeMap(Key) == [Key -> SchemaType \cup {NULL}]

Registry == [typeCreators : TypeMap(TypeName), documentTypeCreators : TypeMap(ElementName)]

EmptyRegistry ==
    [typeCreators |-> [t \in TypeName |-> NULL], documentTypeCreators |-> [n \in ElementName |-> NULL]]

(* The registry with a type under its name; another of the name is replaced. *)
withType(r, st) ==
    [typeCreators         |-> [r.typeCreators EXCEPT ![st.name] = st],
     documentTypeCreators |-> r.documentTypeCreators]

withDocument(r, st) ==
    [typeCreators         |-> r.typeCreators,
     documentTypeCreators |-> [r.documentTypeCreators EXCEPT ![st.documentElementName] = st]]

createByName(r, t) == r.typeCreators[t]

createDocumentByName(r, n) == r.documentTypeCreators[n]

(* createSubObject comes to an end: where it asks a document type for its  *)
(* own element it asks the registry for that document type again.          *)
SubObjectReturns(r, st, n) ==
    \/ st.elements[n] # NULL
    \/ createDocumentByName(r, n) = NULL
    \/ createDocumentByName(r, n).elements[n] # NULL

(* The type of an element of an object of type st: the one st declares, or *)
(* that of the root of the document type of the name, or any.              *)
createSubObject(r, st, n) ==
    IF st.elements[n] # NULL THEN createByName(r, st.elements[n])
    ELSE IF createDocumentByName(r, n) = NULL THEN AnyType
    ELSE createByName(r, createDocumentByName(r, n).elements[n])
=============================================================================
