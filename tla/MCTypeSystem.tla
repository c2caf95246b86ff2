---------------------------- MODULE MCTypeSystem ----------------------------
(***************************************************************************)
(* TypeSystem for TLC: a schema with a document type, the type of its      *)
(* element and a type with two elements, in two libraries, and the type of *)
(* XmlObjectDocument, which is registered under an empty element name.     *)
(***************************************************************************)
EXTENDS TypeSystem, TLC

CONSTANTS any, doc, inner, other, xmlObjectDocument, root, item, noName

MCTypeName == {any, doc, inner, other, xmlObjectDocument}

MCElementName == {root, item, noName}

nothing == [n \in MCElementName |-> NULL]

Type(name, element, elements) == [name |-> name, documentElementName |-> element, elements |-> elements]

MCAnyType == Type(any, NULL, nothing)

Doc == Type(doc, root, [nothing EXCEPT ![root] = inner])

(* The inner type of each library, which differ in the elements they have. *)
InnerOf(t) == Type(inner, NULL, [nothing EXCEPT ![item] = t])

Other == Type(other, NULL, nothing)

Untyped == Type(xmlObjectDocument, noName, nothing)

MCSchemaType == {MCAnyType, Doc, InnerOf(NULL), InnerOf(other), Other, Untyped}

CONSTANTS lib1, lib2

MCTypesOf == (lib1 :> <<Untyped, Doc, InnerOf(NULL)>>) @@ (lib2 :> <<InnerOf(other), Doc, Other>>)
=============================================================================
