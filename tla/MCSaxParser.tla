---------------------------- MODULE MCSaxParser ----------------------------
(* SaxParser for TLC: one local name, a document type for it in namespace A *)
(* and another for it in none.                                              *)
EXTENDS SaxParserGrammars

CONSTANTS none, prefixP, kept, noUri, nsA, nsXsi, unset

MCNamespace == {noUri, nsA, nsXsi}

Name(ns) == [ns |-> ns, local |-> "a"]
MCElementName == {Name(ns) : ns \in MCNamespace}
MCTypeName == [ns : MCNamespace, local : {"Doc", "Other", "T", "S", "Any", "Untyped", "Unregistered"}]
MCXsiType == [ns |-> nsXsi, local |-> "type"]
MCXsiArray == [ns |-> nsXsi, local |-> "array"]

TypeOf(local, root, elements, content, collapse) ==
    [name |-> [ns |-> nsA, local |-> local], documentElementName |-> root,
     elements |-> [n \in MCElementName |-> IF n \in DOMAIN elements THEN elements[n] ELSE NULL],
     content |-> content, collapse |-> collapse]

NoType == [ns |-> nsA, local |-> "Unregistered"]

tDoc     == TypeOf("Doc", Name(nsA), Name(nsA) :> [ns |-> nsA, local |-> "T"], "elements", FALSE)
tOther   == TypeOf("Other", Name(noUri), Name(noUri) :> [ns |-> nsA, local |-> "S"], "elements", FALSE)
tT       == TypeOf("T", NULL, Name(noUri) :> [ns |-> nsA, local |-> "S"] @@ Name(nsXsi) :> NoType,
                   "elements", FALSE)
tS       == TypeOf("S", NULL, << >>, "simple", TRUE)
tAny     == TypeOf("Any", NULL, << >>, "mixed", FALSE)
tUntyped == TypeOf("Untyped", NULL, << >>, "elements", FALSE)

MCSchemaType == {tDoc, tOther, tT, tS, tAny, tUntyped}
MCTypes ==
    LET load(r, st) == withType(r, st)
        types      == FoldLeft(load, EmptyRegistry, <<tDoc, tOther, tT, tS, tAny, tUntyped>>)
    IN  withDocument(withDocument(types, tDoc), tOther)

xmlns(prefix, ns) == <<[prefix |-> prefix, ns |-> ns]>>
TagOf(prefix, decls, attrs) ==
    [prefix |-> prefix, local |-> "a", decls |-> decls, attrs |-> attrs]
AttrOf(prefix, local, value) ==
    [prefix |-> prefix, local |-> local, value |-> [prefix |-> value, local |-> "T"]]

MCTags ==
    {TagOf(none, << >>, << >>),
     TagOf(none, xmlns(none, nsA), << >>),
     TagOf(none, xmlns(none, noUri), << >>),
     TagOf(prefixP, xmlns(prefixP, nsA), << >>),
     TagOf(prefixP, << >>, << >>),
     TagOf(kept, xmlns(kept, nsA), << >>),
     TagOf(none, xmlns(none, nsA) \o xmlns(prefixP, nsXsi), <<AttrOf(prefixP, "type", none)>>),
     TagOf(none, << >>, <<AttrOf(prefixP, "type", none), AttrOf(none, "b", none)>>),
     TagOf(none, xmlns(kept, nsXsi), <<AttrOf(kept, "type", prefixP)>>),
     TagOf(prefixP, xmlns(prefixP, nsXsi), <<AttrOf(prefixP, "array", none), AttrOf(prefixP, "type", none)>>),
     TagOf(prefixP, xmlns(prefixP, nsXsi), <<AttrOf(prefixP, "type", none), AttrOf(prefixP, "array", none)>>)}

MCObjects ==
    {[class |-> tUntyped, tree |-> ObjectOf(NULL)],
     [class |-> tDoc, tree |-> ObjectOf(tDoc)],
     [class |-> tDoc, tree |-> ObjectOf(tDoc) @@ <<1>> :> Node(Name(nsA), none, tS, {}, {})]}
=============================================================================
