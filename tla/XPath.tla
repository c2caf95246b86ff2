------------------------------- MODULE XPath -------------------------------
(***************************************************************************)
(* Selecting the parts of a document by a path (XmlObjectXpaths.cpp): the  *)
(* declarations in front of a path, then its steps one by one.             *)
(*                                                                         *)
(* A document is the sequence of its nodes in document order, an element   *)
(* before its attributes and these before its elements; the first node is  *)
(* the object the path starts at.  URIs, prefixes and local names are      *)
(* sequences of characters, for they are matched by these: NoNamespace and *)
(* NoPrefix are the empty one, and only a URI may have colons.             *)
(***************************************************************************)
EXTENDS Glob, NSMap

CONSTANTS
    Local,       \* local names
    Documents,   \* nodes: parent, kind ("elem" or "attr"), name (ns, local), null
    MaxSteps,    \* bound: steps of a path
    MaxPosition  \* bound: number in a predicate

Colon  == <<":">>
AnyOne == <<Star>>

VARIABLES
    document,
    ns,     \* NSMapXPath
    path,   \* the steps taken
    obj,    \* what they select: numbers of nodes, in order
    phase   \* "declare", "steps" or "undefined"

vars == <<document, ns, path, obj, phase>>

(* A part of a path: a name with or without a prefix, and stars. *)
Part == [kind : {"elem", "attr"}, prefix : Prefix \cup {AnyOne}, local : Local \cup {AnyOne}]

(* The part that stays at the objects. *)
NoPart == [kind |-> "self", prefix |-> NoPrefix, local |-> <<".">>]

NoPredicate == -1

Step == [part : Part \cup {NoPart}, predicate : NoPredicate .. MaxPosition]

TypeOK ==
    /\ ns \in PrefixMap
    /\ path \in Seq(Step)
    /\ obj \in Seq(DOMAIN document)
    /\ \A i \in DOMAIN obj : ~document[obj[i]].null
    /\ phase \in {"declare", "steps", "undefined"}

-----------------------------------------------------------------------------

_getQNameString(name) ==
    IF name.ns # NoNamespace THEN name.ns \o Colon \o name.local ELSE name.local

(* A part as it is written. *)
Written(part) ==
    IF part.prefix = NoPrefix THEN part.local ELSE part.prefix \o Colon \o part.local

(* Mutant: a part without a prefix is resolved with the default namespace. *)
_getQNameStringOfDefault(part) ==
    IF part.prefix \in Prefix /\ isSetPrefix(ns, part.prefix)
    THEN _getQNameString([ns |-> ns[part.prefix], local |-> part.local])
    ELSE Written(part)

(* A part without a prefix stays as it is, and so does one with a prefix   *)
(* that is not set, a star for one.                                        *)
_getQNameStringWithStar(part) ==
    IF part.prefix \in Prefix \ {NoPrefix} /\ isSetPrefix(ns, part.prefix)
    THEN _getQNameString([ns |-> ns[part.prefix], local |-> part.local])
    ELSE Written(part)

(* getElems and getAttrObjects. *)
PartsOf(o, kind) ==
    SetToSortSeq({n \in DOMAIN document : document[n].parent = o /\ document[n].kind = kind}, <)

(* The parts of each object that match, but not those that are null. *)
doPart(objects, part) ==
    IF part = NoPart THEN objects
    ELSE LET selected(o) ==
                SelectSeq(PartsOf(o, part.kind),
                          LAMBDA n : /\ ~document[n].null
                                     /\ matchQNameString(_getQNameString(document[n].name),
                                                         _getQNameStringWithStar(part)))
         IN  FlattenSeq([i \in DOMAIN objects |-> selected(objects[i])])

(* The position counts from zero, among all that the step has selected. *)
doPredicat(objects, pos) ==
    IF pos = NoPredicate THEN objects ELSE <<objects[pos + 1]>>

(* The vector has no such element: what is read then is not defined. *)
IsDefined(objects, pos) == pos < Len(objects)

-----------------------------------------------------------------------------

(* setXPathNamespaces: a prefix that is declared twice keeps the first URI. *)
declareNamespace(prefix, uri) ==
    /\ phase = "declare"
    /\ ns' = AddToMap(ns, prefix, uri, FALSE)
    /\ UNCHANGED <<document, path, obj, phase>>

(* The path comes to an end where nothing is left. *)
getPath(step) ==
    /\ phase \in {"declare", "steps"}
    /\ Len(path) < MaxSteps
    /\ obj # << >>
    /\ path' = Append(path, step)
    /\ LET objects == doPart(obj, step.part)
       IN  IF IsDefined(objects, step.predicate)
           THEN phase' = "steps" /\ obj' = doPredicat(objects, step.predicate)
           ELSE phase' = "undefined" /\ obj' = << >>
    /\ UNCHANGED <<document, ns>>

Init ==
    /\ document \in Documents
    /\ ns = EmptyPrefixMap
    /\ path = << >>
    /\ obj = <<1>>
    /\ phase = "declare"

Next ==
    \/ \E prefix \in Prefix, uri \in Namespace : declareNamespace(prefix, uri)
    \/ \E step \in Step : getPath(step)

Spec == Init /\ [][Next]_vars

-----------------------------------------------------------------------------
(* Properties *)

(* What is selected comes in document order, each node once, whatever steps  *)
(* were taken: so a position in a predicate is a position in the document.   *)
InDocumentOrder == \A i, j \in DOMAIN obj : i < j => obj[i] < obj[j]

(* The URI that a prefix stands for; one that is not declared is taken for  *)
(* the URI itself, where in XPath it is an error.                            *)
URIOf(prefix) == IF isSetPrefix(ns, prefix) THEN ns[prefix] ELSE prefix

(* What a part of a path names.  A part without a prefix names what has no   *)
(* namespace, whatever is declared, as in XPath 1.0; a star without a prefix *)
(* names anything, and so does one with the prefix of no namespace.  A star  *)
(* before the colon is for a namespace, and not for none.                    *)
Names(part, name) ==
    /\ part.local \in {name.local, AnyOne}
    /\ CASE part.prefix = NoPrefix -> name.ns = NoNamespace \/ part.local = AnyOne
         [] part.prefix = AnyOne   -> name.ns # NoNamespace
         [] OTHER                  -> \/ URIOf(part.prefix) = name.ns
                                      \/ URIOf(part.prefix) = NoNamespace /\ part.local = AnyOne

(* p:* is also met by a URI that goes on behind that of p with a colon.      *)
IsContinued(part, name) ==
    /\ part.local = AnyOne /\ part.prefix \notin {NoPrefix, AnyOne}
    /\ IsPrefix(URIOf(part.prefix) \o Colon, name.ns)

(* *:a is looked for where ":a" comes first, be it in the URI: then it does  *)
(* not find the local name.                                                  *)
IsHidden(part, name) ==
    /\ part.prefix = AnyOne /\ part.local # AnyOne
    /\ Occurrences(name.ns, Colon \o part.local) # {}

NameTest(part, name) ==
    (Names(part, name) \/ IsContinued(part, name)) /\ ~IsHidden(part, name)

(* Whether a node is reached by the first k steps, whatever their predicates. *)
RECURSIVE Reached(_, _)
Reached(n, k) ==
    IF k = 0 THEN n = 1
    ELSE IF path[k].part = NoPart THEN Reached(n, k - 1)
    ELSE /\ document[n].kind = path[k].part.kind /\ n # 1 /\ ~document[n].null
         /\ NameTest(path[k].part, document[n].name)
         /\ Reached(document[n].parent, k - 1)

(* A path without predicates selects the nodes that its steps name, all but  *)
(* those that are hidden by their URIs and, beyond them, only those whose    *)
(* URI continues the named one; a path with predicates selects some of them. *)
SelectsWhatIsNamed ==
    phase = "steps" =>
        LET reached == {n \in DOMAIN document : Reached(n, Len(path))}
        IN  /\ Range(obj) \subseteq reached
            /\ (\A k \in DOMAIN path : path[k].predicate = NoPredicate) => Range(obj) = reached

(* A predicate on the first step that moves leaves the node that has as many *)
(* before it as the number says: unlike in XPath the first one is number 0.  *)
PositionsCountFromZero ==
    phase = "steps" /\ path[Len(path)].predicate # NoPredicate
      /\ (\A k \in 1 .. Len(path) - 1 : path[k].predicate = NoPredicate) =>
        /\ Len(obj) = 1
        /\ Cardinality({n \in DOMAIN document : Reached(n, Len(path)) /\ n < obj[1]})
                = path[Len(path)].predicate
=============================================================================
