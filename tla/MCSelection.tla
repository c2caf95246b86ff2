---------------------------- MODULE MCSelection ----------------------------
(***************************************************************************)
(* Selecting parts of documents for TLC: a pattern with stars, a path and  *)
(* a query.  They share no state: a behaviour is one of them, and the      *)
(* others stay where they begin.                                           *)
(***************************************************************************)
EXTENDS Integers, Sequences, FiniteSets

CONSTANTS NULL, Unset, Illegal, empty, nsA   \* model values

VARIABLES
    part,
    name, pattern,                        \* Glob
    document, ns, path, obj, phase,       \* XPath
    hasContents, elems, call              \* Query

-----------------------------------------------------------------------------
(* Every name and every pattern up to a length. *)

MaxLength == 5

G == INSTANCE Glob WITH Star <- "*"

GlobInit == name = << >> /\ pattern = << >>

GlobNext ==
    \/ /\ Len(name) < MaxLength
       /\ \E c \in {"a", "b"} : name' = Append(name, c)
       /\ UNCHANGED pattern
    \/ /\ Len(pattern) < MaxLength
       /\ \E c \in {"a", "b", "*"} : pattern' = Append(pattern, c)
       /\ UNCHANGED name

-----------------------------------------------------------------------------
(* Names of no namespace and of two, of which one continues the other with *)
(* a colon and a local name; the prefix is spelled like one of them.       *)
(* Documents of at most four nodes under the object: two elements with a   *)
(* part each, or one with two; the last part is an element, or null, or an *)
(* attribute.                                                              *)

LetterA == <<"a">>
LetterB == <<"b">>
NoURI   == << >>
URI     == <<"u">>
LongURI == <<"u", ":", "a">>

PathName(uri, local) == [ns |-> uri, local |-> local]

MCNames == {PathName(NoURI, LetterA), PathName(URI, LetterA), PathName(LongURI, LetterA), PathName(LongURI, LetterB)}

ObjectNode == [parent |-> 0, kind |-> "elem", name |-> PathName(NoURI, LetterA), null |-> FALSE]

NodeOf(parent, kind, n, null) == [parent |-> parent, kind |-> kind, name |-> n, null |-> null]

MCDocuments ==
    {<<ObjectNode, NodeOf(1, "elem", a, FALSE), NodeOf(2, "elem", b, FALSE),
       NodeOf(1, "elem", c, FALSE), NodeOf(4, k[1], d, k[2])>> :
        a \in {n \in MCNames : n.ns \in {NoURI, URI}}, b \in {n \in MCNames : n.ns # NoURI},
        c \in {n \in MCNames : n.ns = URI}, d \in {n \in MCNames : n.ns # NoURI},
        k \in {<<"elem", FALSE>>, <<"elem", TRUE>>, <<"attr", FALSE>>}}
    \cup
    {<<ObjectNode, NodeOf(1, "elem", a, FALSE), NodeOf(2, "attr", b, FALSE), NodeOf(2, "elem", c, FALSE)>> :
        a \in MCNames, b \in MCNames, c \in MCNames}

X == INSTANCE XPath WITH
        Star <- "*", Prefix <- {<< >>, URI}, NoPrefix <- << >>, Namespace <- {NoURI, URI, LongURI},
        NoNamespace <- NoURI, Local <- {LetterA, LetterB}, Documents <- MCDocuments,
        MaxSteps <- 2, MaxPosition <- 1

-----------------------------------------------------------------------------
(* Elements with and without an attribute, a namespace and parts, one with *)
(* texts that their types refuse, and criteria of every operator, nested   *)
(* where that says something else.                                         *)

ElementOf(uri, null, text, attr, parts) ==
    [name |-> [ns |-> uri, local |-> "a"], null |-> null, text |-> text, attr |-> attr, elems |-> parts]
Leaf(text, attr) == ElementOf(empty, FALSE, text, attr, << >>)

MCElement ==
    {ElementOf(empty, FALSE, 1, 1, << >>), ElementOf(nsA, FALSE, 2, NULL, << >>),
     ElementOf(nsA, TRUE, 1, NULL, << >>),
     ElementOf(empty, FALSE, 1, 2, <<Leaf(1, 2), Leaf(2, 1)>>),
     ElementOf(empty, FALSE, 1, Illegal, <<Leaf(2, NULL), Leaf(Illegal, 1)>>),
     ElementOf(nsA, FALSE, 2, NULL, <<Leaf(2, NULL), ElementOf(empty, TRUE, 1, 1, << >>)>>)}

False == 3
True  == 4

String(t) == [oper |-> "string", text |-> t, name |-> NULL, next |-> NULL, a |-> NULL, b |-> NULL]
Attribute == [oper |-> "attribute", text |-> NULL, name |-> "x", next |-> NULL, a |-> NULL, b |-> NULL]
Parts(n, next) ==
    [oper |-> "element", text |-> NULL, name |-> n, next |-> next, a |-> NULL, b |-> NULL]
Expr(a, oper, b) == [oper |-> oper, text |-> NULL, name |-> NULL, next |-> NULL, a |-> a, b |-> b]

MCCriteria ==
    {Parts("a", NULL), Attribute,
     Expr(Attribute, "EQ", String(2)), Expr(Parts("a", NULL), "LT", String(2)),
     Expr(Parts("*", Attribute), "GE", String(2)), Expr(String(1), "GT", Parts("a", NULL)),
     Expr(Parts("a", NULL), "LE", Parts("a", Attribute)),
     Expr(NULL, "NOT", Expr(Parts("a", NULL), "LT", String(2))),
     Expr(NULL, "NOT", Expr(Attribute, "EQ", String(1))), Expr(Attribute, "LT", String(1)),
     Expr(Parts("a", NULL), "AND", Expr(Attribute, "EQ", String(2))),
     Expr(Expr(Parts("a", NULL), "LT", String(2)), "OR", Expr(Attribute, "EQ", String(1))),
     Expr(Expr(Attribute, "EQ", String(2)), "EQ", String(True))}

Q == INSTANCE Query WITH
        Text <- {1, 2}, FalseText <- False, TrueText <- True, NoNamespace <- empty,
        Declared <- {[ns |-> nsA, local |-> "a"]}, ElementNames <- {"a", "b", "*"},
        Criteria <- MCCriteria, Element <- MCElement,
        Creator <- {ElementOf(empty, FALSE, 2, 2, <<Leaf(1, 2)>>)}, MaxElements <- 2

-----------------------------------------------------------------------------

globVars  == <<name, pattern>>
pathVars  == <<document, ns, path, obj, phase>>
queryVars == <<hasContents, elems, call>>

Init ==
    /\ part \in {"glob", "path", "query"}
    /\ GlobInit /\ X!Init /\ Q!Init
    /\ part # "path" => document = <<ObjectNode, NodeOf(1, "elem", ObjectNode.name, FALSE),
                                     NodeOf(2, "attr", ObjectNode.name, FALSE),
                                     NodeOf(2, "elem", ObjectNode.name, FALSE)>>

Next ==
    \/ part = "glob" /\ GlobNext /\ UNCHANGED <<part, pathVars, queryVars>>
    \/ part = "path" /\ X!Next /\ UNCHANGED <<part, globVars, queryVars>>
    \/ part = "query" /\ Q!Next /\ UNCHANGED <<part, globVars, pathVars>>

Spec == Init /\ [][Next]_<<part, globVars, pathVars, queryVars>>

-----------------------------------------------------------------------------
(* matchQNameString finds no match that is none, although it takes each part *)
(* of a pattern at the first place and never another; a match that it misses *)
(* is one for a pattern whose last part is in the name more than once.       *)
MatchesAreMatches ==
    /\ G!matchQNameString(name, pattern) => G!Matches(name, pattern)
    /\ G!Matches(name, pattern) =>
        \/ G!matchQNameString(name, pattern)
        \/ Cardinality(G!Occurrences(name, G!tokenize(pattern)[Len(G!tokenize(pattern))])) > 1

(* Steps select the nodes that they name, null ones left out, each once and  *)
(* in document order, so that the position of a predicate means the one of   *)
(* the document, counted from 0.  Names are matched by their characters, as  *)
(* MatchesAreMatches says: so a path may select names whose URI continues    *)
(* the one it names and miss names whose URI has what it looks for.          *)
PathsSelect ==
    /\ part = "glob" => MatchesAreMatches
    /\ part = "path" => X!TypeOK /\ X!InDocumentOrder /\ X!SelectsWhatIsNamed /\ X!PositionsCountFromZero

(* What query returns is the first element that meets the criterion, and     *)
(* what cquery made for want of one is found when it is asked again.         *)
QueriesFind == part = "query" => Q!ResultIsFirst /\ Q!MadeIsFound
=============================================================================
