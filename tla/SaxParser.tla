----------------------------- MODULE SaxParser -----------------------------
(***************************************************************************)
(* Reading documents with a SAX parser: LibXMLParser.cpp and               *)
(* XercesParser.cpp, which differ in who resolves names and in what is     *)
(* left on the stack.  The SAX library sends the calls of a document that  *)
(* is chosen tag by tag, and may give it up anywhere.  The handlers keep   *)
(* an XmlContext and a stack of objects, and build the tree of contents.   *)
(*                                                                         *)
(* A node is known by its path: the numbers, among the elements of one     *)
(* parent, of its ancestors and itself.  << >> is the object passed in.    *)
(***************************************************************************)
EXTENDS XmlContextCalls, SchemaTypes, Sublists, SequencesExt, FiniteSetsExt

CONSTANTS
    Persistent,  \* prefixes that begin with XmlBeans::persistentPrefix()
    XsiType,     \* the element name record of XmlBeans::xsi_type()
    XsiArray,    \* that of XmlBeans::xsi_array()
    Types,       \* globalTypeSystem(), loaded before
    Untyped,     \* XmlObjectDocument::type()
    Tags,        \* start tags: prefix, local, decls, attrs (each prefix, local, value)
    Objects,     \* what parse is called with: class, tree
    MaxNodes,    \* bound: elements of the first document, one less in the next
    MaxParses    \* bound: documents of one parser

ASSUME SaxParserAssumption ==
    /\ Persistent \subseteq Prefix \ {NoPrefix}
    /\ XsiType.ns # NoNamespace
    /\ Types \in Registry
    /\ Untyped \in SchemaType

(* A document type that is registered under the name of an element has it. *)
ASSUME DocumentsHaveRoots ==
    \A n \in ElementName :
        createDocumentByName(Types, n) # NULL => createDocumentByName(Types, n).elements[n] # NULL

(* A start tag declares a prefix once; its names are among those of the     *)
(* schemas, whatever namespace they turn out to be in.  Bound: the local    *)
(* names of its attributes differ, so that no two have the same name.       *)
ASSUME TagsAssumption ==
    \A tag \in Tags :
        /\ tag.prefix \in Prefix
        /\ \A ns \in Namespace : [ns |-> ns, local |-> tag.local] \in ElementName
        /\ tag.decls \in Seq(Link)
        /\ \A i, j \in DOMAIN tag.decls : tag.decls[i].prefix = tag.decls[j].prefix => i = j
        /\ \A i, j \in DOMAIN tag.attrs : tag.attrs[i].local = tag.attrs[j].local => i = j
        /\ \A a \in Range(tag.attrs) :
            /\ a.prefix \in Prefix /\ a.value.prefix \in Prefix
            /\ \A ns \in Namespace : [ns |-> ns, local |-> a.value.local] \in TypeName

VARIABLES
    library,     \* the SAX library of the parser
    xmlContext,
    nodesStack,  \* the paths of the objects on the stack
    class,       \* the type of the class of the object that is parsed into
    tree,        \* its contents: nodes by path; type NULL where there are none
    parses,      \* number of calls of parse
    phase,       \* "idle" or "parsing"
    dirty,       \* a call of parse has thrown
    given,       \* the tree as it was passed
    document,    \* what the library has read: elements by path, with their scope
    open         \* the path of the innermost element that is open

vars == <<library, xmlContext, nodesStack, class, tree, parses, phase, dirty, given, document, open>>

Child(p, nodes) == {q \in DOMAIN nodes : q # << >> /\ Front(q) = p}

NextChild(p, nodes) == Append(p, Cardinality(Child(p, nodes)) + 1)

Node(name, prefix, type, attrs, xmlns) ==
    [name |-> name, prefix |-> prefix, type |-> type, attrs |-> attrs, xmlns |-> xmlns, text |-> << >>]

Text == {"text", "blank"}

(* A node has a type, and below the object a name; what it declares are     *)
(* prefixes that do not persist.                                            *)
IsNode(n, path) ==
    /\ n = [Node(n.name, n.prefix, n.type, n.attrs, n.xmlns) EXCEPT !.text = n.text]
    /\ n.type \in SchemaType \cup (IF path = << >> THEN {NULL} ELSE {})
    /\ path # << >> => n.name \in ElementName
    /\ n.prefix \in Prefix
    /\ n.text \in Seq(Text)
    /\ n.xmlns \subseteq {l \in Link : l.prefix \notin Persistent}

(* The nodes of an object.  The first of its elements has the number 1. *)
IsTree(nodes) ==
    /\ nodes = [p \in DOMAIN nodes |-> nodes[p]]
    /\ << >> \in DOMAIN nodes
    /\ \A p \in DOMAIN nodes : IsNode(nodes[p], p)
    /\ Cardinality(Child(<< >>, nodes)) = 1 => <<1>> \in DOMAIN nodes

(* An object without a place in a document, and its contents alone. *)
ObjectOf(type) == [p \in {<< >>} |-> Node(NULL, NoPrefix, type, {}, {})]

withNode(nodes, path, node) ==
    [p \in DOMAIN nodes \cup {path} |-> IF p = path THEN node ELSE nodes[p]]

ASSUME ObjectsAssumption ==
    \A o \in Objects : o.class \in SchemaType /\ IsTree(o.tree)

-----------------------------------------------------------------------------
(* The library: what a document means by the recommendation, and what it   *)
(* accepts.                                                                *)

OuterScope == [EmptyPrefixMap EXCEPT ![NoPrefix] = NoNamespace]

scope(p) == IF p = << >> THEN OuterScope ELSE document[p].scope

within(s, decls) ==
    LET of(p) == {l \in Range(decls) : l.prefix = p}
    IN  [p \in Prefix |-> IF of(p) = {} THEN s[p] ELSE (CHOOSE l \in of(p) : TRUE).ns]

(* The scope of a start tag that comes now. *)
here(tag) == within(scope(open), tag.decls)

(* Within the bound; a document of that size is not followed by another. *)
HasRoom == Cardinality(DOMAIN document) + parses <= MaxNodes

(* A start tag may come: Xerces gives up where a prefix is not in scope,   *)
(* libxml2 reports it and goes on.                                         *)
MayStart(tag) ==
    /\ phase = "parsing"
    /\ open = << >> => document = << >>
    /\ HasRoom
    /\ library = "xerces" =>
        /\ here(tag)[tag.prefix] # Unset
        /\ \A a \in Range(tag.attrs) : here(tag)[a.prefix] # Unset

-----------------------------------------------------------------------------
(* The names of a start tag *)

(* The context once the declarations of the tag are in it. *)
addNamespaces(tag) == declaredUpTo(xmlContext, tag.decls)[Len(tag.decls)]

(* What the prefixes of names, not of values, are resolved with. *)
resolver(tag) == IF library = "libxml2" THEN addNamespaces(tag).prefixMap ELSE here(tag)

(* Mutant: names are resolved before the declarations of their tag. *)
getQNameAround(tag, prefix, local) ==
    [ns |-> Reads(xmlContext.prefixMap)[prefix], local |-> local]

getQName(tag, prefix, local) == [ns |-> resolver(tag)[prefix], local |-> local]

getAttrQName(tag, a) ==
    IF a.prefix = NoPrefix
    THEN [ns |-> NoNamespace, local |-> a.local]
    ELSE getQName(tag, a.prefix, a.local)

(* A value is always resolved with the context of the parser. *)
nsSplit(tag, value) ==
    [ns |-> addNamespaces(tag).prefixMap[value.prefix], local |-> value.local]

Named(tag, name) == {a \in Range(tag.attrs) : getAttrQName(tag, a) = name}

HasXsiType(tag) == Named(tag, XsiType) # {}

(* getNamespaceURI throws for a prefix that is not set. *)
NameIsSet(tag) == resolver(tag)[tag.prefix] # Unset

AttrsAreSet(tag) ==
    /\ \A a \in Range(tag.attrs) : resolver(tag)[a.prefix] # Unset
    /\ \A a \in Named(tag, XsiType) \cup Named(tag, XsiArray) :
          addNamespaces(tag).prefixMap[a.value.prefix] # Unset

(* Mutant: no prefix is persistent. *)
isPersistNever(p) == FALSE

isPersistPrefix(p) == p \in Persistent

-----------------------------------------------------------------------------
(* The object a start tag makes *)

atRoot == Len(nodesStack) = 1

(* The object has one element: its type is kept for the root, with its name. *)
predefined == atRoot /\ Cardinality(Child(<< >>, tree)) = 1

elementName(tag) ==
    IF predefined THEN tree[<<1>>].name ELSE getQName(tag, tag.prefix, tag.local)

documentType(tag) == createDocumentByName(Types, elementName(tag))

(* setXmlObject of the object passed in takes the contents of the new one. *)
RootIsTaken(tag) == atRoot /\ documentType(tag) # NULL => class \in {Untyped, documentType(tag)}

(* The tree the element is appended to, and the type of its parent. *)
topType(tag) ==
    IF ~atRoot THEN tree[Last(nodesStack)].type
    ELSE IF documentType(tag) = NULL THEN class ELSE documentType(tag)

top(tag) == IF atRoot THEN ObjectOf(topType(tag)) ELSE tree

(* What the element is without an xsi:type.  NULL where there is no such type. *)
declaredType(tag) ==
    IF predefined THEN tree[<<1>>].type
    ELSE createSubObject(Types, topType(tag), elementName(tag))

xsiType(tag) == createByName(Types, nsSplit(tag, (CHOOSE a \in Named(tag, XsiType) : TRUE).value))

(* xsi:array does nothing, but throws where there is no type yet. *)
ArrayThrows(tag) ==
    /\ declaredType(tag) = NULL
    /\ \E i, j \in DOMAIN tag.attrs :
          i < j /\ tag.attrs[i] \in Named(tag, XsiArray) /\ tag.attrs[j] \in Named(tag, XsiType)

(* Mutant: the type an object declares wins. *)
subTypeDeclared(tag) ==
    IF declaredType(tag) = AnyType /\ HasXsiType(tag) THEN xsiType(tag) ELSE declaredType(tag)

(* NULL where an exception is thrown: xsi:type comes last. *)
subType(tag) ==
    IF HasXsiType(tag) /\ ~ArrayThrows(tag) THEN xsiType(tag) ELSE declaredType(tag)

newNode(tag) ==
    Node(elementName(tag),
         IF predefined THEN tree[<<1>>].prefix
         ELSE IF isPersistPrefix(tag.prefix) THEN NoPrefix ELSE tag.prefix,
         subType(tag),
         {getAttrQName(tag, a) : a \in Range(tag.attrs)} \ {XsiType, XsiArray},
         {l \in Range(getLastStoredLinks(addNamespaces(tag))) : ~isPersistPrefix(l.prefix)})

-----------------------------------------------------------------------------
(* Calls of parse.  None of them resets the context. *)

(* The object may be the one that was parsed into before. *)
parse(o) ==
    /\ phase = "idle"
    /\ parses < MaxParses
    /\ HasRoom
    /\ LET type == IF o.tree[<< >>].type = NULL THEN o.class ELSE o.tree[<< >>].type
       IN  tree' = [o.tree EXCEPT ![<< >>].type = type]
    /\ class' = o.class
    /\ given' = tree'
    /\ nodesStack' = << << >> >>
    /\ parses' = parses + 1
    /\ phase' = "parsing"
    /\ document' = << >>
    /\ open' = << >>
    /\ UNCHANGED <<library, xmlContext, dirty>>

startElement(tag) ==
    /\ MayStart(tag)
    /\ NameIsSet(tag) /\ RootIsTaken(tag) /\ AttrsAreSet(tag)
    /\ subType(tag) # NULL
    /\ LET path == NextChild(Last(nodesStack), top(tag))
       IN  /\ tree' = withNode(top(tag), path, newNode(tag))
           /\ nodesStack' = Append(nodesStack, path)
    /\ xmlContext' = Remember(addNamespaces(tag))
    /\ open' = NextChild(open, document)
    /\ document' = withNode(document, open', [tag |-> tag, scope |-> here(tag), text |-> << >>])
    /\ UNCHANGED <<library, class, parses, phase, dirty, given>>

(* The call of parse ends with an exception. *)
Throw ==
    /\ phase' = "idle"
    /\ dirty' = TRUE
    /\ UNCHANGED <<library, nodesStack, class, parses, given, document, open>>

(* The exceptions of startElement, with what has been done till then.  The *)
(* root is freed before its type is known to be the one of the object.     *)
nameThrows(tag) ==
    /\ MayStart(tag)
    /\ ~NameIsSet(tag)
    /\ xmlContext' = addNamespaces(tag)
    /\ tree' = tree
    /\ Throw

rootThrows(tag) ==
    /\ MayStart(tag)
    /\ NameIsSet(tag) /\ ~RootIsTaken(tag)
    /\ xmlContext' = addNamespaces(tag)
    /\ tree' = ObjectOf(NULL)
    /\ Throw

typeThrows(tag) ==
    /\ MayStart(tag)
    /\ NameIsSet(tag) /\ RootIsTaken(tag)
    /\ (AttrsAreSet(tag) => subType(tag) = NULL)
    /\ xmlContext' = addNamespaces(tag)
    /\ tree' = top(tag)
    /\ Throw

(* The rules leave nothing of some text.  Bound: one text, in the first     *)
(* document.                                                                *)
IsKept(text, type) == type.content # "elements" /\ ~(type.collapse /\ text = "blank")

characters(text) ==
    /\ open # << >>
    /\ phase = "parsing"
    /\ parses = 1 /\ \A p \in DOMAIN document : document[p].text = << >>
    /\ document' = [document EXCEPT ![open].text = <<text>>]
    /\ tree' = IF IsKept(text, tree[Last(nodesStack)].type)
               THEN [tree EXCEPT ![Last(nodesStack)].text = Append(@, text)]
               ELSE tree
    /\ UNCHANGED <<library, xmlContext, nodesStack, class, parses, phase, dirty, given, open>>

(* Mutant: the bindings of an element last until the next start tag. *)
endElementUnrestored ==
    /\ open # << >>
    /\ phase = "parsing"
    /\ nodesStack' = Front(nodesStack)
    /\ open' = Front(open)
    /\ UNCHANGED <<library, xmlContext, class, tree, parses, phase, dirty, given, document>>

endElement ==
    /\ open # << >>
    /\ phase = "parsing"
    /\ xmlContext' = Restore(xmlContext)
    /\ nodesStack' = Front(nodesStack)
    /\ open' = Front(open)
    /\ UNCHANGED <<library, class, tree, parses, phase, dirty, given, document>>

(* The object stays on the stack of LibXMLParser. *)
endDocument ==
    /\ phase = "parsing"
    /\ open = << >> /\ document # << >>
    /\ phase' = "idle"
    /\ nodesStack' = IF library = "xerces" THEN Front(nodesStack) ELSE nodesStack
    /\ UNCHANGED <<library, xmlContext, class, tree, parses, dirty, given, document, open>>

(* The document is not well-formed or not valid here, or so it turns out at *)
(* its end.                                                                 *)
documentThrows ==
    /\ phase = "parsing"
    /\ UNCHANGED <<xmlContext, tree>>
    /\ Throw

Init ==
    /\ library \in {"libxml2", "xerces"}
    /\ xmlContext = NewContext
    /\ nodesStack = << >>
    /\ class = Untyped
    /\ tree = ObjectOf(Untyped)
    /\ given = tree
    /\ parses = 0
    /\ phase = "idle"
    /\ dirty = FALSE
    /\ document = << >>
    /\ open = << >>

Next ==
    \/ \E o \in Objects \cup {[class |-> class, tree |-> tree]} : parse(o)
    \/ \E tag \in Tags :
        startElement(tag) \/ nameThrows(tag) \/ rootThrows(tag) \/ typeThrows(tag)
    \/ \E text \in Text : characters(text)
    \/ endElement
    \/ endDocument
    \/ documentThrows

Spec == Init /\ [][Next]_vars

-----------------------------------------------------------------------------
(* Properties *)

TypeOK ==
    /\ library \in {"libxml2", "xerces"}
    /\ xmlContext \in Context
    /\ IsTree(tree) /\ class \in SchemaType
    /\ Range(nodesStack) \subseteq DOMAIN tree
    /\ phase \in {"idle", "parsing"} /\ dirty \in BOOLEAN

(* While a document is read the stack holds the object and the elements that  *)
(* are open, each a child of the one under it, whatever failed before; and    *)
(* XercesParser finds the stack empty at the end, as it asserts.  As long as  *)
(* no parse has failed the context has one remembered position for each open  *)
(* element besides the two of its constructor.                                *)
StackIsPath ==
    /\ phase = "parsing" => nodesStack = [i \in 1 .. Len(open) + 1 |-> SubSeq(open, 1, i - 1)]
    /\ phase = "idle" /\ library = "xerces" /\ ~dirty => nodesStack = << >>
    /\ ~dirty => Len(xmlContext.rememberedPositions) = 2 + Len(open)

(* The bindings are those in scope at this point of the document.  A prefix *)
(* that has gone out of scope stays, bound to the empty URI.                *)
ContextIsScope == ~dirty => Reads(xmlContext.prefixMap) = Reads(scope(open))

(* Whatever was read, given up or failed before, the parser knows where in  *)
(* the document it is and what prefixes mean there.                         *)
ParserFollowsDocument == StackIsPath /\ ContextIsScope

(* The name of an attribute by the scope of its tag. *)
MeantName(means, a) ==
    [ns |-> IF a.prefix = NoPrefix THEN NoNamespace ELSE means[a.prefix], local |-> a.local]

(* The tree has the elements of the document, with their namespaces, their  *)
(* declarations, their attributes and the text that their types keep.  The  *)
(* root of an object that has one element takes its name.                   *)
IsRead ==
    document # << >> =>
        /\ DOMAIN tree = DOMAIN document \cup {<< >>}
        /\ \A p \in DOMAIN document :
            LET tag   == document[p].tag
                means == Reads(document[p].scope)
                named == IF p = <<1>> /\ Cardinality(Child(<< >>, given)) = 1
                         THEN given[p].name
                         ELSE [ns |-> means[tag.prefix], local |-> tag.local]
            IN  /\ tree[p].name = named
                /\ tree[p].attrs = {MeantName(means, a) : a \in Range(tag.attrs)} \ {XsiType, XsiArray}
                /\ tree[p].text = Kept(document[p].text, {t \in Text : IsKept(t, tree[p].type)})
                /\ tree[p].xmlns = {l \in Range(tag.decls) : l.prefix \notin Persistent}

(* Until a parse fails, what a parser builds is what the document says, one *)
(* document after another and into the same object as well.                 *)
TreeIsDocument == ~dirty => IsRead

(* Until a parse fails an element has the type that xsi:type names in the   *)
(* scope of its own tag, or else one that its parent declares for it.       *)
TypesAreResolved ==
    ~dirty =>
        \A p \in DOMAIN document :
            LET tag   == document[p].tag
                means == Reads(document[p].scope)
                types == {a \in Range(tag.attrs) : MeantName(means, a) = XsiType}
            IN  IF types # {}
                THEN LET value == (CHOOSE a \in types : TRUE).value
                     IN  tree[p].type =
                             createByName(Types, [ns |-> means[value.prefix], local |-> value.local])
                ELSE LET declared == tree[Front(p)].type.elements[tree[p].name]
                     IN  declared # NULL =>
                            \/ tree[p].type = createByName(Types, declared)
                            \/ p = <<1>> /\ tree[p].type = given[p].type

(* XmlParser.h says that parse parses an XML document to an XmlDocument;    *)
(* whatever was parsed before, the tree is that of the document.            *)
DocumentIsRead == IsRead
=============================================================================
