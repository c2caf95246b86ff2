----------------------------- MODULE Serializer -----------------------------
(***************************************************************************)
(* Writing a tree of Contents as XML (Serialize.cpp) and reading the text  *)
(* with the SAX parser (LibXMLParser.cpp): the namespaces of names.  The   *)
(* writer's NSMapSerializer and the parser are each an XmlContext.  Trees  *)
(* are not kept: which elements, attributes and types come next is chosen  *)
(* when the writer gets to them.                                           *)
(*                                                                         *)
(* A local name is left out: a QName is its URI and its prefix, the hint   *)
(* where the name came from a document and empty where it came from code.  *)
(***************************************************************************)
EXTENDS XmlContextCalls, SequencesExt, FiniteSetsExt

CONSTANTS
    Xsi,            \* XmlBeans::xsi_ns()
    Generated,      \* the prefixes getNextPrefix makes, in their order
    MaxTag,         \* bound: declarations and names of one start tag
    MaxRemembered   \* bound: positions the writer remembers, two for an element

ASSUME SerializerAssumption ==
    /\ Xsi \in Namespace \ {NoNamespace}
    /\ Generated \in Seq(Prefix \ {NoPrefix})
    /\ \A i, j \in DOMAIN Generated : Generated[i] = Generated[j] => i = j

VARIABLES
    writer,  \* NSMapSerializer: its XmlContext and the next generated prefix
    reader,  \* the parser's xmlContext
    pc,      \* how far the writer is
    tag      \* the start tag being written, or the last one written and read

vars == <<writer, reader, pc, tag>>

(* A name without a namespace has no prefix. *)
QName == {n \in [ns : Namespace, prefix : Prefix] : n.ns = NoNamespace => n.prefix = NoPrefix}

(* A name without a hint. *)
unhinted(ns) == [ns |-> ns, prefix |-> NoPrefix]

Printed == [use : {"element", "type", "attribute"}, ns : Namespace, prefix : Prefix]

(* Every name that is read has a prefix that is bound. *)
TypeOK ==
    /\ writer \in [context : Context, current : 0 .. Len(Generated)]
    /\ reader \in Context
    /\ pc \in {"content", "namespaces", "names", "end"}
    /\ tag \in [name : QName, printed : Seq(Printed),
                declared : Seq(Link), read : Seq(Namespace)]

-----------------------------------------------------------------------------
(* NSMapSerializer *)

prefixMap == writer.context.prefixMap

(* The numbers of generated prefixes that are left and not in the map. *)
Free(w) ==
    {i \in w.current + 1 .. Len(Generated) : ~isSetPrefix(w.context.prefixMap, Generated[i])}

(* Mutant: a generated prefix may be one that is in the map. *)
getAnyNextPrefix(w) == w.current + 1

getNextPrefix(w) == Min(Free(w))

(* The first in the map's order; which one it is makes no difference. *)
getPrefix(w, ns) == CHOOSE p \in Prefix : w.context.prefixMap[p] = ns

declaring(w, p, ns) ==
    [context |-> AddNamespace(w.context, p, ns, TRUE), current |-> w.current, prefix |-> p]

(* Mutant: a hint is taken without declaring it. *)
cprintUndeclared(w, n) ==
    LET found(p) == [context |-> w.context, current |-> w.current, prefix |-> p]
        next     == getNextPrefix(w)
    IN  CASE n.ns = NoNamespace  -> found(NoPrefix)
          [] n.ns # NoNamespace /\ n.prefix # NoPrefix -> found(n.prefix)
          [] OTHER ->
                IF isSetNamespaceURI(w.context.prefixMap, n.ns)
                THEN found(getPrefix(w, n.ns))
                ELSE declaring([w EXCEPT !.current = next], Generated[next], n.ns)

(* The prefix a name is printed with, and the writer then.  A hint that is *)
(* bound to another URI is bound anew; a name without a hint takes a       *)
(* prefix of its URI, or a generated one.                                  *)
cprintQName(w, n) ==
    LET found(p) == [context |-> w.context, current |-> w.current, prefix |-> p]
        next     == getNextPrefix(w)
    IN  CASE n.ns = NoNamespace -> found(NoPrefix)
          [] n.ns # NoNamespace /\ w.context.prefixMap[n.prefix] = n.ns -> found(n.prefix)
          [] OTHER ->
                IF n.prefix # NoPrefix
                THEN declaring(w, n.prefix, n.ns)
                ELSE IF isSetNamespaceURI(w.context.prefixMap, n.ns)
                THEN found(getPrefix(w, n.ns))
                ELSE declaring([w EXCEPT !.current = next], Generated[next], n.ns)

-----------------------------------------------------------------------------
(* The bounds and the trees *)

links == getLastStoredLinks(writer.context)

HasRoom(names) == Len(links) + Len(tag.printed) + names <= MaxTag

(* The generated prefixes that are left suffice for the names of S. *)
HasPrefixes(S) ==
    LET unbound == {n \in S : n.prefix = NoPrefix /\ n.ns # NoNamespace
                              /\ ~isSetNamespaceURI(prefixMap, n.ns)}
    IN  Cardinality(unbound) <= Cardinality(Free(writer))

(* The prefixes this start tag has declared or printed. *)
Used == {l.prefix : l \in Range(links)} \cup {p.prefix : p \in Range(tag.printed)}

(* Trees whose hints agree: a start tag does not ask for one prefix with   *)
(* two URIs.  Those a parser builds are such, and those built from names   *)
(* without hints.                                                          *)
Agrees(n) == n.prefix = NoPrefix \/ prefixMap[n.prefix] = n.ns \/ n.prefix \notin Used

-----------------------------------------------------------------------------
(* Contents::serialize, in the order of its statements *)

(* Mutant: the default namespace stays for an element without a namespace. *)
beginUncleared(n) ==
    /\ pc = "content"
    /\ Len(writer.context.rememberedPositions) + 2 <= MaxRemembered
    /\ Free(writer) # {}
    /\ writer' = [writer EXCEPT !.context = Remember(@)]
    /\ tag' = [name |-> n, printed |-> << >>, declared |-> << >>, read |-> << >>]
    /\ pc' = "namespaces"
    /\ UNCHANGED reader

(* An element without a namespace must have the empty default namespace. *)
beginElement(n) ==
    /\ pc = "content"
    /\ Len(writer.context.rememberedPositions) + 2 <= MaxRemembered
    /\ Free(writer) # {}
    /\ LET c == Remember(writer.context)
       IN  writer' = [writer EXCEPT !.context =
                         IF n.ns = NoNamespace /\ c.prefixMap[NoPrefix] # NoNamespace
                         THEN AddNamespace(c, NoPrefix, NoNamespace, TRUE)
                         ELSE c]
    /\ tag' = [name |-> n, printed |-> << >>, declared |-> << >>, read |-> << >>]
    /\ pc' = "namespaces"
    /\ UNCHANGED reader

(* An attribute that is a namespace declaration.  Attributes have different *)
(* names; that of the default namespace is passed over when it is cleared.  *)
addNamespaceAttr(p, ns) ==
    /\ pc = "namespaces"
    /\ p \notin Used
    /\ p = NoPrefix \/ ns # NoNamespace
    /\ ~(p = NoPrefix /\ tag.name.ns = NoNamespace)
    /\ p # NoPrefix /\ p = tag.name.prefix => ns = tag.name.ns
    /\ HasRoom(2)
    /\ writer' = [writer EXCEPT !.context = AddNamespace(@, p, ns, TRUE)]
    /\ Free(writer') # {}
    /\ UNCHANGED <<reader, pc, tag>>

(* Printing a name after what r has printed. *)
print(r, use, n) ==
    LET q == cprintQName(r.writer, n)
    IN  [writer  |-> [context |-> q.context, current |-> q.current],
         printed |-> Append(r.printed, [use |-> use, ns |-> n.ns, prefix |-> q.prefix])]

before == [writer |-> writer, printed |-> tag.printed]

after(r) ==
    /\ writer' = r.writer
    /\ tag' = [tag EXCEPT !.printed = r.printed]

printElement ==
    /\ pc = "namespaces"
    /\ after(print(before, "element", tag.name))
    /\ pc' = "names"
    /\ UNCHANGED reader

(* xsi:type and the name of the type, first of the attributes.  C++ leaves *)
(* open which of the two is evaluated first.                               *)
printType(ns) ==
    LET xsi_type(r) == print(r, "attribute", unhinted(Xsi))
        type(r)     == print(r, "type", unhinted(ns))
    IN  /\ pc = "names"
        /\ Len(tag.printed) = 1
        /\ HasRoom(2)
        /\ HasPrefixes({unhinted(Xsi), unhinted(ns)})
        /\ after(type(xsi_type(before))) \/ after(xsi_type(type(before)))
        /\ UNCHANGED <<reader, pc>>

printAttr(n) ==
    /\ pc = "names"
    /\ Agrees(n)
    /\ HasRoom(1)
    /\ HasPrefixes({n})
    /\ after(print(before, "attribute", n))
    /\ UNCHANGED <<reader, pc>>

(* The URI the parser finds for a name: getQName, and nsSplit for a type. *)
getQName(c, p) ==
    IF p.prefix = NoPrefix /\ p.use = "attribute" THEN NoNamespace ELSE c.prefixMap[p.prefix]

(* startElementNs: the declarations, then the names. *)
declared(c) == declaredUpTo(c, links)[Len(links)]

readTag ==
    [tag EXCEPT !.declared = links,
                !.read = [i \in DOMAIN tag.printed |-> getQName(declared(reader), tag.printed[i])]]

(* Outside the root there is nothing to come. *)
After(c) == IF Len(c.rememberedPositions) = 2 THEN "end" ELSE "content"

(* Mutant: serialize does not restore after an empty element. *)
endEmptyUnrestored ==
    /\ pc = "names"
    /\ writer' = writer
    /\ reader' = Restore(Remember(declared(reader)))
    /\ tag' = readTag
    /\ pc' = After(reader')

(* printNewNS, "/>" and restore.  The parser is called for the start and   *)
(* for the end.                                                            *)
endEmptyElement ==
    /\ pc = "names"
    /\ writer' = [writer EXCEPT !.context = Restore(@)]
    /\ reader' = Restore(Remember(declared(reader)))
    /\ tag' = readTag
    /\ pc' = After(reader')

(* printNewNS, ">" and the remember of serializeElems. *)
beginElems ==
    /\ pc = "names"
    /\ writer' = [writer EXCEPT !.context = Remember(@)]
    /\ reader' = Remember(declared(reader))
    /\ tag' = readTag
    /\ pc' = "content"

(* The end of serializeElems and of serialize, and endElementNs. *)
endElement ==
    /\ pc = "content"
    /\ Len(writer.context.rememberedPositions) > 2
    /\ writer' = [writer EXCEPT !.context = Restore(Restore(@))]
    /\ reader' = Restore(reader)
    /\ pc' = After(reader')
    /\ UNCHANGED tag

-----------------------------------------------------------------------------

NewWriter == [context |-> NewContext, current |-> 0]

NoTag == [name |-> unhinted(NoNamespace), printed |-> << >>, declared |-> << >>, read |-> << >>]

(* Another document: a new writer, and the same parser. *)
serializeDocument ==
    /\ pc = "end"
    /\ writer' = NewWriter
    /\ tag' = NoTag
    /\ pc' = "content"
    /\ UNCHANGED reader

Init ==
    /\ writer = NewWriter
    /\ reader = NewContext
    /\ pc = "content"
    /\ tag = NoTag

Next ==
    \/ serializeDocument
    \/ \E n \in QName : beginElement(n) \/ printAttr(n)
    \/ \E p \in Prefix, ns \in Namespace : addNamespaceAttr(p, ns)
    \/ printElement
    \/ \E ns \in Namespace : printType(ns)
    \/ endEmptyElement
    \/ beginElems
    \/ endElement

Spec == Init /\ [][Next]_vars

-----------------------------------------------------------------------------
(* Properties *)

(* Between tags the writer and the parser agree on what every prefix means: *)
(* the declarations printed with a start tag are the changes the writer     *)
(* made, however hints, generated prefixes and cleared defaults mixed, and  *)
(* each undoes an element's at the same time although the writer remembers  *)
(* two positions for an element and the parser one.                         *)
ScopesAgree == pc \in {"content", "end"} => Reads(prefixMap) = Reads(reader.prefixMap)

(* The names of a start tag are read with the namespaces they were written   *)
(* with, although the names came before the declarations.  Two names are not *)
(* asked of the writer: an attribute whose namespace is the default one is   *)
(* printed without a prefix, and a type without a namespace is read in the   *)
(* default one.                                                              *)
NamesResolve ==
    \A i \in DOMAIN tag.read :
        LET p == tag.printed[i]
        IN  \/ tag.read[i] = p.ns
            \/ p.use = "attribute" /\ p.prefix = NoPrefix
            \/ p.use = "type" /\ p.ns = NoNamespace

(* What a start tag declares is well-formed: each prefix once, and none but *)
(* the empty one with the empty URI, which a context that was restored      *)
(* binds prefixes to.                                                       *)
DeclarationsAreLegal ==
    \A i, j \in DOMAIN tag.declared :
        /\ tag.declared[i].prefix = tag.declared[j].prefix => i = j
        /\ tag.declared[i].ns = NoNamespace => tag.declared[i].prefix = NoPrefix
=============================================================================
