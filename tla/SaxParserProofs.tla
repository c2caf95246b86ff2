--------------------------- MODULE SaxParserProofs ---------------------------
(***************************************************************************)
(* Theorems about SaxParser: the parser knows where in the document it is, *)
(* and what it builds is what the document says.                           *)
(***************************************************************************)
EXTENDS SaxParserGrammars, SharedLemmas, FiniteSetTheorems

-----------------------------------------------------------------------------
(* The inductive invariant *)

Element == [tag : Tags, scope : PrefixMap, text : {<< >>} \cup {<<t>> : t \in Text}]

(* Elements by path: below elements, and numbered one after another. *)
IsDocument(nodes) ==
    /\ nodes = [p \in DOMAIN nodes |-> nodes[p]]
    /\ IsFiniteSet(DOMAIN nodes)
    /\ \A p \in DOMAIN nodes :
        /\ p \in Seq(Nat) /\ p # << >>
        /\ Front(p) \in DOMAIN nodes \cup {<< >>}
        /\ Last(p) \in 1 .. Cardinality(Child(Front(p), nodes))
        /\ nodes[p] \in Element

(* A path of elements. *)
IsOpen(path, nodes) ==
    /\ path \in Seq(Nat)
    /\ \A i \in 1 .. Len(path) : SubSeq(path, 1, i) \in DOMAIN nodes

(* What the log names is in the map, whatever a parse that threw has left. *)
LogIsSet(c) ==
    \A i \in 1 .. Len(c.restoreLinks) : isSetPrefix(c.prefixMap, c.restoreLinks[i].prefix)

(* The context has a position for each open element, with the scope of the *)
(* element, and no declarations that belong to none.                       *)
Follows(c, path, scopeOf) ==
    /\ Len(c.rememberedPositions) = 2 + Len(path)
    /\ LastPosition(c) = Len(c.restoreLinks)
    /\ \A i \in 0 .. Len(path) : ScopeAt(c, i + 2) = Reads(scopeOf[i])
    /\ Reads(c.prefixMap) = Reads(scopeOf[Len(path)])

scopes == [i \in 0 .. Len(open) |-> scope(SubSeq(open, 1, i))]

(* A document was read since the object was passed, and nothing has failed. *)
Built == DOMAIN document # {} /\ (phase = "parsing" \/ ~dirty)

Declaring ==
    /\ WellFormed(xmlContext) /\ LogIsSet(xmlContext)
    /\ phase = "parsing" => Len(xmlContext.rememberedPositions) >= 2 + Len(open)
    /\ ~dirty => Follows(xmlContext, open, scopes)

(* Until its root is read a document has built nothing. *)
Building ==
    /\ phase = "parsing" /\ DOMAIN document = {} => tree = given
    /\ Built => DOMAIN tree = DOMAIN document \cup {<< >>}

IInv ==
    /\ TypeOK
    /\ IsDocument(document) /\ IsOpen(open, document)
    /\ Declaring
    /\ StackIsPath
    /\ phase = "idle" /\ ~dirty => open = << >>
    /\ Building
    /\ TreeIsDocument /\ TypesAreResolved

-----------------------------------------------------------------------------
(* Paths *)

LEMMA WholePath ==
    ASSUME NEW p \in Seq(Nat)
    PROVE  SubSeq(p, 1, Len(p)) = p
<1>1. Len(p) \in 0 .. Len(p)
    BY LenProperties
<1>2. /\ SubSeq(p, 1, Len(p)) \in Seq(Nat)
      /\ Len(SubSeq(p, 1, Len(p))) = Len(p)
      /\ \A i \in 1 .. Len(p) : SubSeq(p, 1, Len(p))[i] = p[i]
    BY <1>1, PrefixProperties
<1> QED BY <1>2, SeqEqual

LEMMA PathExtended ==
    ASSUME NEW p \in Seq(Nat), NEW n \in Nat
    PROVE  LET q == Append(p, n)
           IN  /\ q \in Seq(Nat) /\ q # << >>
               /\ Len(q) = Len(p) + 1
               /\ Front(q) = p /\ Last(q) = n
               /\ \A i \in 0 .. Len(p) : SubSeq(q, 1, i) = SubSeq(p, 1, i)
               /\ SubSeq(q, 1, Len(p) + 1) = q
<1> DEFINE q == Append(p, n)
<1>1. /\ q \in Seq(Nat) /\ q # << >>
      /\ Len(p) \in Nat
      /\ Len(q) = Len(p) + 1
      /\ \A i \in 1 .. Len(p) : q[i] = p[i]
      /\ q[Len(p) + 1] = n
    BY AppendProperties, LenProperties
<1> HIDE DEF q
<1>2. Last(q) = n
    BY <1>1 DEF Last
<1>3. Front(q) = p
    <2>1. /\ Front(q) \in Seq(Nat)
          /\ Len(Front(q)) = Len(q) - 1
          /\ \A i \in 1 .. Len(q) - 1 : Front(q)[i] = q[i]
        BY <1>1, FrontProperties
    <2>2. Len(Front(q)) = Len(p) /\ \A i \in 1 .. Len(p) : Front(q)[i] = p[i]
        BY <1>1, <2>1
    <2> QED BY <2>1, <2>2, SeqEqual
<1>4. ASSUME NEW i \in 0 .. Len(p)
      PROVE  SubSeq(q, 1, i) = SubSeq(p, 1, i)
    <2>1. i \in 0 .. Len(q) /\ \A j \in 1 .. i : j \in 1 .. Len(p)
        BY <1>1
    <2>2. /\ SubSeq(q, 1, i) \in Seq(Nat) /\ Len(SubSeq(q, 1, i)) = i
          /\ \A j \in 1 .. i : SubSeq(q, 1, i)[j] = q[j]
        BY <1>1, <2>1, PrefixProperties
    <2>3. /\ SubSeq(p, 1, i) \in Seq(Nat) /\ Len(SubSeq(p, 1, i)) = i
          /\ \A j \in 1 .. i : SubSeq(p, 1, i)[j] = p[j]
        BY PrefixProperties
    <2>4. \A j \in 1 .. i : SubSeq(q, 1, i)[j] = SubSeq(p, 1, i)[j]
        BY <1>1, <2>1, <2>2, <2>3
    <2> QED BY <2>2, <2>3, <2>4, SeqEqual
<1>5. SubSeq(q, 1, Len(p) + 1) = q
    BY <1>1, WholePath
<1> QED BY <1>1, <1>2, <1>3, <1>4, <1>5 DEF q

LEMMA PathShortened ==
    ASSUME NEW p \in Seq(Nat), p # << >>
    PROVE  /\ Front(p) \in Seq(Nat)
           /\ Len(Front(p)) \in Nat
           /\ Len(p) = Len(Front(p)) + 1
           /\ \A i \in 0 .. Len(Front(p)) : SubSeq(Front(p), 1, i) = SubSeq(p, 1, i)
<1> DEFINE f == Front(p)
<1>1. /\ f \in Seq(Nat)
      /\ Len(f) = Len(p) - 1
      /\ \A i \in 1 .. Len(p) - 1 : f[i] = p[i]
      /\ Len(f) \in Nat /\ Len(p) \in Nat
    BY FrontProperties, LenProperties
<1> HIDE DEF f
<1>2. ASSUME NEW i \in 0 .. Len(f)
      PROVE  SubSeq(f, 1, i) = SubSeq(p, 1, i)
    <2>1. i \in 0 .. Len(p) /\ \A j \in 1 .. i : j \in 1 .. Len(p) - 1
        BY <1>1
    <2>2. /\ SubSeq(f, 1, i) \in Seq(Nat) /\ Len(SubSeq(f, 1, i)) = i
          /\ \A j \in 1 .. i : SubSeq(f, 1, i)[j] = f[j]
        BY <1>1, PrefixProperties
    <2>3. /\ SubSeq(p, 1, i) \in Seq(Nat) /\ Len(SubSeq(p, 1, i)) = i
          /\ \A j \in 1 .. i : SubSeq(p, 1, i)[j] = p[j]
        BY <2>1, PrefixProperties
    <2>4. \A j \in 1 .. i : SubSeq(f, 1, i)[j] = SubSeq(p, 1, i)[j]
        BY <1>1, <2>1, <2>2, <2>3
    <2> QED BY <2>2, <2>3, <2>4, SeqEqual
<1> QED BY <1>1, <1>2 DEF f

(* The path of the next element is new. *)
LEMMA ChildIsNew ==
    ASSUME NEW nodes, IsFiniteSet(DOMAIN nodes),
           NEW p \in Seq(Nat), NEW q, q = NextChild(p, nodes),
           \A r \in DOMAIN nodes : r # << >> => Last(r) \in 1 .. Cardinality(Child(Front(r), nodes))
    PROVE  /\ q \in Seq(Nat) /\ q # << >> /\ q \notin DOMAIN nodes
           /\ Front(q) = p
           /\ Last(q) = Cardinality(Child(p, nodes)) + 1
           /\ Cardinality(Child(p, nodes)) \in Nat
<1> DEFINE n == Cardinality(Child(p, nodes))
<1>1. n \in Nat
    BY FS_Subset, FS_CardinalityType DEF Child
<1>2. q = Append(p, n + 1) /\ n + 1 \in Nat
    BY <1>1 DEF NextChild
<1> HIDE DEF n
<1>3. q \in Seq(Nat) /\ q # << >> /\ Front(q) = p /\ Last(q) = n + 1
    BY <1>2, PathExtended
<1>4. q \notin DOMAIN nodes
    BY <1>1, <1>3 DEF n
<1> QED BY <1>1, <1>3, <1>4 DEF n

(* One more element is another child of its parent, and of no other. *)
LEMMA ChildAdded ==
    ASSUME NEW nodes, IsFiniteSet(DOMAIN nodes), NEW more, NEW q, q # << >>, q \notin DOMAIN nodes,
           DOMAIN more = DOMAIN nodes \cup {q}
    PROVE  /\ IsFiniteSet(DOMAIN more)
           /\ \A p : p # Front(q) => Child(p, more) = Child(p, nodes)
           /\ Cardinality(Child(Front(q), more)) = Cardinality(Child(Front(q), nodes)) + 1
<1>1. IsFiniteSet(DOMAIN more)
    BY FS_AddElement
<1>2. \A p : p # Front(q) => Child(p, more) = Child(p, nodes)
    BY DEF Child
<1>3. Child(Front(q), more) = Child(Front(q), nodes) \cup {q}
    BY DEF Child
<1>4. IsFiniteSet(Child(Front(q), nodes)) /\ q \notin Child(Front(q), nodes)
    BY FS_Subset DEF Child
<1> QED BY <1>1, <1>2, <1>3, <1>4, FS_AddElement

-----------------------------------------------------------------------------
(* The context *)

(* The declarations of a start tag. *)
Once(ls) == \A i, j \in DOMAIN ls : ls[i].prefix = ls[j].prefix => i = j

LEMMA WithinFinds ==
    ASSUME NEW s, NEW ls \in Seq(Link), Once(ls)
    PROVE  /\ \A i \in 1 .. Len(ls) : within(s, ls)[ls[i].prefix] = ls[i].ns
           /\ \A p \in Prefix : (\A i \in 1 .. Len(ls) : ls[i].prefix # p) => within(s, ls)[p] = s[p]
<1> DEFINE of(p) == {l \in Range(ls) : l.prefix = p}
<1>1. DOMAIN ls = 1 .. Len(ls) /\ Range(ls) = {ls[i] : i \in 1 .. Len(ls)}
    BY LenProperties DEF Range
<1>2. \A i \in 1 .. Len(ls) : ls[i].prefix \in Prefix
    <2>1. \A i \in 1 .. Len(ls) : ls[i] \in Link
        BY ElementOfSeq
    <2> QED BY <2>1 DEF Link
<1>3. \A p \in Prefix :
          within(s, ls)[p] = IF of(p) = {} THEN s[p] ELSE (CHOOSE l \in of(p) : TRUE).ns
    BY DEF within
<1>4. ASSUME NEW i \in 1 .. Len(ls)
      PROVE  of(ls[i].prefix) = {ls[i]}
    BY <1>1 DEF Once
<1>5. \A p : (\A i \in 1 .. Len(ls) : ls[i].prefix # p) => of(p) = {}
    BY <1>1
<1> HIDE DEF of
<1> QED BY <1>2, <1>3, <1>4, <1>5

LEMMA WithinType ==
    ASSUME NEW s \in PrefixMap, NEW ls \in Seq(Link), Once(ls)
    PROVE  within(s, ls) \in PrefixMap
<1>1. ASSUME NEW p \in Prefix
      PROVE  within(s, ls)[p] \in Namespace \cup {Unset}
    <2>1. \A i \in 1 .. Len(ls) : ls[i].ns \in Namespace
        <3>1. \A i \in 1 .. Len(ls) : ls[i] \in Link
            BY ElementOfSeq
        <3> QED BY <3>1 DEF Link
    <2>2. s[p] \in Namespace \cup {Unset}
        BY DEF PrefixMap
    <2>3. CASE \E i \in 1 .. Len(ls) : ls[i].prefix = p
        BY <2>1, <2>3, WithinFinds
    <2>4. CASE \A i \in 1 .. Len(ls) : ls[i].prefix # p
        BY <2>2, <2>4, WithinFinds
    <2> QED BY <2>3, <2>4
<1>2. DOMAIN within(s, ls) = Prefix /\ within(s, ls) = [p \in Prefix |-> within(s, ls)[p]]
    BY DEF within
<1> QED BY <1>1, <1>2 DEF PrefixMap

(* Declarations on top of what reads the same read the same. *)
LEMMA WithinReads ==
    ASSUME NEW s, NEW t, NEW ls \in Seq(Link), Once(ls), Reads(s) = Reads(t)
    PROVE  Reads(within(s, ls)) = Reads(within(t, ls))
<1>1. ASSUME NEW p \in Prefix
      PROVE  Reads(within(s, ls))[p] = Reads(within(t, ls))[p]
    <2>1. CASE \E i \in 1 .. Len(ls) : ls[i].prefix = p
        <3>1. within(s, ls)[p] = within(t, ls)[p]
            BY <2>1, WithinFinds
        <3> QED BY <3>1 DEF Reads, isSetPrefix
    <2>2. CASE \A i \in 1 .. Len(ls) : ls[i].prefix # p
        <3>1. within(s, ls)[p] = s[p] /\ within(t, ls)[p] = t[p]
            BY <2>2, WithinFinds
        <3>2. Reads(s)[p] = Reads(t)[p]
            OBVIOUS
        <3> QED BY <3>1, <3>2 DEF Reads, isSetPrefix
    <2> QED BY <2>1, <2>2
<1> QED BY <1>1 DEF Reads

(* The context once the declarations are in it. *)
LEMMA TagDeclared ==
    ASSUME NEW c, WellFormed(c), LogIsSet(c), NEW ls \in Seq(Link), Once(ls)
    PROVE  LET d == declaredUpTo(c, ls)[Len(ls)]
           IN  /\ WellFormed(d) /\ LogIsSet(d)
               /\ SameScopes(c, d)
               /\ LogsMore(c, d, ls, Len(ls))
               /\ d.prefixMap = within(c.prefixMap, ls)
<1> DEFINE d   == declaredUpTo(c, ls)[Len(ls)]
           map == within(c.prefixMap, ls)
           len == Len(c.restoreLinks)
<1>1. Len(ls) \in Nat /\ \A i \in 1 .. Len(ls) : ls[i] \in Link
    BY LenProperties, ElementOfSeq
<1>2. len \in Nat /\ c.prefixMap \in PrefixMap /\ \A i \in 1 .. len : c.restoreLinks[i] \in Link
    BY WellFormedPositions, ElementOfSeq DEF Context
<1>3. map \in PrefixMap
    BY <1>2, WithinType
<1>4. /\ \A i \in 1 .. Len(ls) : ls[i].ns = map[ls[i].prefix]
      /\ \A p \in Prefix : (\A i \in 1 .. Len(ls) : ls[i].prefix # p) => map[p] = c.prefixMap[p]
    BY WithinFinds
<1> HIDE DEF map
<1>5. /\ WellFormed(d)
      /\ SameScopes(c, d)
      /\ LogsMore(c, d, ls, Len(ls))
      /\ \A p \in Prefix :
             d.prefixMap[p] = IF \E i \in 1 .. Len(ls) : ls[i].prefix = p THEN map[p] ELSE c.prefixMap[p]
    BY <1>4, DeclaredBinds
<1> HIDE DEF d
<1>6. d.prefixMap = map
    <2>1. \A p \in Prefix : d.prefixMap[p] = map[p]
        BY <1>4, <1>5
    <2>2. d.prefixMap \in PrefixMap
        BY <1>5, WellFormedPositions DEF Context
    <2> QED BY <1>3, <2>1, <2>2 DEF PrefixMap
<1>7. LogIsSet(d)
    <2>1. /\ Len(d.restoreLinks) = len + Len(ls)
          /\ \A i \in 1 .. len : d.restoreLinks[i] = c.restoreLinks[i]
          /\ \A i \in 1 .. Len(ls) : d.restoreLinks[len + i].prefix = ls[i].prefix
        BY <1>5 DEF LogsMore
    <2>2. \A i \in 1 .. Len(ls) : isSetPrefix(map, ls[i].prefix)
        BY <1>1, <1>4, NSMapAssumption DEF isSetPrefix, Link
    <2>3. \A p \in Prefix : isSetPrefix(c.prefixMap, p) => isSetPrefix(map, p)
        <3> TAKE p \in Prefix
        <3>1. CASE \E i \in 1 .. Len(ls) : ls[i].prefix = p
            BY <2>2, <3>1
        <3>2. CASE \A i \in 1 .. Len(ls) : ls[i].prefix # p
            BY <1>4, <3>2 DEF isSetPrefix
        <3> QED BY <3>1, <3>2
    <2>4. ASSUME NEW i \in 1 .. Len(d.restoreLinks)
          PROVE  isSetPrefix(map, d.restoreLinks[i].prefix)
        <3>1. CASE i <= len
            <4>1. i \in 1 .. len
                BY <1>2, <3>1
            <4>2. c.restoreLinks[i].prefix \in Prefix /\ isSetPrefix(c.prefixMap, c.restoreLinks[i].prefix)
                BY <1>2, <4>1 DEF LogIsSet, Link
            <4> QED BY <2>1, <2>3, <4>1, <4>2
        <3>2. CASE ~(i <= len)
            <4>1. i - len \in 1 .. Len(ls) /\ len + (i - len) = i
                BY <1>1, <1>2, <2>1, <3>2
            <4> QED BY <2>1, <2>2, <4>1
        <3> QED BY <3>1, <3>2
    <2> QED BY <1>6, <2>4 DEF LogIsSet
<1> QED BY <1>5, <1>6, <1>7 DEF d, map

(* The links that a start tag prints for its declarations are links, and if *)
(* nothing was left in the log they are its own.                            *)
LEMMA LinksOfTag ==
    ASSUME NEW c, WellFormed(c), LogIsSet(c), NEW ls \in Seq(Link), Once(ls)
    PROVE  LET d == declaredUpTo(c, ls)[Len(ls)]
           IN  /\ Range(getLastStoredLinks(d)) \subseteq Link
               /\ LastPosition(c) = Len(c.restoreLinks) => Range(getLastStoredLinks(d)) = Range(ls)
<1> DEFINE d    == declaredUpTo(c, ls)[Len(ls)]
           last == LastPosition(d)
           len  == Len(d.restoreLinks)
           link(p) == [prefix |-> p, ns |-> d.prefixMap[p]]
<1>1. /\ WellFormed(d) /\ LogIsSet(d)
      /\ SameScopes(c, d)
      /\ LogsMore(c, d, ls, Len(ls))
      /\ d.prefixMap = within(c.prefixMap, ls)
    BY TagDeclared
<1> HIDE DEF d
<1>2. /\ len \in Nat /\ last \in 0 .. len
      /\ d.prefixMap \in PrefixMap
      /\ \A i \in 1 .. len : d.restoreLinks[i] \in Link
    <2>1. /\ d \in Context /\ d.restoreLinks \in Seq(Link)
          /\ Len(d.rememberedPositions) \in Nat /\ Len(d.rememberedPositions) >= 2
          /\ len \in Nat
          /\ \A i \in 1 .. Len(d.rememberedPositions) : d.rememberedPositions[i] \in 0 .. len
          /\ last = d.rememberedPositions[Len(d.rememberedPositions)]
        BY <1>1, WellFormedPositions
    <2>2. last \in 0 .. len
        BY <2>1
    <2>3. d.prefixMap \in PrefixMap
        BY <2>1 DEF Context
    <2> QED BY <2>1, <2>2, <2>3, ElementOfSeq
<1>3. \A i \in 1 .. len : link(d.restoreLinks[i].prefix) \in Link
    <2> TAKE i \in 1 .. len
    <2>1. d.restoreLinks[i].prefix \in Prefix
        BY <1>2 DEF Link
    <2>2. d.prefixMap[d.restoreLinks[i].prefix] \in Namespace
        BY <1>1, <1>2, <2>1 DEF LogIsSet, isSetPrefix, PrefixMap
    <2> QED BY <2>1, <2>2 DEF Link
<1>4. Range(getLastStoredLinks(d)) = {link(d.restoreLinks[last + i].prefix) : i \in 1 .. len - last}
    BY DEF getLastStoredLinks, Range
<1>5. Range(getLastStoredLinks(d)) \subseteq Link
    <2>1. \A i \in 1 .. len - last : last + i \in 1 .. len
        BY <1>2
    <2> HIDE DEF link, last, len
    <2> QED BY <1>3, <1>4, <2>1
<1>6. ASSUME LastPosition(c) = Len(c.restoreLinks)
      PROVE  Range(getLastStoredLinks(d)) = Range(ls)
    <2>1. Len(ls) \in Nat /\ Range(ls) = {ls[i] : i \in 1 .. Len(ls)}
        BY LenProperties DEF Range
    <2>2. last = Len(c.restoreLinks)
        BY <1>1, <1>6 DEF SameScopes, LastPosition
    <2>3. /\ len = last + Len(ls)
          /\ \A i \in 1 .. Len(ls) : d.restoreLinks[last + i].prefix = ls[i].prefix
        BY <1>1, <2>2 DEF LogsMore
    <2>4. len - last = Len(ls)
        BY <1>2, <2>1, <2>3
    <2>5. \A i \in 1 .. Len(ls) : link(d.restoreLinks[last + i].prefix) = ls[i]
        <3> TAKE i \in 1 .. Len(ls)
        <3>1. ls[i] \in Link
            BY ElementOfSeq
        <3>2. d.prefixMap[ls[i].prefix] = ls[i].ns
            BY <1>1, WithinFinds
        <3> QED BY <2>3, <3>1, <3>2 DEF Link
    <2> HIDE DEF link, last, len
    <2> QED BY <1>4, <2>1, <2>4, <2>5
<1> QED BY <1>5, <1>6 DEF d

(* An element is opened below one whose scope the context has. *)
LEMMA ElementOpened ==
    ASSUME NEW c, WellFormed(c), LogIsSet(c), NEW ls \in Seq(Link), Once(ls),
           NEW path, Len(path) \in Nat, NEW longer, Len(longer) = Len(path) + 1,
           NEW sc, Follows(c, path, sc),
           NEW more, \A i \in 0 .. Len(path) : more[i] = sc[i],
           more[Len(path) + 1] = within(sc[Len(path)], ls)
    PROVE  Follows(Remember(declaredUpTo(c, ls)[Len(ls)]), longer, more)
<1> DEFINE d == declaredUpTo(c, ls)[Len(ls)]
           e == Remember(d)
           n == Len(path)
           pos == c.rememberedPositions
<1>1. /\ WellFormed(d) /\ LogIsSet(d)
      /\ SameScopes(c, d)
      /\ d.prefixMap = within(c.prefixMap, ls)
    BY TagDeclared
<1>2. /\ Len(pos) = 2 + n
      /\ \A i \in 0 .. n : ScopeAt(c, i + 2) = Reads(sc[i])
      /\ Reads(c.prefixMap) = Reads(sc[n])
    BY DEF Follows
<1> HIDE DEF d
<1>3. /\ WellFormed(e)
      /\ e.prefixMap = d.prefixMap
      /\ e.restoreLinks = d.restoreLinks
      /\ Len(e.rememberedPositions) = Len(d.rememberedPositions) + 1
      /\ e.rememberedPositions[Len(d.rememberedPositions) + 1] = Len(d.restoreLinks)
      /\ \A i \in 1 .. Len(d.rememberedPositions) : ScopeAt(e, i) = ScopeAt(d, i)
      /\ ScopeAt(e, Len(d.rememberedPositions) + 1) = Reads(d.prefixMap)
    BY <1>1, RememberOpens
<1>4. d.rememberedPositions = pos /\ \A i \in 1 .. 2 + n : ScopeAt(d, i) = ScopeAt(c, i)
    BY <1>1, <1>2 DEF SameScopes
<1>5. LastPosition(e) = Len(e.restoreLinks)
    <2>1. LastPosition(e) = e.rememberedPositions[Len(e.rememberedPositions)]
        BY <1>3, WellFormedPositions
    <2> QED BY <1>3, <2>1
<1> HIDE DEF e, n, pos
<1>6. Reads(e.prefixMap) = Reads(more[n + 1])
    <2>1. Reads(within(c.prefixMap, ls)) = Reads(within(sc[n], ls))
        BY <1>2, WithinReads
    <2> QED BY <1>1, <1>3, <2>1 DEF n
<1>7. ASSUME NEW i \in 0 .. n + 1
      PROVE  ScopeAt(e, i + 2) = Reads(more[i])
    <2>1. n \in Nat
        BY DEF n
    <2>2. CASE i = n + 1
        <3>1. i + 2 = Len(d.rememberedPositions) + 1
            BY <1>2, <1>4, <2>1, <2>2
        <3> QED BY <1>3, <1>6, <2>2, <3>1
    <2>3. CASE i # n + 1
        <3>1. i \in 0 .. n /\ i + 2 \in 1 .. 2 + n
            BY <2>1, <2>3
        <3>2. ScopeAt(e, i + 2) = ScopeAt(c, i + 2)
            BY <1>2, <1>3, <1>4, <3>1
        <3> QED BY <1>2, <3>1, <3>2 DEF n
    <2> QED BY <2>2, <2>3
<1>8. Len(longer) = n + 1 /\ Len(e.rememberedPositions) = 2 + (n + 1)
    BY <1>2, <1>3, <1>4 DEF n
<1> QED BY <1>5, <1>6, <1>7, <1>8 DEF Follows, e, d

(* An element is closed. *)
LEMMA ElementClosed ==
    ASSUME NEW c, WellFormed(c),
           NEW path, NEW shorter, Len(shorter) \in Nat, Len(path) = Len(shorter) + 1,
           NEW sc, Follows(c, path, sc),
           NEW less, \A i \in 0 .. Len(shorter) : less[i] = sc[i]
    PROVE  Follows(Restore(c), shorter, less)
<1> DEFINE d == Restore(c)
           n == Len(shorter)
           pos == c.rememberedPositions
<1>1. /\ Len(pos) = n + 3
      /\ \A i \in 0 .. n + 1 : ScopeAt(c, i + 2) = Reads(sc[i])
    BY DEF Follows
<1>2. Len(pos) > 2 /\ Len(pos) - 1 = n + 2
    BY <1>1
<1>3. /\ WellFormed(d)
      /\ Len(d.rememberedPositions) = n + 2
      /\ \A i \in 1 .. n + 2 : d.rememberedPositions[i] = pos[i]
      /\ Len(d.restoreLinks) = pos[n + 2]
      /\ Reads(d.prefixMap) = ScopeAt(c, n + 2)
      /\ \A i \in 1 .. n + 2 : ScopeAt(d, i) = ScopeAt(c, i)
    BY <1>2, RestoreCloses
<1> HIDE DEF d, pos
<1>4. LastPosition(d) = Len(d.restoreLinks)
    <2>1. LastPosition(d) = d.rememberedPositions[Len(d.rememberedPositions)]
        BY <1>3, WellFormedPositions
    <2>2. n + 2 \in 1 .. n + 2
        OBVIOUS
    <2> QED BY <1>3, <2>1, <2>2
<1>5. \A i \in 0 .. n : ScopeAt(d, i + 2) = Reads(less[i])
    <2> TAKE i \in 0 .. n
    <2>1. i + 2 \in 1 .. n + 2 /\ i \in 0 .. n + 1
        OBVIOUS
    <2> QED BY <1>1, <1>3, <2>1
<1>6. Reads(d.prefixMap) = Reads(less[n])
    <2>1. n \in 0 .. n + 1 /\ n \in 0 .. n
        OBVIOUS
    <2> QED BY <1>1, <1>3, <2>1
<1>7. Len(d.rememberedPositions) = 2 + n
    BY <1>3
<1> QED BY <1>4, <1>5, <1>6, <1>7 DEF Follows, d

LEMMA LogStaysSet ==
    ASSUME NEW c, WellFormed(c), LogIsSet(c), Len(c.rememberedPositions) > 2
    PROVE  LogIsSet(Restore(c))
<1> DEFINE d   == Restore(c)
           n   == Len(c.rememberedPositions) - 1
           end == c.rememberedPositions[n]
<1>1. /\ c.restoreLinks \in Seq(Link) /\ Len(c.restoreLinks) \in Nat
      /\ Len(c.rememberedPositions) \in Nat
      /\ \A i \in 1 .. Len(c.rememberedPositions) : c.rememberedPositions[i] \in 0 .. Len(c.restoreLinks)
    BY WellFormedPositions
<1>2. end \in 0 .. Len(c.restoreLinks)
    <2>1. n \in 1 .. Len(c.rememberedPositions)
        BY <1>1
    <2> QED BY <1>1, <2>1
<1>3. d.restoreLinks = SubSeq(c.restoreLinks, 1, end)
    BY DEF Restore
<1>4. Len(d.restoreLinks) = end /\ \A i \in 1 .. end : d.restoreLinks[i] = c.restoreLinks[i]
    BY <1>1, <1>2, <1>3, PrefixProperties
<1>5. \A p \in Prefix : isSetPrefix(c.prefixMap, p) => isSetPrefix(d.prefixMap, p)
    BY RestoreCloses
<1> HIDE DEF d, end
<1>6. ASSUME NEW i \in 1 .. end
      PROVE  isSetPrefix(d.prefixMap, d.restoreLinks[i].prefix)
    <2>1. i \in 1 .. Len(c.restoreLinks)
        BY <1>1, <1>2
    <2>2. c.restoreLinks[i] \in Link
        BY <1>1, <2>1, ElementOfSeq
    <2>3. c.restoreLinks[i].prefix \in Prefix
        BY <2>2 DEF Link
    <2>4. isSetPrefix(c.prefixMap, c.restoreLinks[i].prefix)
        BY <2>1 DEF LogIsSet
    <2> QED BY <1>4, <1>5, <2>3, <2>4
<1> QED BY <1>4, <1>6 DEF LogIsSet, d

LEMMA NewContextFollows ==
    /\ WellFormed(NewContext) /\ LogIsSet(NewContext)
    /\ \A path, sc : Len(path) = 0 /\ sc[0] = OuterScope => Follows(NewContext, path, sc)
<1>1. /\ WellFormed(NewContext)
      /\ Len(NewContext.rememberedPositions) = 2
      /\ LastPosition(NewContext) = Len(NewContext.restoreLinks)
      /\ ScopeAt(NewContext, 2) = [p \in Prefix |-> NoNamespace]
    BY NewContextWellFormed
<1>2. /\ NewContext.prefixMap = OuterScope
      /\ NewContext.restoreLinks = <<[prefix |-> NoPrefix, ns |-> NoNamespace]>>
    BY NewContextValue DEF OuterScope
<1>3. Reads(OuterScope) = [p \in Prefix |-> NoNamespace]
    BY NSMapAssumption DEF Reads, isSetPrefix, OuterScope, EmptyPrefixMap
<1>4. LogIsSet(NewContext)
    <2>1. isSetPrefix(NewContext.prefixMap, NoPrefix)
        BY <1>2, NSMapAssumption DEF isSetPrefix, OuterScope, EmptyPrefixMap
    <2>2. /\ Len(NewContext.restoreLinks) = 1
          /\ NewContext.restoreLinks[1].prefix = NoPrefix
        BY <1>2
    <2> QED BY <2>1, <2>2 DEF LogIsSet
<1>5. ASSUME NEW path, Len(path) = 0, NEW sc, sc[0] = OuterScope
      PROVE  Follows(NewContext, path, sc)
    <2>1. \A i \in 0 .. 0 : i = 0
        OBVIOUS
    <2> QED BY <1>1, <1>2, <1>3, <1>5, <2>1 DEF Follows
<1> QED BY <1>1, <1>4, <1>5

-----------------------------------------------------------------------------
(* Types *)

LEMMA Created ==
    /\ \A t \in TypeName : createByName(Types, t) \in SchemaType \cup {NULL}
    /\ \A n \in ElementName : createDocumentByName(Types, n) \in SchemaType \cup {NULL}
    /\ \A n \in ElementName, st \in SchemaType :
           createSubObject(Types, st, n) \in SchemaType \cup {NULL}
<1>1. /\ Types.typeCreators \in [TypeName -> SchemaType \cup {NULL}]
      /\ Types.documentTypeCreators \in [ElementName -> SchemaType \cup {NULL}]
    BY SaxParserAssumption DEF Registry, TypeMap
<1>2. \A t \in TypeName : createByName(Types, t) \in SchemaType \cup {NULL}
    BY <1>1 DEF createByName
<1>3. \A n \in ElementName : createDocumentByName(Types, n) \in SchemaType \cup {NULL}
    BY <1>1 DEF createDocumentByName
<1>4. \A st \in SchemaType, n \in ElementName : st.elements[n] \in TypeName \cup {NULL}
    BY SchemaTypesAssumption
<1>5. ASSUME NEW n \in ElementName, NEW st \in SchemaType
      PROVE  createSubObject(Types, st, n) \in SchemaType \cup {NULL}
    <2>1. CASE st.elements[n] # NULL
        BY <1>2, <1>4, <2>1 DEF createSubObject
    <2>2. CASE st.elements[n] = NULL /\ createDocumentByName(Types, n) = NULL
        BY <2>2, SchemaTypesAssumption DEF createSubObject
    <2>3. CASE st.elements[n] = NULL /\ createDocumentByName(Types, n) # NULL
        <3>1. createDocumentByName(Types, n).elements[n] \in TypeName
            BY <1>3, <1>4, <2>3, DocumentsHaveRoots
        <3> QED BY <1>2, <2>3, <3>1 DEF createSubObject
    <2> QED BY <2>1, <2>2, <2>3
<1> QED BY <1>2, <1>3, <1>5

-----------------------------------------------------------------------------
(* Trees and documents *)

LEMMA ObjectIsTree ==
    ASSUME NEW type \in SchemaType \cup {NULL}
    PROVE  /\ IsTree(ObjectOf(type))
           /\ DOMAIN ObjectOf(type) = {<< >>}
           /\ ObjectOf(type)[<< >>].type = type
           /\ Child(<< >>, ObjectOf(type)) = {}
<1> DEFINE t == ObjectOf(type)
           n == Node(NULL, NoPrefix, type, {}, {})
<1>1. t = [p \in {<< >>} |-> n]
    BY DEF ObjectOf
<1>2. IsNode(n, << >>)
    BY NSMapAssumption, EmptySeq DEF IsNode, Node
<1>3. n.type = type
    BY DEF Node
<1> HIDE DEF n, t
<1>4. Child(<< >>, t) = {}
    BY <1>1 DEF Child
<1>5. Cardinality({}) = 0
    BY FS_EmptySet
<1>6. /\ DOMAIN t = {<< >>} /\ t = [p \in DOMAIN t |-> t[p]]
      /\ t[<< >>] = n
    BY <1>1
<1>7. Cardinality(Child(<< >>, t)) # 1
    <2>1. Cardinality(Child(<< >>, t)) = 0
        BY <1>4, <1>5, Zenon
    <2> QED BY <2>1
<1>8. \A p \in DOMAIN t : IsNode(t[p], p)
    BY <1>2, <1>6
<1>9. IsTree(t)
    BY <1>6, <1>7, <1>8 DEF IsTree
<1> QED BY <1>3, <1>4, <1>6, <1>9 DEF t

LEMMA TreeGrows ==
    ASSUME NEW nodes, IsTree(nodes), IsFiniteSet(DOMAIN nodes),
           NEW p \in Seq(Nat), NEW q, q = NextChild(p, nodes), q # << >>, q \notin DOMAIN nodes,
           Front(q) = p,
           NEW e, IsNode(e, q)
    PROVE  IsTree(withNode(nodes, q, e))
<1> DEFINE more == withNode(nodes, q, e)
<1>1. /\ DOMAIN more = DOMAIN nodes \cup {q}
      /\ more = [r \in DOMAIN more |-> more[r]]
      /\ more[q] = e
      /\ \A r \in DOMAIN nodes : more[r] = nodes[r]
    BY DEF withNode
<1> HIDE DEF more
<1>2. << >> \in DOMAIN more /\ \A r \in DOMAIN more : IsNode(more[r], r)
    BY <1>1 DEF IsTree
<1>3. ASSUME Cardinality(Child(<< >>, more)) = 1
      PROVE  <<1>> \in DOMAIN more
    <2>1. /\ \A r : r # Front(q) => Child(r, more) = Child(r, nodes)
          /\ Cardinality(Child(Front(q), more)) = Cardinality(Child(Front(q), nodes)) + 1
        BY <1>1, ChildAdded
    <2>2. CASE p # << >>
        BY <1>1, <1>3, <2>1, <2>2 DEF IsTree
    <2>3. CASE p = << >>
        <3>1. Cardinality(Child(<< >>, nodes)) \in Nat
            BY FS_Subset, FS_CardinalityType DEF Child
        <3>2. Cardinality(Child(<< >>, nodes)) = 0
            BY <1>3, <2>1, <2>3, <3>1
        <3>3. q = Append(<< >>, 1)
            BY <2>3, <3>2 DEF NextChild
        <3>4. Append(<< >>, 1) = <<1>>
            OBVIOUS
        <3> QED BY <1>1, <3>3, <3>4
    <2> QED BY <2>2, <2>3
<1> QED BY <1>1, <1>2, <1>3 DEF IsTree, more

LEMMA DocumentGrows ==
    ASSUME NEW doc, IsDocument(doc), NEW path, IsOpen(path, doc),
           NEW q, q = NextChild(path, doc), NEW e \in Element
    PROVE  /\ q \in Seq(Nat) /\ q # << >> /\ q \notin DOMAIN doc
           /\ Len(path) \in Nat /\ Len(q) = Len(path) + 1
           /\ Front(q) = path
           /\ \A i \in 0 .. Len(path) : SubSeq(q, 1, i) = SubSeq(path, 1, i)
           /\ SubSeq(q, 1, Len(path) + 1) = q
           /\ IsDocument(withNode(doc, q, e))
           /\ IsOpen(q, withNode(doc, q, e))
<1> DEFINE more == withNode(doc, q, e)
           n == Cardinality(Child(path, doc))
<1>1. /\ IsFiniteSet(DOMAIN doc)
      /\ \A p \in DOMAIN doc : p # << >> => Last(p) \in 1 .. Cardinality(Child(Front(p), doc))
      /\ path \in Seq(Nat) /\ Len(path) \in Nat
    BY LenProperties DEF IsDocument, IsOpen
<1>2. /\ q \in Seq(Nat) /\ q # << >> /\ q \notin DOMAIN doc
      /\ Front(q) = path
      /\ Last(q) = n + 1
      /\ n \in Nat
    BY <1>1, ChildIsNew
<1>3. /\ Len(q) = Len(path) + 1
      /\ \A i \in 0 .. Len(path) : SubSeq(q, 1, i) = SubSeq(path, 1, i)
      /\ SubSeq(q, 1, Len(path) + 1) = q
    BY <1>1, <1>2, PathExtended DEF NextChild
<1>4. /\ DOMAIN more = DOMAIN doc \cup {q}
      /\ more = [p \in DOMAIN more |-> more[p]]
      /\ more[q] = e
      /\ \A p \in DOMAIN doc : more[p] = doc[p]
    BY <1>2 DEF withNode
<1> HIDE DEF more, n
<1>5. path \in DOMAIN doc \cup {<< >>}
    <2>1. CASE path = << >>
        BY <2>1
    <2>2. CASE path # << >>
        <3>1. Len(path) >= 1 /\ Len(path) \in 1 .. Len(path)
            BY <1>1, <2>2, EmptySeq
        <3>2. SubSeq(path, 1, Len(path)) \in DOMAIN doc
            BY <3>1 DEF IsOpen
        <3>3. SubSeq(path, 1, Len(path)) = path
            BY <1>1, WholePath
        <3> QED BY <3>2, <3>3
    <2> QED BY <2>1, <2>2
<1>6. IsDocument(more)
    <2>1. /\ IsFiniteSet(DOMAIN more)
          /\ \A p : p # path => Child(p, more) = Child(p, doc)
          /\ Cardinality(Child(path, more)) = n + 1
        <3>1. /\ IsFiniteSet(DOMAIN more)
              /\ \A p : p # Front(q) => Child(p, more) = Child(p, doc)
              /\ Cardinality(Child(Front(q), more)) = Cardinality(Child(Front(q), doc)) + 1
            BY <1>1, <1>2, <1>4, ChildAdded
        <3> QED BY <1>2, <3>1 DEF n
    <2>2. ASSUME NEW p \in DOMAIN more
          PROVE  Last(p) \in 1 .. Cardinality(Child(Front(p), more))
        <3>1. CASE p = q
            BY <1>2, <2>1, <3>1
        <3>2. CASE p # q /\ Front(p) = path
            <4>1. Last(p) \in 1 .. n
                BY <1>4, <3>2 DEF IsDocument, n
            <4> QED BY <1>2, <2>1, <3>2, <4>1
        <3>3. CASE p # q /\ Front(p) # path
            <4>1. Last(p) \in 1 .. Cardinality(Child(Front(p), doc))
                BY <1>4, <3>3 DEF IsDocument
            <4> QED BY <2>1, <3>3, <4>1
        <3> QED BY <3>1, <3>2, <3>3
    <2>3. ASSUME NEW p \in DOMAIN more
          PROVE  /\ p \in Seq(Nat) /\ p # << >>
                 /\ Front(p) \in DOMAIN more \cup {<< >>}
                 /\ more[p] \in Element
        BY <1>2, <1>4, <1>5 DEF IsDocument
    <2> QED BY <1>4, <2>1, <2>2, <2>3 DEF IsDocument
<1>7. IsOpen(q, more)
    <2>1. ASSUME NEW i \in 1 .. Len(q)
          PROVE  SubSeq(q, 1, i) \in DOMAIN more
        <3>1. CASE i = Len(path) + 1
            BY <1>3, <1>4, <3>1
        <3>2. CASE i # Len(path) + 1
            <4>1. i \in 1 .. Len(path) /\ i \in 0 .. Len(path)
                BY <1>1, <1>3, <3>2
            <4> QED BY <1>3, <1>4, <4>1 DEF IsOpen
        <3> QED BY <3>1, <3>2
    <2> QED BY <1>2, <2>1 DEF IsOpen
<1> QED BY <1>1, <1>2, <1>3, <1>6, <1>7 DEF more

(* The innermost element and the one around it. *)
LEMMA OpenShortened ==
    ASSUME NEW doc, NEW path, IsOpen(path, doc), path # << >>
    PROVE  /\ path \in DOMAIN doc
           /\ IsOpen(Front(path), doc)
           /\ Len(Front(path)) \in Nat
           /\ Len(path) = Len(Front(path)) + 1
           /\ \A i \in 0 .. Len(Front(path)) : SubSeq(Front(path), 1, i) = SubSeq(path, 1, i)
<1> DEFINE f == Front(path)
<1>1. /\ f \in Seq(Nat) /\ path \in Seq(Nat)
      /\ Len(f) \in Nat
      /\ Len(path) = Len(f) + 1
      /\ \A i \in 0 .. Len(f) : SubSeq(f, 1, i) = SubSeq(path, 1, i)
    BY PathShortened DEF IsOpen
<1> HIDE DEF f
<1>2. IsOpen(f, doc)
    <2>1. ASSUME NEW i \in 1 .. Len(f)
          PROVE  SubSeq(f, 1, i) \in DOMAIN doc
        <3>1. i \in 1 .. Len(path) /\ i \in 0 .. Len(f)
            BY <1>1
        <3>2. SubSeq(path, 1, i) \in DOMAIN doc
            BY <3>1 DEF IsOpen
        <3> QED BY <1>1, <3>1, <3>2
    <2> QED BY <1>1, <2>1 DEF IsOpen
<1>3. path \in DOMAIN doc
    <2>1. Len(path) \in 1 .. Len(path)
        BY <1>1
    <2>2. SubSeq(path, 1, Len(path)) \in DOMAIN doc
        BY <2>1 DEF IsOpen
    <2> QED BY <1>1, <2>2, WholePath
<1> QED BY <1>1, <1>2, <1>3 DEF f

-----------------------------------------------------------------------------
(* A start tag *)

LEMMA OpenIsElement ==
    ASSUME IsOpen(open, document), open # << >>
    PROVE  open \in DOMAIN document
BY OpenShortened

(* Where it is. *)
LEMMA TagPlace ==
    ASSUME IInv, NEW tag \in Tags, MayStart(tag)
    PROVE  /\ Len(open) \in Nat
           /\ Len(nodesStack) = Len(open) + 1 /\ Last(nodesStack) = open
           /\ atRoot <=> open = << >>
           /\ atRoot => DOMAIN document = {} /\ tree = given
           /\ ~atRoot => open \in DOMAIN document /\ DOMAIN tree = DOMAIN document \cup {<< >>}
           /\ DOMAIN top(tag) = DOMAIN document \cup {<< >>}
           /\ \A p : Child(p, top(tag)) = Child(p, document)
<1>1. /\ phase = "parsing"
      /\ open = << >> => document = << >>
      /\ open \in Seq(Nat) /\ Len(open) \in Nat
      /\ open # << >> => open \in DOMAIN document
    BY OpenIsElement, LenProperties DEF MayStart, IInv, IsOpen
<1>2. nodesStack = [i \in 1 .. Len(open) + 1 |-> SubSeq(open, 1, i - 1)]
    BY <1>1 DEF IInv, StackIsPath
<1>3. Len(nodesStack) = Len(open) + 1
    BY <1>1, <1>2
<1>4. Last(nodesStack) = open
    <2>1. nodesStack[Len(open) + 1] = SubSeq(open, 1, Len(open))
        BY <1>1, <1>2
    <2> QED BY <1>1, <1>3, <2>1, WholePath DEF Last
<1>5. atRoot <=> open = << >>
    <2>1. open = << >> <=> Len(open) = 0
        BY <1>1, EmptySeq
    <2> QED BY <1>1, <1>3, <2>1 DEF atRoot
<1>6. open = << >> => DOMAIN document = {}
    BY <1>1
<1>7. atRoot => DOMAIN document = {} /\ tree = given
    BY <1>1, <1>5, <1>6 DEF IInv, Building
<1>8. ~atRoot => open \in DOMAIN document /\ DOMAIN tree = DOMAIN document \cup {<< >>}
    BY <1>1, <1>5 DEF IInv, Building, Built
<1>9. DOMAIN top(tag) = DOMAIN document \cup {<< >>}
    <2>1. CASE atRoot
        <3>1. DOMAIN ObjectOf(topType(tag)) = {<< >>}
            BY DEF ObjectOf
        <3> QED BY <1>7, <2>1, <3>1 DEF top
    <2>2. CASE ~atRoot
        BY <1>8, <2>2 DEF top
    <2> QED BY <2>1, <2>2
<1>10. \A p : Child(p, top(tag)) = Child(p, document)
    <2>1. << >> \notin DOMAIN document
        BY DEF IInv, IsDocument
    <2> QED BY <1>9, <2>1 DEF Child
<1> QED BY <1>1, <1>3, <1>4, <1>5, <1>7, <1>8, <1>9, <1>10

(* What its prefixes mean. *)
LEMMA TagContext ==
    ASSUME IInv, NEW tag \in Tags
    PROVE  /\ WellFormed(addNamespaces(tag)) /\ LogIsSet(addNamespaces(tag))
           /\ addNamespaces(tag).rememberedPositions = xmlContext.rememberedPositions
           /\ addNamespaces(tag).prefixMap \in PrefixMap
           /\ here(tag) \in PrefixMap
           /\ resolver(tag) \in PrefixMap
           /\ Range(getLastStoredLinks(addNamespaces(tag))) \subseteq Link
           /\ ~dirty => /\ Reads(addNamespaces(tag).prefixMap) = Reads(here(tag))
                        /\ Range(getLastStoredLinks(addNamespaces(tag))) = Range(tag.decls)
<1> DEFINE c  == xmlContext
           ls == tag.decls
           d  == declaredUpTo(c, ls)[Len(ls)]
<1>1. WellFormed(c) /\ LogIsSet(c)
    BY DEF IInv, Declaring
<1>2. ls \in Seq(Link) /\ Once(ls)
    BY TagsAssumption DEF Once
<1>3. /\ WellFormed(d) /\ LogIsSet(d)
      /\ SameScopes(c, d)
      /\ d.prefixMap = within(c.prefixMap, ls)
    BY <1>1, <1>2, TagDeclared
<1>4. /\ Range(getLastStoredLinks(d)) \subseteq Link
      /\ LastPosition(c) = Len(c.restoreLinks) => Range(getLastStoredLinks(d)) = Range(ls)
    BY <1>1, <1>2, LinksOfTag
<1>5. addNamespaces(tag) = d
    BY DEF addNamespaces
<1> HIDE DEF d
<1>6. d.prefixMap \in PrefixMap
    <2>1. d \in Context
        BY <1>3 DEF WellFormed
    <2> QED BY <2>1 DEF Context
<1>7. scope(open) \in PrefixMap
    <2>1. CASE open = << >>
        BY <2>1, NSMapAssumption DEF scope, OuterScope, EmptyPrefixMap, PrefixMap
    <2>2. CASE open # << >>
        <3>1. open \in DOMAIN document
            BY <2>2, OpenIsElement DEF IInv
        <3>2. document[open] \in Element
            BY <3>1 DEF IInv, IsDocument
        <3> QED BY <2>2, <3>2 DEF scope, Element
    <2> QED BY <2>1, <2>2
<1>8. here(tag) \in PrefixMap
    BY <1>2, <1>7, WithinType DEF here
<1>9. resolver(tag) \in PrefixMap
    BY <1>5, <1>6, <1>8 DEF resolver
<1>10. ASSUME ~dirty
       PROVE  Reads(d.prefixMap) = Reads(here(tag)) /\ LastPosition(c) = Len(c.restoreLinks)
    <2>1. Follows(c, open, scopes)
        BY <1>10 DEF IInv, Declaring
    <2>2. scopes[Len(open)] = scope(open)
        <3>1. open \in Seq(Nat) /\ Len(open) \in 0 .. Len(open)
            BY LenProperties DEF IInv, IsOpen
        <3>2. scopes[Len(open)] = scope(SubSeq(open, 1, Len(open)))
            BY <3>1 DEF scopes
        <3> QED BY <3>1, <3>2, WholePath
    <2>3. Reads(c.prefixMap) = Reads(scope(open)) /\ LastPosition(c) = Len(c.restoreLinks)
        BY <2>1, <2>2 DEF Follows
    <2> QED BY <1>2, <1>3, <2>3, WithinReads DEF here
<1> QED BY <1>3, <1>4, <1>5, <1>6, <1>8, <1>9, <1>10 DEF SameScopes

(* The types it leads to. *)
LEMMA TagTypes ==
    ASSUME IInv, NEW tag \in Tags, MayStart(tag), NameIsSet(tag)
    PROVE  /\ predefined => <<1>> \in DOMAIN tree
           /\ elementName(tag) \in ElementName
           /\ documentType(tag) \in SchemaType \cup {NULL}
           /\ topType(tag) \in SchemaType
           /\ IsTree(top(tag))
           /\ AttrsAreSet(tag) => subType(tag) \in SchemaType \cup {NULL}
<1>1. IsTree(tree) /\ class \in SchemaType
    BY DEF IInv, TypeOK
<1>2. <<1>> # << >>
    OBVIOUS
<1>3. ASSUME predefined
      PROVE  /\ <<1>> \in DOMAIN tree
             /\ tree[<<1>>].name \in ElementName
             /\ tree[<<1>>].type \in SchemaType
    <2>1. <<1>> \in DOMAIN tree
        BY <1>1, <1>3 DEF predefined, IsTree
    <2>2. IsNode(tree[<<1>>], <<1>>)
        BY <1>1, <2>1 DEF IsTree
    <2> QED BY <1>2, <2>1, <2>2 DEF IsNode
<1>4. getQName(tag, tag.prefix, tag.local) \in ElementName
    <2>1. tag.prefix \in Prefix /\ \A ns \in Namespace : [ns |-> ns, local |-> tag.local] \in ElementName
        BY TagsAssumption
    <2>2. resolver(tag) \in PrefixMap
        BY TagContext
    <2>3. resolver(tag)[tag.prefix] \in Namespace
        BY <2>1, <2>2 DEF NameIsSet, PrefixMap
    <2> QED BY <2>1, <2>3 DEF getQName
<1>5. elementName(tag) \in ElementName
    BY <1>3, <1>4 DEF elementName
<1>6. documentType(tag) \in SchemaType \cup {NULL}
    BY <1>5, Created DEF documentType
<1>7. topType(tag) \in SchemaType
    <2>1. CASE atRoot
        BY <1>1, <1>6, <2>1 DEF topType
    <2>2. CASE ~atRoot
        <3>1. Last(nodesStack) \in DOMAIN tree /\ Last(nodesStack) # << >>
            BY <2>2, TagPlace
        <3>2. IsNode(tree[Last(nodesStack)], Last(nodesStack))
            BY <1>1, <3>1 DEF IsTree
        <3> QED BY <2>2, <3>1, <3>2 DEF IsNode, topType
    <2> QED BY <2>1, <2>2
<1>8. IsTree(top(tag))
    BY <1>1, <1>7, ObjectIsTree DEF top
<1>9. declaredType(tag) \in SchemaType \cup {NULL}
    <2>1. CASE predefined
        BY <1>3, <2>1 DEF declaredType
    <2>2. CASE ~predefined
        BY <1>5, <1>7, <2>2, Created DEF declaredType
    <2> QED BY <2>1, <2>2
<1>10. ASSUME AttrsAreSet(tag), HasXsiType(tag)
       PROVE  xsiType(tag) \in SchemaType \cup {NULL}
    <2>1. PICK a \in Named(tag, XsiType) : a = CHOOSE b \in Named(tag, XsiType) : TRUE
        BY <1>10 DEF HasXsiType
    <2>2. /\ a.value.prefix \in Prefix
          /\ \A ns \in Namespace : [ns |-> ns, local |-> a.value.local] \in TypeName
        BY TagsAssumption DEF Named
    <2>3. addNamespaces(tag).prefixMap \in PrefixMap
        BY TagContext
    <2>4. addNamespaces(tag).prefixMap[a.value.prefix] \in Namespace
        BY <1>10, <2>2, <2>3 DEF AttrsAreSet, PrefixMap
    <2>5. nsSplit(tag, a.value) \in TypeName
        BY <2>2, <2>4 DEF nsSplit
    <2> QED BY <2>1, <2>5, Created DEF xsiType
<1>11. AttrsAreSet(tag) => subType(tag) \in SchemaType \cup {NULL}
    BY <1>9, <1>10 DEF subType
<1> QED BY <1>3, <1>5, <1>6, <1>7, <1>8, <1>11

(* The node it makes. *)
LEMMA TagNode ==
    ASSUME IInv, NEW tag \in Tags, MayStart(tag), NameIsSet(tag), AttrsAreSet(tag), subType(tag) # NULL,
           NEW path, path # << >>
    PROVE  IsNode(newNode(tag), path)
<1> DEFINE name   == elementName(tag)
           prefix == IF predefined THEN tree[<<1>>].prefix
                     ELSE IF isPersistPrefix(tag.prefix) THEN NoPrefix ELSE tag.prefix
           type   == subType(tag)
           names  == {getAttrQName(tag, a) : a \in Range(tag.attrs)} \ {XsiType, XsiArray}
           new    == {l \in Range(getLastStoredLinks(addNamespaces(tag))) : ~isPersistPrefix(l.prefix)}
<1>1. name \in ElementName /\ type \in SchemaType
    BY TagTypes
<1>2. prefix \in Prefix
    <2>1. ASSUME predefined
          PROVE  tree[<<1>>].prefix \in Prefix
        <3>1. IsTree(tree) /\ <<1>> \in DOMAIN tree
            BY <2>1, TagTypes DEF IInv, TypeOK
        <3>2. IsNode(tree[<<1>>], <<1>>)
            BY <3>1 DEF IsTree
        <3> QED BY <3>2 DEF IsNode
    <2> QED BY <2>1, TagsAssumption, NSMapAssumption
<1>3. new \subseteq {l \in Link : l.prefix \notin Persistent}
    <2>1. Range(getLastStoredLinks(addNamespaces(tag))) \subseteq Link
        BY TagContext
    <2> QED BY <2>1 DEF isPersistPrefix
<1>4. newNode(tag) = Node(name, prefix, type, names, new)
    BY DEF newNode
<1> HIDE DEF name, prefix, type, names, new
<1>5. << >> \in Seq(Text)
    BY EmptySeq
<1> QED BY <1>1, <1>2, <1>3, <1>4, <1>5 DEF IsNode, Node

-----------------------------------------------------------------------------
(* Documents before their root, and objects *)

LEMMA NoElements ==
    /\ DOMAIN << >> = {}
    /\ \A doc : doc = [p \in DOMAIN doc |-> doc[p]] /\ DOMAIN doc = {} => doc = << >>
OBVIOUS

LEMMA EmptyDocument ==
    /\ IsDocument(<< >>)
    /\ \A doc : IsDocument(doc) => (doc = << >> <=> DOMAIN doc = {})
    /\ \A doc : IsOpen(<< >>, doc)
<1>1. << >> = [p \in DOMAIN << >> |-> << >>[p]] /\ IsFiniteSet(DOMAIN << >>)
    BY NoElements, FS_EmptySet
<1>2. IsDocument(<< >>)
    BY <1>1, NoElements DEF IsDocument
<1>3. \A doc : IsDocument(doc) => (doc = << >> <=> DOMAIN doc = {})
    BY NoElements DEF IsDocument
<1>4. << >> \in Seq(Nat) /\ Len(<< >>) = 0
    BY EmptySeq
<1>5. \A doc : IsOpen(<< >>, doc)
    BY <1>4 DEF IsOpen
<1> QED BY <1>2, <1>3, <1>5

(* An object that is passed gets the type of its class where it has none. *)
LEMMA ObjectTyped ==
    ASSUME NEW nodes, IsTree(nodes), NEW type \in SchemaType
    PROVE  LET typed == [nodes EXCEPT ![<< >>].type = type]
           IN  IsTree(typed)
<1> DEFINE typed == [nodes EXCEPT ![<< >>].type = type]
           n == nodes[<< >>]
<1>1. << >> \in DOMAIN nodes /\ IsNode(n, << >>)
    BY DEF IsTree
<1>2. /\ n = [Node(n.name, n.prefix, n.type, n.attrs, n.xmlns) EXCEPT !.text = n.text]
      /\ n.prefix \in Prefix /\ n.text \in Seq(Text)
      /\ n.xmlns \subseteq {l \in Link : l.prefix \notin Persistent}
    BY <1>1 DEF IsNode
<1>3. /\ DOMAIN typed = DOMAIN nodes /\ typed = [p \in DOMAIN typed |-> typed[p]]
      /\ \A p \in DOMAIN nodes : p # << >> => typed[p] = nodes[p]
      /\ typed[<< >>] = [n EXCEPT !.type = type]
    BY <1>1 DEF IsTree
<1> HIDE DEF typed, n
<1>4. [n EXCEPT !.type = type] = [Node(n.name, n.prefix, type, n.attrs, n.xmlns) EXCEPT !.text = n.text]
    BY <1>2 DEF Node
<1> DEFINE m == [n EXCEPT !.type = type]
<1>5. /\ m.name = n.name /\ m.prefix = n.prefix /\ m.type = type /\ m.attrs = n.attrs
      /\ m.xmlns = n.xmlns /\ m.text = n.text
    BY <1>4 DEF Node
<1>6. m = [Node(m.name, m.prefix, m.type, m.attrs, m.xmlns) EXCEPT !.text = m.text]
    BY <1>4, <1>5
<1> HIDE DEF m
<1>7. IsNode(m, << >>)
    BY <1>2, <1>5, <1>6 DEF IsNode
<1>8. \A p \in DOMAIN typed : IsNode(typed[p], p)
    BY <1>3, <1>7 DEF IsTree, m
<1>9. Child(<< >>, typed) = Child(<< >>, nodes)
    BY <1>3 DEF Child
<1>10. Cardinality(Child(<< >>, typed)) = 1 => <<1>> \in DOMAIN typed
    BY <1>3, <1>9 DEF IsTree
<1>11. << >> \in DOMAIN typed
    BY <1>1, <1>3
<1> QED BY <1>3, <1>8, <1>10, <1>11 DEF IsTree, typed
-----------------------------------------------------------------------------
(* The steps *)

LEMMA InitIInv == Init => IInv
<1> SUFFICES ASSUME Init PROVE IInv
    OBVIOUS
<1>1. /\ library \in {"libxml2", "xerces"}
      /\ xmlContext = NewContext
      /\ nodesStack = << >>
      /\ class = Untyped
      /\ tree = ObjectOf(Untyped)
      /\ phase = "idle" /\ dirty = FALSE
      /\ document = << >> /\ open = << >>
    BY DEF Init
<1>2. IsTree(tree) /\ DOMAIN tree = {<< >>}
    BY <1>1, ObjectIsTree, SaxParserAssumption
<1>3. Range(nodesStack) = {}
    BY <1>1 DEF Range
<1>4. /\ WellFormed(xmlContext) /\ LogIsSet(xmlContext)
      /\ \A path, sc : Len(path) = 0 /\ sc[0] = OuterScope => Follows(xmlContext, path, sc)
    BY <1>1, NewContextFollows
<1>5. Len(open) = 0 /\ SubSeq(open, 1, 0) = << >>
    BY <1>1
<1>6. scopes[0] = OuterScope
    BY <1>5 DEF scopes, scope
<1>7. Follows(xmlContext, open, scopes)
    BY <1>4, <1>5, <1>6
<1>8. xmlContext \in Context
    BY <1>4 DEF WellFormed
<1>9. TypeOK
    BY <1>1, <1>2, <1>3, <1>8, SaxParserAssumption DEF TypeOK
<1>10. IsDocument(document) /\ IsOpen(open, document)
    BY <1>1, EmptyDocument
<1>11. Len(xmlContext.rememberedPositions) = 2 + Len(open)
    BY <1>7 DEF Follows
<1>12. Declaring
    BY <1>1, <1>4, <1>7 DEF Declaring
<1>13. StackIsPath
    BY <1>1, <1>11 DEF StackIsPath
<1>14. Building
    BY <1>1, NoElements DEF Building, Built
<1>15. TreeIsDocument /\ TypesAreResolved
    BY <1>1, NoElements DEF TreeIsDocument, IsRead, TypesAreResolved
<1> QED BY <1>1, <1>9, <1>10, <1>12, <1>13, <1>14, <1>15 DEF IInv

(* The call begins anew, with the context and below the bindings it left. *)
LEMMA ParseKeepsIInv ==
    ASSUME IInv, NEW o \in Objects \cup {[class |-> class, tree |-> tree]}, parse(o)
    PROVE  IInv'
<1> DEFINE type == IF o.tree[<< >>].type = NULL THEN o.class ELSE o.tree[<< >>].type
<1>1. /\ phase = "idle" /\ phase' = "parsing"
      /\ tree' = [o.tree EXCEPT ![<< >>].type = type]
      /\ class' = o.class
      /\ given' = tree'
      /\ nodesStack' = << << >> >>
      /\ document' = << >> /\ open' = << >>
      /\ library' = library /\ xmlContext' = xmlContext /\ dirty' = dirty
    BY DEF parse
<1>2. o.class \in SchemaType /\ IsTree(o.tree)
    BY ObjectsAssumption DEF IInv, TypeOK
<1>3. type \in SchemaType
    <2>1. << >> \in DOMAIN o.tree /\ IsNode(o.tree[<< >>], << >>)
        BY <1>2 DEF IsTree
    <2> QED BY <1>2, <2>1 DEF IsNode
<1> HIDE DEF type
<1>4. IsTree(tree') /\ << >> \in DOMAIN tree'
    <2>1. IsTree(tree')
        BY <1>1, <1>2, <1>3, ObjectTyped
    <2> QED BY <2>1 DEF IsTree
<1>5. Range(nodesStack') \subseteq DOMAIN tree'
    BY <1>1, <1>4 DEF Range
<1>6. TypeOK'
    BY <1>1, <1>2, <1>4, <1>5 DEF IInv, TypeOK
<1>7. IsDocument(document') /\ IsOpen(open', document')
    BY <1>1, EmptyDocument
<1>8. /\ Len(open') = 0 /\ SubSeq(open', 1, 0) = << >>
      /\ \A i \in 0 .. 0 : i = 0
    BY <1>1
<1>9. scopes'[0] = OuterScope
    BY <1>8 DEF scopes, scope
<1>10. ASSUME ~dirty'
       PROVE  Follows(xmlContext', open', scopes')
    <2>1. Follows(xmlContext, open, scopes) /\ open = << >>
        BY <1>1, <1>10 DEF IInv, Declaring
    <2>2. Len(open) = 0 /\ SubSeq(open, 1, 0) = << >>
        BY <2>1
    <2>3. scopes[0] = OuterScope
        BY <2>2 DEF scopes, scope
    <2> QED BY <1>1, <1>8, <1>9, <2>1, <2>2, <2>3 DEF Follows
<1>11. Len(xmlContext'.rememberedPositions) >= 2
    BY <1>1 DEF IInv, Declaring, WellFormed
<1>12. Declaring'
    BY <1>1, <1>8, <1>10, <1>11 DEF IInv, Declaring
<1>13. StackIsPath'
    <2>1. nodesStack' = [i \in 1 .. Len(open') + 1 |-> SubSeq(open', 1, i - 1)]
        <3>1. open' = << >> /\ 1 .. Len(open') + 1 = {1}
            BY <1>1, <1>8
        <3>2. [i \in {1} |-> SubSeq(open', 1, i - 1)] = [i \in {1} |-> << >>]
            BY <1>8, 1 - 1 = 0
        <3>3. << << >> >> = [i \in {1} |-> << >>]
            OBVIOUS
        <3> QED BY <1>1, <3>1, <3>2, <3>3
    <2>2. ~dirty' => Len(xmlContext'.rememberedPositions) = 2 + Len(open')
        BY <1>10 DEF Follows
    <2> QED BY <1>1, <2>1, <2>2 DEF StackIsPath
<1>14. Building'
    BY <1>1, NoElements DEF Building, Built
<1>15. TreeIsDocument' /\ TypesAreResolved'
    BY <1>1, NoElements DEF TreeIsDocument, IsRead, TypesAreResolved
<1> QED BY <1>1, <1>6, <1>7, <1>12, <1>13, <1>14, <1>15 DEF IInv

(* A call that throws leaves a log and a tree of the right kind. *)
LEMMA ThrowKeepsIInv ==
    ASSUME IInv, Throw, IsTree(tree'), Range(nodesStack) \subseteq DOMAIN tree',
           WellFormed(xmlContext'), LogIsSet(xmlContext')
    PROVE  IInv'
<1>1. /\ phase' = "idle" /\ dirty' = TRUE
      /\ library' = library /\ nodesStack' = nodesStack /\ class' = class
      /\ document' = document /\ open' = open
    BY DEF Throw
<1>2. xmlContext' \in Context
    BY DEF WellFormed
<1>3. TypeOK'
    BY <1>1, <1>2 DEF IInv, TypeOK
<1>4. IsDocument(document') /\ IsOpen(open', document')
    BY <1>1 DEF IInv
<1>5. Declaring' /\ StackIsPath' /\ Building'
    BY <1>1 DEF Declaring, StackIsPath, Building, Built
<1>6. TreeIsDocument' /\ TypesAreResolved'
    BY <1>1 DEF TreeIsDocument, TypesAreResolved
<1> QED BY <1>1, <1>3, <1>4, <1>5, <1>6 DEF IInv
LEMMA NameThrowsKeepsIInv ==
    ASSUME IInv, NEW tag \in Tags, nameThrows(tag)
    PROVE  IInv'
<1>1. xmlContext' = addNamespaces(tag) /\ tree' = tree /\ Throw
    BY DEF nameThrows
<1>2. WellFormed(xmlContext') /\ LogIsSet(xmlContext')
    BY <1>1, TagContext
<1>3. IsTree(tree') /\ Range(nodesStack) \subseteq DOMAIN tree'
    BY <1>1 DEF IInv, TypeOK
<1> QED BY <1>1, <1>2, <1>3, ThrowKeepsIInv

(* At the root there is nothing on the stack but the object. *)
LEMMA RootIsObject ==
    ASSUME IInv, NEW tag \in Tags, MayStart(tag), atRoot
    PROVE  Range(nodesStack) = {<< >>}
<1>1. /\ Len(open) \in Nat
      /\ Len(nodesStack) = Len(open) + 1 /\ Last(nodesStack) = open
      /\ atRoot <=> open = << >>
    BY TagPlace
<1>2. Len(nodesStack) = 1 /\ nodesStack[1] = << >>
    BY <1>1 DEF atRoot, Last
<1>3. nodesStack = [i \in 1 .. Len(open) + 1 |-> SubSeq(open, 1, i - 1)]
    BY DEF MayStart, IInv, StackIsPath
<1>4. DOMAIN nodesStack = 1 .. Len(open) + 1
    BY <1>3
<1>5. DOMAIN nodesStack = {1}
    BY <1>1, <1>2, <1>4
<1> QED BY <1>2, <1>5 DEF Range

LEMMA RootThrowsKeepsIInv ==
    ASSUME IInv, NEW tag \in Tags, rootThrows(tag)
    PROVE  IInv'
<1>1. /\ xmlContext' = addNamespaces(tag) /\ tree' = ObjectOf(NULL) /\ Throw
      /\ MayStart(tag)
    BY DEF rootThrows
<1>2. WellFormed(xmlContext') /\ LogIsSet(xmlContext')
    BY <1>1, TagContext
<1>3. IsTree(tree') /\ DOMAIN tree' = {<< >>}
    BY <1>1, ObjectIsTree
<1>4. atRoot
    BY DEF rootThrows, RootIsTaken
<1>5. Range(nodesStack) \subseteq DOMAIN tree'
    BY <1>1, <1>3, <1>4, RootIsObject
<1> QED BY <1>1, <1>2, <1>3, <1>5, ThrowKeepsIInv

LEMMA TypeThrowsKeepsIInv ==
    ASSUME IInv, NEW tag \in Tags, typeThrows(tag)
    PROVE  IInv'
<1>1. /\ xmlContext' = addNamespaces(tag) /\ tree' = top(tag) /\ Throw
      /\ MayStart(tag) /\ NameIsSet(tag)
    BY DEF typeThrows
<1>2. WellFormed(xmlContext') /\ LogIsSet(xmlContext')
    BY <1>1, TagContext
<1>3. IsTree(tree')
    BY <1>1, TagTypes
<1>4. Range(nodesStack) \subseteq DOMAIN tree'
    <2>1. CASE atRoot
        BY <1>1, <1>3, <2>1, RootIsObject DEF IsTree
    <2>2. CASE ~atRoot
        BY <1>1, <2>2 DEF top, IInv, TypeOK
    <2> QED BY <2>1, <2>2
<1> QED BY <1>1, <1>2, <1>3, <1>4, ThrowKeepsIInv

LEMMA DocumentThrowsKeepsIInv == IInv /\ documentThrows => IInv'
<1> SUFFICES ASSUME IInv, documentThrows PROVE IInv'
    OBVIOUS
<1>1. xmlContext' = xmlContext /\ tree' = tree /\ Throw
    BY DEF documentThrows
<1>2. WellFormed(xmlContext') /\ LogIsSet(xmlContext')
    BY <1>1 DEF IInv, Declaring
<1>3. IsTree(tree') /\ Range(nodesStack) \subseteq DOMAIN tree'
    BY <1>1 DEF IInv, TypeOK
<1> QED BY <1>1, <1>2, <1>3, ThrowKeepsIInv

(* What TreeIsDocument and TypesAreResolved say of one element and its node. *)
NameOf(tag, means, p, g) ==
    IF p = <<1>> /\ Cardinality(Child(<< >>, g)) = 1
    THEN g[p].name
    ELSE [ns |-> means[tag.prefix], local |-> tag.local]

ReadAs(e, n, p, g) ==
    /\ n.name = NameOf(e.tag, Reads(e.scope), p, g)
    /\ n.attrs = {MeantName(Reads(e.scope), a) : a \in Range(e.tag.attrs)} \ {XsiType, XsiArray}
    /\ n.text = Kept(e.text, {t \in Text : IsKept(t, n.type)})
    /\ n.xmlns = {l \in Range(e.tag.decls) : l.prefix \notin Persistent}

TypedAs(e, n, p, parent, g) ==
    LET tag   == e.tag
        means == Reads(e.scope)
        types == {a \in Range(tag.attrs) : MeantName(means, a) = XsiType}
    IN  IF types # {}
        THEN LET value == (CHOOSE a \in types : TRUE).value
             IN  n.type = createByName(Types, [ns |-> means[value.prefix], local |-> value.local])
        ELSE LET declared == parent.type.elements[n.name]
             IN  declared # NULL =>
                    \/ n.type = createByName(Types, declared)
                    \/ p = <<1>> /\ n.type = g[p].type

LEMMA ElementByElement ==
    /\ TreeIsDocument <=>
        (~dirty /\ document # << >> =>
            /\ DOMAIN tree = DOMAIN document \cup {<< >>}
            /\ \A p \in DOMAIN document : ReadAs(document[p], tree[p], p, given))
    /\ TypesAreResolved <=>
        (~dirty => \A p \in DOMAIN document :
            TypedAs(document[p], tree[p], p, tree[Front(p)], given))
BY DEF TreeIsDocument, IsRead, ReadAs, NameOf, TypesAreResolved, TypedAs

LEMMA ElementByElementNext ==
    /\ TreeIsDocument' <=>
        (~dirty' /\ document' # << >> =>
            /\ DOMAIN tree' = DOMAIN document' \cup {<< >>}
            /\ \A p \in DOMAIN document' : ReadAs(document'[p], tree'[p], p, given'))
    /\ TypesAreResolved' <=>
        (~dirty' => \A p \in DOMAIN document' :
            TypedAs(document'[p], tree'[p], p, tree'[Front(p)], given'))
BY DEF TreeIsDocument, IsRead, ReadAs, NameOf, TypesAreResolved, TypedAs

(* A step that changes none of what they are about. *)
LEMMA TreeStays ==
    ASSUME dirty' = dirty /\ document' = document /\ tree' = tree /\ given' = given,
           TreeIsDocument, TypesAreResolved
    PROVE  TreeIsDocument' /\ TypesAreResolved'
BY ElementByElement, ElementByElementNext

LEMMA EndDocumentKeepsIInv == IInv /\ endDocument => IInv'
<1> SUFFICES ASSUME IInv, endDocument PROVE IInv'
    OBVIOUS
<1>1. /\ phase = "parsing" /\ phase' = "idle"
      /\ open = << >> /\ document # << >>
      /\ nodesStack' = IF library = "xerces" THEN Front(nodesStack) ELSE nodesStack
      /\ library' = library /\ xmlContext' = xmlContext /\ class' = class /\ tree' = tree
      /\ dirty' = dirty /\ given' = given /\ document' = document /\ open' = open
    BY DEF endDocument
<1>2. Len(open) = 0 /\ SubSeq(open, 1, 0) = << >>
    BY <1>1
<1>3. nodesStack = << << >> >>
    <2>1. nodesStack = [i \in 1 .. Len(open) + 1 |-> SubSeq(open, 1, i - 1)]
        BY <1>1 DEF IInv, StackIsPath
    <2>2. 1 .. Len(open) + 1 = {1}
        BY <1>2
    <2>3. [i \in {1} |-> SubSeq(open, 1, i - 1)] = [i \in {1} |-> << >>]
        BY <1>2
    <2>4. << << >> >> = [i \in {1} |-> << >>]
        OBVIOUS
    <2> QED BY <2>1, <2>2, <2>3, <2>4
<1>4. Front(<< << >> >>) = << >>
    BY DEF Front
<1>5. Range(nodesStack') \subseteq DOMAIN tree'
    <2>1. Range(<< >>) = {}
        BY DEF Range
    <2> QED BY <1>1, <1>3, <1>4, <2>1 DEF IInv, TypeOK
<1>6. TypeOK'
    BY <1>1, <1>5 DEF IInv, TypeOK
<1>7. scopes' = scopes
    BY <1>1 DEF scopes, scope
<1>8. Declaring'
    BY <1>1, <1>7 DEF IInv, Declaring
<1>9. StackIsPath'
    BY <1>1, <1>3, <1>4 DEF IInv, StackIsPath
<1>10. Building'
    BY <1>1 DEF IInv, Building, Built
<1>11. TreeIsDocument' /\ TypesAreResolved'
    BY <1>1, TreeStays DEF IInv
<1>12. IsDocument(document') /\ IsOpen(open', document')
    BY <1>1 DEF IInv
<1> QED BY <1>1, <1>6, <1>8, <1>9, <1>10, <1>11, <1>12 DEF IInv
ScopeIn(doc, p) == IF p = << >> THEN OuterScope ELSE doc[p].scope

(* The paths of the elements around a place: one is pushed, one is popped. *)
Way(p) == [i \in 1 .. Len(p) + 1 |-> SubSeq(p, 1, i - 1)]

LEMMA WayIsSeq ==
    ASSUME NEW p \in Seq(Nat)
    PROVE  Way(p) \in Seq(Seq(Nat)) /\ Len(Way(p)) = Len(p) + 1
<1>1. Len(p) \in Nat /\ Len(p) + 1 \in Nat
    BY LenProperties
<1>2. ASSUME NEW i \in 1 .. Len(p) + 1
      PROVE  SubSeq(p, 1, i - 1) \in Seq(Nat)
    <2>1. i - 1 \in 0 .. Len(p)
        BY <1>1
    <2> QED BY <2>1, PrefixProperties
<1>3. Way(p) \in [1 .. Len(p) + 1 -> Seq(Nat)]
    BY <1>2 DEF Way
<1>4. Way(p) \in Seq(Seq(Nat))
    BY <1>1, <1>3, SeqDef
<1>5. DOMAIN Way(p) = 1 .. Len(p) + 1
    BY DEF Way
<1> QED BY <1>1, <1>4, <1>5, LenProperties

LEMMA WayPopped ==
    ASSUME NEW p \in Seq(Nat), p # << >>
    PROVE  Front(Way(p)) = Way(Front(p)) /\ Range(Way(Front(p))) \subseteq Range(Way(p))
<1> DEFINE f == Front(p)
<1>1. /\ f \in Seq(Nat)
      /\ Len(f) \in Nat
      /\ Len(p) = Len(f) + 1
      /\ \A i \in 0 .. Len(f) : SubSeq(f, 1, i) = SubSeq(p, 1, i)
    BY PathShortened
<1> HIDE DEF f
<1>2. /\ Way(p) \in Seq(Seq(Nat)) /\ Len(Way(p)) = Len(f) + 2
      /\ Way(f) \in Seq(Seq(Nat)) /\ Len(Way(f)) = Len(f) + 1
    BY <1>1, WayIsSeq
<1>3. Way(p) # << >>
    BY <1>1, <1>2
<1> DEFINE w == Way(p)
<1>4. /\ Front(w) \in Seq(Seq(Nat))
      /\ Len(Front(w)) = Len(w) - 1
      /\ \A i \in 1 .. Len(w) - 1 : Front(w)[i] = w[i]
    <2> HIDE DEF w
    <2> QED BY <1>2, <1>3, FrontProperties DEF w
<1>5. \A i \in 1 .. Len(f) + 1 : Way(p)[i] = Way(f)[i]
    <2> TAKE i \in 1 .. Len(f) + 1
    <2>1. i - 1 \in 0 .. Len(f) /\ i \in 1 .. Len(p) + 1
        BY <1>1
    <2> QED BY <1>1, <2>1 DEF Way
<1>6. Front(w) = Way(f)
    <2>1. Len(w) - 1 = Len(f) + 1
        BY <1>1, <1>2
    <2>2. \A i \in 1 .. Len(f) + 1 : Front(w)[i] = Way(f)[i]
        BY <1>4, <1>5, <2>1
    <2> HIDE DEF w
    <2> QED BY <1>2, <1>4, <2>1, <2>2, SeqEqual
<1>7. Range(Way(f)) \subseteq Range(w)
    <2>1. DOMAIN Way(f) = 1 .. Len(f) + 1 /\ DOMAIN w = 1 .. Len(f) + 2
        BY <1>1 DEF Way
    <2>2. \A i \in 1 .. Len(f) + 1 : i \in 1 .. Len(f) + 2
        BY <1>1
    <2> HIDE DEF w
    <2> QED BY <1>5, <2>1, <2>2 DEF Range, w
<1> QED BY <1>6, <1>7 DEF f

LEMMA WayPushed ==
    ASSUME NEW p \in Seq(Nat), NEW n \in Nat
    PROVE  LET q == Append(p, n)
           IN  Append(Way(p), q) = Way(q) /\ Range(Way(q)) = Range(Way(p)) \cup {q}
<1> DEFINE q == Append(p, n)
<1>1. /\ q \in Seq(Nat) /\ Len(p) \in Nat
      /\ Len(q) = Len(p) + 1
      /\ \A i \in 0 .. Len(p) : SubSeq(q, 1, i) = SubSeq(p, 1, i)
      /\ SubSeq(q, 1, Len(p) + 1) = q
    BY PathExtended, LenProperties
<1> HIDE DEF q
<1>2. /\ Way(p) \in Seq(Seq(Nat)) /\ Len(Way(p)) = Len(p) + 1
      /\ Way(q) \in Seq(Seq(Nat)) /\ Len(Way(q)) = Len(p) + 2
    BY <1>1, WayIsSeq
<1> DEFINE w == Append(Way(p), q)
<1>3. /\ w \in Seq(Seq(Nat)) /\ Len(w) = Len(p) + 2
      /\ \A i \in 1 .. Len(p) + 1 : w[i] = Way(p)[i]
      /\ w[Len(p) + 2] = q
    BY <1>1, <1>2, AppendProperties
<1>4. /\ \A i \in 1 .. Len(p) + 1 : Way(q)[i] = Way(p)[i]
      /\ Way(q)[Len(p) + 2] = q
    <2>1. ASSUME NEW i \in 1 .. Len(p) + 1
          PROVE  Way(q)[i] = Way(p)[i]
        <3>1. i - 1 \in 0 .. Len(p) /\ i \in 1 .. Len(q) + 1
            BY <1>1
        <3> QED BY <1>1, <3>1 DEF Way
    <2>2. Way(q)[Len(p) + 2] = q
        <3>1. Len(p) + 2 \in 1 .. Len(q) + 1 /\ (Len(p) + 2) - 1 = Len(p) + 1
            BY <1>1
        <3> QED BY <1>1, <3>1 DEF Way
    <2> QED BY <2>1, <2>2
<1> HIDE DEF w
<1>5. \A i \in 1 .. Len(p) + 2 : i \in 1 .. Len(p) + 1 \/ i = Len(p) + 2
    BY <1>1
<1>6. w = Way(q)
    <2>1. \A i \in 1 .. Len(p) + 2 : w[i] = Way(q)[i]
        BY <1>3, <1>4, <1>5
    <2> QED BY <1>2, <1>3, <2>1, SeqEqual
<1>7. DOMAIN Way(p) = 1 .. Len(p) + 1 /\ DOMAIN Way(q) = 1 .. Len(p) + 2
    BY <1>1 DEF Way
<1>8. Range(Way(q)) = Range(Way(p)) \cup {q}
    <2>1. \A i \in 1 .. Len(p) + 1 : i \in 1 .. Len(p) + 2
        BY <1>1
    <2>2. Len(p) + 2 \in 1 .. Len(p) + 2
        BY <1>1
    <2> QED BY <1>4, <1>5, <1>7, <2>1, <2>2 DEF Range
<1> QED BY <1>6, <1>8 DEF w, q

LEMMA EndElementKeepsIInv == IInv /\ endElement => IInv'
<1> SUFFICES ASSUME IInv, endElement PROVE IInv'
    OBVIOUS
<1>1. /\ open # << >> /\ phase = "parsing" /\ phase' = phase
      /\ xmlContext' = Restore(xmlContext)
      /\ nodesStack' = Front(nodesStack)
      /\ open' = Front(open)
      /\ library' = library /\ class' = class /\ tree' = tree
      /\ dirty' = dirty /\ given' = given /\ document' = document
    BY DEF endElement
<1>2. /\ open \in Seq(Nat)
      /\ open \in DOMAIN document
      /\ IsOpen(open', document)
      /\ Len(open') \in Nat
      /\ Len(open) = Len(open') + 1
      /\ \A i \in 0 .. Len(open') : SubSeq(open', 1, i) = SubSeq(open, 1, i)
    BY <1>1, OpenShortened DEF IInv, IsOpen
<1>3. /\ nodesStack = Way(open)
      /\ Len(xmlContext.rememberedPositions) >= 2 + Len(open)
      /\ WellFormed(xmlContext) /\ LogIsSet(xmlContext)
    BY <1>1 DEF IInv, StackIsPath, Declaring, Way
<1>4. nodesStack' = Way(open') /\ Range(nodesStack') \subseteq Range(nodesStack)
    BY <1>1, <1>2, <1>3, WayPopped
<1>5. Len(xmlContext.rememberedPositions) \in Nat /\ Len(xmlContext.rememberedPositions) > 2
    <2>1. Len(xmlContext.rememberedPositions) \in Nat
        BY <1>3, WellFormedPositions
    <2> QED BY <1>2, <1>3, <2>1
<1>6. /\ WellFormed(xmlContext')
      /\ Len(xmlContext'.rememberedPositions) = Len(xmlContext.rememberedPositions) - 1
    <2> DEFINE d == Restore(xmlContext)
    <2>1. /\ WellFormed(d)
          /\ Len(d.rememberedPositions) = Len(xmlContext.rememberedPositions) - 1
        <3> HIDE DEF d
        <3> QED BY <1>3, <1>5, RestoreCloses DEF d
    <2> QED BY <1>1, <2>1
<1>7. LogIsSet(xmlContext')
    BY <1>1, <1>3, <1>5, LogStaysSet
<1>8. TypeOK'
    <2>1. xmlContext' \in Context
        BY <1>6 DEF WellFormed
    <2>2. Range(nodesStack') \subseteq DOMAIN tree
        BY <1>4 DEF IInv, TypeOK
    <2> QED BY <1>1, <2>1, <2>2 DEF IInv, TypeOK
<1>9. ASSUME ~dirty'
      PROVE  Follows(xmlContext', open', scopes')
    <2>1. Follows(xmlContext, open, scopes)
        BY <1>1, <1>9 DEF IInv, Declaring
    <2>2. \A i \in 0 .. Len(open') : scopes'[i] = scopes[i]
        <3> TAKE i \in 0 .. Len(open')
        <3>1. i \in 0 .. Len(open)
            BY <1>2
        <3>2. scopes[i] = ScopeIn(document, SubSeq(open, 1, i))
            BY <3>1 DEF scopes, scope, ScopeIn
        <3>3. scopes'[i] = ScopeIn(document', SubSeq(open', 1, i))
            BY DEF scopes, scope, ScopeIn
        <3>4. SubSeq(open', 1, i) = SubSeq(open, 1, i) /\ document' = document
            BY <1>1, <1>2
        <3> QED BY <3>2, <3>3, <3>4
    <2> DEFINE c == xmlContext
               s == scopes
               t == scopes'
               p == open
               q == open'
    <2>3. /\ WellFormed(c) /\ Len(q) \in Nat /\ Len(p) = Len(q) + 1 /\ Follows(c, p, s)
          /\ \A i \in 0 .. Len(q) : t[i] = s[i]
          /\ xmlContext' = Restore(c)
        BY <1>1, <1>2, <1>3, <2>1, <2>2
    <2> HIDE DEF c, s, t, p, q
    <2>4. Follows(Restore(c), q, t)
        BY <2>3, ElementClosed
    <2> QED BY <2>3, <2>4 DEF q, t
<1>10. Declaring'
    <2>1. Len(xmlContext'.rememberedPositions) >= 2 + Len(open')
        BY <1>2, <1>3, <1>5, <1>6
    <2> QED BY <1>6, <1>7, <1>9, <2>1 DEF Declaring
<1>11. StackIsPath'
    <2>1. ~dirty' => Len(xmlContext'.rememberedPositions) = 2 + Len(open')
        BY <1>9 DEF Follows
    <2> QED BY <1>1, <1>4, <2>1 DEF StackIsPath, Way
<1>12. Building'
    <2>1. DOMAIN document # {}
        BY <1>2
    <2> QED BY <1>1, <2>1 DEF IInv, Building, Built
<1>13. TreeIsDocument' /\ TypesAreResolved'
    BY <1>1, TreeStays DEF IInv
<1>14. IsDocument(document') /\ IsOpen(open', document')
    BY <1>1, <1>2 DEF IInv
<1> QED BY <1>1, <1>8, <1>10, <1>11, <1>12, <1>13, <1>14 DEF IInv

-----------------------------------------------------------------------------
(* Text *)

LEMMA KeptOfOne ==
    /\ \A S : Kept(<< >>, S) = << >>
    /\ \A t, S : Kept(<<t>>, S) = IF t \in S THEN Append(<< >>, t) ELSE << >>
<1>1. ASSUME NEW S
      PROVE  Kept(<< >>, S) = << >>
    <2>1. Len(<< >>) = 0
        OBVIOUS
    <2>2. KeptUpTo(<< >>, S)[0] = << >>
        BY <2>1, KeptUpToSteps
    <2> QED BY <2>1, <2>2 DEF Kept
<1>2. ASSUME NEW t, NEW S
      PROVE  Kept(<<t>>, S) = IF t \in S THEN Append(<< >>, t) ELSE << >>
    <2> DEFINE s == <<t>>
    <2>1. Len(s) = 1 /\ s[1] = t
        OBVIOUS
    <2> HIDE DEF s
    <2> DEFINE u == KeptUpTo(s, S)
    <2>2. /\ u[0] = << >>
          /\ \A i \in 1 .. Len(s) : u[i] = IF s[i] \in S THEN Append(u[i - 1], s[i]) ELSE u[i - 1]
        BY <2>1, KeptUpToSteps
    <2> HIDE DEF u
    <2>3. 1 \in 1 .. Len(s) /\ 1 - 1 = 0
        BY <2>1
    <2>4. u[1] = IF s[1] \in S THEN Append(u[0], s[1]) ELSE u[0]
        BY <2>2, <2>3
    <2>5. u[1] = IF t \in S THEN Append(<< >>, t) ELSE << >>
        BY <2>1, <2>2, <2>4
    <2> QED BY <2>1, <2>5 DEF Kept, s, u
<1> QED BY <1>1, <1>2

(* The node of an element that gets its text. *)
LEMMA NodeWithText ==
    ASSUME NEW n, NEW p, IsNode(n, p), NEW text \in Text,
           NEW m, m = IF IsKept(text, n.type) THEN [n EXCEPT !.text = Append(@, text)] ELSE n
    PROVE  /\ IsNode(m, p)
           /\ m.name = n.name /\ m.type = n.type /\ m.attrs = n.attrs /\ m.xmlns = n.xmlns
           /\ m.text = IF IsKept(text, n.type) THEN Append(n.text, text) ELSE n.text
<1>1. CASE ~IsKept(text, n.type)
    BY <1>1
<1>2. CASE IsKept(text, n.type)
    <2>1. n = [Node(n.name, n.prefix, n.type, n.attrs, n.xmlns) EXCEPT !.text = n.text]
        BY DEF IsNode
    <2>2. m = [Node(n.name, n.prefix, n.type, n.attrs, n.xmlns) EXCEPT !.text = Append(n.text, text)]
        BY <1>2, <2>1 DEF Node
    <2>3. /\ m.name = n.name /\ m.prefix = n.prefix /\ m.type = n.type /\ m.attrs = n.attrs
          /\ m.xmlns = n.xmlns /\ m.text = Append(n.text, text)
        BY <2>2 DEF Node
    <2>4. m = [Node(m.name, m.prefix, m.type, m.attrs, m.xmlns) EXCEPT !.text = m.text]
        BY <2>2, <2>3
    <2>5. Append(n.text, text) \in Seq(Text)
        BY AppendProperties DEF IsNode
    <2>6. IsNode(m, p)
        BY <2>3, <2>4, <2>5 DEF IsNode
    <2> QED BY <1>2, <2>3, <2>6
<1> QED BY <1>1, <1>2

LEMMA TextRead ==
    ASSUME NEW e, e.text = << >>, NEW n, NEW p, NEW g, ReadAs(e, n, p, g), NEW text \in Text,
           NEW d, d.tag = e.tag, d.scope = e.scope, d.text = <<text>>,
           NEW m, m.name = n.name, m.type = n.type, m.attrs = n.attrs, m.xmlns = n.xmlns,
           m.text = IF IsKept(text, n.type) THEN Append(n.text, text) ELSE n.text
    PROVE  ReadAs(d, m, p, g)
<1> DEFINE S == {t \in Text : IsKept(t, n.type)}
<1>1. n.text = << >>
    BY KeptOfOne DEF ReadAs
<1>2. text \in S <=> IsKept(text, n.type)
    OBVIOUS
<1>3. m.text = Kept(<<text>>, S)
    <2>1. Kept(<<text>>, S) = IF text \in S THEN Append(<< >>, text) ELSE << >>
        BY KeptOfOne
    <2> HIDE DEF S
    <2> QED BY <1>1, <1>2, <2>1
<1>4. Kept(d.text, {t \in Text : IsKept(t, m.type)}) = Kept(<<text>>, S)
    OBVIOUS
<1> HIDE DEF S
<1>5. m.text = Kept(d.text, {t \in Text : IsKept(t, m.type)})
    BY <1>3, <1>4
<1> QED BY <1>5 DEF ReadAs
LEMMA WayEnds ==
    ASSUME NEW p \in Seq(Nat)
    PROVE  Last(Way(p)) = p
<1>1. Len(Way(p)) = Len(p) + 1 /\ Len(p) \in Nat
    BY WayIsSeq, LenProperties
<1>2. Way(p)[Len(p) + 1] = SubSeq(p, 1, Len(p))
    <2>1. Len(p) + 1 \in 1 .. Len(p) + 1 /\ (Len(p) + 1) - 1 = Len(p)
        BY <1>1
    <2> QED BY <2>1 DEF Way
<1>3. SubSeq(p, 1, Len(p)) = p
    BY WholePath
<1> QED BY <1>1, <1>2, <1>3 DEF Last

LEMMA CharactersKeepsIInv ==
    ASSUME IInv, NEW text \in Text, characters(text)
    PROVE  IInv'
<1> DEFINE e == document[open]
           d == [e EXCEPT !.text = <<text>>]
           n == tree[open]
           m == IF IsKept(text, n.type) THEN [n EXCEPT !.text = Append(@, text)] ELSE n
<1>1. /\ open # << >> /\ phase = "parsing" /\ phase' = phase
      /\ \A p \in DOMAIN document : document[p].text = << >>
      /\ document' = [document EXCEPT ![open].text = <<text>>]
      /\ tree' = IF IsKept(text, tree[Last(nodesStack)].type)
                 THEN [tree EXCEPT ![Last(nodesStack)].text = Append(@, text)]
                 ELSE tree
      /\ library' = library /\ xmlContext' = xmlContext /\ nodesStack' = nodesStack /\ class' = class
      /\ dirty' = dirty /\ given' = given /\ open' = open
    BY DEF characters
<1>2. open \in Seq(Nat) /\ open \in DOMAIN document
    BY <1>1, OpenShortened DEF IInv, IsOpen
<1>3. Last(nodesStack) = open
    <2>1. nodesStack = Way(open)
        BY <1>1 DEF IInv, StackIsPath, Way
    <2> QED BY <1>2, <2>1, WayEnds
<1>4. DOMAIN tree = DOMAIN document \cup {<< >>}
    BY <1>1, <1>2 DEF IInv, Building, Built
<1>5. /\ document = [p \in DOMAIN document |-> document[p]]
      /\ tree = [p \in DOMAIN tree |-> tree[p]]
    BY DEF IInv, IsDocument, TypeOK, IsTree
<1>6. /\ DOMAIN document' = DOMAIN document
      /\ document' = [p \in DOMAIN document' |-> document'[p]]
      /\ document'[open] = d
      /\ \A p \in DOMAIN document : p # open => document'[p] = document[p]
    BY <1>1, <1>2, <1>5
<1>7. /\ DOMAIN tree' = DOMAIN tree
      /\ tree' = [p \in DOMAIN tree' |-> tree'[p]]
      /\ tree'[open] = m
      /\ \A p \in DOMAIN tree : p # open => tree'[p] = tree[p]
    <2>1. open \in DOMAIN tree
        BY <1>2, <1>4
    <2>2. CASE IsKept(text, n.type)
        <3>1. tree' = [tree EXCEPT ![open].text = Append(@, text)]
            BY <1>1, <1>3, <2>2
        <3> QED BY <1>5, <2>1, <2>2, <3>1
    <2>3. CASE ~IsKept(text, n.type)
        <3>1. tree' = tree
            BY <1>1, <1>3, <2>3
        <3> QED BY <1>5, <2>3, <3>1
    <2> QED BY <2>2, <2>3
<1>8. e \in Element /\ e.text = << >>
    BY <1>1, <1>2 DEF IInv, IsDocument
<1>9. d \in Element /\ d.tag = e.tag /\ d.scope = e.scope /\ d.text = <<text>>
    BY <1>8 DEF Element
<1>10. IsNode(n, open)
    BY <1>2, <1>4 DEF IInv, TypeOK, IsTree
<1>11. /\ IsNode(m, open)
       /\ m.name = n.name /\ m.type = n.type /\ m.attrs = n.attrs /\ m.xmlns = n.xmlns
       /\ m.text = IF IsKept(text, n.type) THEN Append(n.text, text) ELSE n.text
    BY <1>10, NodeWithText
<1> HIDE DEF e, d, n, m
<1>12. IsTree(tree')
    <2>1. \A p \in DOMAIN tree' : IsNode(tree'[p], p)
        BY <1>7, <1>11 DEF IInv, TypeOK, IsTree
    <2>2. Child(<< >>, tree') = Child(<< >>, tree)
        BY <1>7 DEF Child
    <2> QED BY <1>7, <2>1, <2>2 DEF IInv, TypeOK, IsTree
<1>13. TypeOK'
    BY <1>1, <1>7, <1>12 DEF IInv, TypeOK
<1>14. IsDocument(document') /\ IsOpen(open', document')
    <2>1. \A p : Child(p, document') = Child(p, document)
        BY <1>6 DEF Child
    <2>2. \A p \in DOMAIN document' : document'[p] \in Element
        BY <1>6, <1>9 DEF IInv, IsDocument
    <2> QED BY <1>1, <1>6, <2>1, <2>2 DEF IInv, IsDocument, IsOpen
<1>15. Declaring' /\ StackIsPath'
    <2>1. \A p \in DOMAIN document : document'[p].scope = document[p].scope
        BY <1>6, <1>9 DEF e
    <2>2. \A i \in 0 .. Len(open) :
              SubSeq(open, 1, i) = << >> \/ SubSeq(open, 1, i) \in DOMAIN document
        <3>1. \A i \in 0 .. Len(open) : i \in 1 .. Len(open) \/ i = 0
            BY <1>2, LenProperties
        <3>2. SubSeq(open, 1, 0) = << >>
            <4>1. 0 \in 0 .. Len(open)
                BY <1>2, LenProperties
            <4>2. SubSeq(open, 1, 0) \in Seq(Nat) /\ Len(SubSeq(open, 1, 0)) = 0
                BY <1>2, <4>1, PrefixProperties
            <4> QED BY <4>2, EmptySeq
        <3> QED BY <3>1, <3>2 DEF IInv, IsOpen
    <2>3. scopes' = scopes
        <3>1. \A i \in 0 .. Len(open) :
                  ScopeIn(document', SubSeq(open, 1, i)) = ScopeIn(document, SubSeq(open, 1, i))
            BY <2>1, <2>2 DEF ScopeIn
        <3>2. scopes = [i \in 0 .. Len(open) |-> ScopeIn(document, SubSeq(open, 1, i))]
            BY DEF scopes, scope, ScopeIn
        <3>3. scopes' = [i \in 0 .. Len(open') |-> ScopeIn(document', SubSeq(open', 1, i))]
            BY DEF scopes, scope, ScopeIn
        <3> QED BY <1>1, <3>1, <3>2, <3>3
    <2> QED BY <1>1, <2>3 DEF IInv, Declaring, StackIsPath
<1>16. Building'
    <2>1. DOMAIN document # {}
        BY <1>2
    <2> QED BY <1>1, <1>4, <1>6, <1>7, <2>1 DEF Building
<1>17. TreeIsDocument'
    <2>1. SUFFICES ASSUME ~dirty
                   PROVE  /\ DOMAIN tree' = DOMAIN document' \cup {<< >>}
                          /\ \A p \in DOMAIN document' : ReadAs(document'[p], tree'[p], p, given')
        BY <1>1, ElementByElementNext
    <2>2. document # << >>
        BY <1>2, NoElements
    <2>3. \A p \in DOMAIN document : ReadAs(document[p], tree[p], p, given)
        BY <2>1, <2>2, ElementByElement DEF IInv
    <2>4. ReadAs(e, n, open, given)
        BY <1>2, <2>3 DEF e, n
    <2>5. ReadAs(d, m, open, given)
        BY <1>8, <1>9, <1>11, <2>4, TextRead
    <2>6. ASSUME NEW p \in DOMAIN document'
          PROVE  ReadAs(document'[p], tree'[p], p, given')
        <3>1. CASE p = open
            BY <1>1, <1>6, <1>7, <2>5, <3>1
        <3>2. CASE p # open
            <4>1. document'[p] = document[p] /\ tree'[p] = tree[p]
                BY <1>4, <1>6, <1>7, <2>6, <3>2
            <4> QED BY <1>1, <1>6, <2>3, <4>1
        <3> QED BY <3>1, <3>2
    <2> QED BY <1>4, <1>6, <1>7, <2>6
<1>18. TypesAreResolved'
    <2>1. SUFFICES ASSUME ~dirty, NEW p \in DOMAIN document'
                   PROVE  TypedAs(document'[p], tree'[p], p, tree'[Front(p)], given')
        BY <1>1, ElementByElementNext
    <2>2. TypedAs(document[p], tree[p], p, tree[Front(p)], given)
        BY <1>6, <2>1, ElementByElement DEF IInv
    <2>3. document'[p].tag = document[p].tag /\ document'[p].scope = document[p].scope
        BY <1>6, <1>9, <2>1 DEF e
    <2>4. \A q \in DOMAIN tree : tree'[q].type = tree[q].type /\ tree'[q].name = tree[q].name
        BY <1>7, <1>11 DEF n
    <2>5. p \in DOMAIN tree /\ Front(p) \in DOMAIN tree
        BY <1>4, <1>6, <2>1 DEF IInv, IsDocument
    <2> QED BY <1>1, <2>2, <2>3, <2>4, <2>5 DEF TypedAs
<1>19. phase' = "idle" /\ ~dirty' => open' = << >>
    BY <1>1
<1> QED BY <1>13, <1>14, <1>15, <1>16, <1>17, <1>18, <1>19 DEF IInv
-----------------------------------------------------------------------------
(* A start tag that is read *)

(* A prefix that the parser does not throw at means what the document says. *)
LEMMA TagReads ==
    ASSUME IInv, NEW tag \in Tags, ~dirty, NEW p \in Prefix
    PROVE  /\ resolver(tag)[p] # Unset => resolver(tag)[p] = Reads(here(tag))[p]
           /\ addNamespaces(tag).prefixMap[p] # Unset =>
                  addNamespaces(tag).prefixMap[p] = Reads(here(tag))[p]
<1>1. Reads(addNamespaces(tag).prefixMap) = Reads(here(tag))
    BY TagContext
<1>2. \A map : map[p] # Unset => Reads(map)[p] = map[p]
    BY DEF Reads, isSetPrefix
<1>3. addNamespaces(tag).prefixMap[p] # Unset =>
          addNamespaces(tag).prefixMap[p] = Reads(here(tag))[p]
    BY <1>1, <1>2
<1>4. here(tag)[p] # Unset => here(tag)[p] = Reads(here(tag))[p]
    BY <1>2
<1> QED BY <1>3, <1>4 DEF resolver

(* The first element is the root. *)
LEMMA TagRoot ==
    ASSUME IInv, NEW tag \in Tags, MayStart(tag),
           NEW path, path = NextChild(open, document)
    PROVE  /\ path = <<1>> <=> atRoot
           /\ predefined <=> path = <<1>> /\ Cardinality(Child(<< >>, given)) = 1
<1>1. /\ atRoot <=> open = << >>
      /\ atRoot => DOMAIN document = {} /\ tree = given
    BY TagPlace
<1>2. ASSUME atRoot
      PROVE  path = <<1>>
    <2>1. Child(<< >>, document) = {}
        BY <1>1, <1>2 DEF Child
    <2>2. Cardinality({}) = 0
        BY FS_EmptySet
    <2>3. Cardinality(Child(<< >>, document)) = 0
        BY <2>1, <2>2, Zenon
    <2>4. path = Append(<< >>, 1)
        BY <1>1, <1>2, <2>3 DEF NextChild
    <2>5. Append(<< >>, 1) = <<1>>
        OBVIOUS
    <2> QED BY <2>4, <2>5
<1>3. ASSUME path = << 1 >>
      PROVE  atRoot
    <2>1. Front(path) = open
        <3>1. /\ IsFiniteSet(DOMAIN document)
              /\ open \in Seq(Nat)
              /\ \A r \in DOMAIN document : r # << >> => Last(r) \in 1 .. Cardinality(Child(Front(r), document))
            BY DEF IInv, IsDocument, IsOpen
        <3> QED BY <3>1, ChildIsNew
    <2>2. Front(<<1>>) = << >>
        BY DEF Front
    <2> QED BY <1>1, <1>3, <2>1, <2>2
<1>4. path = <<1>> <=> atRoot
    BY <1>2, <1>3
<1> QED BY <1>1, <1>4 DEF predefined

(* Its attributes are found to be xsi:type when they are. *)
LEMMA TagAttr ==
    ASSUME IInv, NEW tag \in Tags, ~dirty, AttrsAreSet(tag), NEW a \in Range(tag.attrs)
    PROVE  LET means == Reads(here(tag))
           IN  /\ getAttrQName(tag, a) = MeantName(means, a)
               /\ getAttrQName(tag, a) = XsiType =>
                      nsSplit(tag, a.value) = [ns |-> means[a.value.prefix], local |-> a.value.local]
<1> DEFINE means == Reads(here(tag))
<1>1. a.prefix \in Prefix /\ a.value.prefix \in Prefix
    BY TagsAssumption
<1>2. resolver(tag)[a.prefix] = means[a.prefix]
    BY <1>1, TagReads DEF AttrsAreSet
<1>3. ASSUME getAttrQName(tag, a) = XsiType
      PROVE  addNamespaces(tag).prefixMap[a.value.prefix] = means[a.value.prefix]
    <2>1. addNamespaces(tag).prefixMap[a.value.prefix] # Unset
        BY <1>3 DEF AttrsAreSet, Named
    <2> QED BY <1>1, <2>1, TagReads
<1> HIDE DEF means
<1>4. getAttrQName(tag, a) = MeantName(means, a)
    BY <1>2 DEF getAttrQName, getQName, MeantName
<1>5. getAttrQName(tag, a) = XsiType =>
          nsSplit(tag, a.value) = [ns |-> means[a.value.prefix], local |-> a.value.local]
    BY <1>3 DEF nsSplit
<1> QED BY <1>4, <1>5 DEF means

LEMMA TagRead ==
    ASSUME IInv, NEW tag \in Tags, MayStart(tag), NameIsSet(tag), AttrsAreSet(tag), ~dirty,
           NEW path, path = NextChild(open, document),
           NEW e, e.tag = tag, e.scope = here(tag), e.text = << >>
    PROVE  ReadAs(e, newNode(tag), path, given)
<1> DEFINE means == Reads(here(tag))
           n     == newNode(tag)
           names == {getAttrQName(tag, a) : a \in Range(tag.attrs)}
<1>1. predefined <=> path = <<1>> /\ Cardinality(Child(<< >>, given)) = 1
    BY TagRoot
<1>2. /\ n.name = elementName(tag)
      /\ n.attrs = names \ {XsiType, XsiArray}
      /\ n.text = << >>
      /\ n.xmlns = {l \in Range(getLastStoredLinks(addNamespaces(tag))) : ~isPersistPrefix(l.prefix)}
    BY DEF newNode, Node
<1> HIDE DEF n, names, means
<1>3. elementName(tag) = NameOf(tag, means, path, given)
    <2>1. tag.prefix \in Prefix
        BY TagsAssumption
    <2>2. getQName(tag, tag.prefix, tag.local) = [ns |-> means[tag.prefix], local |-> tag.local]
        BY <2>1, TagReads DEF NameIsSet, getQName, means
    <2>3. predefined => tree = given
        BY TagPlace DEF predefined
    <2> QED BY <1>1, <2>2, <2>3 DEF elementName, NameOf
<1>4. names = {MeantName(means, a) : a \in Range(tag.attrs)}
    <2>1. \A a \in Range(tag.attrs) : getAttrQName(tag, a) = MeantName(means, a)
        BY TagAttr DEF means
    <2> QED BY <2>1 DEF names
<1>5. n.text = Kept(e.text, {t \in Text : IsKept(t, n.type)})
    BY <1>2, KeptOfOne
<1>6. n.xmlns = {l \in Range(tag.decls) : l.prefix \notin Persistent}
    <2>1. Range(getLastStoredLinks(addNamespaces(tag))) = Range(tag.decls)
        BY TagContext
    <2> QED BY <1>2, <2>1 DEF isPersistPrefix
<1> QED BY <1>2, <1>3, <1>4, <1>5, <1>6 DEF ReadAs, n, means

LEMMA TagTyped ==
    ASSUME IInv, NEW tag \in Tags, MayStart(tag), NameIsSet(tag), AttrsAreSet(tag), ~dirty,
           subType(tag) # NULL,
           NEW path, path = NextChild(open, document),
           NEW e, e.tag = tag, e.scope = here(tag),
           NEW parent, parent.type = topType(tag)
    PROVE  TypedAs(e, newNode(tag), path, parent, given)
<1> DEFINE means == Reads(here(tag))
           types == {a \in Range(tag.attrs) : MeantName(means, a) = XsiType}
           n     == newNode(tag)
<1>1. n.type = subType(tag) /\ n.name = elementName(tag)
    BY DEF newNode, Node
<1>2. Named(tag, XsiType) = types
    <2>1. \A a \in Range(tag.attrs) : getAttrQName(tag, a) = MeantName(means, a)
        BY TagAttr
    <2> QED BY <2>1 DEF Named
<1>3. \A a \in types : nsSplit(tag, a.value) = [ns |-> means[a.value.prefix], local |-> a.value.local]
    BY <1>2, TagAttr DEF Named
<1>4. predefined => path = <<1>> /\ tree = given
    BY TagRoot, TagPlace
<1>5. e.tag = tag /\ Reads(e.scope) = means
    OBVIOUS
<1> HIDE DEF n, means
<1>6. ASSUME types # {}
      PROVE  TypedAs(e, newNode(tag), path, parent, given)
    <2> DEFINE value == (CHOOSE a \in types : TRUE).value
    <2>1. nsSplit(tag, value) = [ns |-> means[value.prefix], local |-> value.local]
        <3>1. (CHOOSE a \in types : TRUE) \in types
            BY <1>6
        <3> HIDE DEF types
        <3> QED BY <1>3, <3>1
    <2>2. HasXsiType(tag) /\ ~ArrayThrows(tag)
        <3>1. HasXsiType(tag)
            BY <1>2, <1>6 DEF HasXsiType
        <3>2. ArrayThrows(tag) => subType(tag) = NULL
            BY DEF ArrayThrows, subType
        <3> QED BY <3>1, <3>2
    <2>3. n.type = createByName(Types, nsSplit(tag, value))
        BY <1>1, <1>2, <2>2 DEF subType, xsiType
    <2> QED BY <1>5, <1>6, <2>1, <2>3 DEF TypedAs, n
<1>7. CASE types = {}
    <2>1. ~HasXsiType(tag)
        BY <1>2, <1>7 DEF HasXsiType
    <2>2. parent.type.elements[n.name] # NULL =>
              \/ n.type = createByName(Types, parent.type.elements[n.name])
              \/ path = <<1>> /\ n.type = given[path].type
        BY <1>1, <1>4, <2>1 DEF subType, declaredType, createSubObject
    <2> QED BY <1>5, <1>7, <2>2 DEF TypedAs, n
<1> QED BY <1>6, <1>7

LEMMA StartElementKeepsIInv ==
    ASSUME IInv, NEW tag \in Tags, startElement(tag)
    PROVE  IInv'
<1> DEFINE path == NextChild(open, document)
           node == newNode(tag)
           e    == [tag |-> tag, scope |-> here(tag), text |-> << >>]
           c    == addNamespaces(tag)
<1>1. /\ MayStart(tag) /\ NameIsSet(tag) /\ AttrsAreSet(tag) /\ subType(tag) # NULL
      /\ phase = "parsing" /\ phase' = phase
      /\ tree' = withNode(top(tag), NextChild(Last(nodesStack), top(tag)), node)
      /\ nodesStack' = Append(nodesStack, NextChild(Last(nodesStack), top(tag)))
      /\ xmlContext' = Remember(c)
      /\ open' = path
      /\ document' = withNode(document, open', e)
      /\ library' = library /\ class' = class /\ dirty' = dirty /\ given' = given
    BY DEF startElement, MayStart
<1>2. /\ Len(open) \in Nat /\ Last(nodesStack) = open
      /\ atRoot <=> open = << >>
      /\ atRoot => DOMAIN document = {} /\ tree = given
      /\ ~atRoot => open \in DOMAIN document /\ DOMAIN tree = DOMAIN document \cup {<< >>}
      /\ DOMAIN top(tag) = DOMAIN document \cup {<< >>}
      /\ \A p : Child(p, top(tag)) = Child(p, document)
    BY <1>1, TagPlace
<1>3. NextChild(Last(nodesStack), top(tag)) = path
    BY <1>2 DEF NextChild
<1>4. /\ tree' = withNode(top(tag), path, node)
      /\ nodesStack' = Append(nodesStack, path)
      /\ document' = withNode(document, path, e)
    BY <1>1, <1>3
<1>5. e \in Element /\ e.tag = tag /\ e.scope = here(tag) /\ e.text = << >>
    <2>1. here(tag) \in PrefixMap
        BY TagContext
    <2> QED BY <2>1 DEF Element
<1> HIDE DEF e
<1>6. /\ path \in Seq(Nat) /\ path # << >> /\ path \notin DOMAIN document
      /\ Len(path) = Len(open) + 1
      /\ Front(path) = open
      /\ \A i \in 0 .. Len(open) : SubSeq(path, 1, i) = SubSeq(open, 1, i)
      /\ SubSeq(path, 1, Len(open) + 1) = path
      /\ IsDocument(withNode(document, path, e))
      /\ IsOpen(path, withNode(document, path, e))
    BY <1>5, DocumentGrows DEF IInv
<1>7. IsNode(node, path)
    BY <1>1, <1>6, TagNode
<1>8. open \in Seq(Nat) /\ path = NextChild(open, top(tag)) /\ nodesStack = Way(open)
    BY <1>1, <1>2, <1>3 DEF IInv, IsOpen, StackIsPath, Way
<1>9. IsFiniteSet(DOMAIN top(tag)) /\ path \notin DOMAIN top(tag)
    <2>1. IsFiniteSet(DOMAIN document)
        BY DEF IInv, IsDocument
    <2> QED BY <1>2, <1>6, <2>1, FS_AddElement
<1>10. path = NextChild(open, document)
    OBVIOUS
<1>11. nodesStack' = Way(path) /\ Range(Way(path)) = Range(nodesStack) \cup {path}
    <2>1. path = Append(open, Cardinality(Child(open, document)) + 1)
        BY DEF NextChild
    <2>2. Cardinality(Child(open, document)) + 1 \in Nat
        <3>1. IsFiniteSet(DOMAIN document)
            BY DEF IInv, IsDocument
        <3> QED BY <3>1, FS_Subset, FS_CardinalityType DEF Child
    <2> QED BY <1>4, <1>8, <2>1, <2>2, WayPushed
<1> HIDE DEF path, node
<1>12. /\ DOMAIN tree' = DOMAIN document \cup {<< >>, path}
       /\ tree'[path] = node
       /\ \A p \in DOMAIN top(tag) : tree'[p] = top(tag)[p]
    <2>1. LET more == withNode(top(tag), path, node)
          IN  /\ DOMAIN more = DOMAIN top(tag) \cup {path}
              /\ more[path] = node
              /\ \A p \in DOMAIN top(tag) : more[p] = top(tag)[p]
        BY <1>9 DEF withNode
    <2> QED BY <1>2, <1>4, <2>1
<1>13. /\ DOMAIN document' = DOMAIN document \cup {path}
       /\ document'[path] = e
       /\ \A p \in DOMAIN document : document'[p] = document[p]
    <2>1. LET more == withNode(document, path, e)
          IN  /\ DOMAIN more = DOMAIN document \cup {path}
              /\ more[path] = e
              /\ \A p \in DOMAIN document : more[p] = document[p]
        BY <1>6 DEF withNode
    <2> QED BY <1>4, <2>1
<1>14. IsTree(tree')
    <2>1. IsTree(top(tag))
        BY <1>1, TagTypes
    <2> QED BY <1>4, <1>6, <1>7, <1>8, <1>9, <2>1, TreeGrows
<1>15. Range(nodesStack') \subseteq DOMAIN tree'
    <2>1. CASE atRoot
        <3>1. Range(nodesStack) = {<< >>}
            BY <1>1, <2>1, RootIsObject
        <3> QED BY <1>11, <1>12, <3>1
    <2>2. CASE ~atRoot
        <3>1. Range(nodesStack) \subseteq DOMAIN tree
            BY DEF IInv, TypeOK
        <3> QED BY <1>2, <1>11, <1>12, <2>2, <3>1
    <2> QED BY <2>1, <2>2
<1>16. /\ WellFormed(c) /\ LogIsSet(c)
       /\ c.rememberedPositions = xmlContext.rememberedPositions
    BY TagContext
<1>17. /\ WellFormed(xmlContext') /\ LogIsSet(xmlContext')
       /\ Len(xmlContext'.rememberedPositions) = Len(xmlContext.rememberedPositions) + 1
    <2> DEFINE d == Remember(c)
    <2> HIDE DEF c
    <2>1. /\ WellFormed(d)
          /\ d.prefixMap = c.prefixMap
          /\ d.restoreLinks = c.restoreLinks
          /\ Len(d.rememberedPositions) = Len(c.rememberedPositions) + 1
        <3> HIDE DEF d
        <3> QED BY <1>16, RememberOpens DEF d
    <2> HIDE DEF d
    <2>2. LogIsSet(d)
        BY <1>16, <2>1 DEF LogIsSet
    <2> QED BY <1>1, <1>16, <2>1, <2>2 DEF d
<1>18. TypeOK'
    <2>1. xmlContext' \in Context
        BY <1>17 DEF WellFormed
    <2> QED BY <1>1, <1>14, <1>15, <2>1 DEF IInv, TypeOK
<1>19. IsDocument(document') /\ IsOpen(open', document')
    BY <1>1, <1>4, <1>6
<1>20. ASSUME ~dirty'
       PROVE  Follows(xmlContext', open', scopes')
    <2>1. Follows(xmlContext, open, scopes)
        BY <1>1, <1>20 DEF IInv, Declaring
    <2>2. scopes = [i \in 0 .. Len(open) |-> ScopeIn(document, SubSeq(open, 1, i))]
        BY DEF scopes, scope, ScopeIn
    <2>3. scopes' = [i \in 0 .. Len(open') |-> ScopeIn(document', SubSeq(open', 1, i))]
        BY DEF scopes, scope, ScopeIn
    <2>4. \A p : p \in DOMAIN document \cup {<< >>} => ScopeIn(document', p) = ScopeIn(document, p)
        BY <1>13 DEF ScopeIn
    <2>5. \A i \in 0 .. Len(open) : SubSeq(open, 1, i) \in DOMAIN document \cup {<< >>}
        <3>1. \A i \in 0 .. Len(open) : i \in 1 .. Len(open) \/ i = 0
            BY <1>2
        <3>2. SubSeq(open, 1, 0) = << >>
            <4>1. 0 \in 0 .. Len(open)
                BY <1>2
            <4>2. SubSeq(open, 1, 0) \in Seq(Nat) /\ Len(SubSeq(open, 1, 0)) = 0
                BY <1>8, <4>1, PrefixProperties
            <4> QED BY <4>2, EmptySeq
        <3> QED BY <3>1, <3>2 DEF IInv, IsOpen
    <2>6. \A i \in 0 .. Len(open) : scopes'[i] = scopes[i]
        <3> TAKE i \in 0 .. Len(open)
        <3>1. i \in 0 .. Len(open')
            BY <1>1, <1>2, <1>6
        <3>2. scopes'[i] = ScopeIn(document', SubSeq(open, 1, i))
            BY <1>1, <1>6, <2>3, <3>1
        <3> QED BY <2>2, <2>4, <2>5, <3>2
    <2>7. scopes'[Len(open) + 1] = within(scopes[Len(open)], tag.decls)
        <3>1. Len(open) \in 0 .. Len(open) /\ Len(open) + 1 \in 0 .. Len(open')
            BY <1>1, <1>2, <1>6
        <3>2. scopes'[Len(open) + 1] = ScopeIn(document', path)
            BY <1>1, <1>6, <2>3, <3>1
        <3>3. ScopeIn(document', path) = here(tag)
            BY <1>5, <1>6, <1>13 DEF ScopeIn
        <3>4. scopes[Len(open)] = ScopeIn(document, open)
            BY <1>8, <2>2, <3>1, WholePath
        <3>5. ScopeIn(document, open) = scope(open)
            BY DEF ScopeIn, scope
        <3> QED BY <3>2, <3>3, <3>4, <3>5 DEF here
    <2> DEFINE x == xmlContext
               ls == tag.decls
               s == scopes
               t == scopes'
               p == open
               q == open'
    <2>8. /\ WellFormed(x) /\ LogIsSet(x) /\ ls \in Seq(Link) /\ Once(ls)
          /\ Len(p) \in Nat /\ Len(q) = Len(p) + 1
          /\ Follows(x, p, s)
          /\ \A i \in 0 .. Len(p) : t[i] = s[i]
          /\ t[Len(p) + 1] = within(s[Len(p)], ls)
          /\ xmlContext' = Remember(declaredUpTo(x, ls)[Len(ls)])
        BY <1>1, <1>2, <1>6, <2>1, <2>6, <2>7, TagsAssumption DEF IInv, Declaring, Once, addNamespaces
    <2> HIDE DEF x, ls, s, t, p, q
    <2>9. Follows(Remember(declaredUpTo(x, ls)[Len(ls)]), q, t)
        BY <2>8, ElementOpened
    <2> QED BY <2>8, <2>9 DEF q, t
<1>21. Declaring'
    <2>1. Len(xmlContext.rememberedPositions) >= 2 + Len(open)
        BY <1>1 DEF IInv, Declaring
    <2>2. Len(xmlContext.rememberedPositions) \in Nat
        BY WellFormedPositions DEF IInv, Declaring
    <2>3. Len(xmlContext'.rememberedPositions) >= 2 + Len(open')
        BY <1>1, <1>2, <1>6, <1>17, <2>1, <2>2
    <2> QED BY <1>17, <1>20, <2>3 DEF Declaring
<1>22. StackIsPath'
    <2>1. ~dirty' => Len(xmlContext'.rememberedPositions) = 2 + Len(open')
        BY <1>20 DEF Follows
    <2> QED BY <1>1, <1>11, <2>1 DEF StackIsPath, Way
<1>23. Building'
    <2>1. DOMAIN document' # {} /\ DOMAIN tree' = DOMAIN document' \cup {<< >>}
        BY <1>12, <1>13
    <2> QED BY <2>1 DEF Building
<1>24. ASSUME NEW p \in DOMAIN document
       PROVE  /\ ~atRoot /\ p \in DOMAIN tree /\ Front(p) \in DOMAIN tree
              /\ tree'[p] = tree[p] /\ tree'[Front(p)] = tree[Front(p)]
              /\ document # << >>
    <2>1. ~atRoot
        BY <1>2, <1>24
    <2>2. top(tag) = tree
        BY <2>1 DEF top
    <2>3. Front(p) \in DOMAIN document \cup {<< >>}
        BY <1>24 DEF IInv, IsDocument
    <2>4. document # << >>
        BY <1>24, NoElements
    <2> QED BY <1>2, <1>12, <1>24, <2>1, <2>2, <2>3, <2>4
<1>25. TreeIsDocument'
    <2>1. SUFFICES ASSUME ~dirty, NEW p \in DOMAIN document'
                   PROVE  ReadAs(document'[p], tree'[p], p, given')
        BY <1>1, <1>12, <1>13, ElementByElementNext
    <2>2. CASE p = path
        <3>1. ReadAs(e, newNode(tag), path, given)
            BY <1>1, <1>5, <1>10, <2>1, TagRead
        <3> QED BY <1>1, <1>12, <1>13, <2>2, <3>1 DEF node
    <2>3. CASE p # path
        <3>1. p \in DOMAIN document
            BY <1>13, <2>1, <2>3
        <3>2. ReadAs(document[p], tree[p], p, given)
            BY <1>24, <2>1, <3>1, ElementByElement DEF IInv
        <3> QED BY <1>1, <1>13, <1>24, <3>1, <3>2
    <2> QED BY <2>2, <2>3
<1>26. TypesAreResolved'
    <2>1. SUFFICES ASSUME ~dirty, NEW p \in DOMAIN document'
                   PROVE  TypedAs(document'[p], tree'[p], p, tree'[Front(p)], given')
        BY <1>1, ElementByElementNext
    <2>2. CASE p = path
        <3>1. tree'[open].type = topType(tag)
            <4>1. open \in DOMAIN top(tag)
                BY <1>2
            <4>2. CASE atRoot
                <5>1. topType(tag) \in SchemaType
                    BY <1>1, TagTypes
                <5>2. ObjectOf(topType(tag))[<< >>].type = topType(tag)
                    BY <5>1, ObjectIsTree
                <5> QED BY <1>2, <1>12, <4>1, <4>2, <5>2 DEF top
            <4>3. CASE ~atRoot
                BY <1>2, <1>12, <4>1, <4>3 DEF top, topType
            <4> QED BY <4>2, <4>3
        <3>2. TypedAs(e, newNode(tag), path, tree'[open], given)
            BY <1>1, <1>5, <1>10, <2>1, <3>1, TagTyped
        <3> QED BY <1>1, <1>6, <1>12, <1>13, <2>2, <3>2 DEF node
    <2>3. CASE p # path
        <3>1. p \in DOMAIN document
            BY <1>13, <2>1, <2>3
        <3>2. TypedAs(document[p], tree[p], p, tree[Front(p)], given)
            BY <2>1, <3>1, ElementByElement DEF IInv
        <3> QED BY <1>1, <1>13, <1>24, <3>1, <3>2
    <2> QED BY <2>2, <2>3
<1>27. phase' = "idle" /\ ~dirty' => open' = << >>
    BY <1>1
<1> QED BY <1>18, <1>19, <1>21, <1>22, <1>23, <1>25, <1>26, <1>27 DEF IInv
LEMMA NextIInv == IInv /\ [Next]_vars => IInv'
<1> SUFFICES ASSUME IInv, [Next]_vars PROVE IInv'
    OBVIOUS
<1>1. CASE \E o \in Objects \cup {[class |-> class, tree |-> tree]} : parse(o)
    BY <1>1, ParseKeepsIInv
<1>2. ASSUME NEW tag \in Tags,
             startElement(tag) \/ nameThrows(tag) \/ rootThrows(tag) \/ typeThrows(tag)
      PROVE  IInv'
    <2>1. CASE startElement(tag)
        BY <2>1, StartElementKeepsIInv
    <2>2. CASE nameThrows(tag)
        BY <2>2, NameThrowsKeepsIInv
    <2>3. CASE rootThrows(tag)
        BY <2>3, RootThrowsKeepsIInv
    <2>4. CASE typeThrows(tag)
        BY <2>4, TypeThrowsKeepsIInv
    <2> QED BY <1>2, <2>1, <2>2, <2>3, <2>4
<1>3. CASE \E text \in Text : characters(text)
    BY <1>3, CharactersKeepsIInv
<1>4. CASE endElement
    BY <1>4, EndElementKeepsIInv
<1>5. CASE endDocument
    BY <1>5, EndDocumentKeepsIInv
<1>6. CASE documentThrows
    BY <1>6, DocumentThrowsKeepsIInv
<1>7. CASE UNCHANGED vars
    <2>1. /\ library' = library /\ xmlContext' = xmlContext /\ nodesStack' = nodesStack
          /\ class' = class /\ tree' = tree /\ phase' = phase /\ dirty' = dirty
          /\ given' = given /\ document' = document /\ open' = open
        BY <1>7 DEF vars
    <2>2. TypeOK' /\ IsDocument(document') /\ IsOpen(open', document')
        BY <2>1 DEF IInv, TypeOK
    <2>3. scopes' = scopes
        BY <2>1 DEF scopes, scope
    <2>4. Declaring' /\ StackIsPath' /\ Building'
        BY <2>1, <2>3 DEF IInv, Declaring, StackIsPath, Building, Built
    <2>5. TreeIsDocument' /\ TypesAreResolved'
        BY <2>1, TreeStays DEF IInv
    <2> QED BY <2>1, <2>2, <2>4, <2>5 DEF IInv
<1> QED BY <1>1, <1>2, <1>3, <1>4, <1>5, <1>6, <1>7 DEF Next

-----------------------------------------------------------------------------
(* Theorems *)

(* The invariant holds whatever documents are read, with whatever library, *)
(* and wherever they fail.                                                 *)
THEOREM Invariance == Spec => []IInv
<1>1. Init => IInv
    BY InitIInv
<1>2. IInv /\ [Next]_vars => IInv'
    BY NextIInv
<1> QED BY <1>1, <1>2, PTL DEF Spec

(* The stack has only nodes of the tree, and every node a type, the name of *)
(* an element and declarations of prefixes that do not persist.             *)
THEOREM TypeCorrectness == Spec => []TypeOK
<1>1. IInv => TypeOK
    BY DEF IInv
<1> QED BY <1>1, Invariance, PTL

(* The handlers know where in the document they are, and until a parse fails *)
(* a prefix means to them what it means there: each start tag puts its       *)
(* declarations on top of the bindings around it, and each end tag takes its *)
(* own back, through any number of documents.                                *)
THEOREM Following == Spec => []ParserFollowsDocument
<1>1. IInv => ParserFollowsDocument
    <2> SUFFICES ASSUME IInv PROVE ParserFollowsDocument
        OBVIOUS
    <2>1. ASSUME ~dirty
          PROVE  Reads(xmlContext.prefixMap) = Reads(scope(open))
        <3>1. Reads(xmlContext.prefixMap) = Reads(scopes[Len(open)])
            BY <2>1 DEF IInv, Declaring, Follows
        <3>2. open \in Seq(Nat) /\ Len(open) \in 0 .. Len(open)
            BY LenProperties DEF IInv, IsOpen
        <3>3. scopes[Len(open)] = scope(SubSeq(open, 1, Len(open)))
            BY <3>2 DEF scopes
        <3> QED BY <3>1, <3>2, <3>3, WholePath
    <2> QED BY <2>1 DEF IInv, ParserFollowsDocument, ContextIsScope
<1> QED BY <1>1, Invariance, PTL

(* Until a parse fails the tree has the elements of the document with the   *)
(* names, declarations, attributes and text that they have there.           *)
THEOREM Reading == Spec => []TreeIsDocument
<1>1. IInv => TreeIsDocument
    BY DEF IInv
<1> QED BY <1>1, Invariance, PTL

(* Until a parse fails xsi:type decides the type of an element, resolved in *)
(* the scope of its own tag, and else its parent does.                      *)
THEOREM Typing == Spec => []TypesAreResolved
<1>1. IInv => TypesAreResolved
    BY DEF IInv
<1> QED BY <1>1, Invariance, PTL

-----------------------------------------------------------------------------
(* The grammars *)

Grammar ==
    [schemaParserCtxt : Nat, schema : Nat, validationCtxt : Nat, schemaPlug : Nat,
     live : SUBSET Nat, made : Seq(Nat)]

(* No pointer dangles: it holds an object that was made and not freed. *)
Owns(g) ==
    /\ g \in Grammar
    /\ g.schemaParserCtxt \in {0} \cup g.live
    /\ g.schema \in {0} \cup g.live
    /\ g.validationCtxt \in {0} \cup g.live
    /\ g.schemaPlug \in {0} \cup g.live
    /\ g.live \subseteq 1 .. Len(g.made)

Validates(g) ==
    g.validationCtxt # 0 => g.schema = g.made[g.validationCtxt] /\ g.schema \in g.live

Held(g) == {g.schemaParserCtxt, g.schema, g.validationCtxt, g.schemaPlug} \ {0}

LEMMA HeldIsHolds ==
    ASSUME NEW g
    PROVE  G!Holds(g) = Held(g)
BY DEF G!Holds, G!Pointer, G!Null, Held

LEMMA PointersOwned ==
    ASSUME NEW g
    PROVE  (\A f \in G!Pointer : g[f] \in {G!Null} \cup g.live)
               <=> /\ g.schemaParserCtxt \in {0} \cup g.live
                   /\ g.schema \in {0} \cup g.live
                   /\ g.validationCtxt \in {0} \cup g.live
                   /\ g.schemaPlug \in {0} \cup g.live
BY DEF G!Pointer, G!Null

(* unloadGrammars leaves no pointer, and frees what they held. *)
LEMMA UnloadedOwns ==
    ASSUME NEW g, Owns(g)
    PROVE  /\ Owns(G!unloaded(g))
           /\ Validates(G!unloaded(g))
           /\ Held(G!unloaded(g)) = {}
           /\ G!unloaded(g).live = g.live \ Held(g)
           /\ G!unloaded(g).made = g.made
<1> DEFINE r == G!unloaded(g)
<1>1. r = [schemaParserCtxt |-> 0, schema |-> 0, validationCtxt |-> 0, schemaPlug |-> 0,
           live |-> g.live \ Held(g), made |-> g.made]
    BY HeldIsHolds DEF G!unloaded, G!Null
<1> HIDE DEF r
<1>2. r \in Grammar
    BY <1>1 DEF Owns, Grammar
<1>3. Held(r) = {}
    BY <1>1 DEF Held
<1>4. Owns(r)
    BY <1>1, <1>2 DEF Owns
<1>5. Validates(r)
    BY <1>1 DEF Validates
<1> QED BY <1>1, <1>3, <1>4, <1>5 DEF r

(* What is made lies behind what was made before. *)
LEMMA MakingOwns ==
    ASSUME NEW g, Owns(g), NEW from \in Nat
    PROVE  /\ Owns(G!making(g, from))
           /\ G!newObject(g) \in G!making(g, from).live
           /\ G!newObject(g) \in Nat /\ G!newObject(g) # 0
           /\ G!making(g, from).live = g.live \cup {G!newObject(g)}
           /\ Len(G!making(g, from).made) = Len(g.made) + 1
           /\ G!making(g, from).made[G!newObject(g)] = from
<1> DEFINE n == Len(g.made) + 1
           r == G!making(g, from)
<1>1. g \in Grammar /\ g.made \in Seq(Nat) /\ Len(g.made) \in Nat
    BY LenProperties DEF Owns, Grammar
<1>2. /\ Append(g.made, from) \in Seq(Nat)
      /\ Len(Append(g.made, from)) = n
      /\ Append(g.made, from)[n] = from
    BY <1>1, AppendProperties
<1>3. g.live \cup {n} \subseteq 1 .. n /\ g.live \cup {n} \in SUBSET Nat /\ n \in Nat /\ n # 0
    BY <1>1 DEF Owns
<1>4. G!newObject(g) = n
    BY DEF G!newObject
<1>5. r = [schemaParserCtxt |-> g.schemaParserCtxt, schema |-> g.schema,
           validationCtxt |-> g.validationCtxt, schemaPlug |-> g.schemaPlug,
           live |-> g.live \cup {n}, made |-> Append(g.made, from)]
    <2> DEFINE live2 == g.live \cup {n}
               made2 == Append(g.made, from)
    <2>1. r = [g EXCEPT !.live = live2, !.made = made2]
        BY <1>4 DEF G!making
    <2> HIDE DEF live2, made2, r
    <2>2. r = [schemaParserCtxt |-> g.schemaParserCtxt, schema |-> g.schema,
               validationCtxt |-> g.validationCtxt, schemaPlug |-> g.schemaPlug,
               live |-> live2, made |-> made2]
        BY <1>1, <2>1 DEF Grammar
    <2> QED BY <2>2 DEF live2, made2
<1> HIDE DEF n, r
<1>6. Owns(r)
    BY <1>1, <1>2, <1>3, <1>5 DEF Owns, Grammar
<1>7. r.live = g.live \cup {n} /\ Len(r.made) = n /\ r.made[n] = from
    BY <1>2, <1>5
<1> QED BY <1>3, <1>4, <1>6, <1>7 DEF r, n

(* Any object that is not freed, or none, may be put into a pointer. *)
LEMMA PointingOwns ==
    ASSUME NEW g, Owns(g), NEW o \in {0} \cup g.live
    PROVE  /\ Owns([g EXCEPT !.schemaParserCtxt = o])
           /\ Owns([g EXCEPT !.schema = o])
           /\ Owns([g EXCEPT !.validationCtxt = o])
<1>1. o \in Nat
    BY DEF Owns, Grammar
<1> QED BY <1>1 DEF Owns, Grammar

(* loadGrammar, whichever of its calls fails, keeps what it owns and what it *)
(* validates with; and where it held nothing, it holds all that it made.     *)
LEMMA LoadingOwns ==
    ASSUME NEW g, Owns(g), Validates(g), NEW outcome \in G!Outcome
    PROVE  /\ Owns(G!loading(g, outcome))
           /\ Validates(G!loading(g, outcome))
           /\ Len(G!loading(g, outcome).made) <= Len(g.made) + 3
           /\ g.live = {} => G!loading(g, outcome).live = Held(G!loading(g, outcome))
<1> DEFINE start     == IF g.schemaPlug # G!Null THEN G!unloaded(g) ELSE g
           made1     == G!making(start, G!Null)
           context   == [made1 EXCEPT !.schemaParserCtxt = G!newObject(start)]
           made2     == G!making(context, context.schemaParserCtxt)
           withSchema == [made2 EXCEPT !.schema = G!newObject(context)]
           made3     == G!making(withSchema, withSchema.schema)
           validator == [made3 EXCEPT !.validationCtxt = G!newObject(withSchema)]
           result    == G!loading(g, outcome)
<1>1. /\ outcome = "no context" => result = [start EXCEPT !.schemaParserCtxt = 0]
      /\ outcome = "no schema" => result = G!unloaded([context EXCEPT !.schema = 0])
      /\ outcome = "no validation" => result = G!unloaded([withSchema EXCEPT !.validationCtxt = 0])
      /\ outcome = "loaded" => result = validator
    BY DEF G!loading, G!Null
<1>2. outcome \in {"no context", "no schema", "no validation", "loaded"}
    BY DEF G!Outcome
<1> HIDE DEF result
<1>3. /\ Owns(start) /\ Validates(start)
      /\ start.made = g.made /\ Len(g.made) \in Nat
      /\ g.live = {} => start.live = {}
    <2>1. Len(g.made) \in Nat
        BY LenProperties DEF Owns, Grammar
    <2>2. CASE g.schemaPlug # G!Null
        BY <2>1, <2>2, UnloadedOwns
    <2>3. CASE g.schemaPlug = G!Null
        BY <2>1, <2>3
    <2> QED BY <2>2, <2>3
<1> HIDE DEF start
<1>4. /\ Owns(made1)
      /\ G!newObject(start) \in made1.live
      /\ made1.live = start.live \cup {G!newObject(start)}
      /\ Len(made1.made) = Len(g.made) + 1
    BY <1>3, MakingOwns DEF G!Null
<1> HIDE DEF made1
<1>5. /\ Owns(context)
      /\ context.schemaParserCtxt = G!newObject(start)
      /\ context.schemaParserCtxt \in Nat
      /\ context.live = start.live \cup {context.schemaParserCtxt}
      /\ Len(context.made) = Len(g.made) + 1
    <2>1. Owns(context)
        BY <1>4, PointingOwns
    <2>2. /\ context.schemaParserCtxt = G!newObject(start)
          /\ context.live = made1.live
          /\ context.made = made1.made
        BY <1>4 DEF Owns, Grammar
    <2>3. G!newObject(start) \in Nat
        BY <1>3, MakingOwns DEF G!Null
    <2> QED BY <1>4, <2>1, <2>2, <2>3
<1> HIDE DEF context
<1>6. /\ Owns(made2)
      /\ G!newObject(context) \in made2.live
      /\ made2.live = context.live \cup {G!newObject(context)}
      /\ Len(made2.made) = Len(g.made) + 2
      /\ G!newObject(context) # 0
    BY <1>3, <1>5, MakingOwns
<1>7. made2.schemaParserCtxt = context.schemaParserCtxt
    BY <1>5 DEF made2, G!making, Owns, Grammar
<1> HIDE DEF made2
<1>8. /\ Owns(withSchema)
      /\ withSchema.schema = G!newObject(context)
      /\ withSchema.schema # 0 /\ withSchema.schema \in Nat
      /\ withSchema.schemaParserCtxt = context.schemaParserCtxt
      /\ withSchema.live = context.live \cup {withSchema.schema}
      /\ withSchema.schema \in withSchema.live
      /\ Len(withSchema.made) = Len(g.made) + 2
    <2>1. Owns(withSchema)
        BY <1>6, PointingOwns
    <2>2. /\ withSchema.schema = G!newObject(context)
          /\ withSchema.schemaParserCtxt = made2.schemaParserCtxt
          /\ withSchema.live = made2.live
          /\ withSchema.made = made2.made
        BY <1>6 DEF Owns, Grammar
    <2>3. G!newObject(context) \in Nat
        BY <1>5, MakingOwns
    <2> QED BY <1>6, <1>7, <2>1, <2>2, <2>3
<1> HIDE DEF withSchema
<1>9. CASE outcome = "no context"
    <2>1. result = [start EXCEPT !.schemaParserCtxt = 0]
        BY <1>1, <1>9
    <2>2. Owns(result)
        BY <1>3, <2>1, PointingOwns
    <2>3. /\ result.live = start.live
          /\ result.made = start.made
          /\ result.schema = start.schema
          /\ result.validationCtxt = start.validationCtxt
        BY <1>3, <2>1 DEF Owns, Grammar
    <2>4. Validates(result)
        BY <1>3, <2>3 DEF Validates
    <2>5. g.live = {} => Held(result) = {}
        BY <1>3, <2>2, <2>3 DEF Owns, Held
    <2>6. Len(result.made) <= Len(g.made) + 3
        BY <1>3, <2>3
    <2>7. g.live = {} => result.live = Held(result)
        BY <1>3, <2>3, <2>5
    <2> QED BY <2>2, <2>4, <2>6, <2>7 DEF result
<1>10. CASE outcome = "no schema"
    <2> DEFINE failed == [context EXCEPT !.schema = 0]
    <2>1. result = G!unloaded(failed)
        BY <1>1, <1>10
    <2>2. Owns(failed)
        BY <1>5, PointingOwns
    <2>3. /\ failed.live = context.live
          /\ failed.made = context.made
          /\ failed.schemaParserCtxt = context.schemaParserCtxt
        BY <1>5 DEF Owns, Grammar
    <2> HIDE DEF failed
    <2>4. /\ Owns(result) /\ Validates(result) /\ Held(result) = {}
          /\ result.live = failed.live \ Held(failed)
          /\ result.made = failed.made
        BY <2>1, <2>2, UnloadedOwns
    <2>5. g.live = {} => result.live = {}
        <3>1. 0 \notin failed.live
            BY <2>2 DEF Owns, Grammar
        <3> QED BY <1>3, <1>5, <2>3, <2>4, <3>1 DEF Held
    <2> QED BY <1>3, <1>5, <2>3, <2>4, <2>5 DEF result
<1>11. CASE outcome = "no validation"
    <2> DEFINE failed == [withSchema EXCEPT !.validationCtxt = 0]
    <2>1. result = G!unloaded(failed)
        BY <1>1, <1>11
    <2>2. Owns(failed)
        BY <1>8, PointingOwns
    <2>3. /\ failed.live = withSchema.live
          /\ failed.made = withSchema.made
          /\ failed.schemaParserCtxt = withSchema.schemaParserCtxt
          /\ failed.schema = withSchema.schema
        BY <1>8 DEF Owns, Grammar
    <2> HIDE DEF failed
    <2>4. /\ Owns(result) /\ Validates(result) /\ Held(result) = {}
          /\ result.live = failed.live \ Held(failed)
          /\ result.made = failed.made
        BY <2>1, <2>2, UnloadedOwns
    <2>5. g.live = {} => result.live = {}
        <3>1. 0 \notin failed.live
            BY <2>2 DEF Owns, Grammar
        <3> QED BY <1>3, <1>5, <1>8, <2>3, <2>4, <3>1 DEF Held
    <2> QED BY <1>3, <1>8, <2>3, <2>4, <2>5 DEF result
<1>12. CASE outcome = "loaded"
    <2>1. /\ Owns(made3)
          /\ G!newObject(withSchema) \in made3.live
          /\ made3.live = withSchema.live \cup {G!newObject(withSchema)}
          /\ Len(made3.made) = Len(g.made) + 3
          /\ G!newObject(withSchema) # 0
          /\ made3.made[G!newObject(withSchema)] = withSchema.schema
        BY <1>3, <1>8, MakingOwns
    <2>2. /\ made3.schemaParserCtxt = withSchema.schemaParserCtxt
          /\ made3.schema = withSchema.schema
          /\ made3.schemaPlug = withSchema.schemaPlug
        BY <1>8 DEF made3, G!making, Owns, Grammar
    <2> HIDE DEF made3
    <2>3. result = validator
        BY <1>1, <1>12
    <2>4. Owns(result)
        BY <2>1, <2>3, PointingOwns
    <2>5. /\ result.live = made3.live
          /\ result.made = made3.made
          /\ result.schemaParserCtxt = made3.schemaParserCtxt
          /\ result.schema = made3.schema
          /\ result.validationCtxt = G!newObject(withSchema)
        BY <2>1, <2>3 DEF Owns, Grammar
    <2>6. Validates(result)
        BY <1>8, <2>1, <2>2, <2>5 DEF Validates
    <2>7. g.live = {} => result.live = Held(result)
        <3>1. 0 \notin result.live
            BY <2>4 DEF Owns, Grammar
        <3>2. Held(result) \subseteq result.live
            BY <2>4 DEF Owns, Held
        <3>3. g.live = {} => result.live = {context.schemaParserCtxt, withSchema.schema, G!newObject(withSchema)}
            BY <1>3, <1>5, <1>8, <2>1, <2>5
        <3> QED BY <1>8, <2>2, <2>5, <3>1, <3>2, <3>3 DEF Held
    <2> QED BY <1>3, <2>1, <2>4, <2>5, <2>6, <2>7 DEF result
<1> QED BY <1>2, <1>9, <1>10, <1>11, <1>12

(* The grammars of a parser: each pointer holds nothing or an object that is *)
(* not freed, the validation context has its schema, and what is not freed   *)
(* is held as long as no load came upon a grammar that was not unloaded.     *)
GInv ==
    /\ Owns(parser)
    /\ Validates(parser)
    /\ ~reloaded => parser.live = Held(parser)
    /\ Len(parser.made) <= MaxObjects
    /\ reloaded \in BOOLEAN /\ life \in {"alive", "destroyed"}

LEMMA InitGInv == G!init => GInv
<1> SUFFICES ASSUME G!init PROVE GInv
    OBVIOUS
<1>1. parser = [schemaParserCtxt |-> 0, schema |-> 0, validationCtxt |-> 0,
                schemaPlug |-> 0, live |-> {}, made |-> << >>]
    BY DEF G!init, G!Null
<1>2. << >> \in Seq(Nat) /\ Len(<< >>) = 0
    BY EmptySeq
<1>3. parser \in Grammar
    BY <1>1, <1>2 DEF Grammar
<1>4. Owns(parser)
    BY <1>1, <1>3 DEF Owns
<1>5. Validates(parser) /\ parser.live = Held(parser)
    BY <1>1 DEF Validates, Held
<1>6. Len(parser.made) <= MaxObjects
    BY <1>1, <1>2, GrammarsAssumption
<1> QED BY <1>4, <1>5, <1>6 DEF GInv, G!init

LEMMA NextGInv == GInv /\ [G!Next]_grammarVars => GInv'
<1> SUFFICES ASSUME GInv, [G!Next]_grammarVars PROVE GInv'
    OBVIOUS
<1>1. /\ Owns(parser) /\ Validates(parser)
      /\ ~reloaded => parser.live = Held(parser)
      /\ Len(parser.made) <= MaxObjects /\ Len(parser.made) \in Nat
      /\ reloaded \in BOOLEAN /\ life \in {"alive", "destroyed"}
    BY LenProperties DEF GInv, Owns, Grammar
<1>2. ASSUME NEW outcome \in G!Outcome, G!loadGrammar(outcome)
      PROVE  GInv'
    <2>1. /\ parser' = G!loading(parser, outcome)
          /\ reloaded' = (reloaded \/ Held(parser) # {})
          /\ life' = life
          /\ Len(parser.made) + 3 <= MaxObjects
        BY <1>2, HeldIsHolds DEF G!loadGrammar
    <2>2. Owns(parser') /\ Validates(parser')
        BY <1>1, <2>1, LoadingOwns
    <2>3. Len(parser'.made) <= MaxObjects
        <3>1. Len(parser'.made) <= Len(parser.made) + 3
            BY <1>1, <2>1, LoadingOwns
        <3>2. Len(parser'.made) \in Nat
            BY <2>2, LenProperties DEF Owns, Grammar
        <3> QED BY <1>1, <2>1, <3>1, <3>2, GrammarsAssumption
    <2>4. ~reloaded' => parser'.live = Held(parser')
        <3>1. ~reloaded' => parser.live = {}
            BY <1>1, <2>1
        <3>2. parser.live = {} => parser'.live = Held(parser')
            BY <1>1, <2>1, LoadingOwns
        <3> QED BY <3>1, <3>2
    <2>5. reloaded' \in BOOLEAN /\ life' \in {"alive", "destroyed"}
        BY <1>1, <2>1
    <2> QED BY <2>2, <2>3, <2>4, <2>5 DEF GInv
<1>3. ASSUME parser' = G!unloaded(parser), reloaded' = reloaded, life' \in {"alive", "destroyed"}
      PROVE  GInv'
    <2>1. /\ Owns(parser') /\ Validates(parser') /\ Held(parser') = {}
          /\ parser'.live = parser.live \ Held(parser)
          /\ parser'.made = parser.made
        BY <1>1, <1>3, UnloadedOwns
    <2>2. ~reloaded' => parser'.live = Held(parser')
        BY <1>1, <1>3, <2>1
    <2> QED BY <1>1, <1>3, <2>1, <2>2 DEF GInv
<1>4. CASE G!unloadGrammars
    BY <1>1, <1>3, <1>4 DEF G!unloadGrammars
<1>5. CASE G!destroy
    BY <1>3, <1>5 DEF G!destroy
<1>6. CASE UNCHANGED grammarVars
    BY <1>6 DEF grammarVars, GInv
<1> QED BY <1>2, <1>4, <1>5, <1>6 DEF G!Next

LEMMA GInvOwns == GInv => GrammarsAreOwned
<1> SUFFICES ASSUME GInv PROVE GrammarsAreOwned
    OBVIOUS
<1>1. /\ Owns(parser) /\ Validates(parser)
      /\ ~reloaded => parser.live = Held(parser)
      /\ Len(parser.made) <= MaxObjects
      /\ reloaded \in BOOLEAN /\ life \in {"alive", "destroyed"}
    BY DEF GInv
<1>2. DOMAIN parser.made = 1 .. Len(parser.made)
    BY LenProperties DEF Owns, Grammar
<1>3. \A f \in G!Pointer : parser[f] \in {G!Null} \cup parser.live
    BY <1>1, PointersOwned DEF Owns
<1>4. G!TypeOK
    BY <1>1, <1>2, <1>3 DEF G!TypeOK, Owns
<1>5. G!ValidatorHasItsSchema
    BY <1>1 DEF G!ValidatorHasItsSchema, Validates, G!Null
<1>6. G!OnlyReloadingLeaks
    BY <1>1, HeldIsHolds DEF G!OnlyReloadingLeaks
<1> QED BY <1>4, <1>5, <1>6 DEF GrammarsAreOwned

(* However a parser's grammars are loaded and unloaded, and wherever a load   *)
(* fails: no pointer dangles, the validation context is that of the schema    *)
(* that is kept, and a client that unloads before it loads again leaks none.  *)
THEOREM Owning == G!Spec => []GrammarsAreOwned
<1>1. GInv /\ [G!Next]_G!vars => GInv'
    BY NextGInv DEF G!vars, grammarVars
<1>2. GInv => GrammarsAreOwned
    BY GInvOwns
<1> QED BY InitGInv, <1>1, <1>2, PTL DEF G!Spec

(* A parser with its grammars is the parser and is its grammars: what holds   *)
(* of either, whatever it does, holds of the two together.                    *)
THEOREM PartsAreWhole == PartSpec => Spec /\ G!Spec
<1>1. PartInit => Init /\ G!init
    BY DEF PartInit
<1>2. [PartNext]_<<part, vars, grammarVars>> => [Next]_vars
    BY DEF PartNext
<1>3. [PartNext]_<<part, vars, grammarVars>> => [G!Next]_G!vars
    BY DEF PartNext, grammarVars, G!vars
<1> QED BY <1>1, <1>2, <1>3, PTL DEF PartSpec, Spec, G!Spec

(* A parser with its grammars has every invariant of the two. *)
THEOREM WholeCorrectness ==
    PartSpec => [](TypeOK /\ ParserFollowsDocument /\ TreeIsDocument
                    /\ TypesAreResolved /\ GrammarsAreOwned)
BY PartsAreWhole, TypeCorrectness, Following, Reading, Typing, Owning, PTL
=============================================================================
