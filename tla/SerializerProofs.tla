-------------------------- MODULE SerializerProofs --------------------------
(***************************************************************************)
(* Theorems about Serializer: what is read is what was written.            *)
(***************************************************************************)
EXTENDS Serializer, SharedLemmas, FiniteSetTheorems

-----------------------------------------------------------------------------
(* The inductive invariant *)

InTag == pc \in {"namespaces", "names"}

(* Between tags the writer has two positions for an element and the parser   *)
(* has one, both two below the root, and an element's content starts with    *)
(* the same bindings in both.                                                *)
Match(w, r) ==
    LET n == Len(r.rememberedPositions)
    IN  /\ WellFormed(w) /\ WellFormed(r)
        /\ Len(w.rememberedPositions) = 2 * n - 2
        /\ \A i \in 2 .. n : ScopeAt(w, 2 * i - 2) = ScopeAt(r, i)
        /\ ScopeAt(r, 2) = [p \in Prefix |-> NoNamespace]
        /\ LastPosition(r) = Len(r.restoreLinks)
        /\ LastPosition(w) = Len(w.restoreLinks)

(* While a start tag is written the writer has remembered a position more, *)
(* and logs the changes that the tag makes.                                *)
MatchInTag(w, r) ==
    LET n == Len(r.rememberedPositions)
    IN  /\ WellFormed(w) /\ WellFormed(r)
        /\ Len(w.rememberedPositions) = 2 * n - 1
        /\ \A i \in 2 .. n : ScopeAt(w, 2 * i - 2) = ScopeAt(r, i)
        /\ ScopeAt(r, 2) = [p \in Prefix |-> NoNamespace]
        /\ LastPosition(r) = Len(r.restoreLinks)
        /\ w.rememberedPositions[2 * n - 1] = w.rememberedPositions[2 * n - 2]

Nested ==
    /\ IF InTag THEN MatchInTag(writer.context, reader) ELSE Match(writer.context, reader)
    /\ pc = "end" => Len(reader.rememberedPositions) = 2

(* The prefixes that were bound since the last position. *)
NewPrefixes(c) ==
    {c.restoreLinks[i].prefix : i \in LastPosition(c) + 1 .. Len(c.restoreLinks)}

(* The links of a start tag bind different prefixes, and none but the empty *)
(* one to the empty URI.                                                    *)
BoundOnce(c) ==
    LET new == LastPosition(c) + 1 .. Len(c.restoreLinks)
    IN  /\ \A i, j \in new : c.restoreLinks[i].prefix = c.restoreLinks[j].prefix => i = j
        /\ \A i \in new :
               LET p == c.restoreLinks[i].prefix
               IN  isSetPrefix(c.prefixMap, p) /\ (c.prefixMap[p] = NoNamespace => p = NoPrefix)

(* What was printed for a name is what the map has for it; without a prefix *)
(* it may be the name of an attribute, or of a type without a namespace.    *)
MeansIn(map, p) ==
    IF p.prefix # NoPrefix
    THEN p.ns # NoNamespace /\ map[p.prefix] = p.ns
    ELSE \/ map[NoPrefix] = p.ns
         \/ p.use = "attribute"
         \/ p.use = "type" /\ p.ns = NoNamespace

(* The start tag so far can be read. *)
TagIsSound ==
    /\ InTag =>
        /\ tag.read = << >> /\ tag.declared = << >>
        /\ BoundOnce(writer.context)
        /\ \A i \in DOMAIN tag.printed : MeansIn(prefixMap, tag.printed[i])
        /\ tag.name.ns = NoNamespace => prefixMap[NoPrefix] = NoNamespace
    /\ pc = "namespaces" =>
        /\ tag.printed = << >>
        /\ Free(writer) # {}
        /\ tag.name.prefix # NoPrefix /\ tag.name.prefix \in NewPrefixes(writer.context)
               => prefixMap[tag.name.prefix] = tag.name.ns
    /\ NamesResolve
    /\ DeclarationsAreLegal

IInv ==
    /\ TypeOK
    /\ isSetPrefix(prefixMap, NoPrefix) /\ isSetPrefix(reader.prefixMap, NoPrefix)
    /\ Nested
    /\ TagIsSound

-----------------------------------------------------------------------------
(* Printing a name *)

Writer == [context : Context, current : 0 .. Len(Generated)]

(* A prefix is there for the name: no hint, no prefix of its URI, and none left *)
(* to be generated do not come together.                                        *)
HasPrefix(w, n) ==
    \/ n.prefix # NoPrefix
    \/ n.ns = NoNamespace
    \/ isSetNamespaceURI(w.context.prefixMap, n.ns)
    \/ Free(w) # {}

(* What cprintQName leaves, of two kinds. *)
Found(w, n, q) ==
    /\ q.context = w.context
    /\ q.current = w.current
    /\ IF n.ns = NoNamespace THEN q.prefix = NoPrefix ELSE w.context.prefixMap[q.prefix] = n.ns

Declared(w, n, q) ==
    /\ q.context = declare(w.context, [prefix |-> q.prefix, ns |-> n.ns])
    /\ n.ns # NoNamespace
    /\ q.prefix # NoPrefix
    /\ IF n.prefix # NoPrefix
       THEN q.prefix = n.prefix /\ w.context.prefixMap[n.prefix] # n.ns /\ q.current = w.current
       ELSE /\ ~isSetNamespaceURI(w.context.prefixMap, n.ns)
            /\ q.current \in Free(w) /\ q.prefix = Generated[q.current]
            /\ \A i \in Free(w) : q.current <= i

LEMMA NextPrefix ==
    ASSUME NEW w \in Writer, Free(w) # {}
    PROVE  /\ getNextPrefix(w) \in Free(w)
           /\ \A i \in Free(w) : getNextPrefix(w) <= i
           /\ getNextPrefix(w) \in 1 .. Len(Generated)
           /\ Generated[getNextPrefix(w)] \in Prefix \ {NoPrefix}
<1>1. w.current \in Nat /\ Len(Generated) \in Nat
    BY SerializerAssumption, LenProperties DEF Writer
<1>2. Free(w) \subseteq 1 .. Len(Generated) /\ Free(w) \subseteq Nat
    BY <1>1 DEF Free
<1>3. getNextPrefix(w) = Earliest(Free(w))
    BY DEF getNextPrefix, Min, Earliest
<1>4. getNextPrefix(w) \in Free(w) /\ \A i \in Free(w) : getNextPrefix(w) <= i
    BY <1>2, <1>3, EarliestIsLeast
<1> QED BY <1>2, <1>4, SerializerAssumption, ElementOfSeq

LEMMA NamePrinted ==
    ASSUME NEW w \in Writer, NEW n \in QName, HasPrefix(w, n)
    PROVE  LET q == cprintQName(w, n)
           IN  /\ q.prefix \in Prefix
               /\ q.current \in 0 .. Len(Generated)
               /\ Found(w, n, q) \/ Declared(w, n, q)
<1> DEFINE q    == cprintQName(w, n)
           map  == w.context.prefixMap
           next == getNextPrefix(w)
           l(p) == [prefix |-> p, ns |-> n.ns]
<1>1. n.ns \in Namespace /\ n.prefix \in Prefix /\ w.current \in 0 .. Len(Generated)
    BY DEF QName, Writer
<1>2. CASE n.ns = NoNamespace
    <2>1. q = [context |-> w.context, current |-> w.current, prefix |-> NoPrefix]
        BY <1>2 DEF cprintQName
    <2> HIDE DEF q
    <2> QED BY <1>1, <1>2, <2>1, NSMapAssumption DEF Found, q
<1>3. CASE n.ns # NoNamespace /\ map[n.prefix] = n.ns
    <2>1. q = [context |-> w.context, current |-> w.current, prefix |-> n.prefix]
        BY <1>3 DEF cprintQName
    <2> HIDE DEF q
    <2> QED BY <1>1, <1>3, <2>1 DEF Found, q
<1>4. CASE n.ns # NoNamespace /\ map[n.prefix] # n.ns /\ n.prefix # NoPrefix
    <2>1. q = [context |-> declare(w.context, l(n.prefix)), current |-> w.current, prefix |-> n.prefix]
        BY <1>4 DEF cprintQName, declaring, declare
    <2> HIDE DEF q
    <2> QED BY <1>1, <1>4, <2>1 DEF Declared, q
<1>5. CASE n.ns # NoNamespace /\ map[n.prefix] # n.ns /\ n.prefix = NoPrefix /\ isSetNamespaceURI(map, n.ns)
    <2>1. q = [context |-> w.context, current |-> w.current, prefix |-> getPrefix(w, n.ns)]
        BY <1>5 DEF cprintQName
    <2>2. getPrefix(w, n.ns) \in Prefix /\ map[getPrefix(w, n.ns)] = n.ns
        BY <1>5 DEF getPrefix, isSetNamespaceURI
    <2> HIDE DEF q
    <2> QED BY <1>1, <1>5, <2>1, <2>2 DEF Found, q
<1>6. CASE n.ns # NoNamespace /\ map[n.prefix] # n.ns /\ n.prefix = NoPrefix /\ ~isSetNamespaceURI(map, n.ns)
    <2>1. q = [context |-> declare(w.context, l(Generated[next])), current |-> next, prefix |-> Generated[next]]
        BY <1>6 DEF cprintQName, declaring, declare, Writer
    <2>2. Free(w) # {}
        BY <1>6 DEF HasPrefix
    <2>3. /\ next \in Free(w)
          /\ \A i \in Free(w) : next <= i
          /\ next \in 1 .. Len(Generated)
          /\ Generated[next] \in Prefix \ {NoPrefix}
        BY <2>2, NextPrefix
    <2>4. next \in 0 .. Len(Generated)
        BY <2>3
    <2> HIDE DEF q, next
    <2> QED BY <1>1, <1>6, <2>1, <2>3, <2>4 DEF Declared, q
<1> QED BY <1>2, <1>3, <1>4, <1>5, <1>6

(* A writer and the names it has printed for a start tag. *)
Sound(w, names) ==
    /\ w \in Writer
    /\ WellFormed(w.context)
    /\ isSetPrefix(w.context.prefixMap, NoPrefix)
    /\ names \in Seq(Printed)
    /\ BoundOnce(w.context)
    /\ \A i \in DOMAIN names : MeansIn(w.context.prefixMap, names[i])

(* The name may come next. *)
MayPrint(w, names, use, n) ==
    LET c == w.context
    IN  /\ HasPrefix(w, n)
        /\ use = "element" /\ n.ns = NoNamespace => c.prefixMap[NoPrefix] = NoNamespace
        /\ \/ n.prefix = NoPrefix
           \/ c.prefixMap[n.prefix] = n.ns
           \/ /\ n.prefix \notin NewPrefixes(c)
              /\ \A i \in DOMAIN names : names[i].prefix # n.prefix

(* Binding a prefix that the tag has neither bound nor printed. *)
LEMMA DeclareIsSound ==
    ASSUME NEW w, NEW names, Sound(w, names), NEW v \in Writer, NEW l \in Link,
           v.context = declare(w.context, l),
           l.ns = NoNamespace => l.prefix = NoPrefix,
           l.prefix \notin NewPrefixes(w.context),
           \A i \in DOMAIN names : names[i].prefix # l.prefix,
           l.prefix = NoPrefix => names = << >>
    PROVE  /\ Sound(v, names)
           /\ SameScopes(w.context, v.context)
           /\ v.context.prefixMap = [w.context.prefixMap EXCEPT ![l.prefix] = l.ns]
<1> DEFINE c   == w.context
           d   == v.context
           len == Len(c.restoreLinks)
<1>1. /\ c \in Context /\ len \in Nat /\ Len(names) \in Nat /\ DOMAIN names = 1 .. Len(names)
      /\ LastPosition(c) \in 0 .. len
      /\ c.rememberedPositions # << >>
      /\ c.prefixMap \in PrefixMap
      /\ \A i \in 1 .. len : c.restoreLinks[i].prefix \in Prefix
      /\ \A i \in DOMAIN names : names[i].prefix \in Prefix
    <2>1. /\ c \in Context /\ len \in Nat /\ c.restoreLinks \in Seq(Link)
          /\ LastPosition(c) \in 0 .. len
          /\ c.rememberedPositions # << >>
        BY WellFormedPositions DEF Sound
    <2>2. \A i \in 1 .. len : c.restoreLinks[i] \in Link
        BY <2>1, ElementOfSeq
    <2>3. names \in Seq(Printed)
        BY DEF Sound
    <2>4. /\ Len(names) \in Nat /\ DOMAIN names = 1 .. Len(names)
          /\ \A i \in DOMAIN names : names[i] \in Printed
        BY <2>3, LenProperties, ElementOfSeq
    <2> QED BY <2>1, <2>2, <2>4 DEF Context, Link, Printed
<1>2. /\ WellFormed(d)
      /\ SameScopes(c, d)
      /\ d.prefixMap = [c.prefixMap EXCEPT ![l.prefix] = l.ns]
      /\ Len(d.restoreLinks) = len + 1
      /\ \A i \in 1 .. len : d.restoreLinks[i] = c.restoreLinks[i]
      /\ d.restoreLinks[len + 1].prefix = l.prefix
    <2>1. WellFormed(c)
        BY DEF Sound
    <2>2. d = declare(c, l)
        OBVIOUS
    <2> HIDE DEF c, d
    <2> QED BY <2>1, <2>2, DeclareBinds
<1>3. LastPosition(d) = LastPosition(c)
    BY <1>2 DEF SameScopes, LastPosition
<1>4. l.prefix \in Prefix /\ l.ns \in Namespace
    BY DEF Link
<1>5. \A p \in Prefix : d.prefixMap[p] = IF p = l.prefix THEN l.ns ELSE c.prefixMap[p]
    BY <1>1, <1>2 DEF PrefixMap
<1> HIDE DEF c, d, len
<1>6. BoundOnce(d)
    <2> DEFINE new == LastPosition(c) + 1 .. len
    <2>1. BoundOnce(c)
        BY DEF Sound, c
    <2>2. \A i \in LastPosition(d) + 1 .. Len(d.restoreLinks) :
             IF i = len + 1 THEN d.restoreLinks[i].prefix = l.prefix
             ELSE i \in new /\ i \in 1 .. len /\ d.restoreLinks[i] = c.restoreLinks[i]
        BY <1>1, <1>2, <1>3
    <2>3. \A i \in new : c.restoreLinks[i].prefix # l.prefix /\ c.restoreLinks[i].prefix \in Prefix
        BY <1>1 DEF c, len, NewPrefixes
    <2>4. \A i \in new : /\ isSetPrefix(c.prefixMap, c.restoreLinks[i].prefix)
                         /\ c.prefixMap[c.restoreLinks[i].prefix] = NoNamespace
                                => c.restoreLinks[i].prefix = NoPrefix
        BY <2>1 DEF BoundOnce, len
    <2>5. \A i, j \in new : c.restoreLinks[i].prefix = c.restoreLinks[j].prefix => i = j
        BY <2>1 DEF BoundOnce, len
    <2> HIDE DEF new
    <2>6. ASSUME NEW i \in LastPosition(d) + 1 .. Len(d.restoreLinks),
                 NEW j \in LastPosition(d) + 1 .. Len(d.restoreLinks),
                 d.restoreLinks[i].prefix = d.restoreLinks[j].prefix
          PROVE  i = j
        BY <2>2, <2>3, <2>5, <2>6
    <2>7. ASSUME NEW i \in LastPosition(d) + 1 .. Len(d.restoreLinks)
          PROVE  LET p == d.restoreLinks[i].prefix
                 IN  isSetPrefix(d.prefixMap, p) /\ (d.prefixMap[p] = NoNamespace => p = NoPrefix)
        <3>1. CASE i = len + 1
            BY <1>4, <1>5, <2>2, <3>1, NSMapAssumption DEF isSetPrefix
        <3>2. CASE i # len + 1
            BY <1>5, <2>2, <2>3, <2>4, <3>2 DEF isSetPrefix
        <3> QED BY <3>1, <3>2
    <2> QED BY <2>6, <2>7 DEF BoundOnce
<1>7. ASSUME NEW i \in DOMAIN names
      PROVE  MeansIn(d.prefixMap, names[i])
    <2>1. MeansIn(c.prefixMap, names[i])
        BY DEF Sound, c
    <2>2. l.prefix # NoPrefix
        BY <1>1
    <2>3. names[i].prefix # l.prefix /\ names[i].prefix \in Prefix
        BY <1>1
    <2> QED BY <1>5, <2>1, <2>2, <2>3, NSMapAssumption DEF MeansIn
<1>8. isSetPrefix(d.prefixMap, NoPrefix)
    BY <1>4, <1>5, NSMapAssumption DEF Sound, isSetPrefix, c
<1> QED BY <1>2, <1>6, <1>7, <1>8 DEF Sound, c, d

(* Printing a name keeps the tag sound, and the scopes outside it. *)
LEMMA PrintIsSound ==
    ASSUME NEW r, Sound(r.writer, r.printed), NEW use \in {"element", "type", "attribute"},
           NEW n \in QName, MayPrint(r.writer, r.printed, use, n)
    PROVE  LET s == print(r, use, n)
           IN  /\ Sound(s.writer, s.printed)
               /\ SameScopes(r.writer.context, s.writer.context)
               /\ s.writer.context.prefixMap[NoPrefix] = r.writer.context.prefixMap[NoPrefix]
<1> DEFINE s    == print(r, use, n)
           w    == r.writer
           q    == cprintQName(w, n)
           v    == s.writer
           name == [use |-> use, ns |-> n.ns, prefix |-> q.prefix]
<1>1. w \in Writer /\ r.printed \in Seq(Printed) /\ w.context.prefixMap \in PrefixMap
    BY DEF Sound, Writer, Context
<1>2. /\ q.prefix \in Prefix
      /\ q.current \in 0 .. Len(Generated)
      /\ Found(w, n, q) \/ Declared(w, n, q)
    BY <1>1, NamePrinted DEF MayPrint
<1>3. n.ns \in Namespace /\ n.prefix \in Prefix
    BY DEF QName
<1>4. v = [context |-> q.context, current |-> q.current] /\ s.printed = Append(r.printed, name)
    BY DEF print
<1>5. name \in Printed
    BY <1>2, <1>3 DEF Printed
<1> HIDE DEF q, s, w
<1>6. /\ Sound(v, r.printed)
      /\ SameScopes(w.context, v.context)
      /\ v.context.prefixMap[NoPrefix] = w.context.prefixMap[NoPrefix]
      /\ MeansIn(v.context.prefixMap, name)
    <2>1. CASE Found(w, n, q)
        <3>1. v = [context |-> w.context, current |-> w.current] /\ v = w
            BY <1>1, <1>4, <2>1 DEF Found, Writer
        <3>2. MeansIn(w.context.prefixMap, name)
            BY <2>1 DEF Found, MeansIn, MayPrint, w
        <3> QED BY <3>1, <3>2 DEF SameScopes, w
    <2>2. CASE Declared(w, n, q)
        <3> DEFINE l == [prefix |-> q.prefix, ns |-> n.ns]
        <3>1. l \in Link
            BY <1>2, <1>3 DEF Link
        <3>2. /\ v.context = declare(w.context, l)
              /\ n.ns # NoNamespace
              /\ q.prefix # NoPrefix
            BY <1>4, <2>2 DEF Declared
        <3>3. v \in Writer
            <4>1. WellFormed(v.context)
                <5>1. WellFormed(w.context)
                    BY DEF Sound, w
                <5> DEFINE c == w.context
                <5> HIDE DEF l, c
                <5>2. WellFormed(declare(c, l))
                    BY <3>1, <5>1, DeclareBinds DEF c
                <5> QED BY <3>2, <5>2 DEF c
            <4> QED BY <1>2, <1>4, <4>1 DEF Writer, WellFormed
        <3>4. /\ q.prefix \notin NewPrefixes(w.context)
              /\ \A i \in DOMAIN r.printed : r.printed[i].prefix # q.prefix
            <4>1. CASE n.prefix # NoPrefix
                BY <2>2, <4>1 DEF Declared, MayPrint, w
            <4>2. CASE n.prefix = NoPrefix
                <5>1. ~isSetPrefix(w.context.prefixMap, q.prefix)
                    BY <2>2, <4>2 DEF Declared, Free
                <5>2. \A p \in NewPrefixes(w.context) : isSetPrefix(w.context.prefixMap, p)
                    BY DEF Sound, BoundOnce, NewPrefixes, w
                <5>3. ASSUME NEW i \in DOMAIN r.printed
                      PROVE  r.printed[i].prefix # q.prefix
                    <6>1. r.printed[i] \in Printed
                        BY <1>1, LenProperties, ElementOfSeq
                    <6>2. MeansIn(w.context.prefixMap, r.printed[i])
                        BY DEF Sound, w
                    <6> QED BY <3>2, <5>1, <6>1, <6>2, NSMapAssumption DEF MeansIn, Printed, isSetPrefix
                <5> QED BY <5>1, <5>2, <5>3
            <4> QED BY <4>1, <4>2
        <3>5. /\ Sound(v, r.printed)
              /\ SameScopes(w.context, v.context)
              /\ v.context.prefixMap = [w.context.prefixMap EXCEPT ![q.prefix] = n.ns]
            <4> HIDE DEF l
            <4>1. l.prefix = q.prefix /\ l.ns = n.ns
                BY DEF l
            <4>2. Sound(w, r.printed)
                BY DEF w
            <4>3. /\ l.prefix \notin NewPrefixes(w.context)
                  /\ \A i \in DOMAIN r.printed : r.printed[i].prefix # l.prefix
                BY <3>4, <4>1
            <4>4. l.ns # NoNamespace /\ l.prefix # NoPrefix
                BY <3>2, <4>1
            <4>5. /\ Sound(v, r.printed)
                  /\ SameScopes(w.context, v.context)
                  /\ v.context.prefixMap = [w.context.prefixMap EXCEPT ![l.prefix] = l.ns]
                <5> HIDE DEF v
                <5> QED BY <3>1, <3>2, <3>3, <4>2, <4>3, <4>4, DeclareIsSound
            <4> QED BY <4>1, <4>5
        <3> QED BY <1>1, <1>2, <3>2, <3>5, NSMapAssumption DEF MeansIn, PrefixMap
    <2> QED BY <1>2, <2>1, <2>2
<1>7. Sound(v, s.printed)
    <2>1. /\ s.printed \in Seq(Printed)
          /\ Len(s.printed) = Len(r.printed) + 1
          /\ \A i \in 1 .. Len(r.printed) : s.printed[i] = r.printed[i]
          /\ s.printed[Len(r.printed) + 1] = name
        <3> HIDE DEF name
        <3> QED BY <1>1, <1>4, <1>5, AppendProperties
    <2>2. /\ DOMAIN s.printed = 1 .. Len(r.printed) + 1
          /\ DOMAIN r.printed = 1 .. Len(r.printed)
          /\ Len(r.printed) \in Nat
        BY <1>1, <2>1, LenProperties
    <2>3. ASSUME NEW i \in DOMAIN s.printed
          PROVE  MeansIn(v.context.prefixMap, s.printed[i])
        <3> HIDE DEF name, v
        <3>1. i = Len(r.printed) + 1 \/ i \in DOMAIN r.printed
            BY <2>2
        <3>2. CASE i = Len(r.printed) + 1
            BY <1>6, <2>1, <3>2
        <3>3. CASE i \in DOMAIN r.printed
            <4>1. s.printed[i] = r.printed[i]
                BY <2>1, <2>2, <3>3
            <4> QED BY <1>6, <3>3, <4>1 DEF Sound
        <3> QED BY <3>1, <3>2, <3>3
    <2> QED BY <1>6, <2>1, <2>3 DEF Sound
<1> QED BY <1>6, <1>7 DEF s, w

-----------------------------------------------------------------------------
(* The two contexts, step by step *)

LEMMA MatchNew ==
    /\ Match(NewContext, NewContext)
    /\ \A w, r : Match(w, r) /\ Len(r.rememberedPositions) = 2 => Match(NewContext, r)
<1>1. ASSUME NEW r, WellFormed(r), Len(r.rememberedPositions) = 2,
             ScopeAt(r, 2) = [p \in Prefix |-> NoNamespace],
             LastPosition(r) = Len(r.restoreLinks)
      PROVE  Match(NewContext, r)
    <2>1. \A i \in 2 .. 2 : i = 2
        OBVIOUS
    <2>2. 2 * 2 - 2 = 2
        OBVIOUS
    <2>3. \A i \in 2 .. 2 : ScopeAt(NewContext, 2 * i - 2) = ScopeAt(r, i)
        BY <1>1, <2>1, <2>2, NewContextWellFormed
    <2> QED BY <1>1, <2>2, <2>3, NewContextWellFormed DEF Match
<1>2. Match(NewContext, NewContext)
    BY <1>1, NewContextWellFormed
<1> QED BY <1>1, <1>2 DEF Match

LEMMA MatchAgrees ==
    ASSUME NEW w, NEW r, Match(w, r)
    PROVE  Reads(w.prefixMap) = Reads(r.prefixMap)
<1> DEFINE n == Len(r.rememberedPositions)
           m == Len(w.rememberedPositions)
<1>1. n \in Nat /\ n >= 2 /\ m = 2 * n - 2 /\ w \in Context /\ r \in Context
      /\ LastPosition(w) = w.rememberedPositions[m] /\ LastPosition(r) = r.rememberedPositions[n]
    BY WellFormedPositions DEF Match
<1>2. ScopeAt(w, m) = Reads(w.prefixMap)
    BY <1>1, UndoneToEnd DEF Match, ScopeAt
<1>3. ScopeAt(r, n) = Reads(r.prefixMap)
    BY <1>1, UndoneToEnd DEF Match, ScopeAt
<1>4. ScopeAt(w, m) = ScopeAt(r, n)
    <2>1. n \in 2 .. n
        BY <1>1
    <2> QED BY <1>1, <2>1 DEF Match
<1> QED BY <1>2, <1>3, <1>4

(* The writer remembers the first position of an element. *)
LEMMA TagOpens ==
    ASSUME NEW w, NEW r, Match(w, r)
    PROVE  MatchInTag(Remember(w), r)
<1> DEFINE n == Len(r.rememberedPositions)
           m == Len(w.rememberedPositions)
           v == Remember(w)
<1>1. /\ n \in Nat /\ n >= 2 /\ m = 2 * n - 2
      /\ LastPosition(w) = w.rememberedPositions[m] /\ LastPosition(w) = Len(w.restoreLinks)
    BY WellFormedPositions DEF Match
<1>2. /\ WellFormed(v)
      /\ Len(v.rememberedPositions) = m + 1
      /\ \A i \in 1 .. m : v.rememberedPositions[i] = w.rememberedPositions[i]
      /\ v.rememberedPositions[m + 1] = Len(w.restoreLinks)
      /\ \A i \in 1 .. m : ScopeAt(v, i) = ScopeAt(w, i)
    BY RememberOpens DEF Match
<1> HIDE DEF v, m, n
<1>3. m + 1 = 2 * n - 1 /\ m \in 1 .. m
    BY <1>1
<1>4. \A i \in 2 .. n : ScopeAt(v, 2 * i - 2) = ScopeAt(r, i)
    <2> TAKE i \in 2 .. n
    <2>1. 2 * i - 2 \in 1 .. m
        BY <1>1
    <2> QED BY <1>2, <2>1 DEF Match, n
<1>5. v.rememberedPositions[2 * n - 1] = v.rememberedPositions[2 * n - 2]
    BY <1>1, <1>2, <1>3
<1>6. Len(v.rememberedPositions) = 2 * n - 1
    BY <1>2, <1>3
<1> QED BY <1>2, <1>4, <1>5, <1>6 DEF MatchInTag, Match, n, v

(* The changes that a tag makes leave the open scopes alone. *)
LEMMA TagGoesOn ==
    ASSUME NEW w, NEW r, MatchInTag(w, r), NEW v, WellFormed(v), SameScopes(w, v)
    PROVE  MatchInTag(v, r)
<1> DEFINE n == Len(r.rememberedPositions)
           m == Len(w.rememberedPositions)
<1>1. n \in Nat /\ n >= 2 /\ m = 2 * n - 1
    BY WellFormedPositions DEF MatchInTag
<1>2. v.rememberedPositions = w.rememberedPositions
    BY DEF SameScopes
<1>3. ASSUME NEW i \in 2 .. n
      PROVE  ScopeAt(v, 2 * i - 2) = ScopeAt(r, i)
    <2>1. 2 * i - 2 \in 1 .. m
        BY <1>1
    <2> QED BY <2>1 DEF SameScopes, MatchInTag
<1> QED BY <1>2, <1>3 DEF MatchInTag

(* The parser still has the bindings from before the tag. *)
LEMMA TagStartsFrom ==
    ASSUME NEW w, NEW r, MatchInTag(w, r)
    PROVE  Reads(UndoneTo(w, LastPosition(w))) = Reads(r.prefixMap)
<1> DEFINE n == Len(r.rememberedPositions)
           m == Len(w.rememberedPositions)
<1>1. /\ n \in Nat /\ n >= 2 /\ m = 2 * n - 1 /\ r \in Context
      /\ LastPosition(w) = w.rememberedPositions[m] /\ LastPosition(r) = r.rememberedPositions[n]
    BY WellFormedPositions DEF MatchInTag
<1>2. Reads(UndoneTo(w, LastPosition(w))) = ScopeAt(w, 2 * n - 2)
    BY <1>1 DEF MatchInTag, ScopeAt
<1>3. ScopeAt(r, n) = Reads(r.prefixMap)
    BY <1>1, UndoneToEnd DEF MatchInTag, ScopeAt
<1>4. n \in 2 .. n
    BY <1>1
<1> QED BY <1>2, <1>3, <1>4 DEF MatchInTag

(* An empty element: the writer restores, the parser remembers and restores. *)
LEMMA ElementIsEmpty ==
    ASSUME NEW w, NEW r, MatchInTag(w, r), NEW d, WellFormed(d), SameScopes(r, d)
    PROVE  /\ Match(Restore(w), Restore(Remember(d)))
           /\ Len(Restore(Remember(d)).rememberedPositions) = Len(r.rememberedPositions)
<1> DEFINE n == Len(r.rememberedPositions)
           m == Len(w.rememberedPositions)
           v == Restore(w)
           e == Remember(d)
           f == Restore(e)
<1>1. /\ n \in Nat /\ n >= 2 /\ m = 2 * n - 1 /\ m > 2
      /\ Len(d.rememberedPositions) = n
    BY WellFormedPositions DEF MatchInTag, SameScopes
<1>2. /\ WellFormed(v)
      /\ Len(v.rememberedPositions) = m - 1
      /\ \A i \in 1 .. m - 1 : v.rememberedPositions[i] = w.rememberedPositions[i]
      /\ Len(v.restoreLinks) = w.rememberedPositions[m - 1]
      /\ \A i \in 1 .. m - 1 : ScopeAt(v, i) = ScopeAt(w, i)
    BY <1>1, RestoreCloses DEF MatchInTag
<1>3. /\ WellFormed(e)
      /\ Len(e.rememberedPositions) = n + 1
      /\ \A i \in 1 .. n : ScopeAt(e, i) = ScopeAt(d, i)
    BY <1>1, RememberOpens
<1> HIDE DEF e
<1>4. n + 1 > 2 /\ n + 1 - 1 = n
    BY <1>1
<1>5. /\ WellFormed(f)
      /\ Len(f.rememberedPositions) = n
      /\ \A i \in 1 .. n : f.rememberedPositions[i] = e.rememberedPositions[i]
      /\ Len(f.restoreLinks) = e.rememberedPositions[n]
      /\ \A i \in 1 .. n : ScopeAt(f, i) = ScopeAt(e, i)
    BY <1>3, <1>4, RestoreCloses
<1> HIDE DEF f, v, m, n
<1>6. LastPosition(f) = Len(f.restoreLinks)
    <2>1. n \in 1 .. n
        BY <1>1
    <2>2. LastPosition(f) = f.rememberedPositions[n]
        BY <1>5, WellFormedPositions
    <2> QED BY <1>5, <2>1, <2>2
<1>7. LastPosition(v) = Len(v.restoreLinks)
    <2>1. m - 1 \in 1 .. m - 1
        BY <1>1
    <2>2. LastPosition(v) = v.rememberedPositions[m - 1]
        BY <1>2, WellFormedPositions
    <2> QED BY <1>2, <2>1, <2>2
<1>8. \A i \in 2 .. n : ScopeAt(f, i) = ScopeAt(r, i) /\ ScopeAt(v, 2 * i - 2) = ScopeAt(r, i)
    <2> TAKE i \in 2 .. n
    <2>1. 2 * i - 2 \in 1 .. m - 1 /\ i \in 1 .. n
        BY <1>1
    <2> QED BY <1>2, <1>3, <1>5, <2>1 DEF SameScopes, MatchInTag, n
<1>9. m - 1 = 2 * n - 2 /\ 2 \in 2 .. n
    BY <1>1
<1>10. Match(v, f)
    BY <1>2, <1>5, <1>6, <1>7, <1>8, <1>9 DEF Match, MatchInTag
<1> QED BY <1>5, <1>10 DEF f, v, e, n

(* An element with content: both remember where the content starts. *)
LEMMA ElementOpens ==
    ASSUME NEW w, NEW r, MatchInTag(w, r), NEW d, WellFormed(d), SameScopes(r, d),
           Reads(d.prefixMap) = Reads(w.prefixMap)
    PROVE  Match(Remember(w), Remember(d))
<1> DEFINE n == Len(r.rememberedPositions)
           m == Len(w.rememberedPositions)
           v == Remember(w)
           e == Remember(d)
<1>1. /\ n \in Nat /\ n >= 2 /\ m = 2 * n - 1
      /\ Len(d.rememberedPositions) = n
    BY WellFormedPositions DEF MatchInTag, SameScopes
<1>2. /\ WellFormed(v)
      /\ Len(v.rememberedPositions) = m + 1
      /\ v.rememberedPositions[m + 1] = Len(v.restoreLinks)
      /\ \A i \in 1 .. m : ScopeAt(v, i) = ScopeAt(w, i)
      /\ ScopeAt(v, m + 1) = Reads(w.prefixMap)
    BY RememberOpens DEF MatchInTag
<1>3. /\ WellFormed(e)
      /\ Len(e.rememberedPositions) = n + 1
      /\ e.rememberedPositions[n + 1] = Len(e.restoreLinks)
      /\ \A i \in 1 .. n : ScopeAt(e, i) = ScopeAt(d, i)
      /\ ScopeAt(e, n + 1) = Reads(d.prefixMap)
    BY <1>1, RememberOpens
<1> HIDE DEF e, v, m, n
<1>4. LastPosition(v) = Len(v.restoreLinks) /\ LastPosition(e) = Len(e.restoreLinks)
    BY <1>2, <1>3, WellFormedPositions
<1>5. \A i \in 2 .. n + 1 : ScopeAt(v, 2 * i - 2) = ScopeAt(e, i)
    <2> TAKE i \in 2 .. n + 1
    <2>1. CASE i = n + 1
        <3>1. 2 * i - 2 = m + 1
            BY <1>1, <2>1
        <3> QED BY <1>2, <1>3, <2>1, <3>1
    <2>2. CASE i # n + 1
        <3>1. 2 * i - 2 \in 1 .. m /\ i \in 1 .. n /\ i \in 2 .. n
            BY <1>1, <2>2
        <3> QED BY <1>2, <1>3, <3>1 DEF SameScopes, MatchInTag, n
    <2> QED BY <2>1, <2>2
<1>6. ScopeAt(e, 2) = ScopeAt(r, 2)
    <2>1. 2 \in 1 .. n
        BY <1>1
    <2> QED BY <1>3, <2>1 DEF SameScopes, n
<1>7. m + 1 = 2 * (n + 1) - 2
    BY <1>1
<1> QED BY <1>2, <1>3, <1>4, <1>5, <1>6, <1>7 DEF Match, MatchInTag, v, e

(* The end of an element with content: two positions and one. *)
LEMMA ElementEnds ==
    ASSUME NEW w, NEW r, Match(w, r), Len(r.rememberedPositions) > 2
    PROVE  Match(Restore(Restore(w)), Restore(r))
<1> DEFINE n == Len(r.rememberedPositions)
           m == Len(w.rememberedPositions)
           u == Restore(w)
           v == Restore(u)
           e == Restore(r)
<1>1. n \in Nat /\ n > 2 /\ m = 2 * n - 2 /\ m > 2 /\ m - 1 > 2 /\ m - 1 - 1 = m - 2
    BY WellFormedPositions DEF Match
<1>2. /\ WellFormed(u)
      /\ Len(u.rememberedPositions) = m - 1
      /\ \A i \in 1 .. m - 1 : ScopeAt(u, i) = ScopeAt(w, i)
    BY <1>1, RestoreCloses DEF Match
<1> HIDE DEF u
<1>3. /\ WellFormed(v)
      /\ Len(v.rememberedPositions) = m - 2
      /\ \A i \in 1 .. m - 2 : v.rememberedPositions[i] = u.rememberedPositions[i]
      /\ Len(v.restoreLinks) = u.rememberedPositions[m - 2]
      /\ \A i \in 1 .. m - 2 : ScopeAt(v, i) = ScopeAt(u, i)
    BY <1>1, <1>2, RestoreCloses
<1>4. /\ WellFormed(e)
      /\ Len(e.rememberedPositions) = n - 1
      /\ \A i \in 1 .. n - 1 : e.rememberedPositions[i] = r.rememberedPositions[i]
      /\ Len(e.restoreLinks) = r.rememberedPositions[n - 1]
      /\ \A i \in 1 .. n - 1 : ScopeAt(e, i) = ScopeAt(r, i)
    BY <1>1, RestoreCloses DEF Match
<1> HIDE DEF v, e, m, n
<1>5. LastPosition(v) = Len(v.restoreLinks)
    <2>1. m - 2 \in 1 .. m - 2
        BY <1>1
    <2> QED BY <1>3, <2>1, WellFormedPositions
<1>6. LastPosition(e) = Len(e.restoreLinks)
    <2>1. n - 1 \in 1 .. n - 1
        BY <1>1
    <2> QED BY <1>4, <2>1, WellFormedPositions
<1>7. \A i \in 2 .. n - 1 : ScopeAt(v, 2 * i - 2) = ScopeAt(e, i)
    <2> TAKE i \in 2 .. n - 1
    <2>1. 2 * i - 2 \in 1 .. m - 2 /\ 2 * i - 2 \in 1 .. m - 1 /\ i \in 1 .. n - 1 /\ i \in 2 .. n
        BY <1>1
    <2> QED BY <1>2, <1>3, <1>4, <2>1 DEF Match, n
<1>8. ScopeAt(e, 2) = ScopeAt(r, 2)
    <2>1. 2 \in 1 .. n - 1
        BY <1>1
    <2> QED BY <1>4, <2>1
<1>9. m - 2 = 2 * (n - 1) - 2
    BY <1>1
<1> QED BY <1>3, <1>4, <1>5, <1>6, <1>7, <1>8, <1>9 DEF Match, v, e, u

-----------------------------------------------------------------------------
(* Two names in one step *)

LEMMA TwoElements ==
    ASSUME NEW x, NEW y
    PROVE  /\ IsFiniteSet({x, y})
           /\ x # y => Cardinality({x, y}) = 2
<1>1. IsFiniteSet({x}) /\ Cardinality({x}) = 1
    BY FS_Singleton
<1>2. {x, y} = {x} \cup {y}
    OBVIOUS
<1>3. /\ IsFiniteSet({x} \cup {y})
      /\ Cardinality({x} \cup {y}) = IF y \in {x} THEN Cardinality({x}) ELSE Cardinality({x}) + 1
    BY <1>1, FS_AddElement
<1> QED BY <1>1, <1>2, <1>3

(* The generated prefixes that are left suffice for the second name, too. *)
LEMMA PrefixesSuffice ==
    ASSUME NEW w, NEW names, Sound(w, names), NEW use,
           NEW a \in Namespace, NEW b \in Namespace,
           Cardinality({n \in {unhinted(a), unhinted(b)} :
                           n.prefix = NoPrefix /\ n.ns # NoNamespace
                           /\ ~isSetNamespaceURI(w.context.prefixMap, n.ns)})
               <= Cardinality(Free(w))
    PROVE  /\ HasPrefix(w, unhinted(a))
           /\ HasPrefix(print([writer |-> w, printed |-> names], use, unhinted(a)).writer, unhinted(b))
<1> DEFINE map == w.context.prefixMap
           ub  == {n \in {unhinted(a), unhinted(b)} :
                      n.prefix = NoPrefix /\ n.ns # NoNamespace /\ ~isSetNamespaceURI(map, n.ns)}
           q   == cprintQName(w, unhinted(a))
           v   == print([writer |-> w, printed |-> names], use, unhinted(a)).writer
<1>1. /\ w \in Writer /\ map \in PrefixMap /\ w.current \in Nat
      /\ Len(Generated) \in Nat
    BY SerializerAssumption, LenProperties DEF Sound, Writer, Context
<1>2. \A ns \in Namespace : /\ unhinted(ns).ns = ns /\ unhinted(ns).prefix = NoPrefix
                            /\ unhinted(ns) \in QName
    BY NSMapAssumption DEF unhinted, QName
<1>3. IsFiniteSet(Free(w)) /\ Cardinality(Free(w)) \in Nat
    <2>1. Free(w) \subseteq w.current + 1 .. Len(Generated)
        BY DEF Free
    <2>2. IsFiniteSet(w.current + 1 .. Len(Generated))
        BY <1>1, FS_Interval
    <2> QED BY <2>1, <2>2, FS_Subset, FS_CardinalityType
<1>4. IsFiniteSet(ub) /\ Cardinality(ub) \in Nat
    <2>1. IsFiniteSet({unhinted(a), unhinted(b)})
        BY TwoElements
    <2>2. ub \subseteq {unhinted(a), unhinted(b)}
        OBVIOUS
    <2> HIDE DEF ub
    <2> QED BY <2>1, <2>2, FS_Subset, FS_CardinalityType
<1>5. Cardinality(ub) <= Cardinality(Free(w))
    OBVIOUS
<1> HIDE DEF ub
<1>6. ASSUME NEW x \in ub
      PROVE  Free(w) # {}
    <2>1. Cardinality(ub) # 0
        BY <1>4, FS_EmptySet
    <2>2. Cardinality(Free(w)) # 0
        BY <1>3, <1>4, <1>5, <2>1
    <2> QED BY <2>2, FS_EmptySet
<1>7. HasPrefix(w, unhinted(a))
    <2>1. CASE unhinted(a) \in ub
        BY <1>6, <2>1 DEF HasPrefix
    <2>2. CASE unhinted(a) \notin ub
        BY <1>2, <2>2 DEF HasPrefix, ub
    <2> QED BY <2>1, <2>2
<1>8. /\ q.prefix \in Prefix
      /\ Found(w, unhinted(a), q) \/ Declared(w, unhinted(a), q)
      /\ v = [context |-> q.context, current |-> q.current]
    BY <1>1, <1>2, <1>7, NamePrinted DEF print
<1>9. SUFFICES HasPrefix(v, unhinted(b))
    BY <1>7
<1> HIDE DEF q, v
<1>10. CASE Found(w, unhinted(a), q)
    <2>1. v = w
        BY <1>1, <1>8, <1>10 DEF Found, Writer
    <2>2. CASE unhinted(b) \in ub
        BY <1>6, <2>1, <2>2 DEF HasPrefix
    <2>3. CASE unhinted(b) \notin ub
        BY <1>2, <2>1, <2>3 DEF HasPrefix, ub
    <2> QED BY <2>2, <2>3
<1>11. CASE Declared(w, unhinted(a), q)
    <2>1. /\ v.context = declare(w.context, [prefix |-> q.prefix, ns |-> a])
          /\ v.current = q.current
          /\ a # NoNamespace
          /\ ~isSetNamespaceURI(map, a)
          /\ q.current \in Free(w) /\ q.prefix = Generated[q.current]
          /\ \A i \in Free(w) : q.current <= i
        BY <1>2, <1>8, <1>11 DEF Declared
    <2>2. v.context.prefixMap = [map EXCEPT ![q.prefix] = a]
        BY <2>1 DEF declare, AddNamespace, AddToMap
    <2>3. q.prefix \in Prefix /\ ~isSetPrefix(map, q.prefix)
        BY <2>1, NextPrefix, <1>8 DEF Free
    <2>4. \A p \in Prefix : v.context.prefixMap[p] = IF p = q.prefix THEN a ELSE map[p]
        BY <1>1, <2>2 DEF PrefixMap
    <2>5. CASE b = NoNamespace
        BY <1>2, <2>5 DEF HasPrefix
    <2>6. CASE b = a
        BY <1>2, <2>3, <2>4, <2>6 DEF HasPrefix, isSetNamespaceURI
    <2>7. CASE isSetNamespaceURI(map, b)
        <3>1. PICK p \in Prefix : map[p] = b
            BY <2>7 DEF isSetNamespaceURI
        <3>2. p # q.prefix
            BY <2>3, <3>1, NSMapAssumption DEF isSetPrefix
        <3>3. v.context.prefixMap[p] = b
            BY <2>4, <3>1, <3>2
        <3> QED BY <1>2, <3>3 DEF HasPrefix, isSetNamespaceURI
    <2>8. CASE b # NoNamespace /\ b # a /\ ~isSetNamespaceURI(map, b)
        <3>1. ub = {unhinted(a), unhinted(b)}
            BY <1>2, <2>1, <2>8 DEF ub
        <3>2. unhinted(a) # unhinted(b)
            BY <1>2, <2>8
        <3>3. Cardinality(ub) = 2
            BY <3>1, <3>2, TwoElements
        <3>4. ~(Free(w) \subseteq {q.current})
            <4>1. SUFFICES ASSUME Free(w) \subseteq {q.current} PROVE FALSE
                OBVIOUS
            <4>2. IsFiniteSet({q.current}) /\ Cardinality({q.current}) = 1
                BY FS_Singleton
            <4>3. Cardinality(Free(w)) <= 1
                BY <4>1, <4>2, FS_Subset
            <4> QED BY <1>3, <1>5, <3>3, <4>3
        <3>5. PICK i \in Free(w) : i # q.current
            BY <3>4
        <3>6. /\ i \in w.current + 1 .. Len(Generated) /\ q.current \in w.current + 1 .. Len(Generated)
              /\ q.current <= i /\ ~isSetPrefix(map, Generated[i])
            BY <2>1, <3>5 DEF Free
        <3>7. i \in v.current + 1 .. Len(Generated)
            BY <1>1, <2>1, <3>5, <3>6
        <3>8. /\ i \in DOMAIN Generated /\ q.current \in DOMAIN Generated
              /\ Generated[i] \in Prefix
            <4>1. DOMAIN Generated = 1 .. Len(Generated)
                BY SerializerAssumption, LenProperties
            <4>2. i \in 1 .. Len(Generated) /\ q.current \in 1 .. Len(Generated)
                BY <1>1, <3>6
            <4> QED BY <4>1, <4>2, SerializerAssumption, ElementOfSeq
        <3>9. Generated[i] # q.prefix
            BY <2>1, <3>5, <3>8, SerializerAssumption
        <3>10. ~isSetPrefix(v.context.prefixMap, Generated[i])
            BY <2>4, <3>6, <3>8, <3>9 DEF isSetPrefix
        <3>11. i \in Free(v)
            BY <3>7, <3>10 DEF Free
        <3> QED BY <3>11 DEF HasPrefix
    <2> QED BY <2>5, <2>6, <2>7, <2>8
<1> QED BY <1>8, <1>10, <1>11

-----------------------------------------------------------------------------
(* The declarations of a start tag *)

LEMMA LinksAre ==
    ASSUME NEW c, WellFormed(c)
    PROVE  LET ls == getLastStoredLinks(c)
           IN  /\ Len(ls) \in Nat /\ DOMAIN ls = 1 .. Len(ls)
               /\ \A i \in 1 .. Len(ls) :
                      ls[i].prefix \in Prefix /\ ls[i].ns = c.prefixMap[ls[i].prefix]
               /\ NewPrefixes(c) = {ls[i].prefix : i \in 1 .. Len(ls)}
               /\ BoundOnce(c) =>
                      /\ ls \in Seq(Link)
                      /\ \A i, j \in 1 .. Len(ls) : ls[i].prefix = ls[j].prefix => i = j
                      /\ \A i \in 1 .. Len(ls) : ls[i].ns = NoNamespace => ls[i].prefix = NoPrefix
<1> DEFINE last == LastPosition(c)
           len  == Len(c.restoreLinks)
           k    == len - last
           ls   == getLastStoredLinks(c)
           log  == c.restoreLinks
<1>1. /\ len \in Nat /\ last \in 0 .. len /\ log \in Seq(Link)
      /\ c.prefixMap \in PrefixMap
    BY WellFormedPositions DEF Context
<1>2. k \in Nat
    BY <1>1
<1> HIDE DEF last
<1>3. ls = [i \in 1 .. k |-> [prefix |-> log[last + i].prefix, ns |-> c.prefixMap[log[last + i].prefix]]]
    BY DEF getLastStoredLinks, last
<1> HIDE DEF k, ls
<1>4. Len(ls) = k /\ DOMAIN ls = 1 .. k
    BY <1>2, <1>3
<1>5. ASSUME NEW i \in 1 .. k
      PROVE  /\ last + i \in last + 1 .. len
             /\ ls[i].prefix = log[last + i].prefix
             /\ ls[i].prefix \in Prefix /\ ls[i].ns = c.prefixMap[ls[i].prefix]
             /\ ls[i] = [prefix |-> ls[i].prefix, ns |-> ls[i].ns]
    <2>1. last + i \in last + 1 .. len /\ last + i \in 1 .. len
        BY <1>1 DEF k
    <2>2. log[last + i] \in Link
        BY <1>1, <2>1, ElementOfSeq
    <2> HIDE DEF len, log
    <2> QED BY <1>3, <2>1, <2>2 DEF Link
<1>6. ASSUME NEW i \in last + 1 .. len
      PROVE  /\ i - last \in 1 .. k
             /\ log[i].prefix = ls[i - last].prefix
    <2>1. i - last \in 1 .. k /\ last + (i - last) = i
        BY <1>1 DEF k
    <2> QED BY <1>5, <2>1
<1>7. NewPrefixes(c) = {ls[i].prefix : i \in 1 .. k}
    <2>1. NewPrefixes(c) = {log[i].prefix : i \in last + 1 .. len}
        BY DEF NewPrefixes, last
    <2>2. ASSUME NEW i \in last + 1 .. len
          PROVE  \E j \in 1 .. k : log[i].prefix = ls[j].prefix
        BY <1>6
    <2>3. ASSUME NEW j \in 1 .. k
          PROVE  \E i \in last + 1 .. len : log[i].prefix = ls[j].prefix
        BY <1>5
    <2> HIDE DEF log, len
    <2> QED BY <2>1, <2>2, <2>3
<1>8. ASSUME BoundOnce(c)
      PROVE  /\ ls \in Seq(Link)
             /\ \A i, j \in 1 .. k : ls[i].prefix = ls[j].prefix => i = j
             /\ \A i \in 1 .. k : ls[i].ns = NoNamespace => ls[i].prefix = NoPrefix
    <2>1. /\ \A i, j \in last + 1 .. len : log[i].prefix = log[j].prefix => i = j
          /\ \A i \in last + 1 .. len :
                 /\ isSetPrefix(c.prefixMap, log[i].prefix)
                 /\ c.prefixMap[log[i].prefix] = NoNamespace => log[i].prefix = NoPrefix
        BY <1>8 DEF BoundOnce, last
    <2> HIDE DEF log, len
    <2>2. ASSUME NEW i \in 1 .. k, NEW j \in 1 .. k, ls[i].prefix = ls[j].prefix
          PROVE  last + i = last + j
        <3>1. last + i \in last + 1 .. len /\ last + j \in last + 1 .. len
            BY <1>5
        <3>2. log[last + i].prefix = log[last + j].prefix
            BY <1>5, <2>2
        <3> QED BY <2>1, <3>1, <3>2
    <2>3. \A i, j \in 1 .. k : last + i = last + j => i = j
        BY <1>1
    <2>4. ASSUME NEW i \in 1 .. k
          PROVE  /\ ls[i].ns \in Namespace
                 /\ ls[i].ns = NoNamespace => ls[i].prefix = NoPrefix
        <3>1. /\ isSetPrefix(c.prefixMap, ls[i].prefix)
              /\ c.prefixMap[ls[i].prefix] = NoNamespace => ls[i].prefix = NoPrefix
            <4>1. last + i \in last + 1 .. len
                BY <1>5
            <4>2. ls[i].prefix = log[last + i].prefix
                BY <1>5
            <4> QED BY <2>1, <4>1, <4>2
        <3>2. c.prefixMap[ls[i].prefix] \in Namespace
            BY <1>1, <1>5, <3>1 DEF PrefixMap, isSetPrefix
        <3>3. ls[i].ns = c.prefixMap[ls[i].prefix]
            BY <1>5
        <3> QED BY <3>1, <3>2, <3>3
    <2>5. ASSUME NEW i \in 1 .. k
          PROVE  ls[i] \in Link
        <3>1. ls[i] = [prefix |-> ls[i].prefix, ns |-> ls[i].ns] /\ ls[i].prefix \in Prefix
            BY <1>5
        <3>2. ls[i].ns \in Namespace
            BY <2>4
        <3> QED BY <3>1, <3>2 DEF Link
    <2>6. ls \in Seq(Link)
        <3>1. ls \in [1 .. k -> Link]
            BY <1>3, <1>4, <2>5
        <3> QED BY <1>2, <3>1, SeqDef
    <2> QED BY <2>2, <2>3, <2>4, <2>6
<1> QED BY <1>2, <1>4, <1>5, <1>7, <1>8 DEF ls

(* The parser ends up with the writer's bindings. *)
LEMMA DeclaredAgrees ==
    ASSUME NEW w, NEW r, MatchInTag(w, r), BoundOnce(w), isSetPrefix(r.prefixMap, NoPrefix)
    PROVE  LET ls == getLastStoredLinks(w)
               d  == declaredUpTo(r, ls)[Len(ls)]
           IN  /\ WellFormed(d)
               /\ SameScopes(r, d)
               /\ Reads(d.prefixMap) = Reads(w.prefixMap)
               /\ isSetPrefix(d.prefixMap, NoPrefix)
               /\ d.prefixMap \in PrefixMap
<1> DEFINE ls  == getLastStoredLinks(w)
           d   == declaredUpTo(r, ls)[Len(ls)]
           map == w.prefixMap
<1>1. /\ WellFormed(w) /\ WellFormed(r)
      /\ map \in PrefixMap /\ r.prefixMap \in PrefixMap /\ w \in Context
      /\ LastPosition(w) \in Nat /\ Len(w.restoreLinks) \in Nat
    <2>1. WellFormed(w) /\ WellFormed(r)
        BY DEF MatchInTag
    <2>2. /\ w \in Context /\ r \in Context /\ Len(w.restoreLinks) \in Nat
          /\ LastPosition(w) \in 0 .. Len(w.restoreLinks)
        BY <2>1, WellFormedPositions
    <2> QED BY <2>1, <2>2 DEF Context
<1>2. /\ Len(ls) \in Nat
      /\ \A i \in 1 .. Len(ls) : ls[i].prefix \in Prefix /\ ls[i].ns = map[ls[i].prefix]
      /\ NewPrefixes(w) = {ls[i].prefix : i \in 1 .. Len(ls)}
      /\ ls \in Seq(Link)
    BY <1>1, LinksAre
<1> HIDE DEF ls
<1>3. /\ WellFormed(d)
      /\ SameScopes(r, d)
      /\ \A p \in Prefix :
             d.prefixMap[p] = IF \E i \in 1 .. Len(ls) : ls[i].prefix = p
                              THEN map[p] ELSE r.prefixMap[p]
    <2>1. \A i \in 1 .. Len(ls) : ls[i].ns = map[ls[i].prefix]
        BY <1>2
    <2> HIDE DEF map
    <2> QED BY <1>1, <1>2, <2>1, DeclaredBinds
<1> HIDE DEF d
<1>4. ASSUME NEW p \in Prefix, p \notin NewPrefixes(w)
      PROVE  Reads(r.prefixMap)[p] = Reads(map)[p]
    <2>1. Reads(r.prefixMap) = Reads(UndoneTo(w, LastPosition(w)))
        BY TagStartsFrom
    <2>2. LinksAfter(w, LastPosition(w), p) = {}
        BY <1>4 DEF LinksAfter, NewPrefixes
    <2>3. UndoneTo(w, LastPosition(w))[p] = map[p]
        BY <2>2 DEF UndoneTo
    <2> QED BY <2>1, <2>3 DEF Reads, isSetPrefix
<1>5. ASSUME NEW p \in Prefix
      PROVE  Reads(d.prefixMap)[p] = Reads(map)[p]
    <2>1. CASE p \in NewPrefixes(w)
        <3>1. d.prefixMap[p] = map[p]
            BY <1>2, <1>3, <2>1
        <3> QED BY <3>1 DEF Reads, isSetPrefix
    <2>2. CASE p \notin NewPrefixes(w)
        <3>1. d.prefixMap[p] = r.prefixMap[p]
            BY <1>2, <1>3, <2>2
        <3> QED BY <1>4, <2>2, <3>1 DEF Reads, isSetPrefix
    <2> QED BY <2>1, <2>2
<1>6. Reads(d.prefixMap) = Reads(map)
    BY <1>5 DEF Reads
<1>7. isSetPrefix(d.prefixMap, NoPrefix)
    <2>1. \A i \in 1 .. Len(ls) : map[ls[i].prefix] \in Namespace
        <3> TAKE i \in 1 .. Len(ls)
        <3>1. ls[i] \in Link
            BY <1>2, ElementOfSeq
        <3>2. ls[i].ns = map[ls[i].prefix]
            BY <1>2
        <3> QED BY <3>1, <3>2 DEF Link
    <2> QED BY <1>3, <2>1, NSMapAssumption DEF isSetPrefix
<1>8. d.prefixMap \in PrefixMap
    BY <1>3 DEF WellFormed, Context
<1> QED BY <1>3, <1>6, <1>7, <1>8 DEF d, ls

-----------------------------------------------------------------------------
(* The steps *)

Tag == [name : QName, printed : Seq(Printed), declared : Seq(Link), read : Seq(Namespace)]

LEMMA UnhintedType ==
    ASSUME NEW ns \in Namespace
    PROVE  unhinted(ns) \in QName /\ unhinted(ns).ns = ns /\ unhinted(ns).prefix = NoPrefix
BY NSMapAssumption DEF unhinted, QName

(* The contexts of a tag in which names are printed, taken together. *)
LEMMA InTagFacts ==
    ASSUME IInv, InTag
    PROVE  /\ Sound(writer, tag.printed)
           /\ MatchInTag(writer.context, reader)
           /\ tag \in Tag /\ reader \in Context
           /\ tag.read = << >> /\ tag.declared = << >>
           /\ tag.name \in QName
           /\ tag.name.ns = NoNamespace => prefixMap[NoPrefix] = NoNamespace
<1>1. /\ writer \in Writer /\ tag \in Tag /\ reader \in Context
      /\ isSetPrefix(prefixMap, NoPrefix)
      /\ MatchInTag(writer.context, reader)
      /\ tag.read = << >> /\ tag.declared = << >>
      /\ BoundOnce(writer.context)
      /\ \A i \in DOMAIN tag.printed : MeansIn(prefixMap, tag.printed[i])
      /\ tag.name.ns = NoNamespace => prefixMap[NoPrefix] = NoNamespace
    BY DEF IInv, TypeOK, Writer, Tag, Nested, TagIsSound
<1>2. WellFormed(writer.context)
    BY <1>1 DEF MatchInTag
<1>3. tag.printed \in Seq(Printed) /\ tag.name \in QName
    BY <1>1 DEF Tag
<1> QED BY <1>1, <1>2, <1>3 DEF Sound, prefixMap

(* Names are printed as Sound demands: the tag goes on. *)
LEMMA NamesKeepIInv ==
    ASSUME IInv, InTag, NEW r, Sound(r.writer, r.printed),
           SameScopes(writer.context, r.writer.context),
           r.writer.context.prefixMap[NoPrefix] = prefixMap[NoPrefix],
           after(r), UNCHANGED reader, pc' = "names"
    PROVE  IInv'
<1>1. /\ MatchInTag(writer.context, reader)
      /\ tag \in Tag /\ reader \in Context
      /\ tag.read = << >> /\ tag.declared = << >>
      /\ tag.name \in QName
      /\ tag.name.ns = NoNamespace => prefixMap[NoPrefix] = NoNamespace
      /\ isSetPrefix(reader.prefixMap, NoPrefix)
    BY InTagFacts DEF IInv
<1>2. /\ writer' = r.writer /\ reader' = reader
      /\ tag'.name = tag.name /\ tag'.printed = r.printed
      /\ tag'.declared = << >> /\ tag'.read = << >>
      /\ tag' \in Tag
    <2>1. r.printed \in Seq(Printed)
        BY DEF Sound
    <2> QED BY <1>1, <2>1 DEF after, Tag
<1>3. /\ r.writer \in Writer /\ WellFormed(r.writer.context) /\ BoundOnce(r.writer.context)
      /\ isSetPrefix(r.writer.context.prefixMap, NoPrefix)
      /\ \A i \in DOMAIN r.printed : MeansIn(r.writer.context.prefixMap, r.printed[i])
    BY DEF Sound
<1>4. MatchInTag(r.writer.context, reader)
    BY <1>1, <1>3, TagGoesOn
<1>5. TypeOK'
    BY <1>1, <1>2, <1>3 DEF TypeOK, Tag, Writer
<1>6. Nested'
    BY <1>2, <1>4 DEF Nested, InTag
<1>7. TagIsSound'
    BY <1>1, <1>2, <1>3 DEF TagIsSound, InTag, prefixMap, NamesResolve, DeclarationsAreLegal
<1> QED BY <1>1, <1>2, <1>3, <1>5, <1>6, <1>7 DEF IInv, prefixMap

(* Between tags nothing is asked of the tag but what its reader found. *)
LEMMA TagIsRead ==
    ASSUME IInv, pc = "names", tag' = readTag, pc' \notin {"namespaces", "names"}
    PROVE  tag' \in Tag /\ TagIsSound'
<1> DEFINE d == declared(reader)
<1>1. /\ InTag
      /\ Sound(writer, tag.printed)
      /\ MatchInTag(writer.context, reader)
      /\ tag \in Tag
    BY InTagFacts DEF InTag
<1>2. /\ WellFormed(writer.context) /\ BoundOnce(writer.context)
      /\ tag.printed \in Seq(Printed)
      /\ isSetPrefix(prefixMap, NoPrefix) /\ prefixMap \in PrefixMap
      /\ \A i \in DOMAIN tag.printed : MeansIn(prefixMap, tag.printed[i])
    BY <1>1 DEF Sound, prefixMap, Writer, Context
<1>3. /\ Len(links) \in Nat /\ DOMAIN links = 1 .. Len(links)
      /\ links \in Seq(Link)
      /\ \A i, j \in 1 .. Len(links) : links[i].prefix = links[j].prefix => i = j
      /\ \A i \in 1 .. Len(links) : links[i].ns = NoNamespace => links[i].prefix = NoPrefix
    BY <1>2, LinksAre DEF links
<1>4. /\ Reads(d.prefixMap) = Reads(prefixMap)
      /\ isSetPrefix(d.prefixMap, NoPrefix)
      /\ d.prefixMap \in PrefixMap
    <2>1. isSetPrefix(reader.prefixMap, NoPrefix)
        BY DEF IInv
    <2> QED BY <1>1, <1>2, <2>1, DeclaredAgrees DEF declared, links, prefixMap
<1> HIDE DEF d
<1>5. tag' = [tag EXCEPT !.declared = links,
                         !.read = [i \in DOMAIN tag.printed |-> getQName(d, tag.printed[i])]]
    BY DEF readTag, d
<1>6. ASSUME NEW i \in DOMAIN tag.printed
      PROVE  LET p == tag.printed[i]
             IN  /\ getQName(d, p) \in Namespace
                 /\ \/ getQName(d, p) = p.ns
                    \/ p.use = "attribute" /\ p.prefix = NoPrefix
                    \/ p.use = "type" /\ p.ns = NoNamespace
    <2> DEFINE p == tag.printed[i]
    <2>1. p \in Printed
        BY <1>2, LenProperties, ElementOfSeq
    <2>2. MeansIn(prefixMap, p) /\ p.prefix \in Prefix /\ p.ns \in Namespace
        BY <1>2, <2>1 DEF Printed
    <2> HIDE DEF p
    <2>3. \A q \in Prefix : Reads(d.prefixMap)[q] = Reads(prefixMap)[q]
        BY <1>4
    <2>4. CASE p.prefix # NoPrefix
        <3>1. prefixMap[p.prefix] = p.ns /\ p.ns # NoNamespace /\ p.ns # Unset
            BY <2>2, <2>4, NSMapAssumption DEF MeansIn
        <3>2. Reads(d.prefixMap)[p.prefix] = p.ns
            BY <2>2, <2>3, <3>1 DEF Reads, isSetPrefix
        <3>3. d.prefixMap[p.prefix] = p.ns
            BY <2>2, <3>1, <3>2 DEF Reads, isSetPrefix
        <3> QED BY <2>2, <2>4, <3>3 DEF getQName, p
    <2>5. CASE p.prefix = NoPrefix
        <3>1. d.prefixMap[NoPrefix] = prefixMap[NoPrefix]
            BY <1>2, <1>4, <2>3, NSMapAssumption DEF Reads, isSetPrefix
        <3>2. prefixMap[NoPrefix] \in Namespace
            BY <1>2, NSMapAssumption DEF PrefixMap, isSetPrefix
        <3>3. getQName(d, p) = IF p.use = "attribute" THEN NoNamespace ELSE prefixMap[NoPrefix]
            BY <2>5, <3>1 DEF getQName
        <3> QED BY <2>2, <2>5, <3>2, <3>3, NSMapAssumption DEF MeansIn, p
    <2> QED BY <2>4, <2>5
<1>7. tag' \in Tag
    <2> DEFINE read == [i \in DOMAIN tag.printed |-> getQName(d, tag.printed[i])]
    <2>1. DOMAIN tag.printed = 1 .. Len(tag.printed) /\ Len(tag.printed) \in Nat
        BY <1>2, LenProperties
    <2>2. read \in [1 .. Len(tag.printed) -> Namespace]
        BY <1>6, <2>1
    <2>3. read \in Seq(Namespace)
        BY <2>1, <2>2, SeqDef
    <2> HIDE DEF read
    <2>4. tag' = [tag EXCEPT !.declared = links, !.read = read]
        BY <1>5 DEF read
    <2> QED BY <1>1, <1>3, <2>3, <2>4 DEF Tag
<1>8. /\ tag'.read = [i \in DOMAIN tag.printed |-> getQName(d, tag.printed[i])]
      /\ tag'.printed = tag.printed
      /\ tag'.declared = links
    BY <1>1, <1>5 DEF Tag
<1>9. NamesResolve'
    BY <1>6, <1>8 DEF NamesResolve
<1>10. DeclarationsAreLegal'
    BY <1>3, <1>8 DEF DeclarationsAreLegal
<1> QED BY <1>7, <1>9, <1>10 DEF TagIsSound, InTag

LEMMA UsedPrefixes ==
    ASSUME WellFormed(writer.context), NEW p \in Prefix, p \notin Used, tag.printed \in Seq(Printed)
    PROVE  /\ p \notin NewPrefixes(writer.context)
           /\ \A i \in DOMAIN tag.printed : tag.printed[i].prefix # p
<1>1. /\ DOMAIN links = 1 .. Len(links)
      /\ NewPrefixes(writer.context) = {links[i].prefix : i \in 1 .. Len(links)}
    BY LinksAre DEF links
<1>2. \A i \in DOMAIN links : links[i].prefix # p
    BY DEF Used, Range
<1>3. \A i \in DOMAIN tag.printed : tag.printed[i].prefix # p
    BY DEF Used, Range
<1> HIDE DEF links
<1> QED BY <1>1, <1>2, <1>3

LEMMA NewPrefixesGrow ==
    ASSUME NEW c, WellFormed(c)
    PROVE  /\ NewPrefixes(Remember(c)) = {}
           /\ BoundOnce(Remember(c))
           /\ \A l \in Link : NewPrefixes(declare(c, l)) \subseteq NewPrefixes(c) \cup {l.prefix}
<1>1. Len(c.restoreLinks) \in Nat /\ LastPosition(c) \in Nat /\ c.rememberedPositions # << >>
    BY WellFormedPositions
<1>2. NewPrefixes(Remember(c)) = {} /\ BoundOnce(Remember(c))
    <2> DEFINE d == Remember(c)
    <2>1. /\ WellFormed(d)
          /\ d.restoreLinks = c.restoreLinks
          /\ Len(d.rememberedPositions) = Len(c.rememberedPositions) + 1
          /\ d.rememberedPositions[Len(c.rememberedPositions) + 1] = Len(c.restoreLinks)
        BY RememberOpens
    <2> HIDE DEF d
    <2>2. LastPosition(d) = Len(c.restoreLinks)
        BY <2>1, WellFormedPositions
    <2>3. LastPosition(d) + 1 .. Len(d.restoreLinks) = {}
        BY <1>1, <2>1, <2>2
    <2> QED BY <2>3 DEF NewPrefixes, BoundOnce, d
<1>3. ASSUME NEW l \in Link
      PROVE  NewPrefixes(declare(c, l)) \subseteq NewPrefixes(c) \cup {l.prefix}
    <2> DEFINE d   == declare(c, l)
               len == Len(c.restoreLinks)
    <2>1. /\ SameScopes(c, d)
          /\ Len(d.restoreLinks) = len + 1
          /\ \A i \in 1 .. len : d.restoreLinks[i] = c.restoreLinks[i]
          /\ d.restoreLinks[len + 1].prefix = l.prefix
        BY DeclareBinds
    <2> HIDE DEF d
    <2>2. LastPosition(d) = LastPosition(c)
        BY <2>1 DEF SameScopes, LastPosition
    <2>3. ASSUME NEW i \in LastPosition(d) + 1 .. Len(d.restoreLinks)
          PROVE  d.restoreLinks[i].prefix \in NewPrefixes(c) \cup {l.prefix}
        <3>1. CASE i = len + 1
            BY <2>1, <3>1
        <3>2. CASE i # len + 1
            <4>1. i \in LastPosition(c) + 1 .. len /\ i \in 1 .. len
                BY <1>1, <2>1, <2>2, <3>2
            <4>2. d.restoreLinks[i] = c.restoreLinks[i]
                BY <2>1, <4>1
            <4> QED BY <4>1, <4>2 DEF NewPrefixes
        <3> QED BY <3>1, <3>2
    <2> QED BY <2>3 DEF NewPrefixes, d
<1> QED BY <1>2, <1>3

LEMMA InitIInv == Init => IInv
<1> SUFFICES ASSUME Init PROVE IInv
    OBVIOUS
<1>1. /\ writer = [context |-> NewContext, current |-> 0]
      /\ reader = NewContext
      /\ pc = "content"
      /\ tag = [name |-> unhinted(NoNamespace), printed |-> << >>, declared |-> << >>, read |-> << >>]
    BY DEF Init, NewWriter, NoTag
<1>2. NewContext \in Context /\ isSetPrefix(NewContext.prefixMap, NoPrefix)
    BY NewContextWellFormed DEF WellFormed
<1>3. Len(Generated) \in Nat
    BY SerializerAssumption, LenProperties
<1>4. unhinted(NoNamespace) \in QName
    BY UnhintedType, NSMapAssumption
<1>5. TypeOK
    BY <1>1, <1>2, <1>3, <1>4 DEF TypeOK
<1>6. Nested
    BY <1>1, MatchNew DEF Nested, InTag
<1>7. TagIsSound
    BY <1>1 DEF TagIsSound, InTag, NamesResolve, DeclarationsAreLegal
<1> QED BY <1>1, <1>2, <1>5, <1>6, <1>7 DEF IInv, prefixMap

LEMMA DocumentKeepsIInv == IInv /\ serializeDocument => IInv'
<1> SUFFICES ASSUME IInv, serializeDocument PROVE IInv'
    OBVIOUS
<1>1. /\ writer' = [context |-> NewContext, current |-> 0]
      /\ reader' = reader
      /\ pc = "end" /\ pc' = "content"
      /\ tag' = [name |-> unhinted(NoNamespace), printed |-> << >>, declared |-> << >>, read |-> << >>]
    BY DEF serializeDocument, NewWriter, NoTag
<1>2. NewContext \in Context /\ isSetPrefix(NewContext.prefixMap, NoPrefix)
    BY NewContextWellFormed DEF WellFormed
<1>3. Len(Generated) \in Nat
    BY SerializerAssumption, LenProperties
<1>4. unhinted(NoNamespace) \in QName
    BY UnhintedType, NSMapAssumption
<1>5. TypeOK'
    BY <1>1, <1>2, <1>3, <1>4 DEF TypeOK, IInv
<1>6. Match(writer.context, reader) /\ Len(reader.rememberedPositions) = 2
    BY <1>1 DEF IInv, Nested, InTag
<1>7. Nested'
    BY <1>1, <1>6, MatchNew DEF Nested, InTag
<1>8. TagIsSound'
    BY <1>1 DEF TagIsSound, InTag, NamesResolve, DeclarationsAreLegal
<1> QED BY <1>1, <1>2, <1>5, <1>7, <1>8 DEF IInv, prefixMap

LEMMA BeginKeepsIInv ==
    ASSUME IInv, NEW n \in QName, beginElement(n)
    PROVE  IInv'
<1> DEFINE w == writer.context
           c == Remember(w)
           l == [prefix |-> NoPrefix, ns |-> NoNamespace]
           u == [writer EXCEPT !.context = c]
           v == writer'
<1>1. /\ pc = "content" /\ pc' = "namespaces" /\ reader' = reader
      /\ Free(writer) # {}
      /\ v = [writer EXCEPT !.context = IF n.ns = NoNamespace /\ c.prefixMap[NoPrefix] # NoNamespace
                                         THEN declare(c, l) ELSE c]
      /\ tag' = [name |-> n, printed |-> << >>, declared |-> << >>, read |-> << >>]
    BY DEF beginElement, declare
<1>2. /\ writer \in Writer /\ reader \in Context
      /\ isSetPrefix(w.prefixMap, NoPrefix)
      /\ Match(w, reader) /\ WellFormed(w)
      /\ isSetPrefix(reader.prefixMap, NoPrefix)
    BY <1>1 DEF IInv, TypeOK, Writer, Nested, InTag, Match, prefixMap
<1>3. /\ WellFormed(c) /\ c.prefixMap = w.prefixMap
      /\ NewPrefixes(c) = {} /\ BoundOnce(c)
      /\ MatchInTag(c, reader)
    BY <1>2, RememberOpens, NewPrefixesGrow, TagOpens
<1>4. l \in Link /\ l.prefix = NoPrefix /\ l.ns = NoNamespace
    BY NSMapAssumption DEF Link
<1> HIDE DEF w, c, l
<1>5. u \in Writer /\ u.context = c /\ u.current = writer.current
    BY <1>2, <1>3 DEF Writer, WellFormed
<1>6. Sound(u, << >>)
    <2>1. DOMAIN << >> = {} /\ << >> \in Seq(Printed)
        BY EmptySeq
    <2> HIDE DEF u
    <2> QED BY <1>2, <1>3, <1>5, <2>1 DEF Sound
<1>7. /\ Sound(v, << >>)
      /\ MatchInTag(v.context, reader)
      /\ v.current = writer.current
      /\ \A p \in Prefix \ {NoPrefix} : v.context.prefixMap[p] = w.prefixMap[p]
      /\ n.ns = NoNamespace => v.context.prefixMap[NoPrefix] = NoNamespace
      /\ NewPrefixes(v.context) \subseteq {NoPrefix}
    <2>1. CASE n.ns = NoNamespace /\ c.prefixMap[NoPrefix] # NoNamespace
        <3>1. v = [writer EXCEPT !.context = declare(c, l)]
            BY <1>1, <2>1
        <3>2. v.context = declare(c, l) /\ v.current = writer.current
            BY <1>2, <3>1 DEF Writer
        <3>3. v \in Writer
            <4>1. WellFormed(declare(c, l))
                BY <1>3, <1>4, DeclareBinds
            <4> QED BY <1>2, <3>1, <4>1 DEF Writer, WellFormed
        <3> HIDE DEF u, v
        <3>4. /\ Sound(v, << >>)
              /\ SameScopes(c, v.context)
              /\ v.context.prefixMap = [c.prefixMap EXCEPT ![NoPrefix] = NoNamespace]
            <4>1. l.prefix \notin NewPrefixes(u.context)
                BY <1>3, <1>5
            <4>2. \A i \in DOMAIN << >> : << >>[i].prefix # l.prefix
                OBVIOUS
            <4>3. v.context = declare(u.context, l)
                BY <1>5, <3>2
            <4>4. /\ Sound(v, << >>)
                  /\ SameScopes(u.context, v.context)
                  /\ v.context.prefixMap = [u.context.prefixMap EXCEPT ![l.prefix] = l.ns]
                BY <1>4, <1>6, <3>3, <4>1, <4>2, <4>3, DeclareIsSound
            <4> QED BY <1>4, <1>5, <4>4
        <3>5. MatchInTag(v.context, reader)
            BY <1>3, <3>4, TagGoesOn DEF Sound
        <3>6. NewPrefixes(v.context) \subseteq {NoPrefix}
            BY <1>3, <1>4, <3>2, NewPrefixesGrow
        <3>7. c.prefixMap \in PrefixMap
            BY <1>3 DEF WellFormed, Context
        <3> QED BY <1>3, <3>2, <3>4, <3>5, <3>6, <3>7, NSMapAssumption DEF PrefixMap
    <2>2. CASE ~(n.ns = NoNamespace /\ c.prefixMap[NoPrefix] # NoNamespace)
        <3>1. v = u
            BY <1>1, <2>2
        <3> HIDE DEF u, v
        <3> QED BY <1>3, <1>5, <1>6, <2>2, <3>1
    <2> QED BY <2>1, <2>2
<1>8. Free(v) # {}
    <2>1. PICK i \in Free(writer) : TRUE
        BY <1>1
    <2>2. i \in writer.current + 1 .. Len(Generated) /\ ~isSetPrefix(w.prefixMap, Generated[i])
        BY <2>1 DEF Free, w
    <2>3. Generated[i] \in Prefix \ {NoPrefix}
        <3>1. i \in 1 .. Len(Generated)
            BY <1>2, <2>2 DEF Writer
        <3> QED BY <3>1, SerializerAssumption, ElementOfSeq
    <2>4. i \in Free(v)
        BY <1>7, <2>2, <2>3 DEF Free, isSetPrefix
    <2> QED BY <2>4
<1>9. tag' \in Tag
    BY <1>1, EmptySeq DEF Tag
<1>10. TypeOK'
    BY <1>1, <1>2, <1>7, <1>9 DEF TypeOK, Tag, Sound, Writer
<1>11. Nested'
    BY <1>1, <1>7 DEF Nested, InTag
<1>12. TagIsSound'
    BY <1>1, <1>7, <1>8 DEF TagIsSound, InTag, Sound, prefixMap, NamesResolve, DeclarationsAreLegal
<1> QED BY <1>1, <1>2, <1>7, <1>10, <1>11, <1>12 DEF IInv, Sound, prefixMap

LEMMA AttrDeclarationKeepsIInv ==
    ASSUME IInv, NEW p \in Prefix, NEW ns \in Namespace, addNamespaceAttr(p, ns)
    PROVE  IInv'
<1> DEFINE w == writer.context
           l == [prefix |-> p, ns |-> ns]
           v == writer'
<1>1. /\ pc = "namespaces" /\ pc' = pc /\ reader' = reader /\ tag' = tag
      /\ p \notin Used
      /\ ns = NoNamespace => p = NoPrefix
      /\ tag.name.ns = NoNamespace => p # NoPrefix
      /\ p # NoPrefix /\ p = tag.name.prefix => ns = tag.name.ns
      /\ v = [writer EXCEPT !.context = declare(w, l)]
      /\ Free(v) # {}
    BY DEF addNamespaceAttr, declare
<1>2. InTag
    BY <1>1 DEF InTag
<1>3. /\ Sound(writer, tag.printed)
      /\ MatchInTag(w, reader)
      /\ tag \in Tag /\ reader \in Context
      /\ tag.name \in QName
      /\ tag.name.ns = NoNamespace => w.prefixMap[NoPrefix] = NoNamespace
    BY <1>2, InTagFacts DEF prefixMap
<1>4. /\ tag.printed = << >>
      /\ tag.name.prefix # NoPrefix /\ tag.name.prefix \in NewPrefixes(w)
             => w.prefixMap[tag.name.prefix] = tag.name.ns
      /\ isSetPrefix(reader.prefixMap, NoPrefix)
    BY <1>1 DEF IInv, TagIsSound, prefixMap
<1>5. l \in Link /\ l.prefix = p /\ l.ns = ns
    BY DEF Link
<1>6. writer \in Writer /\ WellFormed(w) /\ w.prefixMap \in PrefixMap
    BY <1>3 DEF Sound, Writer, Context
<1>7. v.context = declare(w, l) /\ v \in Writer
    <2> HIDE DEF w, l
    <2>1. WellFormed(declare(w, l))
        BY <1>5, <1>6, DeclareBinds
    <2> QED BY <1>1, <1>6, <2>1 DEF Writer, WellFormed
<1>8. p \notin NewPrefixes(w)
    BY <1>1, <1>3, <1>6, UsedPrefixes DEF Sound
<1> HIDE DEF w, l, v
<1>9. /\ Sound(v, tag.printed)
      /\ SameScopes(w, v.context)
      /\ v.context.prefixMap = [w.prefixMap EXCEPT ![p] = ns]
    <2>1. l.prefix \notin NewPrefixes(writer.context) /\ v.context = declare(writer.context, l)
        BY <1>5, <1>7, <1>8 DEF w
    <2>2. \A i \in DOMAIN tag.printed : tag.printed[i].prefix # l.prefix
        BY <1>4
    <2>3. l.ns = NoNamespace => l.prefix = NoPrefix
        BY <1>1, <1>5
    <2>4. /\ Sound(v, tag.printed)
          /\ SameScopes(writer.context, v.context)
          /\ v.context.prefixMap = [writer.context.prefixMap EXCEPT ![l.prefix] = l.ns]
        BY <1>3, <1>4, <1>5, <1>7, <2>1, <2>2, <2>3, DeclareIsSound
    <2> QED BY <1>5, <2>4 DEF w
<1>10. \A q \in Prefix : v.context.prefixMap[q] = IF q = p THEN ns ELSE w.prefixMap[q]
    BY <1>6, <1>9 DEF PrefixMap
<1>11. MatchInTag(v.context, reader)
    BY <1>3, <1>9, TagGoesOn DEF Sound
<1>12. NewPrefixes(v.context) \subseteq NewPrefixes(w) \cup {p}
    BY <1>5, <1>6, <1>7, NewPrefixesGrow
<1>13. tag.name.ns = NoNamespace => v.context.prefixMap[NoPrefix] = NoNamespace
    BY <1>1, <1>3, <1>10, NSMapAssumption
<1>14. tag.name.prefix # NoPrefix /\ tag.name.prefix \in NewPrefixes(v.context)
           => v.context.prefixMap[tag.name.prefix] = tag.name.ns
    <2>1. tag.name.prefix \in Prefix
        BY <1>3 DEF QName
    <2> QED BY <1>1, <1>4, <1>10, <1>12, <2>1
<1>15. TypeOK'
    BY <1>1, <1>3, <1>7 DEF TypeOK, Tag, Writer, v
<1>16. Nested'
    BY <1>1, <1>11 DEF Nested, InTag, v
<1>17. TagIsSound'
    <2>1. tag.read = << >> /\ tag.declared = << >>
        BY <1>2, InTagFacts
    <2> QED BY <1>1, <1>4, <1>9, <1>13, <1>14, <2>1
            DEF TagIsSound, InTag, Sound, prefixMap, v, NamesResolve, DeclarationsAreLegal
<1> QED BY <1>1, <1>4, <1>9, <1>15, <1>16, <1>17 DEF IInv, Sound, prefixMap, v

LEMMA PrintElementKeepsIInv == IInv /\ printElement => IInv'
<1> SUFFICES ASSUME IInv, printElement PROVE IInv'
    OBVIOUS
<1> DEFINE r == print(before, "element", tag.name)
<1>1. /\ pc = "namespaces" /\ pc' = "names" /\ reader' = reader
      /\ after(r)
    BY DEF printElement
<1>2. InTag
    BY <1>1 DEF InTag
<1>3. /\ Sound(writer, tag.printed)
      /\ tag.name \in QName
      /\ tag.name.ns = NoNamespace => prefixMap[NoPrefix] = NoNamespace
    BY <1>2, InTagFacts
<1>4. /\ tag.printed = << >>
      /\ Free(writer) # {}
      /\ tag.name.prefix # NoPrefix /\ tag.name.prefix \in NewPrefixes(writer.context)
             => prefixMap[tag.name.prefix] = tag.name.ns
    BY <1>1 DEF IInv, TagIsSound
<1>5. MayPrint(writer, tag.printed, "element", tag.name)
    <2>1. HasPrefix(writer, tag.name)
        BY <1>4 DEF HasPrefix
    <2>2. \A i \in DOMAIN tag.printed : tag.printed[i].prefix # tag.name.prefix
        BY <1>4
    <2> QED BY <1>3, <1>4, <2>1, <2>2 DEF MayPrint, prefixMap
<1>6. before.writer = writer /\ before.printed = tag.printed
    BY DEF before
<1> HIDE DEF r
<1>7. /\ Sound(r.writer, r.printed)
      /\ SameScopes(writer.context, r.writer.context)
      /\ r.writer.context.prefixMap[NoPrefix] = writer.context.prefixMap[NoPrefix]
    BY <1>3, <1>5, <1>6, PrintIsSound DEF r
<1> QED BY <1>1, <1>2, <1>7, NamesKeepIInv DEF prefixMap

(* Two names without hints, in either order. *)
LEMMA PrintTwo ==
    ASSUME NEW w, NEW names, Sound(w, names),
           NEW use1 \in {"type", "attribute"}, NEW use2 \in {"type", "attribute"},
           NEW a \in Namespace, NEW b \in Namespace,
           Cardinality({n \in {unhinted(a), unhinted(b)} :
                           n.prefix = NoPrefix /\ n.ns # NoNamespace
                           /\ ~isSetNamespaceURI(w.context.prefixMap, n.ns)})
               <= Cardinality(Free(w))
    PROVE  LET r == print(print([writer |-> w, printed |-> names], use1, unhinted(a)), use2, unhinted(b))
           IN  /\ Sound(r.writer, r.printed)
               /\ SameScopes(w.context, r.writer.context)
               /\ r.writer.context.prefixMap[NoPrefix] = w.context.prefixMap[NoPrefix]
<1> DEFINE r0 == [writer |-> w, printed |-> names]
           r1 == print(r0, use1, unhinted(a))
           r2 == print(r1, use2, unhinted(b))
<1>1. HasPrefix(w, unhinted(a)) /\ HasPrefix(r1.writer, unhinted(b))
    BY PrefixesSuffice
<1>2. /\ r0.writer = w /\ r0.printed = names
      /\ unhinted(a) \in QName /\ unhinted(a).prefix = NoPrefix
      /\ unhinted(b) \in QName /\ unhinted(b).prefix = NoPrefix
    BY UnhintedType
<1> HIDE DEF r0, r1
<1>3. /\ MayPrint(r0.writer, r0.printed, use1, unhinted(a))
      /\ MayPrint(r1.writer, r1.printed, use2, unhinted(b))
    BY <1>1, <1>2 DEF MayPrint
<1>4. /\ Sound(r1.writer, r1.printed)
      /\ SameScopes(w.context, r1.writer.context)
      /\ r1.writer.context.prefixMap[NoPrefix] = w.context.prefixMap[NoPrefix]
    BY <1>2, <1>3, PrintIsSound DEF r1
<1> HIDE DEF r2
<1>5. /\ Sound(r2.writer, r2.printed)
      /\ SameScopes(r1.writer.context, r2.writer.context)
      /\ r2.writer.context.prefixMap[NoPrefix] = r1.writer.context.prefixMap[NoPrefix]
    BY <1>2, <1>3, <1>4, PrintIsSound DEF r2
<1>6. SameScopes(w.context, r2.writer.context)
    BY <1>4, <1>5 DEF SameScopes
<1> QED BY <1>4, <1>5, <1>6 DEF r2, r1, r0

LEMMA PrintTypeKeepsIInv ==
    ASSUME IInv, NEW ns \in Namespace, printType(ns)
    PROVE  IInv'
<1> DEFINE x == print(print(before, "attribute", unhinted(Xsi)), "type", unhinted(ns))
           y == print(print(before, "type", unhinted(ns)), "attribute", unhinted(Xsi))
           Unbound(S) == {n \in S : n.prefix = NoPrefix /\ n.ns # NoNamespace
                                    /\ ~isSetNamespaceURI(writer.context.prefixMap, n.ns)}
<1>1. /\ pc = "names" /\ pc' = "names" /\ UNCHANGED reader
      /\ Cardinality(Unbound({unhinted(Xsi), unhinted(ns)})) <= Cardinality(Free(writer))
      /\ after(x) \/ after(y)
    BY DEF printType, HasPrefixes, prefixMap
<1>2. InTag
    BY <1>1 DEF InTag
<1>3. Sound(writer, tag.printed)
    BY <1>2, InTagFacts
<1>4. Xsi \in Namespace
    BY SerializerAssumption
<1>5. {unhinted(Xsi), unhinted(ns)} = {unhinted(ns), unhinted(Xsi)}
    OBVIOUS
<1>6. before = [writer |-> writer, printed |-> tag.printed]
    BY DEF before
<1>7. /\ Sound(x.writer, x.printed)
      /\ SameScopes(writer.context, x.writer.context)
      /\ x.writer.context.prefixMap[NoPrefix] = prefixMap[NoPrefix]
    BY <1>1, <1>3, <1>4, <1>6, PrintTwo DEF prefixMap
<1>8. /\ Sound(y.writer, y.printed)
      /\ SameScopes(writer.context, y.writer.context)
      /\ y.writer.context.prefixMap[NoPrefix] = prefixMap[NoPrefix]
    BY <1>1, <1>3, <1>4, <1>5, <1>6, PrintTwo DEF prefixMap
<1> HIDE DEF x, y, Unbound
<1> QED BY <1>1, <1>2, <1>7, <1>8, NamesKeepIInv

LEMMA PrintAttrKeepsIInv ==
    ASSUME IInv, NEW n \in QName, printAttr(n)
    PROVE  IInv'
<1> DEFINE r == print(before, "attribute", n)
           Unbound == {m \in {n} : m.prefix = NoPrefix /\ m.ns # NoNamespace
                                   /\ ~isSetNamespaceURI(prefixMap, m.ns)}
<1>1. /\ pc = "names" /\ pc' = "names" /\ UNCHANGED reader
      /\ Agrees(n)
      /\ Cardinality(Unbound) <= Cardinality(Free(writer))
      /\ after(r)
    BY DEF printAttr, HasPrefixes
<1>2. InTag
    BY <1>1 DEF InTag
<1>3. Sound(writer, tag.printed)
    BY <1>2, InTagFacts
<1>4. HasPrefix(writer, n)
    <2>1. CASE n \in Unbound
        <3>1. Unbound = {n}
            BY <2>1
        <3>2. Cardinality(Unbound) = 1
            BY <3>1, FS_Singleton
        <3>3. Free(writer) # {}
            BY <1>1, <3>2, FS_EmptySet
        <3> QED BY <3>3 DEF HasPrefix
    <2>2. CASE n \notin Unbound
        BY <2>2 DEF HasPrefix, prefixMap
    <2> QED BY <2>1, <2>2
<1>5. MayPrint(writer, tag.printed, "attribute", n)
    <2>1. n.prefix \in Prefix
        BY DEF QName
    <2>2. n.prefix \notin Used =>
              /\ n.prefix \notin NewPrefixes(writer.context)
              /\ \A i \in DOMAIN tag.printed : tag.printed[i].prefix # n.prefix
        BY <1>3, <2>1, UsedPrefixes DEF Sound
    <2> QED BY <1>1, <1>4, <2>2 DEF MayPrint, Agrees, prefixMap
<1>6. before.writer = writer /\ before.printed = tag.printed
    BY DEF before
<1> HIDE DEF r
<1>7. /\ Sound(r.writer, r.printed)
      /\ SameScopes(writer.context, r.writer.context)
      /\ r.writer.context.prefixMap[NoPrefix] = writer.context.prefixMap[NoPrefix]
    BY <1>3, <1>5, <1>6, PrintIsSound DEF r
<1> QED BY <1>1, <1>2, <1>7, NamesKeepIInv DEF prefixMap

(* What the end of a start tag has to do with either kind of element. *)
LEMMA EndOfTag ==
    ASSUME IInv, pc = "names"
    PROVE  LET d == declared(reader)
           IN  /\ MatchInTag(writer.context, reader)
               /\ writer \in Writer /\ isSetPrefix(writer.context.prefixMap, NoPrefix)
               /\ WellFormed(d)
               /\ SameScopes(reader, d)
               /\ Reads(d.prefixMap) = Reads(writer.context.prefixMap)
               /\ isSetPrefix(d.prefixMap, NoPrefix)
<1>1. /\ Sound(writer, tag.printed)
      /\ MatchInTag(writer.context, reader)
    BY InTagFacts DEF InTag
<1>2. BoundOnce(writer.context) /\ isSetPrefix(reader.prefixMap, NoPrefix)
    BY <1>1 DEF Sound, IInv
<1> QED BY <1>1, <1>2, DeclaredAgrees DEF declared, links, Sound

LEMMA EmptyElementKeepsIInv == IInv /\ endEmptyElement => IInv'
<1> SUFFICES ASSUME IInv, endEmptyElement PROVE IInv'
    OBVIOUS
<1> DEFINE d == declared(reader)
           w == writer.context
           v == Restore(w)
           e == Restore(Remember(d))
<1>1. /\ pc = "names"
      /\ writer' = [writer EXCEPT !.context = v]
      /\ reader' = e
      /\ tag' = readTag
      /\ pc' = IF Len(e.rememberedPositions) = 2 THEN "end" ELSE "content"
    BY DEF endEmptyElement, After
<1>2. /\ MatchInTag(w, reader)
      /\ writer \in Writer /\ isSetPrefix(w.prefixMap, NoPrefix)
      /\ WellFormed(d) /\ SameScopes(reader, d)
      /\ isSetPrefix(d.prefixMap, NoPrefix)
    BY <1>1, EndOfTag
<1>3. tag' \in Tag /\ TagIsSound'
    BY <1>1, TagIsRead
<1> HIDE DEF d, w
<1>4. Match(v, e)
    BY <1>2, ElementIsEmpty
<1>5. WellFormed(v) /\ WellFormed(e)
    BY <1>4 DEF Match
<1>6. isSetPrefix(v.prefixMap, NoPrefix)
    <2>1. WellFormed(w) /\ Len(w.rememberedPositions) > 2
        BY <1>2, WellFormedPositions DEF MatchInTag
    <2> QED BY <1>2, <2>1, RestoreCloses, NSMapAssumption
<1>7. isSetPrefix(e.prefixMap, NoPrefix)
    <2> DEFINE o == Remember(d)
    <2>1. /\ WellFormed(o) /\ o.prefixMap = d.prefixMap
          /\ Len(o.rememberedPositions) = Len(d.rememberedPositions) + 1
        BY <1>2, RememberOpens
    <2>2. Len(d.rememberedPositions) >= 2 /\ Len(d.rememberedPositions) \in Nat
        BY <1>2, WellFormedPositions
    <2> HIDE DEF o
    <2>3. Len(o.rememberedPositions) > 2
        BY <2>1, <2>2
    <2>4. isSetPrefix(Restore(o).prefixMap, NoPrefix)
        BY <1>2, <2>1, <2>3, RestoreCloses, NSMapAssumption
    <2> QED BY <2>4 DEF o
<1> HIDE DEF v, e
<1>8. writer'.context = v /\ writer' \in Writer
    BY <1>1, <1>2, <1>5 DEF Writer, WellFormed
<1>9. TypeOK'
    BY <1>1, <1>3, <1>5, <1>8 DEF TypeOK, Tag, Writer, WellFormed
<1>10. Nested'
    BY <1>1, <1>4, <1>8 DEF Nested, InTag
<1> QED BY <1>1, <1>3, <1>6, <1>7, <1>8, <1>9, <1>10 DEF IInv, prefixMap

LEMMA BeginElemsKeepsIInv == IInv /\ beginElems => IInv'
<1> SUFFICES ASSUME IInv, beginElems PROVE IInv'
    OBVIOUS
<1> DEFINE d == declared(reader)
           w == writer.context
           v == Remember(w)
           e == Remember(d)
<1>1. /\ pc = "names"
      /\ writer' = [writer EXCEPT !.context = v]
      /\ reader' = e
      /\ tag' = readTag
      /\ pc' = "content"
    BY DEF beginElems
<1>2. /\ MatchInTag(w, reader)
      /\ writer \in Writer /\ isSetPrefix(w.prefixMap, NoPrefix)
      /\ WellFormed(d) /\ SameScopes(reader, d)
      /\ Reads(d.prefixMap) = Reads(w.prefixMap)
      /\ isSetPrefix(d.prefixMap, NoPrefix)
    BY <1>1, EndOfTag
<1>3. tag' \in Tag /\ TagIsSound'
    BY <1>1, TagIsRead
<1> HIDE DEF d, w
<1>4. Match(v, e)
    BY <1>2, ElementOpens
<1>5. WellFormed(v) /\ WellFormed(e)
    BY <1>4 DEF Match
<1>6. v.prefixMap = w.prefixMap /\ e.prefixMap = d.prefixMap
    BY <1>2, RememberOpens DEF MatchInTag
<1> HIDE DEF v, e
<1>7. isSetPrefix(v.prefixMap, NoPrefix) /\ isSetPrefix(e.prefixMap, NoPrefix)
    BY <1>2, <1>6
<1>8. writer'.context = v /\ writer' \in Writer
    BY <1>1, <1>2, <1>5 DEF Writer, WellFormed
<1>9. TypeOK'
    BY <1>1, <1>3, <1>5, <1>8 DEF TypeOK, Tag, Writer, WellFormed
<1>10. Nested'
    BY <1>1, <1>4, <1>8 DEF Nested, InTag
<1> QED BY <1>1, <1>3, <1>7, <1>8, <1>9, <1>10 DEF IInv, prefixMap

LEMMA EndElementKeepsIInv == IInv /\ endElement => IInv'
<1> SUFFICES ASSUME IInv, endElement PROVE IInv'
    OBVIOUS
<1> DEFINE w == writer.context
           u == Restore(w)
           v == Restore(u)
           e == Restore(reader)
           m == Len(w.rememberedPositions)
           n == Len(reader.rememberedPositions)
<1>1. /\ pc = "content"
      /\ m > 2
      /\ writer' = [writer EXCEPT !.context = v]
      /\ reader' = e
      /\ tag' = tag
      /\ pc' = IF Len(e.rememberedPositions) = 2 THEN "end" ELSE "content"
    BY DEF endElement, After
<1>2. /\ Match(w, reader) /\ WellFormed(w) /\ WellFormed(reader)
      /\ writer \in Writer /\ tag \in Tag
      /\ isSetPrefix(w.prefixMap, NoPrefix) /\ isSetPrefix(reader.prefixMap, NoPrefix)
    BY <1>1 DEF IInv, TypeOK, Writer, Tag, Nested, InTag, Match, prefixMap
<1>3. n \in Nat /\ n > 2 /\ m = 2 * n - 2
    BY <1>1, <1>2, WellFormedPositions DEF Match
<1> HIDE DEF w
<1>4. Match(v, e)
    BY <1>2, <1>3, ElementEnds
<1>5. WellFormed(v) /\ WellFormed(e)
    BY <1>4 DEF Match
<1>6. isSetPrefix(e.prefixMap, NoPrefix)
    BY <1>2, <1>3, RestoreCloses, NSMapAssumption
<1>7. isSetPrefix(v.prefixMap, NoPrefix)
    <2>1. /\ WellFormed(u) /\ Len(u.rememberedPositions) = m - 1
          /\ isSetPrefix(u.prefixMap, NoPrefix)
        BY <1>2, <1>3, RestoreCloses, NSMapAssumption
    <2> HIDE DEF u
    <2>2. Len(u.rememberedPositions) > 2
        BY <1>3, <2>1
    <2> QED BY <2>1, <2>2, RestoreCloses, NSMapAssumption
<1> HIDE DEF v, e
<1>8. writer'.context = v /\ writer' \in Writer
    BY <1>1, <1>2, <1>5 DEF Writer, WellFormed
<1>9. TypeOK'
    BY <1>1, <1>2, <1>5, <1>8 DEF TypeOK, Tag, Writer, WellFormed
<1>10. Nested'
    BY <1>1, <1>4, <1>8 DEF Nested, InTag
<1>11. TagIsSound'
    BY <1>1 DEF IInv, TagIsSound, InTag, NamesResolve, DeclarationsAreLegal
<1> QED BY <1>1, <1>6, <1>7, <1>8, <1>9, <1>10, <1>11 DEF IInv, prefixMap

LEMMA NextIInv == IInv /\ [Next]_vars => IInv'
<1> SUFFICES ASSUME IInv, [Next]_vars PROVE IInv'
    OBVIOUS
<1>1. CASE serializeDocument
    BY <1>1, DocumentKeepsIInv
<1>2. ASSUME NEW n \in QName, beginElement(n) \/ printAttr(n)
      PROVE  IInv'
    BY <1>2, BeginKeepsIInv, PrintAttrKeepsIInv
<1>3. ASSUME NEW p \in Prefix, NEW ns \in Namespace, addNamespaceAttr(p, ns)
      PROVE  IInv'
    BY <1>3, AttrDeclarationKeepsIInv
<1>4. CASE printElement
    BY <1>4, PrintElementKeepsIInv
<1>5. ASSUME NEW ns \in Namespace, printType(ns)
      PROVE  IInv'
    BY <1>5, PrintTypeKeepsIInv
<1>6. CASE endEmptyElement
    BY <1>6, EmptyElementKeepsIInv
<1>7. CASE beginElems
    BY <1>7, BeginElemsKeepsIInv
<1>8. CASE endElement
    BY <1>8, EndElementKeepsIInv
<1>9. CASE UNCHANGED vars
    BY <1>9 DEF vars, IInv, TypeOK, Nested, TagIsSound, InTag, prefixMap, Free,
                NamesResolve, DeclarationsAreLegal
<1> QED BY <1>1, <1>2, <1>3, <1>4, <1>5, <1>6, <1>7, <1>8, <1>9 DEF Next

-----------------------------------------------------------------------------
(* Theorems *)

(* The writer's context and the parser's are in step in every state, in the *)
(* middle of a start tag as well as between tags.                           *)
THEOREM Invariance == Spec => []IInv
<1>1. Init => IInv
    BY InitIInv
<1>2. IInv /\ [Next]_vars => IInv'
    BY NextIInv
<1> QED BY <1>1, <1>2, PTL DEF Spec

(* Every name that is read has a prefix that is bound, and generated prefixes *)
(* do not run out in the middle of a tag.                                     *)
THEOREM TypeCorrectness == Spec => []TypeOK
<1>1. IInv => TypeOK
    BY DEF IInv
<1> QED BY <1>1, Invariance, PTL

(* Between tags every prefix means the same to the writer and to the parser, *)
(* however deep the element is and whatever was declared around it.          *)
THEOREM Agreement == Spec => []ScopesAgree
<1>1. IInv => ScopesAgree
    BY MatchAgrees DEF IInv, Nested, InTag, ScopesAgree, prefixMap
<1> QED BY <1>1, Invariance, PTL

(* The names of a start tag are read with the namespaces they were written *)
(* with.                                                                   *)
THEOREM Resolution == Spec => []NamesResolve
<1>1. IInv => NamesResolve
    BY DEF IInv, TagIsSound
<1> QED BY <1>1, Invariance, PTL

(* A start tag declares each prefix once, and only the empty one with the *)
(* empty URI.                                                             *)
THEOREM Legality == Spec => []DeclarationsAreLegal
<1>1. IInv => DeclarationsAreLegal
    BY DEF IInv, TagIsSound
<1> QED BY <1>1, Invariance, PTL
=============================================================================
