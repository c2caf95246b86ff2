-------------------------- MODULE XmlContextProofs --------------------------
(***************************************************************************)
(* Theorems about XmlContext: its invariants, and that it implements       *)
(* ScopeStack.                                                             *)
(***************************************************************************)
EXTENDS XmlContext, SharedLemmas

-----------------------------------------------------------------------------
(* The invariants *)

(* Every call keeps the type and the order of the positions: the order needs *)
(* the type, the type needs the order (restore cuts the log at a position    *)
(* that must lie in it), so the two are proved together.                     *)
IInv == TypeOK /\ PositionsOrdered

LEMMA InitIInv == Init => IInv
<1> SUFFICES ASSUME Init PROVE IInv
    OBVIOUS
<1>1. [EmptyPrefixMap EXCEPT ![NoPrefix] = NoNamespace] \in PrefixMap
    BY NSMapAssumption DEF EmptyPrefixMap, PrefixMap
<1>2. TypeOK
    BY <1>1, NSMapAssumption, NewContextValue DEF Init, TypeOK, Context, Link
<1>3. PositionsOrdered
    BY NewContextValue DEF Init, PositionsOrdered
<1> QED BY <1>2, <1>3 DEF IInv

LEMMA NextIInv == IInv /\ [Next]_context => IInv'
<1> SUFFICES ASSUME IInv, [Next]_context PROVE IInv'
    OBVIOUS
<1> DEFINE pos  == context.rememberedPositions
           pos2 == context'.rememberedPositions
           len  == Len(context.restoreLinks)
<1>1. /\ context \in Context
      /\ pos \in Seq(Nat)
      /\ Len(pos) \in Nat
      /\ len \in Nat
    BY LenProperties DEF IInv, TypeOK, Context
<1>2. /\ Len(pos) >= 2
      /\ \A i \in 1 .. Len(pos) : pos[i] \in Nat /\ pos[i] <= len
      /\ \A i \in 1 .. Len(pos) : \A j \in 1 .. i : pos[j] <= pos[i]
    BY <1>1, ElementOfSeq DEF IInv, PositionsOrdered
<1>3. ASSUME NEW p \in Prefix, NEW ns \in Namespace, NEW force \in BOOLEAN,
             DoAddNamespace(p, ns, force)
      PROVE  IInv'
    <2>1. TypeOK'
        BY <1>1, <1>3, AddNamespaceType DEF DoAddNamespace, TypeOK
    <2>2. pos2 = pos /\ Len(context'.restoreLinks) \in {len, len + 1}
        BY <1>1, <1>3, AppendProperties DEF DoAddNamespace, AddNamespace, Context
    <2>3. PositionsOrdered'
        BY <1>1, <1>2, <2>2 DEF PositionsOrdered
    <2> QED BY <2>1, <2>3 DEF IInv
<1>4. ASSUME DoRemember
      PROVE  IInv'
    <2>1. TypeOK'
        BY <1>1, <1>4, RememberType DEF DoRemember, TypeOK
    <2>2. pos2 = Append(pos, len) /\ Len(context'.restoreLinks) = len
        BY <1>1, <1>4 DEF DoRemember, Remember, Context
    <2>3. /\ Len(pos2) = Len(pos) + 1
          /\ pos2[Len(pos) + 1] = len
          /\ \A i \in 1 .. Len(pos) : pos2[i] = pos[i]
        BY <1>1, <2>2, AppendProperties
    <2> HIDE DEF pos, pos2, len
    <2>4. /\ Len(pos2) >= 2
          /\ \A i \in 1 .. Len(pos2) : pos2[i] <= len
          /\ \A i \in 1 .. Len(pos2) : \A j \in 1 .. i : pos2[j] <= pos2[i]
        BY <1>1, <1>2, <2>3
    <2>5. PositionsOrdered'
        BY <2>2, <2>4 DEF PositionsOrdered, pos2, len
    <2> QED BY <2>1, <2>5 DEF IInv
<1>5. ASSUME DoRestore
      PROVE  IInv'
    <2> DEFINE n == Len(pos) - 1
    <2>1. Len(pos) > 2 /\ n \in 1 .. Len(pos) /\ pos[n] \in 0 .. len
        BY <1>1, <1>2, <1>5 DEF DoRestore
    <2>2. TypeOK'
        BY <1>1, <1>5, <2>1, RestoreType DEF DoRestore, TypeOK
    <2>3. /\ pos2 = SubSeq(pos, 1, n)
          /\ context'.restoreLinks = SubSeq(context.restoreLinks, 1, pos[n])
        BY <1>5 DEF DoRestore, Restore
    <2>4. /\ Len(pos2) = n
          /\ \A i \in 1 .. n : pos2[i] = pos[i]
        BY <1>1, <2>1, <2>3, SubSeqProperties
    <2>5. Len(context'.restoreLinks) = pos[n]
        BY <1>1, <2>1, <2>3, SubSeqProperties DEF Context
    <2> HIDE DEF pos, pos2, len
    <2>6. /\ Len(pos2) >= 2
          /\ \A i \in 1 .. Len(pos2) : pos2[i] <= pos[n]
          /\ \A i \in 1 .. Len(pos2) : \A j \in 1 .. i : pos2[j] <= pos2[i]
        <3>1. n \in Nat /\ n >= 2
            BY <1>1, <2>1
        <3>2. \A i \in 1 .. n : i \in 1 .. Len(pos)
            BY <1>1, <3>1
        <3>3. \A i \in 1 .. n : pos[i] <= pos[n]
            BY <1>2, <2>1
        <3>4. \A i \in 1 .. n : \A j \in 1 .. i : pos[j] <= pos[i] /\ j \in 1 .. n
            BY <1>2, <3>1, <3>2
        <3> HIDE DEF n
        <3> QED BY <2>4, <3>1, <3>3, <3>4
    <2>7. PositionsOrdered'
        BY <2>5, <2>6 DEF PositionsOrdered, pos2
    <2> QED BY <2>2, <2>7 DEF IInv
<1>6. CASE UNCHANGED context
    BY <1>6 DEF IInv, TypeOK, PositionsOrdered
<1> QED BY <1>3, <1>4, <1>5, <1>6 DEF Next

(* The context is well formed whatever calls its clients make. *)
THEOREM Invariance == Spec => []IInv
<1>1. Init => IInv
    BY InitIInv
<1>2. IInv /\ [Next]_context => IInv'
    BY NextIInv
<1> QED BY <1>1, <1>2, PTL DEF Spec

(* The context always has its type: the log never holds an unset URI. *)
THEOREM TypeCorrectness == Spec => []TypeOK
<1>1. IInv => TypeOK
    BY DEF IInv
<1> QED BY <1>1, Invariance, PTL

(* Remembered positions always ascend and lie within the log. *)
THEOREM OrderCorrectness == Spec => []PositionsOrdered
<1>1. IInv => PositionsOrdered
    BY DEF IInv
<1> QED BY <1>1, Invariance, PTL
-----------------------------------------------------------------------------
(* What is declared and what is undone *)

(* Every prefix that reads differently than when the last position was        *)
(* remembered is among getLastStoredLinks, with its present URI.              *)
THEOREM ChangesStored == Spec => []ChangesAreStored
<1>1. IInv => ChangesAreStored
    <2> SUFFICES ASSUME IInv,
                        NEW p \in Prefix,
                        Reads(context.prefixMap)[p]
                            # Reads(UndoneTo(context, LastPosition(context)))[p]
                 PROVE  \E i \in DOMAIN getLastStoredLinks(context) :
                            getLastStoredLinks(context)[i]
                                = [prefix |-> p, ns |-> context.prefixMap[p]]
        BY DEF ChangesAreStored
    <2> DEFINE pos  == context.rememberedPositions
               last == LastPosition(context)
    <2>1. /\ context \in Context
          /\ Len(context.restoreLinks) \in Nat
          /\ Len(pos) \in Nat /\ Len(pos) >= 2
        BY LenProperties DEF IInv, TypeOK, Context, PositionsOrdered
    <2>2. last = pos[Len(pos)] /\ last \in 0 .. Len(context.restoreLinks)
        <3>1. pos # << >>
            BY <2>1
        <3>2. last = pos[Len(pos)]
            BY <3>1 DEF LastPosition
        <3>3. pos[Len(pos)] \in Nat
            BY <2>1, ElementOfSeq DEF Context
        <3> QED BY <2>1, <3>2, <3>3 DEF IInv, PositionsOrdered
    <2> HIDE DEF last
    <2>3. LinksAfter(context, last, p) # {}
        BY DEF UndoneTo, Reads, isSetPrefix, last
    <2>4. PICK j \in (last + 1) .. Len(context.restoreLinks) :
                  context.restoreLinks[j].prefix = p
        BY <2>3 DEF LinksAfter
    <2>5. /\ j - last \in 1 .. (Len(context.restoreLinks) - last)
          /\ last + (j - last) = j
        BY <2>1, <2>2, <2>4
    <2> QED BY <2>4, <2>5 DEF getLastStoredLinks, last
<1> QED BY <1>1, Invariance, PTL

-----------------------------------------------------------------------------
(* XmlContext implements ScopeStack *)

LEMMA InitScopes == Init => Scopes!Init
<1> SUFFICES ASSUME Init PROVE Scopes!Init
    OBVIOUS
<1>1. context \in Context
    BY InitIInv DEF IInv, TypeOK
<1>2. /\ context.prefixMap = [EmptyPrefixMap EXCEPT ![NoPrefix] = NoNamespace]
      /\ context.restoreLinks = <<[prefix |-> NoPrefix, ns |-> NoNamespace]>>
      /\ context.rememberedPositions = <<0, 1>>
    BY NewContextValue DEF Init
<1>3. Reads(context.prefixMap) = Scopes!NoBindings
    BY <1>2, NSMapAssumption DEF Reads, isSetPrefix, EmptyPrefixMap, Scopes!NoBindings
<1>4. Reads(UndoneTo(context, 1)) = Scopes!NoBindings
    BY <1>1, <1>2, <1>3, UndoneToEnd
<1>5. Reads(UndoneTo(context, 0)) = Scopes!NoBindings
    <2>1. LinksAfter(context, 0, NoPrefix) = {1}
        BY <1>2 DEF LinksAfter
    <2>2. Earliest({1}) = 1
        BY EarliestIsUnique
    <2>3. \A p \in Prefix \ {NoPrefix} : LinksAfter(context, 0, p) = {}
        BY <1>2 DEF LinksAfter
    <2>4. UndoneTo(context, 0)[NoPrefix] = NoNamespace
        BY <1>2, <2>1, <2>2, NSMapAssumption DEF UndoneTo
    <2>5. \A p \in Prefix \ {NoPrefix} : UndoneTo(context, 0)[p] = Unset
        BY <1>2, <2>3 DEF UndoneTo, EmptyPrefixMap
    <2> QED BY <2>4, <2>5, NSMapAssumption DEF Reads, isSetPrefix, Scopes!NoBindings
<1>6. SavedScopes = <<Scopes!NoBindings, Scopes!NoBindings>>
    BY <1>2, <1>4, <1>5 DEF SavedScopes
<1> QED BY <1>3, <1>6 DEF Scopes!Init

(* Each call is a step of the abstract stack, or leaves it alone. *)
LEMMA NextScopes == IInv /\ [Next]_context => [Scopes!Next]_Scopes!vars
<1> SUFFICES ASSUME IInv, [Next]_context PROVE [Scopes!Next]_Scopes!vars
    OBVIOUS
<1> DEFINE pos  == context.rememberedPositions
           pos2 == context'.rememberedPositions
           len  == Len(context.restoreLinks)
           Read(k)  == Reads(UndoneTo(context, k))
           Read2(k) == Reads(UndoneTo(context', k))
<1>1. /\ context \in Context
      /\ context' \in Context
      /\ pos \in Seq(Nat)
      /\ Len(pos) \in Nat /\ Len(pos) >= 2
      /\ len \in Nat
    BY NextIInv, LenProperties DEF IInv, TypeOK, Context, PositionsOrdered
<1>2. /\ \A i \in 1 .. Len(pos) : pos[i] \in 0 .. len
      /\ \A i \in 1 .. Len(pos) : \A j \in 1 .. i : pos[j] <= pos[i]
    <2>1. /\ \A i \in 1 .. Len(pos) : pos[i] \in Nat /\ pos[i] <= len
          /\ \A i \in 1 .. Len(pos) : \A j \in 1 .. i : pos[j] <= pos[i]
        BY <1>1, ElementOfSeq DEF IInv, PositionsOrdered
    <2> HIDE DEF pos, len
    <2> QED BY <1>1, <2>1
<1>3. /\ SavedScopes = [i \in 1 .. Len(pos) |-> Read(pos[i])]
      /\ SavedScopes' = [i \in 1 .. Len(pos2) |-> Read2(pos2[i])]
    BY DEF SavedScopes
<1>4. ASSUME NEW p \in Prefix, NEW ns \in Namespace, NEW force \in BOOLEAN,
             DoAddNamespace(p, ns, force)
      PROVE  [Scopes!Next]_Scopes!vars
    <2>1. CASE isSetPrefix(context.prefixMap, p) /\ ~force
        <3>1. context' = context
            BY <1>4, <2>1 DEF DoAddNamespace, AddNamespace
        <3> QED BY <3>1 DEF Scopes!vars, SavedScopes
    <2>2. CASE ~(isSetPrefix(context.prefixMap, p) /\ ~force)
        <3>1. /\ context' = AddNamespace(context, p, ns, force)
              /\ context'.prefixMap = [context.prefixMap EXCEPT ![p] = ns]
              /\ pos2 = pos
            BY <1>4, <2>2 DEF DoAddNamespace, AddNamespace, AddToMap
        <3>2. Reads(context'.prefixMap) = [Reads(context.prefixMap) EXCEPT ![p] = ns]
            BY <1>1, <3>1, NSMapAssumption DEF Reads, isSetPrefix, Context, PrefixMap
        <3>3. \A i \in 1 .. Len(pos) : Read2(pos[i]) = Read(pos[i])
            BY <1>1, <1>2, <3>1, AddNamespaceKeepsScopes
        <3>4. SavedScopes' = SavedScopes
            BY <1>3, <3>1, <3>3
        <3> QED BY <3>2, <3>4 DEF Scopes!Next, Scopes!Declare
    <2> QED BY <2>1, <2>2
<1>5. ASSUME DoRemember
      PROVE  [Scopes!Next]_Scopes!vars
    <2>1. /\ context'.prefixMap = context.prefixMap
          /\ context'.restoreLinks = context.restoreLinks
          /\ pos2 = Append(pos, len)
        BY <1>1, <1>5 DEF DoRemember, Remember, Context
    <2>2. \A k \in Nat : UndoneTo(context', k) = UndoneTo(context, k)
        BY <2>1 DEF UndoneTo, LinksAfter
    <2>3. /\ Len(pos2) = Len(pos) + 1
          /\ pos2[Len(pos) + 1] = len
          /\ \A i \in 1 .. Len(pos) : pos2[i] = pos[i]
        BY <1>1, <2>1, AppendProperties
    <2>4. /\ \A i \in 1 .. Len(pos) : Read2(pos2[i]) = Read(pos[i])
          /\ Read2(pos2[Len(pos) + 1]) = Reads(context.prefixMap)
        BY <1>1, <1>2, <2>2, <2>3, UndoneToEnd
    <2>5. SavedScopes' = Append(SavedScopes, Reads(context.prefixMap))
        <3> HIDE DEF pos, pos2, Read, Read2
        <3>1. Len(SavedScopes) = Len(pos)
            BY <1>1, <1>3
        <3> QED BY <1>1, <1>3, <2>3, <2>4, <3>1
    <2> QED BY <2>1, <2>5 DEF Scopes!Next, Scopes!Open
<1>6. ASSUME DoRestore
      PROVE  [Scopes!Next]_Scopes!vars
    <2> DEFINE n == Len(pos) - 1
    <2>1. Len(pos) > 2 /\ n \in 1 .. Len(pos) /\ pos[n] \in 0 .. len
        BY <1>1, <1>2, <1>6 DEF DoRestore
    <2>2. /\ context'.prefixMap = UndoneTo(context, pos[n])
          /\ context'.restoreLinks = SubSeq(context.restoreLinks, 1, pos[n])
          /\ pos2 = SubSeq(pos, 1, n)
        BY <1>6 DEF DoRestore, Restore
    <2>3. /\ Len(pos2) = n
          /\ \A i \in 1 .. n : pos2[i] = pos[i]
        BY <1>1, <2>1, <2>2, SubSeqProperties
    <2>4. \A i \in 1 .. n : pos[i] \in 0 .. pos[n]
        <3> SUFFICES ASSUME NEW i \in 1 .. n PROVE pos[i] \in 0 .. pos[n]
            OBVIOUS
        <3>1. i \in 1 .. Len(pos) /\ i \in Nat
            BY <1>1, <2>1
        <3>2. pos[i] <= pos[n]
            BY <1>2, <2>1
        <3> QED BY <1>2, <2>1, <3>1, <3>2
    <2>5. \A i \in 1 .. n : Read2(pos2[i]) = Read(pos[i])
        BY <1>1, <2>1, <2>2, <2>3, <2>4, RestoreKeepsScopes
    <2>6. Len(SavedScopes) = Len(pos) /\ SavedScopes[n] = Read(pos[n])
        BY <1>1, <1>3, <2>1
    <2>7. SavedScopes' = SubSeq(SavedScopes, 1, Len(SavedScopes) - 1)
        <3> HIDE DEF pos, pos2, Read, Read2
        <3> QED BY <1>1, <1>3, <2>1, <2>3, <2>5, <2>6
    <2> QED BY <1>1, <2>1, <2>2, <2>6, <2>7 DEF Scopes!Next, Scopes!Close
<1>7. CASE UNCHANGED context
    BY <1>7 DEF Scopes!vars, SavedScopes
<1> QED BY <1>4, <1>5, <1>6, <1>7 DEF Next

(* XmlContext implements ScopeStack: closing a scope gives back exactly the *)
(* bindings the content of the scope around it started with.                *)
THEOREM ScopesImplemented == Spec => ImplementsScopes
<1>1. Init => Scopes!Init
    BY InitScopes
<1>2. IInv /\ [Next]_context => [Scopes!Next]_Scopes!vars
    BY NextScopes
<1> QED BY <1>1, <1>2, Invariance, PTL DEF Spec, ImplementsScopes, Scopes!Spec
-----------------------------------------------------------------------------
(* The loop of restore *)

LEMMA UndoingDefined ==
    ASSUME NEW c, Len(c.restoreLinks) \in Nat
    PROVE  undoing(c) =
               [i \in 0 .. Len(c.restoreLinks) |->
                   IF i = 0 THEN c ELSE undoLast(undoing(c)[i - 1])]
<1> DEFINE Step(g, i) == IF i = 0 THEN c ELSE undoLast(g[i - 1])
           Defined == {n \in Nat : \E g : g = [i \in 0 .. n |-> Step(g, i)]}
<1>1. \A g, h, i : (i = 0 \/ g[i - 1] = h[i - 1]) => Step(g, i) = Step(h, i)
    OBVIOUS
<1>2. undoing(c) = CHOOSE g : g = [i \in 0 .. Len(c.restoreLinks) |-> Step(g, i)]
    BY DEF undoing
<1> HIDE DEF Step
<1>3. 0 \in Defined
    <2> DEFINE g == [i \in 0 .. 0 |-> Step(<< >>, 0)]
    <2>1. \A i \in 0 .. 0 : Step(g, i) = Step(<< >>, 0)
        BY <1>1
    <2>2. g = [i \in 0 .. 0 |-> Step(g, i)]
        BY <2>1
    <2> QED BY <2>2
<1>4. ASSUME NEW n \in Nat, n \in Defined
      PROVE  n + 1 \in Defined
    <2>1. PICK g : g = [i \in 0 .. n |-> Step(g, i)]
        BY <1>4
    <2> DEFINE h == [i \in 0 .. n + 1 |-> IF i <= n THEN g[i] ELSE Step(g, i)]
    <2>2. ASSUME NEW i \in 0 .. n + 1
          PROVE  h[i] = Step(h, i)
        <3>1. i = 0 \/ h[i - 1] = g[i - 1]
            OBVIOUS
        <3>2. Step(h, i) = Step(g, i)
            BY <1>1, <3>1
        <3>3. h[i] = Step(g, i)
            <4>1. \A j \in 0 .. n : g[j] = Step(g, j)
                BY <2>1
            <4> QED BY <4>1
        <3> QED BY <3>2, <3>3
    <2>3. h = [i \in 0 .. n + 1 |-> Step(h, i)]
        BY <2>2
    <2> HIDE DEF h
    <2> QED BY <2>3
<1>5. Len(c.restoreLinks) \in Defined
    <2> HIDE DEF Defined
    <2> QED BY <1>3, <1>4, SetInduction
<1>6. undoing(c) = [i \in 0 .. Len(c.restoreLinks) |-> Step(undoing(c), i)]
    BY <1>2, <1>5
<1> QED BY <1>6 DEF Step

(* Undoing one link more writes that link over what undoing the later ones left. *)
LEMMA UndoneOneMore ==
    ASSUME NEW c \in Context, NEW k \in 1 .. Len(c.restoreLinks)
    PROVE  UndoneTo(c, k - 1)
               = [UndoneTo(c, k) EXCEPT ![c.restoreLinks[k].prefix] = c.restoreLinks[k].ns]
<1> DEFINE links == c.restoreLinks
           q     == links[k].prefix
<1>1. /\ Len(links) \in Nat
      /\ k \in Nat
    BY LenProperties DEF Context
<1>2. q \in Prefix
    <2>1. links \in Seq(Link)
        BY DEF Context
    <2>2. links[k] \in Link
        BY <2>1, ElementOfSeq
    <2> QED BY <2>2 DEF Link
<1>3. Earliest(LinksAfter(c, k - 1, q)) = k /\ LinksAfter(c, k - 1, q) # {}
    <2>1. k \in LinksAfter(c, k - 1, q)
        BY <1>1 DEF LinksAfter
    <2>2. LinksAfter(c, k - 1, q) \in SUBSET Nat
        BY <1>1 DEF LinksAfter
    <2>3. \A j \in LinksAfter(c, k - 1, q) : k <= j
        BY <1>1 DEF LinksAfter
    <2> QED BY <2>1, <2>2, <2>3, EarliestIsUnique
<1>4. \A p \in Prefix \ {q} : LinksAfter(c, k - 1, p) = LinksAfter(c, k, p)
    <2> SUFFICES ASSUME NEW p \in Prefix, p # q
                 PROVE  LinksAfter(c, k - 1, p) = LinksAfter(c, k, p)
        OBVIOUS
    <2>1. \A i \in (k - 1) + 1 .. Len(links) : links[i].prefix = p => i \in k + 1 .. Len(links)
        BY <1>1
    <2>2. \A i \in k + 1 .. Len(links) : i \in (k - 1) + 1 .. Len(links)
        BY <1>1
    <2> QED BY <2>1, <2>2 DEF LinksAfter
<1>5. UndoneTo(c, k - 1)[q] = links[k].ns
    BY <1>2, <1>3 DEF UndoneTo
<1>6. \A p \in Prefix \ {q} : UndoneTo(c, k - 1)[p] = UndoneTo(c, k)[p]
    BY <1>4 DEF UndoneTo
<1>7. /\ UndoneTo(c, k - 1) = [p \in Prefix |-> UndoneTo(c, k - 1)[p]]
      /\ UndoneTo(c, k) = [p \in Prefix |-> UndoneTo(c, k)[p]]
    BY DEF UndoneTo
<1> HIDE DEF links, q
<1>8. UndoneTo(c, k - 1) = [UndoneTo(c, k) EXCEPT ![q] = links[k].ns]
    BY <1>2, <1>5, <1>6, <1>7
<1> QED BY <1>8 DEF links, q

(* After i iterations of restore's loop the last i links are written back and *)
(* gone, whatever the context: the loop and UndoneTo agree.                   *)
UndoneBy(c, i) ==
    [c EXCEPT !.prefixMap    = UndoneTo(c, Len(c.restoreLinks) - i),
              !.restoreLinks = SubSeq(c.restoreLinks, 1, Len(c.restoreLinks) - i)]

LEMMA UndoLastUndoes ==
    ASSUME NEW c \in Context, NEW i \in 1 .. Len(c.restoreLinks)
    PROVE  undoLast(UndoneBy(c, i - 1)) = UndoneBy(c, i)
<1> DEFINE links == c.restoreLinks
           k     == Len(links) - (i - 1)
           d     == UndoneBy(c, i - 1)
<1>1. /\ Len(links) \in Nat
      /\ i \in Nat
      /\ k \in 1 .. Len(links)
      /\ k \in 0 .. Len(links)
      /\ k - 1 \in 0 .. Len(links)
      /\ k - 1 = Len(links) - i
    BY LenProperties DEF Context
<1>2. /\ d = [c EXCEPT !.prefixMap = UndoneTo(c, k), !.restoreLinks = SubSeq(links, 1, k)]
      /\ d.prefixMap = UndoneTo(c, k)
      /\ d.restoreLinks = SubSeq(links, 1, k)
    BY DEF UndoneBy, Context
<1>3. /\ Len(SubSeq(links, 1, k)) = k
      /\ SubSeq(links, 1, k)[k] = links[k]
      /\ links \in Seq(Link)
    BY <1>1, PrefixProperties DEF Context
<1>4. SubSeq(SubSeq(links, 1, k), 1, k - 1) = SubSeq(links, 1, k - 1)
    BY <1>1, <1>3
<1>5. undoLast(d) = [d EXCEPT !.prefixMap    = [UndoneTo(c, k) EXCEPT ![links[k].prefix] = links[k].ns],
                              !.restoreLinks = SubSeq(links, 1, k - 1)]
    <2> HIDE DEF d, k
    <2> QED BY <1>2, <1>3, <1>4 DEF undoLast, AddToMap
<1>6. undoLast(d) = [d EXCEPT !.prefixMap    = UndoneTo(c, k - 1),
                              !.restoreLinks = SubSeq(links, 1, k - 1)]
    BY <1>1, <1>5, UndoneOneMore
<1>7. undoLast(d) = [c EXCEPT !.prefixMap    = UndoneTo(c, k - 1),
                              !.restoreLinks = SubSeq(links, 1, k - 1)]
    <2> HIDE DEF k
    <2> QED BY <1>2, <1>6 DEF Context
<1> QED BY <1>1, <1>7 DEF UndoneBy

LEMMA UndoingUndoes ==
    ASSUME NEW c \in Context
    PROVE  \A i \in 0 .. Len(c.restoreLinks) : undoing(c)[i] = UndoneBy(c, i)
<1> DEFINE len     == Len(c.restoreLinks)
           Agreed  == {i \in Nat : i <= len => undoing(c)[i] = UndoneBy(c, i)}
<1>1. len \in Nat /\ c.restoreLinks \in Seq(Link)
    BY LenProperties DEF Context
<1>2. /\ undoing(c)[0] = c
      /\ \A i \in 1 .. len : undoing(c)[i] = undoLast(undoing(c)[i - 1])
    BY <1>1, UndoingDefined
<1>3. 0 \in Agreed
    <2>1. UndoneTo(c, len - 0) = c.prefixMap
        BY <1>1, UndoneToEnd
    <2>2. SubSeq(c.restoreLinks, 1, len - 0) = c.restoreLinks
        BY <1>1
    <2>3. UndoneBy(c, 0) = c
        BY <2>1, <2>2 DEF UndoneBy, Context
    <2> QED BY <1>2, <2>3
<1>4. ASSUME NEW i \in Nat, i \in Agreed
      PROVE  i + 1 \in Agreed
    <2> SUFFICES ASSUME i + 1 <= len
                 PROVE  undoing(c)[i + 1] = UndoneBy(c, i + 1)
        OBVIOUS
    <2> DEFINE n == i + 1
    <2>1. n \in 1 .. len /\ n - 1 = i
        BY <1>1
    <2>2. undoing(c)[n - 1] = UndoneBy(c, n - 1)
        BY <1>1, <1>4, <2>1
    <2>3. undoing(c)[n] = undoLast(UndoneBy(c, n - 1))
        BY <1>2, <2>1, <2>2
    <2> HIDE DEF n
    <2>4. undoing(c)[n] = UndoneBy(c, n)
        BY <2>1, <2>3, UndoLastUndoes
    <2> QED BY <2>4 DEF n
<1>5. Nat \subseteq Agreed
    <2> HIDE DEF Agreed
    <2> QED BY <1>3, <1>4, SetInduction
<1> QED BY <1>1, <1>5

(* restore's loop, stopped at any position of the log, leaves the map UndoneTo *)
(* describes and the log up to that position, in every context.                *)
THEOREM LoopUndoes ==
    ASSUME NEW c \in Context, NEW k \in 0 .. Len(c.restoreLinks)
    PROVE  undoLoop(c, k) = [c EXCEPT !.prefixMap    = UndoneTo(c, k),
                                      !.restoreLinks = SubSeq(c.restoreLinks, 1, k)]
<1> DEFINE i == Len(c.restoreLinks) - k
<1>1. i \in 0 .. Len(c.restoreLinks) /\ Len(c.restoreLinks) - i = k
    BY LenProperties DEF Context
<1>2. undoing(c)[i] = UndoneBy(c, i)
    BY <1>1, UndoingUndoes
<1> QED BY <1>1, <1>2 DEF undoLoop, UndoneBy

(* In every context a client can reach, UndoneTo is what restore's loop leaves. *)
THEOREM UndoneToAlwaysIsTheLoop == Spec => []UndoneToIsTheLoop
<1>1. TypeOK => UndoneToIsTheLoop
    <2> SUFFICES ASSUME TypeOK, NEW k \in 0 .. Len(context.restoreLinks)
                 PROVE  undoLoop(context, k)
                            = [context EXCEPT !.prefixMap    = UndoneTo(context, k),
                                              !.restoreLinks = SubSeq(@, 1, k)]
        BY DEF UndoneToIsTheLoop
    <2> QED BY LoopUndoes DEF TypeOK
<1> QED BY <1>1, TypeCorrectness, PTL
=============================================================================
