-------------------------- MODULE XmlCursorProofs --------------------------
(***************************************************************************)
(* Theorems about XmlCursor: its stack is the way from the root, whatever  *)
(* the moves and edits, moves between siblings undo each other, and the    *)
(* token moves visit the tokens of the document in their order.            *)
(***************************************************************************)
EXTENDS TokenOrder, SharedLemmas, FiniteSetTheorems

-----------------------------------------------------------------------------
(* The inductive invariant.  Contents are shared, so a tree alone does not *)
(* tell that an edit leaves the Contents around the cursor alone: what     *)
(* does is that Contents can be ranked, children above their parents, as a *)
(* cursor never makes an element of a Contents in itself.                  *)

(* The k-th Contents on the way to the cursor, and the place in it. *)
Stop(c, k) ==
    IF k \in 1 .. Len(c.stack) THEN c.stack[k] ELSE [contents |-> c.contents, pos |-> c.pos]

(* At the place p there is an element with the Contents n. *)
Leads(T, p, n) ==
    /\ p.pos \in countAttrs(T, p) .. end(T, p) - 1
    /\ elemAt(T, p, p.pos).value = n
    /\ n \in Node

Ranks(T, rank) ==
    \A n \in Node : \A i \in DOMAIN T.elems[n] :
        T.elems[n][i].value \in Node => rank[n] < rank[T.elems[n][i].value]

IsPath(T, c, rank) ==
    /\ Stop(c, 1).contents = Root
    /\ \A i \in 1 .. Len(c.stack) : Leads(T, Stop(c, i), Stop(c, i + 1).contents)
    /\ \A i \in 1 .. Len(c.stack) : \A j \in i + 1 .. Len(c.stack) + 1 :
          rank[Stop(c, i).contents] < rank[Stop(c, j).contents]

Ranked(T, c, rank) ==
    /\ Ranks(T, rank)
    /\ IsPath(T, c, rank)

IInv ==
    /\ TypeOK
    /\ \E rank \in [Node -> Nat] : Ranked(tree, cursor, rank)

-----------------------------------------------------------------------------
(* Places and tokens *)

LEMMA NullIsNoNode == NULL \notin Node /\ String \notin Node
BY CursorAssumption

LEMMA TreeType ==
    ASSUME NEW T \in Tree, NEW n \in Node
    PROVE  /\ T.attrs[n] \in Seq(AttrType)
           /\ Len(T.attrs[n]) \in 0 .. MaxAttrs
           /\ T.elems[n] \in Seq(Elem)
           /\ Len(T.elems[n]) \in 0 .. MaxElems
           /\ DOMAIN T.elems[n] = 1 .. Len(T.elems[n])
           /\ \A i \in 1 .. Len(T.elems[n]) : T.elems[n][i] \in Elem
<1>1. T.attrs[n] \in BoundedSeq(AttrType, MaxAttrs) /\ T.elems[n] \in BoundedSeq(Elem, MaxElems)
    BY DEF Tree
<1>2. MaxAttrs \in Nat /\ MaxElems \in Nat
    BY CursorAssumption
<1>3. T.attrs[n] \in Seq(AttrType) /\ Len(T.attrs[n]) <= MaxAttrs
    BY <1>1, <1>2, BoundedSeqIsSeq
<1>4. T.elems[n] \in Seq(Elem) /\ Len(T.elems[n]) <= MaxElems
    BY <1>1, <1>2, BoundedSeqIsSeq
<1> QED BY <1>2, <1>3, <1>4, LenProperties, ElementOfSeq

LEMMA PlaceType ==
    ASSUME NEW T \in Tree, NEW c, c.contents \in Node
    PROVE  /\ countAttrs(T, c) \in Nat
           /\ countElems(T, c) \in 0 .. MaxElems
           /\ end(T, c) \in Nat
           /\ end(T, c) = countAttrs(T, c) + countElems(T, c)
           /\ \A pos \in countAttrs(T, c) .. end(T, c) - 1 : elemAt(T, c, pos) \in Elem
<1>1. MaxElems \in Nat
    BY CursorAssumption
<1>2. countAttrs(T, c) \in Nat /\ countElems(T, c) \in 0 .. MaxElems
    BY <1>1, TreeType, CursorAssumption DEF countAttrs, countElems
<1>3. end(T, c) = countAttrs(T, c) + countElems(T, c) /\ end(T, c) \in Nat
    BY <1>1, <1>2 DEF end
<1>4. ASSUME NEW pos \in countAttrs(T, c) .. end(T, c) - 1
      PROVE  elemAt(T, c, pos) \in Elem
    <2>1. pos - countAttrs(T, c) + 1 \in 1 .. countElems(T, c)
        BY <1>1, <1>2, <1>3
    <2> QED BY <2>1, TreeType DEF countElems, elemAt
<1> QED BY <1>2, <1>3, <1>4

(* Where there is a start-element token. *)
LEMMA StartsAtElement ==
    ASSUME NEW T \in Tree, NEW c, c.contents \in Node, c.pos \in Int
    PROVE  currentTokenType(T, c) = "INT_START" <=>
               /\ c.pos \in countAttrs(T, c) .. end(T, c) - 1
               /\ elemAt(T, c, c.pos).name # TextName
<1> DEFINE A == countAttrs(T, c)
           E == end(T, c)
           e == elemAt(T, c, c.pos)
<1>1. A \in Nat /\ E \in Nat /\ A <= E /\ \A pos \in A .. E - 1 : elemAt(T, c, pos) \in Elem
    BY PlaceType
<1>2. \A i \in 1 .. A : T.attrs[c.contents][i] # "INT_START"
    BY TreeType, ElementOfSeq DEF countAttrs, AttrType
<1>3. CASE c.pos \in A .. E - 1
    BY <1>1, <1>3 DEF currentTokenType
<1>4. CASE c.pos \in 0 .. A - 1
    <2>1. currentTokenType(T, c) = T.attrs[c.contents][c.pos + 1]
        BY <1>1, <1>4 DEF currentTokenType
    <2>2. c.pos + 1 \in 1 .. A
        BY <1>1, <1>4
    <2> QED BY <1>1, <1>2, <1>4, <2>1, <2>2
<1>5. CASE c.pos \notin 0 .. E - 1
    BY <1>1, <1>5 DEF currentTokenType
<1> QED BY <1>1, <1>3, <1>4, <1>5

(* A cursor can enter exactly the elements that have contents. *)
LEMMA EntersLeads ==
    ASSUME NEW T \in Tree, NEW c, c.contents \in Node, c.pos \in Int
    PROVE  enters(T, c) <=> Leads(T, c, elemAt(T, c, c.pos).value)
<1> DEFINE A == countAttrs(T, c)
           E == end(T, c)
           e == elemAt(T, c, c.pos)
<1>1. A \in Nat /\ E \in Nat /\ A <= E /\ \A pos \in A .. E - 1 : elemAt(T, c, pos) \in Elem
    BY PlaceType
<1>2. ASSUME c.pos \in A .. E - 1
      PROVE  e.name # TextName /\ e.value # NULL <=> e.value \in Node
    BY <1>1, <1>2, CursorAssumption DEF Elem, Element, Text
<1> QED BY <1>2, StartsAtElement DEF enters, Leads

-----------------------------------------------------------------------------
(* The way to the cursor *)

LEMMA StopType ==
    ASSUME NEW c \in Cursor, NEW k
    PROVE  Stop(c, k) \in Place
BY ElementOfSeq DEF Cursor, Place, Stop

(* Within the Contents it is in, a cursor may go anywhere. *)
LEMMA AtStays ==
    ASSUME NEW T, NEW c \in Cursor, NEW rank, IsPath(T, c, rank), NEW pos \in Int
    PROVE  /\ At(c, pos) \in Cursor
           /\ IsPath(T, At(c, pos), rank)
<1> DEFINE d == At(c, pos)
<1>1. d \in Cursor /\ d.stack = c.stack /\ d.contents = c.contents
    BY DEF At, Cursor
<1>2. Len(c.stack) \in Nat
    BY LenProperties DEF Cursor
<1>3. \A k : Stop(d, k).contents = Stop(c, k).contents
    BY <1>1 DEF Stop
<1>4. \A k \in 1 .. Len(c.stack) : Stop(d, k) = Stop(c, k)
    BY <1>1 DEF Stop
<1> HIDE DEF d
<1>5. IsPath(T, d, rank)
    BY <1>1, <1>2, <1>3, <1>4 DEF IsPath
<1> QED BY <1>1, <1>5 DEF d

(* Back to the element around. *)
LEMMA ToParentStays ==
    ASSUME NEW T, NEW c \in Cursor, NEW rank, IsPath(T, c, rank)
    PROVE  /\ toParent(c) \in Cursor
           /\ IsPath(T, toParent(c), rank)
<1> DEFINE d == toParent(c)
<1>1. SUFFICES ASSUME c.stack # << >>
               PROVE  d \in Cursor /\ IsPath(T, d, rank)
    BY DEF toParent
<1>2. c.stack \in Seq(Place)
    BY DEF Cursor
<1>3. /\ Front(c.stack) \in Seq(Place)
      /\ Len(Front(c.stack)) = Len(c.stack) - 1
      /\ \A i \in 1 .. Len(c.stack) - 1 : Front(c.stack)[i] = c.stack[i]
      /\ Last(c.stack) \in Place
      /\ Len(c.stack) > 0
    BY <1>1, <1>2, FrontProperties
<1>4. Len(c.stack) \in Nat
    BY <1>2, LenProperties
<1>5. d = [contents |-> Last(c.stack).contents, pos |-> Last(c.stack).pos, stack |-> Front(c.stack)]
    BY <1>1 DEF toParent
<1>6. d \in Cursor
    BY <1>3, <1>5 DEF Cursor, Place
<1>7. [contents |-> Last(c.stack).contents, pos |-> Last(c.stack).pos] = c.stack[Len(c.stack)]
    BY <1>3 DEF Last, Place
<1>8. Len(d.stack) = Len(c.stack) - 1
    BY <1>3, <1>5
<1>9. \A k \in 1 .. Len(c.stack) : Stop(d, k) = Stop(c, k)
    <2> SUFFICES ASSUME NEW k \in 1 .. Len(c.stack) PROVE Stop(d, k) = c.stack[k]
        BY DEF Stop
    <2>1. CASE k < Len(c.stack)
        BY <1>3, <1>4, <1>5, <2>1 DEF Stop
    <2>2. CASE k = Len(c.stack)
        BY <1>3, <1>4, <1>5, <1>7, <2>2 DEF Stop
    <2> QED BY <1>4, <2>1, <2>2
<1> HIDE DEF d
<1>10. Stop(d, 1).contents = Root
    BY <1>3, <1>4, <1>9 DEF IsPath
<1>11. ASSUME NEW i \in 1 .. Len(d.stack)
       PROVE  Leads(T, Stop(d, i), Stop(d, i + 1).contents)
    <2>1. i \in 1 .. Len(c.stack) /\ i + 1 \in 1 .. Len(c.stack)
        BY <1>4, <1>8
    <2> QED BY <1>9, <2>1 DEF IsPath
<1>12. ASSUME NEW i \in 1 .. Len(d.stack), NEW j \in i + 1 .. Len(d.stack) + 1
       PROVE  rank[Stop(d, i).contents] < rank[Stop(d, j).contents]
    <2>1. i \in 1 .. Len(c.stack) /\ j \in 1 .. Len(c.stack) /\ j \in i + 1 .. Len(c.stack) + 1
        BY <1>4, <1>8
    <2> QED BY <1>9, <2>1 DEF IsPath
<1> QED BY <1>6, <1>10, <1>11, <1>12 DEF IsPath

(* Into an element with contents. *)
LEMMA EnterStays ==
    ASSUME NEW T \in Tree, NEW c \in Cursor, NEW rank \in [Node -> Nat], Ranked(T, c, rank), enters(T, c)
    PROVE  /\ rememberAndSwap(c, elemAt(T, c, c.pos).value) \in Cursor
           /\ IsPath(T, rememberAndSwap(c, elemAt(T, c, c.pos).value), rank)
<1> DEFINE n == elemAt(T, c, c.pos).value
           d == rememberAndSwap(c, n)
           here == [contents |-> c.contents, pos |-> c.pos]
<1>1. c.contents \in Node /\ c.pos \in Int /\ c.stack \in Seq(Place) /\ here \in Place
    BY DEF Cursor, Place
<1>2. Leads(T, c, n)
    BY <1>1, EntersLeads
<1>3. Leads(T, here, n) /\ n \in Node
    BY <1>2 DEF Leads, countAttrs, end, countElems, elemAt
<1>4. /\ Append(c.stack, here) \in Seq(Place)
      /\ Len(Append(c.stack, here)) = Len(c.stack) + 1
      /\ \A i \in 1 .. Len(c.stack) : Append(c.stack, here)[i] = c.stack[i]
      /\ Append(c.stack, here)[Len(c.stack) + 1] = here
      /\ Len(c.stack) \in Nat
    BY <1>1, AppendProperties, LenProperties
<1>5. d = [contents |-> n, pos |-> 0, stack |-> Append(c.stack, here)]
    BY DEF rememberAndSwap
<1>6. d \in Cursor
    BY <1>3, <1>4, <1>5 DEF Cursor
<1>7. /\ Len(d.stack) = Len(c.stack) + 1
      /\ \A k \in 1 .. Len(c.stack) + 1 : Stop(d, k) = Stop(c, k)
      /\ Stop(d, Len(c.stack) + 2).contents = n
      /\ Stop(c, Len(c.stack) + 1) = here
    BY <1>4, <1>5 DEF Stop
<1>8. rank[c.contents] < rank[n]
    <2>1. c.pos \in countAttrs(T, c) .. end(T, c) - 1
        BY <1>2 DEF Leads
    <2>2. c.pos - countAttrs(T, c) + 1 \in DOMAIN T.elems[c.contents]
        <3>1. c.pos - countAttrs(T, c) + 1 \in 1 .. countElems(T, c)
            BY <1>1, <2>1, PlaceType
        <3> QED BY <1>1, <3>1, TreeType DEF countElems
    <2>3. T.elems[c.contents][c.pos - countAttrs(T, c) + 1].value = n
        BY DEF elemAt
    <2> QED BY <1>1, <1>3, <2>2, <2>3 DEF Ranked, Ranks
<1>9. \A k : Stop(c, k).contents \in Node
    BY StopType DEF Place
<1> HIDE DEF d, n
<1>10. ASSUME NEW i \in 1 .. Len(d.stack)
       PROVE  Leads(T, Stop(d, i), Stop(d, i + 1).contents)
    <2>1. CASE i \in 1 .. Len(c.stack)
        <3>1. i \in 1 .. Len(c.stack) + 1 /\ i + 1 \in 1 .. Len(c.stack) + 1
            BY <1>4, <2>1
        <3> QED BY <1>7, <2>1, <3>1 DEF Ranked, IsPath
    <2>2. CASE i = Len(c.stack) + 1
        BY <1>3, <1>4, <1>7, <2>2
    <2> QED BY <1>4, <1>7, <2>1, <2>2
<1>11. ASSUME NEW i \in 1 .. Len(d.stack), NEW j \in i + 1 .. Len(d.stack) + 1
       PROVE  rank[Stop(d, i).contents] < rank[Stop(d, j).contents]
    <2>1. CASE j \in 1 .. Len(c.stack) + 1
        <3>1. i \in 1 .. Len(c.stack) /\ j \in i + 1 .. Len(c.stack) + 1 /\ i \in 1 .. Len(c.stack) + 1
            BY <1>4, <1>7, <2>1
        <3> QED BY <1>7, <2>1, <3>1 DEF Ranked, IsPath
    <2>2. CASE j = Len(c.stack) + 2
        <3>1. i \in 1 .. Len(c.stack) + 1
            BY <1>4, <1>7
        <3>2. rank[Stop(c, i).contents] <= rank[c.contents]
            <4>1. CASE i = Len(c.stack) + 1
                BY <1>1, <1>7, <4>1
            <4>2. CASE i \in 1 .. Len(c.stack)
                <5>1. rank[Stop(c, i).contents] < rank[Stop(c, Len(c.stack) + 1).contents]
                    <6>1. Len(c.stack) + 1 \in i + 1 .. Len(c.stack) + 1
                        BY <1>4, <4>2
                    <6> QED BY <4>2, <6>1 DEF Ranked, IsPath
                <5> QED BY <1>1, <1>7, <1>9, <5>1
            <4> QED BY <1>4, <3>1, <4>1, <4>2
        <3>3. rank[Stop(c, i).contents] \in Nat /\ rank[c.contents] \in Nat /\ rank[n] \in Nat
            BY <1>1, <1>3, <1>9 DEF n
        <3> QED BY <1>7, <1>8, <2>2, <3>1, <3>2, <3>3
    <2>3. i \in Nat /\ Len(d.stack) = Len(c.stack) + 1 /\ Len(c.stack) \in Nat
        BY <1>4, <1>7
    <2>4. j \in 1 .. Len(c.stack) + 1 \/ j = Len(c.stack) + 2
        BY <2>3
    <2> QED BY <2>1, <2>2, <2>4
<1>12. Stop(d, 1).contents = Root
    BY <1>4, <1>7 DEF Ranked, IsPath
<1>13. IsPath(T, d, rank)
    BY <1>10, <1>11, <1>12 DEF IsPath
<1> QED BY <1>6, <1>13 DEF d, n

(* Wherever a cursor goes from a place it was left at, the way is a path.  *)
OnPath(T, c, rank) == c \in Cursor /\ IsPath(T, c, rank)

LEMMA ToNextTokenStays ==
    ASSUME NEW T \in Tree, NEW rank \in [Node -> Nat], NEW c, Ranks(T, rank), OnPath(T, c, rank)
    PROVE  OnPath(T, toNextToken(T, c), rank)
<1>1. c \in Cursor /\ IsPath(T, c, rank) /\ c.pos \in Int /\ c.contents \in Node
    BY DEF OnPath, Cursor
<1>2. end(T, c) \in Int
    BY <1>1, PlaceType
<1>3. OnPath(T, At(c, c.pos + 1), rank)
    BY <1>1, AtStays DEF OnPath
<1>4. OnPath(T, At(toParent(At(c, end(T, c))), toParent(At(c, end(T, c))).pos + 1), rank)
    <2>1. OnPath(T, At(c, end(T, c)), rank)
        BY <1>1, <1>2, AtStays DEF OnPath
    <2>2. OnPath(T, toParent(At(c, end(T, c))), rank)
        BY <2>1, ToParentStays DEF OnPath
    <2>3. toParent(At(c, end(T, c))).pos + 1 \in Int
        BY <2>2 DEF OnPath, Cursor
    <2> QED BY <2>2, <2>3, AtStays DEF OnPath
<1>5. ASSUME enters(T, c)
      PROVE  OnPath(T, rememberAndSwap(c, elemAt(T, c, c.pos).value), rank)
    BY <1>1, <1>5, EnterStays DEF OnPath, Ranked
<1> QED BY <1>3, <1>4, <1>5 DEF toNextToken

LEMMA ToPrevTokenStays ==
    ASSUME NEW T \in Tree, NEW rank \in [Node -> Nat], NEW c, Ranks(T, rank), OnPath(T, c, rank)
    PROVE  OnPath(T, toPrevToken(T, c), rank)
<1> DEFINE before == At(c, c.pos - 1)
           inside == rememberAndSwap(before, elemAt(T, before, before.pos).value)
<1>1. c \in Cursor /\ IsPath(T, c, rank) /\ c.pos \in Int
    BY DEF OnPath, Cursor
<1>2. OnPath(T, At(c, -1), rank) /\ OnPath(T, before, rank)
    <2>1. -1 \in Int /\ c.pos - 1 \in Int
        BY <1>1
    <2> QED BY <1>1, <2>1, AtStays DEF OnPath
<1>3. OnPath(T, toParent(c), rank)
    BY <1>1, ToParentStays DEF OnPath
<1> HIDE DEF before
<1>4. ASSUME enters(T, before)
      PROVE  OnPath(T, At(inside, end(T, inside)), rank)
    <2>1. OnPath(T, inside, rank)
        BY <1>2, <1>4, EnterStays DEF OnPath, Ranked
    <2>2. inside.contents \in Node
        BY <2>1 DEF OnPath, Cursor
    <2> HIDE DEF inside
    <2>3. end(T, inside) \in Int
        BY <2>2, PlaceType
    <2> QED BY <2>1, <2>3, AtStays DEF OnPath
<1>5. toPrevToken(T, c) =
          IF c.pos = 0
          THEN IF c.stack = << >> THEN At(c, -1) ELSE toParent(c)
          ELSE IF enters(T, before) THEN At(inside, end(T, inside)) ELSE before
    BY DEF toPrevToken, before
<1> QED BY <1>2, <1>3, <1>4, <1>5

LEMMA ToStartDocStays ==
    ASSUME NEW T \in Tree, NEW rank, NEW c, OnPath(T, c, rank)
    PROVE  OnPath(T, toStartDoc(c), rank)
<1>1. c \in Cursor /\ IsPath(T, c, rank) /\ c.stack \in Seq(Place)
    BY DEF OnPath, Cursor
<1>2. CASE c.stack = << >>
    BY <1>1, <1>2, AtStays DEF OnPath, toStartDoc
<1>3. CASE c.stack # << >>
    <2> DEFINE d == toStartDoc(c)
    <2>1. 1 \in 1 .. Len(c.stack)
        BY <1>1, <1>3, FrontProperties, LenProperties
    <2>2. c.stack[1] = Stop(c, 1) /\ c.stack[1] \in Place
        BY <1>1, <2>1, ElementOfSeq DEF Stop
    <2>3. d = [contents |-> c.stack[1].contents, pos |-> 0, stack |-> << >>]
        BY <1>3 DEF toStartDoc
    <2>4. d \in Cursor /\ Len(d.stack) = 0 /\ d.contents = Root
        BY <1>1, <2>2, <2>3 DEF Cursor, Place, IsPath
    <2> HIDE DEF d
    <2>5. IsPath(T, d, rank)
        BY <2>4 DEF IsPath, Stop
    <2> QED BY <2>4, <2>5 DEF OnPath, d
<1> QED BY <1>2, <1>3

LEMMA ToFirstContentTokenStays ==
    ASSUME NEW T \in Tree, NEW rank \in [Node -> Nat], NEW c, Ranks(T, rank), OnPath(T, c, rank)
    PROVE  OnPath(T, toFirstContentToken(T, c), rank)
<1> DEFINE inside == toNextToken(T, c)
<1>1. OnPath(T, inside, rank)
    BY ToNextTokenStays
<1>2. inside.contents \in Node
    BY <1>1 DEF OnPath, Cursor
<1>3. toFirstContentToken(T, c) \in {c, At(inside, countAttrs(T, inside))}
    BY DEF toFirstContentToken
<1> HIDE DEF inside
<1>4. countAttrs(T, inside) \in Int
    BY <1>2, PlaceType
<1> QED BY <1>1, <1>3, <1>4, AtStays DEF OnPath

(* The moves that only change the position: inside the document they go to a *)
(* position of the Contents, or to its end.                                  *)
Placed(T, c) == {At(c, pos) : pos \in {p \in Int : c.pos < 0 \/ p \in 0 .. end(T, c)}} \cup {c}

LEMMA PlacedStays ==
    ASSUME NEW T, NEW rank, NEW c, OnPath(T, c, rank), NEW d \in Placed(T, c)
    PROVE  OnPath(T, d, rank)
BY AtStays DEF OnPath, Placed

LEMMA SearchesArePlaced ==
    ASSUME NEW T \in Tree, NEW c, c.contents \in Node, NEW S \in SUBSET (0 .. end(T, c)), NEW index
    PROVE  Forward(c, S, index) \in Placed(T, c) /\ Backward(c, S, index) \in Placed(T, c)
<1>1. c \in Placed(T, c) /\ \A p \in 0 .. end(T, c) : At(c, p) \in Placed(T, c)
    <2>1. end(T, c) \in Nat
        BY PlaceType
    <2>2. \A p \in 0 .. end(T, c) : p \in {q \in Int : c.pos < 0 \/ q \in 0 .. end(T, c)}
        BY <2>1
    <2> QED BY <2>2 DEF Placed
<1>2. Forward(c, S, index) \in Placed(T, c)
    <2> DEFINE at == {p \in S : Cardinality({q \in S : q <= p}) = index}
    <2>1. Forward(c, S, index) = IF at = {} THEN c ELSE At(c, CHOOSE p \in at : TRUE)
        BY DEF Forward
    <2>2. at \subseteq 0 .. end(T, c)
        OBVIOUS
    <2> HIDE DEF at
    <2> QED BY <1>1, <2>1, <2>2
<1>3. Backward(c, S, index) \in Placed(T, c)
    <2> DEFINE at == {p \in S : Cardinality({q \in S : q >= p}) = index}
    <2>1. Backward(c, S, index) = IF at = {} THEN c ELSE At(c, CHOOSE p \in at : TRUE)
        BY DEF Backward
    <2>2. at \subseteq 0 .. end(T, c)
        OBVIOUS
    <2> HIDE DEF at
    <2> QED BY <1>1, <2>1, <2>2
<1> QED BY <1>2, <1>3

LEMMA ElementsArePositions ==
    ASSUME NEW T \in Tree, NEW c, c.contents \in Node, NEW name
    PROVE  Elements(T, c) \in SUBSET (0 .. end(T, c)) /\ Named(T, c, name) \in SUBSET (0 .. end(T, c))
BY PlaceType DEF Elements, Named

LEMMA ChildMovesArePlaced ==
    ASSUME NEW T \in Tree, NEW c \in Cursor, NEW index, NEW name
    PROVE  /\ toChild(T, c, index) \in Placed(T, c)
           /\ toNamedChild(T, c, name, index) \in Placed(T, c)
           /\ toNextSibling(T, c, index) \in Placed(T, c)
           /\ toNextNamedSibling(T, c, name, index) \in Placed(T, c)
           /\ toPrevSibling(T, c, index) \in Placed(T, c)
<1>1. c.contents \in Node
    BY DEF Cursor
<1>2. Elements(T, c) \in SUBSET (0 .. end(T, c)) /\ Named(T, c, name) \in SUBSET (0 .. end(T, c))
    BY <1>1, ElementsArePositions
<1>3. c \in Placed(T, c)
    BY DEF Placed
<1>4. toChild(T, c, index) \in Placed(T, c) /\ toNamedChild(T, c, name, index) \in Placed(T, c)
    BY <1>1, <1>2, SearchesArePlaced DEF toChild, toNamedChild
<1>5. toNextSibling(T, c, index) \in Placed(T, c)
    <2>1. {p \in Elements(T, c) : p > c.pos} \in SUBSET (0 .. end(T, c))
        BY <1>2
    <2> QED BY <1>1, <1>3, <2>1, SearchesArePlaced DEF toNextSibling
<1>6. toNextNamedSibling(T, c, name, index) \in Placed(T, c)
    <2>1. {p \in Named(T, c, name) : p > c.pos} \in SUBSET (0 .. end(T, c))
        BY <1>2
    <2> QED BY <1>1, <1>3, <2>1, SearchesArePlaced DEF toNextNamedSibling
<1>7. toPrevSibling(T, c, index) \in Placed(T, c)
    <2>1. {p \in Elements(T, c) : p < c.pos} \in SUBSET (0 .. end(T, c))
        BY <1>2
    <2> QED BY <1>1, <1>3, <2>1, SearchesArePlaced DEF toPrevSibling
<1> QED BY <1>4, <1>5, <1>6, <1>7

LEMMA OtherMovesArePlaced ==
    ASSUME NEW T \in Tree, NEW c \in Cursor
    PROVE  /\ toEndToken(T, c) \in Placed(T, c)
           /\ toLastChild(T, c) \in Placed(T, c)
           /\ toFirstAttribute(T, c) \in Placed(T, c)
           /\ toLastAttribute(T, c) \in Placed(T, c)
           /\ toNextAttribute(T, c) \in Placed(T, c)
           /\ toPrevAttribute(T, c) \in Placed(T, c)
<1>1. c.contents \in Node /\ c.pos \in Int
    BY DEF Cursor
<1>2. countAttrs(T, c) \in 0 .. end(T, c) /\ end(T, c) \in Nat
    BY <1>1, PlaceType, CursorAssumption
<1>3. toEndToken(T, c) \in Placed(T, c)
    BY <1>2 DEF toEndToken, Placed
<1>4. toLastChild(T, c) \in Placed(T, c)
    <2> DEFINE e == toEndToken(T, c)
    <2>1. e \in Cursor /\ e.pos = end(T, c) /\ e.contents = c.contents /\ \A pos : At(e, pos) = At(c, pos)
        <3>1. end(T, c) \in Int
            BY <1>2
        <3>2. e = [contents |-> c.contents, pos |-> end(T, c), stack |-> c.stack]
            BY DEF toEndToken, At, Cursor
        <3> HIDE DEF e
        <3> QED BY <3>1, <3>2 DEF At, Cursor
    <2>2. toPrevSibling(T, e, 1) \in Placed(T, e)
        BY <2>1, ChildMovesArePlaced
    <2>3. end(T, e) = end(T, c)
        BY <2>1 DEF end, countAttrs, countElems
    <2>4. toLastChild(T, c) \in {c, toPrevSibling(T, e, 1)}
        BY DEF toLastChild
    <2> HIDE DEF e
    <2>5. Placed(T, e) \subseteq Placed(T, c)
        BY <1>2, <1>3, <2>1, <2>3 DEF Placed, e
    <2>6. c \in Placed(T, c)
        BY DEF Placed
    <2> QED BY <2>2, <2>4, <2>5, <2>6
<1>5. toFirstAttribute(T, c) \in Placed(T, c) /\ toLastAttribute(T, c) \in Placed(T, c)
    BY <1>2 DEF toFirstAttribute, toLastAttribute, Placed
<1>6. toNextAttribute(T, c) \in Placed(T, c)
    BY <1>1, <1>2 DEF toNextAttribute, Placed
<1>7. toPrevAttribute(T, c) \in Placed(T, c)
    <2> DEFINE m == Min({c.pos, countAttrs(T, c)})
    <2>1. m = IF c.pos <= countAttrs(T, c) THEN c.pos ELSE countAttrs(T, c)
        BY <1>1, <1>2, MinOfTwo
    <2>2. toPrevAttribute(T, c) = IF countAttrs(T, c) = 0 \/ c.pos = 0 THEN c ELSE At(c, m - 1)
        BY DEF toPrevAttribute
    <2> HIDE DEF m
    <2>3. m - 1 \in Int /\ (c.pos > 0 /\ countAttrs(T, c) # 0 => m - 1 \in 0 .. end(T, c))
        BY <1>1, <1>2, <2>1
    <2> QED BY <1>1, <2>2, <2>3 DEF Placed
<1> QED BY <1>3, <1>4, <1>5, <1>6, <1>7

-----------------------------------------------------------------------------
(* Edits *)

(* The tree with other attributes and elements in one Contents. *)
Edited(T, n, ats, es) ==
    [attrs |-> [T.attrs EXCEPT ![n] = ats], elems |-> [T.elems EXCEPT ![n] = es]]

(* The elements may be in n, by their rank. *)
Above(es, rank, n) ==
    \A i \in DOMAIN es : es[i].value \in Node => rank[n] < rank[es[i].value]

(* An edit of a Contents that is not around the cursor leaves the way alone. *)
LEMMA EditStays ==
    ASSUME NEW T \in Tree, NEW rank \in [Node -> Nat], NEW c, Ranks(T, rank), OnPath(T, c, rank),
           NEW n \in Node, \A i \in 1 .. Len(c.stack) : c.stack[i].contents # n,
           NEW ats \in BoundedSeq(AttrType, MaxAttrs), NEW es \in BoundedSeq(Elem, MaxElems),
           Above(es, rank, n)
    PROVE  /\ Edited(T, n, ats, es) \in Tree
           /\ Ranks(Edited(T, n, ats, es), rank)
           /\ OnPath(Edited(T, n, ats, es), c, rank)
<1> DEFINE U == Edited(T, n, ats, es)
<1>1. /\ T.attrs \in [Node -> BoundedSeq(AttrType, MaxAttrs)]
      /\ T.elems \in [Node -> BoundedSeq(Elem, MaxElems)]
    BY DEF Tree
<1>2. U \in Tree
    BY <1>1 DEF Edited, Tree
<1>3. /\ \A m \in Node : U.elems[m] = IF m = n THEN es ELSE T.elems[m]
      /\ \A m \in Node : U.attrs[m] = IF m = n THEN ats ELSE T.attrs[m]
    BY <1>1 DEF Edited
<1> HIDE DEF U
<1>4. Ranks(U, rank)
    BY <1>3 DEF Ranks, Above
<1>5. ASSUME NEW i \in 1 .. Len(c.stack)
      PROVE  Leads(U, Stop(c, i), Stop(c, i + 1).contents)
    <2>1. Stop(c, i).contents \in Node /\ Stop(c, i).contents # n
        BY StopType DEF OnPath, Place, Stop
    <2>2. Leads(T, Stop(c, i), Stop(c, i + 1).contents)
        BY DEF OnPath, IsPath
    <2> QED BY <1>3, <2>1, <2>2 DEF Leads, countAttrs, countElems, end, elemAt
<1>6. OnPath(U, c, rank)
    BY <1>5 DEF OnPath, IsPath
<1> QED BY <1>2, <1>4, <1>6 DEF U

(* Neither the Contents the cursor is in nor any ranked above is around it. *)
LEMMA AroundIsBelow ==
    ASSUME NEW T, NEW rank \in [Node -> Nat], NEW c, OnPath(T, c, rank),
           NEW n \in Node, rank[c.contents] <= rank[n]
    PROVE  \A i \in 1 .. Len(c.stack) : c.stack[i].contents # n
<1> SUFFICES ASSUME NEW i \in 1 .. Len(c.stack), c.stack[i].contents = n
             PROVE  FALSE
    OBVIOUS
<1>1. c \in Cursor /\ Len(c.stack) \in Nat /\ c.contents \in Node
    BY LenProperties DEF OnPath, Cursor
<1>2. Stop(c, i).contents = n /\ Stop(c, Len(c.stack) + 1).contents = c.contents
    BY <1>1 DEF Stop
<1>3. Len(c.stack) + 1 \in i + 1 .. Len(c.stack) + 1
    BY <1>1
<1>4. rank[n] < rank[c.contents]
    BY <1>2, <1>3 DEF OnPath, IsPath
<1>5. rank[n] \in Nat /\ rank[c.contents] \in Nat
    BY <1>1
<1> QED BY <1>4, <1>5

(* The elements of a tree that is ranked. *)
LEMMA ElementsAreAbove ==
    ASSUME NEW T, NEW rank, Ranks(T, rank), NEW n \in Node
    PROVE  Above(T.elems[n], rank, n)
BY DEF Ranks, Above

LEMMA EmptyIsAbove ==
    ASSUME NEW rank, NEW n
    PROVE  /\ << >> \in BoundedSeq(Elem, MaxElems)
           /\ << >> \in BoundedSeq(AttrType, MaxAttrs)
           /\ Above(<< >>, rank, n)
<1>1. MaxElems \in Nat /\ MaxAttrs \in Nat
    BY CursorAssumption
<1>2. << >> \in BoundedSeq(Elem, MaxElems) /\ << >> \in BoundedSeq(AttrType, MaxAttrs)
    <2>1. \A S : << >> \in Seq(S) /\ Len(<< >>) = 0
        BY EmptySeq
    <2>2. 0 <= MaxElems /\ 0 <= MaxAttrs
        BY <1>1
    <2> QED BY <1>1, <2>1, <2>2, BoundedSeqIsSeq
<1> QED BY <1>2 DEF Above

LEMMA InsertedIsAbove ==
    ASSUME NEW rank \in [Node -> Nat], NEW n \in Node, NEW es \in BoundedSeq(Elem, MaxElems),
           Above(es, rank, n), Len(es) < MaxElems,
           NEW k \in 1 .. Len(es) + 1, NEW e \in Elem, e.value \in Node => rank[n] < rank[e.value]
    PROVE  /\ InsertAt(es, k, e) \in BoundedSeq(Elem, MaxElems)
           /\ Above(InsertAt(es, k, e), rank, n)
<1> DEFINE r == InsertAt(es, k, e)
<1>1. MaxElems \in Nat
    BY CursorAssumption
<1>2. es \in Seq(Elem) /\ Len(es) \in Nat /\ DOMAIN es = 1 .. Len(es)
    BY <1>1, BoundedSeqIsSeq, LenProperties
<1>3. /\ r \in Seq(Elem)
      /\ Len(r) = Len(es) + 1
      /\ \A j \in 1 .. Len(es) + 1 : r[j] = IF j < k THEN es[j] ELSE IF j = k THEN e ELSE es[j - 1]
    BY <1>2, InsertAtProperties
<1> HIDE DEF r
<1>4. r \in BoundedSeq(Elem, MaxElems)
    BY <1>1, <1>2, <1>3, BoundedSeqIsSeq
<1>5. ASSUME NEW j \in DOMAIN r
      PROVE  r[j] = e \/ \E i \in DOMAIN es : r[j] = es[i]
    <2>1. j \in 1 .. Len(es) + 1
        BY <1>3, LenProperties
    <2>2. CASE j < k
        BY <1>2, <1>3, <2>1, <2>2
    <2>3. CASE j = k
        BY <1>3, <2>1, <2>3
    <2>4. CASE j > k
        <3>1. j - 1 \in DOMAIN es /\ ~(j < k) /\ j # k
            BY <1>2, <2>1, <2>4
        <3> QED BY <1>3, <2>1, <3>1
    <2> QED BY <1>2, <2>1, <2>2, <2>3, <2>4
<1>6. Above(r, rank, n)
    BY <1>5 DEF Above
<1> QED BY <1>4, <1>6 DEF r

LEMMA RemovedIsAbove ==
    ASSUME NEW rank, NEW n, NEW es \in BoundedSeq(Elem, MaxElems), Above(es, rank, n),
           NEW k \in 1 .. Len(es)
    PROVE  /\ RemoveAt(es, k) \in BoundedSeq(Elem, MaxElems)
           /\ Above(RemoveAt(es, k), rank, n)
<1> DEFINE r == RemoveAt(es, k)
<1>1. MaxElems \in Nat
    BY CursorAssumption
<1>2. es \in Seq(Elem) /\ Len(es) \in Nat /\ DOMAIN es = 1 .. Len(es) /\ Len(es) <= MaxElems
    BY <1>1, BoundedSeqIsSeq, LenProperties
<1>3. /\ r \in Seq(Elem)
      /\ Len(r) = Len(es) - 1
      /\ \A j \in 1 .. Len(es) - 1 : r[j] = IF j < k THEN es[j] ELSE es[j + 1]
    BY <1>2, RemoveAtProperties
<1> HIDE DEF r
<1>4. r \in BoundedSeq(Elem, MaxElems)
    BY <1>1, <1>2, <1>3, BoundedSeqIsSeq
<1>5. ASSUME NEW j \in DOMAIN r
      PROVE  \E i \in DOMAIN es : r[j] = es[i]
    <2>1. j \in 1 .. Len(es) - 1
        BY <1>3, LenProperties
    <2>2. j \in DOMAIN es /\ j + 1 \in DOMAIN es
        BY <1>2, <2>1
    <2> QED BY <1>3, <2>1, <2>2
<1>6. Above(r, rank, n)
    BY <1>5 DEF Above
<1> QED BY <1>4, <1>6 DEF r

(* Another name for an element. *)
LEMMA RenamedIsAbove ==
    ASSUME NEW rank, NEW n, NEW es \in BoundedSeq(Elem, MaxElems), Above(es, rank, n),
           NEW k \in 1 .. Len(es), es[k].name # TextName, NEW name \in ElemName
    PROVE  /\ [es EXCEPT ![k].name = name] \in BoundedSeq(Elem, MaxElems)
           /\ Above([es EXCEPT ![k].name = name], rank, n)
<1> DEFINE e == [es[k] EXCEPT !.name = name]
           r == [es EXCEPT ![k] = e]
<1>1. MaxElems \in Nat
    BY CursorAssumption
<1>2. es \in Seq(Elem) /\ Len(es) <= MaxElems /\ DOMAIN es = 1 .. Len(es)
    BY <1>1, BoundedSeqIsSeq, LenProperties
<1>3. es[k] \in Element
    BY <1>2, ElementOfSeq DEF Elem, Text
<1>4. e \in Elem /\ e.value = es[k].value
    BY <1>3 DEF Elem, Element
<1> HIDE DEF e
<1>5. /\ r \in Seq(Elem)
      /\ Len(r) = Len(es)
      /\ \A j \in 1 .. Len(es) : r[j] = IF j = k THEN e ELSE es[j]
    BY <1>2, <1>4, ExceptSeq
<1> HIDE DEF r
<1>6. r \in BoundedSeq(Elem, MaxElems) /\ DOMAIN r = DOMAIN es
    BY <1>1, <1>2, <1>5, BoundedSeqIsSeq, LenProperties
<1>7. Above(r, rank, n)
    BY <1>2, <1>4, <1>5, <1>6 DEF Above
<1> QED BY <1>6, <1>7 DEF r, e

-----------------------------------------------------------------------------
(* The steps *)

Holds(T, c) ==
    /\ T \in Tree
    /\ \E rank \in [Node -> Nat] : Ranks(T, rank) /\ OnPath(T, c, rank)

LEMMA IInvHolds == IInv <=> Holds(tree, cursor)
BY DEF IInv, TypeOK, Holds, Ranked, OnPath

LEMMA MoveKeeps ==
    ASSUME IInv, NEW d, moveTo(d),
           \A rank \in [Node -> Nat] :
               Ranks(tree, rank) /\ OnPath(tree, cursor, rank) => OnPath(tree, d, rank)
    PROVE  IInv'
<1>1. tree' = tree /\ cursor' = d
    BY DEF moveTo, tree
<1>2. Holds(tree, d)
    BY IInvHolds DEF Holds
<1>3. TypeOK' /\ \E rank \in [Node -> Nat] : Ranks(tree', rank) /\ OnPath(tree', cursor', rank)
    BY <1>1, <1>2 DEF Holds, TypeOK, OnPath
<1> QED BY <1>3 DEF IInv, Ranked, OnPath

LEMMA PlacedKeeps ==
    ASSUME IInv, NEW d, moveTo(d), d \in Placed(tree, cursor)
    PROVE  IInv'
BY PlacedStays, MoveKeeps

LEMMA MoveStep ==
    ASSUME IInv, Move
    PROVE  IInv'
<1> DEFINE Kept_(d) == \A rank \in [Node -> Nat] :
                           Ranks(tree, rank) /\ OnPath(tree, cursor, rank) => OnPath(tree, d, rank)
<1>1. tree \in Tree /\ cursor \in Cursor
    BY DEF IInv, TypeOK
<1>2. /\ Kept_(toNextToken(tree, cursor))
      /\ Kept_(toPrevToken(tree, cursor))
      /\ Kept_(toFirstContentToken(tree, cursor))
    BY <1>1, ToNextTokenStays, ToPrevTokenStays, ToFirstContentTokenStays
<1>3. Kept_(toParent(cursor)) /\ Kept_(toStartDoc(cursor))
    BY <1>1, ToParentStays, ToStartDocStays DEF OnPath
<1>4. CASE \/ moveTo(toNextToken(tree, cursor))
           \/ moveTo(toPrevToken(tree, cursor))
           \/ moveTo(toParent(cursor))
           \/ moveTo(toStartDoc(cursor))
           \/ moveTo(toFirstContentToken(tree, cursor))
    BY <1>2, <1>3, <1>4, MoveKeeps
<1>5. CASE \/ moveTo(toEndToken(tree, cursor))
           \/ moveTo(toLastChild(tree, cursor))
           \/ moveTo(toFirstAttribute(tree, cursor))
           \/ moveTo(toLastAttribute(tree, cursor))
           \/ moveTo(toNextAttribute(tree, cursor))
           \/ moveTo(toPrevAttribute(tree, cursor))
    BY <1>1, <1>5, OtherMovesArePlaced, PlacedKeeps
<1>6. ASSUME NEW index \in 1 .. MaxElems,
             \/ moveTo(toChild(tree, cursor, index))
             \/ moveTo(toNextSibling(tree, cursor, index))
             \/ moveTo(toPrevSibling(tree, cursor, index))
      PROVE  IInv'
    BY <1>1, <1>6, ChildMovesArePlaced, PlacedKeeps
<1>7. ASSUME NEW index \in 1 .. MaxElems, NEW name \in ElemName,
             \/ moveTo(toNamedChild(tree, cursor, name, index))
             \/ moveTo(toNextNamedSibling(tree, cursor, name, index))
      PROVE  IInv'
    BY <1>1, <1>7, ChildMovesArePlaced, PlacedKeeps
<1> HIDE DEF Kept_
<1> QED BY <1>4, <1>5, <1>6, <1>7 DEF Move

(* An edit of the Contents the cursor is in, or of one ranked above. *)
LEMMA EditKeepsRanked ==
    ASSUME IInv, NEW n \in Node,
           NEW ats \in BoundedSeq(AttrType, MaxAttrs), NEW es \in BoundedSeq(Elem, MaxElems),
           NEW rank \in [Node -> Nat], Ranks(tree, rank), OnPath(tree, cursor, rank),
           rank[cursor.contents] <= rank[n], Above(es, rank, n),
           attrs' = [attrs EXCEPT ![n] = ats], elems' = [elems EXCEPT ![n] = es], cursor' = cursor
    PROVE  IInv'
<1>2. tree \in Tree
    BY DEF IInv, TypeOK
<1>3. \A i \in 1 .. Len(cursor.stack) : cursor.stack[i].contents # n
    BY AroundIsBelow
<1> DEFINE U == Edited(tree, n, ats, es)
<1>4. tree' = U
    BY DEF tree, Edited
<1>5. U \in Tree /\ Ranks(U, rank) /\ OnPath(U, cursor, rank)
    BY <1>2, <1>3, EditStays
<1> HIDE DEF U
<1>6. TypeOK' /\ Ranks(tree', rank) /\ OnPath(tree', cursor', rank)
    BY <1>4, <1>5 DEF TypeOK, OnPath
<1> QED BY <1>6 DEF IInv, Ranked, OnPath

LEMMA EditKeeps ==
    ASSUME IInv, NEW n \in Node,
           NEW ats \in BoundedSeq(AttrType, MaxAttrs), NEW es \in BoundedSeq(Elem, MaxElems),
           \A rank \in [Node -> Nat] :
               Ranks(tree, rank) => rank[cursor.contents] <= rank[n] /\ Above(es, rank, n),
           attrs' = [attrs EXCEPT ![n] = ats], elems' = [elems EXCEPT ![n] = es], cursor' = cursor
    PROVE  IInv'
<1>1. PICK rank \in [Node -> Nat] : Ranks(tree, rank) /\ OnPath(tree, cursor, rank)
    BY IInvHolds DEF Holds
<1> QED BY <1>1, EditKeepsRanked

(* What the cursor stands at, in an invariant tree. *)
LEMMA HereType ==
    ASSUME IInv
    PROVE  /\ cursor.contents \in Node
           /\ cursor.pos \in Int
           /\ attrs \in [Node -> BoundedSeq(AttrType, MaxAttrs)]
           /\ elems \in [Node -> BoundedSeq(Elem, MaxElems)]
           /\ countAttrs(tree, cursor) = Len(attrs[cursor.contents])
           /\ countElems(tree, cursor) = Len(elems[cursor.contents])
           /\ Len(attrs[cursor.contents]) \in Nat
           /\ Len(elems[cursor.contents]) \in Nat
           /\ end(tree, cursor) = Len(attrs[cursor.contents]) + Len(elems[cursor.contents])
<1>1. tree \in Tree /\ cursor \in Cursor
    BY DEF IInv, TypeOK
<1>2. cursor.contents \in Node /\ cursor.pos \in Int
    BY <1>1 DEF Cursor
<1>3. tree.attrs = attrs /\ tree.elems = elems
    BY DEF tree
<1>4. MaxElems \in Nat /\ MaxAttrs \in Nat
    BY CursorAssumption
<1> QED BY <1>1, <1>2, <1>3, <1>4, TreeType DEF Tree, countAttrs, countElems, end

LEMMA ElementPlaceType ==
    ASSUME IInv
    PROVE  elementPlace \in 0 .. Len(elems[cursor.contents])
<1> DEFINE A == Len(attrs[cursor.contents])
           B == Len(elems[cursor.contents])
<1>1. cursor.pos \in Int /\ A \in Nat /\ B \in Nat
    BY HereType
<1>2. elementPlace = Max({0, Min({cursor.pos - A, B})})
    BY HereType DEF elementPlace
<1> HIDE DEF A, B
<1>3. Min({cursor.pos - A, B}) = IF cursor.pos - A <= B THEN cursor.pos - A ELSE B
    BY <1>1, MinOfTwo
<1>4. Min({cursor.pos - A, B}) \in Int /\ Min({cursor.pos - A, B}) <= B
    BY <1>1, <1>3
<1>5. elementPlace = IF 0 >= Min({cursor.pos - A, B}) THEN 0 ELSE Min({cursor.pos - A, B})
    BY <1>2, <1>4, MaxOfTwo
<1>6. elementPlace \in 0 .. B
    BY <1>1, <1>4, <1>5
<1> QED BY <1>6 DEF B

(* At an element, its place is its number among the elements. *)
LEMMA ElementPlaceHere ==
    ASSUME IInv, cursor.pos \in countAttrs(tree, cursor) .. end(tree, cursor) - 1
    PROVE  /\ elementPlace = cursor.pos - countAttrs(tree, cursor)
           /\ elementPlace + 1 \in 1 .. Len(elems[cursor.contents])
           /\ elemAt(tree, cursor, cursor.pos) = elems[cursor.contents][elementPlace + 1]
<1> DEFINE A == Len(attrs[cursor.contents])
           B == Len(elems[cursor.contents])
<1>1. cursor.pos \in Int /\ A \in Nat /\ B \in Nat /\ cursor.pos \in A .. A + B - 1
    BY HereType
<1>2. elementPlace = Max({0, Min({cursor.pos - A, B})})
    BY HereType DEF elementPlace
<1>3. countAttrs(tree, cursor) = A
    BY HereType
<1>4. elemAt(tree, cursor, cursor.pos) = elems[cursor.contents][cursor.pos - A + 1]
    BY <1>3 DEF elemAt, tree
<1> HIDE DEF A, B
<1>5. Min({cursor.pos - A, B}) = cursor.pos - A
    BY <1>1, MinOfTwo
<1>6. elementPlace = cursor.pos - A
    <2>1. cursor.pos - A \in Int /\ cursor.pos - A >= 0 /\ 0 \in Int
        BY <1>1
    <2>2. elementPlace = Max({0, cursor.pos - A})
        BY <1>2, <1>5
    <2>3. elementPlace = IF 0 >= cursor.pos - A THEN 0 ELSE cursor.pos - A
        BY <2>1, <2>2, MaxOfTwo
    <2> QED BY <2>1, <2>3
<1> QED BY <1>1, <1>3, <1>4, <1>6 DEF B

LEMMA InsertedKeeps ==
    ASSUME IInv, HasRoom, NEW e \in Elem,
           NEW rank \in [Node -> Nat], Ranks(tree, rank), OnPath(tree, cursor, rank),
           e.value \in Node => rank[cursor.contents] < rank[e.value],
           elems' = inserted(e), UNCHANGED <<attrs, cursor>>
    PROVE  IInv'
<1> DEFINE n == cursor.contents
           es == InsertAt(elems[n], elementPlace + 1, e)
<1>1. /\ n \in Node
      /\ attrs[n] \in BoundedSeq(AttrType, MaxAttrs)
      /\ elems[n] \in BoundedSeq(Elem, MaxElems)
      /\ Len(elems[n]) < MaxElems
      /\ Len(elems[n]) \in Nat
    BY HereType DEF HasRoom
<1>2. elementPlace + 1 \in 1 .. Len(elems[n]) + 1
    BY <1>1, ElementPlaceType
<1>3. Above(elems[n], rank, n)
    BY <1>1, ElementsAreAbove DEF tree
<1>4. es \in BoundedSeq(Elem, MaxElems) /\ Above(es, rank, n)
    BY <1>1, <1>2, <1>3, InsertedIsAbove
<1>5. rank[n] <= rank[n]
    BY <1>1
<1>6. attrs' = [attrs EXCEPT ![n] = attrs[n]] /\ elems' = [elems EXCEPT ![n] = es] /\ cursor' = cursor
    <2>1. attrs = [attrs EXCEPT ![n] = attrs[n]]
        BY HereType
    <2> QED BY <2>1 DEF inserted
<1> HIDE DEF es
<1> QED BY <1>1, <1>4, <1>5, <1>6, EditKeepsRanked

(* What the Contents around the cursor are not in can be ranked above the   *)
(* one it is in: with all that is inside it, which none of them is.         *)
LEMMA ElsewhereIsAbove ==
    ASSUME IInv, NEW v \in Elsewhere
    PROVE  \E rank \in [Node -> Nat] :
               /\ Ranks(tree, rank) /\ OnPath(tree, cursor, rank)
               /\ rank[cursor.contents] < rank[v]
<1> DEFINE c == cursor
<1>1. PICK rank \in [Node -> Nat] : Ranks(tree, rank) /\ OnPath(tree, c, rank)
    BY IInvHolds DEF Holds
<1>2. PICK inside \in SUBSET (Node \ Surrounding) :
          v \in inside /\ \A m \in inside : ValuesIn(m) \cap Node \subseteq inside
    BY DEF Elsewhere
<1>3. c \in Cursor /\ c.contents \in Node /\ rank[c.contents] \in Nat
    BY <1>1 DEF OnPath, Cursor
<1> DEFINE higher == [m \in Node |-> IF m \in inside THEN rank[m] + rank[c.contents] + 1 ELSE rank[m]]
<1>4. /\ higher \in [Node -> Nat]
      /\ \A m \in Node \ inside : higher[m] = rank[m]
      /\ \A m \in inside : higher[m] = rank[m] + rank[c.contents] + 1
      /\ \A m \in Node : rank[m] \in Nat /\ higher[m] \in Nat /\ higher[m] >= rank[m]
    BY <1>1, <1>2, <1>3
<1> HIDE DEF higher
<1>5. ASSUME NEW n \in Node, NEW i \in DOMAIN tree.elems[n], NEW m \in Node, tree.elems[n][i].value = m
      PROVE  higher[n] < higher[m]
    <2>1. rank[n] < rank[m]
        BY <1>1, <1>5 DEF Ranks
    <2>2. CASE n \in inside
        <3>1. m \in ValuesIn(n)
            BY <1>5 DEF ValuesIn, Range, tree
        <3>2. m \in inside
            BY <1>2, <2>1, <2>2, <3>1
        <3> QED BY <1>3, <1>4, <2>1, <2>2, <3>2
    <2>3. CASE n \notin inside
        BY <1>4, <2>1, <2>3
    <2> QED BY <2>2, <2>3
<1>6. ASSUME NEW k \in 1 .. Len(c.stack) + 1
      PROVE  higher[Stop(c, k).contents] = rank[Stop(c, k).contents]
    <2>1. Stop(c, k).contents \in Node
        BY <1>3, <1>6, StopType DEF Place
    <2>2. Stop(c, k).contents \in Surrounding
        <3>1. DOMAIN c.stack = 1 .. Len(c.stack)
            BY <1>3, LenProperties DEF Cursor
        <3> QED BY <3>1 DEF Stop, Surrounding
    <2> QED BY <1>2, <1>4, <2>1, <2>2
<1>7. OnPath(tree, c, higher)
    <2>1. ASSUME NEW i \in 1 .. Len(c.stack), NEW j \in i + 1 .. Len(c.stack) + 1
          PROVE  higher[Stop(c, i).contents] < higher[Stop(c, j).contents]
        <3>1. rank[Stop(c, i).contents] < rank[Stop(c, j).contents]
            BY <1>1 DEF OnPath, IsPath
        <3>2. Len(c.stack) \in Nat
            BY <1>3, LenProperties DEF Cursor
        <3>3. i \in 1 .. Len(c.stack) + 1 /\ j \in 1 .. Len(c.stack) + 1
            BY <3>2
        <3> QED BY <1>6, <3>1, <3>3
    <2> QED BY <1>1, <2>1 DEF OnPath, IsPath
<1>8. rank[c.contents] < higher[v]
    BY <1>2, <1>3, <1>4
<1>9. higher[c.contents] = rank[c.contents]
    BY <1>2, <1>3, <1>4 DEF Surrounding
<1> QED BY <1>4, <1>5, <1>7, <1>8, <1>9 DEF Ranks

LEMMA InsertElementStep ==
    ASSUME IInv, NEW name \in ElemName, insertElement(name)
    PROVE  IInv'
<1>1. PICK v \in Elsewhere \cup {NULL} : elems' = inserted([name |-> name, value |-> v])
    BY DEF insertElement
<1>2. v \in Node \cup {NULL}
    BY DEF Elsewhere
<1>3. [name |-> name, value |-> v] \in Elem
    BY <1>2 DEF Elem, Element
<1>4. CASE v = NULL
    <2>1. PICK rank \in [Node -> Nat] : Ranks(tree, rank) /\ OnPath(tree, cursor, rank)
        BY IInvHolds DEF Holds
    <2> QED BY <1>1, <1>3, <1>4, <2>1, NullIsNoNode, InsertedKeeps DEF insertElement
<1>5. CASE v \in Elsewhere
    <2>1. PICK rank \in [Node -> Nat] :
              /\ Ranks(tree, rank) /\ OnPath(tree, cursor, rank)
              /\ rank[cursor.contents] < rank[v]
        BY <1>5, ElsewhereIsAbove
    <2> QED BY <1>1, <1>3, <2>1, InsertedKeeps DEF insertElement
<1> QED BY <1>4, <1>5

LEMMA InsertCharsStep ==
    ASSUME IInv, insertChars
    PROVE  IInv'
<1>1. Text \in Elem /\ Text.value \notin Node
    BY NullIsNoNode DEF Elem, Text
<1>2. PICK rank \in [Node -> Nat] : Ranks(tree, rank) /\ OnPath(tree, cursor, rank)
    BY IInvHolds DEF Holds
<1> QED BY <1>1, <1>2, InsertedKeeps DEF insertChars

(* New contents can have any rank, as nothing refers to them and they have *)
(* no elements: here, one above the Contents they are put into.            *)
LEMMA NewStays ==
    ASSUME NEW T \in Tree, NEW rank \in [Node -> Nat], NEW c, Ranks(T, rank), OnPath(T, c, rank),
           NEW new \in Node, new # c.contents,
           \A i \in 1 .. Len(c.stack) : c.stack[i].contents # new,
           \A m \in Node : \A i \in DOMAIN T.elems[m] : T.elems[m][i].value # new,
           Len(T.elems[c.contents]) < MaxElems,
           NEW k \in 1 .. Len(T.elems[c.contents]) + 1, NEW name \in ElemName
    PROVE  Holds([attrs |-> [T.attrs EXCEPT ![new] = << >>],
                  elems |-> [[T.elems EXCEPT ![c.contents] =
                                 InsertAt(@, k, [name |-> name, value |-> new])] EXCEPT ![new] = << >>]], c)
<1> DEFINE n == c.contents
           U == Edited(T, new, << >>, << >>)
           higher == [rank EXCEPT ![new] = rank[n] + 1]
           e == [name |-> name, value |-> new]
           es == InsertAt(T.elems[n], k, e)
           V == Edited(U, n, U.attrs[n], es)
<1>1. c \in Cursor /\ n \in Node /\ rank[n] \in Nat
    BY DEF OnPath, Cursor
<1>2. /\ << >> \in BoundedSeq(Elem, MaxElems)
      /\ << >> \in BoundedSeq(AttrType, MaxAttrs)
      /\ Above(<< >>, rank, new)
    BY EmptyIsAbove
<1>3. U \in Tree /\ Ranks(U, rank) /\ OnPath(U, c, rank)
    BY <1>2, EditStays
<1>4. /\ T.attrs \in [Node -> BoundedSeq(AttrType, MaxAttrs)]
      /\ T.elems \in [Node -> BoundedSeq(Elem, MaxElems)]
    BY DEF Tree
<1>5. \A m \in Node : U.elems[m] = IF m = new THEN << >> ELSE T.elems[m]
    BY <1>4 DEF Edited
<1>6. /\ [T.attrs EXCEPT ![new] = << >>] = V.attrs
      /\ [[T.elems EXCEPT ![n] = es] EXCEPT ![new] = << >>] = V.elems
    <2>1. U.attrs = [T.attrs EXCEPT ![new] = << >>] /\ U.elems = [T.elems EXCEPT ![new] = << >>]
        BY DEF Edited
    <2>2. V.attrs = [U.attrs EXCEPT ![n] = U.attrs[n]] /\ V.elems = [U.elems EXCEPT ![n] = es]
        BY DEF Edited
    <2> HIDE DEF U, V, es
    <2>3. [T.attrs EXCEPT ![new] = << >>] = V.attrs
        BY <1>1, <1>4, <2>1, <2>2
    <2>4. [[T.elems EXCEPT ![n] = es] EXCEPT ![new] = << >>] = V.elems
        BY <1>1, <1>4, <2>1, <2>2
    <2> QED BY <2>3, <2>4
<1>7. U.attrs[n] \in BoundedSeq(AttrType, MaxAttrs)
    BY <1>1, <1>3 DEF Tree
<1> HIDE DEF U
<1>8. higher \in [Node -> Nat] /\ higher[n] = rank[n] /\ higher[new] = rank[n] + 1
      /\ \A m \in Node \ {new} : higher[m] = rank[m]
    BY <1>1
<1> HIDE DEF higher
<1>9. Ranks(U, higher)
    <2> SUFFICES ASSUME NEW m \in Node, NEW i \in DOMAIN U.elems[m], U.elems[m][i].value \in Node
                 PROVE  higher[m] < higher[U.elems[m][i].value]
        BY DEF Ranks
    <2>1. m # new
        BY <1>5
    <2>2. U.elems[m][i].value # new
        BY <1>5, <2>1
    <2>3. rank[m] < rank[U.elems[m][i].value]
        BY <1>3 DEF Ranks
    <2> QED BY <1>8, <2>1, <2>2, <2>3
<1>10. OnPath(U, c, higher)
    <2>1. ASSUME NEW j \in Nat
          PROVE  Stop(c, j).contents \in Node \ {new}
        BY <1>1, StopType DEF Stop, Place
    <2>2. Len(c.stack) \in Nat
        BY <1>1, LenProperties DEF Cursor
    <2>3. ASSUME NEW i \in 1 .. Len(c.stack), NEW j \in i + 1 .. Len(c.stack) + 1
          PROVE  higher[Stop(c, i).contents] < higher[Stop(c, j).contents]
        <3>1. i \in Nat /\ j \in Nat
            BY <2>2
        <3>2. Stop(c, i).contents \in Node \ {new} /\ Stop(c, j).contents \in Node \ {new}
            BY <2>1, <3>1
        <3>3. rank[Stop(c, i).contents] < rank[Stop(c, j).contents]
            BY <1>3 DEF OnPath, IsPath
        <3> QED BY <1>8, <3>2, <3>3
    <2> QED BY <1>3, <2>3 DEF OnPath, IsPath
<1>11. \A i \in 1 .. Len(c.stack) : c.stack[i].contents # n
    <2>1. rank[n] <= rank[n]
        BY <1>1
    <2> QED BY <1>1, <2>1, AroundIsBelow
<1>12. es \in BoundedSeq(Elem, MaxElems) /\ Above(es, higher, n)
    <2>1. e \in Elem /\ e.value = new
        BY DEF Elem, Element
    <2>2. Above(T.elems[n], higher, n)
        BY <1>1, <1>5, <1>9, ElementsAreAbove
    <2>3. higher[n] < higher[e.value]
        BY <1>1, <1>8, <2>1
    <2>4. T.elems[n] \in BoundedSeq(Elem, MaxElems)
        BY <1>1, <1>4
    <2> HIDE DEF e
    <2> QED BY <1>1, <1>8, <2>1, <2>2, <2>3, <2>4, InsertedIsAbove
<1> HIDE DEF es
<1>13. V \in Tree /\ Ranks(V, higher) /\ OnPath(V, c, higher)
    BY <1>1, <1>3, <1>7, <1>8, <1>9, <1>10, <1>11, <1>12, EditStays
<1>14. Holds(V, c)
    BY <1>8, <1>13 DEF Holds
<1>15. V = [attrs |-> V.attrs, elems |-> V.elems]
    BY DEF Edited
<1> HIDE DEF V
<1> QED BY <1>6, <1>14, <1>15 DEF es, e

LEMMA InsertNewStep ==
    ASSUME IInv, NEW name \in ElemName, NEW new \in Node, insertNew(name, new)
    PROVE  Holds([attrs |-> attrs', elems |-> elems'], cursor)
<1>1. PICK rank \in [Node -> Nat] : Ranks(tree, rank) /\ OnPath(tree, cursor, rank)
    BY IInvHolds DEF Holds
<1>2. tree \in Tree /\ tree.attrs = attrs /\ tree.elems = elems
    BY DEF IInv, TypeOK, tree
<1>3. new # cursor.contents /\ \A i \in DOMAIN cursor.stack : cursor.stack[i].contents # new
    BY DEF insertNew, Unused, Surrounding, ValuesIn
<1>4. DOMAIN cursor.stack = 1 .. Len(cursor.stack)
    BY LenProperties DEF IInv, TypeOK, Cursor
<1>5. ASSUME NEW m \in Node, NEW i \in DOMAIN elems[m]
      PROVE  elems[m][i].value # new
    <2>1. elems[m][i] \in Range(elems[m])
        BY DEF Range
    <2>2. elems[m][i] \in UNION {Range(elems[x]) : x \in Node}
        BY <2>1
    <2> QED BY <2>2 DEF insertNew, Unused, Surrounding, ValuesIn
<1>6. Len(elems[cursor.contents]) < MaxElems
    BY HereType DEF insertNew, HasRoom
<1>7. elementPlace + 1 \in 1 .. Len(elems[cursor.contents]) + 1
    BY HereType, ElementPlaceType
<1>8. /\ attrs' = [attrs EXCEPT ![new] = << >>]
      /\ elems' = [[elems EXCEPT ![cursor.contents] =
                       InsertAt(@, elementPlace + 1, [name |-> name, value |-> new])] EXCEPT ![new] = << >>]
    BY DEF insertNew, inserted
<1> DEFINE k == elementPlace + 1
<1>9. Holds([attrs |-> [tree.attrs EXCEPT ![new] = << >>],
             elems |-> [[tree.elems EXCEPT ![cursor.contents] =
                            InsertAt(@, k, [name |-> name, value |-> new])] EXCEPT ![new] = << >>]], cursor)
    <2> HIDE DEF k
    <2>1. k \in 1 .. Len(tree.elems[cursor.contents]) + 1
        BY <1>2, <1>7 DEF k
    <2> QED BY <1>1, <1>2, <1>3, <1>4, <1>5, <1>6, <2>1, NewStays
<1> QED BY <1>2, <1>8, <1>9

LEMMA InsertNewElementStep ==
    ASSUME IInv, NEW name \in ElemName, NEW new \in Node, insertNewElement(name, new)
    PROVE  IInv'
<1>1. Holds(tree', cursor')
    <2>1. Holds([attrs |-> attrs', elems |-> elems'], cursor) /\ cursor' = cursor
        BY InsertNewStep DEF insertNewElement
    <2> QED BY <2>1 DEF tree
<1> QED BY <1>1 DEF Holds, IInv, TypeOK, Ranked, OnPath

LEMMA BeginElementStep ==
    ASSUME IInv, NEW name \in ElemName, NEW new \in Node, beginElement(name, new)
    PROVE  IInv'
<1> DEFINE U == [attrs |-> attrs', elems |-> elems']
<1>1. Holds(U, cursor) /\ cursor' = toNextToken(U, cursor) /\ tree' = U
    BY InsertNewStep DEF beginElement, tree
<1> HIDE DEF U
<1>2. Holds(tree', cursor')
    BY <1>1, ToNextTokenStays DEF Holds
<1> QED BY <1>2 DEF Holds, IInv, TypeOK, Ranked, OnPath

(* An edit of the attributes alone. *)
LEMMA AttrsKeep ==
    ASSUME IInv, NEW ats \in BoundedSeq(AttrType, MaxAttrs),
           attrs' = [attrs EXCEPT ![cursor.contents] = ats], UNCHANGED <<elems, cursor>>
    PROVE  IInv'
<1> DEFINE n == cursor.contents
<1>1. n \in Node /\ elems[n] \in BoundedSeq(Elem, MaxElems) /\ elems = [elems EXCEPT ![n] = elems[n]]
    BY HereType
<1>2. \A rank \in [Node -> Nat] : Ranks(tree, rank) => rank[n] <= rank[n] /\ Above(elems[n], rank, n)
    BY <1>1, ElementsAreAbove DEF tree
<1> QED BY <1>1, <1>2, EditKeeps

LEMMA AttributeInserted ==
    ASSUME NEW ats \in BoundedSeq(AttrType, MaxAttrs), Len(ats) < MaxAttrs,
           NEW k \in 1 .. Len(ats) + 1, NEW kind \in AttrType
    PROVE  InsertAt(ats, k, kind) \in BoundedSeq(AttrType, MaxAttrs)
<1> DEFINE r == InsertAt(ats, k, kind)
<1>1. MaxAttrs \in Nat
    BY CursorAssumption
<1>2. ats \in Seq(AttrType) /\ Len(ats) \in Nat /\ DOMAIN ats = 1 .. Len(ats)
    BY <1>1, BoundedSeqIsSeq, LenProperties
<1>3. /\ r \in Seq(AttrType)
      /\ Len(r) = Len(ats) + 1
      /\ \A j \in 1 .. Len(ats) + 1 : r[j] = IF j < k THEN ats[j] ELSE IF j = k THEN kind ELSE ats[j - 1]
    BY <1>2, InsertAtProperties
<1> HIDE DEF r
<1>4. r \in BoundedSeq(AttrType, MaxAttrs)
    BY <1>1, <1>2, <1>3, BoundedSeqIsSeq
<1> QED BY <1>4 DEF r

LEMMA AttributeSteps ==
    ASSUME IInv, NEW type \in AttrType, insertAttribute(type) \/ setAttributeName(type)
    PROVE  IInv'
<1> DEFINE ats == attrs[cursor.contents]
           A == Len(ats)
<1>1. /\ MaxAttrs \in Nat
      /\ ats \in Seq(AttrType)
      /\ A <= MaxAttrs
      /\ A \in Nat
      /\ cursor.pos \in Int
      /\ countAttrs(tree, cursor) = A
    BY HereType, BoundedSeqIsSeq, CursorAssumption
<1>2. CASE insertAttribute(type)
    <2> DEFINE k == Min({cursor.pos, countAttrs(tree, cursor)}) + 1
    <2>1. k \in 1 .. A + 1
        <3>1. cursor.pos >= 0
            BY <1>2 DEF insertAttribute
        <3>2. k = (IF cursor.pos <= A THEN cursor.pos ELSE A) + 1
            BY <1>1, MinOfTwo
        <3> QED BY <1>1, <3>1, <3>2
    <2>2. A < MaxAttrs
        BY <1>1, <1>2 DEF insertAttribute
    <2>3. attrs' = [attrs EXCEPT ![cursor.contents] = InsertAt(ats, k, type)] /\ UNCHANGED <<elems, cursor>>
        BY <1>2 DEF insertAttribute
    <2> HIDE DEF k, ats
    <2>4. ats \in BoundedSeq(AttrType, MaxAttrs) /\ k \in 1 .. Len(ats) + 1 /\ Len(ats) < MaxAttrs
        BY <1>1, <2>1, <2>2, BoundedSeqIsSeq
    <2> QED BY <2>3, <2>4, AttributeInserted, AttrsKeep
<1>3. CASE setAttributeName(type)
    <2> DEFINE k == cursor.pos + 1
               changed == [ats EXCEPT ![k] = type]
    <2>1. k \in 1 .. A
        BY <1>1, <1>3 DEF setAttributeName
    <2>2. attrs' = [attrs EXCEPT ![cursor.contents] = changed] /\ UNCHANGED <<elems, cursor>>
        BY <1>3 DEF setAttributeName
    <2> HIDE DEF k, ats
    <2>3. changed \in Seq(AttrType) /\ Len(changed) = A
        BY <1>1, <2>1, ExceptSeq
    <2> HIDE DEF changed
    <2>4. changed \in BoundedSeq(AttrType, MaxAttrs)
        BY <1>1, <2>3, BoundedSeqIsSeq
    <2> QED BY <2>2, <2>4, AttrsKeep
<1> QED BY <1>2, <1>3

(* An edit of the elements of the Contents the cursor is in. *)
LEMMA ElemsKeep ==
    ASSUME IInv, NEW es \in BoundedSeq(Elem, MaxElems),
           \A rank \in [Node -> Nat] : Ranks(tree, rank) => Above(es, rank, cursor.contents),
           elems' = [elems EXCEPT ![cursor.contents] = es], UNCHANGED <<attrs, cursor>>
    PROVE  IInv'
<1> DEFINE n == cursor.contents
<1>1. n \in Node /\ attrs[n] \in BoundedSeq(AttrType, MaxAttrs) /\ attrs = [attrs EXCEPT ![n] = attrs[n]]
    BY HereType
<1>2. \A rank \in [Node -> Nat] : Ranks(tree, rank) => rank[n] <= rank[n] /\ Above(es, rank, n)
    BY <1>1
<1> QED BY <1>1, <1>2, EditKeeps

LEMMA RemoveXmlStep ==
    ASSUME IInv, removeXml
    PROVE  IInv'
<1> DEFINE n == cursor.contents
<1>1. /\ MaxAttrs \in Nat
      /\ MaxElems \in Nat
      /\ n \in Node
      /\ attrs[n] \in Seq(AttrType)
      /\ Len(attrs[n]) <= MaxAttrs
      /\ Len(attrs[n]) \in Nat
      /\ elems[n] \in BoundedSeq(Elem, MaxElems)
      /\ cursor.pos \in Int
      /\ countAttrs(tree, cursor) = Len(attrs[n])
    BY HereType, BoundedSeqIsSeq, CursorAssumption
<1>2. CASE cursor.pos < countAttrs(tree, cursor)
    <2> DEFINE ats == RemoveAt(attrs[n], cursor.pos + 1)
    <2>1. cursor.pos + 1 \in 1 .. Len(attrs[n])
        BY <1>1, <1>2 DEF removeXml
    <2>2. ats \in Seq(AttrType) /\ Len(ats) = Len(attrs[n]) - 1
        BY <1>1, <2>1, RemoveAtProperties
    <2>3. attrs' = [attrs EXCEPT ![n] = ats] /\ UNCHANGED <<elems, cursor>>
        BY <1>2 DEF removeXml
    <2> HIDE DEF ats
    <2>4. Len(ats) <= MaxAttrs
        BY <1>1, <2>2
    <2>5. ats \in BoundedSeq(AttrType, MaxAttrs)
        BY <1>1, <2>2, <2>4, BoundedSeqIsSeq
    <2> QED BY <2>3, <2>5, AttrsKeep
<1>3. CASE ~(cursor.pos < countAttrs(tree, cursor))
    <2> DEFINE es == RemoveAt(elems[n], elementPlace + 1)
    <2>1. cursor.pos \in countAttrs(tree, cursor) .. end(tree, cursor) - 1
        BY <1>1, <1>3, HereType DEF removeXml
    <2>2. elementPlace + 1 \in 1 .. Len(elems[n])
        BY <2>1, ElementPlaceHere
    <2>3. elems' = [elems EXCEPT ![n] = es] /\ UNCHANGED <<attrs, cursor>>
        BY <1>3 DEF removeXml
    <2>4. \A rank \in [Node -> Nat] : Ranks(tree, rank) => Above(elems[n], rank, n)
        BY <1>1, ElementsAreAbove DEF tree
    <2>5. \A rank \in [Node -> Nat] :
              Ranks(tree, rank) => es \in BoundedSeq(Elem, MaxElems) /\ Above(es, rank, n)
        BY <1>1, <2>2, <2>4, RemovedIsAbove
    <2>6. \E rank \in [Node -> Nat] : Ranks(tree, rank)
        BY IInvHolds DEF Holds
    <2> HIDE DEF es
    <2> QED BY <2>3, <2>5, <2>6, ElemsKeep
<1> QED BY <1>2, <1>3

LEMMA SetNameStep ==
    ASSUME IInv, NEW name \in ElemName, setName(name)
    PROVE  IInv'
<1> DEFINE n == cursor.contents
           k == elementPlace + 1
           es == [elems[n] EXCEPT ![k].name = name]
<1>1. tree \in Tree /\ n \in Node /\ cursor.pos \in Int /\ elems[n] \in BoundedSeq(Elem, MaxElems)
    BY HereType DEF IInv, TypeOK
<1>2. /\ cursor.pos \in countAttrs(tree, cursor) .. end(tree, cursor) - 1
      /\ elemAt(tree, cursor, cursor.pos).name # TextName
    BY <1>1, StartsAtElement DEF setName
<1>3. k \in 1 .. Len(elems[n]) /\ elems[n][k].name # TextName
    BY <1>2, ElementPlaceHere
<1>4. \A rank \in [Node -> Nat] : Ranks(tree, rank) => Above(elems[n], rank, n)
    BY <1>1, ElementsAreAbove DEF tree
<1>5. elems' = [elems EXCEPT ![n] = es] /\ UNCHANGED <<attrs, cursor>>
    BY DEF setName
<1> HIDE DEF k
<1>6. \A rank \in [Node -> Nat] :
          Ranks(tree, rank) => es \in BoundedSeq(Elem, MaxElems) /\ Above(es, rank, n)
    BY <1>1, <1>3, <1>4, RenamedIsAbove
<1>7. \E rank \in [Node -> Nat] : Ranks(tree, rank)
    BY IInvHolds DEF Holds
<1> HIDE DEF es
<1> QED BY <1>5, <1>6, <1>7, ElemsKeep

LEMMA SetTextValueStep ==
    ASSUME IInv, NEW texts \in Texts, setTextValue(texts)
    PROVE  IInv'
<1> DEFINE inside == elemAt(tree, cursor, cursor.pos).value
           kept == Kept(elems[inside], Element)
           left == kept \o texts
<1>1. tree \in Tree /\ cursor.contents \in Node /\ cursor.pos \in Int
    BY HereType DEF IInv, TypeOK
<1>2. Leads(tree, cursor, inside)
    BY <1>1, EntersLeads DEF setTextValue
<1>3. /\ inside \in Node
      /\ elementPlace + 1 \in 1 .. Len(elems[cursor.contents])
      /\ elems[cursor.contents][elementPlace + 1].value = inside
    BY <1>2, ElementPlaceHere DEF Leads
<1>4. \A rank \in [Node -> Nat] : Ranks(tree, rank) => rank[cursor.contents] < rank[inside]
    BY <1>1, <1>3, TreeType DEF Ranks, tree
<1>5. Len(left) <= MaxElems /\ elems' = [elems EXCEPT ![inside] = left] /\ UNCHANGED <<attrs, cursor>>
    BY DEF setTextValue
<1>6. /\ attrs[inside] \in BoundedSeq(AttrType, MaxAttrs)
      /\ attrs = [attrs EXCEPT ![inside] = attrs[inside]]
      /\ elems[inside] \in Seq(Elem)
      /\ DOMAIN elems[inside] = 1 .. Len(elems[inside])
    BY <1>1, <1>3, HereType, TreeType DEF tree
<1> HIDE DEF inside
<1> DEFINE S == {elems[inside][i] : i \in DOMAIN elems[inside]}
<1>7. kept \in Seq(Element \cap S)
    <2>1. elems[inside] \in Seq(S)
        <3>1. S = Range(elems[inside])
            BY DEF Range
        <3> QED BY <1>6, <3>1, SeqOfRange
    <2> HIDE DEF S
    <2> QED BY <2>1, KeptType
<1> DEFINE R == (Element \cap S) \cup {Text}
<1>8. texts \in Seq(R)
    <2>1. Text \in R
        OBVIOUS
    <2> HIDE DEF R, S
    <2>2. << >> \in Seq(R) /\ <<Text>> \in Seq(R)
        BY <2>1
    <2> QED BY <2>2 DEF Texts
<1>9. kept \in Seq(R)
    <2>1. Element \cap S \subseteq R
        OBVIOUS
    <2> HIDE DEF R, S, kept
    <2> QED BY <1>7, <2>1, SeqMonotonic
<1> HIDE DEF kept
<1>10. left \in Seq(R)
    <2> HIDE DEF R, S
    <2> QED BY <1>8, <1>9, ConcatProperties
<1>11. R \subseteq Elem
    BY DEF Elem
<1>12. \A i \in DOMAIN left : left[i] \in R
    <2> HIDE DEF R, S, left
    <2> QED BY <1>10, LenProperties, ElementOfSeq
<1> HIDE DEF left
<1>13. left \in BoundedSeq(Elem, MaxElems)
    <2> HIDE DEF R, S
    <2>1. left \in Seq(Elem)
        BY <1>10, <1>11, SeqMonotonic
    <2> QED BY <1>5, <2>1, BoundedSeqIsSeq, CursorAssumption
<1>14. ASSUME NEW rank \in [Node -> Nat], Ranks(tree, rank)
       PROVE  rank[cursor.contents] <= rank[inside] /\ Above(left, rank, inside)
    <2>1. Above(elems[inside], rank, inside)
        BY <1>3, <1>14, ElementsAreAbove DEF tree
    <2>2. Above(left, rank, inside)
        BY <1>12, <2>1, NullIsNoNode DEF Above, Text
    <2>3. rank[cursor.contents] \in Nat /\ rank[inside] \in Nat
        BY <1>1, <1>3
    <2> QED BY <1>4, <1>14, <2>2, <2>3
<1> QED BY <1>3, <1>5, <1>6, <1>13, <1>14, EditKeeps

-----------------------------------------------------------------------------
(* The theorems *)

LEMMA InitStep == Init => IInv
<1> SUFFICES ASSUME Init PROVE IInv
    OBVIOUS
<1>1. << >> \in BoundedSeq(AttrType, MaxAttrs) /\ << >> \in BoundedSeq(Elem, MaxElems)
    BY EmptyIsAbove
<1>2. tree \in Tree
    BY <1>1 DEF Init, tree, Tree
<1>3. cursor \in Cursor /\ Len(cursor.stack) = 0 /\ cursor.contents = Root
    BY CursorAssumption, EmptySeq DEF Init, Cursor
<1> DEFINE rank == [n \in Node |-> 0]
<1>4. rank \in [Node -> Nat]
    OBVIOUS
<1>5. Ranks(tree, rank)
    BY DEF Init, tree, Ranks
<1>6. IsPath(tree, cursor, rank)
    BY <1>3 DEF IsPath, Stop
<1> HIDE DEF rank
<1> QED BY <1>2, <1>3, <1>4, <1>5, <1>6 DEF IInv, TypeOK, Ranked

LEMMA NextStep == IInv /\ [Next]_vars => IInv'
<1> SUFFICES ASSUME IInv, [Next]_vars PROVE IInv'
    OBVIOUS
<1>1. CASE Move
    BY <1>1, MoveStep
<1>2. ASSUME NEW name \in ElemName, insertElement(name)
      PROVE  IInv'
    BY <1>2, InsertElementStep
<1>3. ASSUME NEW name \in ElemName, setName(name)
      PROVE  IInv'
    BY <1>3, SetNameStep
<1>4. ASSUME NEW name \in ElemName, NEW new \in Node, insertNewElement(name, new) \/ beginElement(name, new)
      PROVE  IInv'
    BY <1>4, InsertNewElementStep, BeginElementStep
<1>5. ASSUME NEW type \in AttrType, insertAttribute(type) \/ setAttributeName(type)
      PROVE  IInv'
    BY <1>5, AttributeSteps
<1>6. CASE insertChars
    BY <1>6, InsertCharsStep
<1>7. CASE removeXml
    BY <1>7, RemoveXmlStep
<1>8. ASSUME NEW texts \in Texts, setTextValue(texts)
      PROVE  IInv'
    BY <1>8, SetTextValueStep
<1>9. CASE UNCHANGED vars
    <2>1. tree' = tree /\ cursor' = cursor
        BY <1>9 DEF vars, tree
    <2>2. Holds(tree', cursor')
        BY <2>1, IInvHolds
    <2> QED BY <2>2 DEF Holds, IInv, TypeOK, Ranked, OnPath
<1> QED BY <1>1, <1>2, <1>3, <1>4, <1>5, <1>6, <1>7, <1>8, <1>9 DEF Next, Edit

(* The inductive invariant of the cursor and its tree: types, and Contents *)
(* that can be ranked so that ranks grow along the way to the cursor.      *)
THEOREM Invariance == Spec => []IInv
BY InitStep, NextStep, PTL DEF Spec

(* Whatever is inserted, removed or renamed at the cursor, the vectors of  *)
(* attributes and of elements hold entries of their kinds.                 *)
THEOREM TypeCorrectness == Spec => []TypeOK
<1>1. IInv => TypeOK
    BY DEF IInv
<1> QED BY <1>1, Invariance, PTL

(* The stack of XmlCursor is the way back to the root, whatever sequence   *)
(* of moves and edits went before, shared contents included.               *)
THEOREM StackIsTheWay == Spec => []StackIsPath
<1>1. IInv => StackIsPath
    <2> SUFFICES ASSUME IInv PROVE StackIsPath
        OBVIOUS
    <2> DEFINE here == [contents |-> cursor.contents, pos |-> cursor.pos]
               way == Append(cursor.stack, here)
    <2>1. PICK rank \in [Node -> Nat] : Ranked(tree, cursor, rank)
        BY DEF IInv
    <2>2. tree \in Tree /\ cursor.stack \in Seq(Place) /\ here \in Place
        BY DEF IInv, TypeOK, Cursor, Place
    <2>3. /\ Len(cursor.stack) \in Nat
          /\ DOMAIN cursor.stack = 1 .. Len(cursor.stack)
          /\ \A k \in 1 .. Len(cursor.stack) : way[k] = cursor.stack[k]
          /\ way[Len(cursor.stack) + 1] = here
        BY <2>2, LenProperties, AppendProperties
    <2>4. \A k \in 1 .. Len(cursor.stack) + 1 : way[k] = Stop(cursor, k)
        BY <2>3 DEF Stop
    <2> HIDE DEF way
    <2>5. way[1].contents = Root
        BY <2>1, <2>3, <2>4 DEF Ranked, IsPath
    <2>6. ASSUME NEW i \in 1 .. Len(cursor.stack)
          PROVE  LET at == [contents |-> way[i].contents, pos |-> way[i].pos, stack |-> << >>]
                 IN  enters(tree, at) /\ elemAt(tree, at, at.pos).value = way[i + 1].contents
        <3> DEFINE at == [contents |-> way[i].contents, pos |-> way[i].pos, stack |-> << >>]
        <3>1. i \in 1 .. Len(cursor.stack) + 1 /\ i + 1 \in 1 .. Len(cursor.stack) + 1
            BY <2>3
        <3>2. Leads(tree, way[i], way[i + 1].contents)
            BY <2>1, <2>4, <3>1 DEF Ranked, IsPath
        <3>3. way[i] \in Place
            BY <2>2, <2>3, ElementOfSeq
        <3>4. at.contents = way[i].contents /\ at.pos = way[i].pos /\ at.contents \in Node /\ at.pos \in Int
            BY <3>3 DEF Place
        <3> HIDE DEF at
        <3>5. Leads(tree, at, way[i + 1].contents)
            BY <3>2, <3>4 DEF Leads, countAttrs, countElems, end, elemAt
        <3>6. elemAt(tree, at, at.pos).value = way[i + 1].contents
            BY <3>5 DEF Leads
        <3>7. enters(tree, at)
            BY <2>2, <3>4, <3>5, <3>6, EntersLeads
        <3> QED BY <3>6, <3>7 DEF at
    <2> QED BY <2>3, <2>5, <2>6 DEF StackIsPath, way
<1> QED BY <1>1, Invariance, PTL

-----------------------------------------------------------------------------
(* Siblings *)

LEMMA OneMember ==
    ASSUME NEW S, NEW x \in S
    PROVE  (IsFiniteSet(S) /\ Cardinality(S) = 1) <=> S = {x}
BY FS_Singleton

(* The first of the positions S counted forward is the least, the first    *)
(* counted backward the greatest.                                          *)
LEMMA FirstForward ==
    ASSUME NEW c, NEW S \in SUBSET Int, IsFiniteSet(S), Forward(c, S, 1) # c
    PROVE  \E p \in S : Forward(c, S, 1) = At(c, p) /\ \A q \in S : p <= q
<1> DEFINE upTo(p) == {q \in S : q <= p}
           at == {p \in S : Cardinality(upTo(p)) = 1}
           p == CHOOSE x \in at : TRUE
<1>1. at # {} /\ Forward(c, S, 1) = At(c, p)
    BY DEF Forward
<1>2. p \in at
    BY <1>1
<1> HIDE DEF p
<1>3. p \in S /\ p \in upTo(p) /\ IsFiniteSet(upTo(p)) /\ Cardinality(upTo(p)) = 1
    <2>1. p \in S /\ Cardinality(upTo(p)) = 1
        BY <1>2
    <2>2. upTo(p) \subseteq S
        OBVIOUS
    <2> QED BY <2>1, <2>2, FS_Subset
<1>4. upTo(p) = {p}
    <2> HIDE DEF upTo
    <2> QED BY <1>3, OneMember
<1>5. ASSUME NEW q \in S
      PROVE  p <= q
    <2>1. q <= p => q = p
        BY <1>4
    <2> QED BY <1>3, <2>1
<1> QED BY <1>1, <1>3, <1>5

LEMMA FirstBackward ==
    ASSUME NEW c, NEW S \in SUBSET Int, IsFiniteSet(S), NEW p \in S, \A q \in S : q <= p
    PROVE  Backward(c, S, 1) = At(c, p)
<1> DEFINE from(x) == {q \in S : q >= x}
           at == {x \in S : Cardinality(from(x)) = 1}
<1>1. from(p) = {p}
    <2>1. p \in Int /\ p >= p
        OBVIOUS
    <2>2. \A q \in S : q >= p => q = p
        BY <2>1
    <2> QED BY <2>1, <2>2
<1>2. p \in at
    BY <1>1, FS_Singleton
<1>3. ASSUME NEW x \in at
      PROVE  x = p
    <2>1. x \in S /\ x \in from(x) /\ p \in from(x) /\ Cardinality(from(x)) = 1
        OBVIOUS
    <2>2. IsFiniteSet(from(x))
        <3>1. from(x) \subseteq S
            OBVIOUS
        <3> QED BY <3>1, FS_Subset
    <2>3. from(x) = {x}
        <3> HIDE DEF from
        <3> QED BY <2>1, <2>2, OneMember
    <2> QED BY <2>1, <2>3
<1>4. at = {p}
    BY <1>2, <1>3
<1>5. Backward(c, S, 1) = IF at = {} THEN c ELSE At(c, CHOOSE x \in at : TRUE)
    BY DEF Backward
<1> HIDE DEF at
<1> QED BY <1>4, <1>5

(* toPrevSibling takes back what toNextSibling did, from an element to an  *)
(* element behind position 1.                                              *)
THEOREM SiblingsReverse == Spec => []SiblingMovesReverse
<1>1. IInv => SiblingMovesReverse
    <2> DEFINE next == toNextSibling(tree, cursor, 1)
               S == Elements(tree, cursor)
               A == countAttrs(tree, cursor)
               E == end(tree, cursor)
    <2> SUFFICES ASSUME IInv, currentTokenType(tree, cursor) = "INT_START", next # cursor, next.pos > 1
                 PROVE  toPrevSibling(tree, next, 1) = cursor
        BY DEF SiblingMovesReverse
    <2>1. tree \in Tree /\ cursor \in Cursor /\ cursor.contents \in Node /\ cursor.pos \in Int
        BY DEF IInv, TypeOK, Cursor
    <2>2. A \in Nat /\ E \in Nat /\ S \subseteq A .. E - 1
        BY <2>1, PlaceType DEF Elements
    <2>3. S \in SUBSET Int /\ IsFiniteSet(S)
        <3>1. IsFiniteSet(A .. E - 1)
            BY <2>2, FS_Interval
        <3>2. A .. E - 1 \subseteq Int
            BY <2>2
        <3> HIDE DEF S, A, E
        <3> QED BY <2>2, <3>1, <3>2, FS_Subset
    <2>4. cursor.pos \in S
        BY <2>1, StartsAtElement DEF Elements
    <2> DEFINE later == {p \in S : p > cursor.pos}
    <2>5. next = Forward(cursor, later, 1)
        BY DEF toNextSibling
    <2>6. later \in SUBSET Int /\ IsFiniteSet(later)
        <3>1. later \subseteq S
            OBVIOUS
        <3> QED BY <2>3, <3>1, FS_Subset
    <2> HIDE DEF S, next, later
    <2>7. PICK p \in later : next = At(cursor, p) /\ \A q \in later : p <= q
        BY <2>5, <2>6, FirstForward
    <2>8. p \in S /\ p > cursor.pos
        BY <2>7 DEF later
    <2>9. next.pos = p /\ next.contents = cursor.contents /\ next.stack = cursor.stack
        BY <2>1, <2>7 DEF At, Cursor
    <2>10. Elements(tree, next) = S
        BY <2>9 DEF S, Elements, countAttrs, countElems, end, elemAt
    <2> DEFINE earlier == {q \in S : q < p}
    <2>11. toPrevSibling(tree, next, 1) = Backward(next, earlier, 1)
        <3>1. p \in Int /\ p > 1
            BY <2>3, <2>8, <2>9
        <3>2. ~(next.pos <= 1)
            BY <2>9, <3>1
        <3> QED BY <2>9, <2>10, <3>2 DEF toPrevSibling
    <2>12. earlier \in SUBSET Int /\ IsFiniteSet(earlier) /\ cursor.pos \in earlier
        <3>1. earlier \subseteq S
            OBVIOUS
        <3>2. cursor.pos \in earlier
            BY <2>1, <2>3, <2>4, <2>8
        <3> QED BY <2>3, <3>1, <3>2, FS_Subset
    <2>13. ASSUME NEW q \in earlier
           PROVE  q <= cursor.pos
        <3>1. q \in S /\ q \in Int /\ p \in Int /\ q < p
            BY <2>3, <2>8
        <3>2. q > cursor.pos => q \in later
            BY <3>1 DEF later
        <3> QED BY <2>1, <2>7, <3>1, <3>2
    <2> HIDE DEF earlier
    <2>14. toPrevSibling(tree, next, 1) = At(next, cursor.pos)
        BY <2>11, <2>12, <2>13, FirstBackward
    <2>15. At(next, cursor.pos) = cursor
        BY <2>1, <2>7 DEF At, Cursor
    <2> QED BY <2>14, <2>15
<1> QED BY <1>1, Invariance, PTL

-----------------------------------------------------------------------------
(* The tokens of a document *)

LEMMA BoundOfFinite ==
    ASSUME NEW S, IsFiniteSet(S), NEW rank, \A n \in S : rank[n] \in Nat
    PROVE  \E M \in Nat : \A n \in S : rank[n] <= M
<1>1. PICK s \in Seq(S) : \A n \in S : \E i \in 1 .. Len(s) : s[i] = n
    BY DEF IsFiniteSet
<1>2. Len(s) \in Nat /\ \A i \in 1 .. Len(s) : s[i] \in S
    BY LenProperties, ElementOfSeq
<1> DEFINE Bounded == {k \in Nat : k <= Len(s) => \E M \in Nat : \A i \in 1 .. k : rank[s[i]] <= M}
<1>3. 0 \in Bounded
    <2>1. 0 \in Nat /\ \A i \in 1 .. 0 : rank[s[i]] <= 0
        OBVIOUS
    <2> QED BY <2>1
<1>4. ASSUME NEW k \in Nat, k \in Bounded
      PROVE  k + 1 \in Bounded
    <2>1. SUFFICES ASSUME k + 1 <= Len(s)
                   PROVE  \E M \in Nat : \A i \in 1 .. k + 1 : rank[s[i]] <= M
        OBVIOUS
    <2>2. PICK M \in Nat : \A i \in 1 .. k : rank[s[i]] <= M
        BY <1>2, <1>4, <2>1
    <2> DEFINE r == rank[s[k + 1]]
               N == IF r <= M THEN M ELSE r
    <2>3. k + 1 \in 1 .. Len(s) /\ r \in Nat
        BY <1>2, <2>1
    <2>4. N \in Nat /\ M <= N /\ r <= N
        BY <2>3
    <2> HIDE DEF N
    <2>5. \A i \in 1 .. k : rank[s[i]] \in Nat
        BY <1>2, <2>1
    <2>6. \A i \in 1 .. k + 1 : rank[s[i]] <= N
        <3> TAKE i \in 1 .. k + 1
        <3>1. CASE i \in 1 .. k
            BY <2>2, <2>4, <2>5, <3>1
        <3>2. CASE i = k + 1
            BY <2>4, <3>2
        <3> QED BY <3>1, <3>2
    <2> QED BY <2>4, <2>6
<1>5. Nat \subseteq Bounded
    <2> HIDE DEF Bounded
    <2> QED BY <1>3, <1>4, SetInduction
<1>6. PICK M \in Nat : \A i \in 1 .. Len(s) : rank[s[i]] <= M
    <2>1. Len(s) \in Bounded
        BY <1>2, <1>5
    <2> QED BY <1>2, <2>1
<1>7. \A n \in S : rank[n] <= M
    BY <1>1, <1>6
<1> QED BY <1>7

Filled(T) == {n \in Node : T.elems[n] # << >>}

(* What the recursion of tokens says of one Contents. *)
TokensAt(T, count, n) == Len(T.attrs[n]) + elementTokens(T, count, n)[Len(T.elems[n])]

LEMMA ElementTokensType ==
    ASSUME NEW T \in Tree, NEW n \in Node, NEW count \in [Node -> Nat]
    PROVE  /\ \A i \in 1 .. Len(T.elems[n]) : TokensOf(T.elems[n][i], count) \in Nat \ {0}
           /\ \A k \in 0 .. Len(T.elems[n]) : elementTokens(T, count, n)[k] \in Nat
           /\ TokensAt(T, count, n) \in Nat
<1> DEFINE s == [i \in 1 .. Len(T.elems[n]) |-> TokensOf(T.elems[n][i], count)]
<1>1. Len(T.elems[n]) \in Nat /\ Len(T.attrs[n]) \in Nat
    BY TreeType, CursorAssumption
<1>2. \A i \in 1 .. Len(T.elems[n]) : TokensOf(T.elems[n][i], count) \in Nat \ {0}
    BY DEF TokensOf
<1>3. Len(s) = Len(T.elems[n]) /\ \A i \in 1 .. Len(s) : s[i] \in Nat
    BY <1>1, <1>2
<1>4. elementTokens(T, count, n) = SumUpTo(s)
    BY DEF elementTokens
<1> HIDE DEF s
<1>5. \A k \in 0 .. Len(T.elems[n]) : elementTokens(T, count, n)[k] \in Nat
    BY <1>1, <1>3, <1>4, SumType
<1>6. TokensAt(T, count, n) \in Nat
    <2>1. elementTokens(T, count, n)[Len(T.elems[n])] \in Nat
        BY <1>1, <1>5
    <2> QED BY <1>1, <2>1 DEF TokensAt
<1> QED BY <1>2, <1>5, <1>6

(* It reads the tokens of the Contents of the elements alone. *)
LEMMA TokensAtReads ==
    ASSUME NEW T, NEW n, NEW f, NEW g,
           \A i \in 1 .. Len(T.elems[n]) :
               T.elems[n][i].value \in Node => f[T.elems[n][i].value] = g[T.elems[n][i].value]
    PROVE  TokensAt(T, f, n) = TokensAt(T, g, n)
<1>1. \A i \in 1 .. Len(T.elems[n]) : TokensOf(T.elems[n][i], f) = TokensOf(T.elems[n][i], g)
    BY DEF TokensOf
<1>2. [i \in 1 .. Len(T.elems[n]) |-> TokensOf(T.elems[n][i], f)]
          = [i \in 1 .. Len(T.elems[n]) |-> TokensOf(T.elems[n][i], g)]
    BY <1>1
<1>3. elementTokens(T, f, n) = elementTokens(T, g, n)
    BY <1>2 DEF elementTokens
<1> QED BY <1>3 DEF TokensAt

(* The recursion of tokens has a solution: ranks grow towards the elements of *)
(* a Contents, and those of the Contents with elements have a bound.          *)
LEMMA TokensDefined ==
    ASSUME NEW T \in Tree, NEW rank \in [Node -> Nat], Ranks(T, rank), IsFiniteSet(Filled(T))
    PROVE  /\ tokens(T) \in [Node -> Nat]
           /\ \A n \in Node : tokens(T)[n] = TokensAt(T, tokens(T), n)
<1>1. PICK M \in Nat : \A n \in Filled(T) : rank[n] <= M
    BY BoundOfFinite DEF Filled
<1> DEFINE height == [n \in Node |-> IF n \in Filled(T) THEN M + 1 - rank[n] ELSE 0]
<1>2. \A n \in Node : height[n] \in 0 .. M + 1
    BY <1>1
<1>3. ASSUME NEW n \in Node, NEW i \in 1 .. Len(T.elems[n]), T.elems[n][i].value \in Node
      PROVE  height[T.elems[n][i].value] < height[n]
    <2> DEFINE v == T.elems[n][i].value
    <2>1. i \in DOMAIN T.elems[n] /\ T.elems[n] \in Seq(Elem)
        BY TreeType
    <2>2. rank[n] < rank[v]
        BY <1>3, <2>1 DEF Ranks
    <2>3. n \in Filled(T)
        <3>1. Len(<< >>) = 0
            OBVIOUS
        <3> QED BY <3>1 DEF Filled
    <2>4. rank[n] \in Nat /\ rank[v] \in Nat /\ rank[n] <= M
        BY <1>1, <1>3, <2>3
    <2> HIDE DEF v
    <2>5. height[v] < height[n]
        BY <1>1, <1>3, <2>2, <2>3, <2>4 DEF v
    <2> QED BY <2>5 DEF v
<1> HIDE DEF height
<1> DEFINE Reached == {k \in Nat : \E f \in [Node -> Nat] :
                           \A n \in Node : height[n] < k => f[n] = TokensAt(T, f, n)}
<1>4. 0 \in Reached
    <2>1. [n \in Node |-> 0] \in [Node -> Nat] /\ \A n \in Node : ~(height[n] < 0)
        BY <1>2
    <2> QED BY <2>1
<1>5. ASSUME NEW k \in Nat, k \in Reached
      PROVE  k + 1 \in Reached
    <2>1. PICK f \in [Node -> Nat] : \A n \in Node : height[n] < k => f[n] = TokensAt(T, f, n)
        BY <1>5
    <2> DEFINE g == [n \in Node |-> IF height[n] < k THEN f[n] ELSE TokensAt(T, f, n)]
    <2>2. g \in [Node -> Nat]
        BY ElementTokensType
    <2>3. ASSUME NEW n \in Node, height[n] < k + 1
          PROVE  g[n] = TokensAt(T, g, n)
        <3>1. ASSUME NEW i \in 1 .. Len(T.elems[n]), T.elems[n][i].value \in Node
              PROVE  f[T.elems[n][i].value] = g[T.elems[n][i].value]
            <4> DEFINE v == T.elems[n][i].value
            <4>1. height[v] < height[n] /\ height[v] \in Nat /\ height[n] \in Nat
                BY <1>2, <1>3, <3>1
            <4>2. height[v] < k
                BY <2>3, <4>1
            <4> QED BY <3>1, <4>2
        <3> HIDE DEF g
        <3>2. TokensAt(T, f, n) = TokensAt(T, g, n)
            BY <3>1, TokensAtReads
        <3>3. g[n] = TokensAt(T, f, n)
            BY <2>1 DEF g
        <3> QED BY <3>2, <3>3
    <2> HIDE DEF g
    <2> QED BY <2>2, <2>3
<1>6. Nat \subseteq Reached
    <2> HIDE DEF Reached
    <2> QED BY <1>4, <1>5, SetInduction
<1>7. PICK f \in [Node -> Nat] : \A n \in Node : height[n] < M + 2 => f[n] = TokensAt(T, f, n)
    BY <1>6
<1>8. \A n \in Node : f[n] = TokensAt(T, f, n)
    BY <1>1, <1>2, <1>7
<1>9. f = [n \in Node |-> TokensAt(T, f, n)]
    BY <1>8
<1>10. tokens(T) = CHOOSE g : g = [n \in Node |-> TokensAt(T, g, n)]
    BY DEF tokens, TokensAt
<1>11. tokens(T) = [n \in Node |-> TokensAt(T, tokens(T), n)]
    BY <1>9, <1>10
<1> DEFINE t == tokens(T)
           Same == {k \in Nat : \A n \in Node : height[n] < k => t[n] = f[n]}
<1>12. \A n \in Node : t[n] = TokensAt(T, t, n)
    BY <1>11
<1> HIDE DEF t
<1>13. 0 \in Same
    BY <1>2
<1>14. ASSUME NEW k \in Nat, k \in Same
       PROVE  k + 1 \in Same
    <2>1. ASSUME NEW n \in Node, height[n] < k + 1
          PROVE  t[n] = f[n]
        <3>1. ASSUME NEW i \in 1 .. Len(T.elems[n]), T.elems[n][i].value \in Node
              PROVE  t[T.elems[n][i].value] = f[T.elems[n][i].value]
            <4> DEFINE v == T.elems[n][i].value
            <4>1. height[v] < height[n] /\ height[v] \in Nat /\ height[n] \in Nat
                BY <1>2, <1>3, <3>1
            <4>2. height[v] < k
                BY <2>1, <4>1
            <4> QED BY <1>14, <3>1, <4>2
        <3>2. TokensAt(T, t, n) = TokensAt(T, f, n)
            BY <3>1, TokensAtReads
        <3> QED BY <1>8, <1>12, <3>2
    <2> QED BY <2>1
<1>15. Nat \subseteq Same
    <2> HIDE DEF Same
    <2> QED BY <1>13, <1>14, SetInduction
<1>16. \A n \in Node : t[n] = f[n]
    <2>1. M + 2 \in Same
        BY <1>1, <1>15
    <2> QED BY <1>1, <1>2, <2>1
<1>17. t \in [Node -> Nat]
    <2>1. t = [n \in Node |-> TokensAt(T, t, n)]
        BY <1>11 DEF t
    <2> HIDE DEF t
    <2>2. t = [n \in Node |-> t[n]]
        BY <1>12, <2>1
    <2> QED BY <1>16, <2>2
<1> QED BY <1>12, <1>17 DEF t

(* The number of tokens of each Contents. *)
Counts(T, count) ==
    /\ count \in [Node -> Nat]
    /\ \A n \in Node : count[n] = TokensAt(T, count, n)

(* The sums that elementTokens consists of. *)
LEMMA ElementTokensSteps ==
    ASSUME NEW T \in Tree, NEW n \in Node, NEW count \in [Node -> Nat]
    PROVE  /\ elementTokens(T, count, n)[0] = 0
           /\ \A i \in 1 .. Len(T.elems[n]) :
                  elementTokens(T, count, n)[i] =
                      elementTokens(T, count, n)[i - 1] + TokensOf(T.elems[n][i], count)
           /\ \A k \in 0 .. Len(T.elems[n]) :
                  elementTokens(T, count, n)[k] <= elementTokens(T, count, n)[Len(T.elems[n])]
<1> DEFINE s == [i \in 1 .. Len(T.elems[n]) |-> TokensOf(T.elems[n][i], count)]
<1>1. Len(T.elems[n]) \in Nat
    BY TreeType, CursorAssumption
<1>2. /\ Len(s) = Len(T.elems[n])
      /\ \A i \in 1 .. Len(T.elems[n]) : s[i] = TokensOf(T.elems[n][i], count)
      /\ \A i \in 1 .. Len(T.elems[n]) : s[i] \in Nat
    BY <1>1, ElementTokensType
<1>3. elementTokens(T, count, n) = SumUpTo(s)
    BY DEF elementTokens
<1> HIDE DEF s
<1>4. SumUpTo(s)[0] = 0 /\ \A i \in 1 .. Len(s) : SumUpTo(s)[i] = SumUpTo(s)[i - 1] + s[i]
    BY <1>1, <1>2, SumSteps
<1>5. \A k \in 0 .. Len(s) : SumUpTo(s)[k] <= SumUpTo(s)[Len(s)]
    BY <1>1, <1>2, SumGrows
<1> QED BY <1>2, <1>3, <1>4, <1>5

(* The tokens in front of a position, for the position behind it: one more *)
(* for each token that the position holds.                                 *)
LEMMA BeforeSteps ==
    ASSUME NEW T \in Tree, NEW count, Counts(T, count), NEW c, c.contents \in Node
    PROVE  /\ Before(T, count, c.contents, 0) = 0
           /\ \A pos \in 0 .. countAttrs(T, c) - 1 :
                  Before(T, count, c.contents, pos + 1) = Before(T, count, c.contents, pos) + 1
           /\ \A pos \in countAttrs(T, c) .. end(T, c) - 1 :
                  Before(T, count, c.contents, pos + 1) =
                      Before(T, count, c.contents, pos) + TokensOf(elemAt(T, c, pos), count)
           /\ \A pos \in Int : pos >= end(T, c) =>
                  Before(T, count, c.contents, pos) = count[c.contents] + (pos - end(T, c))
<1> DEFINE n == c.contents
           A == Len(T.attrs[n])
           B == Len(T.elems[n])
           sum == elementTokens(T, count, n)
           before(pos) == Before(T, count, n, pos)
<1>1. A \in Nat /\ B \in Nat /\ countAttrs(T, c) = A /\ end(T, c) = A + B
    BY TreeType, CursorAssumption DEF countAttrs, countElems, end
<1>2. count \in [Node -> Nat] /\ count[n] = A + sum[B]
    BY DEF Counts, TokensAt
<1>3. \A k \in 0 .. B : sum[k] \in Nat
    BY <1>2, ElementTokensType
<1>4. sum[0] = 0 /\ \A i \in 1 .. B : sum[i] = sum[i - 1] + TokensOf(T.elems[n][i], count)
    BY <1>2, ElementTokensSteps
<1>5. \A pos \in Int : before(pos) = IF pos <= A THEN pos
                                     ELSE IF pos <= A + B THEN A + sum[pos - A]
                                     ELSE count[n] + (pos - A - B)
    BY DEF Before
<1> HIDE DEF A, B, sum, before
<1>6. before(0) = 0 /\ \A pos \in 0 .. A - 1 : before(pos + 1) = before(pos) + 1
    BY <1>1, <1>5
<1>7. \A pos \in A .. A + B : before(pos) = A + sum[pos - A]
    <2> TAKE pos \in A .. A + B
    <2>1. CASE pos = A
        BY <1>1, <1>4, <1>5, <2>1
    <2>2. CASE pos > A
        BY <1>1, <1>5, <2>2
    <2> QED BY <1>1, <2>1, <2>2
<1>8. ASSUME NEW pos \in A .. A + B - 1
      PROVE  before(pos + 1) = before(pos) + TokensOf(elemAt(T, c, pos), count)
    <2> DEFINE i == pos - A + 1
    <2>1. i \in 1 .. B /\ pos \in A .. A + B /\ pos + 1 \in A .. A + B /\ i - 1 = pos - A /\ pos + 1 - A = i
        BY <1>1
    <2>2. elemAt(T, c, pos) = T.elems[n][i]
        BY <1>1 DEF elemAt
    <2> HIDE DEF i
    <2>3. before(pos) = A + sum[i - 1] /\ before(pos + 1) = A + sum[i]
        <3> DEFINE q == pos + 1
        <3>1. q \in A .. A + B /\ q - A = i
            BY <1>1, <2>1
        <3> HIDE DEF q
        <3>2. before(pos) = A + sum[pos - A]
            BY <1>7, <2>1
        <3>3. before(q) = A + sum[q - A]
            BY <1>7, <3>1
        <3> QED BY <2>1, <3>1, <3>2, <3>3 DEF q
    <2>4. sum[i] = sum[i - 1] + TokensOf(T.elems[n][i], count)
        BY <1>4, <2>1
    <2>5. i - 1 \in 0 .. B /\ i \in 0 .. B
        BY <1>1, <2>1
    <2>6. sum[i - 1] \in Nat /\ sum[i] \in Nat
        BY <1>3, <2>5
    <2>7. TokensOf(T.elems[n][i], count) \in Nat
        BY <1>2, <2>1, ElementTokensType DEF B
    <2> QED BY <1>1, <2>2, <2>3, <2>4, <2>6, <2>7
<1>9. ASSUME NEW pos \in Int, pos >= A + B
      PROVE  before(pos) = count[n] + (pos - (A + B))
    <2>1. count[n] \in Nat
        BY <1>2
    <2>2. CASE pos = A + B
        <3>1. pos \in A .. A + B /\ pos - A = B
            BY <1>1, <2>2
        <3> QED BY <1>1, <1>2, <1>7, <2>1, <2>2, <3>1
    <2>3. CASE pos > A + B
        BY <1>1, <1>5, <2>1, <2>3
    <2> QED BY <1>1, <1>9, <2>2, <2>3
<1> QED BY <1>1, <1>6, <1>8, <1>9 DEF before

(* Up to the end of a Contents there are not more than it has. *)
LEMMA BeforeType ==
    ASSUME NEW T \in Tree, NEW count, Counts(T, count), NEW c, c.contents \in Node,
           NEW pos \in 0 .. end(T, c)
    PROVE  Before(T, count, c.contents, pos) \in 0 .. count[c.contents]
<1> DEFINE n == c.contents
           A == Len(T.attrs[n])
           B == Len(T.elems[n])
           sum == elementTokens(T, count, n)
           before == Before(T, count, n, pos)
<1>1. A \in Nat /\ B \in Nat /\ end(T, c) = A + B
    BY TreeType, CursorAssumption DEF countAttrs, countElems, end
<1>2. count \in [Node -> Nat] /\ count[n] = A + sum[B]
    BY DEF Counts, TokensAt
<1>3. \A k \in 0 .. B : sum[k] \in Nat
    BY <1>2, ElementTokensType
<1>4. \A k \in 0 .. B : sum[k] <= sum[B]
    BY <1>2, ElementTokensSteps
<1>5. before = IF pos <= A THEN pos
               ELSE IF pos <= A + B THEN A + sum[pos - A]
               ELSE count[n] + (pos - A - B)
    BY DEF Before
<1> HIDE DEF A, B, sum, before
<1>6. sum[B] \in Nat
    BY <1>1, <1>3
<1>7. ASSUME pos <= A
      PROVE  before \in 0 .. count[n]
    BY <1>1, <1>2, <1>5, <1>6, <1>7
<1>8. ASSUME pos > A
      PROVE  before \in 0 .. count[n]
    <2>1. pos - A \in 0 .. B
        BY <1>1, <1>8
    <2>2. sum[pos - A] \in Nat /\ sum[pos - A] <= sum[B]
        BY <1>3, <1>4, <2>1
    <2>3. before = A + sum[pos - A]
        BY <1>1, <1>5, <1>8
    <2> QED BY <1>1, <1>2, <1>6, <2>2, <2>3
<1> QED BY <1>1, <1>7, <1>8 DEF before

(* The tokens in front of the elements around a cursor, and theirs. *)
Around(T, count, c) ==
    SumUpTo([i \in 1 .. Len(c.stack) |->
                1 + Before(T, count, c.stack[i].contents, c.stack[i].pos)])[Len(c.stack)]

(* One Contents further in. *)
Inside(c, p) == c.stack = Append(p.stack, [contents |-> p.contents, pos |-> p.pos])

LEMMA AroundSteps ==
    ASSUME NEW T, NEW count, NEW c \in Cursor
    PROVE  /\ c.stack = << >> => Around(T, count, c) = 0
           /\ \A p \in Cursor : Inside(c, p) =>
                  Around(T, count, c) =
                      Around(T, count, p) + (1 + Before(T, count, p.contents, p.pos))
<1> DEFINE s(d) == [i \in 1 .. Len(d.stack) |->
                       1 + Before(T, count, d.stack[i].contents, d.stack[i].pos)]
<1>1. ASSUME NEW d \in Cursor
      PROVE  /\ Len(d.stack) \in Nat
             /\ Len(s(d)) = Len(d.stack)
             /\ Around(T, count, d) = SumUpTo(s(d))[Len(d.stack)]
             /\ \A i \in 1 .. Len(d.stack) :
                    s(d)[i] = 1 + Before(T, count, d.stack[i].contents, d.stack[i].pos)
    <2>1. Len(d.stack) \in Nat
        BY LenProperties DEF Cursor
    <2> QED BY <2>1 DEF Around
<1> HIDE DEF s
<1>2. ASSUME c.stack = << >>
      PROVE  Around(T, count, c) = 0
    <2>1. Len(c.stack) = 0
        BY <1>2
    <2> QED BY <1>1, <2>1, SumSteps
<1>3. ASSUME NEW p \in Cursor, Inside(c, p)
      PROVE  Around(T, count, c) = Around(T, count, p) + (1 + Before(T, count, p.contents, p.pos))
    <2> DEFINE here == [contents |-> p.contents, pos |-> p.pos]
               n == Len(p.stack)
    <2>1. p.stack \in Seq(Place) /\ here \in Place /\ n \in Nat
        BY <1>1 DEF Cursor, Place
    <2>2. /\ Len(c.stack) = n + 1
          /\ \A i \in 1 .. n : c.stack[i] = p.stack[i]
          /\ c.stack[n + 1] = here
        BY <1>3, <2>1, AppendProperties DEF Inside
    <2>3. /\ Len(s(c)) = n + 1
          /\ Len(s(p)) = n
          /\ Around(T, count, c) = SumUpTo(s(c))[n + 1]
          /\ Around(T, count, p) = SumUpTo(s(p))[n]
        BY <1>1, <2>2
    <2>4. \A i \in 1 .. n : s(c)[i] = s(p)[i]
        BY <1>1, <2>1, <2>2
    <2>5. s(c)[n + 1] = 1 + Before(T, count, p.contents, p.pos)
        BY <1>1, <2>1, <2>2
    <2> HIDE DEF n
    <2>6. SumUpTo(s(c))[n] = SumUpTo(s(p))[n]
        BY <2>1, <2>3, <2>4, SumAgrees
    <2>7. SumUpTo(s(c))[n + 1] = SumUpTo(s(c))[n] + s(c)[n + 1]
        <3> DEFINE k == n + 1
        <3>1. k \in 1 .. Len(s(c)) /\ Len(s(c)) \in Nat /\ k - 1 = n
            BY <2>1, <2>3
        <3> HIDE DEF k
        <3>2. SumUpTo(s(c))[k] = SumUpTo(s(c))[k - 1] + s(c)[k]
            BY <3>1, SumSteps
        <3>3. SumUpTo(s(c))[k] = SumUpTo(s(c))[n] + s(c)[k]
            BY <3>1, <3>2
        <3> QED BY <3>3 DEF k
    <2> QED BY <2>3, <2>5, <2>6, <2>7
<1> QED BY <1>2, <1>3

(* The element around a cursor leads to the Contents it is in. *)
LEMMA ParentLeads ==
    ASSUME NEW T, NEW rank, NEW c, OnPath(T, c, rank), c.stack # << >>
    PROVE  /\ toParent(c) \in Cursor
           /\ Leads(T, toParent(c), c.contents)
           /\ Inside(c, toParent(c))
           /\ Len(toParent(c).stack) = Len(c.stack) - 1
<1> DEFINE p == toParent(c)
<1>1. c \in Cursor /\ c.stack \in Seq(Place) /\ Len(c.stack) \in Nat
    BY LenProperties DEF OnPath, Cursor
<1>2. /\ Front(c.stack) \in Seq(Place)
      /\ Len(Front(c.stack)) = Len(c.stack) - 1
      /\ \A i \in 1 .. Len(c.stack) - 1 : Front(c.stack)[i] = c.stack[i]
      /\ Last(c.stack) \in Place
      /\ Len(c.stack) > 0
    BY <1>1, FrontProperties
<1>3. p = [contents |-> Last(c.stack).contents, pos |-> Last(c.stack).pos, stack |-> Front(c.stack)]
    BY DEF toParent
<1>4. p \in Cursor /\ [contents |-> p.contents, pos |-> p.pos] = Last(c.stack) /\ p.stack = Front(c.stack)
    BY <1>2, <1>3 DEF Cursor, Place
<1> HIDE DEF p
<1>5. Last(c.stack) = c.stack[Len(c.stack)]
    BY <1>2 DEF Last
<1>6. Inside(c, p)
    <2>1. Append(Front(c.stack), Last(c.stack)) = c.stack
        BY <1>1, <1>2, <1>5, AppendProperties, LenProperties
    <2> QED BY <1>4, <2>1 DEF Inside
<1>7. Leads(T, p, c.contents)
    <2>1. Stop(c, Len(c.stack)) = c.stack[Len(c.stack)] /\ Stop(c, Len(c.stack) + 1).contents = c.contents
        BY <1>1, <1>2 DEF Stop
    <2>2. Len(c.stack) \in 1 .. Len(c.stack)
        BY <1>1, <1>2
    <2>3. Leads(T, Stop(c, Len(c.stack)), c.contents)
        BY <2>1, <2>2 DEF OnPath, IsPath
    <2>4. Stop(c, Len(c.stack)).contents = p.contents /\ Stop(c, Len(c.stack)).pos = p.pos
        BY <1>4, <1>5, <2>1
    <2> QED BY <2>3, <2>4 DEF Leads, countAttrs, countElems, end, elemAt
<1> QED BY <1>2, <1>4, <1>6, <1>7 DEF p

(* What is around a cursor, and the Contents it is in, are in the document. *)
LEMMA AroundIsInRoot ==
    ASSUME NEW T \in Tree, NEW count, Counts(T, count), NEW rank, NEW c, OnPath(T, c, rank)
    PROVE  /\ Around(T, count, c) \in Nat
           /\ Around(T, count, c) + count[c.contents] <= count[Root]
<1> DEFINE In(d) == Around(T, count, d) \in Nat /\ Around(T, count, d) + count[d.contents] <= count[Root]
           Good == {k \in Nat : \A d : OnPath(T, d, rank) /\ Len(d.stack) = k => In(d)}
<1>1. count \in [Node -> Nat]
    BY DEF Counts
<1>2. ASSUME NEW d, OnPath(T, d, rank), Len(d.stack) = 0
      PROVE  In(d)
    <2>1. d \in Cursor /\ d.stack \in Seq(Place)
        BY <1>2 DEF OnPath, Cursor
    <2>2. d.stack = << >>
        BY <1>2, <2>1, FrontProperties
    <2>3. Stop(d, 1).contents = d.contents
        BY <1>2 DEF Stop
    <2>4. d.contents = Root
        BY <1>2, <2>3 DEF OnPath, IsPath
    <2>5. Around(T, count, d) = 0
        BY <2>1, <2>2, AroundSteps
    <2> QED BY <1>1, <2>4, <2>5, CursorAssumption
<1>3. ASSUME NEW k \in Nat, k \in Good
      PROVE  k + 1 \in Good
    <2> SUFFICES ASSUME NEW d, OnPath(T, d, rank), Len(d.stack) = k + 1
                 PROVE  In(d)
        OBVIOUS
    <2> DEFINE p == toParent(d)
    <2>1. d \in Cursor /\ d.stack # << >> /\ IsPath(T, d, rank)
        BY EmptySeq DEF OnPath
    <2>2. p \in Cursor /\ Leads(T, p, d.contents) /\ Inside(d, p) /\ Len(p.stack) = k
        BY <2>1, ParentLeads
    <2>3. OnPath(T, p, rank)
        BY <2>1, ToParentStays DEF OnPath
    <2> HIDE DEF p
    <2>4. Around(T, count, p) \in Nat /\ Around(T, count, p) + count[p.contents] <= count[Root]
        BY <1>3, <2>2, <2>3
    <2>5. Around(T, count, d) = Around(T, count, p) + (1 + Before(T, count, p.contents, p.pos))
        BY <2>1, <2>2, AroundSteps
    <2>6. /\ p.contents \in Node
          /\ d.contents \in Node
          /\ p.pos \in countAttrs(T, p) .. end(T, p) - 1
          /\ elemAt(T, p, p.pos).value = d.contents
        BY <2>1, <2>2 DEF Leads, Cursor
    <2>7. Before(T, count, p.contents, p.pos + 1) =
              Before(T, count, p.contents, p.pos) + (2 + count[d.contents])
        <3>1. TokensOf(elemAt(T, p, p.pos), count) = 2 + count[d.contents]
            BY <2>6 DEF TokensOf
        <3> QED BY <2>6, <3>1, BeforeSteps
    <2>8. p.pos \in 0 .. end(T, p) /\ p.pos + 1 \in 0 .. end(T, p)
        BY <2>6, PlaceType
    <2>9. /\ Before(T, count, p.contents, p.pos) \in 0 .. count[p.contents]
          /\ Before(T, count, p.contents, p.pos + 1) \in 0 .. count[p.contents]
        BY <2>6, <2>8, BeforeType
    <2>10. count[p.contents] \in Nat /\ count[d.contents] \in Nat /\ count[Root] \in Nat
        BY <1>1, <2>6, CursorAssumption
    <2> DEFINE at     == Before(T, count, p.contents, p.pos)
               behind == Before(T, count, p.contents, p.pos + 1)
    <2>11. /\ Around(T, count, d) = Around(T, count, p) + (1 + at)
           /\ behind = at + (2 + count[d.contents])
           /\ at \in 0 .. count[p.contents]
           /\ behind \in 0 .. count[p.contents]
        BY <2>5, <2>7, <2>9
    <2> HIDE DEF at, behind
    <2>12. at \in Nat /\ behind \in Nat /\ behind <= count[p.contents]
        BY <2>10, <2>11
    <2>13. Around(T, count, d) \in Nat
        BY <2>4, <2>11, <2>12
    <2>14. Around(T, count, d) + count[d.contents] <= Around(T, count, p) + behind
        BY <2>4, <2>10, <2>11, <2>12
    <2>15. Around(T, count, p) + behind <= count[Root]
        BY <2>4, <2>10, <2>12
    <2> QED BY <2>4, <2>10, <2>12, <2>13, <2>14, <2>15
<1>4. 0 \in Good
    BY <1>2
<1>5. Nat \subseteq Good
    <2> HIDE DEF Good
    <2> QED BY <1>3, <1>4, SetInduction
<1>6. Len(c.stack) \in Nat
    BY LenProperties DEF OnPath, Cursor
<1> QED BY <1>5, <1>6

-----------------------------------------------------------------------------
(* Where a cursor is: in front of the document only outside of it, and     *)
(* behind the end of a Contents only outside of the document.              *)

Within(T, c) ==
    /\ c.pos < 0 => c.stack = << >>
    /\ c.stack # << >> => c.pos <= end(T, c)

LEMMA PlacedIsWithin ==
    ASSUME NEW T \in Tree, NEW c \in Cursor, Within(T, c), NEW d \in Placed(T, c)
    PROVE  Within(T, d)
<1>1. c.contents \in Node /\ c.pos \in Int /\ end(T, c) \in Nat
    BY PlaceType DEF Cursor
<1>2. ASSUME NEW pos \in Int, c.pos < 0 \/ pos \in 0 .. end(T, c), d = At(c, pos)
      PROVE  Within(T, d)
    <2>1. d.stack = c.stack /\ d.contents = c.contents /\ d.pos = pos
        BY <1>2 DEF At, Cursor
    <2>2. end(T, d) = end(T, c)
        BY <2>1 DEF end, countAttrs, countElems
    <2> QED BY <1>1, <1>2, <2>1, <2>2 DEF Within
<1> QED BY <1>2 DEF Placed

LEMMA ParentIsWithin ==
    ASSUME NEW T \in Tree, NEW rank, NEW c, OnPath(T, c, rank), Within(T, c)
    PROVE  /\ Within(T, toParent(c))
           /\ c.stack # << >> => Within(T, At(toParent(c), toParent(c).pos + 1))
<1>1. CASE c.stack = << >>
    BY <1>1 DEF toParent
<1>2. CASE c.stack # << >>
    <2> DEFINE p == toParent(c)
               d == At(p, p.pos + 1)
    <2>1. p \in Cursor /\ Leads(T, p, c.contents)
        BY <1>2, ParentLeads
    <2> HIDE DEF p
    <2>2. p.contents \in Node /\ p.pos \in countAttrs(T, p) .. end(T, p) - 1
        BY <2>1 DEF Leads, Cursor
    <2>3. p.pos \in 0 .. end(T, p) - 1 /\ end(T, p) \in Nat
        BY <2>2, PlaceType
    <2>4. Within(T, p)
        BY <2>3 DEF Within
    <2>5. d.pos = p.pos + 1 /\ d.contents = p.contents
        BY <2>1 DEF At, Cursor
    <2>6. end(T, d) = end(T, p)
        BY <2>5 DEF end, countAttrs, countElems
    <2>7. Within(T, d)
        BY <2>3, <2>5, <2>6 DEF Within
    <2> QED BY <2>4, <2>7 DEF p
<1> QED BY <1>1, <1>2

LEMMA NextTokenIsWithin ==
    ASSUME NEW T \in Tree, NEW rank \in [Node -> Nat], NEW c, Ranks(T, rank), OnPath(T, c, rank), Within(T, c)
    PROVE  Within(T, toNextToken(T, c))
<1> DEFINE d == toNextToken(T, c)
           out == At(c, end(T, c))
<1>1. c \in Cursor /\ c.contents \in Node /\ c.pos \in Int /\ end(T, c) \in Nat
    BY PlaceType DEF OnPath, Cursor
<1>2. CASE c.pos < 0
    <2>1. d = At(c, c.pos + 1)
        BY <1>2 DEF toNextToken
    <2>2. d \in Placed(T, c)
        BY <1>1, <1>2, <2>1 DEF Placed
    <2> QED BY <1>1, <2>2, PlacedIsWithin
<1>3. CASE c.pos >= 0 /\ c.pos >= end(T, c)
    <2>1. d = At(toParent(out), toParent(out).pos + 1)
        BY <1>1, <1>3 DEF toNextToken
    <2>2. out.stack = c.stack /\ OnPath(T, out, rank)
        BY <1>1, AtStays DEF At, Cursor, OnPath
    <2>3. Within(T, out)
        <3>1. out \in Placed(T, c)
            BY <1>1 DEF Placed
        <3> QED BY <1>1, <3>1, PlacedIsWithin
    <2> HIDE DEF out
    <2>4. CASE out.stack # << >>
        BY <2>1, <2>2, <2>3, <2>4, ParentIsWithin
    <2>5. CASE out.stack = << >>
        <3>1. d = At(out, out.pos + 1)
            BY <2>1, <2>5 DEF toParent
        <3>2. d.stack = << >>
            BY <2>2, <2>5, <3>1 DEF At, OnPath, Cursor
        <3> QED BY <3>2 DEF Within
    <2> QED BY <2>4, <2>5
<1>4. CASE c.pos >= 0 /\ c.pos < end(T, c) /\ enters(T, c)
    <2> DEFINE inside == rememberAndSwap(c, elemAt(T, c, c.pos).value)
    <2>1. d = inside
        BY <1>1, <1>4 DEF toNextToken
    <2>2. inside \in Cursor
        BY <1>1, <1>4, EnterStays DEF OnPath, Ranked
    <2>3. inside.pos = 0
        BY DEF rememberAndSwap
    <2> HIDE DEF d, inside
    <2>4. end(T, inside) \in Nat
        BY <2>2, PlaceType DEF Cursor
    <2>5. Within(T, inside)
        BY <2>3, <2>4 DEF Within
    <2> QED BY <2>1, <2>5 DEF d
<1>5. CASE c.pos >= 0 /\ c.pos < end(T, c) /\ ~enters(T, c)
    <2>1. d = At(c, c.pos + 1)
        BY <1>1, <1>5 DEF toNextToken
    <2>2. d \in Placed(T, c)
        BY <1>1, <1>5, <2>1 DEF Placed
    <2> QED BY <1>1, <2>2, PlacedIsWithin
<1> QED BY <1>1, <1>2, <1>3, <1>4, <1>5

LEMMA PrevTokenIsWithin ==
    ASSUME NEW T \in Tree, NEW rank \in [Node -> Nat], NEW c, Ranks(T, rank), OnPath(T, c, rank), Within(T, c)
    PROVE  Within(T, toPrevToken(T, c))
<1> DEFINE d == toPrevToken(T, c)
           before == At(c, c.pos - 1)
           inside == rememberAndSwap(before, elemAt(T, before, before.pos).value)
<1>1. c \in Cursor /\ c.contents \in Node /\ c.pos \in Int /\ end(T, c) \in Nat
    BY PlaceType DEF OnPath, Cursor
<1>2. CASE c.pos = 0 /\ c.stack # << >>
    <2>1. d = toParent(c)
        BY <1>2 DEF toPrevToken
    <2> QED BY <2>1, ParentIsWithin
<1>3. CASE c.pos = 0 /\ c.stack = << >>
    <2>1. d = At(c, -1)
        BY <1>3 DEF toPrevToken
    <2>2. d.stack = << >>
        BY <1>1, <1>3, <2>1 DEF At, Cursor
    <2> QED BY <2>2 DEF Within
<1>4. CASE c.pos # 0 /\ ~enters(T, before)
    <2>1. d = before
        BY <1>4 DEF toPrevToken
    <2>2. d.stack = c.stack /\ d.contents = c.contents /\ d.pos = c.pos - 1
        BY <1>1, <2>1 DEF At, Cursor
    <2>3. end(T, d) = end(T, c)
        BY <2>2 DEF end, countAttrs, countElems
    <2> QED BY <1>1, <1>4, <2>2, <2>3 DEF Within
<1>5. CASE c.pos # 0 /\ enters(T, before)
    <2>1. d = At(inside, end(T, inside))
        BY <1>5 DEF toPrevToken
    <2>2. OnPath(T, before, rank)
        <3>1. c.pos - 1 \in Int
            BY <1>1
        <3> QED BY <1>1, <3>1, AtStays DEF OnPath
    <2> HIDE DEF d, before
    <2>3. inside \in Cursor
        BY <1>5, <2>2, EnterStays DEF OnPath, Ranked
    <2> HIDE DEF inside
    <2>4. end(T, inside) \in Nat
        BY <2>3, PlaceType DEF Cursor
    <2>5. d.pos = end(T, inside) /\ d.contents = inside.contents
        BY <2>1, <2>3 DEF At, Cursor
    <2>6. end(T, d) = end(T, inside)
        BY <2>5 DEF end, countAttrs, countElems
    <2>7. Within(T, d)
        BY <2>4, <2>5, <2>6 DEF Within
    <2> QED BY <2>7 DEF d
<1> QED BY <1>2, <1>3, <1>4, <1>5

LEMMA StartDocIsWithin ==
    ASSUME NEW T, NEW c \in Cursor
    PROVE  Within(T, toStartDoc(c))
<1>1. toStartDoc(c).stack = << >>
    BY DEF toStartDoc, At, Cursor
<1> QED BY <1>1 DEF Within

LEMMA FirstContentTokenIsWithin ==
    ASSUME NEW T \in Tree, NEW rank \in [Node -> Nat], NEW c, Ranks(T, rank), OnPath(T, c, rank), Within(T, c)
    PROVE  Within(T, toFirstContentToken(T, c))
<1> DEFINE inside == toNextToken(T, c)
           d == At(inside, countAttrs(T, inside))
<1>1. inside \in Cursor /\ Within(T, inside)
    BY ToNextTokenStays, NextTokenIsWithin DEF OnPath
<1>2. toFirstContentToken(T, c) \in {c, d}
    BY DEF toFirstContentToken
<1> HIDE DEF inside
<1>3. countAttrs(T, inside) \in 0 .. end(T, inside)
    BY <1>1, PlaceType, CursorAssumption DEF Cursor
<1>4. d \in Placed(T, inside)
    BY <1>3 DEF Placed
<1>5. Within(T, d)
    BY <1>1, <1>4, PlacedIsWithin
<1> HIDE DEF d
<1> QED BY <1>2, <1>5

LEMMA MoveIsWithin ==
    ASSUME IInv, Within(tree, cursor), Move
    PROVE  Within(tree, cursor)'
<1>1. tree \in Tree /\ cursor \in Cursor
    BY DEF IInv, TypeOK
<1>2. PICK rank \in [Node -> Nat] : Ranks(tree, rank) /\ OnPath(tree, cursor, rank)
    BY IInvHolds DEF Holds
<1>3. ASSUME NEW d, moveTo(d), Within(tree, d)
      PROVE  Within(tree, cursor)'
    <2>1. tree' = tree /\ cursor' = d
        BY <1>3 DEF moveTo, tree
    <2> QED BY <1>3, <2>1
<1>4. CASE moveTo(toNextToken(tree, cursor))
    BY <1>1, <1>2, <1>3, <1>4, NextTokenIsWithin
<1>5. CASE moveTo(toPrevToken(tree, cursor))
    BY <1>1, <1>2, <1>3, <1>5, PrevTokenIsWithin
<1>6. CASE moveTo(toParent(cursor))
    BY <1>1, <1>2, <1>3, <1>6, ParentIsWithin
<1>7. CASE moveTo(toStartDoc(cursor))
    BY <1>1, <1>3, <1>7, StartDocIsWithin
<1>8. CASE moveTo(toFirstContentToken(tree, cursor))
    BY <1>1, <1>2, <1>3, <1>8, FirstContentTokenIsWithin
<1>9. ASSUME NEW d, moveTo(d), d \in Placed(tree, cursor)
      PROVE  Within(tree, cursor)'
    BY <1>1, <1>3, <1>9, PlacedIsWithin
<1>10. CASE \/ moveTo(toEndToken(tree, cursor))
            \/ moveTo(toLastChild(tree, cursor))
            \/ moveTo(toFirstAttribute(tree, cursor))
            \/ moveTo(toLastAttribute(tree, cursor))
            \/ moveTo(toNextAttribute(tree, cursor))
            \/ moveTo(toPrevAttribute(tree, cursor))
    BY <1>1, <1>9, <1>10, OtherMovesArePlaced
<1>11. ASSUME NEW index \in 1 .. MaxElems,
              \/ moveTo(toChild(tree, cursor, index))
              \/ moveTo(toNextSibling(tree, cursor, index))
              \/ moveTo(toPrevSibling(tree, cursor, index))
       PROVE  Within(tree, cursor)'
    BY <1>1, <1>9, <1>11, ChildMovesArePlaced
<1>12. ASSUME NEW index \in 1 .. MaxElems, NEW name \in ElemName,
              \/ moveTo(toNamedChild(tree, cursor, name, index))
              \/ moveTo(toNextNamedSibling(tree, cursor, name, index))
       PROVE  Within(tree, cursor)'
    BY <1>1, <1>9, <1>12, ChildMovesArePlaced
<1> QED BY <1>4, <1>5, <1>6, <1>7, <1>8, <1>10, <1>11, <1>12 DEF Move

(* An edit leaves the cursor within the Contents it is in: it makes them no *)
(* shorter, or takes away what the cursor is at.                            *)
Leaves(ats, es) ==
    LET n   == cursor.contents
        A   == Len(attrs[n]) + Len(elems[n])
        now == Len(ats[n]) + Len(es[n])
    IN  now \in Nat /\ (now >= A \/ (now >= A - 1 /\ cursor.pos <= A - 1))

LEMMA LeavesWithin ==
    ASSUME IInv, Within(tree, cursor), NEW ats, NEW es, Leaves(ats, es)
    PROVE  Within([attrs |-> ats, elems |-> es], cursor)
<1> DEFINE U == [attrs |-> ats, elems |-> es]
           n == cursor.contents
           A == Len(attrs[n]) + Len(elems[n])
           now == Len(ats[n]) + Len(es[n])
<1>1. end(U, cursor) = now
    BY DEF end, countAttrs, countElems
<1>2. cursor.pos \in Int /\ A \in Nat /\ end(tree, cursor) = A
    BY HereType
<1>3. now \in Nat /\ (now >= A \/ (now >= A - 1 /\ cursor.pos <= A - 1))
    BY DEF Leaves
<1> HIDE DEF U, A, now
<1>4. Within(U, cursor)
    BY <1>1, <1>2, <1>3 DEF Within
<1> QED BY <1>4 DEF U

LEMMA NoShorterLeaves ==
    ASSUME IInv, NEW ats, NEW es, Len(ats[cursor.contents]) \in Nat, Len(es[cursor.contents]) \in Nat,
           Len(ats[cursor.contents]) >= Len(attrs[cursor.contents]),
           Len(es[cursor.contents]) >= Len(elems[cursor.contents])
    PROVE  Leaves(ats, es)
<1> DEFINE n == cursor.contents
           A == Len(attrs[n])
           B == Len(elems[n])
           a == Len(ats[n])
           b == Len(es[n])
<1>1. A \in Nat /\ B \in Nat /\ a \in Nat /\ b \in Nat /\ a >= A /\ b >= B
    BY HereType
<1>2. Leaves(ats, es) <=> a + b \in Nat /\ (a + b >= A + B \/ (a + b >= A + B - 1 /\ cursor.pos <= A + B - 1))
    BY DEF Leaves
<1> HIDE DEF A, B, a, b
<1>3. a + b \in Nat /\ a + b >= A + B
    BY <1>1
<1> QED BY <1>2, <1>3

LEMMA InsertedLeaves ==
    ASSUME IInv, NEW e
    PROVE  Leaves(attrs, inserted(e)) /\ DOMAIN inserted(e) = Node
<1> DEFINE n == cursor.contents
           es == elems[n]
           S == Elem \cup {e}
           r == InsertAt(es, elementPlace + 1, e)
<1>1. n \in Node /\ Len(attrs[n]) \in Nat /\ Len(es) \in Nat /\ DOMAIN elems = Node
    BY HereType
<1>2. es \in Seq(Elem)
    BY HereType, BoundedSeqIsSeq, CursorAssumption
<1>3. elementPlace + 1 \in 1 .. Len(es) + 1
    BY <1>1, ElementPlaceType
<1>4. es \in Seq(S) /\ e \in S
    <2>1. Elem \subseteq S /\ e \in S
        OBVIOUS
    <2> HIDE DEF S, es
    <2> QED BY <1>2, <2>1, SeqMonotonic
<1> HIDE DEF S
<1>5. Len(r) = Len(es) + 1
    BY <1>3, <1>4, InsertAtProperties
<1>6. inserted(e)[n] = r /\ DOMAIN inserted(e) = Node
    BY <1>1 DEF inserted
<1> HIDE DEF r
<1>7. Len(inserted(e)[n]) = Len(elems[n]) + 1
    BY <1>5, <1>6
<1>8. Len(inserted(e)[n]) \in Nat /\ Len(inserted(e)[n]) >= Len(elems[n]) /\ Len(attrs[n]) >= Len(attrs[n])
    BY <1>1, <1>7
<1> QED BY <1>1, <1>6, <1>8, NoShorterLeaves

LEMMA InsertNewLeaves ==
    ASSUME IInv, NEW name, NEW new \in Node, insertNew(name, new)
    PROVE  Leaves(attrs', elems')
<1> DEFINE n == cursor.contents
           e == [name |-> name, value |-> new]
<1>1. n # new
    BY DEF insertNew, Unused, Surrounding, ValuesIn
<1>2. n \in Node /\ DOMAIN attrs = Node
    BY HereType
<1>3. Leaves(attrs, inserted(e)) /\ DOMAIN inserted(e) = Node
    BY InsertedLeaves
<1>4. attrs' = [attrs EXCEPT ![new] = << >>] /\ elems' = [inserted(e) EXCEPT ![new] = << >>]
    BY DEF insertNew
<1> HIDE DEF e
<1>5. attrs'[n] = attrs[n] /\ elems'[n] = inserted(e)[n]
    BY <1>1, <1>2, <1>3, <1>4
<1> QED BY <1>3, <1>5 DEF Leaves

LEMMA AttributesLeave ==
    ASSUME IInv, NEW type, insertAttribute(type) \/ setAttributeName(type)
    PROVE  Leaves(attrs', elems')
<1> DEFINE n == cursor.contents
           ats == attrs[n]
           A == Len(ats)
           S == AttrType \cup {type}
<1>1. /\ n \in Node
      /\ DOMAIN attrs = Node
      /\ A \in Nat
      /\ Len(elems[n]) \in Nat
      /\ cursor.pos \in Int
      /\ countAttrs(tree, cursor) = A
      /\ elems' = elems
    BY HereType DEF insertAttribute, setAttributeName
<1>2. ats \in Seq(AttrType)
    BY HereType, BoundedSeqIsSeq, CursorAssumption
<1>3. ats \in Seq(S) /\ type \in S
    <2>1. AttrType \subseteq S /\ type \in S
        OBVIOUS
    <2> HIDE DEF S, ats
    <2> QED BY <1>2, <2>1, SeqMonotonic
<1> HIDE DEF S
<1>4. CASE insertAttribute(type)
    <2> DEFINE k == Min({cursor.pos, countAttrs(tree, cursor)}) + 1
               r == InsertAt(ats, k, type)
    <2>1. k \in 1 .. A + 1
        <3>1. cursor.pos >= 0
            BY <1>4 DEF insertAttribute
        <3>2. k = (IF cursor.pos <= A THEN cursor.pos ELSE A) + 1
            BY <1>1, MinOfTwo
        <3> QED BY <1>1, <3>1, <3>2
    <2>2. attrs' = [attrs EXCEPT ![n] = r]
        BY <1>4 DEF insertAttribute
    <2> HIDE DEF k
    <2>3. Len(r) = A + 1
        BY <1>3, <2>1, InsertAtProperties
    <2> HIDE DEF r
    <2>4. attrs'[n] = r
        BY <1>1, <2>2
    <2>5. Len(attrs'[n]) = A + 1
        BY <2>3, <2>4
    <2>6. /\ Len(attrs'[n]) \in Nat /\ Len(attrs'[n]) >= A
          /\ Len(elems'[n]) \in Nat /\ Len(elems'[n]) >= Len(elems[n])
        BY <1>1, <2>5
    <2> HIDE DEF ats
    <2> QED BY <2>6, NoShorterLeaves DEF ats
<1>5. CASE setAttributeName(type)
    <2> DEFINE k == cursor.pos + 1
               r == [ats EXCEPT ![k] = type]
    <2>1. k \in 1 .. A
        BY <1>1, <1>5 DEF setAttributeName
    <2>2. attrs' = [attrs EXCEPT ![n] = r]
        BY <1>5 DEF setAttributeName
    <2> HIDE DEF k
    <2>3. Len(r) = A
        BY <1>3, <2>1, ExceptSeq
    <2> HIDE DEF r
    <2>4. attrs'[n] = r
        BY <1>1, <2>2
    <2>5. Len(attrs'[n]) = A
        BY <2>3, <2>4
    <2>6. /\ Len(attrs'[n]) \in Nat /\ Len(attrs'[n]) >= A
          /\ Len(elems'[n]) \in Nat /\ Len(elems'[n]) >= Len(elems[n])
        BY <1>1, <2>5
    <2> HIDE DEF ats
    <2> QED BY <2>6, NoShorterLeaves DEF ats
<1> QED BY <1>4, <1>5

LEMMA RemovalLeaves ==
    ASSUME IInv, removeXml
    PROVE  Leaves(attrs', elems')
<1> DEFINE n == cursor.contents
           A == Len(attrs[n])
           B == Len(elems[n])
<1>1. /\ n \in Node
      /\ DOMAIN attrs = Node
      /\ DOMAIN elems = Node
      /\ A \in Nat
      /\ B \in Nat
      /\ countAttrs(tree, cursor) = A
      /\ end(tree, cursor) = A + B
    BY HereType
<1>2. attrs[n] \in Seq(AttrType) /\ elems[n] \in Seq(Elem)
    BY HereType, BoundedSeqIsSeq, CursorAssumption
<1>3. cursor.pos \in 0 .. A + B - 1
    BY <1>1 DEF removeXml
<1>4. CASE cursor.pos < countAttrs(tree, cursor)
    <2> DEFINE r == RemoveAt(attrs[n], cursor.pos + 1)
    <2>1. cursor.pos + 1 \in 1 .. A
        BY <1>1, <1>3, <1>4
    <2>2. Len(r) = A - 1
        BY <1>2, <2>1, RemoveAtProperties
    <2>3. attrs' = [attrs EXCEPT ![n] = r] /\ elems' = elems
        BY <1>4 DEF removeXml
    <2> HIDE DEF r
    <2>4. attrs'[n] = r
        BY <1>1, <2>3
    <2> QED BY <1>1, <1>3, <2>1, <2>2, <2>3, <2>4 DEF Leaves
<1>5. CASE ~(cursor.pos < countAttrs(tree, cursor))
    <2> DEFINE r == RemoveAt(elems[n], elementPlace + 1)
    <2>1. cursor.pos \in countAttrs(tree, cursor) .. end(tree, cursor) - 1
        BY <1>1, <1>3, <1>5
    <2>2. elementPlace + 1 \in 1 .. B
        BY <2>1, ElementPlaceHere
    <2>3. Len(r) = B - 1
        BY <1>2, <2>2, RemoveAtProperties
    <2>4. elems' = [elems EXCEPT ![n] = r] /\ attrs' = attrs
        BY <1>5 DEF removeXml
    <2>5. 1 <= B
        BY <1>1, <1>3, <1>5
    <2> HIDE DEF r
    <2>6. elems'[n] = r
        BY <1>1, <2>4
    <2> QED BY <1>1, <1>3, <2>3, <2>4, <2>5, <2>6 DEF Leaves
<1> QED BY <1>4, <1>5

LEMMA SetNameLeaves ==
    ASSUME IInv, NEW name, setName(name)
    PROVE  Leaves(attrs', elems')
<1> DEFINE n == cursor.contents
           k == elementPlace + 1
           e == [elems[n][k] EXCEPT !.name = name]
           S == Elem \cup {e}
           r == [elems[n] EXCEPT ![k] = e]
<1>1. tree \in Tree /\ n \in Node /\ cursor.pos \in Int /\ DOMAIN elems = Node
      /\ Len(attrs[n]) \in Nat /\ Len(elems[n]) \in Nat
    BY HereType DEF IInv, TypeOK
<1>2. k \in 1 .. Len(elems[n])
    <2>1. cursor.pos \in countAttrs(tree, cursor) .. end(tree, cursor) - 1
        BY <1>1, StartsAtElement DEF setName
    <2> QED BY <2>1, ElementPlaceHere
<1>3. elems[n] \in Seq(Elem)
    BY HereType, BoundedSeqIsSeq, CursorAssumption
<1>4. elems' = [elems EXCEPT ![n] = r] /\ attrs' = attrs
    BY DEF setName
<1> HIDE DEF k, e
<1>5. elems[n] \in Seq(S) /\ e \in S
    <2>1. Elem \subseteq S /\ e \in S
        OBVIOUS
    <2> HIDE DEF S
    <2> QED BY <1>3, <2>1, SeqMonotonic
<1> HIDE DEF S
<1>6. Len(r) = Len(elems[n])
    BY <1>2, <1>5, ExceptSeq
<1> HIDE DEF r
<1>7. elems'[n] = r
    BY <1>1, <1>4
<1>8. Len(elems'[n]) = Len(elems[n])
    BY <1>6, <1>7
<1>9. /\ Len(attrs'[n]) \in Nat /\ Len(attrs'[n]) >= Len(attrs[n])
      /\ Len(elems'[n]) \in Nat /\ Len(elems'[n]) >= Len(elems[n])
    BY <1>1, <1>4, <1>8
<1> QED BY <1>9, NoShorterLeaves

LEMMA TextValueLeaves ==
    ASSUME IInv, NEW texts, setTextValue(texts)
    PROVE  Leaves(attrs', elems')
<1> DEFINE n == cursor.contents
           inside == elemAt(tree, cursor, cursor.pos).value
           left == Kept(elems[inside], Element) \o texts
<1>1. PICK rank \in [Node -> Nat] : Ranks(tree, rank)
    BY IInvHolds DEF Holds
<1>2. /\ tree \in Tree
      /\ n \in Node
      /\ cursor.pos \in Int
      /\ Len(attrs[n]) \in Nat
      /\ Len(elems[n]) \in Nat
    BY HereType DEF IInv, TypeOK
<1>3. Leads(tree, cursor, inside)
    BY <1>2, EntersLeads DEF setTextValue
<1>4. /\ inside \in Node
      /\ elementPlace + 1 \in 1 .. Len(elems[n])
      /\ elems[n][elementPlace + 1].value = inside
    BY <1>3, ElementPlaceHere DEF Leads
<1>5. rank[n] < rank[inside]
    BY <1>1, <1>2, <1>4, TreeType DEF Ranks, tree
<1>6. attrs' = attrs /\ elems' = [elems EXCEPT ![inside] = left]
    BY DEF setTextValue
<1> HIDE DEF inside, left
<1>7. n # inside
    <2>1. rank[n] \in Nat
        BY <1>1, <1>2
    <2> QED BY <1>5, <2>1
<1>8. elems'[n] = elems[n]
    <2>1. DOMAIN elems = Node
        BY HereType
    <2> QED BY <1>2, <1>6, <1>7, <2>1
<1>9. /\ Len(attrs'[n]) \in Nat /\ Len(attrs'[n]) >= Len(attrs[n])
      /\ Len(elems'[n]) \in Nat /\ Len(elems'[n]) >= Len(elems[n])
    BY <1>2, <1>6, <1>8
<1> QED BY <1>9, NoShorterLeaves

LEMMA EditIsWithin ==
    ASSUME IInv, Within(tree, cursor), Edit
    PROVE  Within(tree, cursor)'
<1> DEFINE U == [attrs |-> attrs', elems |-> elems']
<1>1. U = tree'
    BY DEF tree
<1> HIDE DEF U
<1>2. ASSUME Leaves(attrs', elems'), cursor' = cursor
      PROVE  Within(tree, cursor)'
    <2>1. Within(U, cursor)
        BY <1>2, LeavesWithin DEF U
    <2> QED BY <1>1, <1>2, <2>1
<1>3. ASSUME NEW name \in ElemName, insertElement(name)
      PROVE  Within(tree, cursor)'
    BY <1>2, <1>3, InsertedLeaves DEF insertElement
<1>4. ASSUME NEW name \in ElemName, setName(name)
      PROVE  Within(tree, cursor)'
    BY <1>2, <1>4, SetNameLeaves DEF setName
<1>5. ASSUME NEW name \in ElemName, NEW new \in Node, insertNewElement(name, new)
      PROVE  Within(tree, cursor)'
    BY <1>2, <1>5, InsertNewLeaves DEF insertNewElement
<1>6. ASSUME NEW name \in ElemName, NEW new \in Node, beginElement(name, new)
      PROVE  Within(tree, cursor)'
    <2>1. insertNew(name, new) /\ cursor' = toNextToken(U, cursor)
        BY <1>6 DEF beginElement, U
    <2>2. Within(U, cursor)
        BY <2>1, InsertNewLeaves, LeavesWithin DEF U
    <2>3. Holds(U, cursor)
        BY <2>1, InsertNewStep DEF U
    <2>4. Within(U, toNextToken(U, cursor))
        BY <2>2, <2>3, NextTokenIsWithin DEF Holds
    <2> QED BY <1>1, <2>1, <2>4
<1>7. ASSUME NEW type \in AttrType, insertAttribute(type) \/ setAttributeName(type)
      PROVE  Within(tree, cursor)'
    <2>1. cursor' = cursor
        BY <1>7 DEF insertAttribute, setAttributeName
    <2> QED BY <1>2, <1>7, <2>1, AttributesLeave
<1>8. CASE insertChars
    BY <1>2, <1>8, InsertedLeaves DEF insertChars
<1>9. CASE removeXml
    <2>1. cursor' = cursor
        BY <1>9 DEF removeXml
    <2> QED BY <1>2, <1>9, <2>1, RemovalLeaves
<1>10. ASSUME NEW texts \in Texts, setTextValue(texts)
       PROVE  Within(tree, cursor)'
    <2>1. cursor' = cursor
        BY <1>10 DEF setTextValue
    <2> QED BY <1>2, <1>10, <2>1, TextValueLeaves
<1> QED BY <1>3, <1>4, <1>5, <1>6, <1>7, <1>8, <1>9, <1>10 DEF Edit

-----------------------------------------------------------------------------
(* Finitely many Contents have elements: a step changes those of two. *)

LEMMA FewAreFilled ==
    ASSUME NEW T, NEW U, IsFiniteSet(Filled(T)), NEW a, NEW b,
           \A n \in Node \ {a, b} : U.elems[n] = T.elems[n]
    PROVE  IsFiniteSet(Filled(U))
<1>1. IsFiniteSet((Filled(T) \cup {a}) \cup {b})
    BY FS_AddElement
<1>2. Filled(U) \subseteq (Filled(T) \cup {a}) \cup {b}
    BY DEF Filled
<1> QED BY <1>1, <1>2, FS_Subset

LEMMA StepsFillFew ==
    ASSUME IInv, [Next]_vars
    PROVE  \E m : \A n \in Node \ {cursor.contents, m} : elems'[n] = elems[n]
<1> DEFINE c == cursor.contents
           Only(m) == \A n \in Node \ {c, m} : elems'[n] = elems[n]
<1>1. DOMAIN elems = Node
    BY HereType
<1>2. \A e : DOMAIN inserted(e) = Node /\ \A n \in Node \ {c} : inserted(e)[n] = elems[n]
    BY <1>1 DEF inserted
<1>3. ASSUME Move
      PROVE  Only(c)
    <2>1. elems' = elems
        BY <1>3 DEF Move, moveTo
    <2> QED BY <2>1
<1>4. ASSUME NEW name, insertElement(name)
      PROVE  Only(c)
    BY <1>2, <1>4 DEF insertElement
<1>5. ASSUME NEW name, setName(name)
      PROVE  Only(c)
    BY <1>1, <1>5 DEF setName
<1>6. ASSUME NEW name, NEW new, insertNewElement(name, new) \/ beginElement(name, new)
      PROVE  Only(new)
    <2>1. elems' = [inserted([name |-> name, value |-> new]) EXCEPT ![new] = << >>]
        BY <1>6 DEF insertNewElement, beginElement, insertNew
    <2> QED BY <1>2, <2>1
<1>7. ASSUME NEW type, insertAttribute(type) \/ setAttributeName(type)
      PROVE  Only(c)
    BY <1>7 DEF insertAttribute, setAttributeName
<1>8. ASSUME insertChars
      PROVE  Only(c)
    BY <1>2, <1>8 DEF insertChars
<1>9. ASSUME removeXml
      PROVE  Only(c)
    BY <1>1, <1>9 DEF removeXml
<1>10. ASSUME NEW texts, setTextValue(texts)
       PROVE  \E m : Only(m)
    <2> DEFINE inside == elemAt(tree, cursor, cursor.pos).value
               left == Kept(elems[inside], Element) \o texts
    <2>1. elems' = [elems EXCEPT ![inside] = left]
        BY <1>10 DEF setTextValue
    <2> HIDE DEF inside, left
    <2>2. Only(inside)
        BY <1>1, <2>1
    <2> QED BY <2>2
<1>11. ASSUME UNCHANGED vars
       PROVE  Only(c)
    BY <1>11 DEF vars
<1> HIDE DEF Only, c
<1>12. \E m : Only(m)
    BY <1>3, <1>4, <1>5, <1>6, <1>7, <1>8, <1>9, <1>10, <1>11 DEF Next, Edit
<1> QED BY <1>12 DEF Only, c

-----------------------------------------------------------------------------
(* The tokens in front of the cursor, and of the one it goes to *)

LEMMA InFrontIs ==
    ASSUME NEW T, NEW count, NEW c \in Cursor
    PROVE  /\ c.pos < 0 => InFront(T, count, c) = c.pos + 1
           /\ c.pos >= 0 => InFront(T, count, c) =
                  1 + Before(T, count, c.contents, c.pos) + Around(T, count, c)
BY DEF InFront, Around, Cursor

LEMMA InFrontAt ==
    ASSUME NEW T, NEW count, NEW c \in Cursor, NEW pos \in Int
    PROVE  /\ pos < 0 => InFront(T, count, At(c, pos)) = pos + 1
           /\ pos >= 0 => InFront(T, count, At(c, pos)) =
                  1 + Before(T, count, c.contents, pos) + Around(T, count, c)
<1> DEFINE d == At(c, pos)
<1>1. d \in Cursor /\ d.pos = pos /\ d.contents = c.contents /\ d.stack = c.stack
    BY DEF At, Cursor
<1> HIDE DEF d
<1>2. Around(T, count, d) = Around(T, count, c)
    BY <1>1 DEF Around
<1>3. /\ d.pos < 0 => InFront(T, count, d) = d.pos + 1
      /\ d.pos >= 0 => InFront(T, count, d) = 1 + Before(T, count, d.contents, d.pos) + Around(T, count, d)
    BY <1>1, InFrontIs
<1> QED BY <1>1, <1>2, <1>3 DEF d

(* In the document and at its end there are not more than its tokens. *)
LEMMA InFrontIsInRoot ==
    ASSUME NEW T \in Tree, NEW count, Counts(T, count), NEW rank, NEW c, OnPath(T, c, rank),
           c.pos \in 0 .. end(T, c)
    PROVE  /\ InFront(T, count, c) \in Nat
           /\ InFront(T, count, c) <= count[Root] + 1
<1> DEFINE before == Before(T, count, c.contents, c.pos)
           around == Around(T, count, c)
           here == count[c.contents]
           all == count[Root]
<1>1. c \in Cursor /\ c.contents \in Node
    BY DEF OnPath, Cursor
<1>2. here \in Nat /\ all \in Nat
    BY <1>1, CursorAssumption DEF Counts
<1>3. before \in 0 .. here
    BY <1>1, BeforeType
<1>4. around \in Nat /\ around + here <= all
    BY AroundIsInRoot
<1>5. c.pos >= 0
    BY <1>1, PlaceType
<1>6. InFront(T, count, c) = 1 + before + around
    BY <1>1, <1>5, InFrontIs
<1> HIDE DEF before, around, here
<1>7. 1 + before + around \in Nat /\ 1 + before + around <= all + 1
    <2> HIDE DEF all
    <2> QED BY <1>2, <1>3, <1>4
<1> QED BY <1>6, <1>7

(* An element that a cursor does not enter is one token. *)
LEMMA OneTokenUnlessEntered ==
    ASSUME NEW T \in Tree, NEW count, NEW c, c.contents \in Node,
           c.pos \in countAttrs(T, c) .. end(T, c) - 1
    PROVE  TokensOf(elemAt(T, c, c.pos), count) =
               IF enters(T, c) THEN 2 + count[elemAt(T, c, c.pos).value] ELSE 1
<1>1. countAttrs(T, c) \in Nat /\ end(T, c) \in Nat
    BY PlaceType
<1>2. c.pos \in Int
    BY <1>1
<1>3. enters(T, c) <=> elemAt(T, c, c.pos).value \in Node
    BY <1>2, EntersLeads DEF Leads
<1> QED BY <1>3 DEF TokensOf

(* Forward, by one token. *)
LEMMA NextTokenIsNext ==
    ASSUME NEW T \in Tree, NEW count, Counts(T, count), NEW rank \in [Node -> Nat], Ranks(T, rank),
           NEW c, OnPath(T, c, rank), Within(T, c)
    PROVE  InFront(T, count, toNextToken(T, c)) =
               IF InFront(T, count, c) > count[Root] + 1 THEN count[Root] + 2
               ELSE InFront(T, count, c) + 1
<1> DEFINE d == toNextToken(T, c)
           A == countAttrs(T, c)
           E == end(T, c)
           all == count[Root]
           inFront(x) == InFront(T, count, x)
           before(pos) == Before(T, count, c.contents, pos)
           around == Around(T, count, c)
<1>1. c \in Cursor /\ c.contents \in Node /\ c.pos \in Int /\ A \in Nat /\ E \in Nat /\ A <= E
    BY PlaceType, CursorAssumption DEF OnPath, Cursor
<1>2. all \in Nat /\ around \in Nat
    BY CursorAssumption, AroundIsInRoot DEF Counts
<1>3. SUFFICES inFront(d) = IF inFront(c) > all + 1 THEN all + 2 ELSE inFront(c) + 1
    OBVIOUS
<1>4. before(0) = 0
    BY <1>1, BeforeSteps
<1>5. CASE c.pos < 0
    <2>1. d = At(c, c.pos + 1)
        BY <1>5 DEF toNextToken
    <2>2. around = 0
        BY <1>1, <1>5, AroundSteps DEF Within
    <2>3. inFront(c) = c.pos + 1
        BY <1>1, <1>5, InFrontIs
    <2>4. inFront(At(c, c.pos + 1)) = c.pos + 2
        <3>1. CASE c.pos + 1 < 0
            <4> DEFINE q == c.pos + 1
            <4>1. q \in Int /\ q < 0 /\ q + 1 = c.pos + 2
                BY <1>1, <3>1
            <4> HIDE DEF q
            <4>2. inFront(At(c, q)) = q + 1
                BY <1>1, <4>1, InFrontAt
            <4> HIDE DEF inFront
            <4> QED BY <4>1, <4>2 DEF q
        <3>2. CASE c.pos + 1 = 0
            <4>1. inFront(At(c, 0)) = 1 + before(0) + around
                BY <1>1, InFrontAt
            <4> QED BY <1>1, <1>4, <2>2, <3>2, <4>1
        <3> QED BY <1>1, <1>5, <3>1, <3>2
    <2> HIDE DEF d, inFront, all
    <2>5. inFront(d) = c.pos + 2
        BY <2>1, <2>4
    <2> QED BY <1>1, <1>2, <1>5, <2>3, <2>5
<1>6. ASSUME c.pos >= 0, c.pos <= E
      PROVE  inFront(c) \in Nat /\ inFront(c) <= all + 1 /\ inFront(c) = 1 + before(c.pos) + around
    BY <1>1, <1>6, InFrontIsInRoot, InFrontIs
<1>7. CASE c.pos >= E /\ c.stack # << >>
    <2> DEFINE p == toParent(c)
               n == c.contents
               inner == count[n]
               at == Before(T, count, p.contents, p.pos)
               behind == Before(T, count, p.contents, p.pos + 1)
               outer == Around(T, count, p)
    <2>1. c.pos = E /\ c.pos >= 0
        BY <1>1, <1>7 DEF Within
    <2>2. At(c, E) = c
        BY <1>1, <2>1 DEF At, Cursor
    <2>3. d = At(p, p.pos + 1)
        BY <1>1, <2>1, <2>2 DEF toNextToken
    <2>4. p \in Cursor /\ Leads(T, p, n) /\ Inside(c, p)
        BY <1>7, ParentLeads
    <2> HIDE DEF p, d
    <2>5. /\ p.contents \in Node
          /\ p.pos \in countAttrs(T, p) .. end(T, p) - 1
          /\ elemAt(T, p, p.pos).value = n
        BY <2>4 DEF Leads, Cursor
    <2>6. p.pos \in 0 .. end(T, p)
        BY <2>5, PlaceType
    <2>7. p.pos \in Int /\ p.pos + 1 >= 0 /\ p.pos + 1 \in Int
        BY <2>5, PlaceType
    <2>8. behind = at + (2 + inner)
        <3>1. TokensOf(elemAt(T, p, p.pos), count) = 2 + inner
            BY <1>1, <2>5 DEF TokensOf
        <3> QED BY <2>5, <3>1, BeforeSteps
    <2>9. before(c.pos) = inner
        <3>1. before(c.pos) = inner + (c.pos - E)
            BY <1>1, <2>1, BeforeSteps
        <3>2. inner \in Nat
            BY <1>1 DEF Counts
        <3> HIDE DEF before
        <3> QED BY <1>1, <2>1, <3>1, <3>2
    <2>10. around = outer + (1 + at)
        BY <1>1, <2>4, AroundSteps
    <2>11. inFront(At(p, p.pos + 1)) = 1 + behind + outer
        BY <2>4, <2>7, InFrontAt
    <2>12. /\ inner \in Nat
           /\ at \in Nat
           /\ outer \in Nat
        <3>1. OnPath(T, p, rank)
            BY <1>1, ToParentStays DEF OnPath, p
        <3>2. count[p.contents] \in Nat /\ inner \in Nat
            BY <1>1, <2>5 DEF Counts
        <3>3. at \in 0 .. count[p.contents]
            BY <2>5, <2>6, BeforeType
        <3>4. outer \in Nat
            BY <3>1, AroundIsInRoot
        <3> HIDE DEF at, inner, outer
        <3> QED BY <3>2, <3>3, <3>4
    <2>13. inFront(c) \in Nat /\ inFront(c) <= all + 1 /\ inFront(c) = 1 + before(c.pos) + around
        BY <1>1, <1>6, <2>1
    <2> HIDE DEF inFront, before, around, all, inner, at, behind, outer
    <2>14. inFront(d) = 1 + behind + outer
        BY <2>3, <2>11
    <2>15. inFront(c) = 1 + inner + (outer + (1 + at))
        BY <2>9, <2>10, <2>13
    <2>16. inFront(d) = inFront(c) + 1
        BY <2>8, <2>12, <2>14, <2>15
    <2> QED BY <1>2, <2>13, <2>16
<1>8. CASE c.pos >= E /\ c.stack = << >>
    <2>1. d = At(At(c, E), At(c, E).pos + 1)
        <3>1. At(c, E).stack = << >>
            BY <1>1, <1>8 DEF At, Cursor
        <3>2. toParent(At(c, E)) = At(c, E)
            BY <3>1 DEF toParent
        <3> QED BY <1>1, <1>8, <3>2 DEF toNextToken
    <2>2. d = At(c, E + 1)
        BY <1>1, <2>1 DEF At, Cursor
    <2>3. around = 0
        BY <1>1, <1>8, AroundSteps
    <2>4. c.contents = Root
        <3>1. Stop(c, 1).contents = c.contents
            BY <1>8 DEF Stop
        <3> QED BY <3>1 DEF OnPath, IsPath
    <2>5. before(c.pos) = all + (c.pos - E) /\ before(E + 1) = all + (E + 1 - E)
        <3>1. E + 1 \in Int /\ E + 1 >= E
            BY <1>1
        <3> QED BY <1>1, <1>8, <2>4, <3>1, BeforeSteps
    <2>6. inFront(c) = 1 + before(c.pos) + around
        BY <1>1, <1>8, InFrontIs
    <2>7. inFront(At(c, E + 1)) = 1 + before(E + 1) + around
        BY <1>1, InFrontAt
    <2> HIDE DEF d, inFront, before, around, all
    <2>8. inFront(d) = all + 2
        BY <1>1, <1>2, <2>2, <2>3, <2>5, <2>7
    <2>9. inFront(c) = all + 1 + (c.pos - E)
        BY <1>1, <1>2, <2>3, <2>5, <2>6
    <2> QED BY <1>1, <1>2, <1>8, <2>8, <2>9
<1>9. CASE c.pos >= 0 /\ c.pos < E /\ enters(T, c)
    <2> DEFINE n == elemAt(T, c, c.pos).value
    <2>1. d = rememberAndSwap(c, n)
        BY <1>1, <1>9 DEF toNextToken
    <2>2. d = [contents |-> n, pos |-> 0, stack |-> Append(c.stack, [contents |-> c.contents, pos |-> c.pos])]
        BY <2>1 DEF rememberAndSwap
    <2>3. Inside(d, c) /\ d.pos = 0 /\ d.contents = n
        BY <2>2 DEF Inside
    <2>4. d \in Cursor
        BY <1>1, <1>9, <2>1, EnterStays DEF OnPath, Ranked
    <2> HIDE DEF d
    <2>5. Around(T, count, d) = around + (1 + before(c.pos))
        BY <1>1, <2>3, <2>4, AroundSteps
    <2>6. Before(T, count, d.contents, d.pos) = 0
        BY <2>3, <2>4, BeforeSteps DEF Cursor
    <2>7. inFront(d) = 1 + Before(T, count, d.contents, d.pos) + Around(T, count, d)
        BY <2>3, <2>4, InFrontIs
    <2>8. inFront(c) \in Nat /\ inFront(c) <= all + 1 /\ inFront(c) = 1 + before(c.pos) + around
        BY <1>1, <1>6, <1>9
    <2>9. before(c.pos) \in Nat
        <3>1. c.pos \in 0 .. E /\ count[c.contents] \in Nat
            BY <1>1, <1>9 DEF Counts
        <3>2. before(c.pos) \in 0 .. count[c.contents]
            BY <1>1, <3>1, BeforeType
        <3> HIDE DEF before
        <3> QED BY <3>1, <3>2
    <2> HIDE DEF inFront, before, around, all
    <2>10. inFront(d) = inFront(c) + 1
        BY <1>2, <2>5, <2>6, <2>7, <2>8, <2>9
    <2> QED BY <1>2, <2>8, <2>10
<1>10. CASE c.pos >= 0 /\ c.pos < E /\ ~enters(T, c)
    <2>1. d = At(c, c.pos + 1)
        BY <1>1, <1>10 DEF toNextToken
    <2>2. before(c.pos + 1) = before(c.pos) + 1
        <3>1. CASE c.pos < A
            <4>1. c.pos \in 0 .. A - 1
                BY <1>1, <1>10, <3>1
            <4> QED BY <1>1, <4>1, BeforeSteps
        <3>2. CASE c.pos >= A
            <4>1. c.pos \in A .. E - 1
                BY <1>1, <1>10, <3>2
            <4>2. TokensOf(elemAt(T, c, c.pos), count) = 1
                BY <1>1, <1>10, <4>1, OneTokenUnlessEntered
            <4> QED BY <1>1, <4>1, <4>2, BeforeSteps
        <3> QED BY <1>1, <3>1, <3>2
    <2>3. inFront(At(c, c.pos + 1)) = 1 + before(c.pos + 1) + around
        BY <1>1, <1>10, InFrontAt
    <2>4. inFront(c) \in Nat /\ inFront(c) <= all + 1 /\ inFront(c) = 1 + before(c.pos) + around
        BY <1>1, <1>6, <1>10
    <2>5. before(c.pos) \in Nat
        <3>1. c.pos \in 0 .. E /\ count[c.contents] \in Nat
            BY <1>1, <1>10 DEF Counts
        <3>2. before(c.pos) \in 0 .. count[c.contents]
            BY <1>1, <3>1, BeforeType
        <3> HIDE DEF before
        <3> QED BY <3>1, <3>2
    <2> HIDE DEF d, inFront, before, around, all
    <2>6. inFront(d) = inFront(c) + 1
        BY <1>2, <2>1, <2>2, <2>3, <2>4, <2>5
    <2> QED BY <1>2, <2>4, <2>6
<1> QED BY <1>1, <1>5, <1>7, <1>8, <1>9, <1>10

(* Back, by one token. *)
LEMMA PrevTokenIsBefore ==
    ASSUME NEW T \in Tree, NEW count, Counts(T, count), NEW rank \in [Node -> Nat], Ranks(T, rank),
           NEW c, OnPath(T, c, rank), Within(T, c)
    PROVE  InFront(T, count, toPrevToken(T, c)) = InFront(T, count, c) - 1
<1> DEFINE d == toPrevToken(T, c)
           A == countAttrs(T, c)
           E == end(T, c)
           b == At(c, c.pos - 1)
           inFront(x) == InFront(T, count, x)
           before(pos) == Before(T, count, c.contents, pos)
           around == Around(T, count, c)
<1>1. c \in Cursor /\ c.contents \in Node /\ c.pos \in Int /\ A \in Nat /\ E \in Nat /\ A <= E
    BY PlaceType, CursorAssumption DEF OnPath, Cursor
<1>2. around \in Nat /\ count[c.contents] \in Nat
    BY <1>1, AroundIsInRoot DEF Counts
<1>3. SUFFICES inFront(d) = inFront(c) - 1
    OBVIOUS
<1>4. before(0) = 0
    BY <1>1, BeforeSteps
<1>5. /\ b \in Cursor
      /\ b.pos = c.pos - 1
      /\ b.contents = c.contents
      /\ b.stack = c.stack
      /\ countAttrs(T, b) = A
      /\ end(T, b) = E
    BY <1>1 DEF At, Cursor, end, countAttrs, countElems
<1>6. CASE c.pos = 0 /\ c.stack = << >>
    <2>1. d = At(c, -1)
        BY <1>6 DEF toPrevToken
    <2>2. inFront(At(c, -1)) = -1 + 1
        <3>1. -1 \in Int /\ -1 < 0
            OBVIOUS
        <3> QED BY <1>1, <3>1, InFrontAt
    <2>3. inFront(c) = 1 + before(c.pos) + around
        BY <1>1, <1>6, InFrontIs
    <2>4. around = 0
        BY <1>1, <1>6, AroundSteps
    <2>5. before(c.pos) = 0
        BY <1>4, <1>6
    <2> HIDE DEF d, inFront, before, around
    <2>6. inFront(d) = 0 /\ inFront(c) = 1
        BY <2>1, <2>2, <2>3, <2>4, <2>5
    <2> QED BY <2>6
<1>7. CASE c.pos = 0 /\ c.stack # << >>
    <2> DEFINE p == toParent(c)
               at == Before(T, count, p.contents, p.pos)
               outer == Around(T, count, p)
    <2>1. d = p
        BY <1>7 DEF toPrevToken
    <2>2. p \in Cursor /\ Leads(T, p, c.contents) /\ Inside(c, p)
        BY <1>7, ParentLeads
    <2>3. OnPath(T, p, rank)
        BY <1>1, ToParentStays DEF OnPath
    <2> HIDE DEF p, d
    <2>4. p.contents \in Node /\ p.pos \in 0 .. end(T, p) /\ p.pos >= 0
        <3>1. p.contents \in Node /\ p.pos \in countAttrs(T, p) .. end(T, p) - 1
            BY <2>2 DEF Leads, Cursor
        <3> QED BY <3>1, PlaceType
    <2>5. inFront(p) = 1 + at + outer
        BY <2>2, <2>4, InFrontIs
    <2>6. inFront(c) = 1 + before(c.pos) + around
        BY <1>1, <1>7, InFrontIs
    <2>7. around = outer + (1 + at)
        BY <1>1, <2>2, AroundSteps
    <2>8. outer \in Nat /\ at \in Nat
        <3>1. outer \in Nat
            BY <2>3, AroundIsInRoot
        <3>2. at \in 0 .. count[p.contents] /\ count[p.contents] \in Nat
            BY <2>4, BeforeType DEF Counts
        <3> HIDE DEF at, outer
        <3> QED BY <3>1, <3>2
    <2>9. before(c.pos) = 0
        BY <1>4, <1>7
    <2> HIDE DEF inFront, before, around, at, outer
    <2>10. inFront(c) = 1 + 0 + (outer + (1 + at))
        BY <2>6, <2>7, <2>9
    <2> QED BY <2>1, <2>5, <2>8, <2>10
<1>8. CASE c.pos < 0
    <2>1. ~(b.pos \in countAttrs(T, b) .. end(T, b) - 1)
        BY <1>1, <1>5, <1>8
    <2>2. ~enters(T, b)
        <3>1. b.contents \in Node /\ b.pos \in Int
            BY <1>1, <1>5
        <3> QED BY <2>1, <3>1, EntersLeads DEF Leads
    <2>3. d = b
        BY <1>1, <1>8, <2>2 DEF toPrevToken
    <2>4. inFront(b) = b.pos + 1
        BY <1>1, <1>5, <1>8, InFrontIs
    <2>5. inFront(c) = c.pos + 1
        BY <1>1, <1>8, InFrontIs
    <2> HIDE DEF d, b, inFront
    <2>6. inFront(d) = (c.pos - 1) + 1
        BY <1>5, <2>3, <2>4
    <2> QED BY <1>1, <2>5, <2>6
<1> DEFINE q == c.pos - 1
<1>9. ASSUME c.pos > 0
      PROVE  /\ q \in Nat
             /\ q + 1 = c.pos
             /\ inFront(c) = 1 + before(q + 1) + around
             /\ inFront(b) = 1 + before(q) + around
    <2>1. inFront(c) = 1 + before(c.pos) + around
        BY <1>1, <1>9, InFrontIs
    <2>2. q \in Nat /\ q + 1 = c.pos
        BY <1>1, <1>9
    <2>3. inFront(At(c, q)) = 1 + before(q) + around
        <3> HIDE DEF q
        <3>1. q \in Int /\ q >= 0
            BY <2>2
        <3> QED BY <1>1, <3>1, InFrontAt
    <2> HIDE DEF inFront, before, around
    <2> QED BY <2>1, <2>2, <2>3
<1>10. CASE c.pos > 0 /\ enters(T, b)
    <2> DEFINE n == elemAt(T, b, b.pos).value
               inside == rememberAndSwap(b, n)
               inner == count[n]
    <2>1. d = At(inside, end(T, inside))
        BY <1>1, <1>10 DEF toPrevToken
    <2>2. OnPath(T, b, rank)
        <3>1. c.pos - 1 \in Int
            BY <1>1
        <3> QED BY <1>1, <3>1, AtStays DEF OnPath
    <2>3. Leads(T, b, n)
        <3>1. b.contents \in Node /\ b.pos \in Int
            BY <1>1, <1>5
        <3> HIDE DEF b
        <3> QED BY <1>10, <3>1, EntersLeads
    <2>4. n \in Node /\ b.pos \in countAttrs(T, b) .. end(T, b) - 1
        BY <2>3 DEF Leads
    <2>5. inside = [contents |-> n, pos |-> 0,
                    stack |-> Append(b.stack, [contents |-> b.contents, pos |-> b.pos])]
        BY DEF rememberAndSwap
    <2>6. Inside(inside, b) /\ inside.contents = n
        BY <2>5 DEF Inside
    <2> HIDE DEF b, d
    <2>7. inside \in Cursor
        BY <1>10, <2>2, EnterStays DEF OnPath, Ranked
    <2> HIDE DEF inside
    <2>8. end(T, inside) \in Nat
        BY <2>4, <2>6, PlaceType
    <2>9. Before(T, count, inside.contents, end(T, inside)) = inner
        <3>1. Before(T, count, inside.contents, end(T, inside)) = inner + (end(T, inside) - end(T, inside))
            BY <2>4, <2>6, <2>8, BeforeSteps
        <3>2. inner \in Nat
            BY <2>4 DEF Counts
        <3> QED BY <2>8, <3>1, <3>2
    <2>10. Around(T, count, inside) = Around(T, count, b) + (1 + Before(T, count, b.contents, b.pos))
        BY <1>5, <2>6, <2>7, AroundSteps
    <2>11. inFront(At(inside, end(T, inside))) =
               1 + Before(T, count, inside.contents, end(T, inside)) + Around(T, count, inside)
        BY <2>7, <2>8, InFrontAt
    <2>12. Around(T, count, b) = around
        BY <1>5 DEF Around
    <2>13. before(q + 1) = before(q) + (2 + inner)
        <3>1. TokensOf(elemAt(T, b, b.pos), count) = 2 + inner
            BY <2>4 DEF TokensOf
        <3>2. q \in A .. E - 1 /\ elemAt(T, b, b.pos) = elemAt(T, c, q)
            BY <1>5, <2>4 DEF elemAt, countAttrs
        <3> HIDE DEF q
        <3> QED BY <1>1, <3>1, <3>2, BeforeSteps
    <2>14. before(q) \in Nat /\ inner \in Nat
        <3>1. q \in 0 .. E
            BY <1>1, <1>5, <1>9, <1>10, <2>4
        <3> HIDE DEF q
        <3>2. before(q) \in 0 .. count[c.contents]
            BY <1>1, <3>1, BeforeType
        <3>3. inner \in Nat
            BY <2>4 DEF Counts
        <3> HIDE DEF before
        <3> QED BY <1>2, <3>2, <3>3
    <2>15. Before(T, count, b.contents, b.pos) = before(q)
        BY <1>5
    <2>16. inFront(c) = 1 + before(q + 1) + around
        BY <1>9, <1>10
    <2> HIDE DEF inFront, before, around, inner, q
    <2>17. inFront(d) = 1 + inner + (around + (1 + before(q)))
        BY <2>1, <2>9, <2>10, <2>11, <2>12, <2>15
    <2> QED BY <1>2, <2>13, <2>14, <2>16, <2>17
<1>11. CASE c.pos > 0 /\ ~enters(T, b)
    <2>1. d = b
        BY <1>1, <1>11 DEF toPrevToken
    <2>2. /\ q \in Nat
          /\ inFront(c) = 1 + before(q + 1) + around
          /\ inFront(b) = 1 + before(q) + around
        BY <1>9, <1>11
    <2>3. before(q + 1) = before(q) + 1 /\ before(q) \in Int
        <3>1. CASE q < A
            <4>1. q \in 0 .. A - 1 /\ q \in 0 .. E
                BY <1>1, <2>2, <3>1
            <4> HIDE DEF q
            <4>2. before(q + 1) = before(q) + 1
                BY <1>1, <4>1, BeforeSteps
            <4>3. before(q) \in 0 .. count[c.contents]
                BY <1>1, <4>1, BeforeType
            <4> HIDE DEF before
            <4> QED BY <1>2, <4>2, <4>3
        <3>2. CASE q >= A /\ q < E
            <4>1. q \in A .. E - 1 /\ q \in 0 .. E
                BY <1>1, <2>2, <3>2
            <4>2. b.pos = q /\ b.pos \in countAttrs(T, b) .. end(T, b) - 1 /\ b.contents \in Node
                BY <1>1, <1>5, <4>1
            <4>3. TokensOf(elemAt(T, b, b.pos), count) = 1
                <5> HIDE DEF b
                <5> QED BY <1>11, <4>2, OneTokenUnlessEntered
            <4>4. elemAt(T, b, b.pos) = elemAt(T, c, q)
                BY <1>5 DEF elemAt, countAttrs
            <4> HIDE DEF q, b
            <4>5. before(q + 1) = before(q) + 1
                BY <1>1, <4>1, <4>3, <4>4, BeforeSteps
            <4>6. before(q) \in 0 .. count[c.contents]
                BY <1>1, <4>1, BeforeType
            <4> HIDE DEF before
            <4> QED BY <1>2, <4>5, <4>6
        <3>3. CASE q >= E
            <4>1. q \in Int /\ q >= E /\ q + 1 \in Int /\ q + 1 >= E
                BY <1>1, <2>2, <3>3
            <4> HIDE DEF q
            <4>2. before(q) = count[c.contents] + (q - E) /\ before(q + 1) = count[c.contents] + (q + 1 - E)
                BY <1>1, <4>1, BeforeSteps
            <4> HIDE DEF before
            <4> QED BY <1>1, <1>2, <4>1, <4>2
        <3> QED BY <1>1, <2>2, <3>1, <3>2, <3>3
    <2> HIDE DEF inFront, before, around, q, d, b
    <2> QED BY <1>2, <2>1, <2>2, <2>3
<1> QED BY <1>1, <1>6, <1>7, <1>8, <1>10, <1>11

-----------------------------------------------------------------------------
(* The order of the tokens *)

(* What the token moves need: the tokens can be counted, as only finitely  *)
(* many Contents have elements and none is in itself, and the cursor is at *)
(* a position of its Contents unless it is outside of the document.        *)
TInv ==
    /\ IInv
    /\ IsFiniteSet(Filled(tree))
    /\ Within(tree, cursor)

LEMMA TokensInit == Init => TInv
<1> SUFFICES ASSUME Init PROVE TInv
    OBVIOUS
<1>1. Filled(tree) = {}
    BY DEF Init, Filled, tree
<1>2. IsFiniteSet(Filled(tree))
    BY <1>1, FS_EmptySet
<1>3. Within(tree, cursor)
    BY DEF Init, Within
<1> QED BY <1>2, <1>3, InitStep DEF TInv

LEMMA TokensStep == TInv /\ [Next]_vars => TInv'
<1> SUFFICES ASSUME TInv, [Next]_vars PROVE TInv'
    OBVIOUS
<1>1. IInv /\ IsFiniteSet(Filled(tree)) /\ Within(tree, cursor)
    BY DEF TInv
<1>2. IInv'
    BY <1>1, NextStep
<1>3. IsFiniteSet(Filled(tree'))
    <2>1. PICK m : \A n \in Node \ {cursor.contents, m} : elems'[n] = elems[n]
        BY <1>1, StepsFillFew
    <2>2. \A n \in Node \ {cursor.contents, m} : tree'.elems[n] = tree.elems[n]
        BY <2>1 DEF tree
    <2> QED BY <1>1, <2>2, FewAreFilled
<1>4. Within(tree, cursor)'
    <2>1. CASE Move
        BY <1>1, <2>1, MoveIsWithin
    <2>2. CASE Edit
        BY <1>1, <2>2, EditIsWithin
    <2>3. CASE UNCHANGED vars
        <3>1. tree' = tree /\ cursor' = cursor
            BY <2>3 DEF vars, tree
        <3> QED BY <1>1, <3>1
    <2> QED BY <2>1, <2>2, <2>3 DEF Next
<1> QED BY <1>2, <1>3, <1>4 DEF TInv

(* Wherever moves and edits left the cursor, toNextToken visits the tokens *)
(* of the document one by one, in front of, inside and behind every        *)
(* element, and toPrevToken visits them backwards.                         *)
THEOREM TokensAreInOrder == Spec => []TokensInOrder
<1>1. TInv => TokensInOrder
    <2> SUFFICES ASSUME TInv PROVE TokensInOrder
        OBVIOUS
    <2> DEFINE count == tokens(tree)
    <2>1. PICK rank \in [Node -> Nat] : Ranks(tree, rank) /\ OnPath(tree, cursor, rank)
        BY IInvHolds DEF TInv, Holds
    <2>2. tree \in Tree /\ Within(tree, cursor) /\ IsFiniteSet(Filled(tree))
        BY DEF TInv, IInv, TypeOK
    <2>3. Counts(tree, count)
        BY <2>1, <2>2, TokensDefined DEF Counts
    <2> HIDE DEF count
    <2>4. InFront(tree, count, toNextToken(tree, cursor)) =
              IF InFront(tree, count, cursor) > count[Root] + 1 THEN count[Root] + 2
              ELSE InFront(tree, count, cursor) + 1
        BY <2>1, <2>2, <2>3, NextTokenIsNext
    <2>5. InFront(tree, count, toPrevToken(tree, cursor)) = InFront(tree, count, cursor) - 1
        BY <2>1, <2>2, <2>3, PrevTokenIsBefore
    <2> QED BY <2>4, <2>5 DEF TokensInOrder, count
<1>2. Spec => []TInv
    BY TokensInit, TokensStep, PTL DEF Spec
<1> QED BY <1>1, <1>2, PTL
=============================================================================
