----------------------------- MODULE XmlCursor -----------------------------
(***************************************************************************)
(* Class XmlCursor (XmlCursor.cpp): a position in a tree of Contents, and  *)
(* the moves and edits made there.  A Contents with A attributes and B     *)
(* elements has the positions 0 .. A - 1 (attributes), A .. A + B - 1      *)
(* (elements, texts among them) and A + B (its end).  The stack holds the  *)
(* place the cursor left in each Contents around the one it is in.         *)
(*                                                                         *)
(* A move is an operator from a cursor to a cursor, so that the moves made *)
(* of others compose.  A move that returns false leaves the cursor alone.  *)
(***************************************************************************)
EXTENDS Integers, SequencesExt, FiniteSetsExt, Sublists

CONSTANTS
    Node,       \* identities of Contents objects
    Root,       \* the Contents the cursor was made for
    ElemName,   \* names of elements
    TextName,   \* XmlBeans::textElementName()
    String,     \* the contents of a text (a StringContents)
    NULL,       \* no contents
    MaxAttrs,   \* bound: attributes of a Contents
    MaxElems,   \* bound: elements of a Contents
    MaxTotal,   \* bound: elements of all Contents together
    MaxBefore   \* bound: how far in front of the document a cursor goes

ASSUME CursorAssumption ==
    /\ Root \in Node
    /\ TextName \notin ElemName
    /\ {NULL, String} \cap Node = {}
    /\ {MaxAttrs, MaxElems, MaxTotal, MaxBefore} \subseteq Nat
    /\ MaxBefore > 1

VARIABLES
    attrs,   \* the attributes of each Contents, by their kind
    elems,   \* the elements of each Contents
    cursor

vars == <<attrs, elems, cursor>>

AttrType == {"INT_ATTR", "INT_NAMESPACE"}

Element == [name : ElemName, value : Node \cup {NULL}]
Text == [name |-> TextName, value |-> String]
Elem == Element \cup {Text}

Tree == [attrs : [Node -> BoundedSeq(AttrType, MaxAttrs)],
         elems : [Node -> BoundedSeq(Elem, MaxElems)]]

tree == [attrs |-> attrs, elems |-> elems]

Place  == [contents : Node, pos : Int]
Cursor == [contents : Node, pos : Int, stack : Seq(Place)]

TypeOK ==
    /\ tree \in Tree
    /\ cursor \in Cursor

-----------------------------------------------------------------------------
(* Where a cursor is *)

countAttrs(T, c) == Len(T.attrs[c.contents])
countElems(T, c) == Len(T.elems[c.contents])
end(T, c) == countAttrs(T, c) + countElems(T, c)

(* The element at a position, which has to be one of an element. *)
elemAt(T, c, pos) == T.elems[c.contents][pos - countAttrs(T, c) + 1]

currentTokenType(T, c) ==
    CASE c.stack = << >> /\ c.pos = -1        -> "INT_STARTDOC"
      [] c.stack = << >> /\ c.pos = end(T, c) -> "INT_ENDDOC"
      [] c.stack # << >> /\ c.pos = end(T, c) -> "INT_END"
      [] c.pos \in 0 .. countAttrs(T, c) - 1  -> T.attrs[c.contents][c.pos + 1]
      [] c.pos \in countAttrs(T, c) .. end(T, c) - 1 ->
            IF elemAt(T, c, c.pos).name = TextName THEN "INT_TEXT" ELSE "INT_START"
      [] OTHER -> "INT_NONE"

(* At a start-element token whose element has contents to enter. *)
enters(T, c) ==
    /\ currentTokenType(T, c) = "INT_START"
    /\ elemAt(T, c, c.pos).value # NULL

-----------------------------------------------------------------------------
(* The moves *)

At(c, pos) == [c EXCEPT !.pos = pos]

(* Mutant: the place behind the element is remembered. *)
rememberBehind(c, contents) ==
    [contents |-> contents, pos |-> 0,
     stack    |-> Append(c.stack, [contents |-> c.contents, pos |-> c.pos + 1])]

rememberAndSwap(c, contents) ==
    [contents |-> contents, pos |-> 0,
     stack    |-> Append(c.stack, [contents |-> c.contents, pos |-> c.pos])]

toParent(c) ==
    IF c.stack = << >>
    THEN c
    ELSE [contents |-> Last(c.stack).contents, pos |-> Last(c.stack).pos,
          stack    |-> Front(c.stack)]

toNextToken(T, c) ==
    IF c.pos < 0 THEN At(c, c.pos + 1)
    ELSE IF c.pos >= end(T, c)
         THEN LET outside == toParent(At(c, end(T, c)))
              IN  At(outside, outside.pos + 1)
    ELSE IF enters(T, c) THEN rememberAndSwap(c, elemAt(T, c, c.pos).value)
    ELSE At(c, c.pos + 1)

(* Mutant: going back into an element stops at its first position. *)
toPrevTokenAtFirst(T, c) ==
    IF c.pos = 0
    THEN IF c.stack = << >> THEN At(c, -1) ELSE toParent(c)
    ELSE LET before == At(c, c.pos - 1)
         IN  IF enters(T, before)
             THEN rememberAndSwap(before, elemAt(T, before, before.pos).value)
             ELSE before

toPrevToken(T, c) ==
    IF c.pos = 0
    THEN IF c.stack = << >> THEN At(c, -1) ELSE toParent(c)
    ELSE LET before == At(c, c.pos - 1)
         IN  IF enters(T, before)
             THEN LET inside == rememberAndSwap(before, elemAt(T, before, before.pos).value)
                  IN  At(inside, end(T, inside))
             ELSE before

toEndToken(T, c) == At(c, end(T, c))

(* toStartDoc leaves every Contents, and goes to the first position. *)
toStartDoc(c) ==
    IF c.stack = << >>
    THEN At(c, 0)
    ELSE [contents |-> c.stack[1].contents, pos |-> 0, stack |-> << >>]

toFirstContentToken(T, c) ==
    IF currentTokenType(T, c) = "INT_STARTDOC" \/ enters(T, c)
    THEN LET inside == toNextToken(T, c) IN At(inside, countAttrs(T, inside))
    ELSE c

(* The positions of the elements, or of those of one name. *)
Elements(T, c) ==
    {p \in countAttrs(T, c) .. end(T, c) - 1 : elemAt(T, c, p).name # TextName}
Named(T, c, name) ==
    {p \in countAttrs(T, c) .. end(T, c) - 1 : elemAt(T, c, p).name = name}

(* To the index-th of the positions S, counted in one direction: the loops *)
(* of toChild, toNextSibling and toPrevSibling.                            *)
Forward(c, S, index) ==
    LET at == {p \in S : Cardinality({q \in S : q <= p}) = index}
    IN  IF at = {} THEN c ELSE At(c, CHOOSE p \in at : TRUE)
Backward(c, S, index) ==
    LET at == {p \in S : Cardinality({q \in S : q >= p}) = index}
    IN  IF at = {} THEN c ELSE At(c, CHOOSE p \in at : TRUE)

toChild(T, c, index) == Forward(c, Elements(T, c), index)
toNamedChild(T, c, name, index) == Forward(c, Named(T, c, name), index)

toNextSibling(T, c, index) ==
    IF c.pos >= end(T, c) - 1
    THEN c ELSE Forward(c, {p \in Elements(T, c) : p > c.pos}, index)
toNextNamedSibling(T, c, name, index) ==
    IF c.pos >= end(T, c) - 1
    THEN c ELSE Forward(c, {p \in Named(T, c, name) : p > c.pos}, index)

(* Mutant: texts count as siblings on the way back. *)
toPrevElementOrText(T, c, index) ==
    IF c.pos <= 1
    THEN c ELSE Backward(c, countAttrs(T, c) .. Min({c.pos, end(T, c)}) - 1, index)

toPrevSibling(T, c, index) ==
    IF c.pos <= 1
    THEN c ELSE Backward(c, {p \in Elements(T, c) : p < c.pos}, index)

(* toLastChild steps back from the end. *)
toLastChild(T, c) ==
    LET last == toPrevSibling(T, toEndToken(T, c), 1)
    IN  IF last = toEndToken(T, c) THEN c ELSE last

toFirstAttribute(T, c) == IF countAttrs(T, c) = 0 THEN c ELSE At(c, 0)
toLastAttribute(T, c)  == IF countAttrs(T, c) = 0 THEN c ELSE At(c, countAttrs(T, c) - 1)
toNextAttribute(T, c)  == IF c.pos < countAttrs(T, c) - 1 THEN At(c, c.pos + 1) ELSE c

(* toPrevAttribute goes to the last attribute from anywhere behind it. *)
toPrevAttribute(T, c) ==
    IF countAttrs(T, c) = 0 \/ c.pos = 0
    THEN c ELSE At(c, Min({c.pos, countAttrs(T, c)}) - 1)

-----------------------------------------------------------------------------
(* The state machine: a client moves the cursor and edits the tree at it *)

moveTo(c) ==
    /\ c.pos >= -MaxBefore
    /\ cursor' = c
    /\ UNCHANGED <<attrs, elems>>

(* The place of an insertion among the elements. *)
elementPlace == Max({0, Min({cursor.pos - countAttrs(tree, cursor), countElems(tree, cursor)})})

inserted(e) == [elems EXCEPT ![cursor.contents] = InsertAt(@, elementPlace + 1, e)]

HasRoom ==
    /\ countElems(tree, cursor) < MaxElems
    /\ Cardinality(UNION {{n} \X DOMAIN elems[n] : n \in Node}) < MaxTotal

(* The Contents the cursor is in and those around it. *)
Surrounding == {cursor.contents} \cup {cursor.stack[i].contents : i \in DOMAIN cursor.stack}

ValuesIn(n) == {e.value : e \in Range(elems[n])}

(* Contents that nothing refers to: what newInstance may return. *)
Unused == Node \ ({Root} \cup Surrounding \cup UNION {ValuesIn(n) : n \in Node})

(* Contents that those around the cursor are not in, however deep: an       *)
(* element put into its own contents would make the document endless.       *)
Elsewhere ==
    {n \in Node : \E inside \in SUBSET (Node \ Surrounding) :
        n \in inside /\ \A m \in inside : ValuesIn(m) \cap Node \subseteq inside}

(* The element has no contents, or those of any object a client holds: of   *)
(* an element here, elsewhere in the document, or no longer in it.          *)
insertElement(name) ==
    /\ HasRoom
    /\ \E value \in Elsewhere \cup {NULL} :
          elems' = inserted([name |-> name, value |-> value])
    /\ UNCHANGED <<attrs, cursor>>

insertNew(name, new) ==
    /\ HasRoom
    /\ new \in Unused
    /\ attrs' = [attrs EXCEPT ![new] = << >>]
    /\ elems' = [inserted([name |-> name, value |-> new]) EXCEPT ![new] = << >>]

insertNewElement(name, new) == insertNew(name, new) /\ UNCHANGED cursor

(* beginElement goes to the next token of the tree it has changed. *)
beginElement(name, new) ==
    /\ insertNew(name, new)
    /\ cursor' = toNextToken([attrs |-> attrs', elems |-> elems'], cursor)

(* insertAttributeWithValue and insertNamespace.  In front of the document *)
(* the place to insert at is undefined: clients do not insert there.       *)
insertAttribute(type) ==
    /\ cursor.pos >= 0
    /\ countAttrs(tree, cursor) < MaxAttrs
    /\ attrs' = [attrs EXCEPT ![cursor.contents] =
                    InsertAt(@, Min({cursor.pos, countAttrs(tree, cursor)}) + 1, type)]
    /\ UNCHANGED <<elems, cursor>>

(* insertChars throws where no text can be. *)
insertChars ==
    /\ HasRoom
    /\ cursor.pos \in countAttrs(tree, cursor) .. end(tree, cursor)
    /\ elems' = inserted(Text)
    /\ UNCHANGED <<attrs, cursor>>

removeXml ==
    /\ cursor.pos \in 0 .. end(tree, cursor) - 1
    /\ IF cursor.pos < countAttrs(tree, cursor)
       THEN /\ attrs' = [attrs EXCEPT ![cursor.contents] = RemoveAt(@, cursor.pos + 1)]
            /\ UNCHANGED elems
       ELSE /\ elems' = [elems EXCEPT ![cursor.contents] = RemoveAt(@, elementPlace + 1)]
            /\ UNCHANGED attrs
    /\ UNCHANGED cursor

(* Mutant: setName renames texts too. *)
setAnyName(name) ==
    /\ cursor.pos \in countAttrs(tree, cursor) .. end(tree, cursor) - 1
    /\ elems' = [elems EXCEPT ![cursor.contents][elementPlace + 1].name = name]
    /\ UNCHANGED <<attrs, cursor>>

(* setName throws at a text and where there is nothing. *)
setName(name) ==
    /\ currentTokenType(tree, cursor) = "INT_START"
    /\ elems' = [elems EXCEPT ![cursor.contents][elementPlace + 1].name = name]
    /\ UNCHANGED <<attrs, cursor>>

setAttributeName(type) ==
    /\ cursor.pos \in 0 .. countAttrs(tree, cursor) - 1
    /\ attrs' = [attrs EXCEPT ![cursor.contents][cursor.pos + 1] = type]
    /\ UNCHANGED <<elems, cursor>>

(* setTextValue at an element replaces the texts in it by one at its end,  *)
(* or by none if the text is empty.                                        *)
setTextValue(texts) ==
    LET inside == elemAt(tree, cursor, cursor.pos).value
        left   == Kept(elems[inside], Element) \o texts
    IN  /\ enters(tree, cursor)
        /\ Len(left) <= MaxElems
        /\ elems' = [elems EXCEPT ![inside] = left]
        /\ UNCHANGED <<attrs, cursor>>

Texts == {<< >>, <<Text>>}

Init ==
    /\ attrs = [n \in Node |-> << >>]
    /\ elems = [n \in Node |-> << >>]
    /\ cursor = [contents |-> Root, pos |-> -1, stack |-> << >>]

Move ==
    \/ moveTo(toNextToken(tree, cursor))
    \/ moveTo(toPrevToken(tree, cursor))
    \/ moveTo(toParent(cursor))
    \/ moveTo(toStartDoc(cursor))
    \/ moveTo(toEndToken(tree, cursor))
    \/ moveTo(toFirstContentToken(tree, cursor))
    \/ moveTo(toLastChild(tree, cursor))
    \/ moveTo(toFirstAttribute(tree, cursor))
    \/ moveTo(toLastAttribute(tree, cursor))
    \/ moveTo(toNextAttribute(tree, cursor))
    \/ moveTo(toPrevAttribute(tree, cursor))
    \/ \E index \in 1 .. MaxElems :
          \/ moveTo(toChild(tree, cursor, index))
          \/ moveTo(toNextSibling(tree, cursor, index))
          \/ moveTo(toPrevSibling(tree, cursor, index))
          \/ \E name \in ElemName :
                \/ moveTo(toNamedChild(tree, cursor, name, index))
                \/ moveTo(toNextNamedSibling(tree, cursor, name, index))

Edit ==
    \/ \E name \in ElemName :
          \/ insertElement(name)
          \/ setName(name)
          \/ \E new \in Node : insertNewElement(name, new) \/ beginElement(name, new)
    \/ \E type \in AttrType : insertAttribute(type) \/ setAttributeName(type)
    \/ insertChars
    \/ removeXml
    \/ \E texts \in Texts : setTextValue(texts)

Next == Move \/ Edit

Spec == Init /\ [][Next]_vars

-----------------------------------------------------------------------------
(* Properties *)

(* The stack always describes the way from the root to the cursor: each place *)
(* on it is that of an element, and the next Contents are the element's.  No  *)
(* edit a cursor makes, in contents shared between elements included, takes   *)
(* the way back from it.                                                      *)
StackIsPath ==
    LET way == Append(cursor.stack, [contents |-> cursor.contents, pos |-> cursor.pos])
    IN  /\ way[1].contents = Root
        /\ \A i \in DOMAIN cursor.stack :
              LET at == [contents |-> way[i].contents, pos |-> way[i].pos, stack |-> << >>]
              IN  enters(tree, at) /\ elemAt(tree, at, at.pos).value = way[i + 1].contents

(* toPrevSibling undoes toNextSibling, texts between the two elements being    *)
(* skipped both ways, provided that the second is not at position 1: there     *)
(* toPrevSibling does not move.                                                *)
SiblingMovesReverse ==
    LET next == toNextSibling(tree, cursor, 1)
    IN  currentTokenType(tree, cursor) = "INT_START" /\ next # cursor /\ next.pos > 1
            => toPrevSibling(tree, next, 1) = cursor
=============================================================================
