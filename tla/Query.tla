------------------------------- MODULE Query -------------------------------
(***************************************************************************)
(* XmlObject::query and cquery (Query.cpp): the first element of an object *)
(* that meets a criterion, and one that is made where there is none.       *)
(*                                                                         *)
(* Texts are numbers in the order of texts, which for numbers is not their *)
(* own ("10" comes before "9").  A criterion is a tree of records with an  *)
(* operator; an element is a record of its name, its text, one attribute   *)
(* and its own elements.  Texts are the canonical ones of their types; a   *)
(* text that is not of its type (a boolean "maybe") is Illegal.            *)
(***************************************************************************)
EXTENDS Integers, SequencesExt

CONSTANTS
    Text,        \* numbers; 0 is the empty text
    TrueText, FalseText,
    NULL,
    Illegal,     \* a text that the type of its element or attribute refuses
    Declared,    \* names of the elements that the schema type of the object declares
    NoNamespace,
    ElementNames, Criteria,  \* what query is called with
    Element,     \* elements that clients append
    Creator,     \* elements that creator functions make
    MaxElements  \* bound: elements of the object

Star == "*"

VARIABLES
    hasContents,  \* the object has contents
    elems,        \* its elements
    call          \* the last call: name, criterion, creates, result, before

vars == <<hasContents, elems, call>>

-----------------------------------------------------------------------------
(* The values of a criterion: a sequence of texts, or Throws where a text   *)
(* has no canonical form.                                                   *)

Throws == [texts |-> << >>, throws |-> TRUE]
Texts(s) == [texts |-> s, throws |-> FALSE]

getCanonicalContent(text) == IF text = Illegal THEN Throws ELSE Texts(<<text>>)

(* Mutant: elements are found by their whole name, without a namespace. *)
findElemsQualified(e, name) ==
    SelectSeq(e, LAMBDA x : name = Star \/ (x.name.local = name /\ x.name.ns = NoNamespace))

(* The elements of a local name, whatever their namespaces. *)
findElems(e, name) == SelectSeq(e, LAMBDA x : name = Star \/ x.name.local = name)

compares(oper, a, b) ==
    CASE oper = "EQ" -> a = b
      [] oper = "LE" -> a <= b
      [] oper = "GE" -> a >= b
      [] oper = "LT" -> a < b
      [] oper = "GT" -> a > b

(* A comparison holds if it holds of some text of one side and some of the *)
(* other.                                                                  *)
any(oper, a, b) == \E i \in DOMAIN a, j \in DOMAIN b : compares(oper, a[i], b[j])

RECURSIVE getBooleanValue(_, _), getValue(_, _)

(* "true", "false" or "throws".  The second operand of AND and OR is        *)
(* evaluated only if the first leaves it open; NOT has the second one only. *)
getBooleanValue(q, o) ==
    LET truth(b) == IF b THEN "true" ELSE "false"
        a        == getBooleanValue(q.a, o)
        b        == getBooleanValue(q.b, o)
        values   == <<getValue(q.a, o), getValue(q.b, o)>>
    IN  CASE q.oper = "AND" -> IF a = "true" THEN b ELSE a
          [] q.oper = "OR"  -> IF a = "false" THEN b ELSE a
          [] q.oper = "NOT" -> IF b = "throws" THEN b ELSE truth(b = "false")
          [] q.oper \in {"EQ", "LE", "GE", "LT", "GT"} ->
                IF values[1].throws \/ values[2].throws THEN "throws"
                ELSE truth(any(q.oper, values[1].texts, values[2].texts))
          [] OTHER -> IF getValue(q, o).throws THEN "throws" ELSE truth(getValue(q, o).texts # << >>)

(* The text of an attribute that is missing is asked of an object without *)
(* contents, which has the empty one.                                     *)
getValue(q, o) ==
    LET found    == SelectSeq(findElems(o.elems, q.name), LAMBDA e : ~e.null)
        parts(e) == IF q.next = NULL THEN getCanonicalContent(e.text) ELSE getValue(q.next, e)
        both(r, e) ==
            IF r.throws \/ parts(e).throws THEN Throws ELSE Texts(r.texts \o parts(e).texts)
    IN  CASE q.oper = "string"    -> Texts(<<q.text>>)
          [] q.oper = "attribute" -> getCanonicalContent(IF o.attr = NULL THEN 0 ELSE o.attr)
          [] q.oper = "element"   -> FoldLeft(both, Texts(<< >>), found)
          [] OTHER ->
                LET b == getBooleanValue(q, o)
                IN  IF b = "throws" THEN Throws
                    ELSE Texts(<<IF b = "true" THEN TrueText ELSE FalseText>>)

-----------------------------------------------------------------------------
(* query returns the number of an element, 0 for none, or Thrown. *)

Thrown == -1

(* The elements that are looked at, in their order. *)
Candidates(name) ==
    SetToSortSeq({i \in DOMAIN elems : ~elems[i].null /\ findElems(<<elems[i]>>, name) # << >>}, <)

(* An object without contents has no elements of a name; asked for all of *)
(* them it throws.                                                        *)
query(name, q) ==
    LET meets(i) == getBooleanValue(q, elems[i])
        stops    == SelectSeq(Candidates(name), LAMBDA i : meets(i) # "false")
    IN  IF ~hasContents THEN (IF name = Star THEN Thrown ELSE 0)
        ELSE IF stops = << >> THEN 0
        ELSE IF meets(stops[1]) = "throws" THEN Thrown ELSE stops[1]

(* The declared names of this local name; the last of them in the order of *)
(* names, else one without a namespace.                                    *)
correctNames(name) ==
    LET declared == {n \in Declared : n.local = name}
    IN  IF declared = {} THEN {[ns |-> NoNamespace, local |-> name]} ELSE declared

(* What createSubObject gives is empty. *)
Empty == [null |-> FALSE, text |-> 0, attr |-> NULL, elems |-> << >>]

named(e, n) == [name |-> n, null |-> FALSE, text |-> e.text, attr |-> e.attr, elems |-> e.elems]

doQuery(name, q) ==
    /\ call' = [name |-> name, criterion |-> q, creates |-> FALSE, result |-> query(name, q),
                before |-> elems]
    /\ UNCHANGED <<hasContents, elems>>

(* Appending to an object without contents throws. *)
doCquery(name, q, made) ==
    LET r == query(name, q)
    IN  /\ \/ /\ r # 0 \/ ~hasContents
              /\ elems' = elems
           \/ /\ r = 0 /\ hasContents
              /\ Len(elems) < MaxElements
              /\ \E n \in correctNames(name) : elems' = Append(elems, named(made, n))
        /\ call' = [name |-> name, criterion |-> q, creates |-> TRUE, before |-> elems,
                    result |-> IF r # 0 THEN r
                               ELSE IF hasContents THEN Len(elems') ELSE Thrown]
        /\ UNCHANGED hasContents

(* Other operations on the object. *)
append(e) ==
    /\ hasContents
    /\ Len(elems) < MaxElements
    /\ elems' = Append(elems, e)
    /\ call' = NULL
    /\ UNCHANGED hasContents

createContents ==
    /\ hasContents' = TRUE
    /\ call' = NULL
    /\ UNCHANGED elems

Init ==
    /\ hasContents = FALSE
    /\ elems = << >>
    /\ call = NULL

Next ==
    \/ \E name \in ElementNames, q \in Criteria :
        \/ doQuery(name, q)
        \/ \E made \in Creator \cup {Empty} : doCquery(name, q, made)
    \/ \E e \in Element : append(e)
    \/ createContents

Spec == Init /\ [][Next]_vars

-----------------------------------------------------------------------------
(* Properties *)

(* What a criterion means: NOT is negation, a comparison speaks of some pair *)
(* of texts, and an attribute that is missing has the empty text, so that    *)
(* every element meets the criterion of an attribute alone.                  *)
RECURSIVE Meets(_, _), TextsOf(_, _)
Meets(q, e) ==
    CASE q.oper = "AND" -> Meets(q.a, e) /\ Meets(q.b, e)
      [] q.oper = "OR"  -> Meets(q.a, e) \/ Meets(q.b, e)
      [] q.oper = "NOT" -> ~Meets(q.b, e)
      [] q.oper \in {"string", "attribute", "element"} -> TextsOf(q, e) # {}
      [] OTHER -> \E a \in TextsOf(q.a, e), b \in TextsOf(q.b, e) : compares(q.oper, a, b)
TextsOf(q, e) ==
    CASE q.oper = "string"    -> {q.text}
      [] q.oper = "attribute" -> {IF e.attr = NULL THEN 0 ELSE e.attr} \ {Illegal}
      [] q.oper = "element"   ->
            UNION {IF q.next = NULL THEN {c.text} \ {Illegal} ELSE TextsOf(q.next, c) :
                    c \in {d \in Range(e.elems) : ~d.null /\ q.name \in {d.name.local, Star}}}
      [] OTHER -> {IF Meets(q, e) THEN TrueText ELSE FalseText}

(* The elements that meet the criterion of the last call. *)
Meeting ==
    {i \in DOMAIN call.before :
        /\ ~call.before[i].null
        /\ call.name \in {call.before[i].name.local, Star}
        /\ Meets(call.criterion, call.before[i])}

(* Where query returns, it returns the first element that meets the         *)
(* criterion as it is meant, or none because there is none; so does cquery, *)
(* unless it makes one.                                                     *)
ResultIsFirst ==
    call # NULL /\ call.result # Thrown =>
        IF Meeting = {} THEN call.result = (IF call.creates THEN Len(call.before) + 1 ELSE 0)
        ELSE call.result \in Meeting /\ \A i \in Meeting : call.result <= i

(* An element that cquery makes is found again, although query goes by its   *)
(* local name and cquery gives it a namespace: as long as it meets the       *)
(* criterion, or its creator function makes one that does, asking again      *)
(* finds it and does not make another.                                       *)
MadeIsFound ==
    call # NULL /\ call.creates /\ call.result # Thrown =>
        /\ call.name # Star => elems[call.result].name.local = call.name
        /\ Meets(call.criterion, elems[call.result]) => query(call.name, call.criterion) = call.result
=============================================================================
