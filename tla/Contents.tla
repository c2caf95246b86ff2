------------------------------ MODULE Contents ------------------------------
(***************************************************************************)
(* One Contents object (Contents.cpp) that several threads work on through *)
(* Contents::Walker (Walker.cpp).  A method of Contents holds the object's *)
(* mutex; a function of Walker that calls two of them does not, so other   *)
(* threads run between its calls, on the elements of the same names too.   *)
(***************************************************************************)
EXTENDS DictLoops

CONSTANTS
    Thread,
    TextName,  \* XmlBeans::textElementName()
    MaxElems,  \* bound: no call starts that may add an element to this many, or
               \* while another one is to store at an index of this size
    MaxIndex,  \* bound: index a client passes
    MaxArray   \* bound: length of an array a client passes

ASSUME ContentsAssumption ==
    /\ TextName \in Name
    /\ {MaxElems, MaxIndex, MaxArray} \subseteq Nat
    /\ MaxArray > 0

VARIABLES
    elems,  \* the dictionary of elements
    op,     \* the call each thread is inside of, and how far it got
    disturbed  \* history, not in the code: see Noted

vars == <<elems, op, disturbed>>

ElemName == Name \ {TextName}

Arrays == BoundedSeq(Object, MaxArray)

(* A call in progress: the method it makes next, the element it is about,  *)
(* the values that are still to be stored, and the array it was given.     *)
Op ==
    [pc    : {"idle", "countElems", "getElem", "setElem"},
     call  : {"appendElem", "cgetElem", "setElemArray", "setSimpleContent"},
     name  : Name,
     index : Nat,
     todo  : Arrays,
     array : Arrays]

Idle ==
    [pc |-> "idle", call |-> "appendElem", name |-> TextName, index |-> 0,
     todo |-> << >>, array |-> << >>]

TypeOK ==
    /\ elems \in Seq(Entry)
    /\ op \in [Thread -> Op]
    /\ disturbed \subseteq Thread

Starts(t) ==
    /\ op[t].pc = "idle"
    /\ Len(elems) < MaxElems
    /\ \A s \in Thread : op[s].index < MaxElems

-----------------------------------------------------------------------------
(* Calls that are one method of Contents *)

setElem(t, n, v, i) ==
    /\ Starts(t)
    /\ elems' = set(elems, n, i, v)
    /\ UNCHANGED op

removeElems(t, n) ==
    /\ op[t].pc = "idle"
    /\ elems' = del(elems, n)
    /\ UNCHANGED op

removeElemAt(t, n, i) ==
    /\ op[t].pc = "idle"
    /\ elems' = removeAt(elems, n, i)
    /\ UNCHANGED op

-----------------------------------------------------------------------------
(* Calls that are several *)

Enter(t, pc, call, n, i, vs) ==
    op' = [op EXCEPT ![t] = [pc |-> pc, call |-> call, name |-> n, index |-> i,
                             todo |-> vs, array |-> vs]]

(* appendElem: countElems, then setElem at that index *)
appendElem(t, n, v) ==
    /\ Starts(t)
    /\ Enter(t, "countElems", "appendElem", n, 0, <<v>>)
    /\ UNCHANGED elems

(* cgetElem: getElem, and setElem of new contents if it finds none *)
cgetElem(t, n, i, new) ==
    /\ Starts(t)
    /\ Enter(t, "getElem", "cgetElem", n, i, <<new>>)
    /\ UNCHANGED elems

(* setElemArray: removeElems, then appendElem of each value *)
setElemArray(t, n, vs) ==
    /\ Starts(t)
    /\ elems' = del(elems, n)
    /\ IF vs = << >> THEN op' = op ELSE Enter(t, "countElems", "setElemArray", n, 0, vs)

(* Mutant: setSimpleContent appends the text. *)
setSimpleContentBehind(t, texts) ==
    /\ Starts(t)
    /\ elems' = del(elems, TextName)
    /\ IF texts = << >> THEN op' = op ELSE Enter(t, "countElems", "setSimpleContent", TextName, 0, texts)

(* Contents::setSimpleContent, which does not hold the mutex itself:       *)
(* removeElems of the text element, then setElem unless the text is empty. *)
setSimpleContent(t, texts) ==
    /\ Starts(t)
    /\ elems' = del(elems, TextName)
    /\ IF texts = << >> THEN op' = op ELSE Enter(t, "setElem", "setSimpleContent", TextName, 0, texts)

(* Mutant: the elements of every name are counted. *)
countAll(t) ==
    /\ op[t].pc = "countElems"
    /\ op' = [op EXCEPT ![t].index = Len(elems), ![t].pc = "setElem"]
    /\ UNCHANGED elems

countElems(t) ==
    /\ op[t].pc = "countElems"
    /\ op' = [op EXCEPT ![t].index = count(elems, op[t].name), ![t].pc = "setElem"]
    /\ UNCHANGED elems

getElem(t) ==
    /\ op[t].pc = "getElem"
    /\ op' = IF find(elems, op[t].name, op[t].index) = NULL
             THEN [op EXCEPT ![t].pc = "setElem"]
             ELSE [op EXCEPT ![t] = Idle]
    /\ UNCHANGED elems

storeElem(t) ==
    /\ op[t].pc = "setElem"
    /\ elems' = set(elems, op[t].name, op[t].index, Head(op[t].todo))
    /\ op' = IF Len(op[t].todo) = 1
             THEN [op EXCEPT ![t] = Idle]
             ELSE [op EXCEPT ![t].todo = Tail(@), ![t].pc = "countElems"]

-----------------------------------------------------------------------------

(* A thread has appendElem's place of the end, or setElemArray's list. *)
Holds(o) ==
    \/ o.call = "appendElem" /\ o.pc = "setElem"
    \/ o.call = "setElemArray" /\ o.pc # "idle"

(* The history of a step of t: the threads whose lists another one changed   *)
(* since they counted them in appendElem, or since their call of setElemArray *)
(* began.                                                                    *)
Noted(t) ==
    disturbed' =
        {s \in Thread :
            /\ Holds(op'[s])
            /\ \/ s \in disturbed
               \/ /\ s # t /\ Holds(op[s])
                  /\ Values(elems', op[s].name) # Values(elems, op[s].name)}

Init ==
    /\ elems = << >>
    /\ op = [t \in Thread |-> Idle]
    /\ disturbed = {}

Act(t) ==
    \/ \E n \in ElemName, v \in Object :
          \/ \E i \in 0 .. MaxIndex : setElem(t, n, v, i) \/ cgetElem(t, n, i, v)
          \/ appendElem(t, n, v)
    \/ \E n \in ElemName : removeElems(t, n)
    \/ \E n \in ElemName, i \in 0 .. MaxIndex : removeElemAt(t, n, i)
    \/ \E n \in ElemName, vs \in Arrays : setElemArray(t, n, vs)
    \/ \E vs \in BoundedSeq(Object, 1) : setSimpleContent(t, vs)
    \/ countElems(t)
    \/ getElem(t)
    \/ storeElem(t)

Next == \E t \in Thread : Act(t) /\ Noted(t)

Spec == Init /\ [][Next]_vars

-----------------------------------------------------------------------------
(* Properties *)

(* A two-step call does what it promises unless another thread changed the  *)
(* list of its own name meanwhile, whatever was done to other names and      *)
(* whatever ran between the count and the set: appendElem adds at the end of *)
(* the list, neither over an entry nor behind a hole, and a call to          *)
(* setElemArray that ends has made the list exactly the array, although it   *)
(* stored it entry by entry.                                                 *)
StoresInOrder(t) ==
    storeElem(t) /\ Holds(op[t]) /\ t \notin disturbed =>
        /\ Values(elems', op[t].name) = Append(Values(elems, op[t].name), Head(op[t].todo))
        /\ op[t].call = "setElemArray" /\ op'[t].pc = "idle" =>
               Values(elems', op[t].name) = op[t].array

CallsAreUndisturbed == [][\A t \in Thread : StoresInOrder(t)]_vars

(* However calls of setSimpleContent from several threads interleave, there *)
(* is one text element at most and it has contents: getSimpleContent, which *)
(* joins all of them and dereferences each, reads a text that was set.      *)
OneText ==
    /\ count(elems, TextName) <= 1
    /\ \A i \in DOMAIN elems : elems[i].name = TextName => elems[i].value # NULL

(* On every dictionary the threads can make, and for every index, negative   *)
(* ones included, the operators of ElemDict compute what the loops compute.  *)
OperatorsAreTheLoops ==
    \A u \in Name :
        /\ del(elems, u) = delLoop(elems, u)
        /\ \A i \in -1 .. MaxIndex + 1 :
            /\ find(elems, u, i) = findLoop(elems, u, i)
            /\ removeAt(elems, u, i) = removeAtLoop(elems, u, i)
            /\ \A v \in Object : set(elems, u, i, v) = setLoop(elems, u, i, v)

Lists == INSTANCE ElementLists WITH lists <- [n \in Name |-> Values(elems, n)]

(* The one ordered dictionary is, name by name, a list with holes.  Every   *)
(* step of every call, removals from the middle and entries added to reach  *)
(* an index included, changes one list, as a whole call on a list would,    *)
(* and moves, drops or duplicates no entry of the others.                   *)
ImplementsLists == Lists!Spec
=============================================================================
