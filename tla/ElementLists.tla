---------------------------- MODULE ElementLists ----------------------------
(***************************************************************************)
(* What a Contents is to its client: under every element name, a list of   *)
(* child contents with holes.  The order between different names, which    *)
(* ElemDict keeps too, is not part of it.                                  *)
(***************************************************************************)
EXTENDS Integers, Sequences

CONSTANTS
    Name, Object, NULL

VARIABLE lists

vars == <<lists>>

(* The list with v at index i (from 0), grown with holes to reach it. *)
Placed(list, i, v) ==
    IF i < Len(list)
    THEN [list EXCEPT ![i + 1] = v]
    ELSE [k \in 1 .. i + 1 |-> IF k <= Len(list) THEN list[k]
                               ELSE IF k = i + 1 THEN v ELSE NULL]

Init == lists = [n \in Name |-> << >>]

Put(n, i, v) == lists' = [lists EXCEPT ![n] = Placed(@, i, v)]

Clear(n) == lists' = [lists EXCEPT ![n] = << >>]

Remove(n, i) ==
    /\ i < Len(lists[n])
    /\ lists' = [lists EXCEPT ![n] = SubSeq(@, 1, i) \o SubSeq(@, i + 2, Len(@))]

(* An element is put at an index that its list then has. *)
Next ==
    \E n \in Name :
        \/ Clear(n)
        \/ \E v \in Object : \E i \in 0 .. Len(lists'[n]) - 1 : Put(n, i, v)
        \/ \E i \in 0 .. Len(lists[n]) - 1 : Remove(n, i)

Spec == Init /\ [][Next]_vars
=============================================================================
