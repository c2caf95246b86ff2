----------------------------- MODULE DictLoops -----------------------------
(***************************************************************************)
(* The loops of ElemDict as Dict.cpp writes them, which ElemDict's         *)
(* operators abstract: a loop is the function from a number of iterations  *)
(* to what its variables then hold.                                        *)
(***************************************************************************)
EXTENDS ElemDict

(* find, set and removeAt look for an entry of u and count nr down at each  *)
(* they pass; found is where they stop.                                     *)
search(d, u, nr) ==
    LET after[k \in 0 .. Len(d)] ==
            IF k = 0 THEN [nr |-> nr, found |-> 0]
            ELSE IF after[k - 1].found # 0 \/ d[k].name # u THEN after[k - 1]
            ELSE [nr |-> after[k - 1].nr - 1, found |-> IF after[k - 1].nr = 0 THEN k ELSE 0]
    IN  after

searched(d, u, nr) == search(d, u, nr)[Len(d)]

findLoop(d, u, nr) ==
    LET i == searched(d, u, nr).found
    IN  IF i = 0 THEN NULL ELSE d[i].value

setLoop(d, u, pos, v) ==
    LET s == searched(d, u, pos)
    IN  IF s.found # 0
        THEN [d EXCEPT ![s.found].value = v]
        ELSE add(d \o [i \in 1 .. s.nr |-> entry(u, NULL)], u, v)

removeAtLoop(d, u, index) ==
    LET i == searched(d, u, index).found
    IN  IF i = 0 THEN d ELSE RemoveAt(d, i)

(* del goes through the vector, moves each entry to p2, where the next that *)
(* stays goes, and empties those it does not keep.                          *)
blank == [name |-> NULL, value |-> NULL]

delStep(s, u, p) ==
    LET moved == IF p # s.p2 + 1 THEN [s.contents EXCEPT ![s.p2 + 1] = s.contents[p]] ELSE s.contents
    IN  IF moved[p].name = u
        THEN [contents |-> [moved EXCEPT ![p] = blank], p2 |-> s.p2, ile |-> s.ile + 1]
        ELSE [contents |-> moved, p2 |-> s.p2 + 1, ile |-> s.ile]

deleting(d, u) ==
    LET after[p \in 0 .. Len(d)] ==
            IF p = 0 THEN [contents |-> d, p2 |-> 0, ile |-> 0] ELSE delStep(after[p - 1], u, p)
    IN  after

delLoop(d, u) ==
    LET s == deleting(d, u)[Len(d)]
    IN  SubSeq(s.contents, 1, Len(d) - s.ile)
=============================================================================
