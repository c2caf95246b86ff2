------------------------------ MODULE ElemDict ------------------------------
(***************************************************************************)
(* Class ElemDict (Dict.cpp): the ordered dictionary in which a Contents   *)
(* keeps its elements and its attributes.  A name may have several         *)
(* entries; an entry is addressed by its name and its number among the     *)
(* entries of that name.  Entries of a name may hold no value (NULL).      *)
(***************************************************************************)
EXTENDS Integers, SequencesExt, Sublists

CONSTANTS
    Name,    \* element names
    Object,  \* the contents an entry refers to
    NULL     \* no contents

ASSUME ElemDictAssumption == NULL \notin Object

EntriesOf(names) == [name : names, value : Object \cup {NULL}]

Entry == EntriesOf(Name)

entry(u, v) == [name |-> u, value |-> v]

(* The values of a name, in the order of their entries. *)
Values(d, u) ==
    LET es == Kept(d, EntriesOf({u}))
    IN  [i \in 1 .. Len(es) |-> es[i].value]

count(d, u) == Len(Values(d, u))

(* The place of the entry of u that has nr others before it. *)
Place(d, u, nr) ==
    CHOOSE i \in DOMAIN d : d[i].name = u /\ count(SubSeq(d, 1, i - 1), u) = nr

Has(d, u, nr) == nr \in 0 .. count(d, u) - 1

find(d, u, nr) == IF Has(d, u, nr) THEN d[Place(d, u, nr)].value ELSE NULL

add(d, u, v) == Append(d, entry(u, v))

(* Mutant: set adds no entries before the one it adds. *)
setUnpadded(d, u, pos, v) ==
    IF Has(d, u, pos)
    THEN [d EXCEPT ![Place(d, u, pos)].value = v]
    ELSE add(d, u, v)

(* set overwrites the entry if there is one; otherwise it adds the entries *)
(* that are missing before it, without a value, and then the entry.        *)
set(d, u, pos, v) ==
    IF Has(d, u, pos)
    THEN [d EXCEPT ![Place(d, u, pos)].value = v]
    ELSE add(d \o [i \in 1 .. pos - count(d, u) |-> entry(u, NULL)], u, v)

(* Mutant: the places del has emptied stay at the end. *)
delUnshrunk(d, u) ==
    Kept(d, EntriesOf(Name \ {u}))
        \o [i \in 1 .. count(d, u) |-> [name |-> NULL, value |-> NULL]]

del(d, u) == Kept(d, EntriesOf(Name \ {u}))

(* Mutant: removeAt leaves the entry, without its value. *)
removeValueAt(d, u, index) ==
    IF Has(d, u, index) THEN [d EXCEPT ![Place(d, u, index)].value = NULL] ELSE d

removeAt(d, u, index) ==
    IF Has(d, u, index) THEN RemoveAt(d, Place(d, u, index)) ELSE d
=============================================================================
