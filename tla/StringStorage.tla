---------------------------- MODULE StringStorage ----------------------------
(***************************************************************************)
(* Interned strings (StoreString.h, StoreString.cpp).  StringStorage is    *)
(* the one table of remembered texts of the process; a StoreString is      *)
(* either an index of that table or a text of its own, told apart by the   *)
(* low bit of `buf'.  Each method of the table holds the table's mutex,    *)
(* but `add' takes it twice, and StoreString::store calls `add' and then   *)
(* `get': other threads run in between.                                    *)
(***************************************************************************)
EXTENDS Integers, Sequences

CONSTANTS
    Thread,     \* threads of the client
    Slot,       \* StoreString variables each thread has
    Text,       \* texts
    EmptyText,  \* the empty text
    NoText      \* not a text

ASSUME StringStorageAssumption ==
    /\ EmptyText \in Text
    /\ NoText \notin Text
    /\ Slot # {}

VARIABLES
    contents,  \* the index of each text in the table, 0 when it has none
    stored,    \* the table: the text at each place
    buf,       \* what each StoreString variable holds
    op         \* the step each thread has reached in the call it makes

vars == <<contents, stored, buf, op>>

(* A StoreString's buf: an odd index of the table, or a copy of a text.  *)
(* Neither is a buf that was freed or is not constructed yet.            *)
Buf == [index : Nat, own : Text \cup {NoText}]
Null        == [index |-> 0, own |-> NoText]
AtIndex(i)  == [index |-> i, own |-> NoText]
OwnCopy(s)  == [index |-> 0, own |-> s]

Idle == [pc |-> "idle", slot |-> CHOOSE i \in Slot : TRUE, text |-> EmptyText]
Op   == [pc : {"idle", "check", "insert", "get"}, slot : Slot, text : Text]

TypeOK ==
    /\ contents \in [Text -> Nat]
    /\ stored \in Seq(Text)
    /\ buf \in [Thread \X Slot -> Buf]
    /\ op \in [Thread -> Op]

-----------------------------------------------------------------------------
(* The table and the strings, as they are read *)

isStored(b) == b.index % 2 = 1

getStr(index) == stored[(index \div 2) + 1]

(* c_str of a constructed string *)
c_str(b) == IF isStored(b) THEN getStr(b.index) ELSE b.own

(* operator ==, which compares indexes when it has two of them *)
Equal(a, b) ==
    IF isStored(a) /\ isStored(b) THEN a.index = b.index ELSE c_str(a) = c_str(b)

-----------------------------------------------------------------------------
(* The calls.  A call leaves its variable Null until it assigns it.        *)

Begin(t, i, pc, s) ==
    /\ op[t].pc = "idle"
    /\ op' = [op EXCEPT ![t] = [pc |-> pc, slot |-> i, text |-> s]]
    /\ buf' = [buf EXCEPT ![<<t, i>>] = Null]
    /\ UNCHANGED <<contents, stored>>

(* i = StoreString::store(s) *)
store(t, i, s) == Begin(t, i, "check", s)

(* i = StoreString(s) *)
construct(t, i, s) == Begin(t, i, "get", s)

(* i = j: an index is copied, a text of its own is constructed anew.  No   *)
(* caller assigns a string to itself.                                      *)
copyFrom(t, i, j) ==
    /\ i # j
    /\ buf[<<t, j>>] # Null
    /\ IF isStored(buf[<<t, j>>])
       THEN /\ op[t].pc = "idle"
            /\ buf' = [buf EXCEPT ![<<t, i>>] = buf[<<t, j>>]]
            /\ UNCHANGED <<contents, stored, op>>
       ELSE construct(t, i, c_str(buf[<<t, j>>]))

(* Mutant: a text that is not in the table is not inserted. *)
addCheckOnly(t) ==
    /\ op[t].pc = "check"
    /\ op' = [op EXCEPT ![t].pc = "get"]
    /\ UNCHANGED <<contents, stored, buf>>

(* add: look the text up, and release the mutex ... *)
addCheck(t) ==
    /\ op[t].pc = "check"
    /\ op' = [op EXCEPT ![t].pc = IF contents[op[t].text] # 0 THEN "get" ELSE "insert"]
    /\ UNCHANGED <<contents, stored, buf>>

(* Mutant: the index is that of the entry in front of the new one. *)
addInsertBehind(t) ==
    LET s == op[t].text
    IN  /\ op[t].pc = "insert"
        /\ contents' = IF contents[s] = 0
                       THEN [contents EXCEPT ![s] = 2 * (Len(stored) - 1) + 1]
                       ELSE contents
        /\ stored' = Append(stored, s)
        /\ op' = [op EXCEPT ![t].pc = "get"]
        /\ UNCHANGED buf

(* Mutant: the index is assigned, whether the text has one or not. *)
addAssign(t) ==
    LET s == op[t].text
    IN  /\ op[t].pc = "insert"
        /\ contents' = [contents EXCEPT ![s] = 2 * Len(stored) + 1]
        /\ stored' = Append(stored, s)
        /\ op' = [op EXCEPT ![t].pc = "get"]
        /\ UNCHANGED buf

(* Mutant: the table grows at its front. *)
addInsertInFront(t) ==
    LET s == op[t].text
    IN  /\ op[t].pc = "insert"
        /\ contents' = IF contents[s] = 0
                       THEN [contents EXCEPT ![s] = 2 * Len(stored) + 1]
                       ELSE contents
        /\ stored' = <<s>> \o stored
        /\ op' = [op EXCEPT ![t].pc = "get"]
        /\ UNCHANGED buf

(* ... then take it again and insert a copy.  std::map::insert leaves a    *)
(* key that is there alone; the table grows all the same.                  *)
addInsert(t) ==
    LET s == op[t].text
    IN  /\ op[t].pc = "insert"
        /\ contents' = IF contents[s] = 0
                       THEN [contents EXCEPT ![s] = 2 * Len(stored) + 1]
                       ELSE contents
        /\ stored' = Append(stored, s)
        /\ op' = [op EXCEPT ![t].pc = "get"]
        /\ UNCHANGED buf

(* construct's lookup: the index of the text, or a copy of the text. *)
get(t) ==
    LET s == op[t].text
    IN  /\ op[t].pc = "get"
        /\ buf' = [buf EXCEPT ![<<t, op[t].slot>>] =
                      IF contents[s] # 0 THEN AtIndex(contents[s]) ELSE OwnCopy(s)]
        /\ op' = [op EXCEPT ![t] = Idle]
        /\ UNCHANGED <<contents, stored>>

(* Mutant: -1, not 0, is the index of a text the table does not hold. *)
InitWithoutIndex ==
    /\ contents = [s \in Text |-> IF s = EmptyText THEN 1 ELSE -1]
    /\ stored = <<EmptyText>>
    /\ buf = [v \in Thread \X Slot |-> Null]
    /\ op = [t \in Thread |-> Idle]

(* StringStorage's constructor has stored the empty text. *)
Init ==
    /\ contents = [s \in Text |-> IF s = EmptyText THEN 1 ELSE 0]
    /\ stored = <<EmptyText>>
    /\ buf = [v \in Thread \X Slot |-> Null]
    /\ op = [t \in Thread |-> Idle]

Next ==
    \E t \in Thread :
        \/ \E i \in Slot, s \in Text : store(t, i, s) \/ construct(t, i, s)
        \/ \E i, j \in Slot : copyFrom(t, i, j)
        \/ addCheck(t)
        \/ addInsert(t)
        \/ get(t)

(* A thread that is inside a call goes on with it. *)
Fairness == \A t \in Thread : WF_vars(addCheck(t) \/ addInsert(t) \/ get(t))

Spec == Init /\ [][Next]_vars /\ Fairness

-----------------------------------------------------------------------------
(* Properties *)

(* The index of a text is the place where the table holds that text, so that *)
(* two texts never share one: what getStr(get(s)) returns is s.              *)
IndexIsPlace ==
    \A s \in Text : contents[s] # 0 =>
        /\ isStored(AtIndex(contents[s]))
        /\ (contents[s] \div 2) + 1 \in 1 .. Len(stored)
        /\ getStr(contents[s]) = s

(* Comparing strings by index, or one by index and one by text, is comparing *)
(* their texts, whichever threads made them and when: operator == may take   *)
(* its short cut because a text is never given a second index.               *)
EqualityIsTextual ==
    \A v, w \in Thread \X Slot :
        buf[v] # Null /\ buf[w] # Null =>
            (Equal(buf[v], buf[w]) <=> c_str(buf[v]) = c_str(buf[w]))

(* No step of any thread changes what a string that is not being assigned  *)
(* reads, although the table it may point into grows under it.             *)
TextsAreImmutable ==
    [][\A v \in Thread \X Slot :
          buf[v] # Null /\ buf'[v] = buf[v] => c_str(buf[v])' = c_str(buf[v])]_vars

(* A text stays in the table, at the index it was first given. *)
IndexIsForever ==
    [][\A s \in Text : contents[s] # 0 => contents'[s] = contents[s]]_vars

(* A call to store ends with an index, not with a copy, however it races     *)
(* with other threads that store the same text.                              *)
StoreYieldsIndex ==
    \A t \in Thread, i \in Slot, s \in Text :
        op[t] = [pc |-> "check", slot |-> i, text |-> s]
            ~> isStored(buf[<<t, i>>]) /\ c_str(buf[<<t, i>>]) = s

(* StoreString.h: store "remembers a string in collection, so it won't be   *)
(* allocated several times".                                                *)
AllocatedOnce ==
    \A i, j \in 1 .. Len(stored) : stored[i] = stored[j] => i = j
==============================================================================
