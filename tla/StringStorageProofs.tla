------------------------- MODULE StringStorageProofs -------------------------
(***************************************************************************)
(* Theorems about StringStorage, for any number of threads, strings and    *)
(* texts.                                                                  *)
(***************************************************************************)
EXTENDS StringStorage, TLAPS, SequenceTheorems

(* What every string holds: nothing, the index the table has for some text, *)
(* or a text of its own.                                                    *)
BufsValid ==
    \A v \in Thread \X Slot :
        \/ buf[v] = Null
        \/ \E s \in Text : contents[s] # 0 /\ buf[v] = AtIndex(contents[s])
        \/ \E s \in Text : buf[v] = OwnCopy(s)

IInv == TypeOK /\ IndexIsPlace /\ BufsValid

-----------------------------------------------------------------------------
(* Indexes *)

(* The index given to the place behind the last one: its low bit is set, and *)
(* it leads back to that place.                                              *)
LEMMA FreshIndex ==
    ASSUME NEW n \in Nat
    PROVE  /\ 2 * n + 1 \in Nat
           /\ 2 * n + 1 # 0
           /\ (2 * n + 1) % 2 = 1
           /\ ((2 * n + 1) \div 2) + 1 = n + 1
OBVIOUS

LEMMA BufTypes ==
    /\ Null \in Buf
    /\ \A i \in Nat : AtIndex(i) \in Buf
    /\ \A s \in Text : OwnCopy(s) \in Buf
BY DEF Null, AtIndex, OwnCopy, Buf

LEMMA IdleType == Idle \in Op
BY StringStorageAssumption DEF Idle, Op

-----------------------------------------------------------------------------
(* The invariant *)

LEMMA InitIInv == Init => IInv
<1> SUFFICES ASSUME Init PROVE IInv
    OBVIOUS
<1>1. TypeOK
    BY StringStorageAssumption, BufTypes, IdleType DEF Init, TypeOK
<1>2. IndexIsPlace
    <2> SUFFICES ASSUME NEW s \in Text, contents[s] # 0
                 PROVE  /\ isStored(AtIndex(contents[s]))
                        /\ (contents[s] \div 2) + 1 \in 1 .. Len(stored)
                        /\ getStr(contents[s]) = s
        BY DEF IndexIsPlace
    <2>1. contents[s] = 1 /\ s = EmptyText
        BY DEF Init
    <2>2. /\ 1 % 2 = 1
          /\ (1 \div 2) + 1 = 1
          /\ Len(stored) = 1 /\ stored[1] = EmptyText
        BY DEF Init
    <2> QED BY <2>1, <2>2 DEF isStored, AtIndex, getStr
<1>3. BufsValid
    BY DEF Init, BufsValid
<1> QED BY <1>1, <1>2, <1>3 DEF IInv

(* A step that neither changes the table nor gives a variable anything but   *)
(* Null or what another variable holds keeps the invariant.                  *)
LEMMA TableUnchanged ==
    ASSUME IInv, UNCHANGED <<contents, stored>>,
           op' \in [Thread -> Op],
           buf' \in [Thread \X Slot -> Buf],
           \A v \in Thread \X Slot :
               \/ buf'[v] = Null
               \/ \E w \in Thread \X Slot : buf'[v] = buf[w]
               \/ \E s \in Text : contents[s] # 0 /\ buf'[v] = AtIndex(contents[s])
               \/ \E s \in Text : buf'[v] = OwnCopy(s)
    PROVE  IInv'
<1>1. TypeOK'
    BY DEF IInv, TypeOK
<1>2. IndexIsPlace'
    BY DEF IInv, IndexIsPlace, isStored, getStr, AtIndex
<1>3. BufsValid'
    BY DEF IInv, BufsValid
<1> QED BY <1>1, <1>2, <1>3 DEF IInv

(* Inserting a text keeps every index, and gives a text that had none a new  *)
(* place at the end of the table.                                            *)
LEMMA InsertKeeps ==
    ASSUME IInv, NEW t \in Thread, addInsert(t)
    PROVE  /\ IInv'
           /\ \A s \in Text : contents[s] # 0 =>
                /\ contents'[s] = contents[s]
                /\ getStr(contents[s])' = getStr(contents[s])
<1> DEFINE s == op[t].text
           n == Len(stored)
<1>1. /\ s \in Text
      /\ contents \in [Text -> Nat]
      /\ stored \in Seq(Text)
      /\ n \in Nat
    BY LenProperties DEF IInv, TypeOK, Op
<1>2. /\ contents' = IF contents[s] = 0 THEN [contents EXCEPT ![s] = 2 * n + 1] ELSE contents
      /\ stored' = Append(stored, s)
      /\ buf' = buf
      /\ op' = [op EXCEPT ![t].pc = "get"]
    BY DEF addInsert
<1>3. TypeOK'
    <2>1. contents' \in [Text -> Nat]
        BY <1>1, <1>2, FreshIndex
    <2>2. stored' \in Seq(Text)
        BY <1>1, <1>2, AppendProperties
    <2>3. op' \in [Thread -> Op]
        BY <1>2 DEF IInv, TypeOK, Op
    <2> QED BY <1>2, <2>1, <2>2, <2>3 DEF IInv, TypeOK
<1>4. /\ Len(stored') = n + 1
      /\ stored'[n + 1] = s
      /\ \A i \in 1 .. n : stored'[i] = stored[i]
    BY <1>1, <1>2, AppendProperties
<1> HIDE DEF s, n
<1>5. ASSUME NEW r \in Text, contents[r] # 0
      PROVE  /\ contents'[r] = contents[r]
             /\ contents[r] % 2 = 1
             /\ (contents[r] \div 2) + 1 \in 1 .. n
             /\ stored'[(contents[r] \div 2) + 1] = r
             /\ stored[(contents[r] \div 2) + 1] = r
    <2>1. /\ contents[r] % 2 = 1
          /\ (contents[r] \div 2) + 1 \in 1 .. n
          /\ stored[(contents[r] \div 2) + 1] = r
        BY <1>5 DEF IInv, IndexIsPlace, isStored, AtIndex, getStr, n
    <2>2. contents'[r] = contents[r]
        BY <1>1, <1>2, <1>5
    <2> QED BY <1>4, <2>1, <2>2
<1>6. IndexIsPlace'
    <2> SUFFICES ASSUME NEW r \in Text, contents'[r] # 0
                 PROVE  /\ contents'[r] % 2 = 1
                        /\ (contents'[r] \div 2) + 1 \in 1 .. Len(stored')
                        /\ stored'[(contents'[r] \div 2) + 1] = r
        BY DEF IndexIsPlace, isStored, AtIndex, getStr
    <2>1. CASE contents[r] # 0
        BY <1>1, <1>4, <1>5, <2>1
    <2>2. CASE contents[r] = 0
        <3>1. r = s /\ contents'[r] = 2 * n + 1
            BY <1>1, <1>2, <2>2
        <3> QED BY <1>1, <1>4, <3>1, FreshIndex
    <2> QED BY <2>1, <2>2
<1>7. BufsValid'
    BY <1>2, <1>5 DEF IInv, BufsValid
<1>8. \A r \in Text : contents[r] # 0 =>
          contents'[r] = contents[r] /\ getStr(contents[r])' = getStr(contents[r])
    BY <1>5 DEF getStr
<1> QED BY <1>3, <1>6, <1>7, <1>8 DEF IInv

LEMMA NextIInv == IInv /\ [Next]_vars => IInv'
<1> SUFFICES ASSUME IInv, [Next]_vars PROVE IInv'
    OBVIOUS
<1>1. /\ contents \in [Text -> Nat]
      /\ buf \in [Thread \X Slot -> Buf]
      /\ op \in [Thread -> Op]
    BY DEF IInv, TypeOK
<1>2. ASSUME NEW t \in Thread, NEW i \in Slot, NEW s \in Text, NEW pc \in {"check", "get"},
             Begin(t, i, pc, s)
      PROVE  IInv'
    <2>1. op' \in [Thread -> Op]
        BY <1>1, <1>2 DEF Begin, Op
    <2>2. buf' \in [Thread \X Slot -> Buf]
        BY <1>1, <1>2, BufTypes DEF Begin
    <2>3. \A v \in Thread \X Slot : buf'[v] = Null \/ buf'[v] = buf[v]
        BY <1>1, <1>2 DEF Begin
    <2> QED BY <1>2, <2>1, <2>2, <2>3, TableUnchanged DEF Begin
<1>3. ASSUME NEW t \in Thread, NEW i \in Slot, NEW j \in Slot, copyFrom(t, i, j)
      PROVE  IInv'
    <2>1. CASE isStored(buf[<<t, j>>])
        <3>1. buf' = [buf EXCEPT ![<<t, i>>] = buf[<<t, j>>]] /\ UNCHANGED <<contents, stored, op>>
            BY <1>3, <2>1 DEF copyFrom
        <3>2. buf' \in [Thread \X Slot -> Buf]
            BY <1>1, <3>1
        <3>3. \A v \in Thread \X Slot : buf'[v] = buf[<<t, j>>] \/ buf'[v] = buf[v]
            BY <1>1, <3>1
        <3> QED BY <1>1, <3>1, <3>2, <3>3, TableUnchanged
    <2>2. CASE ~isStored(buf[<<t, j>>])
        <3>1. buf[<<t, j>>] # Null /\ Begin(t, i, "get", c_str(buf[<<t, j>>]))
            BY <1>3, <2>2 DEF copyFrom, construct
        <3>2. PICK s \in Text : \/ contents[s] # 0 /\ buf[<<t, j>>] = AtIndex(contents[s])
                                \/ buf[<<t, j>>] = OwnCopy(s)
            BY <3>1 DEF IInv, BufsValid
        <3>3. c_str(buf[<<t, j>>]) = s
            BY <2>2, <3>2 DEF IInv, IndexIsPlace, c_str, OwnCopy
        <3> QED BY <1>2, <3>1, <3>3
    <2> QED BY <2>1, <2>2
<1>4. ASSUME NEW t \in Thread, addCheck(t)
      PROVE  IInv'
    <2>1. op' \in [Thread -> Op]
        BY <1>1, <1>4 DEF addCheck, Op
    <2> QED BY <1>1, <1>4, <2>1, TableUnchanged DEF addCheck
<1>5. ASSUME NEW t \in Thread, addInsert(t)
      PROVE  IInv'
    BY <1>5, InsertKeeps
<1>6. ASSUME NEW t \in Thread, get(t)
      PROVE  IInv'
    <2> DEFINE s == op[t].text
               b == IF contents[s] # 0 THEN AtIndex(contents[s]) ELSE OwnCopy(s)
    <2>1. s \in Text /\ op[t].slot \in Slot
        BY <1>1 DEF Op
    <2>2. b \in Buf
        BY <1>1, <2>1, BufTypes
    <2>3. op' = [op EXCEPT ![t] = Idle] /\ buf' = [buf EXCEPT ![<<t, op[t].slot>>] = b]
        BY <1>6 DEF get
    <2>4. op' \in [Thread -> Op] /\ buf' \in [Thread \X Slot -> Buf]
        BY <1>1, <2>2, <2>3, IdleType
    <2>5. \A v \in Thread \X Slot : buf'[v] = b \/ buf'[v] = buf[v]
        BY <1>1, <2>3
    <2> QED BY <1>6, <2>1, <2>4, <2>5, TableUnchanged DEF get
<1>7. CASE UNCHANGED vars
    BY <1>1, <1>7, TableUnchanged DEF vars
<1> QED BY <1>2, <1>3, <1>4, <1>5, <1>6, <1>7 DEF Next, store, construct

(* The table and the strings stay consistent under any interleaving. *)
THEOREM Invariance == Spec => []IInv
<1>1. Init => IInv
    BY InitIInv
<1>2. IInv /\ [Next]_vars => IInv'
    BY NextIInv
<1> QED BY <1>1, <1>2, PTL DEF Spec

(* The table, the strings and the calls always have their types. *)
THEOREM TypeCorrectness == Spec => []TypeOK
<1>1. IInv => TypeOK
    BY DEF IInv
<1> QED BY <1>1, Invariance, PTL

(* The index of a text always is the place where the table holds it. *)
THEOREM IndexCorrectness == Spec => []IndexIsPlace
<1>1. IInv => IndexIsPlace
    BY DEF IInv
<1> QED BY <1>1, Invariance, PTL

(* Operator ==, which compares indexes when it can, always compares texts. *)
THEOREM EqualityCorrectness == Spec => []EqualityIsTextual
<1>1. IInv => EqualityIsTextual
    <2> SUFFICES ASSUME IInv,
                        NEW v \in Thread \X Slot, NEW w \in Thread \X Slot,
                        buf[v] # Null, buf[w] # Null,
                        isStored(buf[v]), isStored(buf[w])
                 PROVE  buf[v].index = buf[w].index <=> c_str(buf[v]) = c_str(buf[w])
        BY DEF EqualityIsTextual, Equal
    <2>1. \A s \in Text : ~isStored(OwnCopy(s))
        BY DEF isStored, OwnCopy
    <2>2. PICK r \in Text : contents[r] # 0 /\ buf[v] = AtIndex(contents[r])
        BY <2>1 DEF IInv, BufsValid
    <2>3. PICK s \in Text : contents[s] # 0 /\ buf[w] = AtIndex(contents[s])
        BY <2>1 DEF IInv, BufsValid
    <2>4. buf[v].index = contents[r] /\ c_str(buf[v]) = r
        BY <2>2 DEF IInv, IndexIsPlace, c_str, AtIndex
    <2>5. buf[w].index = contents[s] /\ c_str(buf[w]) = s
        BY <2>3 DEF IInv, IndexIsPlace, c_str, AtIndex
    <2>6. contents[r] = contents[s] => r = s
        BY <2>2, <2>3 DEF IInv, IndexIsPlace
    <2> QED BY <2>4, <2>5, <2>6
<1> QED BY <1>1, Invariance, PTL

(* A text stays in the table, at the index it was first given. *)
THEOREM IndexesAreForever == Spec => IndexIsForever
<1>1. IInv /\ [Next]_vars => [\A s \in Text : contents[s] # 0 => contents'[s] = contents[s]]_vars
    <2> SUFFICES ASSUME IInv, Next, NEW s \in Text, contents[s] # 0
                 PROVE  contents'[s] = contents[s]
        OBVIOUS
    <2>1. \A t \in Thread : addInsert(t) => contents'[s] = contents[s]
        BY InsertKeeps
    <2> QED BY <2>1 DEF Next, store, construct, copyFrom, Begin, addCheck, get
<1> QED BY <1>1, Invariance, PTL DEF Spec, IndexIsForever

(* No step changes the text of a string that it does not assign. *)
THEOREM TextsStay == Spec => TextsAreImmutable
<1> DEFINE Stays(v) == buf[v] # Null /\ buf'[v] = buf[v] => c_str(buf[v])' = c_str(buf[v])
<1>1. IInv /\ [Next]_vars => [\A v \in Thread \X Slot : Stays(v)]_vars
    <2> SUFFICES ASSUME IInv, Next, NEW v \in Thread \X Slot, buf[v] # Null, buf'[v] = buf[v]
                 PROVE  c_str(buf[v])' = c_str(buf[v])
        OBVIOUS
    <2>1. CASE ~isStored(buf[v])
        BY <2>1 DEF c_str, isStored
    <2>2. CASE isStored(buf[v])
        <3> DEFINE Kept(i) == stored'[(i \div 2) + 1] = stored[(i \div 2) + 1]
        <3>1. \A s \in Text : ~isStored(OwnCopy(s))
            BY DEF isStored, OwnCopy
        <3>2. PICK s \in Text : contents[s] # 0 /\ buf[v] = AtIndex(contents[s])
            BY <2>2, <3>1 DEF IInv, BufsValid
        <3>3. \A t \in Thread : addInsert(t) => Kept(contents[s])
            BY <3>2, InsertKeeps DEF getStr
        <3>4. Kept(contents[s])
            BY <3>3 DEF Next, store, construct, copyFrom, Begin, addCheck, get
        <3> QED BY <2>2, <3>2, <3>4 DEF c_str, getStr, AtIndex, isStored
    <2> QED BY <2>1, <2>2
<1> QED BY <1>1, Invariance, PTL DEF Spec, TextsAreImmutable
==============================================================================
