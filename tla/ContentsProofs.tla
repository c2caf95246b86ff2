--------------------------- MODULE ContentsProofs ---------------------------
(***************************************************************************)
(* Theorems about Contents: name by name its dictionary is a list with     *)
(* holes, and a call that is several methods does what it promises unless  *)
(* another thread changes the list of its own name meanwhile.              *)
(***************************************************************************)
EXTENDS Contents, SharedLemmas

Value == Object \cup {NULL}

-----------------------------------------------------------------------------
(* The values of a name *)

LEMMA ValuesEmpty ==
    ASSUME NEW u
    PROVE  Values(<< >>, u) = << >>
<1>1. Kept(<< >>, EntriesOf({u})) = << >>
    BY KeptEmpty
<1> QED BY <1>1 DEF Values

LEMMA ValuesType ==
    ASSUME NEW d \in Seq(Entry), NEW u
    PROVE  /\ Values(d, u) \in Seq(Value)
           /\ count(d, u) \in Nat
           /\ \A i \in 1 .. count(d, u) : Values(d, u)[i] \in Value
<1> DEFINE es == Kept(d, EntriesOf({u}))
<1>1. es \in Seq(EntriesOf({u}) \cap Entry)
    BY KeptType
<1>2. Len(es) \in Nat /\ \A i \in 1 .. Len(es) : es[i] \in Entry
    <2> HIDE DEF es
    <2> QED BY <1>1, LenProperties, ElementOfSeq
<1>3. Values(d, u) = [i \in 1 .. Len(es) |-> es[i].value]
    BY DEF Values
<1>4. \A i \in 1 .. Len(es) : es[i].value \in Value
    BY <1>2 DEF Entry, EntriesOf, Value
<1> HIDE DEF es
<1>5. Values(d, u) \in [1 .. Len(es) -> Value]
    BY <1>3, <1>4
<1>6. Values(d, u) \in Seq(Value)
    BY <1>2, <1>5, SeqDef
<1> QED BY <1>6, LenProperties, ElementOfSeq DEF count

LEMMA ValuesAppend ==
    ASSUME NEW d \in Seq(Entry), NEW e \in Entry, NEW u
    PROVE  Values(Append(d, e), u) =
               IF e.name = u THEN Append(Values(d, u), e.value) ELSE Values(d, u)
<1> DEFINE es == Kept(d, EntriesOf({u}))
           fs == Kept(Append(d, e), EntriesOf({u}))
<1>1. fs = IF e \in EntriesOf({u}) THEN Append(es, e) ELSE es
    BY KeptAppend
<1>2. e \in EntriesOf({u}) <=> e.name = u
    BY DEF Entry, EntriesOf
<1>3. es \in Seq(Entry)
    <2>1. es \in Seq(EntriesOf({u}) \cap Entry)
        BY KeptType
    <2> QED BY <2>1, SeqMonotonic
<1>4. /\ Values(d, u) = [i \in 1 .. Len(es) |-> es[i].value]
      /\ Values(Append(d, e), u) = [i \in 1 .. Len(fs) |-> fs[i].value]
    BY DEF Values
<1>5. /\ Values(d, u) \in Seq(Value) /\ e.value \in Value
      /\ Values(Append(d, e), u) \in Seq(Value)
    <2>1. Append(d, e) \in Seq(Entry)
        BY AppendProperties
    <2> QED BY <2>1, ValuesType DEF Entry, EntriesOf, Value
<1> HIDE DEF es, fs
<1>6. CASE e.name = u
    <2>1. /\ Len(es) \in Nat /\ Len(fs) = Len(es) + 1
          /\ \A i \in 1 .. Len(es) : fs[i] = es[i]
          /\ fs[Len(es) + 1] = e
        BY <1>1, <1>2, <1>3, <1>6, LenProperties, AppendProperties
    <2>2. Len(Values(d, u)) = Len(es) /\ Len(Values(Append(d, e), u)) = Len(es) + 1
        BY <1>4, <2>1
    <2> DEFINE a == Append(Values(d, u), e.value)
               w == Values(Append(d, e), u)
    <2>3. /\ a \in Seq(Value) /\ Len(a) = Len(es) + 1
          /\ \A i \in 1 .. Len(es) : a[i] = Values(d, u)[i]
          /\ a[Len(es) + 1] = e.value
        BY <1>5, <2>2, AppendProperties
    <2> HIDE DEF a
    <2>4. ASSUME NEW i \in 1 .. Len(w) PROVE w[i] = a[i]
        <3>1. w[i] = fs[i].value
            BY <1>4, <2>1
        <3>2. CASE i <= Len(es)
            BY <1>4, <2>1, <2>3, <3>1, <3>2
        <3>3. CASE i = Len(es) + 1
            BY <2>1, <2>3, <3>1, <3>3
        <3> QED BY <2>1, <2>2, <3>2, <3>3
    <2>5. w = a
        <3> HIDE DEF w
        <3>1. w \in Seq(Value) /\ Len(w) = Len(a)
            BY <1>5, <2>2, <2>3 DEF w
        <3> QED BY <2>3, <2>4, <3>1, SeqEqual
    <2> QED BY <1>6, <2>5 DEF a
<1>7. CASE e.name # u
    BY <1>1, <1>2, <1>4, <1>7
<1> QED BY <1>6, <1>7

(* One entry. *)
LEMMA ValuesOne ==
    ASSUME NEW e \in Entry, NEW u
    PROVE  Values(<<e>>, u) = IF e.name = u THEN <<e.value>> ELSE << >>
<1>1. << >> \in Seq(Entry) /\ Append(<< >>, e) = <<e>> /\ Append(<< >>, e.value) = <<e.value>>
    OBVIOUS
<1>2. Values(Append(<< >>, e), u) =
          IF e.name = u THEN Append(Values(<< >>, u), e.value) ELSE Values(<< >>, u)
    BY <1>1, ValuesAppend
<1>3. Values(<< >>, u) = << >>
    BY ValuesEmpty
<1> QED BY <1>1, <1>2, <1>3

LEMMA ValuesConcat ==
    ASSUME NEW c \in Seq(Entry), NEW d \in Seq(Entry), NEW u
    PROVE  Values(c \o d, u) = Values(c, u) \o Values(d, u)
<1> DEFINE Joined == {s \in Seq(Entry) : Values(c \o s, u) = Values(c, u) \o Values(s, u)}
<1>1. << >> \in Joined
    BY ConcatEmptySeq, ValuesEmpty, ValuesType, EmptySeq
<1>2. ASSUME NEW s \in Seq(Entry), NEW e \in Entry, s \in Joined
      PROVE  Append(s, e) \in Joined
    <2>1. Append(s, e) \in Seq(Entry) /\ c \o s \in Seq(Entry) /\ e.value \in Value
        BY AppendProperties, ConcatProperties DEF Entry, EntriesOf, Value
    <2>2. c \o Append(s, e) = Append(c \o s, e)
        <3>1. Append(s, e) = s \o <<e>> /\ Append(c \o s, e) = (c \o s) \o <<e>> /\ <<e>> \in Seq(Entry)
            BY <2>1, AppendIsConcat
        <3> QED BY <3>1, ConcatAssociative
    <2>3. /\ Values(c \o s, u) = Values(c, u) \o Values(s, u)
          /\ Values(c, u) \in Seq(Value) /\ Values(s, u) \in Seq(Value)
        BY <1>2, ValuesType
    <2>4. CASE e.name = u
        <3> DEFINE x == Values(c, u)
                   y == Values(s, u)
                   v == e.value
        <3>1. Values(Append(s, e), u) = Append(y, v) /\ Values(Append(c \o s, e), u) = Append(x \o y, v)
            BY <2>1, <2>3, <2>4, ValuesAppend
        <3>2. x \in Seq(Value) /\ y \in Seq(Value) /\ v \in Value
            BY <2>1, <2>3
        <3> HIDE DEF x, y, v
        <3>3. Append(x \o y, v) = x \o Append(y, v)
            <4>1. Append(y, v) = y \o <<v>> /\ Append(x \o y, v) = (x \o y) \o <<v>> /\ <<v>> \in Seq(Value)
                BY <3>2, ConcatProperties, AppendIsConcat
            <4> QED BY <3>2, <4>1, ConcatAssociative
        <3> QED BY <2>1, <2>2, <3>1, <3>3 DEF x
    <2>5. CASE e.name # u
        <3>1. Values(Append(c \o s, e), u) = Values(c \o s, u) /\ Values(Append(s, e), u) = Values(s, u)
            BY <2>1, <2>5, ValuesAppend
        <3> QED BY <2>1, <2>2, <2>3, <3>1
    <2> QED BY <2>4, <2>5
<1>3. Seq(Entry) \subseteq Joined
    <2> HIDE DEF Joined
    <2> QED BY <1>1, <1>2, SeqInduction
<1> QED BY <1>3

(* Every entry of a name has its value among the values of the name. *)
LEMMA ValueOfEntry ==
    ASSUME NEW d \in Seq(Entry), NEW u
    PROVE  \A i \in 1 .. Len(d) : d[i].name = u =>
               \E k \in 1 .. count(d, u) : Values(d, u)[k] = d[i].value
<1> DEFINE Listed(s) == \A i \in 1 .. Len(s) : s[i].name = u =>
               \E k \in 1 .. Len(Values(s, u)) : Values(s, u)[k] = s[i].value
           All == {s \in Seq(Entry) : Listed(s)}
<1>1. << >> \in All
    BY EmptySeq
<1>2. ASSUME NEW s \in Seq(Entry), NEW e \in Entry, s \in All
      PROVE  Append(s, e) \in All
    <2> DEFINE t == Append(s, e)
               w == Values(s, u)
    <2>1. /\ t \in Seq(Entry) /\ Len(s) \in Nat /\ Len(t) = Len(s) + 1
          /\ \A i \in 1 .. Len(s) : t[i] = s[i]
          /\ t[Len(s) + 1] = e
        BY AppendProperties, LenProperties
    <2>2. w \in Seq(Value) /\ Len(w) \in Nat /\ e.value \in Value
        BY ValuesType DEF count, Entry, EntriesOf, Value
    <2>3. Values(t, u) = IF e.name = u THEN Append(w, e.value) ELSE w
        BY ValuesAppend
    <2>4. /\ Len(Append(w, e.value)) = Len(w) + 1
          /\ \A k \in 1 .. Len(w) : Append(w, e.value)[k] = w[k]
          /\ Append(w, e.value)[Len(w) + 1] = e.value
        BY <2>2, AppendProperties
    <2>5. \A i \in 1 .. Len(s) : s[i].name = u => \E k \in 1 .. Len(w) : w[k] = s[i].value
        BY <1>2
    <2> HIDE DEF t, w
    <2>6. ASSUME NEW i \in 1 .. Len(t), t[i].name = u
          PROVE  \E k \in 1 .. Len(Values(t, u)) : Values(t, u)[k] = t[i].value
        <3>1. CASE i <= Len(s)
            <4>1. t[i] = s[i] /\ i \in 1 .. Len(s)
                BY <2>1, <3>1
            <4>2. PICK k \in 1 .. Len(w) : w[k] = t[i].value
                BY <2>5, <2>6, <4>1
            <4>3. k \in 1 .. Len(Values(t, u)) /\ Values(t, u)[k] = w[k]
                BY <2>2, <2>3, <2>4, <4>2
            <4> QED BY <4>2, <4>3
        <3>2. CASE i = Len(s) + 1
            <4>1. t[i] = e /\ e.name = u
                BY <2>1, <2>6, <3>2
            <4>2. Values(t, u)[Len(w) + 1] = e.value /\ Len(w) + 1 \in 1 .. Len(Values(t, u))
                BY <2>2, <2>3, <2>4, <4>1
            <4> QED BY <4>1, <4>2
        <3> QED BY <2>1, <3>1, <3>2
    <2> QED BY <2>1, <2>6 DEF t
<1>3. Seq(Entry) \subseteq All
    <2> HIDE DEF All
    <2> QED BY <1>1, <1>2, SeqInduction
<1> QED BY <1>3 DEF count

-----------------------------------------------------------------------------
(* Sequences around one of their entries *)

around(x, v, y) == x \o (<<v>> \o y)

LEMMA Around ==
    ASSUME NEW T, NEW x \in Seq(T), NEW v \in T, NEW y \in Seq(T)
    PROVE  /\ around(x, v, y) \in Seq(T)
           /\ Len(around(x, v, y)) = Len(x) + 1 + Len(y)
           /\ \A k \in 1 .. Len(x) + 1 + Len(y) : around(x, v, y)[k] =
                  IF k <= Len(x) THEN x[k] ELSE IF k = Len(x) + 1 THEN v ELSE y[k - Len(x) - 1]
<1> DEFINE r == <<v>> \o y
           s == x \o r
<1>1. Len(x) \in Nat /\ Len(y) \in Nat
    BY LenProperties
<1>2. <<v>> \in Seq(T) /\ Len(<<v>>) = 1 /\ <<v>>[1] = v
    OBVIOUS
<1>3. /\ r \in Seq(T) /\ Len(r) = 1 + Len(y)
      /\ \A k \in 1 .. 1 + Len(y) : r[k] = IF k <= 1 THEN <<v>>[k] ELSE y[k - 1]
    BY <1>2, ConcatProperties
<1>4. \A k \in 1 .. 1 + Len(y) : r[k] = IF k = 1 THEN v ELSE y[k - 1]
    <2> HIDE DEF r
    <2> QED BY <1>1, <1>2, <1>3
<1> HIDE DEF r
<1>5. /\ s \in Seq(T) /\ Len(s) = Len(x) + Len(r)
      /\ \A k \in 1 .. Len(x) + Len(r) : s[k] = IF k <= Len(x) THEN x[k] ELSE r[k - Len(x)]
    BY <1>3, ConcatProperties
<1> HIDE DEF s
<1>6. Len(s) = Len(x) + 1 + Len(y)
    BY <1>1, <1>3, <1>5
<1>7. ASSUME NEW k \in 1 .. Len(x) + 1 + Len(y)
      PROVE  s[k] = IF k <= Len(x) THEN x[k] ELSE IF k = Len(x) + 1 THEN v ELSE y[k - Len(x) - 1]
    <2>1. s[k] = IF k <= Len(x) THEN x[k] ELSE r[k - Len(x)]
        BY <1>1, <1>3, <1>5
    <2>2. CASE k > Len(x)
        <3>1. k - Len(x) \in 1 .. 1 + Len(y) /\ (k - Len(x) = 1 <=> k = Len(x) + 1)
            BY <1>1, <2>2
        <3>2. r[k - Len(x)] = IF k - Len(x) = 1 THEN v ELSE y[k - Len(x) - 1]
            BY <1>4, <3>1
        <3>3. ~ (k <= Len(x))
            BY <1>1, <2>2
        <3> QED BY <2>1, <3>1, <3>2, <3>3
    <2>3. CASE k <= Len(x)
        BY <2>1, <2>3
    <2> QED BY <1>1, <2>2, <2>3
<1>8. around(x, v, y) = s
    BY DEF around, s, r
<1> QED BY <1>5, <1>6, <1>7, <1>8

(* The entry replaced, what stands before it, and what stands after it. *)
LEMMA Replaced ==
    ASSUME NEW T, NEW x \in Seq(T), NEW y \in Seq(T), NEW v \in T, NEW w \in T
    PROVE  [around(x, v, y) EXCEPT ![Len(x) + 1] = w] = around(x, w, y)
<1> DEFINE s == around(x, v, y)
           t == around(x, w, y)
           n == Len(x)
<1>1. n \in Nat /\ Len(y) \in Nat
    BY LenProperties
<1>2. /\ s \in Seq(T) /\ Len(s) = n + 1 + Len(y)
      /\ \A k \in 1 .. n + 1 + Len(y) : s[k] = IF k <= n THEN x[k] ELSE IF k = n + 1 THEN v ELSE y[k - n - 1]
    BY Around
<1>3. /\ t \in Seq(T) /\ Len(t) = n + 1 + Len(y)
      /\ \A k \in 1 .. n + 1 + Len(y) : t[k] = IF k <= n THEN x[k] ELSE IF k = n + 1 THEN w ELSE y[k - n - 1]
    BY Around
<1>n. n = Len(x)
    OBVIOUS
<1> HIDE DEF s, t, n
<1>4. [s EXCEPT ![n + 1] = w] = t
    <2> DEFINE r == [s EXCEPT ![n + 1] = w]
    <2>1. n + 1 \in 1 .. Len(s)
        BY <1>1, <1>2
    <2>2. /\ r \in Seq(T) /\ Len(r) = Len(s)
          /\ \A j \in 1 .. Len(s) : r[j] = IF j = n + 1 THEN w ELSE s[j]
        BY <1>2, <2>1, ExceptSeq
    <2> HIDE DEF r
    <2>3. ASSUME NEW j \in 1 .. Len(r) PROVE r[j] = t[j]
        <3>1. j \in 1 .. Len(s) /\ j \in 1 .. n + 1 + Len(y)
            BY <1>2, <2>2
        <3>2. CASE j = n + 1
            <4>1. r[j] = w /\ ~ (j <= n)
                BY <1>1, <2>2, <3>1, <3>2
            <4> QED BY <1>3, <3>1, <3>2, <4>1
        <3>3. CASE j # n + 1
            <4>1. r[j] = s[j]
                BY <2>2, <3>1, <3>3
            <4>2. s[j] = IF j <= n THEN x[j] ELSE y[j - n - 1]
                BY <1>2, <3>1, <3>3
            <4>3. t[j] = IF j <= n THEN x[j] ELSE y[j - n - 1]
                BY <1>3, <3>1, <3>3
            <4> QED BY <4>1, <4>2, <4>3
        <3> QED BY <3>2, <3>3
    <2>4. Len(r) = Len(t)
        BY <1>2, <1>3, <2>2
    <2>5. r = t
        BY <1>3, <2>2, <2>3, <2>4, SeqEqual
    <2> QED BY <2>5 DEF r
<1> QED BY <1>4 DEF s, t, n

LEMMA Before ==
    ASSUME NEW T, NEW x \in Seq(T), NEW y \in Seq(T), NEW v \in T
    PROVE  SubSeq(around(x, v, y), 1, Len(x)) = x
<1> DEFINE s == around(x, v, y)
           n == Len(x)
<1>1. n \in Nat /\ Len(y) \in Nat
    BY LenProperties
<1>2. /\ s \in Seq(T) /\ Len(s) = n + 1 + Len(y)
      /\ \A k \in 1 .. n + 1 + Len(y) : s[k] = IF k <= n THEN x[k] ELSE IF k = n + 1 THEN v ELSE y[k - n - 1]
    BY Around
<1>n. n = Len(x)
    OBVIOUS
<1> HIDE DEF s, n
<1>3. SubSeq(s, 1, n) = x
    <2> DEFINE r == SubSeq(s, 1, n)
    <2>1. n \in 0 .. Len(s)
        BY <1>1, <1>2
    <2>2. r \in Seq(T) /\ Len(r) = n /\ \A i \in 1 .. n : r[i] = s[i]
        BY <1>2, <2>1, PrefixProperties
    <2> HIDE DEF r
    <2>3. Len(r) = Len(x) /\ \A i \in 1 .. Len(r) : r[i] = x[i]
        BY <1>1, <1>2, <1>n, <2>2
    <2>4. r = x
        BY <2>2, <2>3, SeqEqual
    <2> QED BY <2>4 DEF r
<1> QED BY <1>3 DEF s, n

LEMMA After ==
    ASSUME NEW T, NEW x \in Seq(T), NEW y \in Seq(T), NEW v \in T
    PROVE  SubSeq(around(x, v, y), Len(x) + 2, Len(around(x, v, y))) = y
<1> DEFINE s == around(x, v, y)
           n == Len(x)
<1>1. n \in Nat /\ Len(y) \in Nat
    BY LenProperties
<1>2. /\ s \in Seq(T) /\ Len(s) = n + 1 + Len(y)
      /\ \A k \in 1 .. n + 1 + Len(y) : s[k] = IF k <= n THEN x[k] ELSE IF k = n + 1 THEN v ELSE y[k - n - 1]
    BY Around
<1>n. n = Len(x)
    OBVIOUS
<1> HIDE DEF s, n
<1>3. SubSeq(s, n + 2, Len(s)) = y
    <2> DEFINE r == SubSeq(s, n + 2, Len(s))
    <2>1. n + 2 \in Int /\ Len(s) \in Int /\ \A i \in n + 2 .. Len(s) : s[i] \in T
        <3>1. \A i \in n + 2 .. Len(s) : i \in 1 .. Len(s)
            BY <1>1, <1>2
        <3> QED BY <1>1, <1>2, <3>1, ElementOfSeq
    <2>2. /\ r \in Seq(T)
          /\ Len(r) = IF n + 2 <= Len(s) THEN Len(s) - (n + 2) + 1 ELSE 0
          /\ \A i \in 1 .. Len(s) - (n + 2) + 1 : r[i] = s[n + 2 + i - 1]
        BY <2>1, SubSeqProperties
    <2> HIDE DEF r
    <2>3. Len(r) = Len(y)
        BY <1>1, <1>2, <2>2
    <2>4. ASSUME NEW i \in 1 .. Len(r) PROVE r[i] = y[i]
        <3>1. n + 2 + i - 1 \in 1 .. n + 1 + Len(y) /\ n + 2 + i - 1 - n - 1 = i /\ n + 2 + i - 1 > n + 1
            BY <1>1, <2>3
        <3>2. r[i] = s[n + 2 + i - 1]
            BY <1>1, <1>2, <2>2, <2>3
        <3> DEFINE k == n + 2 + i - 1
        <3>3. s[k] = IF k <= n THEN x[k] ELSE IF k = n + 1 THEN v ELSE y[k - n - 1]
            <4> HIDE DEF k
            <4> QED BY <1>2, <3>1 DEF k
        <3>4. ~ (k <= n) /\ k # n + 1 /\ k - n - 1 = i
            BY <1>1, <3>1
        <3> HIDE DEF k
        <3>5. s[k] = y[i]
            BY <3>3, <3>4
        <3> QED BY <3>2, <3>5 DEF k
    <2>5. r = y
        BY <2>2, <2>3, <2>4, SeqEqual
    <2> QED BY <2>5 DEF r
<1> QED BY <1>3 DEF s, n

LEMMA SplitAt ==
    ASSUME NEW T, NEW d \in Seq(T), NEW i \in 1 .. Len(d)
    PROVE  LET p == SubSeq(d, 1, i - 1)
               q == SubSeq(d, i + 1, Len(d))
           IN  /\ p \in Seq(T) /\ Len(p) = i - 1 /\ q \in Seq(T)
               /\ d = around(p, d[i], q)
<1> DEFINE p == SubSeq(d, 1, i - 1)
           q == SubSeq(d, i + 1, Len(d))
<1>1. Len(d) \in Nat /\ i - 1 \in 0 .. Len(d) /\ Len(d) \in i .. Len(d)
    BY LenProperties
<1>2. p \in Seq(T) /\ Len(p) = i - 1
    BY <1>1, PrefixProperties
<1>3. q \in Seq(T)
    <2>1. \A k \in i + 1 .. Len(d) : d[k] \in T
        BY <1>1, ElementOfSeq
    <2> QED BY <1>1, <2>1, SubSeqProperties
<1>4. SubSeq(d, i, Len(d)) = <<d[i]>> \o q
    BY <1>1, SubSeqRecursiveFirst
<1>5. p \o SubSeq(d, i - 1 + 1, Len(d)) = SubSeq(d, 1, Len(d))
    <2>1. /\ 1 \in 1 .. Len(d) + 1
          /\ i - 1 \in 1 - 1 .. Len(d)
          /\ Len(d) \in i - 1 .. Len(d)
        BY <1>1
    <2> QED BY <2>1, ConcatAdjacentSubSeq
<1>6. SubSeq(d, 1, Len(d)) = d
    BY SubSeqFull
<1>7. i - 1 + 1 = i
    BY <1>1
<1> HIDE DEF p, q
<1> QED BY <1>2, <1>3, <1>4, <1>5, <1>6, <1>7 DEF p, q, around

LEMMA PrefixOfAppend ==
    ASSUME NEW T, NEW s \in Seq(T), NEW e \in T, NEW k \in 0 .. Len(s)
    PROVE  SubSeq(Append(s, e), 1, k) = SubSeq(s, 1, k)
<1> DEFINE t == Append(s, e)
           p == SubSeq(s, 1, k)
           q == SubSeq(t, 1, k)
<1>1. /\ t \in Seq(T) /\ Len(t) = Len(s) + 1 /\ Len(s) \in Nat
      /\ \A i \in 1 .. Len(s) : t[i] = s[i]
    BY AppendProperties, LenProperties
<1> HIDE DEF t
<1>2. p \in Seq(T) /\ Len(p) = k /\ \A i \in 1 .. k : p[i] = s[i]
    BY PrefixProperties
<1>3. q \in Seq(T) /\ Len(q) = k /\ \A i \in 1 .. k : q[i] = t[i]
    <2>1. k \in 0 .. Len(t)
        BY <1>1
    <2> QED BY <1>1, <2>1, PrefixProperties
<1> HIDE DEF p, q
<1>4. Len(q) = Len(p) /\ \A i \in 1 .. Len(q) : q[i] = p[i]
    BY <1>1, <1>2, <1>3
<1>5. q = p
    BY <1>2, <1>3, <1>4, SeqEqual
<1> QED BY <1>5 DEF p, q, t

-----------------------------------------------------------------------------
(* The place of an entry *)

LEMMA PlaceExists ==
    ASSUME NEW d \in Seq(Entry), NEW u, NEW nr \in 0 .. count(d, u) - 1
    PROVE  \E i \in 1 .. Len(d) : d[i].name = u /\ count(SubSeq(d, 1, i - 1), u) = nr
<1> DEFINE There(s, k) == \E i \in 1 .. Len(s) : s[i].name = u /\ count(SubSeq(s, 1, i - 1), u) = k
           All == {s \in Seq(Entry) : \A k \in 0 .. count(s, u) - 1 : There(s, k)}
<1>1. << >> \in All
    <2>1. count(<< >>, u) = 0
        BY ValuesEmpty DEF count
    <2> QED BY <2>1, EmptySeq
<1>2. ASSUME NEW s \in Seq(Entry), NEW e \in Entry, s \in All
      PROVE  Append(s, e) \in All
    <2> DEFINE t == Append(s, e)
    <2>1. /\ t \in Seq(Entry) /\ Len(s) \in Nat /\ Len(t) = Len(s) + 1
          /\ \A i \in 1 .. Len(s) : t[i] = s[i]
          /\ t[Len(s) + 1] = e
        BY AppendProperties, LenProperties
    <2>2. /\ count(s, u) \in Nat
          /\ count(t, u) = IF e.name = u THEN count(s, u) + 1 ELSE count(s, u)
        <3>1. Values(t, u) = IF e.name = u THEN Append(Values(s, u), e.value) ELSE Values(s, u)
            BY ValuesAppend
        <3>2. Values(s, u) \in Seq(Value) /\ e.value \in Value
            BY ValuesType DEF Entry, EntriesOf, Value
        <3>3. Len(Append(Values(s, u), e.value)) = Len(Values(s, u)) + 1
            BY <3>2, AppendProperties
        <3> HIDE DEF t
        <3> QED BY <3>1, <3>3, ValuesType DEF count
    <2>3. \A k \in 0 .. Len(s) : SubSeq(t, 1, k) = SubSeq(s, 1, k)
        BY PrefixOfAppend
    <2>4. SubSeq(t, 1, Len(s)) = s
        BY <2>1, <2>3, SubSeqFull
    <2> HIDE DEF t
    <2>5. ASSUME NEW k \in 0 .. count(t, u) - 1
          PROVE  There(t, k)
        <3>1. CASE k < count(s, u)
            <4>1. There(s, k)
                <5>1. k \in 0 .. count(s, u) - 1
                    BY <2>2, <3>1
                <5> QED BY <1>2, <5>1
            <4>2. PICK i \in 1 .. Len(s) : s[i].name = u /\ count(SubSeq(s, 1, i - 1), u) = k
                BY <4>1
            <4>3. i \in 1 .. Len(t) /\ i - 1 \in 0 .. Len(s) /\ t[i] = s[i]
                BY <2>1
            <4>4. SubSeq(t, 1, i - 1) = SubSeq(s, 1, i - 1)
                BY <2>3, <4>3
            <4> QED BY <4>2, <4>3, <4>4
        <3>2. CASE k = count(s, u)
            <4>1. e.name = u
                BY <2>2, <3>2
            <4>2. Len(s) + 1 \in 1 .. Len(t) /\ Len(s) + 1 - 1 = Len(s)
                BY <2>1
            <4>3. count(SubSeq(t, 1, Len(s) + 1 - 1), u) = k
                BY <2>4, <3>2, <4>2
            <4>4. t[Len(s) + 1].name = u
                BY <2>1, <4>1
            <4> QED BY <4>2, <4>3, <4>4
        <3> QED BY <2>2, <3>1, <3>2
    <2> QED BY <2>1, <2>5 DEF t
<1>3. Seq(Entry) \subseteq All
    <2> HIDE DEF All
    <2> QED BY <1>1, <1>2, SeqInduction
<1> QED BY <1>3

LEMMA PlaceDefined ==
    ASSUME NEW d \in Seq(Entry), NEW u, NEW nr, Has(d, u, nr)
    PROVE  /\ Place(d, u, nr) \in 1 .. Len(d)
           /\ d[Place(d, u, nr)].name = u
           /\ count(SubSeq(d, 1, Place(d, u, nr) - 1), u) = nr
<1>1. \E i \in 1 .. Len(d) : d[i].name = u /\ count(SubSeq(d, 1, i - 1), u) = nr
    BY PlaceExists DEF Has
<1>2. DOMAIN d = 1 .. Len(d)
    BY LenProperties
<1>3. Place(d, u, nr) = CHOOSE i \in 1 .. Len(d) : d[i].name = u /\ count(SubSeq(d, 1, i - 1), u) = nr
    BY <1>2 DEF Place
<1> QED BY <1>1, <1>3

(* The entry of a name at a number: what stands before it and after it. *)
SplitsAt(d, u, nr, p, x, q) ==
    /\ Len(p) + 1 = Place(d, u, nr)
    /\ x = d[Place(d, u, nr)]
    /\ x.name = u
    /\ count(p, u) = nr
    /\ d = around(p, x, q)
    /\ removeAt(d, u, nr) = p \o q

LEMMA AtPlace ==
    ASSUME NEW d \in Seq(Entry), NEW u, NEW nr, Has(d, u, nr)
    PROVE  \E p, q \in Seq(Entry), x \in Entry : SplitsAt(d, u, nr, p, x, q)
<1> DEFINE i == Place(d, u, nr)
           p == SubSeq(d, 1, i - 1)
           q == SubSeq(d, i + 1, Len(d))
<1>1. i \in 1 .. Len(d) /\ d[i].name = u /\ count(p, u) = nr
    BY PlaceDefined
<1>2. d[i] \in Entry /\ Len(d) \in Nat
    BY <1>1, ElementOfSeq, LenProperties
<1>3. removeAt(d, u, nr) = p \o q
    BY DEF removeAt, RemoveAt
<1> HIDE DEF i
<1>4. p \in Seq(Entry) /\ Len(p) = i - 1 /\ q \in Seq(Entry) /\ d = around(p, d[i], q)
    BY <1>1, SplitAt
<1>5. Len(p) + 1 = i
    BY <1>1, <1>2, <1>4
<1> HIDE DEF p, q
<1> QED BY <1>1, <1>2, <1>3, <1>4, <1>5 DEF i, SplitsAt

(* The values of a name around an entry. *)
LEMMA ValuesAround ==
    ASSUME NEW p \in Seq(Entry), NEW e \in Entry, NEW q \in Seq(Entry), NEW n
    PROVE  Values(around(p, e, q), n) =
               IF e.name = n THEN around(Values(p, n), e.value, Values(q, n)) ELSE Values(p \o q, n)
<1> DEFINE o == <<e>>
           r == o \o q
<1>1. o \in Seq(Entry)
    OBVIOUS
<1>2. Values(o, n) = IF e.name = n THEN <<e.value>> ELSE << >>
    BY ValuesOne
<1>3. around(p, e, q) = p \o r
    BY DEF around
<1> HIDE DEF o
<1>4. r \in Seq(Entry) /\ Values(r, n) = Values(o, n) \o Values(q, n)
    BY <1>1, ConcatProperties, ValuesConcat
<1> HIDE DEF r
<1>5. /\ Values(p \o r, n) = Values(p, n) \o Values(r, n)
      /\ Values(p \o q, n) = Values(p, n) \o Values(q, n)
    BY <1>4, ValuesConcat
<1>6. << >> \o Values(q, n) = Values(q, n)
    BY ValuesType, ConcatEmptySeq
<1>7. CASE e.name = n
    BY <1>2, <1>3, <1>4, <1>5, <1>7 DEF around
<1>8. CASE e.name # n
    BY <1>2, <1>3, <1>4, <1>5, <1>6, <1>8
<1> QED BY <1>7, <1>8

-----------------------------------------------------------------------------
(* What the operations of the dictionary do to the list of each name *)

LEMMA ValuesDel ==
    ASSUME NEW d \in Seq(Entry), NEW u
    PROVE  /\ del(d, u) \in Seq(Entry)
           /\ \A n : Values(del(d, u), n) = IF n = u THEN << >> ELSE Values(d, n)
<1>1. \A s \in Seq(Entry) : del(s, u) \in Seq(Entry)
    <2> TAKE s \in Seq(Entry)
    <2>1. del(s, u) \in Seq(EntriesOf(Name \ {u}) \cap Entry)
        BY KeptType DEF del
    <2> QED BY <2>1, SeqMonotonic
<1> SUFFICES ASSUME NEW n
             PROVE  Values(del(d, u), n) = IF n = u THEN << >> ELSE Values(d, n)
    BY <1>1
<1> DEFINE Cleared == {s \in Seq(Entry) : Values(del(s, u), n) = IF n = u THEN << >> ELSE Values(s, n)}
<1>2. << >> \in Cleared
    <2>1. del(<< >>, u) = << >>
        BY KeptEmpty DEF del
    <2> QED BY <2>1, ValuesEmpty, EmptySeq
<1>3. ASSUME NEW s \in Seq(Entry), NEW e \in Entry, s \in Cleared
      PROVE  Append(s, e) \in Cleared
    <2>1. del(Append(s, e), u) = IF e.name # u THEN Append(del(s, u), e) ELSE del(s, u)
        <3>1. e \in EntriesOf(Name \ {u}) <=> e.name # u
            BY DEF Entry, EntriesOf
        <3> QED BY <3>1, KeptAppend DEF del
    <2>2. /\ Append(s, e) \in Seq(Entry) /\ del(s, u) \in Seq(Entry)
          /\ Values(del(s, u), n) = IF n = u THEN << >> ELSE Values(s, n)
        BY <1>1, <1>3, AppendProperties
    <2>3. /\ Values(Append(s, e), n) = IF e.name = n THEN Append(Values(s, n), e.value) ELSE Values(s, n)
          /\ Values(Append(del(s, u), e), n) =
                 IF e.name = n THEN Append(Values(del(s, u), n), e.value) ELSE Values(del(s, u), n)
        BY <2>2, ValuesAppend
    <2>4. CASE n = u /\ e.name = u
        BY <2>1, <2>2, <2>4
    <2>5. CASE n = u /\ e.name # u
        BY <2>1, <2>2, <2>3, <2>5
    <2>6. CASE n # u /\ e.name = u
        <3>1. e.name # n
            BY <2>6
        <3> QED BY <2>1, <2>2, <2>3, <2>6, <3>1
    <2>7. CASE n # u /\ e.name # u
        <3>1. Values(Append(s, e), n) = Values(del(Append(s, e), u), n)
            BY <2>1, <2>2, <2>3, <2>7
        <3> QED BY <2>2, <2>7, <3>1
    <2> QED BY <2>4, <2>5, <2>6, <2>7
<1>4. Seq(Entry) \subseteq Cleared
    <2> HIDE DEF Cleared
    <2> QED BY <1>2, <1>3, SeqInduction
<1> QED BY <1>4

holes(u, k) == [i \in 1 .. k |-> entry(u, NULL)]

LEMMA ValuesHoles ==
    ASSUME NEW u \in Name, NEW k \in Nat
    PROVE  /\ holes(u, k) \in Seq(Entry)
           /\ \A n : Values(holes(u, k), n) = IF n = u THEN [i \in 1 .. k |-> NULL] ELSE << >>
<1>1. entry(u, NULL) \in Entry /\ entry(u, NULL).name = u /\ entry(u, NULL).value = NULL
    BY DEF entry, Entry, EntriesOf
<1>2. \A j \in Nat : holes(u, j) \in [1 .. j -> Entry]
    BY <1>1 DEF holes
<1>3. \A j \in Nat : holes(u, j) \in Seq(Entry) /\ Len(holes(u, j)) = j
    <2> TAKE j \in Nat
    <2>1. holes(u, j) \in [1 .. j -> Entry]
        BY <1>2
    <2>2. holes(u, j) \in Seq(Entry)
        BY <2>1, SeqDef
    <2> QED BY <2>1, <2>2, LenProperties
<1> SUFFICES ASSUME NEW n
             PROVE  Values(holes(u, k), n) = IF n = u THEN [i \in 1 .. k |-> NULL] ELSE << >>
    BY <1>3
<1> DEFINE nulls(j) == [i \in 1 .. j |-> NULL]
           Holed == {j \in Nat : Values(holes(u, j), n) = IF n = u THEN nulls(j) ELSE << >>}
<1>4. 0 \in Holed
    <2>1. holes(u, 0) = << >> /\ nulls(0) = << >>
        BY DEF holes
    <2> QED BY <2>1, ValuesEmpty
<1>5. ASSUME NEW j \in Nat, j \in Holed
      PROVE  j + 1 \in Holed
    <2>1. holes(u, j + 1) = Append(holes(u, j), entry(u, NULL))
        <3> DEFINE a == Append(holes(u, j), entry(u, NULL))
                   b == holes(u, j + 1)
        <3>1. /\ a \in Seq(Entry) /\ Len(a) = j + 1
              /\ \A i \in 1 .. j : a[i] = holes(u, j)[i]
              /\ a[j + 1] = entry(u, NULL)
            BY <1>1, <1>3, AppendProperties
        <3>2. \A i \in 1 .. j : holes(u, j)[i] = entry(u, NULL)
            BY DEF holes
        <3>3. \A i \in 1 .. j + 1 : b[i] = entry(u, NULL)
            BY DEF holes
        <3>4. b \in Seq(Entry) /\ Len(b) = j + 1
            BY <1>3
        <3> HIDE DEF a, b
        <3>5. \A i \in 1 .. Len(b) : b[i] = a[i]
            BY <3>1, <3>2, <3>3, <3>4
        <3>6. b = a
            BY <3>1, <3>4, <3>5, SeqEqual
        <3> QED BY <3>6 DEF a, b
    <2>2. Values(holes(u, j + 1), n) =
              IF u = n THEN Append(Values(holes(u, j), n), NULL) ELSE Values(holes(u, j), n)
        <3> DEFINE e == entry(u, NULL)
        <3>1. e \in Entry /\ e.name = u /\ e.value = NULL /\ holes(u, j) \in Seq(Entry)
            BY <1>1, <1>3
        <3> HIDE DEF e
        <3>2. Values(Append(holes(u, j), e), n) =
                  IF e.name = n THEN Append(Values(holes(u, j), n), e.value) ELSE Values(holes(u, j), n)
            BY <3>1, ValuesAppend
        <3> QED BY <2>1, <3>1, <3>2 DEF e
    <2>3. Append(nulls(j), NULL) = nulls(j + 1)
        <3> DEFINE a == Append(nulls(j), NULL)
        <3>1. nulls(j) \in Seq({NULL}) /\ Len(nulls(j)) = j /\ nulls(j + 1) \in Seq({NULL}) /\ Len(nulls(j + 1)) = j + 1
            OBVIOUS
        <3>2. a \in Seq({NULL}) /\ Len(a) = j + 1
            BY <3>1, AppendProperties
        <3>3. \A i \in 1 .. j + 1 : a[i] \in {NULL} /\ nulls(j + 1)[i] \in {NULL}
            BY <3>1, <3>2, ElementOfSeq
        <3> HIDE DEF a, nulls
        <3>4. \A i \in 1 .. Len(a) : a[i] = nulls(j + 1)[i]
            BY <3>2, <3>3
        <3>5. a = nulls(j + 1)
            BY <3>1, <3>2, <3>4, SeqEqual
        <3> QED BY <3>5 DEF a
    <2>4. Values(holes(u, j), n) = IF n = u THEN nulls(j) ELSE << >>
        BY <1>5
    <2> HIDE DEF nulls
    <2>5. Values(holes(u, j + 1), n) = IF n = u THEN nulls(j + 1) ELSE << >>
        BY <2>2, <2>3, <2>4
    <2> QED BY <2>5
<1>6. k \in Holed
    <2> HIDE DEF Holed
    <2> QED BY <1>4, <1>5, SetInduction
<1> QED BY <1>6

(* set, as Placed of ElementLists says it of the list of the name. *)
LEMMA ValuesSet ==
    ASSUME NEW d \in Seq(Entry), NEW u \in Name, NEW pos \in Nat, NEW v \in Value
    PROVE  /\ set(d, u, pos, v) \in Seq(Entry)
           /\ \A n : Values(set(d, u, pos, v), n) =
                  IF n = u THEN Lists!Placed(Values(d, u), pos, v) ELSE Values(d, n)
<1> DEFINE w == Values(d, u)
<1>1. w \in Seq(Value) /\ Len(w) \in Nat /\ count(d, u) = Len(w)
    BY ValuesType DEF count
<1>2. CASE Has(d, u, pos)
    <2>0. PICK p, q \in Seq(Entry), x \in Entry : SplitsAt(d, u, pos, p, x, q)
        BY <1>2, AtPlace
    <2>1. /\ Len(p) + 1 = Place(d, u, pos)
          /\ x = d[Place(d, u, pos)] /\ x.name = u
          /\ count(p, u) = pos
          /\ d = around(p, x, q)
          /\ removeAt(d, u, pos) = p \o q
        BY <2>0 DEF SplitsAt
    <2> DEFINE e == [x EXCEPT !.value = v]
    <2>2. e \in Entry /\ e.name = u /\ e.value = v /\ x.value \in Value
        BY <2>1 DEF Entry, EntriesOf, Value
    <2>3. set(d, u, pos, v) = [d EXCEPT ![Len(p) + 1] = e]
        BY <1>2, <2>1 DEF set
    <2>4. pos < Len(w)
        BY <1>1, <1>2 DEF Has
    <2> HIDE DEF e, w
    <2>5. [d EXCEPT ![Len(p) + 1] = e] = around(p, e, q)
        <3>1. [around(p, x, q) EXCEPT ![Len(p) + 1] = e] = around(p, e, q)
            BY <2>2, Replaced
        <3> QED BY <2>1, <3>1
    <2>6. set(d, u, pos, v) = around(p, e, q)
        BY <2>1, <2>3, <2>5
    <2>7. around(p, e, q) \in Seq(Entry)
        BY <2>1, <2>2, Around
    <2>8. ASSUME NEW n
          PROVE  Values(around(p, e, q), n) = IF n = u THEN Lists!Placed(w, pos, v) ELSE Values(d, n)
        <3>1. /\ Values(around(p, e, q), n) =
                     IF e.name = n THEN around(Values(p, n), e.value, Values(q, n)) ELSE Values(p \o q, n)
              /\ Values(around(p, x, q), n) =
                     IF x.name = n THEN around(Values(p, n), x.value, Values(q, n)) ELSE Values(p \o q, n)
            BY <2>2, ValuesAround
        <3>2. CASE n = u
            <4>1. Values(around(p, e, q), n) = around(Values(p, u), v, Values(q, u))
                BY <2>2, <3>1, <3>2
            <4>2. w = around(Values(p, u), x.value, Values(q, u))
                BY <2>1, <3>1, <3>2 DEF w
            <4>3. Values(p, u) \in Seq(Value) /\ Values(q, u) \in Seq(Value) /\ Len(Values(p, u)) = pos
                BY <2>1, ValuesType DEF count
            <4>4. [w EXCEPT ![pos + 1] = v] = around(Values(p, u), v, Values(q, u))
                <5> DEFINE a == Values(p, u)
                           b == Values(q, u)
                           c == x.value
                <5>1. a \in Seq(Value) /\ b \in Seq(Value) /\ c \in Value /\ pos = Len(a) /\ w = around(a, c, b)
                    BY <2>2, <4>2, <4>3
                <5> HIDE DEF a, b, c
                <5>2. [around(a, c, b) EXCEPT ![Len(a) + 1] = v] = around(a, v, b)
                    BY <5>1, Replaced
                <5>3. [w EXCEPT ![pos + 1] = v] = around(a, v, b)
                    BY <5>1, <5>2
                <5> QED BY <5>3 DEF a, b
            <4>5. Lists!Placed(w, pos, v) = [w EXCEPT ![pos + 1] = v]
                BY <2>4 DEF Lists!Placed
            <4> QED BY <3>2, <4>1, <4>4, <4>5
        <3>3. CASE n # u
            BY <2>1, <2>2, <3>1, <3>3
        <3> QED BY <3>2, <3>3
    <2> QED BY <2>6, <2>7, <2>8 DEF w
<1>3. CASE ~ Has(d, u, pos)
    <2> DEFINE k == pos - Len(w)
               e == entry(u, v)
               h == d \o holes(u, k)
    <2>1. k \in Nat
        BY <1>1, <1>3 DEF Has
    <2>2. e \in Entry /\ e.name = u /\ e.value = v
        BY DEF entry, Entry, EntriesOf, Value
    <2>3. set(d, u, pos, v) = Append(h, e)
        BY <1>1, <1>3 DEF set, add, holes
    <2>4. holes(u, k) \in Seq(Entry)
        BY <2>1, ValuesHoles
    <2>5. h \in Seq(Entry)
        BY <2>4, ConcatProperties
    <2> HIDE DEF k, e, h
    <2>6. Append(h, e) \in Seq(Entry)
        BY <2>2, <2>5, AppendProperties
    <2>7. ASSUME NEW n
          PROVE  Values(Append(h, e), n) = IF n = u THEN Lists!Placed(w, pos, v) ELSE Values(d, n)
        <3>1. Values(Append(h, e), n) = IF u = n THEN Append(Values(h, n), v) ELSE Values(h, n)
            BY <2>2, <2>5, ValuesAppend
        <3>2. Values(h, n) = Values(d, n) \o Values(holes(u, k), n)
            BY <2>4, ValuesConcat DEF h
        <3>3. Values(holes(u, k), n) = IF n = u THEN [i \in 1 .. k |-> NULL] ELSE << >>
            BY <2>1, ValuesHoles
        <3>4. CASE n = u
            <4> DEFINE nulls == [i \in 1 .. k |-> NULL]
                       g == w \o nulls
                       a == Append(g, v)
                       b == Lists!Placed(w, pos, v)
            <4>1. nulls \in Seq(Value) /\ Len(nulls) = k /\ \A i \in 1 .. k : nulls[i] = NULL
                <5>1. nulls \in [1 .. k -> Value]
                    BY DEF Value
                <5>2. nulls \in Seq(Value)
                    BY <2>1, <5>1, SeqDef
                <5> QED BY <2>1, <5>1, <5>2, LenProperties
            <4> HIDE DEF nulls, w
            <4>2. /\ g \in Seq(Value) /\ Len(g) = Len(w) + k
                  /\ \A i \in 1 .. Len(w) + k : g[i] = IF i <= Len(w) THEN w[i] ELSE nulls[i - Len(w)]
                BY <1>1, <4>1, ConcatProperties
            <4>3. Len(w) + k = pos /\ pos >= Len(w)
                BY <1>1, <2>1 DEF k
            <4> HIDE DEF g
            <4>4. /\ a \in Seq(Value) /\ Len(a) = pos + 1
                  /\ \A i \in 1 .. pos : a[i] = g[i]
                  /\ a[pos + 1] = v
                BY <4>2, <4>3, AppendProperties
            <4>5. b = [i \in 1 .. pos + 1 |-> IF i <= Len(w) THEN w[i] ELSE IF i = pos + 1 THEN v ELSE NULL]
                BY <1>1, <4>3 DEF Lists!Placed
            <4> HIDE DEF a, b
            <4>6. ASSUME NEW i \in 1 .. pos + 1
                  PROVE  a[i] = IF i <= Len(w) THEN w[i] ELSE IF i = pos + 1 THEN v ELSE NULL
                <5>1. CASE i = pos + 1
                    <6>1. ~ (i <= Len(w))
                        BY <1>1, <4>3, <5>1
                    <6> QED BY <4>4, <5>1, <6>1
                <5>2. CASE i <= pos /\ i <= Len(w)
                    <6>1. i \in 1 .. pos /\ i \in 1 .. Len(w) + k
                        BY <4>3, <5>2
                    <6>2. a[i] = w[i]
                        BY <4>2, <4>4, <5>2, <6>1
                    <6> QED BY <5>2, <6>2
                <5>3. CASE i <= pos /\ ~ (i <= Len(w))
                    <6>1. i - Len(w) \in 1 .. k /\ i # pos + 1
                        BY <1>1, <2>1, <4>3, <5>3
                    <6>2. nulls[i - Len(w)] = NULL
                        BY <4>1, <6>1
                    <6>3. i \in 1 .. pos /\ i \in 1 .. Len(w) + k
                        BY <4>3, <5>3
                    <6>4. a[i] = nulls[i - Len(w)]
                        BY <4>2, <4>4, <5>3, <6>3
                    <6> QED BY <5>3, <6>1, <6>2, <6>4
                <5> QED BY <5>1, <5>2, <5>3
            <4>7. a = b
                <5>1. a = [i \in 1 .. pos + 1 |-> a[i]]
                    BY <4>4, LenProperties
                <5> QED BY <4>5, <4>6, <5>1
            <4>8. Values(Append(h, e), n) = a
                BY <3>1, <3>2, <3>3, <3>4 DEF a, g, nulls, w
            <4> QED BY <3>4, <4>7, <4>8 DEF b
        <3>5. CASE n # u
            <4>1. Values(d, n) \o << >> = Values(d, n)
                BY ValuesType, ConcatEmptySeq
            <4> QED BY <3>1, <3>2, <3>3, <3>5, <4>1
        <3> QED BY <3>4, <3>5
    <2> QED BY <2>3, <2>6, <2>7
<1> QED BY <1>2, <1>3

LEMMA ValuesRemoveAt ==
    ASSUME NEW d \in Seq(Entry), NEW u \in Name, NEW nr \in Nat
    PROVE  /\ removeAt(d, u, nr) \in Seq(Entry)
           /\ \A n : Values(removeAt(d, u, nr), n) =
                  IF n = u /\ nr < count(d, u)
                  THEN SubSeq(Values(d, u), 1, nr) \o SubSeq(Values(d, u), nr + 2, count(d, u))
                  ELSE Values(d, n)
<1> DEFINE w == Values(d, u)
<1>1. w \in Seq(Value) /\ Len(w) \in Nat /\ count(d, u) = Len(w)
    BY ValuesType DEF count
<1>2. CASE Has(d, u, nr)
    <2>0. PICK p, q \in Seq(Entry), x \in Entry : SplitsAt(d, u, nr, p, x, q)
        BY <1>2, AtPlace
    <2>1. /\ Len(p) + 1 = Place(d, u, nr)
          /\ x = d[Place(d, u, nr)] /\ x.name = u
          /\ count(p, u) = nr
          /\ d = around(p, x, q)
          /\ removeAt(d, u, nr) = p \o q
        BY <2>0 DEF SplitsAt
    <2>2. x.value \in Value
        BY DEF Entry, EntriesOf, Value
    <2>3. nr < Len(w)
        BY <1>1, <1>2 DEF Has
    <2> HIDE DEF w
    <2>4. p \o q \in Seq(Entry)
        BY ConcatProperties
    <2>5. ASSUME NEW n
          PROVE  Values(p \o q, n) = IF n = u THEN SubSeq(w, 1, nr) \o SubSeq(w, nr + 2, Len(w)) ELSE Values(d, n)
        <3>1. Values(around(p, x, q), n) =
                  IF x.name = n THEN around(Values(p, n), x.value, Values(q, n)) ELSE Values(p \o q, n)
            BY ValuesAround
        <3>2. CASE n = u
            <4>1. Values(p \o q, u) = Values(p, u) \o Values(q, u)
                BY ValuesConcat
            <4>2. w = around(Values(p, u), x.value, Values(q, u))
                BY <2>1, <3>1, <3>2 DEF w
            <4>3. Values(p, u) \in Seq(Value) /\ Values(q, u) \in Seq(Value) /\ Len(Values(p, u)) = nr
                BY <2>1, ValuesType DEF count
            <4>4. SubSeq(w, 1, nr) = Values(p, u) /\ SubSeq(w, nr + 2, Len(w)) = Values(q, u)
                <5> DEFINE a == Values(p, u)
                           b == Values(q, u)
                           c == x.value
                <5>1. a \in Seq(Value) /\ b \in Seq(Value) /\ c \in Value
                    BY <2>2, <4>2, <4>3
                <5>2. nr = Len(a) /\ w = around(a, c, b)
                    BY <4>2, <4>3
                <5> HIDE DEF a, b, c
                <5>3. SubSeq(around(a, c, b), 1, Len(a)) = a
                    BY <5>1, Before
                <5>4. SubSeq(around(a, c, b), Len(a) + 2, Len(around(a, c, b))) = b
                    BY <5>1, After
                <5> QED BY <5>2, <5>3, <5>4 DEF a, b
            <4> QED BY <3>2, <4>1, <4>4
        <3>3. CASE n # u
            BY <2>1, <3>1, <3>3
        <3> QED BY <3>2, <3>3
    <2> QED BY <1>1, <2>1, <2>3, <2>4, <2>5 DEF w
<1>3. CASE ~ Has(d, u, nr)
    <2>1. ~ (nr < count(d, u)) /\ removeAt(d, u, nr) = d
        BY <1>1, <1>3 DEF Has, removeAt
    <2> QED BY <2>1
<1> QED BY <1>2, <1>3

-----------------------------------------------------------------------------
(* The inductive invariant *)

(* The text element is missing, or there is one and it has contents. *)
TextOK ==
    Values(elems, TextName) \in {<< >>} \cup {<<o>> : o \in Object}

(* How far a call has got. *)
Formed(t) ==
    LET o == op[t]
    IN  o.pc # "idle" =>
            /\ o.todo # << >>
            /\ o.call = "setSimpleContent" =>
                   o.pc = "setElem" /\ o.name = TextName /\ o.index = 0 /\ Len(o.todo) = 1
            /\ o.call # "setSimpleContent" => o.name \in ElemName
            /\ o.call = "cgetElem" => o.pc \in {"getElem", "setElem"} /\ Len(o.todo) = 1
            /\ o.call = "appendElem" => Len(o.todo) = 1
            /\ o.call \in {"appendElem", "setElemArray"} => o.pc \in {"countElems", "setElem"}

(* What a call relies on: the index that countElems returned is the length  *)
(* of the list until setElem uses it, and the list with the values that are *)
(* to be stored is the array that was given.                                *)
OnCourse(t) ==
    LET o == op[t]
    IN  Holds(o) =>
            /\ o.call = "setElemArray" => Values(elems, o.name) \o o.todo = o.array
            /\ o.pc = "setElem" => o.index = count(elems, o.name)

(* Only a call that has a place or a list can be disturbed in it, and the   *)
(* others are on course.                                                    *)
IInv ==
    /\ TypeOK
    /\ TextOK
    /\ \A t \in Thread : Formed(t)
    /\ \A t \in disturbed : Holds(op[t])
    /\ \A t \in Thread \ disturbed : OnCourse(t)

LeavesOthers(t) == \A s \in Thread : s # t => op'[s] = op[s]

LEMMA ArraysAre ==
    ASSUME NEW vs
    PROVE  /\ vs \in Arrays <=> vs \in Seq(Object) /\ Len(vs) <= MaxArray
           /\ vs \in BoundedSeq(Object, 1) <=> vs \in Seq(Object) /\ Len(vs) <= 1
<1>1. MaxArray \in Nat /\ 1 \in Nat
    BY ContentsAssumption
<1>2. vs \in BoundedSeq(Object, MaxArray) <=> vs \in Seq(Object) /\ Len(vs) <= MaxArray
    BY <1>1, BoundedSeqIsSeq
<1>3. vs \in BoundedSeq(Object, 1) <=> vs \in Seq(Object) /\ Len(vs) <= 1
    BY <1>1, BoundedSeqIsSeq
<1> QED BY <1>2, <1>3 DEF Arrays

LEMMA OneIsArray ==
    ASSUME NEW v \in Object
    PROVE  <<v>> \in Arrays /\ Len(<<v>>) = 1 /\ <<v>> # << >> /\ Head(<<v>>) = v
<1>1. <<v>> \in Seq(Object) /\ Len(<<v>>) = 1 /\ <<v>> # << >> /\ Head(<<v>>) = v
    OBVIOUS
<1>2. MaxArray \in Nat /\ 1 <= MaxArray
    BY ContentsAssumption
<1> QED BY <1>1, <1>2, ArraysAre

LEMMA OthersOnCourse ==
    ASSUME IInv, NEW t \in Thread, LeavesOthers(t), Noted(t), NEW s \in Thread, s # t
    PROVE  Formed(s)' /\ (s \notin disturbed' => OnCourse(s)')
<1>1. op'[s] = op[s] /\ Formed(s)
    BY DEF LeavesOthers, IInv
<1>2. Formed(s)'
    BY <1>1 DEF Formed
<1>3. ASSUME s \notin disturbed', Holds(op[s])
      PROVE  OnCourse(s)'
    <2>1. s \notin disturbed /\ Values(elems', op[s].name) = Values(elems, op[s].name)
        BY <1>1, <1>3 DEF Noted
    <2>2. OnCourse(s)
        BY <2>1 DEF IInv
    <2>3. Values(elems', op'[s].name) = Values(elems, op[s].name)
        BY <1>1, <2>1
    <2>4. count(elems', op'[s].name) = count(elems, op[s].name)
        BY <2>3 DEF count
    <2> QED BY <1>1, <2>2, <2>3, <2>4 DEF OnCourse
<1>4. ASSUME ~ Holds(op[s])
      PROVE  OnCourse(s)'
    <2>1. ~ Holds(op'[s])
        BY <1>1, <1>4
    <2> QED BY <2>1 DEF OnCourse
<1> QED BY <1>2, <1>3, <1>4

LEMMA Idles ==
    ASSUME NEW t \in Thread, op'[t].pc = "idle"
    PROVE  Formed(t)' /\ OnCourse(t)'
BY DEF Formed, OnCourse, Holds

LEMMA IdleType ==
    Idle \in Op /\ Idle.pc = "idle"
<1>1. << >> \in Arrays
    <2>1. << >> \in Seq(Object) /\ Len(<< >>) = 0
        OBVIOUS
    <2>2. MaxArray \in Nat /\ 0 <= MaxArray
        BY ContentsAssumption
    <2> QED BY <2>1, <2>2, ArraysAre
<1> QED BY <1>1, ContentsAssumption DEF Idle, Op

(* The call of one thread changes to o. *)
LEMMA CallChanges ==
    ASSUME TypeOK, NEW t \in Thread, NEW o \in Op, op' = [op EXCEPT ![t] = o]
    PROVE  /\ op' \in [Thread -> Op]
           /\ op'[t] = o
           /\ \A s \in Thread : s # t => op'[s] = op[s]
BY DEF TypeOK

(* The text's list stays when the list of another name changes. *)
LEMMA OneNameChanges ==
    ASSUME NEW u, u # TextName, TextOK, \A n : n # u => Values(elems', n) = Values(elems, n)
    PROVE  TextOK'
<1>1. Values(elems', TextName) = Values(elems, TextName)
    OBVIOUS
<1> QED BY <1>1 DEF TextOK

LEMMA CallStarts ==
    ASSUME TypeOK, NEW t \in Thread, NEW pc, NEW call, NEW n \in Name, NEW vs \in Arrays,
           pc \in {"countElems", "getElem", "setElem"},
           call \in {"appendElem", "cgetElem", "setElemArray", "setSimpleContent"},
           NEW i \in Nat, Enter(t, pc, call, n, i, vs)
    PROVE  /\ op' \in [Thread -> Op]
           /\ op'[t] = [pc |-> pc, call |-> call, name |-> n, index |-> i, todo |-> vs, array |-> vs]
           /\ \A s \in Thread : s # t => op'[s] = op[s]
<1> DEFINE o == [pc |-> pc, call |-> call, name |-> n, index |-> i, todo |-> vs, array |-> vs]
<1>1. o \in Op
    BY DEF Op
<1>2. op' = [op EXCEPT ![t] = o]
    BY DEF Enter
<1> HIDE DEF o
<1>3. op' \in [Thread -> Op] /\ op'[t] = o /\ \A s \in Thread : s # t => op'[s] = op[s]
    BY <1>1, <1>2, CallChanges
<1> QED BY <1>3 DEF o

(* What every step of a thread keeps. *)
Keeps(t) ==
    /\ elems' \in Seq(Entry) /\ op' \in [Thread -> Op]
    /\ TextOK'
    /\ LeavesOthers(t)
    /\ Formed(t)'
    /\ t \notin disturbed => OnCourse(t)'

LEMMA SetElemKeeps ==
    ASSUME IInv, NEW t \in Thread, NEW n \in ElemName, NEW v \in Object, NEW i \in 0 .. MaxIndex,
           setElem(t, n, v, i)
    PROVE  Keeps(t)
<1>1. op' = op /\ op[t].pc = "idle" /\ elems' = set(elems, n, i, v)
    BY DEF setElem, Starts
<1>2. n \in Name /\ n # TextName /\ i \in Nat /\ v \in Value
    BY DEF ElemName, Value
<1>3. elems' \in Seq(Entry) /\ \A m : m # n => Values(elems', m) = Values(elems, m)
    <2>1. elems \in Seq(Entry)
        BY DEF IInv, TypeOK
    <2>2. /\ set(elems, n, i, v) \in Seq(Entry)
          /\ \A m : Values(set(elems, n, i, v), m) =
                 IF m = n THEN Lists!Placed(Values(elems, n), i, v) ELSE Values(elems, m)
        BY <1>2, <2>1, ValuesSet
    <2> QED BY <1>1, <2>2
<1>4. LeavesOthers(t) /\ TextOK'
    BY <1>1, <1>2, <1>3, OneNameChanges DEF IInv, LeavesOthers
<1>5. Formed(t)' /\ OnCourse(t)'
    BY <1>1, Idles
<1> QED BY <1>1, <1>3, <1>4, <1>5 DEF Keeps, IInv, TypeOK

LEMMA RemoveElemsKeeps ==
    ASSUME IInv, NEW t \in Thread, NEW n \in ElemName, removeElems(t, n)
    PROVE  Keeps(t)
<1>1. op' = op /\ op[t].pc = "idle" /\ elems' = del(elems, n)
    BY DEF removeElems
<1>2. n \in Name /\ n # TextName
    BY DEF ElemName
<1>3. elems' \in Seq(Entry) /\ \A m : m # n => Values(elems', m) = Values(elems, m)
    BY <1>1, ValuesDel DEF IInv, TypeOK
<1>4. LeavesOthers(t) /\ TextOK'
    BY <1>1, <1>2, <1>3, OneNameChanges DEF IInv, LeavesOthers
<1>5. Formed(t)' /\ OnCourse(t)'
    BY <1>1, Idles
<1> QED BY <1>1, <1>3, <1>4, <1>5 DEF Keeps, IInv, TypeOK

LEMMA RemoveElemAtKeeps ==
    ASSUME IInv, NEW t \in Thread, NEW n \in ElemName, NEW i \in 0 .. MaxIndex,
           removeElemAt(t, n, i)
    PROVE  Keeps(t)
<1>1. op' = op /\ op[t].pc = "idle" /\ elems' = removeAt(elems, n, i)
    BY DEF removeElemAt
<1>2. n \in Name /\ n # TextName /\ i \in Nat
    BY DEF ElemName
<1>3. elems' \in Seq(Entry) /\ \A m : m # n => Values(elems', m) = Values(elems, m)
    BY <1>1, <1>2, ValuesRemoveAt DEF IInv, TypeOK
<1>4. LeavesOthers(t) /\ TextOK'
    BY <1>1, <1>2, <1>3, OneNameChanges DEF IInv, LeavesOthers
<1>5. Formed(t)' /\ OnCourse(t)'
    BY <1>1, Idles
<1> QED BY <1>1, <1>3, <1>4, <1>5 DEF Keeps, IInv, TypeOK

(* appendElem and cgetElem begin, and change nothing yet. *)
LEMMA BeginKeeps ==
    ASSUME IInv, NEW t \in Thread, NEW n \in ElemName, NEW v \in Object, NEW i \in 0 .. MaxIndex,
           appendElem(t, n, v) \/ cgetElem(t, n, i, v)
    PROVE  Keeps(t)
<1>1. n \in Name /\ i \in Nat /\ 0 \in Nat /\ <<v>> \in Arrays /\ Len(<<v>>) = 1 /\ <<v>> # << >>
    BY OneIsArray DEF ElemName
<1>2. TypeOK
    BY DEF IInv
<1>3. elems' = elems
    BY DEF appendElem, cgetElem
<1> DEFINE vs == <<v>>
<1>4. /\ op' \in [Thread -> Op] /\ (\A s \in Thread : s # t => op'[s] = op[s])
      /\ \/ op'[t] = [pc |-> "countElems", call |-> "appendElem", name |-> n, index |-> 0, todo |-> vs, array |-> vs]
         \/ op'[t] = [pc |-> "getElem", call |-> "cgetElem", name |-> n, index |-> i, todo |-> vs, array |-> vs]
    <2>1. CASE appendElem(t, n, v)
        <3>1. Enter(t, "countElems", "appendElem", n, 0, vs)
            BY <2>1 DEF appendElem
        <3>2. vs \in Arrays
            BY <1>1
        <3> HIDE DEF vs
        <3> QED BY <1>1, <1>2, <3>1, <3>2, CallStarts
    <2>2. CASE cgetElem(t, n, i, v)
        <3>1. Enter(t, "getElem", "cgetElem", n, i, vs)
            BY <2>2 DEF cgetElem
        <3>2. vs \in Arrays
            BY <1>1
        <3> HIDE DEF vs
        <3> QED BY <1>1, <1>2, <3>1, <3>2, CallStarts
    <2> QED BY <2>1, <2>2
<1>5. LeavesOthers(t) /\ TextOK'
    BY <1>3, <1>4 DEF LeavesOthers, IInv, TextOK
<1>6. vs # << >> /\ Len(vs) = 1
    BY <1>1
<1> HIDE DEF vs
<1>7. Formed(t)' /\ OnCourse(t)'
    <2>1. CASE op'[t] = [pc |-> "countElems", call |-> "appendElem", name |-> n, index |-> 0, todo |-> vs, array |-> vs]
        BY <1>6, <2>1 DEF Formed, OnCourse, Holds
    <2>2. CASE op'[t] = [pc |-> "getElem", call |-> "cgetElem", name |-> n, index |-> i, todo |-> vs, array |-> vs]
        BY <1>6, <2>2 DEF Formed, OnCourse, Holds
    <2> QED BY <1>4, <2>1, <2>2
<1> QED BY <1>2, <1>3, <1>4, <1>5, <1>7 DEF Keeps, TypeOK

LEMMA SetElemArrayKeeps ==
    ASSUME IInv, NEW t \in Thread, NEW n \in ElemName, NEW vs \in Arrays,
           setElemArray(t, n, vs)
    PROVE  Keeps(t)
<1>1. op[t].pc = "idle" /\ elems' = del(elems, n)
    BY DEF setElemArray, Starts
<1>2. n \in Name /\ n # TextName
    BY DEF ElemName
<1>3. /\ elems' \in Seq(Entry) /\ \A m : m # n => Values(elems', m) = Values(elems, m)
      /\ Values(elems', n) = << >>
    BY <1>1, ValuesDel DEF IInv, TypeOK
<1>4. ASSUME op' \in [Thread -> Op], LeavesOthers(t), Formed(t)', OnCourse(t)'
      PROVE  Keeps(t)
    <2>1. TextOK'
        BY <1>2, <1>3, OneNameChanges DEF IInv
    <2> QED BY <1>3, <1>4, <2>1 DEF Keeps, TypeOK
<1>5. CASE vs = << >>
    <2>1. op' = op
        BY <1>5 DEF setElemArray
    <2>2. Formed(t)' /\ OnCourse(t)'
        BY <1>1, <2>1, Idles
    <2> QED BY <1>4, <2>1, <2>2 DEF IInv, TypeOK, LeavesOthers
<1>6. CASE vs # << >>
    <2>1. Enter(t, "countElems", "setElemArray", n, 0, vs)
        BY <1>6 DEF setElemArray
    <2>2. TypeOK /\ 0 \in Nat
        BY DEF IInv
    <2>3. /\ op' \in [Thread -> Op] /\ (\A s \in Thread : s # t => op'[s] = op[s])
          /\ op'[t] = [pc |-> "countElems", call |-> "setElemArray", name |-> n, index |-> 0, todo |-> vs, array |-> vs]
        BY <1>2, <2>1, <2>2, CallStarts
    <2>4. Values(elems', op'[t].name) \o op'[t].todo = op'[t].array
        <3>1. << >> \o vs = vs
            BY ArraysAre, ConcatEmptySeq
        <3>2. op'[t].name = n /\ op'[t].todo = vs /\ op'[t].array = vs
            BY <2>3
        <3>3. Values(elems', op'[t].name) = << >>
            BY <1>3, <3>2
        <3> QED BY <3>1, <3>2, <3>3
    <2>5. Formed(t)' /\ OnCourse(t)'
        BY <1>6, <2>3, <2>4 DEF Formed, OnCourse
    <2> QED BY <1>4, <2>3, <2>5 DEF LeavesOthers
<1> QED BY <1>5, <1>6

LEMMA SetSimpleContentKeeps ==
    ASSUME IInv, NEW t \in Thread, NEW vs \in BoundedSeq(Object, 1),
           setSimpleContent(t, vs)
    PROVE  Keeps(t)
<1>1. op[t].pc = "idle" /\ elems' = del(elems, TextName)
    BY DEF setSimpleContent, Starts
<1>2. TextName \in Name /\ TypeOK /\ 0 \in Nat
    BY ContentsAssumption DEF IInv
<1>3. /\ elems' \in Seq(Entry) /\ \A m : m # TextName => Values(elems', m) = Values(elems, m)
      /\ Values(elems', TextName) = << >>
    BY <1>1, <1>2, ValuesDel DEF TypeOK
<1>4. TextOK'
    BY <1>3 DEF TextOK
<1>5. ASSUME op' \in [Thread -> Op], LeavesOthers(t), Formed(t)', OnCourse(t)'
      PROVE  Keeps(t)
    BY <1>3, <1>4, <1>5 DEF Keeps
<1>6. CASE vs = << >>
    <2>1. op' = op
        BY <1>6 DEF setSimpleContent
    <2>2. Formed(t)' /\ OnCourse(t)'
        BY <1>1, <2>1, Idles
    <2> QED BY <1>2, <1>5, <2>1, <2>2 DEF TypeOK, LeavesOthers
<1>7. CASE vs # << >>
    <2>1. Enter(t, "setElem", "setSimpleContent", TextName, 0, vs)
        BY <1>7 DEF setSimpleContent
    <2>2. vs \in Arrays /\ Len(vs) = 1
        <3>1. vs \in Seq(Object) /\ Len(vs) <= 1
            BY ArraysAre
        <3>2. Len(vs) = 1
            <4> DEFINE k == Len(vs)
            <4>1. k \in Nat
                BY <3>1, LenProperties
            <4>2. k # 0
                BY <1>7, <3>1, EmptySeq
            <4>3. k <= 1
                BY <3>1
            <4> HIDE DEF k
            <4>4. k = 1
                BY <4>1, <4>2, <4>3
            <4> QED BY <4>4 DEF k
        <3>3. MaxArray \in Nat /\ 1 <= MaxArray
            BY ContentsAssumption
        <3> QED BY <3>1, <3>2, <3>3, ArraysAre
    <2>3. /\ op' \in [Thread -> Op] /\ (\A s \in Thread : s # t => op'[s] = op[s])
          /\ op'[t] = [pc |-> "setElem", call |-> "setSimpleContent", name |-> TextName, index |-> 0, todo |-> vs, array |-> vs]
        BY <1>2, <2>1, <2>2, CallStarts
    <2>4. Formed(t)' /\ OnCourse(t)'
        BY <1>7, <2>2, <2>3 DEF Formed, OnCourse, Holds
    <2> QED BY <1>5, <2>3, <2>4 DEF LeavesOthers
<1> QED BY <1>6, <1>7

LEMMA CountElemsKeeps ==
    ASSUME IInv, NEW t \in Thread, countElems(t)
    PROVE  Keeps(t)
<1> DEFINE o == [op[t] EXCEPT !.index = count(elems, op[t].name), !.pc = "setElem"]
<1>1. op[t] \in Op /\ op[t].pc = "countElems" /\ Formed(t) /\ elems' = elems /\ TypeOK
    BY DEF IInv, TypeOK, countElems
<1>2. count(elems, op[t].name) \in Nat
    BY <1>1, ValuesType DEF TypeOK
<1>3. /\ o \in Op /\ o.pc = "setElem" /\ o.index = count(elems, op[t].name)
      /\ o.call = op[t].call /\ o.name = op[t].name /\ o.todo = op[t].todo /\ o.array = op[t].array
    BY <1>1, <1>2 DEF Op
<1>4. op' = [op EXCEPT ![t] = o]
    BY <1>1 DEF countElems, TypeOK
<1> HIDE DEF o
<1>5. op' \in [Thread -> Op] /\ op'[t] = o /\ \A s \in Thread : s # t => op'[s] = op[s]
    BY <1>1, <1>3, <1>4, CallChanges
<1>6. LeavesOthers(t) /\ TextOK'
    BY <1>1, <1>5 DEF LeavesOthers, IInv, TextOK
<1>7. Formed(t)'
    BY <1>1, <1>3, <1>5 DEF Formed
<1>8. ASSUME t \notin disturbed
      PROVE  OnCourse(t)'
    <2>1. count(elems', o.name) = o.index /\ Values(elems', o.name) = Values(elems, op[t].name)
        BY <1>1, <1>3
    <2>2. OnCourse(t)
        BY <1>8 DEF IInv
    <2>3. CASE op[t].call = "setElemArray"
        BY <1>1, <1>3, <1>5, <2>1, <2>2, <2>3 DEF OnCourse, Holds
    <2>4. CASE op[t].call # "setElemArray"
        BY <1>1, <1>3, <1>5, <2>1, <2>4 DEF OnCourse, Holds
    <2> QED BY <2>3, <2>4
<1> QED BY <1>1, <1>5, <1>6, <1>7, <1>8 DEF Keeps, TypeOK

LEMMA GetElemKeeps ==
    ASSUME IInv, NEW t \in Thread, getElem(t)
    PROVE  Keeps(t)
<1> DEFINE o == [op[t] EXCEPT !.pc = "setElem"]
<1>1. op[t] \in Op /\ op[t].pc = "getElem" /\ Formed(t) /\ elems' = elems /\ TypeOK
    BY DEF IInv, TypeOK, getElem
<1>2. /\ o \in Op /\ o.pc = "setElem" /\ o.index = op[t].index
      /\ o.call = op[t].call /\ o.name = op[t].name /\ o.todo = op[t].todo /\ o.array = op[t].array
    BY <1>1 DEF Op
<1>3. op' = [op EXCEPT ![t] = o] \/ op' = [op EXCEPT ![t] = Idle]
    BY <1>1 DEF getElem, TypeOK
<1> HIDE DEF o
<1>4. /\ op' \in [Thread -> Op] /\ (\A s \in Thread : s # t => op'[s] = op[s])
      /\ op'[t] = o \/ op'[t] = Idle
    BY <1>1, <1>2, <1>3, CallChanges, IdleType
<1>5. LeavesOthers(t) /\ TextOK'
    BY <1>1, <1>4 DEF LeavesOthers, IInv, TextOK
<1>6. Formed(t)' /\ OnCourse(t)'
    <2>1. CASE op'[t] = Idle
        BY <2>1, IdleType, Idles
    <2>2. CASE op'[t] = o
        BY <1>1, <1>2, <2>2 DEF Formed, OnCourse, Holds, Op
    <2> QED BY <1>4, <2>1, <2>2
<1> QED BY <1>1, <1>4, <1>5, <1>6 DEF Keeps, TypeOK

(* What Placed does at the end of a list, and on the text's list. *)
LEMMA PlacedAtEnd ==
    ASSUME NEW w \in Seq(Value), NEW v \in Value
    PROVE  Lists!Placed(w, Len(w), v) = Append(w, v)
<1> DEFINE k == Len(w)
           a == Append(w, v)
           b == Lists!Placed(w, k, v)
<1>1. k \in Nat
    BY LenProperties
<1>2. /\ a \in Seq(Value) /\ Len(a) = k + 1
      /\ \A i \in 1 .. k : a[i] = w[i]
      /\ a[k + 1] = v
    BY AppendProperties
<1>3. k = Len(w)
    OBVIOUS
<1> HIDE DEF k
<1>4. b = [i \in 1 .. k + 1 |-> IF i <= k THEN w[i] ELSE IF i = k + 1 THEN v ELSE NULL]
    <2>1. ~ (k < Len(w))
        BY <1>1, <1>3
    <2> QED BY <1>3, <2>1 DEF Lists!Placed
<1> HIDE DEF a, b
<1>5. ASSUME NEW i \in 1 .. k + 1
      PROVE  a[i] = IF i <= k THEN w[i] ELSE IF i = k + 1 THEN v ELSE NULL
    BY <1>1, <1>2
<1>6. a = [i \in 1 .. k + 1 |-> a[i]]
    BY <1>2, LenProperties
<1>7. a = b
    BY <1>4, <1>5, <1>6
<1> QED BY <1>3, <1>7 DEF a, b

LEMMA PlacedFirst ==
    ASSUME NEW w, w \in {<< >>} \cup {<<o>> : o \in Object}, NEW v \in Object
    PROVE  Lists!Placed(w, 0, v) = <<v>>
<1>1. CASE w = << >>
    BY <1>1 DEF Lists!Placed
<1>2. ASSUME NEW o \in Object, w = <<o>>
      PROVE  Lists!Placed(w, 0, v) = <<v>>
    <2>1. Lists!Placed(w, 0, v) = [<<o>> EXCEPT ![1] = v]
        BY <1>2 DEF Lists!Placed
    <2> QED BY <2>1
<1> QED BY <1>1, <1>2

(* What is known when a call stores a value. *)
LEMMA Storing ==
    ASSUME IInv, NEW t \in Thread, storeElem(t)
    PROVE  /\ op[t] \in Op /\ op[t].pc = "setElem" /\ Formed(t) /\ TypeOK
           /\ op[t].name \in Name
           /\ op[t].index \in Nat
           /\ op[t].todo \in Seq(Object) /\ op[t].todo # << >> /\ Len(op[t].todo) <= MaxArray
           /\ Head(op[t].todo) \in Object
           /\ elems \in Seq(Entry)
           /\ Values(elems, op[t].name) \in Seq(Value)
           /\ elems' = set(elems, op[t].name, op[t].index, Head(op[t].todo))
<1>1. op[t] \in Op /\ op[t].pc = "setElem" /\ Formed(t) /\ TypeOK /\ elems \in Seq(Entry)
    BY DEF IInv, TypeOK, storeElem
<1>2. op[t].todo # << >>
    BY <1>1 DEF Formed
<1>4. op[t].todo \in Arrays /\ op[t].name \in Name /\ op[t].index \in Nat
    BY <1>1 DEF Op
<1>5. op[t].todo \in Seq(Object) /\ Len(op[t].todo) <= MaxArray
    BY <1>4, ArraysAre
<1>6. Head(op[t].todo) \in Object
    BY <1>2, <1>5, HeadTailProperties
<1>7. Values(elems, op[t].name) \in Seq(Value)
    BY <1>1, ValuesType
<1> QED BY <1>1, <1>2, <1>4, <1>5, <1>6, <1>7 DEF storeElem

(* appendElem and setElemArray store at the end of the list of the name. *)
LEMMA StoresAtEnd ==
    ASSUME IInv, NEW t \in Thread \ disturbed, storeElem(t), Holds(op[t])
    PROVE  Values(elems', op[t].name) = Append(Values(elems, op[t].name), Head(op[t].todo))
<1> DEFINE n == op[t].name
           i == op[t].index
           v == Head(op[t].todo)
           w == Values(elems, n)
<1>1. /\ n \in Name /\ i \in Nat /\ v \in Value /\ elems \in Seq(Entry) /\ w \in Seq(Value)
      /\ elems' = set(elems, n, i, v)
    BY Storing DEF Value
<1>2. i = Len(w)
    <2>1. OnCourse(t) /\ op[t].pc = "setElem"
        BY Storing DEF IInv
    <2> QED BY <2>1 DEF OnCourse, count
<1> HIDE DEF n, i, v
<1>3. Values(set(elems, n, i, v), n) = Lists!Placed(w, i, v)
    BY <1>1, ValuesSet
<1> HIDE DEF w
<1>4. Lists!Placed(w, i, v) = Append(w, v)
    BY <1>1, <1>2, PlacedAtEnd
<1>5. Values(elems', n) = Append(w, v)
    BY <1>1, <1>3, <1>4
<1> QED BY <1>5 DEF n, v, w

(* setElemArray with values left has made the list and these are the array. *)
LEMMA StoresArray ==
    ASSUME IInv, NEW t \in Thread \ disturbed, storeElem(t), op[t].call = "setElemArray"
    PROVE  Values(elems', op[t].name) \o Tail(op[t].todo) = op[t].array
<1> DEFINE w == Values(elems, op[t].name)
           todo == op[t].todo
           v == Head(todo)
<1>0. Holds(op[t])
    BY Storing DEF Holds
<1>1. Values(elems', op[t].name) = Append(w, v)
    BY <1>0, StoresAtEnd
<1>2. w \o todo = op[t].array
    <2>1. OnCourse(t)
        BY DEF IInv
    <2> QED BY <1>0, <2>1 DEF OnCourse
<1>3. w \in Seq(Value) /\ todo \in Seq(Object) /\ todo # << >> /\ Object \subseteq Value
    BY Storing DEF Value
<1> HIDE DEF w, todo
<1>4. v \in Value /\ Tail(todo) \in Seq(Value) /\ todo = <<v>> \o Tail(todo)
    <2>1. v \in Object /\ Tail(todo) \in Seq(Object)
        BY <1>3, HeadTailProperties
    <2>2. todo = <<v>> \o Tail(todo)
        <3>1. Len(todo) \in Nat \ {0} /\ todo[1] = v
            BY <1>3, EmptySeq
        <3>2. SubSeq(todo, 1, Len(todo)) = <<todo[1]>> \o SubSeq(todo, 1 + 1, Len(todo))
            <4>1. 1 \in 1 .. Len(todo) /\ Len(todo) \in 1 .. Len(todo)
                BY <3>1
            <4> QED BY <1>3, <4>1, SubSeqRecursiveFirst
        <3>3. Tail(todo) = SubSeq(todo, 2, Len(todo)) /\ SubSeq(todo, 1, Len(todo)) = todo
            BY <1>3, TailIsSubSeq, SubSeqFull
        <3> QED BY <3>1, <3>2, <3>3
    <2> QED BY <1>3, <2>1, <2>2, SeqMonotonic
<1> HIDE DEF v
<1> DEFINE r == Tail(todo)
<1>5. r \in Seq(Value) /\ todo = <<v>> \o r /\ <<v>> \in Seq(Value)
    BY <1>4
<1> HIDE DEF r
<1>6. Append(w, v) = w \o <<v>>
    BY <1>3, <1>4, AppendIsConcat
<1>7. (w \o <<v>>) \o r = w \o (<<v>> \o r)
    BY <1>3, <1>5, ConcatAssociative
<1>8. Append(w, v) \o r = op[t].array
    BY <1>2, <1>5, <1>6, <1>7
<1> QED BY <1>1, <1>8 DEF r, todo, v

LEMMA StoreElemKeeps ==
    ASSUME IInv, NEW t \in Thread, storeElem(t)
    PROVE  Keeps(t)
<1> DEFINE n == op[t].name
           i == op[t].index
           v == Head(op[t].todo)
           w == Values(elems, n)
           last == Len(op[t].todo) = 1
           o == [op[t] EXCEPT !.todo = Tail(@), !.pc = "countElems"]
<1>1. /\ n \in Name /\ i \in Nat /\ v \in Object /\ v \in Value /\ elems \in Seq(Entry) /\ w \in Seq(Value)
      /\ elems' = set(elems, n, i, v)
      /\ op[t] \in Op /\ op[t].pc = "setElem" /\ Formed(t) /\ TypeOK /\ TextOK
      /\ op[t].todo \in Seq(Object) /\ op[t].todo # << >> /\ Len(op[t].todo) <= MaxArray
    BY Storing DEF Value, IInv
<1>2. /\ elems' \in Seq(Entry)
      /\ \A m : m # n => Values(elems', m) = Values(elems, m)
      /\ Values(elems', n) = Lists!Placed(w, i, v)
    <2> HIDE DEF n, i, v
    <2>1. /\ set(elems, n, i, v) \in Seq(Entry)
          /\ \A m : Values(set(elems, n, i, v), m) =
                 IF m = n THEN Lists!Placed(Values(elems, n), i, v) ELSE Values(elems, m)
        BY <1>1, ValuesSet
    <2> QED BY <1>1, <2>1
<1>3. /\ op' \in [Thread -> Op] /\ (\A s \in Thread : s # t => op'[s] = op[s])
      /\ IF last THEN op'[t] = Idle ELSE op'[t] = o
    <2>1. CASE last
        <3>1. op' = [op EXCEPT ![t] = Idle]
            BY <2>1 DEF storeElem
        <3> QED BY <1>1, <2>1, <3>1, IdleType, CallChanges
    <2>2. CASE ~ last
        <3>1. op' = [op EXCEPT ![t] = o]
            BY <1>1, <2>2 DEF storeElem, TypeOK
        <3>2. Tail(op[t].todo) \in Arrays
            <4>1. /\ Tail(op[t].todo) \in Seq(Object)
                  /\ Len(Tail(op[t].todo)) = Len(op[t].todo) - 1
                  /\ Len(op[t].todo) \in Nat
                BY <1>1, HeadTailProperties, LenProperties
            <4>2. MaxArray \in Nat
                BY ContentsAssumption
            <4>3. Len(Tail(op[t].todo)) <= MaxArray
                BY <1>1, <4>1, <4>2
            <4> QED BY <4>1, <4>3, ArraysAre
        <3>3. o \in Op
            BY <1>1, <3>2 DEF Op
        <3> HIDE DEF o
        <3>4. op' \in [Thread -> Op] /\ op'[t] = o /\ \A s \in Thread : s # t => op'[s] = op[s]
            BY <1>1, <3>1, <3>3, CallChanges
        <3> QED BY <2>2, <3>4
    <2> QED BY <2>1, <2>2
<1>4. LeavesOthers(t) /\ TextOK'
    <2>1. LeavesOthers(t) /\ (n # TextName => TextOK')
        <3> HIDE DEF n
        <3> QED BY <1>1, <1>2, <1>3, OneNameChanges DEF LeavesOthers
    <2>2. ASSUME n = TextName PROVE TextOK'
        <3>1. i = 0
            <4>1. op[t].call = "setSimpleContent"
                <5>1. TextName \notin ElemName
                    BY DEF ElemName
                <5> QED BY <1>1, <2>2, <5>1 DEF Formed
            <4> QED BY <1>1, <4>1 DEF Formed
        <3>2. w \in {<< >>} \cup {<<c>> : c \in Object}
            BY <1>1, <2>2 DEF TextOK
        <3>3. Lists!Placed(w, 0, v) = <<v>>
            BY <1>1, <3>2, PlacedFirst
        <3>4. Values(elems', TextName) = <<v>>
            BY <1>2, <2>2, <3>1, <3>3
        <3> HIDE DEF v
        <3> QED BY <1>1, <3>4 DEF TextOK
    <2> QED BY <2>1, <2>2
<1>5. Formed(t)' /\ (t \notin disturbed => OnCourse(t)')
    <2>1. CASE last
        BY <1>3, <2>1, IdleType, Idles
    <2>2. CASE ~ last
        <3>1. op[t].call = "setElemArray"
            BY <1>1, <2>2 DEF Formed, Op
        <3>2. n \in ElemName
            BY <1>1, <3>1 DEF Formed
        <3>3. /\ op'[t].pc = "countElems" /\ op'[t].call = "setElemArray" /\ op'[t].name = n
              /\ op'[t].todo = Tail(op[t].todo) /\ op'[t].array = op[t].array
            BY <1>1, <1>3, <2>2, <3>1 DEF Op
        <3>4. Tail(op[t].todo) # << >>
            <4> DEFINE todo == op[t].todo
                       k == Len(todo)
            <4>1. todo \in Seq(Object) /\ todo # << >> /\ k # 1
                BY <1>1, <2>2
            <4> HIDE DEF todo
            <4>2. Len(Tail(todo)) = k - 1 /\ k \in Nat /\ Tail(todo) \in Seq(Object)
                BY <4>1, HeadTailProperties, LenProperties
            <4> HIDE DEF k
            <4>3. Len(Tail(todo)) # 0
                BY <4>1, <4>2
            <4>4. Tail(todo) # << >>
                BY <4>3, EmptySeq
            <4> QED BY <4>4 DEF todo
        <3>5. t \notin disturbed => Values(elems', n) \o Tail(op[t].todo) = op[t].array
            BY <3>1, StoresArray
        <3>6. Formed(t)'
            BY <3>2, <3>3, <3>4 DEF Formed
        <3>7. t \notin disturbed => OnCourse(t)'
            BY <3>3, <3>5 DEF OnCourse
        <3> QED BY <3>6, <3>7
    <2> QED BY <2>1, <2>2
<1> QED BY <1>2, <1>3, <1>4, <1>5 DEF Keeps, TypeOK

LEMMA StepKeeps ==
    ASSUME IInv, [Next]_vars
    PROVE  IInv'
<1>1. CASE UNCHANGED vars
    BY <1>1 DEF vars, IInv, TypeOK, TextOK, Formed, OnCourse, count
<1>2. ASSUME NEW t \in Thread, Keeps(t), Noted(t)
      PROVE  IInv'
    <2>1. ASSUME NEW s \in Thread
          PROVE  Formed(s)' /\ (s \notin disturbed' => OnCourse(s)')
        <3>1. CASE s = t
            <4>1. Formed(t)' /\ (t \notin disturbed => OnCourse(t)')
                BY <1>2 DEF Keeps
            <4>2. CASE t \in disturbed
                <5>1. t \notin disturbed' => ~ Holds(op'[t])
                    BY <1>2, <4>2 DEF Noted
                <5> QED BY <3>1, <4>1, <5>1 DEF OnCourse
            <4>3. CASE t \notin disturbed
                BY <3>1, <4>1, <4>3
            <4> QED BY <4>2, <4>3
        <3>2. CASE s # t
            BY <1>2, <3>2, OthersOnCourse DEF Keeps
        <3> QED BY <3>1, <3>2
    <2>2. disturbed' \subseteq Thread /\ \A s \in disturbed' : Holds(op'[s])
        BY <1>2 DEF Noted
    <2>3. TypeOK' /\ TextOK'
        BY <1>2, <2>2 DEF Keeps, TypeOK
    <2> QED BY <2>1, <2>2, <2>3 DEF IInv
<1>3. CASE Next
    <2>1. PICK t \in Thread : Act(t) /\ Noted(t)
        BY <1>3 DEF Next
    <2>2. SUFFICES Keeps(t)
        BY <1>2, <2>1
    <2>3. ASSUME NEW n \in ElemName, NEW v \in Object, NEW i \in 0 .. MaxIndex,
                 setElem(t, n, v, i) \/ cgetElem(t, n, i, v)
          PROVE  Keeps(t)
        BY <2>3, SetElemKeeps, BeginKeeps
    <2>4. ASSUME NEW n \in ElemName, NEW v \in Object, appendElem(t, n, v)
          PROVE  Keeps(t)
        <3>1. 0 \in 0 .. MaxIndex
            BY ContentsAssumption
        <3> QED BY <2>4, <3>1, BeginKeeps
    <2>5. ASSUME NEW n \in ElemName, removeElems(t, n)
          PROVE  Keeps(t)
        BY <2>5, RemoveElemsKeeps
    <2>6. ASSUME NEW n \in ElemName, NEW i \in 0 .. MaxIndex, removeElemAt(t, n, i)
          PROVE  Keeps(t)
        BY <2>6, RemoveElemAtKeeps
    <2>7. ASSUME NEW n \in ElemName, NEW vs \in Arrays, setElemArray(t, n, vs)
          PROVE  Keeps(t)
        BY <2>7, SetElemArrayKeeps
    <2>8. ASSUME NEW vs \in BoundedSeq(Object, 1), setSimpleContent(t, vs)
          PROVE  Keeps(t)
        BY <2>8, SetSimpleContentKeeps
    <2>9. ASSUME countElems(t) \/ getElem(t) \/ storeElem(t)
          PROVE  Keeps(t)
        BY <2>9, CountElemsKeeps, GetElemKeeps, StoreElemKeeps
    <2> QED BY <2>1, <2>3, <2>4, <2>5, <2>6, <2>7, <2>8, <2>9 DEF Act
<1> QED BY <1>1, <1>3

(* The invariant holds of every behaviour. *)
THEOREM Invariance == Spec => []IInv
<1>1. Init => IInv
    <2> SUFFICES ASSUME Init PROVE IInv
        OBVIOUS
    <2>1. elems = << >> /\ op = [t \in Thread |-> Idle] /\ disturbed = {}
        BY DEF Init
    <2>2. TypeOK
        <3>1. elems \in Seq(Entry)
            BY <2>1
        <3> QED BY <2>1, <3>1, IdleType DEF TypeOK
    <2>3. TextOK
        BY <2>1, ValuesEmpty DEF TextOK
    <2>4. \A t \in Thread : Formed(t) /\ OnCourse(t)
        BY <2>1, IdleType DEF Formed, OnCourse, Holds
    <2> QED BY <2>1, <2>2, <2>3, <2>4 DEF IInv
<1>2. IInv /\ [Next]_vars => IInv'
    BY StepKeeps
<1> QED BY <1>1, <1>2, PTL DEF Spec

(* The dictionary and the calls in progress have their types: every element *)
(* of the dictionary keeps a name, and every call one of the model's forms. *)
THEOREM TypeCorrectness == Spec => []TypeOK
<1>1. IInv => TypeOK
    BY DEF IInv
<1> QED BY <1>1, Invariance, PTL

(* However calls of setSimpleContent interleave, with each other and with   *)
(* the calls on other names, there is one text element at most and it has   *)
(* contents, so that getSimpleContent reads a text that was set.            *)
THEOREM OneTextAtMost == Spec => []OneText
<1>1. IInv => OneText
    <2> SUFFICES ASSUME IInv PROVE OneText
        OBVIOUS
    <2> DEFINE w == Values(elems, TextName)
    <2>1. elems \in Seq(Entry) /\ w \in {<< >>} \cup {<<o>> : o \in Object}
        BY DEF IInv, TypeOK, TextOK
    <2>2. Len(w) \in {0, 1} /\ \A k \in 1 .. Len(w) : w[k] \in Object
        <3> HIDE DEF w
        <3> QED BY <2>1
    <2>3. ASSUME NEW i \in DOMAIN elems, elems[i].name = TextName
          PROVE  elems[i].value # NULL
        <3>1. i \in 1 .. Len(elems)
            BY <2>1, LenProperties
        <3>2. PICK k \in 1 .. count(elems, TextName) : w[k] = elems[i].value
            BY <2>1, <2>3, <3>1, ValueOfEntry
        <3>3. w[k] \in Object
            BY <2>2, <3>2 DEF count
        <3> QED BY <3>2, <3>3, ElemDictAssumption
    <2>4. count(elems, TextName) <= 1
        BY <2>2 DEF count
    <2> QED BY <2>3, <2>4 DEF OneText
<1> QED BY <1>1, Invariance, PTL

(* Unless another thread changed the list of its name meanwhile, whatever   *)
(* else ran between its count and its set, appendElem adds at the end of    *)
(* that list, and a call to setElemArray that ends has made it exactly the  *)
(* array that was given.  Threads may share names: a call whose list stayed *)
(* as it was is not harmed by what others do to lists that precede, follow  *)
(* or are mixed with it, and calls under one name that do not overlap are   *)
(* not either.                                                              *)
THEOREM CallsAreNotDisturbed == Spec => CallsAreUndisturbed
<1>1. IInv /\ [Next]_vars => [\A t \in Thread : StoresInOrder(t)]_vars
    <2> SUFFICES ASSUME IInv, NEW t \in Thread \ disturbed, storeElem(t), Holds(op[t])
                 PROVE  /\ Values(elems', op[t].name) = Append(Values(elems, op[t].name), Head(op[t].todo))
                        /\ op[t].call = "setElemArray" /\ op'[t].pc = "idle" =>
                               Values(elems', op[t].name) = op[t].array
        BY DEF StoresInOrder
    <2>1. ASSUME op[t].call = "setElemArray", op'[t].pc = "idle"
          PROVE  Values(elems', op[t].name) = op[t].array
        <3> DEFINE todo == op[t].todo
                   w == Values(elems', op[t].name)
        <3>1. w \o Tail(todo) = op[t].array
            BY <2>1, StoresArray
        <3>2. Len(todo) = 1
            BY <2>1, Storing DEF storeElem, TypeOK, Op
        <3>3. todo \in Seq(Object) /\ todo # << >>
            BY Storing
        <3>4. w \in Seq(Value)
            <4>1. elems' \in Seq(Entry)
                BY StoreElemKeeps DEF Keeps
            <4> QED BY <4>1, ValuesType
        <3> HIDE DEF todo, w
        <3>5. Tail(todo) = << >>
            <4>1. Tail(todo) \in Seq(Object) /\ Len(Tail(todo)) = 0
                BY <3>2, <3>3, HeadTailProperties
            <4> QED BY <4>1, EmptySeq
        <3>6. w = op[t].array
            BY <3>1, <3>4, <3>5, ConcatEmptySeq
        <3> QED BY <3>6 DEF w
    <2> QED BY <2>1, StoresAtEnd
<1> QED BY <1>1, Invariance, PTL DEF Spec, CallsAreUndisturbed

-----------------------------------------------------------------------------
(* Contents implements ElementLists *)

LEMMA SetIsPut ==
    ASSUME elems \in Seq(Entry), NEW n \in Name, NEW i \in Nat, NEW v \in Object,
           elems' = set(elems, n, i, v)
    PROVE  Lists!Next
<1> DEFINE L == [m \in Name |-> Values(elems, m)]
           K == [m \in Name |-> Values(elems', m)]
           w == Values(elems, n)
<1>1. v \in Value /\ w \in Seq(Value) /\ Len(w) \in Nat
    BY ValuesType, LenProperties DEF Value
<1>2. \A m : Values(elems', m) = IF m = n THEN Lists!Placed(w, i, v) ELSE Values(elems, m)
    <2>1. \A m : Values(set(elems, n, i, v), m) = IF m = n THEN Lists!Placed(Values(elems, n), i, v) ELSE Values(elems, m)
        BY <1>1, ValuesSet
    <2> QED BY <2>1
<1>3. K = [L EXCEPT ![n] = Lists!Placed(@, i, v)]
    <2>1. L[n] = w
        OBVIOUS
    <2>2. \A m \in Name : K[m] = IF m = n THEN Lists!Placed(w, i, v) ELSE L[m]
        BY <1>2
    <2> DEFINE x == Lists!Placed(w, i, v)
    <2>3. [L EXCEPT ![n] = x] = [m \in Name |-> IF m = n THEN x ELSE L[m]]
        <3> HIDE DEF x
        <3> QED OBVIOUS
    <2> HIDE DEF w, x
    <2> QED BY <2>1, <2>2, <2>3 DEF x
<1>4. i \in 0 .. Len(K[n]) - 1
    <2>1. K[n] = Lists!Placed(w, i, v)
        BY <1>2
    <2> DEFINE p == Lists!Placed(w, i, v)
    <2>2. Len(p) \in Nat /\ i < Len(p)
        <3> HIDE DEF w
        <3>1. CASE i < Len(w)
            <4>1. p = [w EXCEPT ![i + 1] = v]
                BY <3>1 DEF Lists!Placed
            <4>2. i + 1 \in 1 .. Len(w)
                BY <1>1, <3>1
            <4>3. Len([w EXCEPT ![i + 1] = v]) = Len(w)
                BY <1>1, <4>2, ExceptSeq
            <4> QED BY <1>1, <3>1, <4>1, <4>3
        <3>2. CASE ~ (i < Len(w))
            <4>1. p = [k \in 1 .. i + 1 |-> IF k <= Len(w) THEN w[k] ELSE IF k = i + 1 THEN v ELSE NULL]
                BY <3>2 DEF Lists!Placed
            <4>2. Len(p) = i + 1
                BY <4>1
            <4> QED BY <4>2
        <3> QED BY <3>1, <3>2
    <2> HIDE DEF p
    <2>3. i \in 0 .. Len(p) - 1
        BY <2>2
    <2> QED BY <2>1, <2>3 DEF p
<1> QED BY <1>3, <1>4 DEF Lists!Next, Lists!Put

LEMMA DelIsClear ==
    ASSUME elems \in Seq(Entry), NEW n \in Name, elems' = del(elems, n)
    PROVE  Lists!Next
<1> DEFINE L == [m \in Name |-> Values(elems, m)]
           K == [m \in Name |-> Values(elems', m)]
<1>1. \A m : Values(elems', m) = IF m = n THEN << >> ELSE Values(elems, m)
    BY ValuesDel
<1>2. K = [L EXCEPT ![n] = << >>]
    BY <1>1
<1> QED BY <1>2 DEF Lists!Next, Lists!Clear

LEMMA RemoveAtIsRemove ==
    ASSUME elems \in Seq(Entry), NEW n \in Name, NEW i \in Nat, elems' = removeAt(elems, n, i)
    PROVE  [Lists!Next]_Lists!vars
<1> DEFINE L == [m \in Name |-> Values(elems, m)]
           K == [m \in Name |-> Values(elems', m)]
           w == Values(elems, n)
<1>1. Len(w) \in Nat /\ count(elems, n) = Len(w)
    BY ValuesType DEF count
<1>2. \A m : Values(elems', m) = IF m = n /\ i < Len(w)
                                 THEN SubSeq(w, 1, i) \o SubSeq(w, i + 2, Len(w))
                                 ELSE Values(elems, m)
    BY <1>1, ValuesRemoveAt
<1>3. CASE i < Len(w)
    <2>1. L[n] = w
        OBVIOUS
    <2> DEFINE x == SubSeq(w, 1, i) \o SubSeq(w, i + 2, Len(w))
    <2>2. \A m \in Name : K[m] = IF m = n THEN x ELSE L[m]
        BY <1>2, <1>3
    <2>3. [L EXCEPT ![n] = x] = [m \in Name |-> IF m = n THEN x ELSE L[m]]
        <3> HIDE DEF x
        <3> QED OBVIOUS
    <2>4. K = [L EXCEPT ![n] = x]
        <3> HIDE DEF x
        <3> QED BY <2>2, <2>3
    <2>5. K = [L EXCEPT ![n] = SubSeq(@, 1, i) \o SubSeq(@, i + 2, Len(@))]
        BY <2>1, <2>4
    <2>6. i \in 0 .. Len(L[n]) - 1 /\ i < Len(L[n])
        BY <1>1, <1>3, <2>1
    <2> QED BY <2>5, <2>6 DEF Lists!Next, Lists!Remove
<1>4. CASE ~ (i < Len(w))
    <2>1. K = L
        BY <1>2, <1>4
    <2> QED BY <2>1 DEF Lists!vars
<1> QED BY <1>3, <1>4

LEMMA NextLists == IInv /\ [Next]_vars => [Lists!Next]_Lists!vars
<1> SUFFICES ASSUME IInv, [Next]_vars PROVE [Lists!Next]_Lists!vars
    OBVIOUS
<1>1. elems \in Seq(Entry) /\ TextName \in Name /\ MaxIndex \in Nat
    BY ContentsAssumption DEF IInv, TypeOK
<1>2. ASSUME elems' = elems PROVE [Lists!Next]_Lists!vars
    BY <1>2 DEF Lists!vars
<1>3. ASSUME NEW t \in Thread,
             storeElem(t) \/ countElems(t) \/ getElem(t)
      PROVE  [Lists!Next]_Lists!vars
    <2>1. CASE storeElem(t)
        <3> DEFINE n == op[t].name
                   i == op[t].index
                   v == Head(op[t].todo)
        <3>1. n \in Name /\ i \in Nat /\ v \in Object /\ elems' = set(elems, n, i, v)
            BY <2>1, Storing
        <3> HIDE DEF n, i, v
        <3> QED BY <1>1, <3>1, SetIsPut
    <2>2. CASE countElems(t) \/ getElem(t)
        BY <1>2, <2>2 DEF countElems, getElem
    <2> QED BY <1>3, <2>1, <2>2
<1>4. ASSUME NEW t \in Thread, NEW n \in ElemName
      PROVE  /\ \A v \in Object : appendElem(t, n, v) => [Lists!Next]_Lists!vars
             /\ \A v \in Object, i \in 0 .. MaxIndex :
                    setElem(t, n, v, i) \/ cgetElem(t, n, i, v) => [Lists!Next]_Lists!vars
             /\ removeElems(t, n) => [Lists!Next]_Lists!vars
             /\ \A i \in 0 .. MaxIndex : removeElemAt(t, n, i) => [Lists!Next]_Lists!vars
             /\ \A vs \in Arrays : setElemArray(t, n, vs) => [Lists!Next]_Lists!vars
    <2>1. n \in Name /\ \A i \in 0 .. MaxIndex : i \in Nat
        BY DEF ElemName
    <2>2. ASSUME NEW v \in Object, NEW i \in 0 .. MaxIndex, setElem(t, n, v, i)
          PROVE  Lists!Next
        <3>1. elems' = set(elems, n, i, v)
            BY <2>2 DEF setElem
        <3> QED BY <1>1, <2>1, <3>1, SetIsPut
    <2>3. ASSUME NEW v \in Object, NEW i \in 0 .. MaxIndex, appendElem(t, n, v) \/ cgetElem(t, n, i, v)
          PROVE  elems' = elems
        BY <2>3 DEF appendElem, cgetElem
    <2>4. ASSUME NEW v \in Object, appendElem(t, n, v) PROVE elems' = elems
        BY <2>4 DEF appendElem
    <2>5. ASSUME elems' = del(elems, n) PROVE Lists!Next
        BY <1>1, <2>1, <2>5, DelIsClear
    <2>6. removeElems(t, n) => elems' = del(elems, n)
        BY DEF removeElems
    <2>7. \A vs \in Arrays : setElemArray(t, n, vs) => elems' = del(elems, n)
        BY DEF setElemArray
    <2>8. ASSUME NEW i \in 0 .. MaxIndex, removeElemAt(t, n, i) PROVE [Lists!Next]_Lists!vars
        <3>1. elems' = removeAt(elems, n, i)
            BY <2>8 DEF removeElemAt
        <3> QED BY <1>1, <2>1, <3>1, RemoveAtIsRemove
    <2> QED BY <1>2, <2>2, <2>3, <2>4, <2>5, <2>6, <2>7, <2>8
<1>5. ASSUME NEW t \in Thread, NEW vs \in BoundedSeq(Object, 1), setSimpleContent(t, vs)
      PROVE  Lists!Next
    <2>1. elems' = del(elems, TextName)
        BY <1>5 DEF setSimpleContent
    <2> QED BY <1>1, <2>1, DelIsClear
<1>6. CASE UNCHANGED vars
    BY <1>2, <1>6 DEF vars
<1> QED BY <1>3, <1>4, <1>5, <1>6 DEF Next, Act

(* The dictionary of a Contents, whose entries of different names are mixed, *)
(* is name by name a list with holes: every step of every call changes one   *)
(* list as a whole call on a list does, or none.                             *)
THEOREM ListsImplemented == Spec => ImplementsLists
<1>1. Init => Lists!Init
    BY ValuesEmpty DEF Init, Lists!Init
<1>2. IInv /\ [Next]_vars => [Lists!Next]_Lists!vars
    BY NextLists
<1> QED BY <1>1, <1>2, Invariance, PTL DEF Spec, ImplementsLists, Lists!Spec

-----------------------------------------------------------------------------
(* The loops of Dict.cpp *)

LEMMA SearchDefined ==
    ASSUME NEW d, NEW u, NEW nr, Len(d) \in Nat
    PROVE  search(d, u, nr) =
               [k \in 0 .. Len(d) |->
                   IF k = 0 THEN [nr |-> nr, found |-> 0]
                   ELSE IF search(d, u, nr)[k - 1].found # 0 \/ d[k].name # u THEN search(d, u, nr)[k - 1]
                   ELSE [nr |-> search(d, u, nr)[k - 1].nr - 1,
                         found |-> IF search(d, u, nr)[k - 1].nr = 0 THEN k ELSE 0]]
<1> DEFINE Step(g, k) == IF k = 0 THEN [nr |-> nr, found |-> 0]
                         ELSE IF g[k - 1].found # 0 \/ d[k].name # u THEN g[k - 1]
                         ELSE [nr |-> g[k - 1].nr - 1, found |-> IF g[k - 1].nr = 0 THEN k ELSE 0]
           Defined == {n \in Nat : \E g : g = [k \in 0 .. n |-> Step(g, k)]}
<1>1. \A g, h, k : (k = 0 \/ g[k - 1] = h[k - 1]) => Step(g, k) = Step(h, k)
    OBVIOUS
<1>2. search(d, u, nr) = CHOOSE g : g = [k \in 0 .. Len(d) |-> Step(g, k)]
    BY DEF search
<1> HIDE DEF Step
<1>3. 0 \in Defined
    <2> DEFINE g == [k \in 0 .. 0 |-> Step(<< >>, 0)]
    <2>1. \A k \in 0 .. 0 : Step(g, k) = Step(<< >>, 0)
        BY <1>1
    <2>2. g = [k \in 0 .. 0 |-> Step(g, k)]
        BY <2>1
    <2> QED BY <2>2
<1>4. ASSUME NEW n \in Nat, n \in Defined
      PROVE  n + 1 \in Defined
    <2>1. PICK g : g = [k \in 0 .. n |-> Step(g, k)]
        BY <1>4
    <2> DEFINE h == [k \in 0 .. n + 1 |-> IF k <= n THEN g[k] ELSE Step(g, k)]
    <2>2. ASSUME NEW k \in 0 .. n + 1
          PROVE  h[k] = Step(h, k)
        <3>1. k = 0 \/ h[k - 1] = g[k - 1]
            OBVIOUS
        <3>2. Step(h, k) = Step(g, k)
            BY <1>1, <3>1
        <3>3. h[k] = Step(g, k)
            <4>1. \A j \in 0 .. n : g[j] = Step(g, j)
                BY <2>1
            <4> QED BY <4>1
        <3> QED BY <3>2, <3>3
    <2>3. h = [k \in 0 .. n + 1 |-> Step(h, k)]
        BY <2>2
    <2> HIDE DEF h
    <2> QED BY <2>3
<1>5. Len(d) \in Defined
    <2> HIDE DEF Defined
    <2> QED BY <1>3, <1>4, SetInduction
<1>6. search(d, u, nr) = [k \in 0 .. Len(d) |-> Step(search(d, u, nr), k)]
    BY <1>2, <1>5
<1> QED BY <1>6 DEF Step

(* The entries of a name among the first k. *)
LEMMA CountPrefix ==
    ASSUME NEW d \in Seq(Entry), NEW u
    PROVE  /\ count(SubSeq(d, 1, 0), u) = 0
           /\ \A k \in 1 .. Len(d) : count(SubSeq(d, 1, k), u) =
                  count(SubSeq(d, 1, k - 1), u) + IF d[k].name = u THEN 1 ELSE 0
           /\ \A k \in 0 .. Len(d) : count(SubSeq(d, 1, k), u) \in Nat
           /\ count(SubSeq(d, 1, Len(d)), u) = count(d, u)
<1>1. \A k \in 0 .. Len(d) : SubSeq(d, 1, k) \in Seq(Entry) /\ count(SubSeq(d, 1, k), u) \in Nat
    BY PrefixProperties, ValuesType
<1>2. count(SubSeq(d, 1, 0), u) = 0
    <2>1. 0 \in 0 .. Len(d)
        BY LenProperties
    <2>2. SubSeq(d, 1, 0) \in Seq(Entry) /\ Len(SubSeq(d, 1, 0)) = 0
        BY <2>1, PrefixProperties
    <2>3. SubSeq(d, 1, 0) = << >>
        BY <2>2, EmptySeq
    <2>4. Values(SubSeq(d, 1, 0), u) = << >>
        BY <2>3, ValuesEmpty
    <2> QED BY <2>4 DEF count
<1>3. ASSUME NEW k \in 1 .. Len(d)
      PROVE  count(SubSeq(d, 1, k), u) = count(SubSeq(d, 1, k - 1), u) + IF d[k].name = u THEN 1 ELSE 0
    <2> DEFINE p == SubSeq(d, 1, k - 1)
               q == SubSeq(d, 1, k)
    <2>1. k - 1 \in 0 .. Len(d) /\ k \in 0 .. Len(d) /\ d[k] \in Entry /\ d[k].value \in Value
        <3>1. Len(d) \in Nat /\ d[k] \in Entry
            BY LenProperties, ElementOfSeq
        <3> QED BY <3>1 DEF Entry, EntriesOf, Value
    <2>2. p \in Seq(Entry) /\ Len(p) = k - 1 /\ \A i \in 1 .. k - 1 : p[i] = d[i]
        BY <2>1, PrefixProperties
    <2>3. q \in Seq(Entry) /\ Len(q) = k /\ \A i \in 1 .. k : q[i] = d[i]
        BY <2>1, PrefixProperties
    <2> HIDE DEF p, q
    <2>4. q = Append(p, d[k])
        <3> DEFINE a == Append(p, d[k])
        <3>1. a \in Seq(Entry) /\ Len(a) = k /\ (\A i \in 1 .. k - 1 : a[i] = p[i]) /\ a[k] = d[k]
            <4> DEFINE e == d[k]
                       m == k - 1
            <4>1. e \in Entry /\ Len(p) = m /\ m \in Nat /\ m + 1 = k
                BY <2>1, <2>2
            <4> HIDE DEF e, m
            <4>2. /\ Append(p, e) \in Seq(Entry) /\ Len(Append(p, e)) = m + 1
                  /\ \A i \in 1 .. m : Append(p, e)[i] = p[i]
                  /\ Append(p, e)[m + 1] = e
                BY <2>2, <4>1, AppendProperties
            <4> QED BY <4>1, <4>2 DEF e, m
        <3> HIDE DEF a
        <3>2. \A i \in 1 .. Len(q) : q[i] = a[i]
            BY <2>2, <2>3, <3>1
        <3>3. q = a
            BY <2>3, <3>1, <3>2, SeqEqual
        <3> QED BY <3>3 DEF a
    <2>5. Values(q, u) = IF d[k].name = u THEN Append(Values(p, u), d[k].value) ELSE Values(p, u)
        BY <2>1, <2>2, <2>4, ValuesAppend
    <2>6. Values(p, u) \in Seq(Value) /\ Len(Values(p, u)) \in Nat
        BY <2>2, ValuesType DEF count
    <2>7. Len(Append(Values(p, u), d[k].value)) = Len(Values(p, u)) + 1
        BY <2>1, <2>6, AppendProperties
    <2>8. count(q, u) = count(p, u) + IF d[k].name = u THEN 1 ELSE 0
        BY <2>5, <2>6, <2>7 DEF count
    <2> QED BY <2>8 DEF p, q
<1>4. SubSeq(d, 1, Len(d)) = d
    BY SubSeqFull
<1> QED BY <1>1, <1>2, <1>3, <1>4

LEMMA CountGrows ==
    ASSUME NEW d \in Seq(Entry), NEW u, NEW i \in 0 .. Len(d), NEW j \in i .. Len(d)
    PROVE  count(SubSeq(d, 1, i), u) <= count(SubSeq(d, 1, j), u)
<1> DEFINE C(k) == count(SubSeq(d, 1, k), u)
           Grown == {n \in Nat : i + n <= Len(d) => C(i) <= C(i + n)}
<1>1. /\ Len(d) \in Nat
      /\ \A k \in 0 .. Len(d) : C(k) \in Nat
      /\ \A k \in 1 .. Len(d) : C(k) = C(k - 1) + IF d[k].name = u THEN 1 ELSE 0
    BY CountPrefix, LenProperties
<1> HIDE DEF C
<1>2. 0 \in Grown
    <2>1. i + 0 = i /\ C(i) \in Nat
        BY <1>1
    <2> QED BY <2>1
<1>3. ASSUME NEW n \in Nat, n \in Grown
      PROVE  n + 1 \in Grown
    <2> SUFFICES ASSUME i + (n + 1) <= Len(d) PROVE C(i) <= C(i + (n + 1))
        OBVIOUS
    <2> DEFINE k == i + (n + 1)
    <2>1. k \in 1 .. Len(d) /\ k - 1 = i + n /\ i + n \in 0 .. Len(d) /\ i + n <= Len(d)
        BY <1>1
    <2> HIDE DEF k
    <2>2. C(i) <= C(k - 1)
        BY <1>3, <2>1
    <2>3. C(k) = C(k - 1) + IF d[k].name = u THEN 1 ELSE 0
        BY <1>1, <2>1
    <2>4. C(i) \in Nat /\ C(k - 1) \in Nat
        BY <1>1, <2>1
    <2>5. C(i) <= C(k)
        BY <2>2, <2>3, <2>4
    <2> QED BY <2>5 DEF k
<1>4. j - i \in Nat /\ i + (j - i) = j /\ j <= Len(d)
    BY <1>1
<1>5. Nat \subseteq Grown
    <2> HIDE DEF Grown
    <2> QED BY <1>2, <1>3, SetInduction
<1>6. C(i) <= C(j)
    <2>1. j - i \in Grown
        BY <1>4, <1>5
    <2> QED BY <1>4, <2>1
<1> QED BY <1>6 DEF C

(* The place of an entry is the only one with that many entries before it. *)
LEMMA PlaceIsUnique ==
    ASSUME NEW d \in Seq(Entry), NEW u, NEW i \in 1 .. Len(d), d[i].name = u
    PROVE  /\ Has(d, u, count(SubSeq(d, 1, i - 1), u))
           /\ Place(d, u, count(SubSeq(d, 1, i - 1), u)) = i
<1> DEFINE C(k) == count(SubSeq(d, 1, k), u)
           nr == C(i - 1)
<1>1. /\ Len(d) \in Nat
      /\ \A k \in 0 .. Len(d) : C(k) \in Nat
      /\ \A k \in 1 .. Len(d) : C(k) = C(k - 1) + IF d[k].name = u THEN 1 ELSE 0
      /\ C(Len(d)) = count(d, u)
      /\ \A a \in 0 .. Len(d) : \A b \in a .. Len(d) : C(a) <= C(b)
    BY CountPrefix, CountGrows, LenProperties
<1>2. Has(d, u, nr) <=> nr \in 0 .. count(d, u) - 1
    BY DEF Has
<1>3. ASSUME Has(d, u, nr)
      PROVE  /\ Place(d, u, nr) \in 1 .. Len(d)
             /\ d[Place(d, u, nr)].name = u
             /\ C(Place(d, u, nr) - 1) = nr
    <2> HIDE DEF nr
    <2> QED BY <1>3, PlaceDefined
<1> HIDE DEF C
<1>4. C(i) = nr + 1 /\ nr \in Nat
    <2>1. i - 1 \in 0 .. Len(d)
        BY <1>1
    <2> QED BY <1>1, <2>1
<1>5. Has(d, u, nr)
    <2>1. i \in 0 .. Len(d) /\ Len(d) \in i .. Len(d)
        BY <1>1
    <2>2. C(i) <= C(Len(d))
        BY <1>1, <2>1
    <2>3. count(d, u) \in Nat
        BY ValuesType
    <2> HIDE DEF nr
    <2> QED BY <1>1, <1>2, <1>4, <2>2, <2>3
<1>6. ASSUME NEW a \in 1 .. Len(d), NEW b \in 1 .. Len(d), a < b, d[a].name = u
      PROVE  C(a - 1) < C(b - 1)
    <2>1. a \in 0 .. Len(d) /\ b - 1 \in a .. Len(d) /\ a - 1 \in 0 .. Len(d) /\ b - 1 \in 0 .. Len(d)
        BY <1>1, <1>6
    <2>2. C(a) <= C(b - 1) /\ C(a - 1) \in Nat /\ C(b - 1) \in Nat
        BY <1>1, <2>1
    <2>3. C(a) = C(a - 1) + 1
        BY <1>1, <1>6
    <2> QED BY <2>2, <2>3
<1>7. Place(d, u, nr) = i
    <2> DEFINE j == Place(d, u, nr)
    <2>1. j \in 1 .. Len(d) /\ d[j].name = u /\ C(j - 1) = C(i - 1)
        BY <1>3, <1>5
    <2> HIDE DEF j
    <2>2. ~ (C(i - 1) < C(j - 1)) /\ ~ (C(j - 1) < C(i - 1))
        BY <1>4, <2>1
    <2>3. ~ (i < j) /\ ~ (j < i)
        BY <1>6, <2>1, <2>2
    <2>4. j = i
        BY <2>1, <2>3
    <2> QED BY <2>4 DEF j
<1> QED BY <1>5, <1>7 DEF C

(* The search stops at the entry, or counts nr down by those there are. *)
LEMMA SearchFinds ==
    ASSUME NEW d \in Seq(Entry), NEW u, NEW nr \in Int
    PROVE  /\ Has(d, u, nr) => searched(d, u, nr).found = Place(d, u, nr) /\ Place(d, u, nr) \in 1 .. Len(d)
           /\ ~ Has(d, u, nr) =>
                  searched(d, u, nr).found = 0 /\ searched(d, u, nr).nr = nr - count(d, u)
<1> DEFINE C(k) == count(SubSeq(d, 1, k), u)
           s == search(d, u, nr)
           Step(k) == IF k = 0 THEN [nr |-> nr, found |-> 0]
                      ELSE IF s[k - 1].found # 0 \/ d[k].name # u THEN s[k - 1]
                      ELSE [nr |-> s[k - 1].nr - 1, found |-> IF s[k - 1].nr = 0 THEN k ELSE 0]
           Passed(k) == nr \notin 0 .. C(k) - 1 /\ s[k].found = 0 /\ s[k].nr = nr - C(k)
           Found(k) == /\ nr \in 0 .. C(k) - 1
                       /\ s[k].found \in 1 .. k
                       /\ d[s[k].found].name = u
                       /\ C(s[k].found - 1) = nr
           Good == {k \in Nat : k <= Len(d) => Passed(k) \/ Found(k)}
<1>1. /\ Len(d) \in Nat
      /\ C(0) = 0
      /\ \A k \in 0 .. Len(d) : C(k) \in Nat
      /\ \A k \in 1 .. Len(d) : C(k) = C(k - 1) + IF d[k].name = u THEN 1 ELSE 0
      /\ C(Len(d)) = count(d, u)
    BY CountPrefix, LenProperties
<1>2. s = [k \in 0 .. Len(d) |-> Step(k)]
    BY <1>1, SearchDefined
<1>3. \A k \in 0 .. Len(d) : s[k] = Step(k)
    <2> HIDE DEF Step, s
    <2> QED BY <1>2
<1>4. /\ s[0] = [nr |-> nr, found |-> 0]
      /\ \A k \in 1 .. Len(d) :
             s[k] = IF s[k - 1].found # 0 \/ d[k].name # u THEN s[k - 1]
                    ELSE [nr |-> s[k - 1].nr - 1, found |-> IF s[k - 1].nr = 0 THEN k ELSE 0]
    <2>1. Len(d) \in Nat
        BY <1>1
    <2> HIDE DEF s, C, Step
    <2>2. s[0] = Step(0)
        BY <1>3, <2>1
    <2>3. ASSUME NEW k \in 1 .. Len(d) PROVE s[k] = Step(k) /\ k # 0
        BY <1>3, <2>1
    <2> QED BY <2>2, <2>3 DEF Step
<1>5. ASSUME NEW i \in 1 .. Len(d), d[i].name = u, C(i - 1) = nr
      PROVE  Has(d, u, nr) /\ Place(d, u, nr) = i
    BY <1>5, PlaceIsUnique
<1>6. searched(d, u, nr) = s[Len(d)]
    BY DEF searched
<1>7. Has(d, u, nr) <=> nr \in 0 .. count(d, u) - 1
    BY DEF Has
<1> HIDE DEF C, s
<1>8. 0 \in Good
    BY <1>1, <1>4
<1>9. ASSUME NEW n \in Nat, n \in Good
      PROVE  n + 1 \in Good
    <2> SUFFICES ASSUME n + 1 <= Len(d) PROVE Passed(n + 1) \/ Found(n + 1)
        OBVIOUS
    <2> DEFINE k == n + 1
    <2>1. k \in 1 .. Len(d) /\ k - 1 = n /\ n \in 0 .. Len(d) /\ k \in 0 .. Len(d) /\ n <= Len(d)
        BY <1>1
    <2>2. /\ C(k) = C(n) + IF d[k].name = u THEN 1 ELSE 0
          /\ s[k] = IF s[n].found # 0 \/ d[k].name # u THEN s[n]
                    ELSE [nr |-> s[n].nr - 1, found |-> IF s[n].nr = 0 THEN k ELSE 0]
          /\ C(n) \in Nat /\ C(k) \in Nat
        <3> HIDE DEF k
        <3> QED BY <1>1, <1>4, <2>1
    <2>3. Passed(n) \/ Found(n)
        BY <1>9, <2>1
    <2>4. n = k - 1
        BY <2>1
    <2> HIDE DEF k
    <2>5. CASE Found(n)
        <3>1. s[k] = s[n]
            BY <2>2, <2>5
        <3>2. s[n].found \in 1 .. k /\ nr \in 0 .. C(k) - 1
            BY <2>1, <2>2, <2>5
        <3>3. Found(k)
            BY <2>5, <3>1, <3>2
        <3> QED BY <3>3 DEF k
    <2>6. CASE Passed(n) /\ d[k].name # u
        <3>1. s[k] = s[n] /\ C(k) = C(n)
            BY <2>2, <2>6
        <3>2. Passed(k)
            BY <2>6, <3>1
        <3> QED BY <3>2 DEF k
    <2>7. CASE Passed(n) /\ d[k].name = u
        <3>1. /\ s[k] = [nr |-> nr - C(n) - 1, found |-> IF nr - C(n) = 0 THEN k ELSE 0]
              /\ C(k) = C(n) + 1
            BY <2>2, <2>7
        <3>2. CASE nr = C(n)
            <4>1. nr - C(n) = 0
                BY <2>2, <3>2
            <4>2. s[k].found = k
                BY <3>1, <4>1
            <4>3. nr \in 0 .. C(k) - 1 /\ k \in 1 .. k
                BY <2>1, <2>2, <3>1, <3>2
            <4>4. C(k - 1) = nr
                BY <2>4, <3>2
            <4>5. Found(k)
                BY <2>7, <4>2, <4>3, <4>4
            <4> QED BY <4>5 DEF k
        <3>3. CASE nr # C(n)
            <4>1. nr - C(n) # 0 /\ nr - C(n) - 1 = nr - C(k) /\ nr \notin 0 .. C(k) - 1
                BY <2>2, <2>7, <3>1, <3>3
            <4>2. s[k].found = 0 /\ s[k].nr = nr - C(k)
                BY <3>1, <4>1
            <4>3. Passed(k)
                BY <4>1, <4>2
            <4> QED BY <4>3 DEF k
        <3> QED BY <3>2, <3>3
    <2> QED BY <2>3, <2>5, <2>6, <2>7
<1>10. Nat \subseteq Good
    <2> HIDE DEF Good
    <2> QED BY <1>8, <1>9, SetInduction
<1>11. Passed(Len(d)) \/ Found(Len(d))
    BY <1>1, <1>10
<1>12. CASE Passed(Len(d))
    <2>1. ~ Has(d, u, nr)
        BY <1>1, <1>7, <1>12
    <2> QED BY <1>1, <1>6, <1>12, <2>1
<1>13. CASE Found(Len(d))
    <2> DEFINE i == s[Len(d)].found
    <2>1. i \in 1 .. Len(d) /\ d[i].name = u /\ C(i - 1) = nr
        BY <1>13
    <2> HIDE DEF i
    <2>2. Has(d, u, nr) /\ Place(d, u, nr) = i
        BY <1>5, <2>1
    <2> QED BY <1>6, <2>1, <2>2 DEF i
<1> QED BY <1>11, <1>12, <1>13

LEMMA SearchLoops ==
    ASSUME NEW d \in Seq(Entry), NEW u, NEW nr \in Int
    PROVE  /\ find(d, u, nr) = findLoop(d, u, nr)
           /\ removeAt(d, u, nr) = removeAtLoop(d, u, nr)
           /\ \A v : set(d, u, nr, v) = setLoop(d, u, nr, v)
<1>1. CASE Has(d, u, nr)
    <2>1. searched(d, u, nr).found = Place(d, u, nr) /\ Place(d, u, nr) # 0
        BY <1>1, SearchFinds
    <2> QED BY <1>1, <2>1 DEF find, findLoop, removeAt, removeAtLoop, set, setLoop
<1>2. CASE ~ Has(d, u, nr)
    <2>1. searched(d, u, nr).found = 0 /\ searched(d, u, nr).nr = nr - count(d, u)
        BY <1>2, SearchFinds
    <2> QED BY <1>2, <2>1 DEF find, findLoop, removeAt, removeAtLoop, set, setLoop
<1> QED BY <1>1, <1>2

LEMMA DeletingDefined ==
    ASSUME NEW d, NEW u, Len(d) \in Nat
    PROVE  deleting(d, u) =
               [p \in 0 .. Len(d) |->
                   IF p = 0 THEN [contents |-> d, p2 |-> 0, ile |-> 0]
                   ELSE delStep(deleting(d, u)[p - 1], u, p)]
<1> DEFINE Step(g, p) == IF p = 0 THEN [contents |-> d, p2 |-> 0, ile |-> 0] ELSE delStep(g[p - 1], u, p)
           Defined == {n \in Nat : \E g : g = [p \in 0 .. n |-> Step(g, p)]}
<1>1. \A g, h, p : (p = 0 \/ g[p - 1] = h[p - 1]) => Step(g, p) = Step(h, p)
    OBVIOUS
<1>2. deleting(d, u) = CHOOSE g : g = [p \in 0 .. Len(d) |-> Step(g, p)]
    BY DEF deleting
<1> HIDE DEF Step
<1>3. 0 \in Defined
    <2> DEFINE g == [p \in 0 .. 0 |-> Step(<< >>, 0)]
    <2>1. \A p \in 0 .. 0 : Step(g, p) = Step(<< >>, 0)
        BY <1>1
    <2>2. g = [p \in 0 .. 0 |-> Step(g, p)]
        BY <2>1
    <2> QED BY <2>2
<1>4. ASSUME NEW n \in Nat, n \in Defined
      PROVE  n + 1 \in Defined
    <2>1. PICK g : g = [p \in 0 .. n |-> Step(g, p)]
        BY <1>4
    <2> DEFINE h == [p \in 0 .. n + 1 |-> IF p <= n THEN g[p] ELSE Step(g, p)]
    <2>2. ASSUME NEW p \in 0 .. n + 1
          PROVE  h[p] = Step(h, p)
        <3>1. p = 0 \/ h[p - 1] = g[p - 1]
            OBVIOUS
        <3>2. Step(h, p) = Step(g, p)
            BY <1>1, <3>1
        <3>3. h[p] = Step(g, p)
            <4>1. \A j \in 0 .. n : g[j] = Step(g, j)
                BY <2>1
            <4> QED BY <4>1
        <3> QED BY <3>2, <3>3
    <2>3. h = [p \in 0 .. n + 1 |-> Step(h, p)]
        BY <2>2
    <2> HIDE DEF h
    <2> QED BY <2>3
<1>5. Len(d) \in Defined
    <2> HIDE DEF Defined
    <2> QED BY <1>3, <1>4, SetInduction
<1>6. deleting(d, u) = [p \in 0 .. Len(d) |-> Step(deleting(d, u), p)]
    BY <1>2, <1>5
<1> QED BY <1>6 DEF Step

(* After p entries, del has what it keeps of them in front, and the rest of *)
(* the vector is as it was.                                                 *)
Halfway(d, kept, s, p) ==
    /\ s.contents \in Seq(Entry \cup {blank})
    /\ Len(s.contents) = Len(d)
    /\ s.p2 = Len(kept)
    /\ s.ile = p - s.p2
    /\ s.p2 <= p
    /\ \A j \in 1 .. s.p2 : s.contents[j] = kept[j]
    /\ \A j \in p + 1 .. Len(d) : s.contents[j] = d[j]

LEMMA DelStepKeeps ==
    ASSUME NEW d \in Seq(Entry), NEW u \in Name, NEW p \in 1 .. Len(d),
           NEW kept \in Seq(Entry), NEW s, Halfway(d, kept, s, p - 1)
    PROVE  Halfway(d, IF d[p].name # u THEN Append(kept, d[p]) ELSE kept, delStep(s, u, p), p)
<1> DEFINE T == Entry \cup {blank}
           c == s.contents
           m == s.p2 + 1
           e == d[p]
           moved == IF p # m THEN [c EXCEPT ![m] = c[p]] ELSE c
<1>1. /\ c \in Seq(T) /\ Len(c) = Len(d)
      /\ s.p2 = Len(kept) /\ s.ile = p - 1 - s.p2 /\ s.p2 <= p - 1
      /\ \A j \in 1 .. s.p2 : c[j] = kept[j]
      /\ \A j \in p .. Len(d) : c[j] = d[j]
    <2>1. p - 1 + 1 = p
        OBVIOUS
    <2> QED BY <2>1 DEF Halfway
<1>2. /\ Len(d) \in Nat /\ Len(kept) \in Nat /\ s.p2 \in Nat
      /\ m \in 1 .. Len(d) /\ m <= p /\ p \in 1 .. Len(d)
      /\ e \in Entry /\ e \in T /\ c[p] = e /\ blank \in T
    BY <1>1, LenProperties, ElementOfSeq
<1>3. /\ moved \in Seq(T) /\ Len(moved) = Len(d)
      /\ moved[m] = e /\ moved[p] = e
      /\ \A j \in 1 .. Len(d) : j # m => moved[j] = c[j]
    <2> HIDE DEF m, c, e, T
    <2>1. CASE p = m
        BY <1>1, <1>2, <2>1
    <2>2. CASE p # m
        <3>1. /\ [c EXCEPT ![m] = e] \in Seq(T) /\ Len([c EXCEPT ![m] = e]) = Len(c)
              /\ \A j \in 1 .. Len(c) : [c EXCEPT ![m] = e][j] = IF j = m THEN e ELSE c[j]
            BY <1>1, <1>2, ExceptSeq
        <3> QED BY <1>1, <1>2, <2>2, <3>1
    <2> QED BY <2>1, <2>2
<1>4. delStep(s, u, p) = IF moved[p].name = u
                         THEN [contents |-> [moved EXCEPT ![p] = blank], p2 |-> s.p2, ile |-> s.ile + 1]
                         ELSE [contents |-> moved, p2 |-> s.p2 + 1, ile |-> s.ile]
    BY DEF delStep
<1>5. m = s.p2 + 1
    OBVIOUS
<1> HIDE DEF moved, m, e, c, T
<1>6. CASE e.name # u
    <2> DEFINE k == Append(kept, e)
               r == delStep(s, u, p)
    <2>1. r = [contents |-> moved, p2 |-> s.p2 + 1, ile |-> s.ile]
        BY <1>3, <1>4, <1>6
    <2>2. Len(k) = Len(kept) + 1 /\ (\A j \in 1 .. Len(kept) : k[j] = kept[j]) /\ k[Len(kept) + 1] = e
        BY <1>2, AppendProperties
    <2> HIDE DEF k, r
    <2>3. r.contents = moved /\ r.p2 = m /\ r.p2 = Len(k) /\ r.ile = p - r.p2 /\ r.p2 <= p
        BY <1>1, <1>2, <1>5, <2>1, <2>2
    <2>4. ASSUME NEW j \in 1 .. m PROVE moved[j] = k[j]
        <3>1. CASE j = m
            BY <1>1, <1>3, <1>5, <2>2, <3>1
        <3>2. CASE j # m
            <4>1. j \in 1 .. s.p2 /\ j \in 1 .. Len(d)
                BY <1>2, <1>5, <3>2
            <4> QED BY <1>1, <1>3, <2>2, <3>2, <4>1
        <3> QED BY <3>1, <3>2
    <2>5. ASSUME NEW j \in p + 1 .. Len(d) PROVE moved[j] = d[j]
        <3>1. j # m /\ j \in 1 .. Len(d) /\ j \in p .. Len(d)
            BY <1>2
        <3> QED BY <1>1, <1>3, <3>1
    <2>6. Halfway(d, k, r, p)
        BY <1>3, <2>3, <2>4, <2>5 DEF Halfway, T
    <2> QED BY <1>6, <2>6 DEF k, r, e
<1>7. CASE e.name = u
    <2> DEFINE b == [moved EXCEPT ![p] = blank]
               r == delStep(s, u, p)
    <2>1. r = [contents |-> b, p2 |-> s.p2, ile |-> s.ile + 1]
        BY <1>3, <1>4, <1>7
    <2>2. /\ b \in Seq(T) /\ Len(b) = Len(d)
          /\ \A j \in 1 .. Len(d) : b[j] = IF j = p THEN blank ELSE moved[j]
        <3>1. /\ b \in Seq(T) /\ Len(b) = Len(moved)
              /\ \A j \in 1 .. Len(moved) : b[j] = IF j = p THEN blank ELSE moved[j]
            BY <1>2, <1>3, ExceptSeq
        <3> QED BY <1>3, <3>1
    <2> HIDE DEF b, r
    <2>3. r.contents = b /\ r.p2 = s.p2 /\ r.p2 = Len(kept) /\ r.ile = p - r.p2 /\ r.p2 <= p
        BY <1>1, <1>2, <2>1
    <2>4. ASSUME NEW j \in 1 .. s.p2 PROVE b[j] = kept[j]
        <3>1. j # m /\ j # p /\ j \in 1 .. Len(d)
            BY <1>1, <1>2, <1>5
        <3> QED BY <1>1, <1>3, <2>2, <3>1
    <2>5. ASSUME NEW j \in p + 1 .. Len(d) PROVE b[j] = d[j]
        <3>1. j # m /\ j # p /\ j \in 1 .. Len(d) /\ j \in p .. Len(d)
            BY <1>2
        <3> QED BY <1>1, <1>3, <2>2, <3>1
    <2>6. Halfway(d, kept, r, p)
        BY <2>2, <2>3, <2>4, <2>5 DEF Halfway, T
    <2> QED BY <1>7, <2>6 DEF r, e
<1> QED BY <1>6, <1>7

LEMMA DeletingLoops ==
    ASSUME NEW d \in Seq(Entry), NEW u \in Name
    PROVE  del(d, u) = delLoop(d, u)
<1> DEFINE E == EntriesOf(Name \ {u})
           K == KeptUpTo(d, E)
           s == deleting(d, u)
           n == Len(d)
           Step(p) == IF p = 0 THEN [contents |-> d, p2 |-> 0, ile |-> 0] ELSE delStep(s[p - 1], u, p)
           Good == {p \in Nat : p <= n => K[p] \in Seq(Entry) /\ Halfway(d, K[p], s[p], p)}
<1>1. n \in Nat /\ \A p \in 1 .. n : d[p] \in Entry
    BY LenProperties, ElementOfSeq
<1>2. K[0] = << >> /\ \A p \in 1 .. n : K[p] = IF d[p] \in E THEN Append(K[p - 1], d[p]) ELSE K[p - 1]
    BY <1>1, KeptUpToSteps
<1>3. \A p \in 1 .. n : d[p] \in E <=> d[p].name # u
    BY <1>1 DEF Entry, EntriesOf
<1>4. s = [p \in 0 .. n |-> Step(p)]
    BY <1>1, DeletingDefined
<1>5. \A p \in 0 .. n : s[p] = Step(p)
    <2> HIDE DEF Step, s, n
    <2> QED BY <1>4
<1>6. del(d, u) = K[n]
    BY DEF del, Kept
<1>7. delLoop(d, u) = SubSeq(s[n].contents, 1, n - s[n].ile)
    BY DEF delLoop
<1>8. n = Len(d)
    OBVIOUS
<1> HIDE DEF E, K, s, n, Step
<1>9. 0 \in Good
    <2>1. s[0] = [contents |-> d, p2 |-> 0, ile |-> 0]
        BY <1>1, <1>5 DEF Step
    <2>2. d \in Seq(Entry \cup {blank})
        BY SeqMonotonic
    <2>3. K[0] \in Seq(Entry) /\ Len(K[0]) = 0
        BY <1>2, EmptySeq
    <2>4. Halfway(d, K[0], s[0], 0)
        BY <2>1, <2>2, <2>3 DEF Halfway
    <2> QED BY <2>3, <2>4
<1>10. ASSUME NEW q \in Nat, q \in Good
       PROVE  q + 1 \in Good
    <2> SUFFICES ASSUME q + 1 <= n
                 PROVE  K[q + 1] \in Seq(Entry) /\ Halfway(d, K[q + 1], s[q + 1], q + 1)
        OBVIOUS
    <2> DEFINE p == q + 1
    <2>1. p \in 1 .. n /\ p - 1 = q /\ p \in 1 .. Len(d) /\ p \in 0 .. n /\ p # 0 /\ q <= n
        BY <1>1, <1>8
    <2> HIDE DEF p
    <2>2. K[q] \in Seq(Entry) /\ Halfway(d, K[q], s[q], p - 1)
        BY <1>10, <2>1
    <2>3. K[p] = IF d[p].name # u THEN Append(K[q], d[p]) ELSE K[q]
        BY <1>2, <1>3, <2>1
    <2>4. K[p] \in Seq(Entry)
        BY <1>1, <2>1, <2>2, <2>3, AppendProperties
    <2>5. s[p] = delStep(s[q], u, p)
        BY <1>5, <2>1 DEF Step
    <2>6. Halfway(d, IF d[p].name # u THEN Append(K[q], d[p]) ELSE K[q], delStep(s[q], u, p), p)
        BY <2>1, <2>2, DelStepKeeps
    <2>7. Halfway(d, K[p], s[p], p)
        BY <2>3, <2>5, <2>6
    <2> QED BY <2>4, <2>7 DEF p
<1>11. K[n] \in Seq(Entry) /\ Halfway(d, K[n], s[n], n)
    <2>1. Nat \subseteq Good
        <3> HIDE DEF Good
        <3> QED BY <1>9, <1>10, SetInduction
    <2> QED BY <1>1, <2>1
<1> DEFINE c == s[n].contents
           k == Len(K[n])
<1>12. /\ c \in Seq(Entry \cup {blank}) /\ k \in 0 .. Len(c) /\ n - s[n].ile = k
       /\ \A j \in 1 .. k : c[j] = K[n][j]
    <2>1. Len(K[n]) \in Nat
        BY <1>11, LenProperties
    <2> QED BY <1>1, <1>8, <1>11, <2>1 DEF Halfway
<1>13. k = Len(K[n])
    OBVIOUS
<1> HIDE DEF c, k
<1>14. /\ SubSeq(c, 1, k) \in Seq(Entry \cup {blank}) /\ Len(SubSeq(c, 1, k)) = k
       /\ \A j \in 1 .. k : SubSeq(c, 1, k)[j] = c[j]
    BY <1>12, PrefixProperties
<1>15. SubSeq(c, 1, k) = K[n]
    <2> DEFINE x == SubSeq(c, 1, k)
               y == K[n]
    <2>1. x \in Seq(Entry \cup {blank}) /\ y \in Seq(Entry \cup {blank}) /\ Len(x) = Len(y)
        BY <1>11, <1>13, <1>14, SeqMonotonic
    <2>2. \A j \in 1 .. Len(x) : x[j] = y[j]
        BY <1>12, <1>14
    <2> HIDE DEF x, y
    <2>3. x = y
        BY <2>1, <2>2, SeqEqual
    <2> QED BY <2>3 DEF x, y
<1> QED BY <1>6, <1>7, <1>12, <1>15 DEF c

(* Of every dictionary, ElemDict's operators compute what the loops of      *)
(* Dict.cpp compute: one search from the front finds the entry that the     *)
(* name and number address, whatever the number, and one pass that moves    *)
(* entries forward leaves those of the other names, in their order.         *)
THEOREM LoopsAreOperators ==
    ASSUME NEW d \in Seq(Entry), NEW u \in Name
    PROVE  /\ del(d, u) = delLoop(d, u)
           /\ \A i \in Int :
                  /\ find(d, u, i) = findLoop(d, u, i)
                  /\ removeAt(d, u, i) = removeAtLoop(d, u, i)
                  /\ \A v : set(d, u, i, v) = setLoop(d, u, i, v)
<1>1. del(d, u) = delLoop(d, u)
    BY DeletingLoops
<1>2. ASSUME NEW i \in Int
      PROVE  /\ find(d, u, i) = findLoop(d, u, i)
             /\ removeAt(d, u, i) = removeAtLoop(d, u, i)
             /\ \A v : set(d, u, i, v) = setLoop(d, u, i, v)
    BY SearchLoops
<1> QED BY <1>1, <1>2

(* On the dictionaries that the threads make, for every index, negative     *)
(* ones included.                                                           *)
THEOREM OperatorsAlwaysAreTheLoops == Spec => []OperatorsAreTheLoops
<1>1. IInv => OperatorsAreTheLoops
    <2> SUFFICES ASSUME IInv, NEW u \in Name
                 PROVE  /\ del(elems, u) = delLoop(elems, u)
                        /\ \A i \in -1 .. MaxIndex + 1 :
                            /\ find(elems, u, i) = findLoop(elems, u, i)
                            /\ removeAt(elems, u, i) = removeAtLoop(elems, u, i)
                            /\ \A v \in Object : set(elems, u, i, v) = setLoop(elems, u, i, v)
        BY DEF OperatorsAreTheLoops
    <2>1. elems \in Seq(Entry) /\ \A i \in -1 .. MaxIndex + 1 : i \in Int
        BY DEF IInv, TypeOK
    <2> QED BY <2>1, LoopsAreOperators
<1> QED BY <1>1, Invariance, PTL
=============================================================================
