---------------------------- MODULE SharedLemmas ----------------------------
(***************************************************************************)
(* Facts that the proofs of several components cite: induction over        *)
(* numbers and sequences, insertion and removal, bounded sequences, the    *)
(* operators of Sublists, and what the calls of XmlContext do to its log,  *)
(* its type and the scopes that are open.                                  *)
(***************************************************************************)
EXTENDS XmlContextCalls, Sublists, SequencesExt, FiniteSetsExt, TLAPS,
        WellFoundedInduction, SequenceTheorems

-----------------------------------------------------------------------------
(* Numbers *)

(* A set of numbers that has 0, and with each number the next, has them all. *)
LEMMA SetInduction ==
    ASSUME NEW S, 0 \in S, \A n \in Nat : n \in S => n + 1 \in S
    PROVE  Nat \subseteq S
<1> DEFINE R == {ss \in Nat \X Nat : ss[1] < ss[2]}
<1> DEFINE Left == Nat \ S
<1>1. SUFFICES ASSUME Left # {} PROVE FALSE
    OBVIOUS
<1>2. IsWellFoundedOn(R, Nat)
    BY NatLessThanWellFounded DEF OpToRel
<1>3. PICK i \in Left : \A j \in Left : <<j, i>> \notin R
    <2> HIDE DEF R, Left
    <2>1. Left \subseteq Nat
        BY DEF Left
    <2> QED BY <1>1, <1>2, <2>1, WFMin
<1>4. i \in Nat /\ i # 0
    OBVIOUS
<1>5. i - 1 \in Nat /\ i - 1 < i
    BY <1>4
<1>6. i - 1 \notin Left
    <2>1. <<i - 1, i>> \in R
        BY <1>4, <1>5
    <2> QED BY <1>3, <2>1
<1> QED BY <1>4, <1>5, <1>6

LEMMA MinOfTwo ==
    ASSUME NEW a \in Int, NEW b \in Int
    PROVE  Min({a, b}) = IF a <= b THEN a ELSE b
BY DEF Min

LEMMA MaxOfTwo ==
    ASSUME NEW a \in Int, NEW b \in Int
    PROVE  Max({a, b}) = IF a >= b THEN a ELSE b
BY DEF Max

-----------------------------------------------------------------------------
(* Sequences *)

LEMMA BoundedSeqIsSeq ==
    ASSUME NEW S, NEW n \in Nat, NEW s
    PROVE  s \in BoundedSeq(S, n) <=> s \in Seq(S) /\ Len(s) <= n
<1>1. ASSUME s \in BoundedSeq(S, n)
      PROVE  s \in Seq(S) /\ Len(s) <= n
    <2>1. PICK m \in 0 .. n : s \in [1 .. m -> S]
        BY <1>1 DEF BoundedSeq, SeqOf
    <2>2. s \in Seq(S)
        BY <2>1, SeqDef
    <2> QED BY <2>1, <2>2, LenProperties
<1>2. ASSUME s \in Seq(S), Len(s) <= n
      PROVE  s \in BoundedSeq(S, n)
    <2>1. s \in [1 .. Len(s) -> S] /\ Len(s) \in 0 .. n
        BY <1>2, LenProperties
    <2> QED BY <2>1 DEF BoundedSeq, SeqOf
<1> QED BY <1>1, <1>2

(* A set of sequences that has the empty one, and with each sequence those   *)
(* with one entry more, has them all.                                       *)
LEMMA SeqInduction ==
    ASSUME NEW T, NEW X, << >> \in X, \A s \in Seq(T), e \in T : s \in X => Append(s, e) \in X
    PROVE  Seq(T) \subseteq X
<1> DEFINE Reached == {n \in Nat : \A s \in Seq(T) : Len(s) = n => s \in X}
<1>1. 0 \in Reached
    <2>1. \A s \in Seq(T) : Len(s) = 0 => s = << >>
        BY EmptySeq
    <2> QED BY <2>1
<1>2. ASSUME NEW n \in Nat, n \in Reached
      PROVE  n + 1 \in Reached
    <2>1. SUFFICES ASSUME NEW s \in Seq(T), Len(s) = n + 1
                   PROVE  s \in X
        OBVIOUS
    <2>2. s # << >>
        BY <2>1, EmptySeq
    <2>3. PICK r \in Seq(T), e \in T : s = Append(r, e)
        BY <2>2, SequenceEmptyOrAppend
    <2>4. Len(r) = n
        <3>1. Len(s) = Len(r) + 1 /\ Len(r) \in Nat
            BY <2>3, AppendProperties, LenProperties
        <3> QED BY <2>1, <3>1
    <2> QED BY <1>2, <2>3, <2>4
<1>3. Nat \subseteq Reached
    <2> HIDE DEF Reached
    <2> QED BY <1>1, <1>2, SetInduction
<1>4. \A s \in Seq(T) : Len(s) \in Nat
    BY LenProperties
<1> QED BY <1>3, <1>4

(* The first k elements. *)
LEMMA PrefixProperties ==
    ASSUME NEW S, NEW s \in Seq(S), NEW k \in 0 .. Len(s)
    PROVE  /\ SubSeq(s, 1, k) \in Seq(S)
           /\ Len(SubSeq(s, 1, k)) = k
           /\ \A i \in 1 .. k : SubSeq(s, 1, k)[i] = s[i]
<1>1. Len(s) \in Nat /\ k \in Int
    BY LenProperties
<1>2. \A i \in 1 .. k : s[i] \in S
    BY <1>1, ElementOfSeq
<1> DEFINE r == SubSeq(s, 1, k)
<1>3. /\ r \in Seq(S)
      /\ Len(r) = IF 1 <= k THEN k - 1 + 1 ELSE 0
      /\ \A i \in 1 .. k - 1 + 1 : r[i] = s[1 + i - 1]
    BY <1>1, <1>2, SubSeqProperties
<1> HIDE DEF r
<1>4. Len(r) = k
    BY <1>1, <1>3
<1>5. \A i \in 1 .. k : r[i] = s[i]
    BY <1>1, <1>3
<1> QED BY <1>3, <1>4, <1>5 DEF r

LEMMA FrontProperties ==
    ASSUME NEW S, NEW s \in Seq(S), s # << >>
    PROVE  /\ Front(s) \in Seq(S)
           /\ Len(Front(s)) = Len(s) - 1
           /\ \A i \in 1 .. Len(s) - 1 : Front(s)[i] = s[i]
           /\ Last(s) \in S
           /\ Len(s) > 0
<1>1. Len(s) \in Int /\ Len(s) >= 1
    BY LenProperties, EmptySeq
<1>2. \A i \in 1 .. Len(s) : s[i] \in S
    BY ElementOfSeq
<1>3. Last(s) \in S
    BY <1>1, <1>2 DEF Last
<1> DEFINE r == SubSeq(s, 1, Len(s) - 1)
<1>4. /\ r \in Seq(S)
      /\ Len(r) = IF 1 <= Len(s) - 1 THEN Len(s) - 1 - 1 + 1 ELSE 0
      /\ \A i \in 1 .. Len(s) - 1 - 1 + 1 : r[i] = s[1 + i - 1]
    <2>1. \A i \in 1 .. Len(s) - 1 : s[i] \in S
        BY <1>1, <1>2
    <2>2. Len(s) - 1 \in Int
        BY <1>1
    <2> QED BY <2>1, <2>2, SubSeqProperties
<1> HIDE DEF r
<1>5. Len(r) = Len(s) - 1
    <2>1. CASE Len(s) = 1
        <3>1. ~(1 <= Len(s) - 1) /\ Len(s) - 1 = 0
            BY <2>1
        <3> QED BY <1>4, <3>1
    <2>2. CASE Len(s) > 1
        <3>1. 1 <= Len(s) - 1 /\ Len(s) - 1 - 1 + 1 = Len(s) - 1
            BY <1>1, <2>2
        <3> QED BY <1>4, <3>1
    <2>3. Len(s) = 1 \/ Len(s) > 1
        <3>1. \A n \in Int : n >= 1 => n = 1 \/ n > 1
            OBVIOUS
        <3> QED BY <1>1, <3>1
    <2> QED BY <2>1, <2>2, <2>3
<1>6. \A i \in 1 .. Len(s) - 1 : r[i] = s[i]
    BY <1>1, <1>4
<1> QED BY <1>1, <1>3, <1>4, <1>5, <1>6 DEF Front, r

LEMMA InsertAtProperties ==
    ASSUME NEW S, NEW s \in Seq(S), NEW i \in 1 .. Len(s) + 1, NEW e \in S
    PROVE  /\ InsertAt(s, i, e) \in Seq(S)
           /\ Len(InsertAt(s, i, e)) = Len(s) + 1
           /\ \A j \in 1 .. Len(s) + 1 : InsertAt(s, i, e)[j] =
                  IF j < i THEN s[j] ELSE IF j = i THEN e ELSE s[j - 1]
<1> DEFINE a == SubSeq(s, 1, i - 1)
           b == SubSeq(s, i, Len(s))
           c == a \o <<e>>
<1>1. Len(s) \in Nat /\ \A k \in 1 .. Len(s) : s[k] \in S
    BY LenProperties, ElementOfSeq
<1>2. a \in Seq(S) /\ Len(a) = i - 1 /\ \A k \in 1 .. i - 1 : a[k] = s[k]
    <2>1. i - 1 \in Int /\ \A k \in 1 .. i - 1 : s[k] \in S
        BY <1>1
    <2>2. /\ a \in Seq(S)
          /\ Len(a) = IF 1 <= i - 1 THEN i - 1 - 1 + 1 ELSE 0
          /\ \A k \in 1 .. i - 1 - 1 + 1 : a[k] = s[1 + k - 1]
        BY <2>1, SubSeqProperties
    <2> QED BY <1>1, <2>2
<1>3. b \in Seq(S) /\ Len(b) = Len(s) - i + 1 /\ \A k \in 1 .. Len(s) - i + 1 : b[k] = s[i + k - 1]
    <2>1. i \in Int /\ Len(s) \in Int /\ \A k \in i .. Len(s) : s[k] \in S
        BY <1>1
    <2>2. /\ b \in Seq(S)
          /\ Len(b) = IF i <= Len(s) THEN Len(s) - i + 1 ELSE 0
          /\ \A k \in 1 .. Len(s) - i + 1 : b[k] = s[i + k - 1]
        BY <2>1, SubSeqProperties
    <2> QED BY <1>1, <2>2
<1>4. <<e>> \in Seq(S) /\ Len(<<e>>) = 1 /\ <<e>>[1] = e
    OBVIOUS
<1> HIDE DEF a, b
<1>5. /\ c \in Seq(S)
      /\ Len(c) = i
      /\ \A k \in 1 .. i : c[k] = IF k < i THEN s[k] ELSE e
    <2>1. /\ c \in Seq(S)
          /\ Len(c) = Len(a) + Len(<<e>>)
          /\ \A k \in 1 .. Len(a) + Len(<<e>>) : c[k] =
                 IF k <= Len(a) THEN a[k] ELSE <<e>>[k - Len(a)]
        BY <1>2, <1>4, ConcatProperties
    <2> HIDE DEF c
    <2>2. Len(a) + Len(<<e>>) = i
        BY <1>1, <1>2, <1>4
    <2>3. ASSUME NEW k \in 1 .. i
          PROVE  c[k] = IF k < i THEN s[k] ELSE e
        <3>1. c[k] = IF k <= Len(a) THEN a[k] ELSE <<e>>[k - Len(a)]
            BY <2>1, <2>2
        <3>2. CASE k < i
            <4>1. k \in 1 .. i - 1 /\ k <= Len(a)
                BY <1>1, <1>2, <3>2
            <4> QED BY <1>2, <3>1, <3>2, <4>1
        <3>3. CASE k = i
            <4>1. ~ (k <= Len(a)) /\ k - Len(a) = 1
                BY <1>1, <1>2, <3>3
            <4> QED BY <1>4, <3>1, <3>3, <4>1
        <3> QED BY <1>1, <3>2, <3>3
    <2> QED BY <2>1, <2>2, <2>3
<1> HIDE DEF c
<1>6. /\ c \o b \in Seq(S)
      /\ Len(c \o b) = Len(c) + Len(b)
      /\ \A k \in 1 .. Len(c) + Len(b) : (c \o b)[k] = IF k <= Len(c) THEN c[k] ELSE b[k - Len(c)]
    BY <1>3, <1>5, ConcatProperties
<1>7. InsertAt(s, i, e) = c \o b
    BY DEF InsertAt, a, b, c
<1> DEFINE r == c \o b
<1>8. Len(r) = Len(s) + 1
    BY <1>1, <1>3, <1>5, <1>6
<1>9. ASSUME NEW j \in 1 .. Len(s) + 1
      PROVE  r[j] = IF j < i THEN s[j] ELSE IF j = i THEN e ELSE s[j - 1]
    <2>1. r[j] = IF j <= i THEN c[j] ELSE b[j - i]
        <3> HIDE DEF r
        <3>1. Len(c) + Len(b) = Len(s) + 1
            BY <1>1, <1>3, <1>5
        <3> QED BY <1>5, <1>6, <3>1 DEF r
    <2>2. CASE j <= i
        BY <1>5, <2>1, <2>2
    <2>3. CASE j > i
        <3>1. j - i \in 1 .. Len(s) - i + 1 /\ i + (j - i) - 1 = j - 1
            BY <1>1, <2>3
        <3>2. b[j - i] = s[j - 1]
            BY <1>3, <3>1
        <3> QED BY <1>1, <2>1, <2>3, <3>2
    <2>4. j \in Int /\ i \in Int
        BY <1>1
    <2> HIDE DEF r
    <2> QED BY <2>2, <2>3, <2>4
<1> QED BY <1>6, <1>7, <1>8, <1>9

LEMMA RemoveAtProperties ==
    ASSUME NEW S, NEW s \in Seq(S), NEW i \in 1 .. Len(s)
    PROVE  /\ RemoveAt(s, i) \in Seq(S)
           /\ Len(RemoveAt(s, i)) = Len(s) - 1
           /\ \A j \in 1 .. Len(s) - 1 : RemoveAt(s, i)[j] = IF j < i THEN s[j] ELSE s[j + 1]
<1> DEFINE a == SubSeq(s, 1, i - 1)
           b == SubSeq(s, i + 1, Len(s))
<1>1. Len(s) \in Nat /\ \A k \in 1 .. Len(s) : s[k] \in S
    BY LenProperties, ElementOfSeq
<1>2. a \in Seq(S) /\ Len(a) = i - 1 /\ \A k \in 1 .. i - 1 : a[k] = s[k]
    <2>1. i - 1 \in Int /\ \A k \in 1 .. i - 1 : s[k] \in S
        BY <1>1
    <2>2. /\ a \in Seq(S)
          /\ Len(a) = IF 1 <= i - 1 THEN i - 1 - 1 + 1 ELSE 0
          /\ \A k \in 1 .. i - 1 - 1 + 1 : a[k] = s[1 + k - 1]
        BY <2>1, SubSeqProperties
    <2> QED BY <1>1, <2>2
<1>3. b \in Seq(S) /\ Len(b) = Len(s) - i /\ \A k \in 1 .. Len(s) - i : b[k] = s[i + k]
    <2>1. i + 1 \in Int /\ Len(s) \in Int /\ \A k \in i + 1 .. Len(s) : s[k] \in S
        BY <1>1
    <2>2. /\ b \in Seq(S)
          /\ Len(b) = IF i + 1 <= Len(s) THEN Len(s) - (i + 1) + 1 ELSE 0
          /\ \A k \in 1 .. Len(s) - (i + 1) + 1 : b[k] = s[i + 1 + k - 1]
        BY <2>1, SubSeqProperties
    <2> QED BY <1>1, <2>2
<1> HIDE DEF a, b
<1>4. /\ a \o b \in Seq(S)
      /\ Len(a \o b) = Len(a) + Len(b)
      /\ \A k \in 1 .. Len(a) + Len(b) : (a \o b)[k] = IF k <= Len(a) THEN a[k] ELSE b[k - Len(a)]
    BY <1>2, <1>3, ConcatProperties
<1>5. RemoveAt(s, i) = a \o b
    BY DEF RemoveAt, a, b
<1> DEFINE r == a \o b
<1>6. Len(r) = Len(s) - 1
    BY <1>1, <1>2, <1>3, <1>4
<1>7. ASSUME NEW j \in 1 .. Len(s) - 1
      PROVE  r[j] = IF j < i THEN s[j] ELSE s[j + 1]
    <2>1. r[j] = IF j <= i - 1 THEN a[j] ELSE b[j - (i - 1)]
        <3>1. Len(a) + Len(b) = Len(s) - 1
            BY <1>1, <1>2, <1>3
        <3> QED BY <1>2, <1>4, <3>1
    <2>2. CASE j < i
        BY <1>1, <1>2, <2>1, <2>2
    <2>3. CASE j >= i
        <3>1. j - (i - 1) \in 1 .. Len(s) - i /\ i + (j - (i - 1)) = j + 1
            BY <1>1, <2>3
        <3>2. b[j - (i - 1)] = s[j + 1]
            BY <1>3, <3>1
        <3> QED BY <1>1, <2>1, <2>3, <3>2
    <2>4. j \in Int /\ i \in Int
        BY <1>1
    <2> HIDE DEF r
    <2> QED BY <2>2, <2>3, <2>4
<1> QED BY <1>4, <1>5, <1>6, <1>7

-----------------------------------------------------------------------------
(* Sublists *)

(* The recursion of KeptUpTo has a solution. *)
LEMMA KeptUpToDefined ==
    ASSUME NEW s, NEW S, Len(s) \in Nat
    PROVE  KeptUpTo(s, S) =
               [i \in 0 .. Len(s) |->
                   IF i = 0 THEN << >>
                   ELSE IF s[i] \in S THEN Append(KeptUpTo(s, S)[i - 1], s[i])
                   ELSE KeptUpTo(s, S)[i - 1]]
<1> DEFINE Step(g, i) == IF i = 0 THEN << >>
                         ELSE IF s[i] \in S THEN Append(g[i - 1], s[i])
                         ELSE g[i - 1]
           Defined == {n \in Nat : \E g : g = [i \in 0 .. n |-> Step(g, i)]}
<1>1. \A g, h, i : (i = 0 \/ g[i - 1] = h[i - 1]) => Step(g, i) = Step(h, i)
    OBVIOUS
<1>2. KeptUpTo(s, S) = CHOOSE g : g = [i \in 0 .. Len(s) |-> Step(g, i)]
    BY DEF KeptUpTo
<1> HIDE DEF Step
<1>3. 0 \in Defined
    <2> DEFINE g == [i \in 0 .. 0 |-> Step(<< >>, 0)]
    <2>1. \A i \in 0 .. 0 : Step(g, i) = Step(<< >>, 0)
        BY <1>1
    <2>2. g = [i \in 0 .. 0 |-> Step(g, i)]
        BY <2>1
    <2> QED BY <2>2
<1>4. ASSUME NEW n \in Nat, n \in Defined
      PROVE  n + 1 \in Defined
    <2>1. PICK g : g = [i \in 0 .. n |-> Step(g, i)]
        BY <1>4
    <2> DEFINE h == [i \in 0 .. n + 1 |-> IF i <= n THEN g[i] ELSE Step(g, i)]
    <2>2. ASSUME NEW i \in 0 .. n + 1
          PROVE  h[i] = Step(h, i)
        <3>1. i = 0 \/ h[i - 1] = g[i - 1]
            OBVIOUS
        <3>2. Step(h, i) = Step(g, i)
            BY <1>1, <3>1
        <3>3. h[i] = Step(g, i)
            <4>1. \A j \in 0 .. n : g[j] = Step(g, j)
                BY <2>1
            <4> QED BY <4>1
        <3> QED BY <3>2, <3>3
    <2>3. h = [i \in 0 .. n + 1 |-> Step(h, i)]
        BY <2>2
    <2> HIDE DEF h
    <2> QED BY <2>3
<1>5. Len(s) \in Defined
    <2> HIDE DEF Defined
    <2> QED BY <1>3, <1>4, SetInduction
<1>6. KeptUpTo(s, S) = [i \in 0 .. Len(s) |-> Step(KeptUpTo(s, S), i)]
    BY <1>2, <1>5
<1> QED BY <1>6 DEF Step

LEMMA KeptUpToSteps ==
    ASSUME NEW s, NEW S, Len(s) \in Nat
    PROVE  /\ KeptUpTo(s, S)[0] = << >>
           /\ \A i \in 1 .. Len(s) :
                  KeptUpTo(s, S)[i] = IF s[i] \in S THEN Append(KeptUpTo(s, S)[i - 1], s[i])
                                      ELSE KeptUpTo(s, S)[i - 1]
<1> DEFINE Step(i) == IF i = 0 THEN << >>
                      ELSE IF s[i] \in S THEN Append(KeptUpTo(s, S)[i - 1], s[i])
                      ELSE KeptUpTo(s, S)[i - 1]
<1>1. KeptUpTo(s, S) = [i \in 0 .. Len(s) |-> Step(i)]
    BY KeptUpToDefined
<1>2. \A i \in 0 .. Len(s) : KeptUpTo(s, S)[i] = Step(i)
    <2> HIDE DEF Step
    <2> QED BY <1>1
<1> QED BY <1>2

(* What is kept has only entries of both, and no more of them. *)
LEMMA KeptType ==
    ASSUME NEW T, NEW s \in Seq(T), NEW S
    PROVE  /\ Kept(s, S) \in Seq(S \cap T)
           /\ Len(Kept(s, S)) <= Len(s)
<1> DEFINE u == KeptUpTo(s, S)
           Typed == {n \in Nat : n <= Len(s) => u[n] \in Seq(S \cap T) /\ Len(u[n]) <= n}
<1>1. Len(s) \in Nat /\ \A i \in 1 .. Len(s) : s[i] \in T
    BY LenProperties, ElementOfSeq
<1>2. /\ u[0] = << >>
      /\ \A i \in 1 .. Len(s) : u[i] = IF s[i] \in S THEN Append(u[i - 1], s[i]) ELSE u[i - 1]
    BY <1>1, KeptUpToSteps
<1> HIDE DEF u
<1>3. 0 \in Typed
    <2>1. u[0] \in Seq(S \cap T) /\ Len(u[0]) = 0
        BY <1>2, EmptySeq
    <2> QED BY <2>1
<1>4. ASSUME NEW n \in Nat, n \in Typed
      PROVE  n + 1 \in Typed
    <2>1. SUFFICES ASSUME n + 1 <= Len(s)
                   PROVE  u[n + 1] \in Seq(S \cap T) /\ Len(u[n + 1]) <= n + 1
        OBVIOUS
    <2>2. u[n] \in Seq(S \cap T) /\ Len(u[n]) <= n /\ Len(u[n]) \in Nat
        BY <1>1, <1>4, <2>1, LenProperties
    <2>3. u[n + 1] = IF s[n + 1] \in S THEN Append(u[n], s[n + 1]) ELSE u[n]
        <3>1. n + 1 \in 1 .. Len(s) /\ n + 1 - 1 = n
            BY <1>1, <2>1
        <3> QED BY <1>2, <3>1
    <2>4. CASE s[n + 1] \in S
        <3>1. s[n + 1] \in S \cap T
            BY <1>1, <2>1, <2>4
        <3>2. Append(u[n], s[n + 1]) \in Seq(S \cap T) /\ Len(Append(u[n], s[n + 1])) = Len(u[n]) + 1
            BY <2>2, <3>1, AppendProperties
        <3> QED BY <2>2, <2>3, <2>4, <3>2
    <2>5. CASE s[n + 1] \notin S
        BY <2>2, <2>3, <2>5
    <2> QED BY <2>4, <2>5
<1>5. Len(s) \in Typed
    <2> HIDE DEF Typed
    <2> QED BY <1>1, <1>3, <1>4, SetInduction
<1> QED BY <1>5 DEF Kept, u

(* What is kept up to an entry depends on the entries up to it. *)
LEMMA KeptUpToAgrees ==
    ASSUME NEW s, NEW t, NEW S, Len(s) \in Nat, Len(t) \in Nat,
           NEW n \in Nat, n <= Len(s), n <= Len(t), \A i \in 1 .. n : s[i] = t[i]
    PROVE  KeptUpTo(s, S)[n] = KeptUpTo(t, S)[n]
<1> DEFINE u == KeptUpTo(s, S)
           w == KeptUpTo(t, S)
           Same == {k \in Nat : k <= n => u[k] = w[k]}
<1>1. /\ u[0] = << >>
      /\ \A i \in 1 .. Len(s) : u[i] = IF s[i] \in S THEN Append(u[i - 1], s[i]) ELSE u[i - 1]
    BY KeptUpToSteps
<1>2. /\ w[0] = << >>
      /\ \A i \in 1 .. Len(t) : w[i] = IF t[i] \in S THEN Append(w[i - 1], t[i]) ELSE w[i - 1]
    BY KeptUpToSteps
<1> HIDE DEF u, w
<1>3. 0 \in Same
    BY <1>1, <1>2
<1>4. ASSUME NEW k \in Nat, k \in Same
      PROVE  k + 1 \in Same
    <2>1. SUFFICES ASSUME k + 1 <= n PROVE u[k + 1] = w[k + 1]
        OBVIOUS
    <2>2. k + 1 \in 1 .. Len(s) /\ k + 1 \in 1 .. Len(t) /\ k + 1 - 1 = k /\ s[k + 1] = t[k + 1]
        BY <2>1
    <2>3. u[k] = w[k]
        BY <1>4, <2>1
    <2> QED BY <1>1, <1>2, <2>2, <2>3
<1>5. n \in Same
    <2> HIDE DEF Same
    <2> QED BY <1>3, <1>4, SetInduction
<1> QED BY <1>5 DEF u, w

LEMMA KeptEmpty ==
    ASSUME NEW S
    PROVE  Kept(<< >>, S) = << >>
<1>1. Len(<< >>) = 0
    OBVIOUS
<1> QED BY <1>1, KeptUpToSteps DEF Kept

LEMMA KeptAppend ==
    ASSUME NEW T, NEW s \in Seq(T), NEW e \in T, NEW S
    PROVE  Kept(Append(s, e), S) = IF e \in S THEN Append(Kept(s, S), e) ELSE Kept(s, S)
<1> DEFINE t == Append(s, e)
           n == Len(s)
<1>1. /\ n \in Nat /\ Len(t) = n + 1 /\ Len(t) \in Nat
      /\ \A i \in 1 .. n : s[i] = t[i]
      /\ t[n + 1] = e
    BY AppendProperties, LenProperties
<1> HIDE DEF t
<1>2. KeptUpTo(s, S)[n] = KeptUpTo(t, S)[n]
    BY <1>1, KeptUpToAgrees
<1>3. KeptUpTo(t, S)[n + 1] = IF t[n + 1] \in S THEN Append(KeptUpTo(t, S)[n], t[n + 1])
                              ELSE KeptUpTo(t, S)[n]
    <2>1. n + 1 \in 1 .. Len(t) /\ n + 1 - 1 = n
        BY <1>1
    <2> QED BY <1>1, <2>1, KeptUpToSteps
<1> QED BY <1>1, <1>2, <1>3 DEF Kept, t

-----------------------------------------------------------------------------
(* Sums *)

(* The recursion of SumUpTo has a solution. *)
LEMMA SumUpToDefined ==
    ASSUME NEW s, Len(s) \in Nat
    PROVE  SumUpTo(s) =
               [i \in 0 .. Len(s) |-> IF i = 0 THEN 0 ELSE SumUpTo(s)[i - 1] + s[i]]
<1> DEFINE Step(g, i) == IF i = 0 THEN 0 ELSE g[i - 1] + s[i]
           Defined == {n \in Nat : \E g : g = [i \in 0 .. n |-> Step(g, i)]}
<1>1. \A g, h, i : (i = 0 \/ g[i - 1] = h[i - 1]) => Step(g, i) = Step(h, i)
    OBVIOUS
<1>2. SumUpTo(s) = CHOOSE g : g = [i \in 0 .. Len(s) |-> Step(g, i)]
    BY DEF SumUpTo
<1> HIDE DEF Step
<1>3. 0 \in Defined
    <2> DEFINE g == [i \in 0 .. 0 |-> Step(<< >>, 0)]
    <2>1. \A i \in 0 .. 0 : Step(g, i) = Step(<< >>, 0)
        BY <1>1
    <2>2. g = [i \in 0 .. 0 |-> Step(g, i)]
        BY <2>1
    <2> QED BY <2>2
<1>4. ASSUME NEW n \in Nat, n \in Defined
      PROVE  n + 1 \in Defined
    <2>1. PICK g : g = [i \in 0 .. n |-> Step(g, i)]
        BY <1>4
    <2> DEFINE h == [i \in 0 .. n + 1 |-> IF i <= n THEN g[i] ELSE Step(g, i)]
    <2>2. ASSUME NEW i \in 0 .. n + 1
          PROVE  h[i] = Step(h, i)
        <3>1. i = 0 \/ h[i - 1] = g[i - 1]
            OBVIOUS
        <3>2. Step(h, i) = Step(g, i)
            BY <1>1, <3>1
        <3>3. h[i] = Step(g, i)
            <4>1. \A j \in 0 .. n : g[j] = Step(g, j)
                BY <2>1
            <4> QED BY <4>1
        <3> QED BY <3>2, <3>3
    <2>3. h = [i \in 0 .. n + 1 |-> Step(h, i)]
        BY <2>2
    <2> HIDE DEF h
    <2> QED BY <2>3
<1>5. Len(s) \in Defined
    <2> HIDE DEF Defined
    <2> QED BY <1>3, <1>4, SetInduction
<1>6. SumUpTo(s) = [i \in 0 .. Len(s) |-> Step(SumUpTo(s), i)]
    BY <1>2, <1>5
<1> QED BY <1>6 DEF Step

LEMMA SumSteps ==
    ASSUME NEW s, Len(s) \in Nat
    PROVE  /\ SumUpTo(s)[0] = 0
           /\ \A i \in 1 .. Len(s) : SumUpTo(s)[i] = SumUpTo(s)[i - 1] + s[i]
<1> DEFINE Step(i) == IF i = 0 THEN 0 ELSE SumUpTo(s)[i - 1] + s[i]
<1>1. SumUpTo(s) = [i \in 0 .. Len(s) |-> Step(i)]
    BY SumUpToDefined
<1>2. \A i \in 0 .. Len(s) : SumUpTo(s)[i] = Step(i)
    <2> HIDE DEF Step
    <2> QED BY <1>1
<1> QED BY <1>2

(* Sums of natural numbers are natural numbers, and grow. *)
LEMMA SumType ==
    ASSUME NEW s, Len(s) \in Nat, \A i \in 1 .. Len(s) : s[i] \in Nat
    PROVE  \A i \in 0 .. Len(s) : SumUpTo(s)[i] \in Nat
<1> DEFINE Good == {n \in Nat : n <= Len(s) => SumUpTo(s)[n] \in Nat}
<1>1. 0 \in Good
    BY SumSteps
<1>2. ASSUME NEW n \in Nat, n \in Good
      PROVE  n + 1 \in Good
    <2>1. SUFFICES ASSUME n + 1 <= Len(s)
                   PROVE  SumUpTo(s)[n + 1] \in Nat
        OBVIOUS
    <2>2. n + 1 \in 1 .. Len(s) /\ n + 1 - 1 = n /\ n <= Len(s)
        BY <2>1
    <2>3. SumUpTo(s)[n + 1] = SumUpTo(s)[n] + s[n + 1]
        BY <2>2, SumSteps
    <2>4. SumUpTo(s)[n] \in Nat /\ s[n + 1] \in Nat
        BY <1>2, <2>2
    <2> QED BY <2>3, <2>4
<1>3. Nat \subseteq Good
    <2> HIDE DEF Good
    <2> QED BY <1>1, <1>2, SetInduction
<1> QED BY <1>3

LEMMA SumGrows ==
    ASSUME NEW s, Len(s) \in Nat, \A i \in 1 .. Len(s) : s[i] \in Nat, NEW k \in 0 .. Len(s)
    PROVE  SumUpTo(s)[k] <= SumUpTo(s)[Len(s)]
<1> DEFINE Good == {n \in Nat : k + n <= Len(s) => SumUpTo(s)[k] <= SumUpTo(s)[k + n]}
<1>1. k \in Nat /\ SumUpTo(s)[k] \in Nat
    BY SumType
<1>2. 0 \in Good
    BY <1>1
<1>3. ASSUME NEW n \in Nat, n \in Good
      PROVE  n + 1 \in Good
    <2>1. SUFFICES ASSUME k + (n + 1) <= Len(s)
                   PROVE  SumUpTo(s)[k] <= SumUpTo(s)[k + (n + 1)]
        OBVIOUS
    <2> DEFINE j == k + (n + 1)
    <2>2. j \in 1 .. Len(s) /\ j - 1 = k + n /\ j - 1 \in 0 .. Len(s) /\ k + n <= Len(s)
        BY <1>1, <2>1
    <2>3. SumUpTo(s)[k] <= SumUpTo(s)[j - 1]
        BY <1>3, <2>2
    <2> HIDE DEF j
    <2>4. SumUpTo(s)[j] = SumUpTo(s)[j - 1] + s[j]
        BY <2>2, SumSteps
    <2>5. SumUpTo(s)[j - 1] \in Nat /\ s[j] \in Nat
        BY <2>2, SumType
    <2>6. SumUpTo(s)[k] <= SumUpTo(s)[j]
        BY <1>1, <2>3, <2>4, <2>5
    <2> QED BY <2>6 DEF j
<1>4. Nat \subseteq Good
    <2> HIDE DEF Good
    <2> QED BY <1>2, <1>3, SetInduction
<1>5. Len(s) - k \in Nat /\ k + (Len(s) - k) = Len(s)
    BY <1>1
<1>6. Len(s) - k \in Good
    BY <1>4, <1>5
<1> QED BY <1>5, <1>6

(* A sum is that of the entries it is of. *)
LEMMA SumAgrees ==
    ASSUME NEW s, NEW t, Len(s) \in Nat, Len(t) \in Nat, NEW k \in Nat, k <= Len(s), k <= Len(t),
           \A i \in 1 .. k : s[i] = t[i]
    PROVE  SumUpTo(s)[k] = SumUpTo(t)[k]
<1> DEFINE Good == {n \in Nat : n <= k => SumUpTo(s)[n] = SumUpTo(t)[n]}
<1>1. 0 \in Good
    BY SumSteps
<1>2. ASSUME NEW n \in Nat, n \in Good
      PROVE  n + 1 \in Good
    <2>1. SUFFICES ASSUME n + 1 <= k
                   PROVE  SumUpTo(s)[n + 1] = SumUpTo(t)[n + 1]
        OBVIOUS
    <2> DEFINE j == n + 1
    <2>2. j \in 1 .. Len(s) /\ j \in 1 .. Len(t) /\ j \in 1 .. k /\ j - 1 = n /\ n <= k
        BY <2>1
    <2>3. SumUpTo(s)[j - 1] = SumUpTo(t)[j - 1]
        BY <1>2, <2>2
    <2> HIDE DEF j
    <2>4. SumUpTo(s)[j] = SumUpTo(s)[j - 1] + s[j] /\ SumUpTo(t)[j] = SumUpTo(t)[j - 1] + t[j]
        BY <2>2, SumSteps
    <2>5. SumUpTo(s)[j] = SumUpTo(t)[j]
        BY <2>2, <2>3, <2>4
    <2> QED BY <2>5 DEF j
<1>3. Nat \subseteq Good
    <2> HIDE DEF Good
    <2> QED BY <1>1, <1>2, SetInduction
<1> QED BY <1>3

-----------------------------------------------------------------------------
(* Contexts *)

(* Positions ascend and lie within the log. *)
WellFormed(c) ==
    LET pos == c.rememberedPositions
    IN  /\ c \in Context
        /\ Len(pos) >= 2
        /\ \A i \in 1 .. Len(pos) :
            /\ pos[i] <= Len(c.restoreLinks)
            /\ \A j \in 1 .. i : pos[j] <= pos[i]

(* The bindings that were in force when position i was remembered. *)
ScopeAt(c, i) == Reads(UndoneTo(c, c.rememberedPositions[i]))

-----------------------------------------------------------------------------
(* The log *)

(* A non-empty set of positions has an earliest one: Earliest is well defined. *)
LEMMA EarliestIsLeast ==
    ASSUME NEW S \in SUBSET Nat, S # {}
    PROVE  /\ Earliest(S) \in S
           /\ \A j \in S : Earliest(S) <= j
<1> DEFINE R == {ss \in Nat \X Nat : ss[1] < ss[2]}
<1>1. IsWellFoundedOn(R, Nat)
    BY NatLessThanWellFounded DEF OpToRel
<1>2. PICK i \in S : \A j \in S : <<j, i>> \notin R
    <2> HIDE DEF R
    <2> QED BY <1>1, WFMin
<1>3. \A j \in S : ~(j < i)
    BY <1>2
<1>4. \A j \in S : i <= j
    BY <1>3
<1> QED BY <1>4 DEF Earliest

(* The earliest position is the only one that no other precedes. *)
LEMMA EarliestIsUnique ==
    ASSUME NEW S \in SUBSET Nat, NEW i \in S, \A j \in S : i <= j
    PROVE  Earliest(S) = i
<1>1. Earliest(S) \in S /\ Earliest(S) <= i
    BY EarliestIsLeast
<1>2. i <= Earliest(S)
    BY <1>1
<1>3. i \in Nat /\ Earliest(S) \in Nat
    BY <1>1
<1> QED BY <1>1, <1>2, <1>3

(* The links of a prefix after a position are positions of the log. *)
LEMMA LinksAfterType ==
    ASSUME NEW c \in Context, NEW k \in Nat, NEW p \in Prefix
    PROVE  LinksAfter(c, k, p) \in SUBSET (1 .. Len(c.restoreLinks))
BY LenProperties DEF LinksAfter, Context

(* Undoing the log gives a prefix map again. *)
LEMMA UndoneToType ==
    ASSUME NEW c \in Context, NEW k \in Nat
    PROVE  UndoneTo(c, k) \in PrefixMap
<1>1. SUFFICES ASSUME NEW p \in Prefix, LinksAfter(c, k, p) # {}
               PROVE  c.restoreLinks[Earliest(LinksAfter(c, k, p))].ns \in Namespace
    BY <1>1 DEF UndoneTo, PrefixMap, Context
<1>2. Earliest(LinksAfter(c, k, p)) \in 1 .. Len(c.restoreLinks)
    <2>1. LinksAfter(c, k, p) \in SUBSET Nat
        BY LinksAfterType, LenProperties DEF Context
    <2> QED BY <1>1, <2>1, LinksAfterType, EarliestIsLeast
<1>3. c.restoreLinks[Earliest(LinksAfter(c, k, p))] \in Link
    BY <1>2, ElementOfSeq DEF Context
<1> QED BY <1>3 DEF Link

(* Undoing the log to its end undoes nothing. *)
LEMMA UndoneToEnd ==
    ASSUME NEW c \in Context
    PROVE  UndoneTo(c, Len(c.restoreLinks)) = c.prefixMap
<1>1. \A p \in Prefix : LinksAfter(c, Len(c.restoreLinks), p) = {}
    BY LenProperties DEF LinksAfter, Context
<1> QED BY <1>1 DEF UndoneTo, Context, PrefixMap

-----------------------------------------------------------------------------
(* The operations keep the type *)

LEMMA AddNamespaceType ==
    ASSUME NEW c \in Context, NEW p \in Prefix, NEW ns \in Namespace, NEW force \in BOOLEAN
    PROVE  AddNamespace(c, p, ns, force) \in Context
<1>1. [prefix |-> p, ns |-> Reads(c.prefixMap)[p]] \in Link
    BY NSMapAssumption DEF Link, Reads, Context, PrefixMap, isSetPrefix
<1>2. AddToMap(c.prefixMap, p, ns, TRUE) \in PrefixMap
    BY DEF AddToMap, Context, PrefixMap
<1> QED BY <1>1, <1>2, AppendProperties DEF AddNamespace, Context

LEMMA RememberType ==
    ASSUME NEW c \in Context
    PROVE  Remember(c) \in Context
BY LenProperties, AppendProperties DEF Remember, Context

LEMMA RestoreType ==
    ASSUME NEW c \in Context, Len(c.rememberedPositions) >= 2,
           c.rememberedPositions[Len(c.rememberedPositions) - 1] <= Len(c.restoreLinks)
    PROVE  Restore(c) \in Context
<1> DEFINE n == Len(c.rememberedPositions) - 1
<1>1. n \in 1 .. Len(c.rememberedPositions) /\ c.rememberedPositions[n] \in Nat
    BY LenProperties, ElementOfSeq DEF Context
<1>2. SubSeq(c.restoreLinks, 1, c.rememberedPositions[n]) \in Seq(Link)
    BY <1>1, LenProperties, SubSeqProperties DEF Context
<1>3. SubSeq(c.rememberedPositions, 1, n) \in Seq(Nat)
    BY <1>1, LenProperties, SubSeqProperties DEF Context
<1> QED BY <1>1, <1>2, <1>3, UndoneToType DEF Restore, Context
-----------------------------------------------------------------------------
(* What the operations do to the scopes *)

(* Binding a prefix changes no scope that is already open: undoing the log to *)
(* its end or to an earlier position reads as it did.                         *)
LEMMA AddNamespaceKeepsScopes ==
    ASSUME NEW c \in Context, NEW p \in Prefix, NEW ns \in Namespace, NEW force \in BOOLEAN,
           NEW k \in 0 .. Len(c.restoreLinks)
    PROVE  Reads(UndoneTo(AddNamespace(c, p, ns, force), k)) = Reads(UndoneTo(c, k))
<1> DEFINE d    == AddNamespace(c, p, ns, force)
           len  == Len(c.restoreLinks)
           link == [prefix |-> p, ns |-> Reads(c.prefixMap)[p]]
<1>1. CASE isSetPrefix(c.prefixMap, p) /\ ~force
    BY <1>1 DEF AddNamespace
<1>2. CASE ~(isSetPrefix(c.prefixMap, p) /\ ~force)
    <2>1. /\ d.restoreLinks = Append(c.restoreLinks, link)
          /\ d.prefixMap = [c.prefixMap EXCEPT ![p] = ns]
        BY <1>2 DEF AddNamespace, AddToMap, Context
    <2>2. /\ len \in Nat
          /\ Len(d.restoreLinks) = len + 1
          /\ \A i \in 1 .. len : d.restoreLinks[i] = c.restoreLinks[i]
          /\ d.restoreLinks[len + 1] = link
        BY <2>1, LenProperties, AppendProperties DEF Context
    <2> HIDE DEF d, len
    <2>3. SUFFICES ASSUME NEW q \in Prefix
                   PROVE  Reads(UndoneTo(d, k))[q] = Reads(UndoneTo(c, k))[q]
        BY <2>3 DEF Reads, d
    <2>4. CASE q # p
        <3>1. LinksAfter(d, k, q) = LinksAfter(c, k, q)
            BY <2>2, <2>4 DEF LinksAfter, len
        <3>2. \A i \in LinksAfter(c, k, q) : d.restoreLinks[i] = c.restoreLinks[i]
            BY <2>2 DEF LinksAfter, len
        <3>3. d.prefixMap[q] = c.prefixMap[q]
            BY <2>1, <2>4 DEF Context, PrefixMap
        <3>4. LinksAfter(c, k, q) # {} => Earliest(LinksAfter(c, k, q)) \in LinksAfter(c, k, q)
            BY EarliestIsLeast, LinksAfterType, LenProperties DEF Context
        <3> QED BY <3>1, <3>2, <3>3, <3>4 DEF UndoneTo, Reads, isSetPrefix
    <2>5. CASE q = p /\ LinksAfter(c, k, q) = {}
        <3>1. LinksAfter(d, k, q) = {len + 1}
            BY <2>2, <2>5 DEF LinksAfter, len
        <3>2. Earliest(LinksAfter(d, k, q)) = len + 1
            BY <2>2, <3>1, EarliestIsUnique
        <3>3. UndoneTo(d, k)[q] = d.restoreLinks[len + 1].ns
            BY <3>1, <3>2 DEF UndoneTo
        <3>5. d.restoreLinks[len + 1].ns = Reads(c.prefixMap)[q]
            BY <2>2, <2>5
        <3>4. UndoneTo(c, k)[q] = c.prefixMap[q]
            BY <2>5 DEF UndoneTo
        <3> QED BY <3>3, <3>4, <3>5, NSMapAssumption DEF Reads, isSetPrefix
    <2>6. CASE q = p /\ LinksAfter(c, k, q) # {}
        <3> DEFINE e == Earliest(LinksAfter(c, k, q))
        <3>1. LinksAfter(c, k, q) \in SUBSET Nat
            BY <2>2 DEF LinksAfter, len
        <3>2. e \in LinksAfter(c, k, q) /\ \A j \in LinksAfter(c, k, q) : e <= j
            BY <2>6, <3>1, EarliestIsLeast
        <3>3. LinksAfter(d, k, q) = LinksAfter(c, k, q) \cup {len + 1}
            BY <2>2, <2>6 DEF LinksAfter, len
        <3>4. e \in 1 .. len
            BY <3>2, LinksAfterType DEF len
        <3> HIDE DEF e
        <3>5. /\ LinksAfter(d, k, q) \in SUBSET Nat
              /\ e \in LinksAfter(d, k, q)
              /\ \A j \in LinksAfter(d, k, q) : e <= j
            BY <2>2, <3>1, <3>2, <3>3, <3>4
        <3>6. Earliest(LinksAfter(d, k, q)) = e
            BY <3>5, EarliestIsUnique
        <3>7. d.restoreLinks[e] = c.restoreLinks[e]
            BY <2>2, <3>4
        <3>8. UndoneTo(d, k)[q] = UndoneTo(c, k)[q]
            BY <2>6, <3>5, <3>6, <3>7 DEF UndoneTo, e
        <3> QED BY <3>8 DEF Reads, isSetPrefix
    <2> QED BY <2>4, <2>5, <2>6
<1> QED BY <1>1, <1>2

(* Undoing the log in two stages is undoing it at once. *)
LEMMA RestoreKeepsScopes ==
    ASSUME NEW c \in Context, NEW d \in Context,
           NEW end \in 0 .. Len(c.restoreLinks), NEW k \in 0 .. end,
           d.prefixMap = UndoneTo(c, end),
           d.restoreLinks = SubSeq(c.restoreLinks, 1, end)
    PROVE  UndoneTo(d, k) = UndoneTo(c, k)
<1>1. /\ Len(c.restoreLinks) \in Nat
      /\ end \in Nat
      /\ Len(d.restoreLinks) = end
      /\ \A i \in 1 .. end : d.restoreLinks[i] = c.restoreLinks[i]
    BY LenProperties, SubSeqProperties DEF Context
<1>2. SUFFICES ASSUME NEW p \in Prefix
               PROVE  UndoneTo(d, k)[p] = UndoneTo(c, k)[p]
    BY <1>2 DEF UndoneTo
<1> DEFINE L == LinksAfter(c, k, p)
           M == LinksAfter(d, k, p)
<1>3. L \in SUBSET Nat /\ M \in SUBSET Nat
    BY <1>1 DEF LinksAfter
<1>4. M = {i \in L : i <= end}
    BY <1>1 DEF LinksAfter
<1>5. LinksAfter(c, end, p) = {i \in L : i > end}
    BY <1>1 DEF LinksAfter
<1>6. M \in SUBSET (1 .. end)
    BY <1>1 DEF LinksAfter
<1>7. CASE M # {}
    <2> HIDE DEF L, M
    <2>1. /\ Earliest(M) \in M
          /\ \A j \in M : Earliest(M) <= j
        BY <1>3, <1>7, EarliestIsLeast
    <2>2. /\ Earliest(M) \in L
          /\ \A j \in L : Earliest(M) <= j
        <3>1. Earliest(M) \in L /\ Earliest(M) \in 1 .. end
            BY <1>4, <1>6, <2>1
        <3>2. ASSUME NEW j \in L
              PROVE  Earliest(M) <= j
            <4>1. j \in Nat
                BY <1>3
            <4>2. CASE j <= end
                BY <1>4, <2>1, <4>2
            <4>3. CASE ~(j <= end)
                BY <1>1, <3>1, <4>1, <4>3
            <4> QED BY <4>2, <4>3
        <3> QED BY <3>1, <3>2
    <2>3. Earliest(L) = Earliest(M)
        BY <1>3, <2>2, EarliestIsUnique
    <2>4. d.restoreLinks[Earliest(M)] = c.restoreLinks[Earliest(M)]
        BY <1>1, <1>6, <2>1
    <2> QED BY <1>7, <2>2, <2>3, <2>4 DEF UndoneTo, L, M
<1>8. CASE M = {}
    <2>1. LinksAfter(c, end, p) = L
        BY <1>1, <1>3, <1>4, <1>5, <1>8
    <2>2. UndoneTo(d, k)[p] = UndoneTo(c, end)[p]
        BY <1>8 DEF UndoneTo
    <2> QED BY <2>1, <2>2 DEF UndoneTo
<1> QED BY <1>7, <1>8
-----------------------------------------------------------------------------
(* The context the constructor leaves. *)
LEMMA NewContextValue ==
    NewContext = [prefixMap           |-> [EmptyPrefixMap EXCEPT ![NoPrefix] = NoNamespace],
                  restoreLinks        |-> <<[prefix |-> NoPrefix, ns |-> NoNamespace]>>,
                  rememberedPositions |-> <<0, 1>>]
<1> DEFINE empty == [prefixMap           |-> EmptyPrefixMap,
                     restoreLinks        |-> << >>,
                     rememberedPositions |-> << >>]
<1>1. Remember(empty) = [prefixMap           |-> EmptyPrefixMap,
                         restoreLinks        |-> << >>,
                         rememberedPositions |-> <<0>>]
    BY DEF Remember
<1>2. Reads(EmptyPrefixMap)[NoPrefix] = NoNamespace /\ ~isSetPrefix(EmptyPrefixMap, NoPrefix)
    BY NSMapAssumption DEF Reads, isSetPrefix, EmptyPrefixMap
<1>3. Append(<< >>, [prefix |-> NoPrefix, ns |-> NoNamespace])
        = <<[prefix |-> NoPrefix, ns |-> NoNamespace]>>
    OBVIOUS
<1> DEFINE declared == [prefixMap           |-> [EmptyPrefixMap EXCEPT ![NoPrefix] = NoNamespace],
                        restoreLinks        |-> <<[prefix |-> NoPrefix, ns |-> NoNamespace]>>,
                        rememberedPositions |-> <<0>>]
<1>4. AddNamespace(Remember(empty), NoPrefix, NoNamespace, TRUE) = declared
    BY <1>1, <1>2, <1>3 DEF AddNamespace, AddToMap
<1>5. NewContext = Remember(declared)
    BY <1>4 DEF NewContext
<1>6. Len(declared.restoreLinks) = 1
    OBVIOUS
<1>7. Append(<<0>>, 1) = <<0, 1>>
    <2>1. <<0>> \in Seq(Nat) /\ <<0, 1>> \in Seq(Nat)
        OBVIOUS
    <2>2. /\ Append(<<0>>, 1) \in Seq(Nat)
          /\ Len(Append(<<0>>, 1)) = 2
          /\ Append(<<0>>, 1)[1] = 0
          /\ Append(<<0>>, 1)[2] = 1
        BY <2>1, AppendProperties
    <2>3. Len(<<0, 1>>) = 2 /\ <<0, 1>>[1] = 0 /\ <<0, 1>>[2] = 1
        OBVIOUS
    <2>4. \A i \in 1 .. 2 : Append(<<0>>, 1)[i] = <<0, 1>>[i]
        BY <2>2, <2>3
    <2> QED BY <2>1, <2>2, <2>3, <2>4, SeqEqual
<1>8. Remember(declared) = [prefixMap           |-> declared.prefixMap,
                            restoreLinks        |-> declared.restoreLinks,
                            rememberedPositions |-> <<0, 1>>]
    BY <1>6, <1>7 DEF Remember
<1> QED BY <1>5, <1>8

-----------------------------------------------------------------------------
(* The calls on a context that is well formed *)

LEMMA WellFormedPositions ==
    ASSUME NEW c, WellFormed(c)
    PROVE  LET pos == c.rememberedPositions
               len == Len(c.restoreLinks)
           IN  /\ c \in Context
               /\ pos \in Seq(Nat) /\ c.restoreLinks \in Seq(Link)
               /\ Len(pos) \in Nat /\ Len(pos) >= 2 /\ len \in Nat
               /\ \A i \in 1 .. Len(pos) : pos[i] \in 0 .. len
               /\ \A i \in 1 .. Len(pos) : \A j \in 1 .. i : pos[j] <= pos[i]
               /\ LastPosition(c) = pos[Len(pos)]
<1>1. /\ c \in Context
      /\ c.rememberedPositions \in Seq(Nat) /\ c.restoreLinks \in Seq(Link)
    BY DEF WellFormed, Context
<1>2. Len(c.rememberedPositions) \in Nat /\ Len(c.restoreLinks) \in Nat
    BY <1>1, LenProperties
<1>3. \A i \in 1 .. Len(c.rememberedPositions) : c.rememberedPositions[i] \in Nat
    BY <1>1, ElementOfSeq
<1>4. Len(c.rememberedPositions) >= 2 /\ c.rememberedPositions # << >>
    BY DEF WellFormed
<1> QED BY <1>1, <1>2, <1>3, <1>4 DEF WellFormed, LastPosition

(* Binding a prefix adds a link, and no scope that is open changes. *)
LEMMA AddNamespaceBinds ==
    ASSUME NEW c, WellFormed(c), NEW p \in Prefix, NEW ns \in Namespace
    PROVE  LET d   == AddNamespace(c, p, ns, TRUE)
               len == Len(c.restoreLinks)
           IN  /\ WellFormed(d)
               /\ d.rememberedPositions = c.rememberedPositions
               /\ d.prefixMap = [c.prefixMap EXCEPT ![p] = ns]
               /\ Len(d.restoreLinks) = len + 1
               /\ \A i \in 1 .. len : d.restoreLinks[i] = c.restoreLinks[i]
               /\ d.restoreLinks[len + 1].prefix = p
               /\ \A i \in 1 .. Len(c.rememberedPositions) : ScopeAt(d, i) = ScopeAt(c, i)
<1> DEFINE d    == AddNamespace(c, p, ns, TRUE)
           len  == Len(c.restoreLinks)
           link == [prefix |-> p, ns |-> Reads(c.prefixMap)[p]]
<1>1. /\ c \in Context /\ len \in Nat /\ c.restoreLinks \in Seq(Link)
      /\ \A i \in 1 .. Len(c.rememberedPositions) : c.rememberedPositions[i] \in 0 .. len
    BY WellFormedPositions
<1>2. /\ d.rememberedPositions = c.rememberedPositions
      /\ d.prefixMap = [c.prefixMap EXCEPT ![p] = ns]
      /\ d.restoreLinks = Append(c.restoreLinks, link)
    BY DEF AddNamespace, AddToMap
<1>3. /\ Len(d.restoreLinks) = len + 1
      /\ \A i \in 1 .. len : d.restoreLinks[i] = c.restoreLinks[i]
      /\ d.restoreLinks[len + 1] = link
    <2>1. link \in Link
        BY <1>1, NSMapAssumption DEF Link, Reads, Context, PrefixMap, isSetPrefix
    <2> HIDE DEF d, link
    <2> QED BY <1>1, <1>2, <2>1, AppendProperties
<1>4. d \in Context
    BY <1>1, AddNamespaceType
<1>5. \A i \in 1 .. Len(c.rememberedPositions) : ScopeAt(d, i) = ScopeAt(c, i)
    <2> TAKE i \in 1 .. Len(c.rememberedPositions)
    <2>1. c.rememberedPositions[i] \in 0 .. len
        BY <1>1
    <2>2. Reads(UndoneTo(d, c.rememberedPositions[i])) = Reads(UndoneTo(c, c.rememberedPositions[i]))
        BY <1>1, <2>1, AddNamespaceKeepsScopes
    <2> HIDE DEF d
    <2> QED BY <1>2, <2>2 DEF ScopeAt
<1> HIDE DEF d
<1>6. WellFormed(d)
    <2>1. \A k \in Nat : k <= len => k <= len + 1
        BY <1>1
    <2> QED BY <1>1, <1>2, <1>3, <1>4 DEF WellFormed
<1> QED
    <2>1. d.restoreLinks[len + 1].prefix = p
        BY <1>3
    <2> QED BY <1>2, <1>3, <1>5, <1>6, <2>1 DEF d

(* Remembering opens a scope with the bindings of now. *)
LEMMA RememberOpens ==
    ASSUME NEW c, WellFormed(c)
    PROVE  LET d == Remember(c)
               n == Len(c.rememberedPositions)
           IN  /\ WellFormed(d)
               /\ d.prefixMap = c.prefixMap
               /\ d.restoreLinks = c.restoreLinks
               /\ Len(d.rememberedPositions) = n + 1
               /\ \A i \in 1 .. n : d.rememberedPositions[i] = c.rememberedPositions[i]
               /\ d.rememberedPositions[n + 1] = Len(c.restoreLinks)
               /\ \A i \in 1 .. n : ScopeAt(d, i) = ScopeAt(c, i)
               /\ ScopeAt(d, n + 1) = Reads(c.prefixMap)
<1> DEFINE d   == Remember(c)
           n   == Len(c.rememberedPositions)
           len == Len(c.restoreLinks)
           pos == c.rememberedPositions
           new == d.rememberedPositions
<1>1. /\ c \in Context /\ len \in Nat
      /\ n \in Nat /\ n >= 2
      /\ \A i \in 1 .. n : pos[i] \in 0 .. len
      /\ \A i \in 1 .. n : \A j \in 1 .. i : pos[j] <= pos[i]
    BY WellFormedPositions
<1>2. /\ d.prefixMap = c.prefixMap
      /\ d.restoreLinks = c.restoreLinks
      /\ new = Append(pos, len)
    BY <1>1 DEF Remember, Context
<1>3. /\ Len(new) = n + 1
      /\ \A i \in 1 .. n : new[i] = pos[i]
      /\ new[n + 1] = len
    BY <1>1, <1>2, AppendProperties DEF Context
<1>4. d \in Context
    BY <1>1, RememberType
<1> HIDE DEF d, n, len
<1>5. \A k \in Nat : UndoneTo(d, k) = UndoneTo(c, k)
    BY <1>2 DEF UndoneTo, LinksAfter
<1>6. \A i \in 1 .. n : ScopeAt(d, i) = ScopeAt(c, i)
    BY <1>1, <1>3, <1>5 DEF ScopeAt
<1>7. ScopeAt(d, n + 1) = Reads(c.prefixMap)
    BY <1>1, <1>3, <1>5, UndoneToEnd DEF ScopeAt, len
<1>8. WellFormed(d)
    <2>1. Len(new) >= 2
        BY <1>1, <1>3
    <2>2. \A i \in 1 .. n + 1 : new[i] <= len
        BY <1>1, <1>3
    <2>3. \A i \in 1 .. n + 1 : \A j \in 1 .. i : new[j] <= new[i]
        BY <1>1, <1>3
    <2> QED BY <1>2, <1>3, <1>4, <2>1, <2>2, <2>3 DEF WellFormed, len
<1> QED BY <1>2, <1>3, <1>6, <1>7, <1>8 DEF d, n, len

(* Restoring closes a scope: what is bound reads as when the scope around it *)
(* was opened, and the other scopes stay.                                    *)
LEMMA RestoreCloses ==
    ASSUME NEW c, WellFormed(c), Len(c.rememberedPositions) > 2
    PROVE  LET d == Restore(c)
               n == Len(c.rememberedPositions) - 1
           IN  /\ WellFormed(d)
               /\ Len(d.rememberedPositions) = n
               /\ \A i \in 1 .. n : d.rememberedPositions[i] = c.rememberedPositions[i]
               /\ Len(d.restoreLinks) = c.rememberedPositions[n]
               /\ Reads(d.prefixMap) = ScopeAt(c, n)
               /\ \A i \in 1 .. n : ScopeAt(d, i) = ScopeAt(c, i)
               /\ \A p \in Prefix : isSetPrefix(c.prefixMap, p) => isSetPrefix(d.prefixMap, p)
<1> DEFINE d   == Restore(c)
           pos == c.rememberedPositions
           n   == Len(pos) - 1
           end == pos[n]
           new == d.rememberedPositions
           len == Len(c.restoreLinks)
<1>1. /\ c \in Context /\ len \in Nat
      /\ pos \in Seq(Nat) /\ c.restoreLinks \in Seq(Link)
      /\ Len(pos) \in Nat
      /\ \A i \in 1 .. Len(pos) : pos[i] \in 0 .. len
      /\ \A i \in 1 .. Len(pos) : \A j \in 1 .. i : pos[j] <= pos[i]
    BY WellFormedPositions
<1>2. n \in Nat /\ n >= 2 /\ n \in 1 .. Len(pos) /\ end \in 0 .. len
    <2>1. n \in 1 .. Len(pos) /\ n >= 2
        BY <1>1
    <2> QED BY <1>1, <2>1
<1>3. /\ d.prefixMap = UndoneTo(c, end)
      /\ d.restoreLinks = SubSeq(c.restoreLinks, 1, end)
      /\ new = SubSeq(pos, 1, n)
    BY DEF Restore
<1>4. Len(new) = n /\ \A i \in 1 .. n : new[i] = pos[i]
    BY <1>1, <1>2, <1>3, SubSeqProperties
<1>5. Len(d.restoreLinks) = end
    BY <1>1, <1>2, <1>3, SubSeqProperties
<1>6. d \in Context
    BY <1>1, <1>2, RestoreType
<1> HIDE DEF d
<1>7. \A i \in 1 .. n : pos[i] \in 0 .. end
    <2> TAKE i \in 1 .. n
    <2>1. i \in 1 .. Len(pos)
        BY <1>1, <1>2
    <2>2. pos[i] \in 0 .. len /\ pos[i] <= pos[n]
        BY <1>1, <1>2, <2>1
    <2> QED BY <1>2, <2>2
<1>8. \A i \in 1 .. n : ScopeAt(d, i) = ScopeAt(c, i)
    <2> TAKE i \in 1 .. n
    <2>1. UndoneTo(d, pos[i]) = UndoneTo(c, pos[i])
        BY <1>1, <1>2, <1>3, <1>6, <1>7, RestoreKeepsScopes
    <2> QED BY <1>4, <2>1 DEF ScopeAt
<1>9. WellFormed(d)
    <2> HIDE DEF pos, end, n
    <2>1. \A i \in 1 .. n : new[i] <= end
        BY <1>4, <1>7
    <2>2. \A i \in 1 .. n : \A j \in 1 .. i : i \in 1 .. Len(pos) /\ j \in 1 .. n
        BY <1>1, <1>2
    <2>3. \A i \in 1 .. n : \A j \in 1 .. i : new[j] <= new[i]
        BY <1>1, <1>4, <2>2
    <2> QED BY <1>2, <1>4, <1>5, <1>6, <2>1, <2>3 DEF WellFormed
<1>10. \A p \in Prefix : isSetPrefix(c.prefixMap, p) => isSetPrefix(d.prefixMap, p)
    <2> TAKE p \in Prefix
    <2>1. SUFFICES ASSUME LinksAfter(c, end, p) # {}
                   PROVE  c.restoreLinks[Earliest(LinksAfter(c, end, p))].ns \in Namespace
        BY <1>3, <2>1, NSMapAssumption DEF UndoneTo, isSetPrefix
    <2>2. LinksAfter(c, end, p) \in SUBSET (1 .. len)
        BY <1>1, <1>2, LinksAfterType
    <2>3. LinksAfter(c, end, p) \in SUBSET Nat
        BY <1>1, <2>2
    <2>4. Earliest(LinksAfter(c, end, p)) \in 1 .. len
        BY <2>1, <2>2, <2>3, EarliestIsLeast
    <2>5. c.restoreLinks[Earliest(LinksAfter(c, end, p))] \in Link
        BY <1>1, <2>4, ElementOfSeq
    <2> QED BY <2>5 DEF Link
<1>11. Reads(d.prefixMap) = ScopeAt(c, n)
    BY <1>3 DEF ScopeAt
<1> QED BY <1>4, <1>5, <1>8, <1>9, <1>10, <1>11 DEF d

LEMMA NewContextWellFormed ==
    /\ WellFormed(NewContext)
    /\ Len(NewContext.rememberedPositions) = 2
    /\ LastPosition(NewContext) = Len(NewContext.restoreLinks)
    /\ isSetPrefix(NewContext.prefixMap, NoPrefix)
    /\ ScopeAt(NewContext, 2) = [p \in Prefix |-> NoNamespace]
<1> DEFINE c == NewContext
<1>1. /\ c.prefixMap = [EmptyPrefixMap EXCEPT ![NoPrefix] = NoNamespace]
      /\ c.restoreLinks = <<[prefix |-> NoPrefix, ns |-> NoNamespace]>>
      /\ c.rememberedPositions = <<0, 1>>
    BY NewContextValue
<1>2. c.prefixMap \in PrefixMap
    BY <1>1, NSMapAssumption DEF EmptyPrefixMap, PrefixMap
<1>3. c \in Context
    BY <1>2, NewContextValue, NSMapAssumption DEF Context, Link
<1> HIDE DEF c
<1>4. /\ Len(c.restoreLinks) = 1
      /\ Len(c.rememberedPositions) = 2
      /\ c.rememberedPositions[1] = 0
      /\ c.rememberedPositions[2] = 1
    BY <1>1
<1>5. WellFormed(c)
    <2>1. \A i \in 1 .. 2 : i = 1 \/ i = 2
        OBVIOUS
    <2>2. \A i \in 1 .. 2 : c.rememberedPositions[i] <= 1
        BY <1>4, <2>1
    <2>3. \A i \in 1 .. 2 : \A j \in 1 .. i : c.rememberedPositions[j] <= c.rememberedPositions[i]
        BY <1>4, <2>1
    <2> QED BY <1>3, <1>4, <2>2, <2>3 DEF WellFormed
<1>6. LastPosition(c) = 1
    BY <1>1, <1>4 DEF LastPosition
<1>7. isSetPrefix(c.prefixMap, NoPrefix)
    BY <1>1, NSMapAssumption DEF isSetPrefix, EmptyPrefixMap
<1>8. Reads(c.prefixMap) = [p \in Prefix |-> NoNamespace]
    BY <1>1, NSMapAssumption DEF Reads, isSetPrefix, EmptyPrefixMap
<1>9. ScopeAt(c, 2) = Reads(c.prefixMap)
    BY <1>3, <1>4, UndoneToEnd DEF ScopeAt
<1> QED BY <1>4, <1>5, <1>6, <1>7, <1>8, <1>9 DEF c

-----------------------------------------------------------------------------
(* Declarations are read one by one *)

LEMMA DeclaredUpToSteps ==
    ASSUME NEW c, NEW ls, Len(ls) \in Nat
    PROVE  /\ declaredUpTo(c, ls)[0] = c
           /\ \A i \in 1 .. Len(ls) :
                  declaredUpTo(c, ls)[i] = declare(declaredUpTo(c, ls)[i - 1], ls[i])
<1> DEFINE Step(g, i) == IF i = 0 THEN c ELSE declare(g[i - 1], ls[i])
           Defined == {n \in Nat : \E g : g = [i \in 0 .. n |-> Step(g, i)]}
           u == declaredUpTo(c, ls)
<1>1. \A g, h, i : (i = 0 \/ g[i - 1] = h[i - 1]) => Step(g, i) = Step(h, i)
    OBVIOUS
<1>2. u = CHOOSE g : g = [i \in 0 .. Len(ls) |-> Step(g, i)]
    BY DEF declaredUpTo
<1>3. \A g : /\ Step(g, 0) = c
             /\ \A i \in 1 .. Len(ls) : Step(g, i) = declare(g[i - 1], ls[i])
    OBVIOUS
<1> HIDE DEF Step, u
<1>4. 0 \in Defined
    <2> DEFINE g == [i \in 0 .. 0 |-> Step(<< >>, 0)]
    <2>1. \A i \in 0 .. 0 : Step(g, i) = Step(<< >>, 0)
        BY <1>1
    <2>2. g = [i \in 0 .. 0 |-> Step(g, i)]
        BY <2>1
    <2> QED BY <2>2
<1>5. ASSUME NEW n \in Nat, n \in Defined
      PROVE  n + 1 \in Defined
    <2>1. PICK g : g = [i \in 0 .. n |-> Step(g, i)]
        BY <1>5
    <2> DEFINE h == [i \in 0 .. n + 1 |-> IF i <= n THEN g[i] ELSE Step(g, i)]
    <2>2. ASSUME NEW i \in 0 .. n + 1
          PROVE  h[i] = Step(h, i)
        <3>1. i = 0 \/ h[i - 1] = g[i - 1]
            OBVIOUS
        <3>2. Step(h, i) = Step(g, i)
            BY <1>1, <3>1
        <3>3. h[i] = Step(g, i)
            <4>1. \A j \in 0 .. n : g[j] = Step(g, j)
                BY <2>1
            <4> QED BY <4>1
        <3> QED BY <3>2, <3>3
    <2>3. h = [i \in 0 .. n + 1 |-> Step(h, i)]
        BY <2>2
    <2> HIDE DEF h
    <2> QED BY <2>3
<1>6. Len(ls) \in Defined
    <2> HIDE DEF Defined
    <2> QED BY <1>4, <1>5, SetInduction
<1>7. u = [i \in 0 .. Len(ls) |-> Step(u, i)]
    BY <1>2, <1>6
<1>8. \A i \in 0 .. Len(ls) : u[i] = Step(u, i)
    BY <1>7
<1>9. u[0] = c
    BY <1>3, <1>8
<1>10. \A i \in 1 .. Len(ls) : u[i] = declare(u[i - 1], ls[i])
    BY <1>3, <1>8
<1> QED BY <1>9, <1>10 DEF u

(* The same positions, and the same bindings at each. *)
SameScopes(c, d) ==
    /\ d.rememberedPositions = c.rememberedPositions
    /\ \A i \in 1 .. Len(c.rememberedPositions) : ScopeAt(d, i) = ScopeAt(c, i)

LEMMA DeclareBinds ==
    ASSUME NEW c, WellFormed(c), NEW l \in Link
    PROVE  /\ WellFormed(declare(c, l))
           /\ SameScopes(c, declare(c, l))
           /\ declare(c, l).prefixMap = [c.prefixMap EXCEPT ![l.prefix] = l.ns]
           /\ Len(declare(c, l).restoreLinks) = Len(c.restoreLinks) + 1
           /\ \A i \in 1 .. Len(c.restoreLinks) :
                  declare(c, l).restoreLinks[i] = c.restoreLinks[i]
           /\ declare(c, l).restoreLinks[Len(c.restoreLinks) + 1].prefix = l.prefix
<1> DEFINE d == AddNamespace(c, l.prefix, l.ns, TRUE)
<1>1. l.prefix \in Prefix /\ l.ns \in Namespace
    BY DEF Link
<1>2. /\ WellFormed(d)
      /\ d.rememberedPositions = c.rememberedPositions
      /\ d.prefixMap = [c.prefixMap EXCEPT ![l.prefix] = l.ns]
      /\ Len(d.restoreLinks) = Len(c.restoreLinks) + 1
      /\ \A i \in 1 .. Len(c.restoreLinks) : d.restoreLinks[i] = c.restoreLinks[i]
      /\ d.restoreLinks[Len(c.restoreLinks) + 1].prefix = l.prefix
      /\ \A i \in 1 .. Len(c.rememberedPositions) : ScopeAt(d, i) = ScopeAt(c, i)
    BY <1>1, AddNamespaceBinds
<1>3. d = declare(c, l)
    BY DEF declare
<1> HIDE DEF d
<1> QED BY <1>2, <1>3 DEF SameScopes

(* The log of d is that of c and links of the first n prefixes of ls. *)
LogsMore(c, d, ls, n) ==
    LET len == Len(c.restoreLinks)
    IN  /\ Len(d.restoreLinks) = len + n
        /\ \A i \in 1 .. len : d.restoreLinks[i] = c.restoreLinks[i]
        /\ \A i \in 1 .. n : d.restoreLinks[len + i].prefix = ls[i].prefix

(* Links with the bindings of a map, declared one by one, bind their prefixes *)
(* as the map does, and no others, and the log names them.                    *)
LEMMA DeclaredBinds ==
    ASSUME NEW c, WellFormed(c), NEW ls \in Seq(Link), NEW map,
           \A i \in 1 .. Len(ls) : ls[i].ns = map[ls[i].prefix]
    PROVE  LET d == declaredUpTo(c, ls)[Len(ls)]
           IN  /\ WellFormed(d)
               /\ SameScopes(c, d)
               /\ LogsMore(c, d, ls, Len(ls))
               /\ \A p \in Prefix :
                      d.prefixMap[p] = IF \E i \in 1 .. Len(ls) : ls[i].prefix = p
                                       THEN map[p] ELSE c.prefixMap[p]
<1> DEFINE u == declaredUpTo(c, ls)
           Good(n) == /\ WellFormed(u[n])
                      /\ SameScopes(c, u[n])
                      /\ LogsMore(c, u[n], ls, n)
                      /\ \A p \in Prefix :
                             u[n].prefixMap[p] = IF \E i \in 1 .. n : ls[i].prefix = p
                                                 THEN map[p] ELSE c.prefixMap[p]
           S == {n \in Nat : n <= Len(ls) => Good(n)}
<1>1. Len(ls) \in Nat /\ \A i \in 1 .. Len(ls) : ls[i] \in Link
    BY LenProperties, ElementOfSeq
<1>2. /\ u[0] = c
      /\ \A i \in 1 .. Len(ls) : u[i] = declare(u[i - 1], ls[i])
    BY <1>1, DeclaredUpToSteps
<1> HIDE DEF u
<1>3. 0 \in S
    <2>1. Len(c.restoreLinks) \in Nat
        BY WellFormedPositions
    <2> QED BY <1>2, <2>1 DEF SameScopes, LogsMore
<1>4. ASSUME NEW n \in Nat, n \in S
      PROVE  n + 1 \in S
    <2>1. SUFFICES ASSUME n + 1 <= Len(ls)
                   PROVE  Good(n + 1)
        OBVIOUS
    <2>2. Good(n)
        BY <1>1, <1>4, <2>1
    <2>3. n + 1 \in 1 .. Len(ls) /\ n + 1 - 1 = n
        BY <1>1, <2>1
    <2> DEFINE l == ls[n + 1]
               d == u[n + 1]
    <2>4. d = declare(u[n], l)
        BY <1>2, <2>3
    <2>5. l.prefix \in Prefix /\ l.ns \in Namespace /\ l.ns = map[l.prefix]
        BY <1>1, <2>3 DEF Link
    <2> HIDE DEF l, d
    <2>6. /\ WellFormed(d)
          /\ SameScopes(u[n], d)
          /\ d.prefixMap = [u[n].prefixMap EXCEPT ![l.prefix] = l.ns]
          /\ Len(d.restoreLinks) = Len(u[n].restoreLinks) + 1
          /\ \A i \in 1 .. Len(u[n].restoreLinks) : d.restoreLinks[i] = u[n].restoreLinks[i]
          /\ d.restoreLinks[Len(u[n].restoreLinks) + 1].prefix = l.prefix
        <3>1. l \in Link
            BY <1>1, <2>3 DEF l
        <3> QED BY <2>2, <2>4, <3>1, DeclareBinds
    <2>7. SameScopes(c, d)
        BY <2>2, <2>6 DEF SameScopes
    <2>8. ASSUME NEW p \in Prefix
          PROVE  d.prefixMap[p] = IF \E i \in 1 .. n + 1 : ls[i].prefix = p
                                  THEN map[p] ELSE c.prefixMap[p]
        <3>1. u[n].prefixMap \in PrefixMap
            BY <2>2 DEF WellFormed, Context
        <3>2. d.prefixMap[p] = IF p = l.prefix THEN l.ns ELSE u[n].prefixMap[p]
            BY <2>6, <3>1 DEF PrefixMap
        <3>3. CASE p = l.prefix
            BY <2>5, <3>2, <3>3 DEF l
        <3>4. CASE p # l.prefix
            <4>1. (\E i \in 1 .. n + 1 : ls[i].prefix = p) <=> (\E i \in 1 .. n : ls[i].prefix = p)
                BY <3>4 DEF l
            <4> QED BY <2>2, <3>2, <3>4, <4>1
        <3> QED BY <3>3, <3>4
    <2>9. LogsMore(c, d, ls, n + 1)
        <3> DEFINE len == Len(c.restoreLinks)
                   old == u[n].restoreLinks
        <3>1. len \in Nat
            BY WellFormedPositions
        <3>2. /\ Len(old) = len + n
              /\ \A i \in 1 .. len : old[i] = c.restoreLinks[i]
              /\ \A i \in 1 .. n : old[len + i].prefix = ls[i].prefix
            BY <2>2 DEF LogsMore
        <3> HIDE DEF len, old
        <3>3. Len(d.restoreLinks) = len + (n + 1)
            BY <2>6, <3>1, <3>2 DEF old
        <3>4. \A i \in 1 .. len : d.restoreLinks[i] = c.restoreLinks[i]
            <4>1. \A i \in 1 .. len : i \in 1 .. len + n
                BY <3>1
            <4> QED BY <2>6, <3>2, <4>1 DEF old
        <3>5. \A i \in 1 .. n + 1 : d.restoreLinks[len + i].prefix = ls[i].prefix
            <4> TAKE i \in 1 .. n + 1
            <4>1. CASE i = n + 1
                BY <2>6, <3>1, <3>2, <4>1 DEF old, l
            <4>2. CASE i # n + 1
                <5>1. i \in 1 .. n /\ len + i \in 1 .. len + n
                    BY <3>1, <4>2
                <5>2. d.restoreLinks[len + i] = old[len + i]
                    BY <2>6, <3>2, <5>1 DEF old
                <5> QED BY <3>2, <5>1, <5>2
            <4> QED BY <4>1, <4>2
        <3> QED BY <3>3, <3>4, <3>5 DEF LogsMore, len
    <2> QED BY <2>6, <2>7, <2>8, <2>9 DEF d
<1>5. Len(ls) \in S
    <2> HIDE DEF S
    <2> QED BY <1>1, <1>3, <1>4, SetInduction
<1> QED BY <1>1, <1>5 DEF u
=============================================================================
