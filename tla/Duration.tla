------------------------------ MODULE Duration ------------------------------
(***************************************************************************)
(* Class Duration (Calendar.cpp:1063): a period of years, months, days and *)
(* time, each present or not.  Its text is a sequence of items, a number   *)
(* and the letter behind it, with the letter T in front of the time; M     *)
(* stands for months in front of the T and for minutes behind it.          *)
(***************************************************************************)
EXTENDS Integers, SequencesExt

CONSTANTS None, Amount   \* the numbers a client sets

DurationAssumption == None \notin Int /\ Amount \subseteq Nat

VARIABLE dur

vars == dur

Unit == {"years", "months", "days", "hours", "minutes", "seconds", "fracsec"}

Duration == [neg : BOOLEAN, of : [Unit -> Nat \cup {None}]]

TypeOK == dur \in Duration

NewDuration == [neg |-> FALSE, of |-> [u \in Unit |-> None]]

has(d, u) == d.of[u] # None

-----------------------------------------------------------------------------
(* Printing *)

T == [letter |-> "T", n |-> None, frac |-> None]

Item(d, u, letter) ==
    IF ~has(d, u) THEN <<>>
    ELSE <<[letter |-> letter, n |-> d.of[u],
            frac |-> IF u = "seconds" THEN d.of["fracsec"] ELSE None]>>

hasTime(d) == \E u \in {"hours", "minutes", "seconds"} : has(d, u)

(* A fraction is printed behind seconds only. *)
toString(d) ==
    [neg |-> d.neg,
     items |-> Item(d, "years", "Y") \o Item(d, "months", "M") \o Item(d, "days", "D")
               \o (IF hasTime(d)
                   THEN <<T>> \o Item(d, "hours", "H") \o Item(d, "minutes", "M") \o Item(d, "seconds", "S")
                   ELSE <<>>)]

-----------------------------------------------------------------------------
(* Reading *)

(* What is read so far, what is left of the text, and whether getInt threw.  *)
Has(rest, letter) == \E i \in DOMAIN rest : rest[i].letter = letter

(* All that is in front of the letter is taken for its number: getInt throws *)
(* if that is more than digits.                                              *)
Take(r, letter, u) ==
    IF r.threw \/ ~Has(r.rest, letter) THEN r
    ELSE IF Head(r.rest).letter = letter
    THEN [r EXCEPT !.of[u] = Head(r.rest).n, !.rest = Tail(@)]
    ELSE [r EXCEPT !.threw = TRUE]

AtTime(r) == r.rest # <<>> /\ Head(r.rest).letter = "T"

TakeDate(r, letter, u) == IF AtTime(r) THEN r ELSE Take(r, letter, u)

(* Mutant: looks for days before it looks for months. *)
readDateDaysFirst(items) ==
    LET r == [of |-> NewDuration.of, rest |-> items, threw |-> FALSE]
    IN  TakeDate(TakeDate(TakeDate(r, "Y", "years"), "D", "days"), "M", "months")

readDate(items) ==
    LET r == [of |-> NewDuration.of, rest |-> items, threw |-> FALSE]
    IN  TakeDate(TakeDate(TakeDate(r, "Y", "years"), "M", "months"), "D", "days")

(* The fraction is cut out before the seconds are read. *)
TakeSeconds(r) ==
    LET s == Take(r, "S", "seconds")
    IN  IF s.threw \/ s.rest = r.rest \/ Head(r.rest).frac = None THEN s
        ELSE [s EXCEPT !.of["fracsec"] = Head(r.rest).frac]

readTime(r) == TakeSeconds(Take(Take(r, "H", "hours"), "M", "minutes"))

(* The constructor: what it reads and whether it threw. *)
fromString(text) ==
    LET d == readDate(text.items)
        t == readTime([d EXCEPT !.rest = Tail(@)])
    IN  IF d.threw \/ d.rest = <<>> THEN [dur |-> [neg |-> text.neg, of |-> d.of], threw |-> d.threw]
        ELSE [dur |-> [neg |-> text.neg, of |-> t.of],
              threw |-> ~AtTime(d) \/ Len(d.rest) = 1 \/ t.threw]

-----------------------------------------------------------------------------
Init == dur = NewDuration

Set == \E u \in Unit : \E n \in Amount : dur' = [dur EXCEPT !.of[u] = n]

setNeg == \E n \in BOOLEAN : dur' = [dur EXCEPT !.neg = n]

(* A client reads a text back, with items left out. *)
Read ==
    \E keep \in SUBSET Unit :
        LET r == fromString(toString([dur EXCEPT !.of = [u \in Unit |-> IF u \in keep THEN @[u] ELSE None]]))
        IN  ~r.threw /\ dur' = r.dur

Next == Set \/ setNeg \/ Read

Spec == Init /\ [][Next]_vars

-----------------------------------------------------------------------------
(* The minutes of a duration with days and no months are taken for months:   *)
(* "1DT5" is no number (Calendar.cpp:1092).                                  *)
MinutesLookLikeMonths == has(dur, "days") /\ ~has(dur, "months") /\ has(dur, "minutes")

(* What toString prints the constructor reads back, without a fraction that  *)
(* has no seconds, unless minutes look like months, and then it throws: it   *)
(* never takes minutes for months (Calendar.cpp:1068).                       *)
TextsAreReadBack ==
    LET r == fromString(toString(dur))
        d == IF has(dur, "seconds") THEN dur ELSE [dur EXCEPT !.of["fracsec"] = None]
    IN  IF MinutesLookLikeMonths THEN r.threw ELSE ~r.threw /\ r.dur = d
=============================================================================
