-------------------------------- MODULE Glob --------------------------------
(***************************************************************************)
(* Matching a name with a pattern that has stars (XmlObjectXpaths.cpp).    *)
(* Texts are sequences of characters.                                      *)
(***************************************************************************)
EXTENDS Integers, SequencesExt, FiniteSets

CONSTANT Star

Stars(pattern) == SetToSortSeq({i \in DOMAIN pattern : pattern[i] = Star}, <)

(* The parts of a pattern between its stars: one more than it has stars. *)
tokenize(pattern) ==
    LET ends == <<0>> \o Stars(pattern) \o <<Len(pattern) + 1>>
    IN  [i \in 1 .. Len(ends) - 1 |-> SubSeq(pattern, ends[i] + 1, ends[i + 1] - 1)]

(* Where a text has a part, the number of characters before it. *)
Occurrences(text, part) ==
    {k \in 0 .. Len(text) - Len(part) : SubSeq(text, k + 1, k + Len(part)) = part}

(* std::string::find, -1 for npos. *)
find(text, part) ==
    IF Occurrences(text, part) = {} THEN -1
    ELSE CHOOSE k \in Occurrences(text, part) : \A l \in Occurrences(text, part) : k <= l

Behind(text, part) == SubSeq(text, find(text, part) + Len(part) + 1, Len(text))

(* Each part is taken where it comes first after the ones before it; what   *)
(* is left at the end must be for a last star.                              *)
matchQNameString(name, pattern) ==
    LET tab  == tokenize(pattern)
        step(left, part) ==
            [found |-> left.found /\ find(left.text, part) >= 0, text |-> Behind(left.text, part)]
        last == FoldLeft(step, [found |-> TRUE, text |-> name], tab)
    IN  IF Len(tab) = 1 THEN tab[1] = name
        ELSE /\ find(name, tab[1]) = 0
             /\ last.found
             /\ last.text = << >> \/ Last(tab) = << >>

-----------------------------------------------------------------------------
(* What a pattern means: a star stands for any text, every other character *)
(* for itself.                                                             *)
RECURSIVE Matches(_, _)
Matches(name, pattern) ==
    CASE pattern = << >> -> name = << >>
      [] pattern # << >> /\ pattern[1] = Star ->
            \E k \in 0 .. Len(name) : Matches(SubSeq(name, k + 1, Len(name)), Tail(pattern))
      [] OTHER -> name # << >> /\ name[1] = pattern[1] /\ Matches(Tail(name), Tail(pattern))
=============================================================================
