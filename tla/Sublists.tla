------------------------------ MODULE Sublists ------------------------------
(***************************************************************************)
(* What loops over a vector leave: the entries that belong to a set, in    *)
(* their order, and the sum of the entries.                                *)
(***************************************************************************)
EXTENDS Integers, Sequences

(* What is kept of the entries up to each. *)
KeptUpTo(s, S) ==
    LET upTo[i \in 0 .. Len(s)] ==
            IF i = 0 THEN << >>
            ELSE IF s[i] \in S THEN Append(upTo[i - 1], s[i])
            ELSE upTo[i - 1]
    IN  upTo

Kept(s, S) == KeptUpTo(s, S)[Len(s)]

(* The sum of the entries up to each. *)
SumUpTo(s) ==
    LET upTo[i \in 0 .. Len(s)] == IF i = 0 THEN 0 ELSE upTo[i - 1] + s[i]
    IN  upTo
=============================================================================
