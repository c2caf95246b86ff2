------------------------------- MODULE Texts -------------------------------
(***************************************************************************)
(* The functions on texts of class TextUtils (TextUtils.cpp).  A text is a *)
(* sequence of characters, which are strings of length one; bytes and the  *)
(* characters of base64 are numbers.                                       *)
(***************************************************************************)
EXTENDS Integers, SequencesExt, FiniteSetsExt

Digit == {"0", "1", "2", "3", "4", "5", "6", "7", "8", "9"}

isWhite(c) == c \in {"\n", " ", "\t"}

(* The text without the white space at its ends. *)
collapse(str) ==
    LET black == {i \in DOMAIN str : ~isWhite(str[i])}
    IN  IF black = {} THEN << >> ELSE SubSeq(str, Min(black), Max(black))

(* Its digits, where a text begins with a sign. *)
unsigned(num) == IF num # << >> /\ num[1] \in {"-", "+"} THEN Tail(num) ELSE num

areDigits(d) == \A i \in DOMAIN d : d[i] \in Digit

(* A sign alone passes. *)
checkInteger(num) == num # << >> /\ areDigits(unsigned(num))

(* So do a dot alone, and a sign and a dot. *)
checkDecimal(num) ==
    /\ num # << >>
    /\ areDigits(SelectSeq(unsigned(num), LAMBDA c : c # "."))
    /\ Len(SelectSeq(unsigned(num), LAMBDA c : c = ".")) <= 1

(* Four digits, two and two: not that they are a date. *)
checkDate(date) ==
    /\ Len(date) = 10
    /\ areDigits(SubSeq(date, 1, 4)) /\ areDigits(SubSeq(date, 6, 7)) /\ areDigits(SubSeq(date, 9, 10))
    /\ date[5] = "-" /\ date[8] = "-"

-----------------------------------------------------------------------------
(* Base64.  A character stands for 0 to 63; Pad is '=', any other number is *)
(* a character that base64 has not.                                         *)

Pad == 64

(* What boost's transform_width does: the bits of the numbers of one width, *)
(* the most significant first, in numbers of another.                       *)
regroup(s, from, to) ==
    LET bit(i)  == (s[(i \div from) + 1] \div 2 ^ (from - 1 - (i % from))) % 2
        count   == (Len(s) * from) \div to
        value(k) == FoldLeft(LAMBDA v, i : 2 * v + bit((k - 1) * to + i - 1), 0, [i \in 1 .. to |-> i])
    IN  [k \in 1 .. count |-> value(k)]

(* Mutant: one zero byte fills up, whatever is missing. *)
base64EncodePadsOnce(bytes) ==
    LET pads == (3 - (Len(bytes) % 3)) % 3
        str  == bytes \o [i \in 1 .. pads |-> 0]
        enc  == regroup(str, 8, 6)
    IN  [i \in DOMAIN enc |-> IF i = Len(enc) /\ pads > 0 THEN Pad ELSE enc[i]]

(* Zero bytes fill up to a multiple of three, and the characters that hold *)
(* nothing else become pads.                                               *)
base64Encode(bytes) ==
    LET pads == (3 - (Len(bytes) % 3)) % 3
        str  == bytes \o [i \in 1 .. pads |-> 0]
        enc  == regroup(str, 8, 6)
    IN  [i \in DOMAIN enc |-> IF i > Len(enc) - pads THEN Pad ELSE enc[i]]

_toCanolicalBase64(s) == SelectSeq(s, LAMBDA c : c <= Pad)

(* '0', which takes the place of a pad, stands for 52.  Only where the     *)
(* characters are four by four is what boost reads defined.                *)
base64Decode(text) ==
    LET what == _toCanolicalBase64(text)
        ends == IF Len(what) > 2 THEN {Len(what) - 1, Len(what)} ELSE {}
        pads == {i \in ends : what[i] = Pad}
        dec  == regroup([i \in DOMAIN what |-> IF i \in pads THEN 52 ELSE what[i]], 6, 8)
    IN  SubSeq(dec, 1, Len(dec) - Cardinality(pads))
=============================================================================
