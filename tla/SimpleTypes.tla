----------------------------- MODULE SimpleTypes -----------------------------
(***************************************************************************)
(* The numbers of the simple types: an object of class XmlDecimal or of    *)
(* class XmlInteger (XmlTypesGen.xcpp) keeps a text, and its getters and   *)
(* setters convert between the text and integers of several widths.  The   *)
(* library is built with GMP, whose integers are unbounded, or without     *)
(* (CoreTypes.h).  Texts are those of module Texts.                        *)
(***************************************************************************)
EXTENDS Texts

CONSTANTS
    Builds,     \* "gmp", and "plain" for the build without it
    Character,  \* the characters of the texts that are set
    MaxText,    \* their length
    LongMax, IntMax, ShortMax, ByteMax, \* the largest number of each width
    NULL, Thrown    \* no number, and an exception

WidthsAssumption ==
    /\ Builds \subseteq {"gmp", "plain"}
    /\ {LongMax, IntMax, ShortMax, ByteMax, MaxText} \subseteq Nat
    /\ ByteMax < ShortMax /\ ShortMax < IntMax /\ IntMax < LongMax

VARIABLES
    build, class,
    content,    \* the text of the object
    put,        \* the number that the last call of a setter was given, NULL for a text
    refused     \* whether it threw

vars == <<build, class, content, put, refused>>

Signed(max) == -(max + 1) .. max

-----------------------------------------------------------------------------

Numeral(c) == CHOOSE d \in 0 .. 9 : c = <<"0", "1", "2", "3", "4", "5", "6", "7", "8", "9">>[d + 1]

(* The number that a text of an optional sign and digits stands for. *)
NumberOfBase(base, v) ==
    LET n == FoldLeft(LAMBDA x, c : base * x + Numeral(c), 0, unsigned(v))
    IN  IF v[1] = "-" THEN -n ELSE n

Number(v) == NumberOfBase(10, v)

IsNumber(v) == v # << >> /\ unsigned(v) # << >> /\ areDigits(unsigned(v))

(* Mutant: the sign of a negative number is lost. *)
mpzToStringUnsigned(n) ==
    LET c(d) == <<"0", "1", "2", "3", "4", "5", "6", "7", "8", "9">>[d + 1]
        text[k \in Nat] == IF k < 10 THEN <<c(k)>> ELSE Append(text[k \div 10], c(k % 10))
    IN  text[IF n < 0 THEN -n ELSE n]

mpzToString(n) ==
    LET c(d) == <<"0", "1", "2", "3", "4", "5", "6", "7", "8", "9">>[d + 1]
        text[k \in Nat] == IF k < 10 THEN <<c(k)>> ELSE Append(text[k \div 10], c(k % 10))
    IN  IF n < 0 THEN <<"-">> \o text[-n] ELSE text[n]

(* The base in which GMP reads an integer: 0 stands in front of octals. *)
Base(v) == IF unsigned(v)[1] = "0" THEN 8 ELSE 10

(* What may come of reading an integer.  GMP passes over white space and   *)
(* throws where there is a plus, no digit or one that the base has not.  A *)
(* stream reads decimals only; it stops at the limits of long long, and    *)
(* stores no number, or 0, where there is no digit.                        *)
stringToMpz(v) ==
    LET black    == SelectSeq(v, LAMBDA c : ~isWhite(c))
        isRead   == /\ IsNumber(black) /\ black[1] # "+"
                    /\ \A d \in Range(unsigned(black)) : Numeral(d) < Base(black)
    IN  CASE build = "gmp" ->
                {IF isRead THEN NumberOfBase(Base(black), black) ELSE Thrown}
          [] build = "plain" ->
                IF IsNumber(v)
                THEN {Max({Min({Number(v), LongMax}), -(LongMax + 1)})}
                ELSE Signed(LongMax)

(* A decimal is only read or refused: its value is that of the library's *)
(* numbers, which are decimal.  GMP wants a digit first or after a dot   *)
(* that is first.                                                        *)
MpfIsRead(v) ==
    LET black == SelectSeq(v, LAMBDA c : ~isWhite(c))
        start == IF black # << >> /\ black[1] = "-" THEN Tail(black) ELSE black
    IN  build = "gmp" =>
            /\ start # << >>
            /\ \/ start[1] \in Digit
               \/ start[1] = "." /\ Len(start) > 1 /\ start[2] \in Digit

getMpzValue(text) ==
    IF checkInteger(collapse(text)) THEN stringToMpz(collapse(text)) ELSE {Thrown}

MpfThrows(text) == ~(checkDecimal(collapse(text)) /\ MpfIsRead(collapse(text)))

(* The plain build calls every number an int and keeps its lower bits. *)
mpzFitsToInt(v) == build = "gmp" => v \in Signed(IntMax)
mpzToInt(v) ==
    IF v \in Signed(IntMax) THEN v
    ELSE ((v + IntMax + 1) % (2 * (IntMax + 1))) - (IntMax + 1)

getIntValue(text) ==
    {IF v # Thrown /\ mpzFitsToInt(v) THEN mpzToInt(v) ELSE Thrown : v \in getMpzValue(text)}

getShortValue(text) ==
    {IF v # Thrown /\ v \in Signed(ShortMax) THEN v ELSE Thrown : v \in getIntValue(text)}

getByteValue(text) ==
    {IF v # Thrown /\ v \in 0 .. ByteMax THEN v ELSE Thrown : v \in getIntValue(text)}

-----------------------------------------------------------------------------

Init ==
    /\ build \in Builds
    /\ class \in {"XmlDecimal", "XmlInteger"}
    /\ content = << >> /\ put = NULL /\ refused = FALSE

(* The text is stored, and stays when it turns out to be no number. *)
SetSimpleContent ==
    /\ \E text \in SeqOf(Character, MaxText) :
        /\ content' = text /\ put' = NULL
        /\ refused' = CASE class = "XmlInteger" -> Thrown \in getMpzValue(text)
                        [] class = "XmlDecimal" -> MpfThrows(text)
    /\ UNCHANGED <<build, class>>

(* setMpzValue, setLongValue, setIntValue, setShortValue, setByteValue: the *)
(* narrow ones widen.  No text of theirs is read again.                     *)
SetNumber ==
    /\ \E n \in Signed(LongMax) : content' = mpzToString(n) /\ put' = n
    /\ refused' = FALSE
    /\ UNCHANGED <<build, class>>

Next == SetSimpleContent \/ SetNumber

Spec == Init /\ [][Next]_vars

-----------------------------------------------------------------------------

(* A number that a getter returns is the one that the text stands for: none  *)
(* is cut off or made up on the way, whatever the width: the getters of      *)
(* XmlDecimal throw instead.  Excepted are texts with a leading zero in the  *)
(* build with GMP, which stand for a decimal in XML Schema ("013" for 13)    *)
(* and are read as an octal (11), or refused where they are none ("08").     *)
NumbersAreExact ==
    LET v == collapse(content)
        isOctal == build = "gmp" /\ IsNumber(v) /\ unsigned(v)[1] = "0"
    IN  \A n \in UNION {getMpzValue(content), getIntValue(content),
                        getShortValue(content), getByteValue(content)} :
            n # Thrown => /\ IsNumber(v)
                          /\ n = IF isOctal THEN NumberOfBase(8, v) ELSE Number(v)

(* An integer without a plus or a leading zero is read, and not refused.     *)
PlainNumbersAreRead ==
    LET v == collapse(content)
    IN  IsNumber(v) /\ v[1] # "+" /\ (unsigned(v)[1] = "0" => Len(unsigned(v)) = 1) =>
            Thrown \notin getMpzValue(content)

(* A number that a setter was given is read back by every getter whose width *)
(* holds it, and refused by every other.                                     *)
SetNumbersAreRead ==
    put # NULL =>
        LET Reads(range) == {IF put \in range THEN put ELSE Thrown}
        IN  /\ getMpzValue(content) = {put}
            /\ getIntValue(content) = Reads(Signed(IntMax))
            /\ getShortValue(content) = Reads(Signed(ShortMax))
            /\ getByteValue(content) = Reads(0 .. ByteMax)

(* Although a text that setSimpleContent refuses is stored before it is      *)
(* looked at, nobody reads a number from it.                                 *)
RefusedTextsAreNotRead == refused => getMpzValue(content) = {Thrown}
=============================================================================
