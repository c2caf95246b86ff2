------------------------------ MODULE MCValues ------------------------------
(***************************************************************************)
(* The values of the simple types for TLC: a calendar, a duration, a sum   *)
(* of the two, the functions on texts and the numbers of a decimal or an   *)
(* integer.  They share no state: a behaviour is one of the parts, and the *)
(* other parts stay where they begin.                                      *)
(***************************************************************************)
EXTENDS Texts

CONSTANTS
    Sorts,               \* the parts that are run
    None, NULL, Refused  \* model values

VARIABLES
    part,
    cal, dateThrew,                 \* Calendar
    dur,                            \* Duration
    total, last, threw, sums,       \* CalendarSum
    text, bytes, place,             \* Texts
    build, class, content, put, refused \* SimpleTypes

-----------------------------------------------------------------------------
(* A year whose number has one digit, leap years, a year beyond 16 bits,   *)
(* months with 29 and 31 days, the last hour, minute and second the        *)
(* setters take, and offsets on both sides of zero.                        *)

MCNumber ==
    [p \in {"year", "month", "day", "hour", "minutes", "seconds", "fracsec"} |->
        CASE p = "year" -> {5, 2004, 2004 + 2 ^ 16}
          [] p = "month" -> {2, 13}
          [] p = "day" -> {9, 30}
          [] p = "hour" -> {24}
          [] p \in {"minutes", "seconds"} -> {60}
          [] p = "fracsec" -> {1000}]

MCText(year, month, day) ==
    [year |-> year, month |-> month, day |-> day, hour |-> 24, minutes |-> 60, seconds |-> 60, fracsec |-> 7]

MCTextNumber == {MCText(2004, 2, 29), MCText(2004, 12, 30), MCText(2003, 2, 30)}

C == INSTANCE Calendar WITH
        Number <- MCNumber, TextNumber <- MCTextNumber,
        GmtOffset <- {<<-5, -30>>, <<0, -30>>}, LocalOffset <- {<<2, 0>>}

D == INSTANCE Duration WITH Amount <- {0, 5}

-----------------------------------------------------------------------------
(* The ends of long and short months, of Februaries and of the year, with  *)
(* a time, without one and without a day.                                  *)

Dates == {<<2003, 1, 29>>, <<2003, 1, 31>>, <<2004, 2, 29>>, <<2003, 4, 30>>, <<2003, 12, 12>>, <<2003, 10, 31>>}

Cal(y, m, d, hour, frac) ==
    [year |-> y, month |-> m, day |-> d, hour |-> hour, minutes |-> hour, seconds |-> hour, fracsec |-> frac]

(* Half a second taken away leaves it on its day. *)
Midnight ==
    [year |-> 2003, month |-> 1, day |-> 29, hour |-> 0, minutes |-> 0, seconds |-> 0, fracsec |-> 600]

MCStart ==
    {Cal(d[1], d[2], d[3], hour, frac) : d \in Dates, hour \in {None, 20}, frac \in {None, 5}}
    \cup {Cal(d[1], d[2], None, None, None) : d \in Dates}
    \cup {Cal(2003, None, None, None, None), Cal(None, None, None, 20, None), Midnight}

MCDuration ==
    {[neg |-> FALSE, of |-> [years |-> y, months |-> m, days |-> d, hours |-> h,
                             minutes |-> None, seconds |-> None, fracsec |-> f]] :
        y \in {None, 1}, m \in {None, 1, 10, 25}, d \in {None, 2}, h \in {None, 33}, f \in {None, 500}}

S == INSTANCE CalendarSum WITH
        Start <- MCStart, Duration <- MCDuration, Leftover <- {0, 777}, MaxSums <- 1, cal <- total

-----------------------------------------------------------------------------
(* Every text and every sequence of bytes up to a length, and a place in   *)
(* the encoded bytes where white space is put.                             *)

MCCharacter == {"a", " ", "\t", "1", "-", "+", "."}
MCByte == {0, 1, 97, 128, 255}
MaxLength == 5

TextsInit == text = << >> /\ bytes = << >> /\ place = 0

TextsNext ==
    \/ /\ bytes = << >> /\ Len(text) < MaxLength
       /\ \E c \in MCCharacter : text' = Append(text, c)
       /\ UNCHANGED <<bytes, place>>
    \/ /\ text = << >> /\ Len(bytes) < MaxLength
       /\ \E b \in MCByte : bytes' = Append(bytes, b)
       /\ place' = 0
       /\ UNCHANGED text
    \/ /\ place < Len(base64Encode(bytes))
       /\ place' = place + 1
       /\ UNCHANGED <<text, bytes>>

(* The build with GMP; widths small enough that every number is tried. *)
N == INSTANCE SimpleTypes WITH
        Builds <- {"gmp"}, Character <- {"-", "+", ".", " ", "0", "1", "8"}, MaxText <- 3,
        LongMax <- 63, IntMax <- 31, ShortMax <- 15, ByteMax <- 9, Thrown <- Refused

ASSUME PartsAssumption ==
    /\ Sorts \subseteq {"calendar", "duration", "sum", "texts", "numbers"}
    /\ C!CalendarAssumption /\ D!DurationAssumption /\ N!WidthsAssumption

-----------------------------------------------------------------------------

calendarVars == <<cal, dateThrew>>
sumVars      == <<total, last, threw, sums>>
textVars     == <<text, bytes, place>>
numberVars   == <<build, class, content, put, refused>>
vars         == <<part, calendarVars, dur, sumVars, textVars, numberVars>>

Init ==
    /\ part \in Sorts
    /\ C!Init /\ D!Init /\ S!Init /\ TextsInit /\ N!Init
    /\ part # "sum" => total = Cal(2003, None, None, None, None)
    /\ part # "numbers" => class = "XmlInteger"

Next ==
    \/ part = "calendar" /\ C!Next /\ UNCHANGED <<part, dur, sumVars, textVars, numberVars>>
    \/ part = "duration" /\ D!Next /\ UNCHANGED <<part, calendarVars, sumVars, textVars, numberVars>>
    \/ part = "sum" /\ S!Next /\ UNCHANGED <<part, calendarVars, dur, textVars, numberVars>>
    \/ part = "texts" /\ TextsNext /\ UNCHANGED <<part, calendarVars, dur, sumVars, numberVars>>
    \/ part = "numbers" /\ N!Next /\ UNCHANGED <<part, calendarVars, dur, sumVars, textVars>>

Spec == Init /\ [][Next]_vars

-----------------------------------------------------------------------------
(* Whatever setters and texts a client calls, a full date is a date of the *)
(* calendar, unless the last call that set a part of it threw.             *)
CalendarIsValid == part = "calendar" => C!TypeOK /\ C!DateIsValidUnlessItThrew

(* What a calendar prints another reads as the same instant or the same    *)
(* parts; the texts that are refused and the zone that is dropped are      *)
(* named in Calendar.                                                      *)
DatesAreReadBack ==
    part = "calendar" =>
        C!DateTimeTextKeepsInstant /\ C!ReadsWhatWasPrintedOrThrows /\ C!FilledTextsAreRead

(* What a duration prints another reads, unless minutes look like months.  *)
DurationsAreReadBack == part = "duration" => D!TypeOK /\ D!TextsAreReadBack

(* A duration without years and months moves a calendar by its days and    *)
(* time exactly, outside December; one with them leads to the date of XML  *)
(* Schema where the order of adding them and the days makes no difference. *)
SumsAreExact == [][last' # None => S!TypeOK' /\ S!DaysAreExact /\ S!MonthsAreAdded]_sumVars

(* Hours move a date by as many days as they make, in December too, where  *)
(* the year that is too many is taken back by "if (pom == 12 &&            *)
(* !hasMonth()) //fixing" (Calendar.cpp:1425) only without a month.        *)
HoursStayNear == [][last' # None => S!HoursMoveDays]_sumVars

(* White space, a character that base64 has not. *)
White == 65

(* Bytes come back from their base64 text, wherever a line was broken. *)
Base64RoundTrip ==
    LET enc == base64Encode(bytes)
    IN  base64Decode(SubSeq(enc, 1, place) \o <<White>> \o SubSeq(enc, place + 1, Len(enc))) = bytes

(* The text of bytes is what RFC 4648 says: four characters for three bytes,  *)
(* two for one that is left and three for two, and pads to a multiple of four.*)
Base64IsCanonical ==
    LET enc   == base64Encode(bytes)
        group == SelectSeq(enc, LAMBDA c : c # Pad)
    IN  /\ Len(enc) = 4 * ((Len(bytes) + 2) \div 3)
        /\ Len(group) = (Len(bytes) \div 3) * 4 + CASE Len(bytes) % 3 = 0 -> 0
                                                    [] Len(bytes) % 3 = 1 -> 2
                                                    [] Len(bytes) % 3 = 2 -> 3
        /\ IsPrefix(group, enc)

(* collapse takes away white space at the ends, all of it and nothing else: *)
(* what is around its result is white, and it neither begins nor ends so.   *)
CollapseTrims ==
    LET c == collapse(text)
    IN  /\ c # << >> => ~isWhite(c[1]) /\ ~isWhite(Last(c))
        /\ \E k \in 0 .. Len(text) - Len(c) :
            /\ SubSeq(text, k + 1, k + Len(c)) = c
            /\ \A i \in DOMAIN text : i \notin k + 1 .. k + Len(c) => isWhite(text[i])

(* A text that passes as a decimal is a sign, digits, a dot and digits, each *)
(* of which may be missing; one that passes as an integer passes as one.     *)
DecimalsAreNumbers ==
    /\ checkDecimal(text) <=>
        /\ text # << >>
        /\ \E i, j, k \in 0 .. Len(text) :
            /\ i <= 1 /\ i <= j /\ j <= k /\ k <= j + 1
            /\ i = 1 => text[1] \in {"+", "-"}
            /\ areDigits(SubSeq(text, i + 1, j))
            /\ k > j => text[k] = "."
            /\ areDigits(SubSeq(text, k + 1, Len(text)))
    /\ checkInteger(text) => checkDecimal(text)

(* The functions of TextUtils on every text and every bytes: base64 there  *)
(* and back, white space and the checks of numbers.                        *)
TextsAreKept ==
    part = "texts" => Base64RoundTrip /\ Base64IsCanonical /\ CollapseTrims /\ DecimalsAreNumbers

(* A getter of any width returns the number that the text stands for, a    *)
(* leading zero making it an octal, or throws, which it does not for plain *)
(* decimals that it can hold; a number that was set comes back from each   *)
(* that can hold it, and none comes from a text that was refused.          *)
NumbersAreKept ==
    part = "numbers" =>
        /\ N!NumbersAreExact /\ N!PlainNumbersAreRead
        /\ N!SetNumbersAreRead /\ N!RefusedTextsAreNotRead
=============================================================================
