------------------------------ MODULE Calendar ------------------------------
(***************************************************************************)
(* Class Calendar (Calendar.cpp): a date and a time of which any part may  *)
(* be absent, filled in by setters that read numbers or the texts of the   *)
(* date types of XML Schema, and printed as such texts.  A setter is an    *)
(* operator from a calendar to the calendar it leaves and whether it threw:*)
(* a setter that throws keeps what it had already set.                     *)
(*                                                                         *)
(* A part that is not set (its bit of flags is 0) is None.  A text is what *)
(* it was printed from: its numbers, whether month and day have two digits *)
(* and its time zone; where a setter finds the zone depends on where the   *)
(* text has its '-' signs.                                                 *)
(***************************************************************************)
EXTENDS CalendarDates, FiniteSetsExt, Functions

CONSTANTS
    None,
    Number,      \* the numbers clients set each part to
    TextNumber,  \* the dates and times of the texts clients read
    GmtOffset,   \* the offsets clients set, <<hours, minutes>>
    LocalOffset  \* the offsets of the system's time zone, at one time or another

DatePart == {"year", "month", "day"}
TimePart == {"hour", "minutes", "seconds"}
Part     == DatePart \cup TimePart \cup {"fracsec"}

CalendarAssumption ==
    /\ None \notin Int
    /\ Number \in [Part -> SUBSET Int]
    /\ TextNumber \subseteq [Part -> Nat]
    /\ GmtOffset \subseteq Int \X Int
    /\ LocalOffset \subseteq Int \X Int

VARIABLES
    cal,       \* cal_tm, frac_sec, the offset and flags
    dateThrew  \* whether the last call that sets a part of the date threw

vars == <<cal, dateThrew>>

Calendar == [year : Int \cup {None}, month : 1 .. 12 \cup {None}, day : 1 .. 31 \cup {None},
             hour : Nat \cup {None}, minutes : 0 .. 60 \cup {None}, seconds : 0 .. 60 \cup {None},
             fracsec : 0 .. 999 \cup {None}, zone : (Int \X Int) \cup {None}, isdst : {-1, 0, 1}]

TypeOK == cal \in Calendar /\ dateThrew \in BOOLEAN

NewCalendar == [p \in Part \cup {"zone", "isdst"} |-> IF p = "isdst" THEN -1 ELSE None]

Done(c)   == [cal |-> c, threw |-> FALSE]
Thrown(c) == [cal |-> c, threw |-> TRUE]

(* The call after one that may have thrown. *)
Then(r, next(_)) == IF r.threw THEN r ELSE next(r.cal)

hasFullDateInfo(c) == \A p \in DatePart : c[p] # None
hasFullTimeInfo(c) == \A p \in TimePart : c[p] # None
hasTimeZone(c) == c.zone # None

DateIsValid(c) == ValidDate(c.year, c.month, c.day)

-----------------------------------------------------------------------------
(* Setters that take a number *)

(* A full date goes through boost's date, whose year has 16 bits. *)
fixTm(c) ==
    LET narrow == [c EXCEPT !.year = @ % 2 ^ 16]
    IN  IF ~hasFullDateInfo(c) THEN Done(c)
        ELSE IF DateIsValid(narrow) THEN Done(narrow)
        ELSE Thrown(c)

setYear(c, n) ==
    IF n < -4713 \/ n > 9999999 \/ n = 0 THEN Thrown(c) ELSE fixTm([c EXCEPT !.year = n])
setMonth(c, n) ==
    IF n \in 1 .. 12 THEN fixTm([c EXCEPT !.month = n]) ELSE Thrown(c)

(* Mutant: the date is not looked at. *)
setDayWithoutFix(c, n) ==
    IF n \in 1 .. 31 THEN Done([c EXCEPT !.day = n]) ELSE Thrown(c)

setDay(c, n) ==
    IF n \in 1 .. 31 THEN fixTm([c EXCEPT !.day = n]) ELSE Thrown(c)

InRange(p, n) ==
    CASE p = "hour" -> n \in 0 .. 24
      [] p \in {"minutes", "seconds"} -> n \in 0 .. 60
      [] p = "fracsec" -> n \in 0 .. 999

setTimePart(c, p, n) == IF InRange(p, n) THEN Done([c EXCEPT ![p] = n]) ELSE Thrown(c)

set(c, p, n) ==
    CASE p = "year" -> setYear(c, n)
      [] p = "month" -> setMonth(c, n)
      [] p = "day" -> setDay(c, n)
      [] OTHER -> setTimePart(c, p, n)

setGmtOff(c, off) == IF off[1] * off[2] < 0 THEN Thrown(c) ELSE Done([c EXCEPT !.zone = off])

dst(c, v) == Done([c EXCEPT !.isdst = v])

-----------------------------------------------------------------------------
(* Texts *)

Form == {"dateTime", "date", "time", "gYearMonth", "gYear", "gMonthDay", "gMonth", "gDay"}

PartsOf(form) ==
    CASE form = "dateTime" -> DatePart \cup TimePart
      [] form = "date" -> DatePart
      [] form = "time" -> TimePart
      [] form = "gYearMonth" -> {"year", "month"}
      [] form = "gYear" -> {"year"}
      [] form = "gMonthDay" -> {"month", "day"}
      [] form = "gMonth" -> {"month"}
      [] form = "gDay" -> {"day"}

NoZone == [sign |-> "?", hours |-> 0, minutes |-> 0]
ZoneZ  == [sign |-> "Z", hours |-> 0, minutes |-> 0]

(* The sign is that of the hours, and the minutes follow as they are. *)
timeZoneToString(c) ==
    LET h == c.zone[1] + (IF c.isdst = 1 THEN 1 ELSE 0)
        m == c.zone[2]
    IN  IF ~hasTimeZone(c) THEN NoZone
        ELSE IF c.zone = <<0, 0>> /\ c.isdst = 0 THEN ZoneZ
        ELSE IF h >= 0 THEN [sign |-> "+", hours |-> h, minutes |-> m]
        ELSE [sign |-> "-", hours |-> -h, minutes |-> -m]

(* The toXsd functions: a text, or None ("not-a-date-time") for want of a    *)
(* part.  They fill up to two digits, but for the month and the day of       *)
(* gMonthDay, gMonth and gDay.  dateTime and date go through boost's date.   *)
toXsd(c, form) ==
    IF \E p \in PartsOf(form) : c[p] = None THEN None
    ELSE [form |-> form,
          n |-> [p \in PartsOf(form) |-> c[p]],
          frac |-> IF "hour" \in PartsOf(form) THEN c.fracsec ELSE None,
          filled |-> form \notin {"gMonthDay", "gMonth", "gDay"},
          zone |-> timeZoneToString(c)]

toXsdThrows(c, form) == form \in {"dateTime", "date"} /\ hasFullDateInfo(c) /\ ~DateIsValid(c)

(* Where a text has its '-' signs, and how long it is in front of the zone. *)
Digits(n) == IF n < 10 THEN 1 ELSE IF n < 100 THEN 2 ELSE IF n < 1000 THEN 3 ELSE 4
Width(t, p) == IF t.filled THEN 2 ELSE Digits(t.n[p])

DateDashes(t) ==
    CASE t.form = "gYearMonth" -> {Digits(t.n.year)}
      [] t.form = "gMonthDay" -> {0, 1, 2 + Width(t, "month")}
      [] t.form = "gMonth" -> {0, 1}
      [] t.form = "gDay" -> {0, 1, 2}
      [] t.form \in {"date", "dateTime"} -> {4, 7}
      [] OTHER -> {}

LengthToZone(t) ==
    CASE t.form = "gYearMonth" -> Digits(t.n.year) + 3
      [] t.form = "gYear" -> Digits(t.n.year)
      [] t.form = "gMonthDay" -> 3 + Width(t, "month") + Width(t, "day")
      [] t.form = "gMonth" -> 2 + Width(t, "month")
      [] t.form = "gDay" -> 3 + Width(t, "day")
      [] t.form = "date" -> 10
      [] t.form = "time" -> 8
      [] t.form = "dateTime" -> 19

Dashes(t) == DateDashes(t) \cup (IF t.zone.sign = "-" THEN {LengthToZone(t)} ELSE {})

npos == -1
find(t)  == IF Dashes(t) = {} THEN npos ELSE Min(Dashes(t))
rfind(t) == IF Dashes(t) = {} THEN npos ELSE Max(Dashes(t))

(* When a setter takes the last '-' for the sign of a zone. *)
DashIsSign(t) ==
    CASE t.form = "dateTime" -> rfind(t) > 10
      [] t.form = "date" -> rfind(t) - find(t) = 2
      [] t.form = "time" -> rfind(t) # npos
      [] t.form = "gYearMonth" -> rfind(t) # find(t)
      [] t.form = "gYear" -> rfind(t) # 1
      [] t.form \in {"gMonthDay", "gMonth"} -> rfind(t) - find(t) = 7
      [] t.form = "gDay" -> rfind(t) - find(t) = 5

sign(t) ==
    IF t.zone.sign \in {"+", "Z"} THEN t.zone.sign
    ELSE IF DashIsSign(t) THEN "-" ELSE "?"

(* A zone whose sign is not seen stays behind the last part of the date. *)
ZoneIsLost(t) == t.zone.sign = "-" /\ sign(t) = "?"

TwoDigits(n) == n \in 0 .. 99

(* "hh:mm" behind the sign.  The hours are stored before the minutes are     *)
(* read, but are an offset only where there was one.                         *)
setZone(c, z) ==
    LET east(n) == IF z.sign = "-" THEN -n ELSE n
    IN  IF ~TwoDigits(z.hours) \/ (z.minutes # None /\ ~TwoDigits(z.minutes)) THEN Thrown(c)
        ELSE IF z.minutes # None
        THEN Done([c EXCEPT !.zone = <<east(z.hours), east(z.minutes)>>, !.isdst = 0])
        ELSE Thrown(IF hasTimeZone(c) THEN [c EXCEPT !.zone[1] = east(z.hours)] ELSE c)

(* A setter that reads a text: the zone is cut off, which throws when a '-'  *)
(* is expected and there is none; then the parts are set, then the zone.     *)
readText(c, t, parts) ==
    IF sign(t) = "-" /\ Dashes(t) = {} THEN Thrown(c)
    ELSE Then(parts, LAMBDA d : IF sign(t) = "?" THEN Done(d) ELSE setZone(d, t.zone))

(* A part that does not consist of digits only: getInt throws. *)
orThrow(ok, c, r) == IF ok THEN r ELSE Thrown(c)

setFrac(c, t) ==
    IF t.frac = None THEN Done(c)
    ELSE IF t.frac \in 0 .. 999 THEN Done([c EXCEPT !.fracsec = t.frac])
    ELSE Thrown(c)

(* boost reads hours, minutes and seconds and carries what is too much. *)
Seconds(n) == 3600 * n.hour + 60 * n.minutes + n.seconds

withTime(c, s) ==
    [c EXCEPT !.hour = s \div 3600, !.minutes = (s \div 60) % 60, !.seconds = s % 60]

withDate(c, d) == [c EXCEPT !.year = d.year, !.month = d.month, !.day = d.day]

(* Mutant: 24:00:00 is the beginning of the same day. *)
fromDateTimeSameDay(t) ==
    readText(NewCalendar, t,
             IF ValidDate(t.n.year, t.n.month, t.n.day)
             THEN setFrac(withTime(withDate(NewCalendar, t.n), Seconds(t.n) % 86400), t)
             ELSE Thrown(NewCalendar))

(* The constructor of a text: 24:00:00 is the next day. *)
fromDateTime(t) ==
    LET day  == DayNumber(t.n.year, t.n.month, t.n.day) + (Seconds(t.n) \div 86400)
        read == withTime(withDate(NewCalendar, DateOf(day)), Seconds(t.n) % 86400)
    IN  readText(NewCalendar, t,
                 IF ValidDate(t.n.year, t.n.month, t.n.day)
                 THEN Then(fixTm(read), LAMBDA d : setFrac(d, t))
                 ELSE Thrown(NewCalendar))

(* boost reads eight digits and drops the rest, a lost zone included. *)
setDate(c, t) ==
    readText(c, t, IF ValidDate(t.n.year, t.n.month, t.n.day) THEN fixTm(withDate(c, t.n)) ELSE Thrown(c))

setTime(c, t) ==
    readText(c, t, setFrac(withTime(c, Seconds(t.n)), t))

setYearMonth(c, t) ==
    readText(c, t, Then(setYear(c, t.n.year), LAMBDA d : setMonth(d, t.n.month)))

setgYear(c, t) ==
    readText(c, t, orThrow(~ZoneIsLost(t), c, setYear(c, t.n.year)))

(* The month is read from the third and fourth characters, the day from all  *)
(* that follow the fifth.                                                    *)
setMonthDay(c, t) ==
    readText(c, t, orThrow(Width(t, "month") = 2, c,
                           Then(setMonth(c, t.n.month),
                                LAMBDA d : orThrow(~ZoneIsLost(t), d, setDay(d, t.n.day)))))

setgMonth(c, t) ==
    readText(c, t, orThrow(~ZoneIsLost(t), c, setMonth(c, t.n.month)))

setgDay(c, t) ==
    readText(c, t, orThrow(~ZoneIsLost(t), c, setDay(c, t.n.day)))

read(c, t) ==
    CASE t.form = "date" -> setDate(c, t)
      [] t.form = "time" -> setTime(c, t)
      [] t.form = "gYearMonth" -> setYearMonth(c, t)
      [] t.form = "gYear" -> setgYear(c, t)
      [] t.form = "gMonthDay" -> setMonthDay(c, t)
      [] t.form = "gMonth" -> setgMonth(c, t)
      [] t.form = "gDay" -> setgDay(c, t)

-----------------------------------------------------------------------------
(* Instants *)

(* Seconds and days from getTime: local time, with what is too much carried. *)
getTime(c) ==
    [day |-> DayNumber(c.year, c.month, c.day) + (Seconds(c) \div 86400),
     second |-> Seconds(c) % 86400,
     milli |-> IF c.fracsec = None THEN 0 ELSE c.fracsec]

OffsetSeconds(c) ==
    IF ~hasTimeZone(c) THEN 0
    ELSE 3600 * (c.zone[1] + (IF c.isdst = 1 THEN 1 ELSE 0)) + 60 * c.zone[2]

(* Only of a time with a zone. *)
getUTCTime(c) ==
    LET s == Seconds(c) - OffsetSeconds(c)
    IN  IF ~hasTimeZone(c) THEN None
        ELSE [getTime(c) EXCEPT !.day = DayNumber(c.year, c.month, c.day) + (s \div 86400),
                                !.second = s % 86400]

(* The offset is the system's, as mktime knows it; times before 1970 throw. *)
timeZoneGuess(c, off) ==
    IF ~hasFullDateInfo(c) \/ ~hasFullTimeInfo(c) \/ hasTimeZone(c) THEN Done(c)
    ELSE IF ~DateIsValid(c) \/ c.year < 1970 THEN Thrown(c)
    ELSE Then(setGmtOff(c, off), LAMBDA d : dst(d, 0))

-----------------------------------------------------------------------------
(* One calendar, and the calls of its clients *)

Init == cal = NewCalendar /\ dateThrew = FALSE

(* A call that may set parts of the date, and one that does not. *)
CallOnDate(r) == cal' = r.cal /\ dateThrew' = r.threw
Call(r)       == cal' = r.cal /\ UNCHANGED dateThrew

SetDatePart == \E p \in DatePart : \E n \in Number[p] : CallOnDate(set(cal, p, n))

SetTimePart == \E p \in Part \ DatePart : \E n \in Number[p] : Call(set(cal, p, n))

SetGmtOff == \E off \in GmtOffset : Call(setGmtOff(cal, off))

Dst == \E v \in {-1, 0, 1} : Call(dst(cal, v))

(* The texts a client reads have two digits where their type has two; the    *)
(* minutes of a zone may not be digits.                                      *)
ClientZones ==
    {NoZone, ZoneZ, [sign |-> "+", hours |-> 5, minutes |-> None]}
    \cup {timeZoneToString([NewCalendar EXCEPT !.zone = off]) :
                off \in {o \in GmtOffset : o[1] # 0 \/ o[2] >= 0}}

TextsOf(form) ==
    {[form |-> form, n |-> Restrict(n, PartsOf(form)),
      frac |-> IF "hour" \in PartsOf(form) THEN n.fracsec ELSE None, filled |-> TRUE, zone |-> z] :
        n \in TextNumber, z \in ClientZones}

ReadDate == \E form \in Form \ {"dateTime", "time"} : \E t \in TextsOf(form) : CallOnDate(read(cal, t))

ReadTime == \E t \in TextsOf("time") : Call(read(cal, t))

(* A constructor that throws leaves its client with the calendar it had. *)
Construct ==
    /\ \/ cal' = NewCalendar
       \/ \E t \in TextsOf("dateTime") : ~fromDateTime(t).threw /\ cal' = fromDateTime(t).cal
    /\ dateThrew' = FALSE

TimeZoneGuess == \E off \in LocalOffset : Call(timeZoneGuess(cal, off))

Next ==
    \/ SetDatePart \/ SetTimePart \/ SetGmtOff \/ Dst
    \/ ReadDate \/ ReadTime \/ Construct \/ TimeZoneGuess

Spec == Init /\ [][Next]_vars

-----------------------------------------------------------------------------
(* A full date is a date of the calendar (so that getDate and the printers   *)
(* do not throw) unless the last call that set a part of it threw: every     *)
(* setter of a part ends in fixTm (Calendar.cpp:746), which is where it      *)
(* throws, with the part already set.                                        *)
DateIsValidUnlessItThrew ==
    hasFullDateInfo(cal) /\ ~dateThrew => DateIsValid(cal)

(* toXsdDateTime (Calendar.cpp:904) prints 24:00:00 and 00:60:60 as they     *)
(* were set, and daylight saving time as an hour of the offset; the          *)
(* constructor (Calendar.cpp:139) carries and forgets both, and still reads  *)
(* the instant that was printed.                                             *)
DateTimeTextKeepsInstant ==
    LET t == toXsd(cal, "dateTime")
        r == fromDateTime(t)
    IN  t # None /\ ~toXsdThrows(cal, "dateTime") /\ t.zone.minutes >= 0 =>
            /\ ~r.threw
            /\ getUTCTime(r.cal) = getUTCTime(cal)
            /\ ~hasTimeZone(cal) => ~hasTimeZone(r.cal) /\ getTime(r.cal) = getTime(cal)

(* Reading a printed text into a new calendar throws or yields the numbers   *)
(* and the offset that were printed; only setDate (Calendar.cpp:213) loses   *)
(* something without a word, a zone west of Greenwich.                       *)
ReadsWhatWasPrintedOrThrows ==
    \A form \in Form \ {"dateTime"} :
        LET t == toXsd(cal, form)
            r == read(NewCalendar, t)
        IN  t # None /\ ~toXsdThrows(cal, form) =>
                \/ r.threw
                \/ /\ \A p \in PartsOf(form) \cap DatePart : r.cal[p] = cal[p]
                   /\ form = "time" => /\ Seconds(r.cal) = Seconds(cal)
                                       /\ r.cal.fracsec = cal.fracsec
                   /\ \/ OffsetSeconds(r.cal) = OffsetSeconds(cal)
                      \/ form = "date" /\ t.zone.sign = "-" /\ ~hasTimeZone(r.cal)

(* A text with two digits where its type has two is read whatever its zone,  *)
(* but for setgYear, which wants a zone (Calendar.cpp:408), and setgMonth,   *)
(* which looks for the '-' of a zone where gMonthDay has it                  *)
(* (Calendar.cpp:498).                                                       *)
FilledTextsAreRead ==
    \A form \in Form \ {"dateTime", "time", "date"} :
        LET t == [toXsd(cal, form) EXCEPT !.filled = TRUE]
        IN  /\ toXsd(cal, form) # None
            /\ t.zone.minutes >= 0
            /\ form = "gYear" => t.zone # NoZone /\ cal.year > 9
            /\ form = "gMonth" => t.zone.sign # "-"
            => ~read(NewCalendar, t).threw
=============================================================================
