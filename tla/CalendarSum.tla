---------------------------- MODULE CalendarSum ----------------------------
(***************************************************************************)
(* Calendar + Duration and Calendar - Duration (Calendar.cpp:1349-1524).   *)
(* applyDuration adds the time and the days with boost and the months and  *)
(* years by its own arithmetic, then shortens a day the month has not.     *)
(* Calendars are those of module Calendar, durations those of Duration; an *)
(* operator answers a new calendar, which the client here goes on with.    *)
(***************************************************************************)
EXTENDS CalendarDates, FiniteSetsExt

CONSTANTS
    None,
    Start,     \* the calendars a client begins with
    Duration,  \* the durations it adds and subtracts
    Leftover,  \* what an int that was never set may hold
    MaxSums    \* bound: sums made of one calendar

VARIABLES
    cal,
    last,  \* the duration last added, its sign changed by operator-
    threw, \* whether that threw
    sums   \* how many sums were made

vars == <<cal, last, threw, sums>>

Parts == {"year", "month", "day", "hour", "minutes", "seconds", "fracsec"}

(* get of a part that is not set answers 0. *)
get(r, p) == IF r[p] = None THEN 0 ELSE r[p]

orElse(n, default) == IF n = 0 THEN default ELSE n

hasFullDate(c) == \A p \in {"year", "month", "day"} : c[p] # None

-----------------------------------------------------------------------------
(* The time and the days *)

signed(d, n) == IF d.neg THEN -n ELSE n

(* Where a calendar has no year, month or day, the sum begins in 1978, in    *)
(* January or on the first.  The milliseconds of the calendar are taken for  *)
(* microseconds.                                                             *)
StartDate(c) ==
    [year |-> orElse(get(c, "year"), 1978), month |-> orElse(get(c, "month"), 1), day |-> orElse(get(c, "day"), 1)]

(* Mutant: the days are added whatever the sign of the duration. *)
SumOfTimeDaysAdded(c, d) ==
    LET s == StartDate(c)
        micro == get(c, "fracsec") + signed(d, 1000 * get(d.of, "fracsec"))
        second == 3600 * (get(c, "hour") + signed(d, get(d.of, "hours")))
                  + 60 * (get(c, "minutes") + signed(d, get(d.of, "minutes")))
                  + get(c, "seconds") + signed(d, get(d.of, "seconds")) + (micro \div 10 ^ 6)
    IN  [day |-> DayNumber(s.year, s.month, s.day) + (second \div 86400) + get(d.of, "days"),
         second |-> second % 86400, micro |-> micro % 10 ^ 6]

SumOfTime(c, d) ==
    LET s == StartDate(c)
        micro == get(c, "fracsec") + signed(d, 1000 * get(d.of, "fracsec"))
        second == 3600 * (get(c, "hour") + signed(d, get(d.of, "hours")))
                  + 60 * (get(c, "minutes") + signed(d, get(d.of, "minutes")))
                  + get(c, "seconds") + signed(d, get(d.of, "seconds")) + (micro \div 10 ^ 6)
    IN  [day |-> DayNumber(s.year, s.month, s.day) + (second \div 86400) + signed(d, get(d.of, "days")),
         second |-> second % 86400, micro |-> micro % 10 ^ 6]

-----------------------------------------------------------------------------
(* The months and the years *)

pom(date, d) == date.month + signed(d, get(d.of, "months"))

(* Years and month of a count of months, in which December is month 0 of the *)
(* next year and then becomes January.                                       *)
SumOfMonths(p, hasMonth) ==
    IF p < 0 THEN [year |-> -((-p) \div 12 + 1), month |-> 12 - ((-p) % 12)]
    ELSE [year |-> p \div 12 - (IF p = 12 /\ ~hasMonth THEN 1 ELSE 0), month |-> orElse(p % 12, 1)]

(* The month of the sum; month 0 and year 0 where nothing says them. *)
MonthOfSum(c, date, d) ==
    LET m == IF d.of["months"] # None \/ c.year # None
             THEN SumOfMonths(pom(date, d), c.month # None)
             ELSE [year |-> 0, month |-> 0]
    IN  IF d.of["years"] # None \/ c.year # None
        THEN [m EXCEPT !.year = @ + date.year + signed(d, get(d.of, "years"))]
        ELSE m

(* A day the month has not: the days of the month are added to the day (and  *)
(* those of the duration taken away), which ends at the last of the month if *)
(* the day was a last one.                                                   *)
Shortened(day, date, m, d) ==
    IF date.day > maximumDayInMonth(m.year, m.month)
    THEN day - get(d.of, "days") + maximumDayInMonth(m.year, m.month)
    ELSE day

Throws(c, m, short) ==
    \/ ~ValidDate(StartDate(c).year, StartDate(c).month, StartDate(c).day)
    \/ ~ValidDate(short.year, m.month, short.day)
    \/ ~ValidDate(m.year, m.month, short.day)

(* The new calendar has the parts of the old one, and a fraction if either   *)
(* has; a whole second leaves the fraction as it was allocated.  Its month   *)
(* is set before its year, each of which throws unless it makes a date.      *)
applyDuration(c, d, leftover) ==
    LET t == SumOfTime(c, d)
        date == DateOf(t.day)
        m == MonthOfSum(c, date, d)
        short == DateOf(Shortened(t.day, date, m, d))
        hasFrac == c.fracsec # None \/ d.of["fracsec"] # None
        ret == [year |-> m.year, month |-> m.month, day |-> short.day,
                hour |-> t.second \div 3600, minutes |-> (t.second \div 60) % 60, seconds |-> t.second % 60,
                fracsec |-> IF t.micro # 0 THEN t.micro \div 1000 ELSE leftover]
    IN  [cal |-> [p \in Parts |-> IF c[p] # None \/ (p = "fracsec" /\ hasFrac) THEN ret[p] ELSE None],
         threw |-> Throws(c, m, short)]

negated(d) == [d EXCEPT !.neg = ~@]

-----------------------------------------------------------------------------
Init == cal \in Start /\ last = None /\ threw = FALSE /\ sums = 0

Sum(d) ==
    \E g \in Leftover :
        LET r == applyDuration(cal, d, g)
        IN  /\ sums < MaxSums
            /\ sums' = sums + 1
            /\ last' = d
            /\ threw' = r.threw
            /\ cal' = IF r.threw THEN cal ELSE r.cal

Plus == \E d \in Duration : Sum(d)

Minus == \E d \in Duration : Sum(negated(d))

Next == Plus \/ Minus

Spec == Init /\ [][Next]_vars

-----------------------------------------------------------------------------
TypeOK ==
    /\ \A p \in {"year", "month", "day"} : cal[p] # None => cal[p] > 0
    /\ hasFullDate(cal) => ValidDate(cal.year, cal.month, cal.day)
    /\ cal.hour # None => cal.hour \in 0 .. 24
    /\ cal.fracsec # None => cal.fracsec \in 0 .. 999
    /\ threw \in BOOLEAN /\ sums \in 0 .. MaxSums

(* What XML Schema says of a sum (Part 2, Appendix E), for calendars with a  *)
(* year and a month: first the years and months, the day cut down to the     *)
(* last one of the month they lead to, then the days and what the time makes *)
(* of them.                                                                  *)
Months(d) == signed(d, 12 * get(d.of, "years") + get(d.of, "months"))

DaysMoved(c, d) ==
    LET milli  == get(c, "fracsec") + signed(d, get(d.of, "fracsec"))
        second == get(c, "seconds") + signed(d, get(d.of, "seconds")) + (milli \div 1000)
        minute == get(c, "minutes") + signed(d, get(d.of, "minutes")) + (second \div 60)
        hour   == get(c, "hour") + signed(d, get(d.of, "hours")) + (minute \div 60)
    IN  signed(d, get(d.of, "days")) + (hour \div 24)

Day(c) == IF c.day = None THEN 1 ELSE c.day

Goal(c, d) == MonthAfter(c.year, c.month, Months(d))

LastDay(month) == maximumDayInMonth(month.year, month.month)

SchemaSum(c, d) ==
    LET goal == Goal(c, d)
    IN  DateOf(DayNumber(goal.year, goal.month, Min({Day(c), LastDay(goal)})) + DaysMoved(c, d))

(* Where the code says the same.  It adds the time and the days first, so    *)
(* they must not leave the month, or lead from a month into the next that is *)
(* as long as the one the years and months lead to.                          *)
OrderIsTheSame(c, d) ==
    LET goal == LastDay(Goal(c, d))
        day  == Day(c) + DaysMoved(c, d)
    IN  \/ Day(c) <= goal /\ day \in 1 .. Min({LastDay(c), goal})
        \/ LastDay(c) = goal /\ day \in LastDay(c) + 1 .. LastDay(c) + 28

(* A day that the goal's month has not becomes its last one, if it was the   *)
(* last of its own and the month after that is no shorter than the goal's.   *)
IsCutDown(c, d) ==
    /\ DaysMoved(c, d) = 0 /\ Day(c) = LastDay(c)
    /\ Day(c) > LastDay(Goal(c, d))
    /\ LastDay(MonthAfter(c.year, c.month, 1)) >= LastDay(Goal(c, d))

(* Milliseconds of a calendar are taken for microseconds, which is seen when *)
(* others are added to them.                                                 *)
IsWithoutMilliseconds(c, d) == 0 \in {get(c, "fracsec"), get(d.of, "fracsec")}

(* A sum in December is answered in January of the year that follows it      *)
(* (Calendar.cpp:1413-1426), unless the months lead back to it over a whole  *)
(* year.                                                                     *)
IsDecember(c, d) ==
    LET sum == SchemaSum(c, d)
        y   == DateOf(DayNumber(c.year, c.month, Day(c)) + DaysMoved(c, d)).year
    IN  sum.month = 12 /\ sum.year - signed(d, get(d.of, "years")) >= y - 1

IsSchemaSum ==
    /\ ~threw'
    /\ \A p \in {"year", "month", "day"} : cal[p] # None => cal'[p] = SchemaSum(cal, last')[p]

(* A duration without years and months moves a date by exactly its days and  *)
(* its time, whatever months and years lie between, but into December.       *)
DaysAreExact ==
    /\ cal.year # None /\ cal.month # None
    /\ Months(last') = 0
    /\ IsWithoutMilliseconds(cal, last') /\ ~IsDecember(cal, last')
    => IsSchemaSum

(* A duration with years or months leads to the date that XML Schema says,   *)
(* over any number of years in both directions, where the order in which its *)
(* parts are added makes no difference and the sum is not in December.  The  *)
(* 29th of February may throw instead, as the month is set before the year.  *)
MonthsAreAdded ==
    LET sum == SchemaSum(cal, last')
    IN  /\ cal.year # None /\ cal.month # None
        /\ OrderIsTheSame(cal, last') \/ IsCutDown(cal, last')
        /\ IsWithoutMilliseconds(cal, last') /\ ~IsDecember(cal, last')
        /\ ~(sum.month = 2 /\ sum.day = 29)
        => IsSchemaSum

(* Hours move a date by as many days as they make, as CalendarTest.cpp:307   *)
(* says of a day in January.  In December the sum is given a year too many,  *)
(* which "if (pom == 12 && !hasMonth()) //fixing" (Calendar.cpp:1425) takes  *)
(* back only from calendars without a month.                                 *)
HoursMoveDays ==
    hasFullDate(cal) /\ Months(last') = 0 /\ last'.of["days"] = None /\ ~last'.neg /\ ~threw' =>
        DayNumber(cal'.year, cal'.month, cal'.day) - DayNumber(cal.year, cal.month, cal.day)
            \in 0 .. (get(last'.of, "hours") \div 24) + 1
=============================================================================
