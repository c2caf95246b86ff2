--------------------------- MODULE CalendarDates ---------------------------
(***************************************************************************)
(* The Gregorian calendar Calendar.cpp computes with: its own two helpers, *)
(* and the dates of boost::gregorian, which exist for the years 1400 to    *)
(* 9999 and are counted as days.                                           *)
(***************************************************************************)
EXTENDS Integers

isLeapYear(year) == year % 4 = 0 /\ (year % 100 # 0 \/ year % 400 = 0)

(* A month that does not exist has 31 days, as in the default of the switch. *)
maximumDayInMonth(year, month) ==
    CASE month \in {4, 6, 9, 11} -> 30
      [] month = 2 -> IF isLeapYear(year) THEN 29 ELSE 28
      [] OTHER -> 31

(* The constructor of boost::gregorian::date throws for any other date. *)
ValidDate(year, month, day) ==
    /\ year \in 1400 .. 9999
    /\ month \in 1 .. 12
    /\ day \in 1 .. maximumDayInMonth(year, month)

(* Days counted from a fixed day; a year is taken to start in March. *)
DayNumber(year, month, day) ==
    LET y == IF month > 2 THEN year ELSE year - 1
        m == (month + 9) % 12
    IN  365 * y + (y \div 4) - (y \div 100) + (y \div 400) + ((153 * m + 2) \div 5) + day

(* The date of a day number. *)
DateOf(n) ==
    LET year == CHOOSE y \in (n \div 366) - 1 .. (n \div 365) + 1 :
                    DayNumber(y, 1, 1) <= n /\ n < DayNumber(y + 1, 1, 1)
        month == CHOOSE m \in 1 .. 12 :
                    /\ DayNumber(year, m, 1) <= n
                    /\ n < DayNumber(year, m, 1) + maximumDayInMonth(year, m)
    IN  [year |-> year, month |-> month, day |-> n - DayNumber(year, month, 1) + 1]

(* The month n months after a month of a year. *)
MonthAfter(year, month, n) ==
    LET k == 12 * year + (month - 1) + n
    IN  [year |-> k \div 12, month |-> (k % 12) + 1]
=============================================================================
