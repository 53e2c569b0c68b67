----------------------------- MODULE Calendar ------------------------------
(***************************************************************************)
(* The calendar and the text form of a timestamp (Time.cpp).  A timestamp  *)
(* is a count of nanoseconds since 1970 in the code; here it is the number *)
(* of its day, the second of that day and the nanosecond of that second,   *)
(* which fit the integers of TLC.  The state walks from day to day along   *)
(* the Gregorian calendar: the arithmetic of the code, which goes straight *)
(* from one form to the other, is compared with where the walk has got.    *)
(* The zone offset is the one of a build without tm_gmtoff, zero.          *)
(***************************************************************************)
EXTENDS Integers, Sequences

CONSTANTS Starts,     \* the days where walks begin, with their dates
          WalkDays,   \* bound: the length of a walk
          Clocks      \* seconds of a day and nanoseconds, in groups of 1000

ASSUME CalendarAssumption ==
    /\ \A s \in Starts : s.days \in Nat /\ s.date.year >= 1970
    /\ WalkDays \in Nat
    /\ \A c \in Clocks : c.second \in 0 .. 86399
                            /\ c.milli \in 0 .. 999 /\ c.micro \in 0 .. 999
                            /\ c.nano \in 0 .. 999

VARIABLES days,    \* days since the first of January 1970
          date,    \* the date of that day: year, month, day
          walked,  \* the number of steps taken
          clock,   \* the time on that day, one of Clocks
          digits   \* the digits below the second that are printed

calendarVars == <<days, date, walked, clock, digits>>

-----------------------------------------------------------------------------
(* The arithmetic of the code.                                             *)

IsLeapYear(year) == (year % 4 = 0 /\ year % 100 # 0) \/ year % 400 = 0

LeapYearsBefore(year) == (year \div 4) - (year \div 100) + (year \div 400)

\* daysPerMonth
DaysPerMonth(year) ==
    <<31, IF IsLeapYear(year) THEN 29 ELSE 28, 31, 30, 31, 30,
      31, 31, 30, 31, 30, 31>>

DaysPerYear(year) == IF IsLeapYear(year) THEN 366 ELSE 365

\* The division of C++, which rounds towards zero
Quotient(a, b) == IF a >= 0 THEN a \div b ELSE -((-a) \div b)

\* The days of the first n months
MonthsBefore(year, n) ==
    LET sum[k \in 0 .. 12] == IF k = 0 THEN 0 ELSE sum[k - 1] + DaysPerMonth(year)[k]
    IN  sum[n]

\* The days from the first of January 1970 to the one of year
YearsBefore(year) ==
    (year - 1970) * 365 + LeapYearsBefore(year - 1) - LeapYearsBefore(1970)

\* YMDFromTimestamp: a year that is not too late, then year by year while a
\* whole one is left, then month by month
YMDFromTimestamp(n) ==
    LET first == 1970 + Quotient(n - 370, 366)
        year[y \in first .. first + 100] ==
            LET before == IF y = first THEN n - YearsBefore(first) ELSE year[y - 1].left
            IN  [left |-> IF before >= DaysPerYear(y) THEN before - DaysPerYear(y)
                          ELSE before,
                 done |-> before < DaysPerYear(y)]
        y == CHOOSE k \in first .. first + 100 :
                year[k].done /\ \A j \in first .. k - 1 : ~year[j].done
        m == CHOOSE k \in 1 .. 12 :
                MonthsBefore(y, k - 1) <= year[y].left /\ year[y].left < MonthsBefore(y, k)
    IN  [year |-> y, month |-> m, day |-> year[y].left - MonthsBefore(y, m - 1) + 1]

\* TimestampFromYMD, in days
TimestampFromYMD(ymd) ==
    YearsBefore(ymd.year) + ymd.day - 1 + MonthsBefore(ymd.year, ymd.month - 1)

-----------------------------------------------------------------------------
(* The text.  Years, months, days, hours, minutes and seconds are printed  *)
(* and scanned as numbers; what follows them is a sequence of characters,  *)
(* a digit being its value.  The zone is printed as "U+0".                 *)

Dot  == 10
Zone == 11
Plus == 12

Digits3(n) == <<n \div 100, (n \div 10) % 10, n % 10>>

\* Mutant: the dots in front of a group that is not full are not counted
SubsecondsLenShort(n) == n + n \div 3

\* subsecondsLen: the digits and the dots in front of their groups
SubsecondsLen(n) == n + (n + 2) \div 3

\* TimestampToString of the day n and the clock c, with k digits
TimestampToString(n, c, k) ==
    [ymd    |-> YMDFromTimestamp(n),
     hour   |-> (c.second \div 3600) % 24,
     minute |-> (c.second \div 60) % 60,
     second |-> c.second % 60,
     rest   |-> SubSeq(<<Dot>> \o Digits3(c.milli) \o <<Dot>> \o Digits3(c.micro)
                          \o <<Dot>> \o Digits3(c.nano), 1, SubsecondsLen(k))
                \o <<Zone, Plus, 0>>]

\* The characters of s without the one at the C++ index i, if there is one
Erase(s, i) ==
    IF Len(s) > i THEN SubSeq(s, 1, i) \o SubSeq(s, i + 2, Len(s)) ELSE s

\* atoi of nine characters, which may start with a sign
Atoi(s) ==
    LET value[k \in 0 .. 9] ==
            IF k = 0 THEN 0
            ELSE IF s[k] = Plus THEN 0 ELSE value[k - 1] * 10 + s[k]
    IN  value[9]

\* StringToTimestamp: the nanoseconds are read from behind the first character
\* after the seconds, up to the "U" of the zone if one is left
StringToTimestamp(text) ==
    LET after == Tail(text.rest)
        zone  == {i \in DOMAIN after : after[i] = Zone}
        sub   == IF zone = {} THEN after
                 ELSE SubSeq(after, 1, (CHOOSE i \in zone : TRUE) - 1)
        plain == Erase(Erase(sub, 7), 3)
    IN  [days   |-> TimestampFromYMD(text.ymd),
         second |-> (text.hour * 60 + text.minute) * 60 + text.second,
         ns     |-> Atoi([i \in 1 .. 9 |-> IF i <= Len(plain) THEN plain[i] ELSE 0])]

-----------------------------------------------------------------------------
(* The walk.                                                               *)

CalendarTypeOK ==
    /\ days \in Nat
    /\ date \in [year : Nat, month : 1 .. 12, day : 1 .. 31]
    /\ walked \in 0 .. WalkDays
    /\ clock \in Clocks
    /\ digits \in 0 .. 9

CalendarInit ==
    /\ \E s \in Starts : days = s.days /\ date = s.date
    /\ walked = 0
    /\ clock \in Clocks
    /\ digits = 0

\* The lengths of the months as the calendar has them
LastDay(d) ==
    IF d.month = 2
    THEN IF d.year % 400 = 0 \/ (d.year % 4 = 0 /\ d.year % 100 # 0) THEN 29 ELSE 28
    ELSE IF d.month \in {4, 6, 9, 11} THEN 30 ELSE 31

Tomorrow ==
    /\ walked < WalkDays
    /\ walked' = walked + 1
    /\ days' = days + 1
    /\ date' = IF date.day < LastDay(date) THEN [date EXCEPT !.day = @ + 1]
               ELSE IF date.month < 12 THEN [date EXCEPT !.month = @ + 1, !.day = 1]
               ELSE [year |-> date.year + 1, month |-> 1, day |-> 1]
    /\ clock' \in Clocks
    /\ digits' = (digits + 1) % 10

CalendarSpec == CalendarInit /\ [][Tomorrow]_calendarVars

-----------------------------------------------------------------------------
(* Properties.                                                             *)

\* The date computed from a day count is the one the calendar reaches by counting
\* days, leap years and ends of centuries included, and the day count computed
\* from the date is the one it came from.  Reading back the text of a timestamp
\* gives the timestamp, cut to the digits that were printed, however many those
\* are: the dots between the groups and the zone are taken for neither digits nor
\* nanoseconds (Time.cpp YMDFromTimestamp, TimestampFromYMD, TimestampToString,
\* StringToTimestamp).
TimestampsExact ==
    LET unit == 10^(9 - digits)
        ns   == (clock.milli * 1000 + clock.micro) * 1000 + clock.nano
    IN  /\ CalendarTypeOK
        /\ YMDFromTimestamp(days) = date
        /\ TimestampFromYMD(date) = days
        /\ StringToTimestamp(TimestampToString(days, clock, digits)) =
              [days |-> days, second |-> clock.second, ns |-> (ns \div unit) * unit]

=============================================================================
