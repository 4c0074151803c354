---------------------------- MODULE CrontabCalendar ----------------------------
(***************************************************************************)
(* The calendar java.util.Calendar gives the crontab parser of             *)
(* java/TaskSchedulerAdvance, of any size: years of months of days, and a  *)
(* week that runs through them. Time is counted in minutes: the parser     *)
(* clears the seconds, and none of its comparisons depends on them.        *)
(***************************************************************************)
EXTENDS Integers, FiniteSetsExt

CONSTANTS
    MinutesPerHour,
    HoursPerDay,
    DaysPerWeek,
    MonthsPerYear,
    MonthLength(_, _),  \* year, month |-> its days
    MaxYear             \* bound on the years, the first being 1

ASSUME CalendarAssumption ==
    /\ {MinutesPerHour, HoursPerDay, DaysPerWeek, MonthsPerYear, MaxYear} \subseteq Nat \ {0}
    /\ \A y \in 1..MaxYear, m \in 1..MonthsPerYear : MonthLength(y, m) \in Nat \ {0}

MaxDay == Max({MonthLength(y, m) : y \in 1..MaxYear, m \in 1..MonthsPerYear})

\* The months of all years in one count, and the day each begins with.
MonthOf(y, m) == (y - 1) * MonthsPerYear + m - 1
YearOfMonth(k) == (k \div MonthsPerYear) + 1
InYear(k) == (k % MonthsPerYear) + 1
Days(k) == MonthLength(YearOfMonth(k), InYear(k))

Months == MaxYear * MonthsPerYear
FirstDay == [k \in 0..Months |-> MapThenSumSet(Days, 0..(k - 1))]

DayLength == HoursPerDay * MinutesPerHour

\* Calendar.getTime: a day, hour or minute beyond its range carries.
ToTime(t) ==
    ((FirstDay[MonthOf(t.year, t.month)] + t.day - 1) * HoursPerDay + t.hour)
        * MinutesPerHour + t.minute

\* Calendar.setTime, a function so that TLC computes the calendar once.
DayNumber(n) == n \div DayLength

FromTime ==
    [n \in 0..(FirstDay[Months] * DayLength - 1) |->
        LET k == Max({m \in 0..(Months - 1) : FirstDay[m] <= DayNumber(n)})
        IN  [year   |-> YearOfMonth(k),
             month  |-> InYear(k),
             day    |-> DayNumber(n) - FirstDay[k] + 1,
             hour   |-> (n % DayLength) \div MinutesPerHour,
             minute |-> n % MinutesPerHour]]

Year(n) == FromTime[n].year
MonthNumber(n) == MonthOf(Year(n), FromTime[n].month)

\* Day 0 is the first of a week.
DayOfWeek(day) == day % DaysPerWeek
WeekNumber(n) == DayNumber(n) \div DaysPerWeek

\* Calendar.add(MONTH, n): the day is kept if the month has it.
AddMonths(n, months) ==
    LET t == FromTime[n]
        k == MonthNumber(n) + months
    IN  ToTime([t EXCEPT !.year = YearOfMonth(k), !.month = InYear(k),
                         !.day = Min({@, Days(k)})])

=============================================================================
