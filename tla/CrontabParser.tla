----------------------------- MODULE CrontabParser -----------------------------
(***************************************************************************)
(* The CrontabParser of java/TaskSchedulerAdvance: a trigger is parsed     *)
(* into fields, the values at which it fires, and next() carries a time    *)
(* from minute to year until all fields allow it. The values of a field    *)
(* with a step depend on the time, and change as the search goes on.       *)
(*                                                                         *)
(* A trigger comes as its fields, each a sequence of ranges x-y/z; x alone *)
(* is x-x/1 and * the whole range. A time zone without summer time.        *)
(***************************************************************************)
EXTENDS CrontabCalendar, Sequences

CONSTANTS
    Triggers,       \* the triggers parsed
    Times,          \* the times of the clock and of start dates
    YearThreshold,  \* YEAR_THRESHOLD
    MaxCalls        \* bound on the calls of next

VARIABLES
    trigger,   \* cronString
    start,     \* startDate
    now,       \* the system clock
    field,     \* minuteField, hourField, dayOfMonthField, monthField
    cache,     \* interpolateDayOfWeekCache
    target,    \* targetDate
    from,      \* the date the week is counted from
    date,      \* nextDate
    calls,     \* history: calls of next
    steps,     \* history: times of the call that getNext has gone through
    pc         \* "new", "ready", "calc", "rejected" or the fault that ended it

vars == <<trigger, start, now, field, cache, target, from, date, calls, steps, pc>>

\* MIN and MAX of the field classes, and the value of a time in each.
Lowest == [minute |-> 0, hour |-> 0, day |-> 1, month |-> 1]
Highest == [minute |-> MinutesPerHour - 1, hour |-> HoursPerDay - 1,
            day |-> MaxDay, month |-> MonthsPerYear]
Fields == DOMAIN Lowest

NoYear == 0    \* a trigger without its sixth field
Last(ranges) == ranges[Len(ranges)]
RangesOf(ranges) == {ranges[k] : k \in DOMAIN ranges}

-----------------------------------------------------------------------------
(* The fields.                                                             *)

\* rangeCheck.
InRange(r, low, high) ==
    /\ {r.first, r.last} \subseteq low..high
    /\ r.step >= 1 /\ r.last - r.first + 1 >= r.step

\* Java's division, which rounds to zero.
Quotient(a, b) == IF a < 0 THEN -((-a) \div b) ELSE a \div b

SteppedRange(first, last, step) ==
    IF first = last /\ step = 1 THEN {first}
    ELSE {first + step * i : i \in 0..Quotient(last - first, step)}

\* getMinValueOfGivenStep: a range begins where the current value leaves it
\* when it is counted down by the step.
LeastOfStep(value, low, step) == low + ((Max({value, low}) - low) % step)

ParsedField(ranges, name) ==
    LET Listed(r) == SteppedRange(LeastOfStep(FromTime[start][name], r.first, r.step),
                                  r.last, r.step)
    IN  [list  |-> UNION {Listed(r) : r \in RangesOf(ranges)},
         last  |-> Last(ranges).last,
         step  |-> Last(ranges).step,
         stamp |-> start]

\* The day-of-week field, in which 7 is 0, and x/14 every second week.
DaysOfWeek == {d % DaysPerWeek : d \in UNION {SteppedRange(r.first, r.last, r.step) :
                                                r \in RangesOf(trigger.weekday)}}
SkipWeekCount == Max({1, trigger.weeks \div DaysPerWeek})
SkipsWeeks == SkipWeekCount > 1

\* Has src reached dest at the level of the year, month, day or hour?
HasReachedDestYear(src, dest) == src > dest \/ Year(src) = Year(dest)
HasReachedDestMonth(src, dest) == src > dest \/ MonthNumber(src) = MonthNumber(dest)
HasReachedDestDayOfMonth(src, dest) == src > dest \/ DayNumber(src) = DayNumber(dest)
HasReachedDestHour(src, dest) ==
    src > dest \/ src \div MinutesPerHour = dest \div MinutesPerHour

\* updateFieldList moves the stamp of a field with a step on, a step at a time,
\* until it has reached the year of a new month list, the month of a day list ...
RECURSIVE MonthStamp(_, _, _)
MonthStamp(stamp, step, n) ==
    IF HasReachedDestYear(stamp, n) THEN stamp
    ELSE MonthStamp(AddMonths(stamp, step), step, n)

RECURSIVE DayStamp(_, _, _)
DayStamp(stamp, step, n) ==
    IF HasReachedDestMonth(stamp, n) THEN stamp
    ELSE DayStamp(stamp + step * DayLength, step, n)

\* ... but not the day of an hour list or the hour of a minute list: there the
\* stamp and the time to be reached are swapped.
HourStampIsDue(f, n) == HasReachedDestDayOfMonth(n, f.stamp)
MinuteStampIsDue(f, n) == HasReachedDestHour(n, f.stamp)

Updated(f, name, stamp) ==
    [f EXCEPT !.list = SteppedRange(FromTime[stamp][name], f.last, f.step), !.stamp = stamp]

-----------------------------------------------------------------------------
(* The nudges: s holds the time t that is carried, the fields, the cache   *)
(* and what went wrong.                                                    *)

Fail(s, what) == [s EXCEPT !.fault = what]
Failed(s) == s.fault # "none"

TargetDate(current) == Max({start - 1, current})

OutOfRange(n) == Year(TargetDate(now)) + YearThreshold < Year(n)

\* Variants with a bug, here and below: each breaks a property of a run.
\* >= for >.
NotBefore(value, list) == {v \in list : v >= value}

\* findBestNext: the values it chooses the first of.
Later(value, list) == {v \in list : v > value}

Stepped(s, name) == s.field[name].step > 1
UpdateField(s, name, stamp) == [s EXCEPT !.field[name] = Updated(@, name, stamp)]

YearIsSet(y) ==
    LET f == y.field["month"]
    IN  IF OutOfRange(ToTime(y.t)) THEN Fail(y, "year out of range")
        ELSE IF ~Stepped(y, "month") THEN y
        ELSE UpdateField(y, "month", MonthStamp(f.stamp, f.step, ToTime(y.t)))

NudgeYear(s, year) == YearIsSet([s EXCEPT !.t.year = year])

\* The value is the first of those later than the time's, or of all in the
\* field after a carry.
Carry(s, name) ==
    IF Failed(s) THEN s
    ELSE IF s.field[name].list = {} THEN Fail(s, "index out of bounds")
    ELSE [s EXCEPT !.t[name] = Min(s.field[name].list)]

Advance(s, name, carried) ==
    LET later == Later(s.t[name], s.field[name].list)
    IN  IF later # {} THEN [s EXCEPT !.t[name] = Min(later)] ELSE Carry(carried, name)

MonthIsSet(m) ==
    LET f == m.field["day"]
    IN  IF Failed(m) \/ ~Stepped(m, "day") THEN m
        ELSE UpdateField(m, "day", DayStamp(f.stamp, f.step, ToTime(m.t)))

NudgeMonth(s) == MonthIsSet(Advance(s, "month", NudgeYear(s, s.t.year + 1)))

\* interpolateDayOfWeeks: the days of the time's month, computed once.
MonthAt(s) == MonthOf(s.t.year, s.t.month)
Interpolated(s) ==
    LET k == MonthAt(s)
        days == {d \in s.field["day"].list :
                    d <= Days(k) /\ DayOfWeek(FirstDay[k] + d - 1) \in DaysOfWeek}
    IN  IF k \in DOMAIN s.cache THEN s
        ELSE [s EXCEPT !.cache = [m \in DOMAIN @ \cup {k} |->
                                     IF m = k THEN days ELSE s.cache[m]]]

\* A month without a day, and one without a later day, are nudged the same way.
RECURSIVE FindDate(_)
FindDateIn(c) ==
    LET later == Later(c.t.day, c.cache[MonthAt(c)])
    IN  IF later # {} THEN [c EXCEPT !.t.day = Min(later)]
        ELSE FindDate([NudgeMonth(c) EXCEPT !.t.day = 0])

FindDate(s) == IF Failed(s) THEN s ELSE FindDateIn(Interpolated(s))

DateIsSet(d) ==
    IF Failed(d) \/ ~Stepped(d, "hour") THEN d
    ELSE IF ~HourStampIsDue(d.field["hour"], ToTime(d.t))
    THEN Fail(d, "endless")
    ELSE UpdateField(d, "hour", d.field["hour"].stamp)

NudgeDate(s) == DateIsSet(FindDate(s))

HourIsSet(h) ==
    IF Failed(h) \/ ~Stepped(h, "minute") THEN h
    ELSE IF ~MinuteStampIsDue(h.field["minute"], ToTime(h.t))
    THEN Fail(h, "endless")
    ELSE UpdateField(h, "minute", h.field["minute"].stamp)

NudgeHour(s) == HourIsSet(Advance(s, "hour", NudgeDate(s)))

NudgeMinute(s) == IF Failed(s) THEN s ELSE Advance(s, "minute", NudgeHour(s))

\* getNext: where a part of the time is not allowed it is nudged, and the
\* parts below start over.
FixYear(s) == IF trigger.year > s.t.year
              THEN [NudgeYear(s, trigger.year) EXCEPT !.t.month = 0] ELSE s
FixMonth(s) == IF Failed(s) \/ s.t.month \in s.field["month"].list THEN s
               ELSE [NudgeMonth(s) EXCEPT !.t.day = 0]
\* The hour is kept on another day.
FixDateOnly(s) ==
    IF Failed(s) THEN s
    ELSE LET c == Interpolated(s)
         IN  IF c.t.day \in c.cache[MonthAt(c)] THEN c ELSE NudgeDate(c)

FixDate(s) ==
    IF Failed(s) THEN s
    ELSE LET c == Interpolated(s)
         IN  IF c.t.day \in c.cache[MonthAt(c)] THEN c ELSE [NudgeDate(c) EXCEPT !.t.hour = -1]
FixHour(s) == IF Failed(s) \/ s.t.hour \in s.field["hour"].list THEN s
              ELSE [NudgeHour(s) EXCEPT !.t.minute = -1]

GetNext(s) == NudgeMinute(FixHour(FixDate(FixMonth(FixYear(s)))))

-----------------------------------------------------------------------------
Init ==
    /\ trigger \in Triggers
    /\ start \in Times
    /\ now \in Times
    /\ field = <<>>
    /\ cache = <<>>
    /\ target = start
    /\ from = start
    /\ date = start
    /\ calls = 0
    /\ steps = 0
    /\ pc = "new"

\* Is there a day the day-of-month and month fields agree on? The years are
\* those of the search, or the one of a one time trigger.
HasDay(f) ==
    \E y \in IF trigger.year # NoYear THEN {trigger.year}
             ELSE Year(start)..(Year(TargetDate(now)) + YearThreshold) :
        \E m \in f["month"].list : \E d \in f["day"].list : d <= MonthLength(y, m)

Valid ==
    /\ \A name \in Fields : \A r \in RangesOf(trigger[name]) :
           InRange(r, Lowest[name], Highest[name])
    /\ \A r \in RangesOf(trigger.weekday) : InRange(r, 0, DaysPerWeek)
    /\ trigger.weeks >= DaysPerWeek => trigger.weeks % DaysPerWeek = 0

EveryDay(f) == f["day"].list = 1..MaxDay

\* The constructor.
Parse ==
    /\ pc = "new"
    /\ LET f == [name \in Fields |-> ParsedField(trigger[name], name)]
       IN  IF Valid /\ (SkipsWeeks => EveryDay(f)) /\ HasDay(f)
           THEN field' = f /\ pc' = "ready"
           ELSE UNCHANGED field /\ pc' = "rejected"
    /\ UNCHANGED <<trigger, start, now, cache, target, from, date, calls, steps>>

\* next() is called, at once or later, or next(currentDate), with the answer of the
\* call before, or the start date, as Main.getNext does.
CallNext ==
    /\ pc = "ready"
    /\ calls < MaxCalls
    /\ calls' = calls + 1
    /\ steps' = 0
    /\ now' \in {n \in Times : n >= now}
    /\ \E current \in {now', date} : target' = TargetDate(current)
    /\ from' = start - 1
    /\ date' = start - 1
    /\ pc' = "calc"
    /\ UNCHANGED <<trigger, start, field, cache>>

\* isIntegralMultipleWeeksLater, and a date it is given up at.
InStep(n) == (WeekNumber(n) - WeekNumber(from)) % SkipWeekCount = 0

\* What the loops of next and of the jump of weeks make of the date n.
Arrive(n) ==
    LET goesOn == SkipsWeeks /\ ~InStep(n) /\ ~OutOfRange(n)
    IN  /\ date' = n
        /\ from' = IF goesOn THEN from ELSE n
        /\ pc' = IF goesOn \/ n <= target THEN "calc" ELSE "ready"

\* getNext once.
Calculate ==
    /\ pc = "calc"
    /\ \E s \in {GetNext([t |-> FromTime[date], field |-> field, cache |-> cache,
                          fault |-> "none"])} :
           /\ field' = s.field
           /\ cache' = s.cache
           /\ IF Failed(s) THEN pc' = s.fault /\ UNCHANGED <<date, from>>
              ELSE Arrive(ToTime(s.t))
    /\ steps' = steps + 1
    /\ UNCHANGED <<trigger, start, now, target, calls>>

Next == Parse \/ CallNext \/ Calculate

Spec == Init /\ [][Next]_vars

-----------------------------------------------------------------------------
(* Properties.                                                             *)

\* The variables hold what the code's types and its calendar allow: the lists of
\* the fields stay within what their parts of a time can be, whatever ranges,
\* steps and stamps they are made from.
TypeOK ==
    /\ trigger \in Triggers /\ {start, now} \subseteq Times
    /\ {target, from, date, calls, steps} \subseteq Nat /\ calls <= MaxCalls
    /\ pc \in {"new", "ready", "calc", "rejected", "year out of range",
               "index out of bounds", "endless"}
    /\ pc \notin {"new", "rejected"} =>
           \A name \in Fields : field[name].list \subseteq Lowest[name]..Highest[name]
    /\ \A k \in DOMAIN cache : cache[k] \subseteq 1..Days(k)

\* What a trigger without steps asks for, read off its text: the times of its
\* ranges and days of the week, in its year and every so many weeks.
Plain == \A name \in Fields : \A r \in RangesOf(trigger[name]) : r.step = 1

IsAskedFor(n) ==
    LET t == FromTime[n]
    IN  /\ \A name \in Fields : \E r \in RangesOf(trigger[name]) : t[name] \in r.first..r.last
        /\ DayOfWeek(DayNumber(n)) \in DaysOfWeek
        /\ trigger.year # NoYear => t.year = trigger.year
        /\ (WeekNumber(n) - WeekNumber(start - 1)) % SkipWeekCount = 0

LastMinute(year) == FirstDay[MonthOf(year + 1, 1)] * DayLength - 1

Due == {n \in (target + 1)..LastMinute(Year(TargetDate(now)) + YearThreshold) : IsAskedFor(n)}

\* next() promises the nearest time the trigger asks for that is later than now
\* and not before its start. With months that have no such day, a week the
\* trigger skips, a cache of the months seen and carries from minute to year, it
\* neither skips one nor gives up while there is one, on the first call of a
\* parser and on a later one.
NextIsNearest ==
    calls > 0 /\ pc # "calc" /\ Plain =>
        \/ pc = "ready" /\ date > target /\ IsAskedFor(date)
           /\ \A n \in (target + 1)..(date - 1) : ~IsAskedFor(n)
        \/ Due = {}

\* What the parser answers, and the lists and the cache it finds it with, are
\* right on the first call and on a later one.
AnswersAreRight == TypeOK /\ NextIsNearest

\* Every search ends: each round of the loops of next and of the jump of weeks
\* comes at least a minute nearer to the target or the year it is given up in, and
\* none of the loops that move a stamp goes on for ever, whatever the steps, and
\* whatever stamps and lists an earlier call has left.
SearchAdvances ==
    /\ pc # "endless"
    /\ pc \in {"calc", "ready"} => date >= start - 1 + steps

\* getFieldList is documented as the list of "all valid numbers of a specified
\* field": a list holds values of the ranges of its field only, and never none.
ListsKeepToRanges ==
    pc \notin {"new", "rejected"} =>
        \A name \in Fields :
            /\ field[name].list # {}
            /\ \A v \in field[name].list :
                   \E r \in RangesOf(trigger[name]) : v \in r.first..r.last

=============================================================================
