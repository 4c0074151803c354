---------------------------- MODULE MCCrontabParser ----------------------------
(* A calendar of two months, of which the first is a day longer in every    *)
(* second year, of weeks of three days and days of three hours.             *)
EXTENDS CrontabParser

Length(y, m) == IF m = 1 /\ y % 2 = 1 THEN 2 ELSE 3

Only(v) == <<[first |-> v, last |-> v, step |-> 1]>>
From(v, w, z) == <<[first |-> v, last |-> w, step |-> z]>>

EveryHour == [minute |-> Only(0), hour |-> From(0, 2, 1), day |-> From(1, 3, 1),
              month |-> From(1, 2, 1), weekday |-> From(0, 3, 1), weeks |-> 0, year |-> 0]

PlainTriggers ==
    {EveryHour,
     [EveryHour EXCEPT !.minute = From(0, 1, 1)],
     [EveryHour EXCEPT !.hour = Only(0) \o Only(2), !.minute = Only(1)],
     [EveryHour EXCEPT !.hour = Only(2), !.weekday = Only(3), !.minute = Only(1)],
     [EveryHour EXCEPT !.hour = Only(1), !.day = Only(3), !.month = Only(1)],
     [EveryHour EXCEPT !.hour = Only(1), !.day = Only(3), !.weekday = Only(1)],
     [EveryHour EXCEPT !.hour = Only(0), !.weekday = From(1, 2, 1), !.weeks = 6],
     [EveryHour EXCEPT !.hour = Only(2), !.weekday = Only(0), !.weeks = 9],
     [EveryHour EXCEPT !.day = Only(2), !.weekday = Only(0), !.weeks = 6],
     [EveryHour EXCEPT !.hour = Only(1), !.day = From(2, 3, 1), !.year = 3],
     [EveryHour EXCEPT !.day = Only(3), !.month = Only(1), !.year = 3],
     [EveryHour EXCEPT !.hour = From(2, 1, 1)]}

SteppedTriggers ==
    {[EveryHour EXCEPT !.minute = From(0, 1, 2), !.hour = From(0, 2, 2)],
     [EveryHour EXCEPT !.hour = From(0, 2, 2), !.day = From(1, 3, 2)],
     [EveryHour EXCEPT !.hour = From(0, 1, 2)],
     [EveryHour EXCEPT !.day = From(1, 3, 2), !.hour = Only(0) \o From(1, 2, 2)],
     [EveryHour EXCEPT !.day = From(2, 3, 2), !.month = From(1, 2, 2)],
     [EveryHour EXCEPT !.hour = Only(1), !.month = From(1, 2, 2), !.year = 3]}

AllTriggers == PlainTriggers \cup SteppedTriggers

\* The last minute of the first year, the second and half of the third.
Instants == {FirstDay[MonthOf(2, 1)] * DayLength + k : k \in -1..50}
=============================================================================
