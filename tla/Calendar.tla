------------------------------- MODULE Calendar -----------------------------
(***************************************************************************)
(* Days and weeks as the reports count them (capacity/services.py): a day  *)
(* is its distance from today, a week its distance from this ISO week,     *)
(* which begins on a Monday.                                               *)
(***************************************************************************)
EXTENDS Integers, FiniteSets, FiniteSetsExt, Functions

CONSTANTS NoDate,    \* a date column that is NULL
          Weekday    \* today's weekday, 0 is Monday

ASSUME CalendarAssumption == Weekday \in 0 .. 6
ASSUME NoDateAssumption == NoDate \notin Int

Monday(week)  == 7 * week - Weekday
WeekOf(day)   == (day + Weekday) \div 7
PeriodWeeks(from, n) == WeekOf(from) .. WeekOf(from) + n - 1

IsBefore(day, other) == day # NoDate /\ (IF other = NoDate THEN TRUE ELSE day < other)
EarliestOf(days) == IF days \subseteq {NoDate} THEN NoDate ELSE Min(days \ {NoDate})

Total(S, F(_)) == SumFunction([x \in S |-> F(x)])
Floor(x) == IF x > 0 THEN x ELSE 0
=============================================================================
