------------------------------ MODULE Calendar ------------------------------
(***************************************************************************)
(* Dates as the server computes with them: Luxon in the zone of Nairobi,   *)
(* which has no summer time, so that a date is the number of its day.      *)
(* Day 1 is the 1st of January of FirstYear, month 0 is that January.      *)
(***************************************************************************)
EXTENDS Integers, FiniteSetsExt

CONSTANTS
    FirstYear,      \* the year the calendar begins with
    FirstWeekday,   \* the weekday of its first day, 1 for Monday
    Horizon         \* the number of months in it

ASSUME CalendarAssumption ==
    /\ FirstYear \in Nat
    /\ FirstWeekday \in 1..7
    /\ Horizon \in Nat \ {0}

Months == 0..(Horizon - 1)

IsLeap(year) == year % 4 = 0 /\ (year % 100 # 0 \/ year % 400 = 0)
YearOfMonth(m) == FirstYear + m \div 12

DaysIn(m) ==
    CASE m % 12 \in {3, 5, 8, 10} -> 30
      [] m % 12 = 1 -> IF IsLeap(YearOfMonth(m)) THEN 29 ELSE 28
      [] OTHER -> 31

Total(f) == MapThenSumSet(LAMBDA x : f[x], DOMAIN f)

\* The first day of each month, and of the one after the last.
FirstOf == [m \in 0..Horizon |-> 1 + Total([k \in 0..(m - 1) |-> DaysIn(k)])]

\* periodEnd: endOf('month')
PeriodEnd(m) == FirstOf[m + 1] - 1

Dates == 1..PeriodEnd(Horizon - 1)
MonthOn == [day \in Dates |-> CHOOSE m \in Months : FirstOf[m] <= day /\ day < FirstOf[m + 1]]
MonthOf(day) == MonthOn[day]
YearOf(day) == YearOfMonth(MonthOf(day))
DayOfMonth(day) == day - FirstOf[MonthOf(day)] + 1
Weekday(day) == ((FirstWeekday + day - 2) % 7) + 1

\* minus({ months }): the same day of the month, or its last when it is shorter; day 0
\* stands for every day before the first.
MinusMonths(day, n) ==
    LET m == MonthOf(day) - n
    IN IF m < 0 THEN 0
       ELSE FirstOf[m] - 1 + (IF DayOfMonth(day) <= DaysIn(m) THEN DayOfMonth(day) ELSE DaysIn(m))

\* Mutant: the day after is added once too often.
StartTooLate(months, asOf) == MinusMonths(asOf, months) + 2

\* rollingStart
RollingStart(months, asOf) == MinusMonths(asOf, months) + 1
-----------------------------------------------------------------------------
(***************************************************************************)
(* The dates of a recurring event (src/src/routes/admin-events.ts).        *)
(***************************************************************************)
\* The first day from the given one on that has the weekday.
NextWeekday(day, weekday) == day + ((weekday - Weekday(day) + 7) % 7)

WeeklyDates(start, end, weekday) ==
    {day \in start..end : \E week \in 0..60 : day = NextWeekday(start, weekday) + 7 * week}

\* Mutant: the fifth of a month is the fifth, and a month with four has none.
FifthOnly(inMonth, ordinal) ==
    LET n == Cardinality(inMonth)
    IN {day \in inMonth : ordinal <= n /\ Cardinality({d \in inMonth : d <= day}) = ordinal}

\* inMonth[ordinal - 1], and the last of the month for 5.
Picked(inMonth, ordinal) ==
    LET n == Cardinality(inMonth)
    IN {day \in inMonth : Cardinality({d \in inMonth : d <= day})
                            = IF ordinal = 5 THEN n ELSE ordinal}

MonthlyOrdinalDates(start, end, weekday, ordinals) ==
    LET InMonth(m) == {day \in FirstOf[m]..PeriodEnd(m) :
                         \E week \in 0..4 : day = NextWeekday(FirstOf[m], weekday) + 7 * week}
        Reached == {m \in Months : m >= MonthOf(start) /\ FirstOf[m] <= end}
    IN (start..end) \cap UNION {Picked(InMonth(m), ordinal) : m \in Reached, ordinal \in ordinals}

\* What the calendar of the association says: every such weekday, or the n-th of
\* each month, the fifth standing for the last.
IsOccasion(day, weekday, ordinals) ==
    /\ Weekday(day) = weekday
    /\ \/ (DayOfMonth(day) + 6) \div 7 \in ordinals \ {5}
       \/ 5 \in ordinals /\ DayOfMonth(day) + 7 > DaysIn(MonthOf(day))
=============================================================================
