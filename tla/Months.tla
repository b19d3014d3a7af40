-------------------------------- MODULE Months --------------------------------
(***************************************************************************)
(* Half-open date ranges walked month by month.  A date is <<month number,  *)
(* day>>; months are numbered on through the years.                         *)
(***************************************************************************)
EXTENDS Integers, Sequences

CONSTANTS
  DaysIn,        \* month number -> its length
  MonthsPerYear  \* twelve

ASSUME MonthsAssumption ==
  /\ MonthsPerYear \in Nat \ {0}
  /\ DOMAIN DaysIn \subseteq Int /\ \A m \in DOMAIN DaysIn : DaysIn[m] \in Nat \ {0}

Before(a, b) == a[1] < b[1] \/ (a[1] = b[1] /\ a[2] < b[2])

\* Mutant: a day that a short month lacks runs over into the next month.
AddMonthsSpilling(start, n) ==
  LET month == start[1] + n
  IN IF start[2] <= DaysIn[month] THEN <<month, start[2]>>
     ELSE <<month + 1, start[2] - DaysIn[month]>>

\* add_months: clamped to the end of a short month.
AddMonths(start, n) ==
  LET month == start[1] + n
  IN <<month, IF start[2] < DaysIn[month] THEN start[2] ELSE DaysIn[month]>>

\* DateRange.month_count: an anniversary past the end is not counted.
MonthCount(start, end) ==
  LET elapsed == end[1] - start[1]
  IN IF elapsed > 0 /\ Before(end, AddMonths(start, elapsed)) THEN elapsed - 1 ELSE elapsed

\* DateRange.months: every step is computed from the start.
Anchors(start, end) == [i \in 1..MonthCount(start, end) |-> AddMonths(start, i - 1)]

(* A horizon of n whole months (DateRange.of_months, month_count, months)   *)
(* has n anchors, one in each calendar month, all inside the range and in   *)
(* order, whatever day of the month it begins on.                           *)
StepsThroughEveryMonth(start, n) ==
  LET end == AddMonths(start, n)
      anchors == Anchors(start, end)
  IN /\ Len(anchors) = n
     /\ \A i \in 1..n :
          /\ anchors[i][1] = start[1] + i - 1
          /\ ~Before(anchors[i], start) /\ Before(anchors[i], end)
          /\ i > 1 => Before(anchors[i - 1], anchors[i])
=============================================================================
