------------------------------ MODULE RunDates ------------------------------
(***************************************************************************)
(* The calendar of a monthly schedule (backend/sales/recurring.py) whose   *)
(* runs are due at midnight in India, as a contract creates it             *)
(* (backend/contracts/services.py).  The period is that of the local date, *)
(* but next_run_at comes from the database in UTC, where that midnight is  *)
(* 18:30 of the day before, and the month is added there.                  *)
(*                                                                         *)
(* Day 1 is the first of September; the year is a common one.              *)
(***************************************************************************)
EXTENDS Integers, Sequences

Lengths == <<30, 31, 30, 31, 31, 28, 31, 30>>    \* September to April

Months == 1 .. Len(Lengths)

(* The last day of the month before m.                                     *)
Before[m \in Months] == IF m = 1 THEN 0 ELSE Before[m - 1] + Lengths[m - 1]

MonthOf(d) == CHOOSE m \in Months : Before[m] < d /\ d <= Before[m] + Lengths[m]

PeriodKeyFor(d) == IF d = 0 THEN 0 ELSE MonthOf(d)

(* advance_next_run on a date, without anchor day.                         *)
AddMonth(u) ==
    LET m == MonthOf(u)
        day == u - Before[m]
    IN  Before[m + 1] + (IF day < Lengths[m + 1] THEN day ELSE Lengths[m + 1])

DayBefore(d) == d - 1

(* What the code does: a month later in UTC, one day behind the local date.*)
AdvanceInUtc(d) == IF d <= 1 THEN d + 31 ELSE AddMonth(d - 1) + 1

=============================================================================
