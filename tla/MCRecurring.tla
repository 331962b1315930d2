---------------------------- MODULE MCRecurring ----------------------------
(* Recurring with periods of two days, so that today may be before or      *)
(* after the day of the run within one period.                             *)
EXTENDS Recurring

CONSTANTS b1, b2

Half(d) == d \div 2
TwoDays(d) == d + 2
SameDay(d) == d
NoEnd == {-1}
ASSUME OrderlyCalendar == Orderly

=============================================================================
