----------------------------- MODULE MCRunDates -----------------------------
(* Recurring with the code's calendar.                                     *)
EXTENDS Recurring, RunDates

CONSTANT b1

NoEnd == {-1}

=============================================================================
