-------------------------------- MODULE Sums --------------------------------
(* SQL's Sum: the total of a column over the rows a query selects.  A row  *)
(* that is not selected contributes 0.                                     *)
EXTENDS Integers

Fn == INSTANCE Functions

Sum(f) == Fn!SumFunction(f)

=============================================================================
