---------------------------- MODULE MCMoneyLocks ----------------------------
(* Instances of MoneyLocks.                                                *)
EXTENDS MoneyLocks, TLC

CONSTANTS r1, r2, i1, i2, t1, t2

TwoReceipts == r1 :> 2 @@ r2 :> 1
TwoInvoices == i1 :> 2 @@ i2 :> 1
OneFirst == <<i1, i2>>

Symmetric == Permutations(Txns)

=============================================================================
