-------------------------- MODULE MCReceiptOutbox --------------------------
(* Instances of ReceiptOutbox: receipt keys are money keys settled by the  *)
(* receipt view; every receipt has one body.                               *)
EXTENDS ReceiptOutbox, TLC

CONSTANTS k1, k2, r1, r2, r3, t1, t2, body

ReceiptKind == [k \in Keys |-> "money"]
ReceiptStyle == [k \in Keys |-> "keep"]
ReceiptBody == [k \in Keys |-> body]

Symmetric == Permutations(Requests) \cup Permutations(Tabs)

=============================================================================
