------------------------------ MODULE MCMoneyIn ------------------------------
(* Instances of MoneyIn: two invoices, a few receipts of a few paise.      *)
EXTENDS MoneyIn, TLC

CONSTANTS i1, i2, r1, r2, f1, Typed    \* Typed: names of the entries used

TwoBills == [i \in Invoices |-> IF i = i1 THEN 1 ELSE 3]
Ordered == SelectSeq(<<i1, i2>>, LAMBDA i : i \in Invoices)

(* The receipts of the runs: cash on account, and cheques for one invoice  *)
(* with a discount and for the oldest invoices with a discount and TDS.    *)
EntryOf(name) ==
    CASE name = "advance" ->
            [amount |-> 3, discount |-> 0, tds |-> 0, cheque |-> FALSE, date |-> "today",
             plan |-> "advance", want |-> 1]
      [] name = "named" ->
            [amount |-> 2, discount |-> 1, tds |-> 0, cheque |-> TRUE, date |-> "past",
             plan |-> i2, want |-> 1]
      [] name = "oldest" ->
            [amount |-> 3, discount |-> 1, tds |-> 1, cheque |-> TRUE, date |-> "past",
             plan |-> "oldest", want |-> 1]

TypedIn == {EntryOf(name) : name \in Typed}

Symmetric == Permutations(Receipts)

=============================================================================
