----------------------------- MODULE MoneyLedger -----------------------------
(***************************************************************************)
(* What the money services promise each other: receipts, refunds of their  *)
(* unspent cash, allocations to invoices and credit notes change as if     *)
(* every service call were one atomic step.  MoneyLocks, where a call is a *)
(* sequence of statements under row locks, implements this.                *)
(***************************************************************************)
EXTENDS Naturals

CONSTANTS Receipts, Invoices, Cash, Bill, Sum(_)

VARIABLES posted, refunds, live, open, credit

ledger == <<posted, refunds, live, open, credit>>

Spent(r) == refunds[r] + Sum(live[r])
Taken(i) == credit[i] + Sum([r \in Receipts |-> live[r][i]])

(* No receipt is spent beyond its cash, no invoice settled beyond its      *)
(* amount; what is voided or cancelled carries no allocation.              *)
Sound ==
    /\ \A r \in Receipts : Spent(r) <= Cash[r]
    /\ \A i \in Invoices : Taken(i) <= Bill[i]
    /\ \A r \in Receipts, i \in Invoices : live[r][i] > 0 => posted[r] /\ open[i]

LedgerInit ==
    /\ posted = [r \in Receipts |-> TRUE]
    /\ refunds = [r \in Receipts |-> 0]
    /\ live = [r \in Receipts |-> [i \in Invoices |-> 0]]
    /\ open = [i \in Invoices |-> TRUE]
    /\ credit = [i \in Invoices |-> 0]

(* Allocations of one receipt are added or reversed.                       *)
Apply(r) ==
    /\ posted[r]
    /\ live' = [live EXCEPT ![r] = live'[r]]
    /\ UNCHANGED <<posted, refunds, open, credit>>

(* Unspent cash is handed back, or such a refund is voided.                *)
GiveBack(r) ==
    /\ posted[r]
    /\ refunds' = [refunds EXCEPT ![r] = refunds'[r]]
    /\ UNCHANGED <<posted, live, open, credit>>

Void(r) ==
    /\ refunds[r] = 0
    /\ posted' = [posted EXCEPT ![r] = FALSE]
    /\ live' = [live EXCEPT ![r] = [i \in Invoices |-> 0]]
    /\ UNCHANGED <<refunds, open, credit>>

Cancel(i) ==
    /\ Taken(i) = 0
    /\ open' = [open EXCEPT ![i] = FALSE]
    /\ UNCHANGED <<posted, refunds, live, credit>>

(* A credit note takes the place of allocations that no longer fit.        *)
Credit(i) ==
    /\ open[i]
    /\ credit' = [credit EXCEPT ![i] = credit'[i]]
    /\ \A r \in Receipts : live'[r] = [live[r] EXCEPT ![i] = live'[r][i]]
    /\ \A r \in Receipts : live'[r][i] <= live[r][i]
    /\ UNCHANGED <<posted, refunds, open>>

LedgerNext ==
    /\ \/ \E r \in Receipts : Apply(r) \/ GiveBack(r) \/ Void(r)
       \/ \E i \in Invoices : Cancel(i) \/ Credit(i)
    /\ Sound'

LedgerSpec == LedgerInit /\ [][LedgerNext]_ledger

=============================================================================
