----------------------------- MODULE MoneyLocks -----------------------------
(***************************************************************************)
(* The money services (backend/payments/services.py, the credit notes of   *)
(* backend/sales/notes_services.py) at the grain of their SQL statements.  *)
(*                                                                         *)
(* A service call is a database transaction at READ COMMITTED: it waits    *)
(* for a row lock, reads what is committed at that moment and what it      *)
(* wrote itself, and its own writes appear when it commits.  Locks are     *)
(* kept until the end, or until a savepoint is rolled back.  When          *)
(* transactions wait for each other in a circle the database rolls one of  *)
(* them back.                                                              *)
(*                                                                         *)
(* An allocation row is named by its receipt and invoice; of the rows with *)
(* that name at most one is live.  Discounts, TDS, cheque states, periods  *)
(* and journals are those of MoneyIn and play no part in the locking.      *)
(***************************************************************************)
EXTENDS Sequences, FiniteSets, Sums

CONSTANTS
    Receipts, Invoices, Txns,
    Cash,          \* Cash[r]: amount of receipt r
    Bill,          \* Bill[i]: amount of invoice i
    Oldest,        \* the invoices, oldest due date first
    None

VARIABLES
    posted,    \* posted[r]: the receipt is POSTED, not VOIDED
    refunds,   \* refunds[r]: cash of r handed back
    live,      \* live[r][i]: amount of the live allocation, 0 if there is none
    open,      \* open[i]: the invoice is COMPLETED, not CANCELLED
    credit,    \* credit[i]: completed credit notes
    owner,     \* owner[row]: the transaction that has locked the row
    txn        \* txn[t]: where the transaction is

ledger == <<posted, refunds, live, open, credit>>
vars == <<ledger, owner, txn>>

Slots == Receipts \X Invoices
Rows == Receipts \cup Invoices \cup Slots

ASSUME LocksAssumption ==
    /\ Cash \in [Receipts -> Nat] /\ Bill \in [Invoices -> Nat]
    /\ Oldest \in Seq(Invoices)
    /\ None \notin Txns /\ None \notin Nat
    /\ IsFiniteSet(Receipts) /\ IsFiniteSet(Invoices)
    /\ Receipts \cap Invoices = {} /\ Slots \cap (Receipts \cup Invoices) = {}

NoWrites == [r \in Receipts |-> [i \in Invoices |-> None]]

Idle == [op |-> "none", pc |-> "idle", r |-> None, i |-> None, x |-> 0, take |-> 0, rest |-> 0,
         need |-> {}, plan |-> <<>>, writes |-> NoWrites]

Init ==
    /\ posted = [r \in Receipts |-> TRUE]
    /\ refunds = [r \in Receipts |-> 0]
    /\ live = [r \in Receipts |-> [i \in Invoices |-> 0]]
    /\ open = [i \in Invoices |-> TRUE]
    /\ credit = [i \in Invoices |-> 0]
    /\ owner = [row \in Rows |-> None]
    /\ txn = [t \in Txns |-> Idle]

-----------------------------------------------------------------------------
(* What transaction t reads: committed rows, and its own on top.           *)
Merged(w) == [r \in Receipts |-> [i \in Invoices |-> IF w[r][i] = None THEN live[r][i] ELSE w[r][i]]]

Seen(t) == Merged(txn[t].writes)

Minus(m, n) == IF m < n THEN 0 ELSE m - n
Lesser(m, n) == IF m < n THEN m ELSE n

Available(t, r) == Minus(Cash[r], refunds[r] + Sum(Seen(t)[r]))
Outstanding(t, i) == Minus(Bill[i], credit[i] + Sum([r \in Receipts |-> Seen(t)[r][i]]))

At(t, step) == txn[t].pc = step

Goto(t, step) == txn' = [txn EXCEPT ![t].pc = step]

(* Go on at step once the rows of need are locked.                         *)
LockThen(t, need, step) == txn' = [txn EXCEPT ![t].pc = step, ![t].need = need]

Ready(t, step) == At(t, step) /\ txn[t].need = {}

Freed(t) == [row \in Rows |-> IF owner[row] = t THEN None ELSE owner[row]]

-----------------------------------------------------------------------------
(* Locks, commit and rollback: the database.  One SELECT FOR UPDATE may    *)
(* meet its rows in any order.                                             *)

Lock(t, row) ==
    /\ row \in txn[t].need
    /\ owner[row] \in {None, t}
    /\ owner' = [owner EXCEPT ![row] = t]
    /\ txn' = [txn EXCEPT ![t].need = @ \ {row}]
    /\ UNCHANGED ledger

Rollback(t) ==
    /\ owner' = Freed(t)
    /\ txn' = [txn EXCEPT ![t] = Idle]
    /\ UNCHANGED ledger

(* A circle of transactions, each of which waits for another's row.        *)
Deadlocked(t) ==
    \E S \in SUBSET Txns :
        /\ t \in S
        /\ \A u \in S : \E row \in txn[u].need : owner[row] \in S \ {u}

Abort(t) == Deadlocked(t) /\ Rollback(t)

Commit(t) ==
    LET x == txn[t].x
        Is(op) == txn[t].op = op
        r == txn[t].r
        i == txn[t].i
    IN  /\ Ready(t, "commit")
        /\ live' = Merged(txn[t].writes)
        /\ posted' = IF Is("void") THEN [posted EXCEPT ![r] = FALSE] ELSE posted
        /\ refunds' = IF Is("refund") THEN [refunds EXCEPT ![r] = @ + x]
                      ELSE IF Is("unrefund") THEN [refunds EXCEPT ![r] = @ - x]
                      ELSE refunds
        /\ open' = IF Is("cancel") THEN [open EXCEPT ![i] = FALSE] ELSE open
        /\ credit' = IF Is("credit") THEN [credit EXCEPT ![i] = @ + x] ELSE credit
        /\ owner' = Freed(t)
        /\ txn' = [txn EXCEPT ![t] = Idle]

-----------------------------------------------------------------------------
(* The calls.  Each starts in a transaction of its own.                    *)

Start(t, call) ==
    /\ At(t, "idle")
    /\ txn' = [txn EXCEPT ![t] = call]
    /\ UNCHANGED <<ledger, owner>>

Call(op, r, i, x, need, step) ==
    [op |-> op, pc |-> step, r |-> r, i |-> i, x |-> x, take |-> x, rest |-> 0,
     need |-> need, plan |-> <<>>, writes |-> NoWrites]

(* allocate_receipt: the invoice, then the receipt.                        *)
BeginAllocate(t, r, i, x) == Start(t, Call("allocate", r, i, x, {i}, "receipt"))

(* allocate_receipt_oldest_first of a receipt nobody has locked: what is   *)
(* left to spend is read once, at the start.                               *)
BeginBulk(t, r) ==
    /\ posted[r]
    /\ Start(t, [Call("bulk", r, None, 0, {}, "next") EXCEPT !.plan = Oldest, !.rest = Available(t, r)])

(* set_cheque_status locks the receipt first and then applies the plan     *)
(* that came with the cheque: one invoice, or the oldest first.            *)
BeginClear(t, r, plan) ==
    Start(t, [Call("clear", r, None, 0, {r}, "clear") EXCEPT !.plan = plan])

BeginVoid(t, r) == Start(t, Call("void", r, None, 0, {r}, "void"))

(* reverse_allocation locks the allocation and nothing else.               *)
BeginReverse(t, r, i) ==
    /\ live[r][i] > 0
    /\ Start(t, Call("reverse", r, i, 0, {<<r, i>>}, "reverse"))

BeginCancel(t, i) == Start(t, Call("cancel", None, i, 0, {i}, "cancel"))

BeginRefund(t, r, x) == Start(t, Call("refund", r, None, x, {r}, "refund"))

(* void_advance_refund locks the refund with its receipt.                  *)
BeginUnrefund(t, r, x) ==
    /\ x <= refunds[r]
    /\ Start(t, Call("unrefund", r, None, x, {r}, "unrefund"))

(* complete_credit_note of a note over x, which nobody else completes.     *)
BeginCredit(t, i, x) == Start(t, Call("credit", None, i, x, {i}, "credit"))

-----------------------------------------------------------------------------
(* allocate_receipt: the invoice is locked, now the receipt.               *)
LockReceipt(t) ==
    /\ Ready(t, "receipt")
    /\ LockThen(t, {txn[t].r}, "check")
    /\ UNCHANGED <<ledger, owner>>

Acceptable(t) ==
    /\ open[txn[t].i] /\ posted[txn[t].r]
    /\ txn[t].take <= Available(t, txn[t].r)
    /\ txn[t].take <= Outstanding(t, txn[t].i)

(* Mutant: the rules are those of the objects the caller passed.           *)
Check_Unread(t) ==
    /\ Ready(t, "check")
    /\ LockThen(t, {<<txn[t].r, txn[t].i>>}, "insert")
    /\ UNCHANGED <<ledger, owner>>

Check(t) ==
    /\ Ready(t, "check")
    /\ Acceptable(t)
    /\ LockThen(t, {<<txn[t].r, txn[t].i>>}, "insert")
    /\ UNCHANGED <<ledger, owner>>

(* A rule is broken.  Clearing a cheque catches that and rolls back to its *)
(* savepoint: the cheque clears, the money stays an advance.               *)
Refuse(t) ==
    /\ Ready(t, "check")
    /\ ~Acceptable(t)
    /\ IF txn[t].op = "clear"
       THEN /\ owner' = [Freed(t) EXCEPT ![txn[t].r] = t]
            /\ txn' = [txn EXCEPT ![t].pc = "commit", ![t].writes = NoWrites]
            /\ UNCHANGED ledger
       ELSE Rollback(t)

(* The INSERT, which the unique constraint lets through only if the        *)
(* receipt has no live allocation to the invoice.                          *)
Insert(t) ==
    LET c == txn[t] IN
    /\ Ready(t, "insert")
    /\ IF Seen(t)[c.r][c.i] > 0
       THEN Rollback(t)
       ELSE /\ txn' = [txn EXCEPT ![t].writes[c.r][c.i] = c.take,
                                  ![t].rest = Minus(@, c.take),
                                  ![t].pc = CASE c.op = "allocate" -> "commit"
                                              [] c.op = "credit" -> "peel"
                                              [] OTHER -> "next"]
            /\ UNCHANGED <<ledger, owner>>

(* apply_intent_on_clear, with the receipt locked.                         *)
Clear(t) ==
    /\ Ready(t, "clear")
    /\ IF posted[txn[t].r]
       THEN txn' = [txn EXCEPT ![t].pc = "next", ![t].rest = Available(t, txn[t].r)]
       ELSE Goto(t, "commit")
    /\ UNCHANGED <<ledger, owner>>

(* The loop of allocate_receipt_oldest_first: the balance is read before   *)
(* the invoice is locked.                                                  *)
NextBill(t) ==
    /\ Ready(t, "next")
    /\ IF txn[t].plan = <<>> \/ txn[t].rest = 0
       THEN Goto(t, "commit")
       ELSE LET i == Head(txn[t].plan)
                take == IF open[i] THEN Lesser(txn[t].rest, Outstanding(t, i)) ELSE 0
            IN  txn' = IF take = 0
                       THEN [txn EXCEPT ![t].plan = Tail(@)]
                       ELSE [txn EXCEPT ![t].plan = Tail(@), ![t].i = i, ![t].take = take,
                                        ![t].need = {i}, ![t].pc = "receipt"]
    /\ UNCHANGED <<ledger, owner>>

(* void_receipt: refused for a voided receipt or one with refunds, else    *)
(* its live allocations are locked and reversed.                           *)
Void(t) ==
    LET r == txn[t].r IN
    /\ Ready(t, "void")
    /\ IF posted[r] /\ refunds[r] = 0
       THEN /\ LockThen(t, {<<r, i>> : i \in {j \in Invoices : live[r][j] > 0}}, "erase")
            /\ UNCHANGED <<ledger, owner>>
       ELSE Rollback(t)

Erased(t) == [i \in Invoices |-> IF owner[<<txn[t].r, i>>] = t THEN 0 ELSE None]

Erase(t) ==
    /\ Ready(t, "erase")
    /\ txn' = [txn EXCEPT ![t].pc = "commit", ![t].writes[txn[t].r] = Erased(t)]
    /\ UNCHANGED <<ledger, owner>>

(* reverse_allocation: nothing to do if somebody was faster.               *)
Reverse(t) ==
    /\ Ready(t, "reverse")
    /\ txn' = [txn EXCEPT ![t].pc = "commit", ![t].writes[txn[t].r][txn[t].i] = 0]
    /\ UNCHANGED <<ledger, owner>>

(* A call whose rules are checked once and that then commits.              *)
Decide(t, step, rule) ==
    /\ Ready(t, step)
    /\ IF rule
       THEN Goto(t, "commit") /\ UNCHANGED <<ledger, owner>>
       ELSE Rollback(t)

(* SalesInvoiceService.cancel                                              *)
CancelInvoice(t) ==
    LET i == txn[t].i IN
    Decide(t, "cancel", open[i] /\ credit[i] = 0 /\ \A r \in Receipts : live[r][i] = 0)

(* Mutant: the refund is checked against the receipt as it was entered.    *)
RefundAdvance_Gross(t) == Decide(t, "refund", posted[txn[t].r] /\ txn[t].x <= Cash[txn[t].r])

RefundAdvance(t) == Decide(t, "refund", posted[txn[t].r] /\ txn[t].x <= Available(t, txn[t].r))

(* void_advance_refund: a refund that is void already stays as it is.      *)
VoidAdvanceRefund(t) == Decide(t, "unrefund", posted[txn[t].r] /\ txn[t].x <= refunds[txn[t].r])

(* complete_credit_note: what the open balance cannot bear is peeled off   *)
(* the allocations, if the user confirmed it.                              *)
CompleteCreditNote(t, confirmed) ==
    LET i == txn[t].i
        x == txn[t].x
        over == Minus(x, Outstanding(t, i))
    IN  /\ Ready(t, "credit")
        /\ IF open[i] /\ x <= Bill[i] - credit[i] /\ (over = 0 \/ confirmed)
           THEN /\ txn' = [txn EXCEPT ![t].pc = IF over = 0 THEN "commit" ELSE "peel",
                                      ![t].rest = over,
                                      ![t].need = IF over = 0 THEN {}
                                                  ELSE {<<r, i>> : r \in {q \in Receipts : live[q][i] > 0}}]
                /\ UNCHANGED <<ledger, owner>>
           ELSE Rollback(t)

(* The next allocation, as it is now, is reversed; if it was larger than   *)
(* needed the rest of it is allocated anew.                                *)
Peel(t, r) ==
    LET i == txn[t].i
        amount == live[r][i]
        rest == txn[t].rest
    IN  /\ Ready(t, "peel")
        /\ rest > 0
        /\ owner[<<r, i>>] = t /\ txn[t].writes[r][i] = None /\ amount > 0
        /\ txn' = [txn EXCEPT ![t].writes[r][i] = 0,
                              ![t].rest = Minus(rest, amount),
                              ![t].r = r,
                              ![t].take = Minus(amount, rest),
                              ![t].pc = IF amount > rest THEN "receipt" ELSE "peel"]
        /\ UNCHANGED <<ledger, owner>>

(* Enough is peeled off, or nothing is left to peel.                       *)
Peeled(t) ==
    LET i == txn[t].i IN
    /\ Ready(t, "peel")
    /\ \/ txn[t].rest = 0
       \/ \A r \in Receipts : owner[<<r, i>>] = t => txn[t].writes[r][i] # None \/ live[r][i] = 0
    /\ Goto(t, "commit")
    /\ UNCHANGED <<ledger, owner>>

-----------------------------------------------------------------------------
Begin(t) ==
    \/ \E r \in Receipts :
          \/ BeginBulk(t, r) \/ BeginClear(t, r, Oldest) \/ BeginVoid(t, r)
          \/ \E i \in Invoices :
                \/ BeginClear(t, r, <<i>>) \/ BeginReverse(t, r, i)
                \/ \E x \in 1 .. Cash[r] : BeginAllocate(t, r, i, x)
          \/ \E x \in 1 .. Cash[r] : BeginRefund(t, r, x) \/ BeginUnrefund(t, r, x)
    \/ \E i \in Invoices :
          \/ BeginCancel(t, i)
          \/ \E x \in 1 .. Bill[i] : BeginCredit(t, i, x)

Work(t) ==
    \/ \E row \in Rows : Lock(t, row)
    \/ LockReceipt(t) \/ Check(t) \/ Refuse(t) \/ Insert(t)
    \/ Clear(t) \/ NextBill(t)
    \/ Void(t) \/ Erase(t) \/ Reverse(t)
    \/ CancelInvoice(t) \/ RefundAdvance(t) \/ VoidAdvanceRefund(t)
    \/ \E c \in BOOLEAN : CompleteCreditNote(t, c)
    \/ \E r \in Receipts : Peel(t, r)
    \/ Peeled(t)
    \/ Commit(t)

Next == \E t \in Txns : Begin(t) \/ Work(t) \/ Abort(t)

Spec == Init /\ [][Next]_vars

-----------------------------------------------------------------------------
(* Every committed call is one atomic step of MoneyLedger, however its     *)
(* statements interleave with those of others: what it read under its      *)
(* locks is still good enough when it commits (allocate_receipt against    *)
(* reverse_allocation, which locks neither the receipt nor the invoice).   *)
Ledger == INSTANCE MoneyLedger
Atomic == Ledger!LedgerSpec

(* No receipt is spent twice and no invoice settled beyond its amount.     *)
LedgerSound == Ledger!Sound

=============================================================================
