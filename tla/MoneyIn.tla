------------------------------- MODULE MoneyIn -------------------------------
(***************************************************************************)
(* Customer receipts (backend/payments/services.py, PaymentService): money *)
(* comes in as an advance, is allocated to sales invoices, handed back,    *)
(* or voided, cheques clear and bounce, periods close, and every step      *)
(* posts its journal (backend/accounting/services.py, PostingService).     *)
(*                                                                         *)
(* An action is one database transaction.  An operation that allocates in  *)
(* a loop or after another write is several actions during which no other  *)
(* transaction runs: "apply" goes through the invoices, "undo" takes back  *)
(* what a failed transaction wrote.                                        *)
(*                                                                         *)
(* One customer (not the walk-in), receipts entered by a person (no        *)
(* gateway), books switched on.  The receipt's bank match and till can     *)
(* only refuse a void and are left out.                                    *)
(***************************************************************************)
EXTENDS ReceiptMath, Sequences, FiniteSets, Sums

CONSTANTS
    Receipts,     \* receipts that may be entered
    Invoices,     \* the customer's sales invoices
    Refunds,      \* advance refund rows per receipt
    Bill,         \* Bill[i]: grand total of i with tax collected at source
    ByDue,        \* the invoices ordered by due date, invoice date and id
    Entries,      \* receipts a person may type in
    MaxAmount     \* bound on the amount of a receipt or a bill

Amounts == 0 .. MaxAmount

Dates == {"past", "today"}

(* A receipt as it is typed in: plan is "advance", "oldest" or the invoice *)
(* to apply it to, want how much of it.                                    *)
Entry == [amount : Amounts \ {0}, discount : Amounts, tds : Amounts, cheque : BOOLEAN,
          date : Dates, plan : Invoices \cup {"advance", "oldest"}, want : Amounts \ {0}]

ASSUME MoneyInAssumption ==
    /\ MaxAmount \in Nat
    /\ Bill \in [Invoices -> Amounts]
    /\ ByDue \in Seq(Invoices)
    /\ Entries \subseteq Entry
    /\ {"advance", "oldest", "none"} \cap Invoices = {}
    /\ IsFiniteSet(Receipts) /\ IsFiniteSet(Invoices) /\ IsFiniteSet(Refunds)

VARIABLES
    doc,         \* doc[r]: the CustomerReceipt
    alloc,       \* alloc[r][i]: the live PaymentAllocation of r to i
    refund,      \* refund[r][f]: a live CustomerAdvanceRefund of r
    bill,        \* bill[i]: status of the invoice
    period,      \* period[d]: the stricter of the GST and the accounting period
    holdCheques, \* company flag cheque_allocation_on_clearance
    advance,     \* advance[r]: Customer Advances (2300) as posted for r
    receivable,  \* receivable[i]: Accounts Receivable (1200) as posted for i
    batch        \* the transaction under way, if any

vars == <<doc, alloc, refund, bill, period, holdCheques, advance, receivable, batch>>

rules == <<period, holdCheques>>

books == <<advance, receivable>>

NoDoc == [status |-> "none", amount |-> 0, discount |-> 0, tds |-> 0, cheque |-> "none",
          date |-> "past", intent |-> "none", want |-> 0]

NoAlloc == [cash |-> 0, disc |-> 0, tds |-> 0]

NoRefund == [amount |-> 0, date |-> "past"]

Idle == [phase |-> "idle", origin |-> "none", receipt |-> "none", todo |-> <<>>, done |-> <<>>,
         want |-> 0, exact |-> FALSE, broken |-> FALSE]

-----------------------------------------------------------------------------
(* Sums over live rows.                                                    *)
Total(a) == a.cash + a.disc + a.tds

Live(r) == [cash |-> Sum([i \in Invoices |-> alloc[r][i].cash]),
            disc |-> Sum([i \in Invoices |-> alloc[r][i].disc]),
            tds  |-> Sum([i \in Invoices |-> alloc[r][i].tds])]

Refunded(r) == Sum([f \in Refunds |-> refund[r][f].amount])

Settled(i) == Sum([r \in Receipts |-> Total(alloc[r][i])])

Outstanding(i) == IF bill[i] = "completed" THEN AtLeastZero(Bill[i] - Settled(i)) ELSE 0

Available(r) == CashAvailable(doc[r], Live(r), Refunded(r))

HasRefund(r) == \E f \in Refunds : refund[r][f].amount > 0

HasAlloc(r) == \E i \in Invoices : alloc[r][i].cash > 0

(* assert_period_allows_money_amend, without and with allow_soft_closed.   *)
AllowsNew(d) == period[d] = "open"
AllowsUnwind(d) == period[d] \in {"open", "soft_closed"}

ChequeBlocks(r) == holdCheques /\ doc[r].cheque = "pending"

(* The row an allocation of x from r writes: cash with its shares.         *)
Slice(r, x) == LET s == SharesFor(doc[r], x, Live(r), Refunded(r))
               IN  [cash |-> x, disc |-> s.disc, tds |-> s.tds]

Init ==
    /\ doc = [r \in Receipts |-> NoDoc]
    /\ alloc = [r \in Receipts |-> [i \in Invoices |-> NoAlloc]]
    /\ refund = [r \in Receipts |-> [f \in Refunds |-> NoRefund]]
    /\ bill \in [Invoices -> {"draft", "completed"}]
    /\ period = [d \in Dates |-> "open"]
    /\ holdCheques \in BOOLEAN
    /\ advance = [r \in Receipts |-> 0]
    /\ receivable = [i \in Invoices |-> IF bill[i] = "completed" THEN Bill[i] ELSE 0]
    /\ batch = Idle

Quiet == batch.phase = "idle"

-----------------------------------------------------------------------------
(* Writes of the allocation service.                                       *)

(* Mutant: the invoice's balance is compared with the cash alone.          *)
PassesRules_CashOnly(r, i, x) ==
    /\ AllowsNew(doc[r].date)
    /\ bill[i] = "completed"
    /\ doc[r].status = "posted"
    /\ ~ChequeBlocks(r)
    /\ x \in 1 .. Available(r)
    /\ x <= Outstanding(i)

(* allocate_receipt's checks; the unique constraint on live (receipt,      *)
(* invoice) rows is the one that raises an IntegrityError.                 *)
PassesRules(r, i, x) ==
    /\ AllowsNew(doc[r].date)
    /\ bill[i] = "completed"
    /\ doc[r].status = "posted"
    /\ ~ChequeBlocks(r)
    /\ x \in 1 .. Available(r)
    /\ Total(Slice(r, x)) <= Outstanding(i)

(* The new row and its journal: Dr 2300 cash and TDS, Dr 5150 discount,    *)
(* Cr 1200 all three.                                                      *)
WriteAlloc(r, i, x) ==
    LET a == Slice(r, x) IN
    /\ alloc[r][i] = NoAlloc
    /\ alloc' = [alloc EXCEPT ![r][i] = a]
    /\ advance' = [advance EXCEPT ![r] = @ - a.cash - a.tds]
    /\ receivable' = [receivable EXCEPT ![i] = @ - Total(a)]

(* Mutant: a reversal writes a counter-row instead of taking the row away. *)
EraseAlloc_Negates(r, i) ==
    /\ alloc' = [alloc EXCEPT ![r][i] = [cash |-> -@.cash, disc |-> -@.disc, tds |-> -@.tds]]
    /\ advance' = [advance EXCEPT ![r] = @ + alloc[r][i].cash + alloc[r][i].tds]
    /\ receivable' = [receivable EXCEPT ![i] = @ + Total(alloc[r][i])]

(* The row is reversed (or rolled back) with its journal.                  *)
EraseAlloc(r, i) ==
    /\ alloc' = [alloc EXCEPT ![r][i] = NoAlloc]
    /\ advance' = [advance EXCEPT ![r] = @ + alloc[r][i].cash + alloc[r][i].tds]
    /\ receivable' = [receivable EXCEPT ![i] = @ + Total(alloc[r][i])]

-----------------------------------------------------------------------------
(* Operations of one write.                                                *)

Allocate(r, i, x) ==
    /\ Quiet
    /\ PassesRules(r, i, x)
    /\ WriteAlloc(r, i, x)
    /\ UNCHANGED <<doc, refund, bill, rules, batch>>

(* Mutant: no period gate on a reversal.                                   *)
ReverseAllocation_NoGate(r, i) ==
    /\ Quiet
    /\ alloc[r][i] # NoAlloc
    /\ EraseAlloc(r, i)
    /\ UNCHANGED <<doc, refund, bill, rules, batch>>

ReverseAllocation(r, i) ==
    /\ Quiet
    /\ alloc[r][i] # NoAlloc
    /\ AllowsNew(doc[r].date)
    /\ EraseAlloc(r, i)
    /\ UNCHANGED <<doc, refund, bill, rules, batch>>

(* Mutant: a receipt that was partly handed back can be voided.            *)
Voidable_Refunded(r) ==
    /\ doc[r].status = "posted"
    /\ AllowsUnwind(doc[r].date)
    /\ HasAlloc(r) => AllowsNew(doc[r].date)
    /\ AllowsUnwind("today")

(* void_receipt's conditions.  Its own gate lets a soft closed period      *)
(* through, the reverse_allocation it calls for each live row does not;    *)
(* the reversal journals are dated today.                                  *)
Voidable(r) ==
    /\ doc[r].status = "posted"
    /\ ~HasRefund(r)
    /\ AllowsUnwind(doc[r].date)
    /\ HasAlloc(r) => AllowsNew(doc[r].date)
    /\ AllowsUnwind("today")

(* Every allocation of r and then its own journal are reversed.            *)
UnwindReceipt(r) ==
    /\ alloc' = [alloc EXCEPT ![r] = [i \in Invoices |-> NoAlloc]]
    /\ advance' = [advance EXCEPT ![r] = @ + Live(r).cash + Live(r).tds - (doc[r].amount + doc[r].tds)]
    /\ receivable' = [i \in Invoices |-> receivable[i] + Total(alloc[r][i])]

VoidReceipt(r) ==
    /\ Quiet
    /\ Voidable(r)
    /\ UnwindReceipt(r)
    /\ doc' = [doc EXCEPT ![r].status = "voided"]
    /\ UNCHANGED <<refund, bill, rules, batch>>

RefundAdvance(r, f, x, d) ==
    /\ Quiet
    /\ refund[r][f] = NoRefund
    /\ doc[r].status = "posted"
    /\ doc[r].cheque \in {"none", "cleared"}
    /\ doc[r].tds = 0
    /\ x \in 1 .. Available(r)
    /\ d = "past" => doc[r].date = "past"
    /\ AllowsNew(d)
    /\ refund' = [refund EXCEPT ![r][f] = [amount |-> x, date |-> d]]
    /\ advance' = [advance EXCEPT ![r] = @ - x]
    /\ UNCHANGED <<doc, alloc, bill, rules, receivable, batch>>

VoidAdvanceRefund(r, f) ==
    /\ Quiet
    /\ refund[r][f] # NoRefund
    /\ AllowsUnwind(refund[r][f].date)
    /\ AllowsUnwind("today")
    /\ refund' = [refund EXCEPT ![r][f] = NoRefund]
    /\ advance' = [advance EXCEPT ![r] = @ + refund[r][f].amount]
    /\ UNCHANGED <<doc, alloc, bill, rules, receivable, batch>>

(* Mutant: a bounce reverses a receipt that had been voided before.        *)
BounceCheque_VoidsAgain(r, charged) ==
    /\ Quiet
    /\ doc[r].cheque \in {"pending", "cleared"}
    /\ UnwindReceipt(r)
    /\ doc' = [doc EXCEPT ![r].status = "voided", ![r].cheque = "bounced"]
    /\ UNCHANGED <<refund, bill, rules, batch>>

(* set_cheque_status BOUNCED: void_receipt, which leaves an already voided *)
(* receipt alone, and the dishonour fee (if any) posted today.             *)
BounceCheque(r, charged) ==
    /\ Quiet
    /\ doc[r].cheque \in {"pending", "cleared"}
    /\ charged => AllowsUnwind("today")
    /\ \/ /\ doc[r].status = "voided"
          /\ UNCHANGED <<alloc, advance, receivable>>
       \/ /\ Voidable(r)
          /\ UnwindReceipt(r)
    /\ doc' = [doc EXCEPT ![r].status = "voided", ![r].cheque = "bounced"]
    /\ UNCHANGED <<refund, bill, rules, batch>>

(* set_cheque_status PENDING_CLEARANCE.                                    *)
UnclearCheque(r) ==
    /\ Quiet
    /\ doc[r].cheque \in {"pending", "cleared"}
    /\ doc' = [doc EXCEPT ![r].cheque = "pending"]
    /\ UNCHANGED <<alloc, refund, bill, rules, books, batch>>

(* SalesInvoiceService.cancel, as far as receipts are concerned.  The      *)
(* invoices are dated in the past.                                         *)
CancelInvoice(i) ==
    /\ Quiet
    /\ bill[i] \in {"draft", "completed"}
    /\ \A r \in Receipts : alloc[r][i] = NoAlloc
    /\ AllowsUnwind("past")
    /\ bill' = [bill EXCEPT ![i] = "cancelled"]
    /\ receivable' = [receivable EXCEPT ![i] = IF bill[i] = "completed" THEN @ - Bill[i] ELSE @]
    /\ UNCHANGED <<doc, alloc, refund, rules, advance, batch>>

SetPeriod(d, s) ==
    /\ Quiet
    /\ period' = [period EXCEPT ![d] = s]
    /\ UNCHANGED <<doc, alloc, refund, bill, holdCheques, books, batch>>

(* soft_close_period of either kind.                                       *)
SoftClose(d) == period[d] = "open" /\ SetPeriod(d, "soft_closed")

(* A month closes only after the months before it.                         *)
Close(d) ==
    /\ period[d] # "closed"
    /\ d = "today" => period["past"] # "open"
    /\ SetPeriod(d, "closed")

(* reopen_period: closed to soft closed, soft closed to open, the latest   *)
(* closed month first.                                                     *)
Reopen(d) ==
    \/ /\ period[d] = "closed"
       /\ d = "past" => period["today"] # "closed"
       /\ SetPeriod(d, "soft_closed")
    \/ period[d] = "soft_closed" /\ SetPeriod(d, "open")

(* The Money-In rules: hold cheques back until they clear, or not.         *)
ChangeChequeRule ==
    /\ Quiet
    /\ holdCheques' = ~holdCheques
    /\ UNCHANGED <<doc, alloc, refund, bill, period, books, batch>>

-----------------------------------------------------------------------------
(* Operations that allocate in a loop or after another write.              *)

Begin(origin, r, todo, want, exact) ==
    batch' = [Idle EXCEPT !.phase = "apply", !.origin = origin, !.receipt = r,
                          !.todo = todo, !.want = want, !.exact = exact]

(* The create view: create_receipt, then the allocation asked for, in one  *)
(* transaction.  A cheque that must clear first keeps its plan instead.    *)
CreateReceipt(r, e) ==
    LET hold == e.cheque /\ holdCheques /\ e.plan # "advance" IN
    /\ Quiet
    /\ doc[r] = NoDoc
    /\ e.discount <= e.amount /\ e.tds <= e.amount
    /\ e.discount > 0 => e.plan # "advance"
    /\ e.plan \in Invoices => e.want <= e.amount
    /\ AllowsNew(e.date)
    /\ doc' = [doc EXCEPT ![r] =
          [status |-> "posted", amount |-> e.amount, discount |-> e.discount, tds |-> e.tds,
           cheque |-> IF e.cheque THEN "pending" ELSE "none", date |-> e.date,
           intent |-> IF hold THEN e.plan ELSE "none", want |-> IF hold THEN e.want ELSE 0]]
    /\ advance' = [advance EXCEPT ![r] = @ + e.amount + e.tds]
    /\ \/ /\ hold \/ e.plan = "advance"
          /\ batch' = batch
       \/ /\ ~hold /\ e.plan = "oldest"
          /\ Begin("create", r, ByDue, e.amount, FALSE)
       \/ /\ ~hold /\ e.plan \in Invoices
          /\ Begin("create", r, <<e.plan>>, e.want, TRUE)
    /\ UNCHANGED <<alloc, refund, bill, rules, receivable>>

(* bulk_allocate: allocate_receipt_oldest_first for an advance.            *)
AllocateOldestFirst(r) ==
    /\ Quiet
    /\ doc[r].status = "posted"
    /\ ~ChequeBlocks(r)
    /\ Begin("bulk", r, ByDue, Available(r), FALSE)
    /\ UNCHANGED <<doc, alloc, refund, bill, rules, books>>

(* set_cheque_status CLEARED, and apply_intent_on_clear for a cheque held  *)
(* until now.                                                              *)
ClearCheque(r) ==
    /\ Quiet
    /\ doc[r].cheque \in {"pending", "cleared"}
    /\ doc' = [doc EXCEPT ![r].cheque = "cleared"]
    /\ IF /\ holdCheques /\ doc[r].cheque = "pending" /\ doc[r].status = "posted"
          /\ doc[r].intent # "none"
       THEN IF doc[r].intent = "oldest"
            THEN Begin("clear", r, ByDue, Available(r), FALSE)
            ELSE Begin("clear", r, IF bill[doc[r].intent] = "completed" THEN <<doc[r].intent>> ELSE <<>>,
                       Lesser(doc[r].want, Available(r)), FALSE)
       ELSE batch' = batch
    /\ UNCHANGED <<alloc, refund, bill, rules, books>>

(* How much the next invoice of the loop is to take.                       *)
Take ==
    LET r == batch.receipt i == Head(batch.todo) IN
    IF batch.exact THEN batch.want
    ELSE MaxCashForBalance(doc[r], Outstanding(i), batch.want, Live(r), Refunded(r))

Applying == batch.phase = "apply" /\ batch.todo # <<>>

(* Nothing to take: the invoice is settled or the money used up.           *)
SkipInvoice ==
    /\ Applying
    /\ ~batch.exact
    /\ batch.want = 0 \/ Outstanding(Head(batch.todo)) = 0 \/ Take = 0
    /\ batch' = [batch EXCEPT !.todo = Tail(@)]
    /\ UNCHANGED <<doc, alloc, refund, bill, rules, books>>

Wanted == batch.exact \/ (batch.want > 0 /\ Outstanding(Head(batch.todo)) > 0 /\ Take > 0)

ApplyToInvoice ==
    LET r == batch.receipt i == Head(batch.todo) IN
    /\ Applying
    /\ Wanted
    /\ PassesRules(r, i, Take)
    /\ WriteAlloc(r, i, Take)
    /\ batch' = [batch EXCEPT !.todo = Tail(@), !.done = Append(@, i), !.want = @ - Take]
    /\ UNCHANGED <<doc, refund, bill, rules>>

(* A BusinessRuleError, or the IntegrityError of a second live row for the *)
(* same receipt and invoice: everything this transaction wrote goes.       *)
Fail ==
    LET r == batch.receipt i == Head(batch.todo) IN
    /\ Applying
    /\ Wanted
    /\ ~PassesRules(r, i, Take) \/ alloc[r][i] # NoAlloc
    /\ batch' = [batch EXCEPT !.phase = "undo", !.broken = PassesRules(r, i, Take)]
    /\ UNCHANGED <<doc, alloc, refund, bill, rules, books>>

UndoAllocation ==
    LET i == batch.done[Len(batch.done)] IN
    /\ batch.phase = "undo"
    /\ batch.done # <<>>
    /\ EraseAlloc(batch.receipt, i)
    /\ batch' = [batch EXCEPT !.done = SubSeq(@, 1, Len(@) - 1)]
    /\ UNCHANGED <<doc, refund, bill, rules>>

(* What else the failed transaction wrote.  Clearing survives a            *)
(* BusinessRuleError (the savepoint), not an IntegrityError.               *)
UndoRest ==
    LET r == batch.receipt IN
    /\ batch.phase = "undo"
    /\ batch.done = <<>>
    /\ \/ /\ batch.origin = "create"
          /\ doc' = [doc EXCEPT ![r] = NoDoc]
          /\ advance' = [advance EXCEPT ![r] = @ - doc[r].amount - doc[r].tds]
       \/ /\ batch.origin = "clear" /\ batch.broken
          /\ doc' = [doc EXCEPT ![r].cheque = "pending"]
          /\ advance' = advance
       \/ /\ batch.origin = "bulk" \/ (batch.origin = "clear" /\ ~batch.broken)
          /\ UNCHANGED <<doc, advance>>
    /\ batch' = Idle
    /\ UNCHANGED <<alloc, refund, bill, rules, receivable>>

Commit ==
    /\ batch.phase = "apply"
    /\ batch.todo = <<>>
    /\ batch' = Idle
    /\ UNCHANGED <<doc, alloc, refund, bill, rules, books>>

-----------------------------------------------------------------------------
BatchStep == SkipInvoice \/ ApplyToInvoice \/ Fail \/ UndoAllocation \/ UndoRest \/ Commit

Next ==
    \/ \E r \in Receipts :
          \/ \E e \in Entries : CreateReceipt(r, e)
          \/ \E i \in Invoices, x \in Amounts : Allocate(r, i, x)
          \/ \E i \in Invoices : ReverseAllocation(r, i)
          \/ \E f \in Refunds, x \in Amounts, d \in Dates : RefundAdvance(r, f, x, d)
          \/ \E f \in Refunds : VoidAdvanceRefund(r, f)
          \/ \E charged \in BOOLEAN : BounceCheque(r, charged)
          \/ VoidReceipt(r) \/ AllocateOldestFirst(r) \/ UnclearCheque(r) \/ ClearCheque(r)
    \/ \E i \in Invoices : CancelInvoice(i)
    \/ \E d \in Dates : SoftClose(d) \/ Close(d) \/ Reopen(d)
    \/ ChangeChequeRule
    \/ BatchStep

Spec == Init /\ [][Next]_vars

-----------------------------------------------------------------------------
Docs == [Receipts -> [status : {"none", "posted", "voided"}, amount : Amounts,
                      discount : Amounts, tds : Amounts,
                      cheque : {"none", "pending", "cleared", "bounced"}, date : Dates,
                      intent : Invoices \cup {"none", "oldest"}, want : Amounts]]

Rows == [Receipts -> [Invoices -> [cash : Amounts, disc : Amounts, tds : Amounts]]]

RefundRows == [Receipts -> [Refunds -> [amount : Amounts, date : Dates]]]

Batches == [phase : {"idle", "apply", "undo"}, origin : {"none", "create", "bulk", "clear"},
            receipt : Receipts \cup {"none"}, todo : Seq(Invoices), done : Seq(Invoices),
            want : Int, exact : BOOLEAN, broken : BOOLEAN]

TypeOK ==
    /\ doc \in Docs
    /\ alloc \in Rows
    /\ refund \in RefundRows
    /\ bill \in [Invoices -> {"draft", "completed", "cancelled"}]
    /\ period \in [Dates -> {"open", "soft_closed", "closed"}]
    /\ holdCheques \in BOOLEAN
    /\ advance \in [Receipts -> Int]
    /\ receivable \in [Invoices -> Int]
    /\ batch \in Batches

(* No receipt is spent twice: what is applied to invoices and handed back  *)
(* never exceeds the money received, nor the shares of discount and TDS    *)
(* what was agreed (allocate_receipt, refund_advance, shares_for).         *)
NeverOverspent ==
    \A r \in Receipts :
        /\ Live(r).cash + Refunded(r) <= doc[r].amount
        /\ Live(r).disc <= doc[r].discount
        /\ Live(r).tds <= doc[r].tds

(* No invoice is paid beyond its total, and only a completed invoice is    *)
(* paid at all (allocate_receipt, SalesInvoiceService.cancel).             *)
NeverOverpaid ==
    \A i \in Invoices : Settled(i) <= IF bill[i] = "completed" THEN Bill[i] ELSE 0

(* A voided receipt pays for nothing and has handed nothing back, and a    *)
(* bounced cheque is voided (void_receipt, set_cheque_status).             *)
VoidedIsEmpty ==
    \A r \in Receipts :
        /\ doc[r].status # "posted" => ~HasAlloc(r) /\ ~HasRefund(r)
        /\ doc[r].cheque = "bounced" => doc[r].status = "voided"

(* The ledger agrees with the documents: Customer Advances carries what    *)
(* receipt_unallocated says of each receipt and Accounts Receivable what   *)
(* is outstanding on each invoice, through every reversal and rollback.    *)
BooksAgree ==
    /\ \A r \in Receipts :
          advance[r] = IF doc[r].status = "posted"
                       THEN Unallocated(doc[r], Live(r), Refunded(r)) ELSE 0
    /\ \A i \in Invoices : receivable[i] = Outstanding(i)

(* "across any split the shares add up to the receipt's discount and TDS   *)
(* to the paisa": once all the money is applied, and none of it handed     *)
(* back, so are the discount and the TDS, whatever was reversed before.    *)
SharesAddUp ==
    \A r \in Receipts :
        doc[r].status = "posted" /\ Live(r).cash = doc[r].amount
            => Live(r).disc = doc[r].discount /\ Live(r).tds = doc[r].tds

(* Once a period is closed, no receipt dated in it is posted, voided,      *)
(* allocated or unallocated (assert_period_allows_money_amend).            *)
ClosedPeriodIsFrozen ==
    [][\A r \in Receipts, d \in Dates :
          /\ period[d] = "closed"
          /\ \/ doc[r].status # "none" /\ doc[r].date = d
             \/ doc'[r].status # "none" /\ doc'[r].date = d
          => doc'[r].status = doc[r].status /\ alloc'[r] = alloc[r]]_vars

=============================================================================
