---------------------------- MODULE MoneyInProofs ----------------------------
(***************************************************************************)
(* Proofs about MoneyIn, for any receipts, invoices, refund rows, bills    *)
(* and entries, and about the binary search it relies on, for amounts of   *)
(* any size.                                                               *)
(***************************************************************************)
EXTENDS MoneyIn, MaxCashSearch, SumsProofs, SequenceTheorems, TLAPS

CashOf(A, r) == Sum([i \in Invoices |-> A[r][i].cash])
DiscOf(A, r) == Sum([i \in Invoices |-> A[r][i].disc])
TdsOf(A, r) == Sum([i \in Invoices |-> A[r][i].tds])
SettledOf(A, i) == Sum([r \in Receipts |-> Total(A[r][i])])

-----------------------------------------------------------------------------
(* Sums.                                                                   *)

(* Every amount of a row, and every total of one, is at most this.         *)
Top == 3 * MaxAmount

(* Amounts add up: nothing to nothing, and a changed row changes the sum   *)
(* by as much.                                                             *)
LEMMA SumFacts ==
    \A D \in {Receipts, Invoices, Refunds} :
        /\ Sum([d \in D |-> 0]) = 0
        /\ \A f \in [D -> 0 .. Top] :
              /\ Sum(f) \in Nat
              /\ \A d \in D, v \in 0 .. Top : Sum([f EXCEPT ![d] = v]) = Sum(f) - f[d] + v
<1>1. \A D \in {Receipts, Invoices, Refunds} : IsFiniteSet(D)
    BY MoneyInAssumption
<1>2. 0 .. Top \subseteq Nat
    OBVIOUS
<1>3. \A D \in {Receipts, Invoices, Refunds} : AddsUp(D, 0 .. Top)
    BY <1>1, <1>2, NaturalSums
<1> QED
    BY <1>3 DEF AddsUp

(* Two functions that differ at one point have sums that differ by as      *)
(* much.                                                                   *)
LEMMA SumUpdate ==
    ASSUME NEW D \in {Receipts, Invoices, Refunds},
           NEW f \in [D -> 0 .. Top], NEW g \in [D -> 0 .. Top],
           NEW d \in D, \A e \in D : e # d => g[e] = f[e]
    PROVE  Sum(g) = Sum(f) - f[d] + g[d]
<1>1. g = [f EXCEPT ![d] = g[d]]
    OBVIOUS
<1>2. g[d] \in 0 .. Top
    OBVIOUS
<1>3. Sum([f EXCEPT ![d] = g[d]]) = Sum(f) - f[d] + g[d]
    <2>1. \A v \in 0 .. Top : Sum([f EXCEPT ![d] = v]) = Sum(f) - f[d] + v
        BY SumFacts, Zenon
    <2> QED
        BY <1>2, <2>1, Zenon
<1> QED
    BY <1>1, <1>3

(* The sum of a function that is zero everywhere is zero.                  *)
LEMMA SumOfZeros ==
    ASSUME NEW D \in {Receipts, Invoices, Refunds},
           NEW g \in [D -> 0 .. Top], \A e \in D : g[e] = 0
    PROVE  Sum(g) = 0
<1>1. g = [d \in D |-> 0]
    OBVIOUS
<1>2. Sum([d \in D |-> 0]) = 0
    BY SumFacts
<1> QED
    BY <1>1, <1>2

(* Sums of live rows are natural numbers.                                  *)
LEMMA SumsAreNat ==
    ASSUME NEW A \in Rows
    PROVE  /\ \A r \in Receipts : /\ CashOf(A, r) \in Nat
                                  /\ DiscOf(A, r) \in Nat
                                  /\ TdsOf(A, r) \in Nat
           /\ \A i \in Invoices : SettledOf(A, i) \in Nat
<1>0. MaxAmount \in Nat /\ Amounts \subseteq 0 .. Top
    BY MoneyInAssumption DEF Amounts, Top
<1>1. ASSUME NEW r \in Receipts
      PROVE  CashOf(A, r) \in Nat /\ DiscOf(A, r) \in Nat /\ TdsOf(A, r) \in Nat
    <2>1. /\ [i \in Invoices |-> A[r][i].cash] \in [Invoices -> 0 .. Top]
          /\ [i \in Invoices |-> A[r][i].disc] \in [Invoices -> 0 .. Top]
          /\ [i \in Invoices |-> A[r][i].tds] \in [Invoices -> 0 .. Top]
        BY <1>0, <1>1 DEF Rows
    <2> QED
        BY <2>1, SumFacts DEF CashOf, DiscOf, TdsOf
<1>2. ASSUME NEW i \in Invoices
      PROVE  SettledOf(A, i) \in Nat
    <2>1. [r \in Receipts |-> Total(A[r][i])] \in [Receipts -> 0 .. Top]
        BY <1>0, <1>2 DEF Rows, Total, Top, Amounts
    <2> QED
        BY <2>1, SumFacts DEF SettledOf
<1> QED
    BY <1>1, <1>2

(* Changing one row changes the sums of its receipt and of its invoice.    *)
LEMMA RowChange ==
    ASSUME NEW A \in Rows, NEW B \in Rows, NEW r \in Receipts, NEW i \in Invoices,
           \A s \in Receipts, j \in Invoices : s # r \/ j # i => B[s][j] = A[s][j]
    PROVE  /\ CashOf(B, r) = CashOf(A, r) - A[r][i].cash + B[r][i].cash
           /\ DiscOf(B, r) = DiscOf(A, r) - A[r][i].disc + B[r][i].disc
           /\ TdsOf(B, r) = TdsOf(A, r) - A[r][i].tds + B[r][i].tds
           /\ \A s \in Receipts : s # r => /\ CashOf(B, s) = CashOf(A, s)
                                           /\ DiscOf(B, s) = DiscOf(A, s)
                                           /\ TdsOf(B, s) = TdsOf(A, s)
           /\ SettledOf(B, i) = SettledOf(A, i) - Total(A[r][i]) + Total(B[r][i])
           /\ \A j \in Invoices : j # i => SettledOf(B, j) = SettledOf(A, j)
<1>0. MaxAmount \in Nat /\ Amounts \subseteq 0 .. Top
    BY MoneyInAssumption DEF Amounts, Top
<1> DEFINE CA == [j \in Invoices |-> A[r][j].cash]  CB == [j \in Invoices |-> B[r][j].cash]
           DA == [j \in Invoices |-> A[r][j].disc]  DB == [j \in Invoices |-> B[r][j].disc]
           TA == [j \in Invoices |-> A[r][j].tds]   TB == [j \in Invoices |-> B[r][j].tds]
           SA == [s \in Receipts |-> Total(A[s][i])] SB == [s \in Receipts |-> Total(B[s][i])]
<1>1. /\ CA \in [Invoices -> 0 .. Top] /\ CB \in [Invoices -> 0 .. Top]
      /\ DA \in [Invoices -> 0 .. Top] /\ DB \in [Invoices -> 0 .. Top]
      /\ TA \in [Invoices -> 0 .. Top] /\ TB \in [Invoices -> 0 .. Top]
    <2>1. \A j \in Invoices :
             /\ A[r][j].cash \in Amounts /\ A[r][j].disc \in Amounts /\ A[r][j].tds \in Amounts
             /\ B[r][j].cash \in Amounts /\ B[r][j].disc \in Amounts /\ B[r][j].tds \in Amounts
        BY DEF Rows
    <2>2. \A a \in Amounts : a \in 0 .. Top
        BY <1>0
    <2>3. CA \in [Invoices -> 0 .. Top] /\ CB \in [Invoices -> 0 .. Top]
        BY <2>1, <2>2, Zenon
    <2>4. DA \in [Invoices -> 0 .. Top] /\ DB \in [Invoices -> 0 .. Top]
        BY <2>1, <2>2, Zenon
    <2>5. TA \in [Invoices -> 0 .. Top] /\ TB \in [Invoices -> 0 .. Top]
        BY <2>1, <2>2, Zenon
    <2> QED
        BY <2>3, <2>4, <2>5
<1>2. SA \in [Receipts -> 0 .. Top] /\ SB \in [Receipts -> 0 .. Top]
    BY <1>0 DEF Rows, Total, Top, Amounts
<1>3. \A j \in Invoices : j # i => CB[j] = CA[j] /\ DB[j] = DA[j] /\ TB[j] = TA[j]
    OBVIOUS
<1>4. \A s \in Receipts : s # r => SB[s] = SA[s]
    OBVIOUS
<1>5. Sum(CB) = Sum(CA) - CA[i] + CB[i]
    BY <1>1, <1>3, SumUpdate
<1>6. Sum(DB) = Sum(DA) - DA[i] + DB[i]
    BY <1>1, <1>3, SumUpdate
<1>7. Sum(TB) = Sum(TA) - TA[i] + TB[i]
    BY <1>1, <1>3, SumUpdate
<1>8. Sum(SB) = Sum(SA) - SA[r] + SB[r]
    BY <1>2, <1>4, SumUpdate
<1>9. ASSUME NEW s \in Receipts, s # r
      PROVE  CashOf(B, s) = CashOf(A, s) /\ DiscOf(B, s) = DiscOf(A, s) /\ TdsOf(B, s) = TdsOf(A, s)
    <2>1. /\ [j \in Invoices |-> B[s][j].cash] = [j \in Invoices |-> A[s][j].cash]
          /\ [j \in Invoices |-> B[s][j].disc] = [j \in Invoices |-> A[s][j].disc]
          /\ [j \in Invoices |-> B[s][j].tds] = [j \in Invoices |-> A[s][j].tds]
        BY <1>9
    <2> QED
        BY <2>1 DEF CashOf, DiscOf, TdsOf
<1>10. ASSUME NEW j \in Invoices, j # i
       PROVE  SettledOf(B, j) = SettledOf(A, j)
    <2>1. [s \in Receipts |-> Total(B[s][j])] = [s \in Receipts |-> Total(A[s][j])]
        BY <1>10
    <2> QED
        BY <2>1 DEF SettledOf
<1>11. /\ CA[i] = A[r][i].cash /\ CB[i] = B[r][i].cash
       /\ DA[i] = A[r][i].disc /\ DB[i] = B[r][i].disc
       /\ TA[i] = A[r][i].tds /\ TB[i] = B[r][i].tds
       /\ SA[r] = Total(A[r][i]) /\ SB[r] = Total(B[r][i])
    OBVIOUS
<1>12. /\ CashOf(A, r) = Sum(CA) /\ CashOf(B, r) = Sum(CB)
       /\ DiscOf(A, r) = Sum(DA) /\ DiscOf(B, r) = Sum(DB)
       /\ TdsOf(A, r) = Sum(TA) /\ TdsOf(B, r) = Sum(TB)
       /\ SettledOf(A, i) = Sum(SA) /\ SettledOf(B, i) = Sum(SB)
    BY DEF CashOf, DiscOf, TdsOf, SettledOf
<1> HIDE DEF CA, CB, DA, DB, TA, TB, SA, SB
<1> QED
    BY <1>5, <1>6, <1>7, <1>8, <1>9, <1>10, <1>11, <1>12

(* Taking away every row of a receipt empties its sums and takes its rows  *)
(* from the invoices.                                                      *)
LEMMA RowsErased ==
    ASSUME NEW A \in Rows, NEW B \in Rows, NEW r \in Receipts,
           \A s \in Receipts : s # r => B[s] = A[s],
           \A i \in Invoices : B[r][i] = NoAlloc
    PROVE  /\ CashOf(B, r) = 0 /\ DiscOf(B, r) = 0 /\ TdsOf(B, r) = 0
           /\ \A s \in Receipts : s # r => /\ CashOf(B, s) = CashOf(A, s)
                                           /\ DiscOf(B, s) = DiscOf(A, s)
                                           /\ TdsOf(B, s) = TdsOf(A, s)
           /\ \A i \in Invoices : SettledOf(B, i) = SettledOf(A, i) - Total(A[r][i])
<1>0. MaxAmount \in Nat /\ Amounts \subseteq 0 .. Top
    BY MoneyInAssumption DEF Amounts, Top
<1>1. CashOf(B, r) = 0 /\ DiscOf(B, r) = 0 /\ TdsOf(B, r) = 0
    <2> DEFINE C == [j \in Invoices |-> B[r][j].cash]
               D == [j \in Invoices |-> B[r][j].disc]
               T == [j \in Invoices |-> B[r][j].tds]
    <2>1. /\ C \in [Invoices -> 0 .. Top]
          /\ D \in [Invoices -> 0 .. Top]
          /\ T \in [Invoices -> 0 .. Top]
        BY <1>0 DEF Rows
    <2>2. \A j \in Invoices : C[j] = 0 /\ D[j] = 0 /\ T[j] = 0
        BY DEF NoAlloc
    <2>3. Sum(C) = 0
        BY <2>1, <2>2, SumOfZeros
    <2>4. Sum(D) = 0
        BY <2>1, <2>2, SumOfZeros
    <2>5. Sum(T) = 0
        BY <2>1, <2>2, SumOfZeros
    <2> QED
        BY <2>3, <2>4, <2>5 DEF CashOf, DiscOf, TdsOf
<1>2. ASSUME NEW s \in Receipts, s # r
      PROVE  CashOf(B, s) = CashOf(A, s) /\ DiscOf(B, s) = DiscOf(A, s) /\ TdsOf(B, s) = TdsOf(A, s)
    BY <1>2 DEF CashOf, DiscOf, TdsOf
<1>3. ASSUME NEW i \in Invoices
      PROVE  SettledOf(B, i) = SettledOf(A, i) - Total(A[r][i])
    <2> DEFINE SA == [s \in Receipts |-> Total(A[s][i])]
               SB == [s \in Receipts |-> Total(B[s][i])]
    <2>1. SA \in [Receipts -> 0 .. Top] /\ SB \in [Receipts -> 0 .. Top]
        BY <1>0 DEF Rows, Total, Top, Amounts
    <2>2. \A s \in Receipts : s # r => SB[s] = SA[s]
        OBVIOUS
    <2>3. SB[r] = 0 /\ SA[r] = Total(A[r][i])
        BY DEF NoAlloc, Total
    <2>4. Sum(SB) = Sum(SA) - SA[r] + SB[r]
        BY <2>1, <2>2, SumUpdate
    <2>5. Sum(SA) \in Nat /\ SA[r] \in 0 .. Top
        BY <2>1, SumFacts
    <2>6. SettledOf(B, i) = Sum(SB) /\ SettledOf(A, i) = Sum(SA)
        BY DEF SettledOf
    <2> HIDE DEF SA, SB
    <2> QED
        BY <2>3, <2>4, <2>5, <2>6, <1>0 DEF Top
<1> QED
    BY <1>1, <1>2, <1>3

RefundedOf(R, r) == Sum([f \in Refunds |-> R[r][f].amount])

(* Changing one refund row changes what its receipt has handed back.       *)
LEMMA RefundChange ==
    ASSUME NEW R \in RefundRows, NEW Q \in RefundRows, NEW r \in Receipts, NEW f \in Refunds,
           \A s \in Receipts, g \in Refunds : s # r \/ g # f => Q[s][g] = R[s][g]
    PROVE  /\ RefundedOf(Q, r) = RefundedOf(R, r) - R[r][f].amount + Q[r][f].amount
           /\ \A s \in Receipts : s # r => RefundedOf(Q, s) = RefundedOf(R, s)
<1>0. MaxAmount \in Nat /\ Amounts \subseteq 0 .. Top
    BY MoneyInAssumption DEF Amounts, Top
<1> DEFINE F == [g \in Refunds |-> R[r][g].amount]
           G == [g \in Refunds |-> Q[r][g].amount]
<1>1. F \in [Refunds -> 0 .. Top] /\ G \in [Refunds -> 0 .. Top]
    BY <1>0 DEF RefundRows
<1>2. \A g \in Refunds : g # f => G[g] = F[g]
    OBVIOUS
<1>3. Sum(G) = Sum(F) - F[f] + G[f]
    BY <1>1, <1>2, SumUpdate
<1>4. ASSUME NEW s \in Receipts, s # r
      PROVE  RefundedOf(Q, s) = RefundedOf(R, s)
    <2>1. [g \in Refunds |-> Q[s][g].amount] = [g \in Refunds |-> R[s][g].amount]
        BY <1>4
    <2> QED
        BY <2>1 DEF RefundedOf
<1> QED
    BY <1>3, <1>4 DEF RefundedOf

(* What was handed back is a natural number, and zero when every row is.   *)
LEMMA RefundedIsNat ==
    ASSUME NEW R \in RefundRows, NEW r \in Receipts
    PROVE  /\ RefundedOf(R, r) \in Nat
           /\ (\A f \in Refunds : R[r][f].amount = 0) => RefundedOf(R, r) = 0
<1> DEFINE F == [g \in Refunds |-> R[r][g].amount]
<1>1. F \in [Refunds -> 0 .. Top]
    BY MoneyInAssumption DEF RefundRows, Amounts, Top
<1>2. Sum(F) \in Nat
    BY <1>1, SumFacts
<1>3. ASSUME \A f \in Refunds : R[r][f].amount = 0
      PROVE  Sum(F) = 0
    <2>1. \A f \in Refunds : F[f] = 0
        BY <1>3
    <2> QED
        BY <1>1, <2>1, SumOfZeros
<1> QED
    BY <1>2, <1>3 DEF RefundedOf

(* A share lies between nothing and what is left of its total, and the     *)
(* slice that completes the receipt takes all that is left.                *)
LEMMA ShareBounds ==
    ASSUME NEW total \in Nat, NEW applied \in 0 .. total, NEW cash \in Nat \ {0},
           NEW base \in Nat \ {0}, NEW used \in Nat
    PROVE  /\ OneShare(total, applied, cash, base, used >= base) \in 0 .. (total - applied)
           /\ used >= base => OneShare(total, applied, cash, base, used >= base) = total - applied
<1>1. RoundedQuotient(cash * total, base) \in Int
    <2>1. cash * total \in Nat
        OBVIOUS
    <2> QED
        BY <2>1 DEF RoundedQuotient
<1> QED
    BY <1>1 DEF OneShare, AtLeastZero, Lesser

-----------------------------------------------------------------------------
(* The inductive invariant.                                                *)

(* What holds of receipt r, with documents D, rows A, refunds R and the    *)
(* balance adv on Customer Advances.                                       *)
ReceiptOK(D, A, R, adv, r) ==
    /\ CashOf(A, r) + RefundedOf(R, r) <= D[r].amount
    /\ DiscOf(A, r) <= D[r].discount
    /\ TdsOf(A, r) <= D[r].tds
    /\ D[r].status # "posted" => /\ \A i \in Invoices : A[r][i] = NoAlloc
                                 /\ \A f \in Refunds : R[r][f].amount = 0
    /\ D[r].cheque = "bounced" => D[r].status = "voided"
    /\ adv[r] = IF D[r].status = "posted"
                THEN D[r].amount + D[r].tds - CashOf(A, r) - TdsOf(A, r) - RefundedOf(R, r)
                ELSE 0
    /\ D[r].status = "posted" /\ CashOf(A, r) = D[r].amount
          => DiscOf(A, r) = D[r].discount /\ TdsOf(A, r) = D[r].tds

(* What holds of invoice i, with rows A, statuses b and the balance rec on *)
(* Accounts Receivable.                                                    *)
InvoiceOK(A, b, rec, i) ==
    /\ SettledOf(A, i) <= IF b[i] = "completed" THEN Bill[i] ELSE 0
    /\ rec[i] = IF b[i] = "completed" THEN Bill[i] - SettledOf(A, i) ELSE 0

(* A row without cash is no row.                                           *)
RowsReal(A) ==
    \A r \in Receipts, i \in Invoices : A[r][i].cash = 0 => A[r][i] = NoAlloc

MoneyOK(D, A, R, b, adv, rec) ==
    /\ \A r \in Receipts : ReceiptOK(D, A, R, adv, r)
    /\ \A i \in Invoices : InvoiceOK(A, b, rec, i)
    /\ RowsReal(A)

(* A transaction under way works on a posted receipt.  While the create    *)
(* view allocates, the receipt has only the rows this transaction wrote;   *)
(* and whatever it wrote, the receipt's period allowed.                    *)
BatchOK ==
    batch.phase # "idle" =>
        /\ batch.receipt \in Receipts
        /\ doc[batch.receipt].status = "posted"
        /\ batch.origin = "create" =>
              /\ \A f \in Refunds : refund[batch.receipt][f].amount = 0
              /\ \A i \in Invoices : alloc[batch.receipt][i] # NoAlloc
                    => \E k \in 1 .. Len(batch.done) : batch.done[k] = i
        /\ batch.origin = "create" \/ batch.done # <<>> => AllowsNew(doc[batch.receipt].date)

IInv == TypeOK /\ MoneyOK(doc, alloc, refund, bill, advance, receivable) /\ BatchOK

(* allocate_receipt's row and journal keep the books right: the checks     *)
(* leave room for the cash on the receipt and for the whole slice on the   *)
(* invoice, and the slice that uses the last cash takes the last shares.   *)
LEMMA WriteStep ==
    ASSUME TypeOK, MoneyOK(doc, alloc, refund, bill, advance, receivable),
           NEW r \in Receipts, NEW i \in Invoices, NEW x,
           PassesRules(r, i, x), WriteAlloc(r, i, x),
           UNCHANGED <<doc, refund, bill>>
    PROVE  /\ alloc' \in Rows
           /\ advance' \in [Receipts -> Int] /\ receivable' \in [Invoices -> Int]
           /\ MoneyOK(doc', alloc', refund', bill', advance', receivable')
<1> DEFINE a == Slice(r, x)
<1>0. MaxAmount \in Nat /\ Bill \in [Invoices -> Amounts]
    BY MoneyInAssumption
<1>1. alloc \in Rows /\ refund \in RefundRows
    BY DEF TypeOK
<1>2. /\ CashOf(alloc, r) \in Nat /\ DiscOf(alloc, r) \in Nat /\ TdsOf(alloc, r) \in Nat
      /\ SettledOf(alloc, i) \in Nat /\ RefundedOf(refund, r) \in Nat
    BY <1>1, SumsAreNat, RefundedIsNat
<1>3. /\ doc[r].amount \in Amounts /\ doc[r].discount \in Amounts /\ doc[r].tds \in Amounts
    BY DEF TypeOK, Docs
<1>4. /\ Live(r) = [cash |-> CashOf(alloc, r), disc |-> DiscOf(alloc, r), tds |-> TdsOf(alloc, r)]
      /\ Refunded(r) = RefundedOf(refund, r)
      /\ Settled(i) = SettledOf(alloc, i)
    BY DEF Live, Refunded, Settled, CashOf, DiscOf, TdsOf, RefundedOf, SettledOf
<1>5. ReceiptOK(doc, alloc, refund, advance, r) /\ InvoiceOK(alloc, bill, receivable, i)
    BY DEF MoneyOK
<1>6. /\ x \in Nat \ {0}
      /\ CashOf(alloc, r) + x + RefundedOf(refund, r) <= doc[r].amount
    BY <1>0, <1>2, <1>3, <1>4 DEF PassesRules, Available, CashAvailable, AtLeastZero, Amounts
<1>7. /\ a.cash = x
      /\ a.disc \in 0 .. (doc[r].discount - DiscOf(alloc, r))
      /\ a.tds \in 0 .. (doc[r].tds - TdsOf(alloc, r))
      /\ CashOf(alloc, r) + x = doc[r].amount
            => /\ a.disc = doc[r].discount - DiscOf(alloc, r)
               /\ a.tds = doc[r].tds - TdsOf(alloc, r)
    <2> DEFINE base == doc[r].amount - RefundedOf(refund, r)
               used == CashOf(alloc, r) + x
    <2>1. base \in Nat \ {0} /\ used \in Nat
        BY <1>0, <1>2, <1>3, <1>6 DEF Amounts
    <2>2. /\ DiscOf(alloc, r) \in 0 .. doc[r].discount
          /\ TdsOf(alloc, r) \in 0 .. doc[r].tds
        BY <1>0, <1>2, <1>3, <1>5 DEF ReceiptOK, Amounts
    <2>3. doc[r].discount \in Nat /\ doc[r].tds \in Nat
        BY <1>0, <1>3 DEF Amounts
    <2>4. a = [cash |-> x, disc |-> OneShare(doc[r].discount, DiscOf(alloc, r), x, base, used >= base),
                           tds |-> OneShare(doc[r].tds, TdsOf(alloc, r), x, base, used >= base)]
        BY <1>4, <1>6, <2>1 DEF Slice, SharesFor
    <2>5. /\ OneShare(doc[r].discount, DiscOf(alloc, r), x, base, used >= base)
                \in 0 .. (doc[r].discount - DiscOf(alloc, r))
          /\ used >= base => OneShare(doc[r].discount, DiscOf(alloc, r), x, base, used >= base)
                        = doc[r].discount - DiscOf(alloc, r)
        BY <1>6, <2>1, <2>2, <2>3, ShareBounds
    <2>6. /\ OneShare(doc[r].tds, TdsOf(alloc, r), x, base, used >= base)
                \in 0 .. (doc[r].tds - TdsOf(alloc, r))
          /\ used >= base => OneShare(doc[r].tds, TdsOf(alloc, r), x, base, used >= base)
                        = doc[r].tds - TdsOf(alloc, r)
        BY <1>6, <2>1, <2>2, <2>3, ShareBounds
    <2>7. CashOf(alloc, r) + x = doc[r].amount => used >= base
        BY <1>0, <1>2, <1>3 DEF Amounts
    <2> HIDE DEF base, used
    <2> QED
        BY <2>4, <2>5, <2>6, <2>7
<1>8. a \in [cash : Amounts, disc : Amounts, tds : Amounts]
    <2>1. a.cash \in Amounts /\ a.disc \in Amounts /\ a.tds \in Amounts
        BY <1>0, <1>2, <1>3, <1>6, <1>7 DEF Amounts
    <2>2. a = [cash |-> a.cash, disc |-> a.disc, tds |-> a.tds]
        BY DEF Slice
    <2> QED
        BY <2>1, <2>2
<1>9. /\ alloc[r][i] = NoAlloc
      /\ alloc' = [alloc EXCEPT ![r][i] = a]
      /\ advance' = [advance EXCEPT ![r] = @ - a.cash - a.tds]
      /\ receivable' = [receivable EXCEPT ![i] = @ - Total(a)]
      /\ bill[i] = "completed" /\ doc[r].status = "posted"
      /\ Total(a) <= Outstanding(i)
    BY DEF WriteAlloc, PassesRules
<1> HIDE DEF a
<1>10. /\ alloc' \in Rows
       /\ alloc'[r][i] = a
       /\ \A s \in Receipts, j \in Invoices : s # r \/ j # i => alloc'[s][j] = alloc[s][j]
       /\ \A s \in Receipts : s # r => alloc'[s] = alloc[s]
    BY <1>1, <1>8, <1>9 DEF Rows
<1>11. advance' \in [Receipts -> Int] /\ receivable' \in [Invoices -> Int]
    <2>1. a.cash \in Int /\ a.tds \in Int /\ Total(a) \in Int
        BY <1>0, <1>8 DEF Total, Amounts
    <2>2. advance \in [Receipts -> Int] /\ receivable \in [Invoices -> Int]
        BY DEF TypeOK
    <2> QED
        BY <1>9, <2>1, <2>2
<1>12. /\ CashOf(alloc', r) = CashOf(alloc, r) + x
       /\ DiscOf(alloc', r) = DiscOf(alloc, r) + a.disc
       /\ TdsOf(alloc', r) = TdsOf(alloc, r) + a.tds
       /\ SettledOf(alloc', i) = SettledOf(alloc, i) + Total(a)
       /\ \A j \in Invoices : j # i => SettledOf(alloc', j) = SettledOf(alloc, j)
       /\ \A s \in Receipts : s # r => /\ CashOf(alloc', s) = CashOf(alloc, s)
                                       /\ DiscOf(alloc', s) = DiscOf(alloc, s)
                                       /\ TdsOf(alloc', s) = TdsOf(alloc, s)
    <2>1. Total(NoAlloc) = 0 /\ NoAlloc.cash = 0 /\ NoAlloc.disc = 0 /\ NoAlloc.tds = 0
        BY DEF Total, NoAlloc
    <2>2. a.cash \in Int /\ a.disc \in Int /\ a.tds \in Int /\ Total(a) \in Int
        BY <1>0, <1>8 DEF Total, Amounts
    <2>3. /\ CashOf(alloc', r) = CashOf(alloc, r) - alloc[r][i].cash + alloc'[r][i].cash
          /\ DiscOf(alloc', r) = DiscOf(alloc, r) - alloc[r][i].disc + alloc'[r][i].disc
          /\ TdsOf(alloc', r) = TdsOf(alloc, r) - alloc[r][i].tds + alloc'[r][i].tds
          /\ SettledOf(alloc', i) = SettledOf(alloc, i) - Total(alloc[r][i]) + Total(alloc'[r][i])
          /\ \A j \in Invoices : j # i => SettledOf(alloc', j) = SettledOf(alloc, j)
          /\ \A s \in Receipts : s # r => /\ CashOf(alloc', s) = CashOf(alloc, s)
                                          /\ DiscOf(alloc', s) = DiscOf(alloc, s)
                                          /\ TdsOf(alloc', s) = TdsOf(alloc, s)
        BY <1>1, <1>10, RowChange
    <2>4. /\ alloc[r][i].cash = 0 /\ alloc[r][i].disc = 0 /\ alloc[r][i].tds = 0
          /\ Total(alloc[r][i]) = 0 /\ alloc'[r][i] = a
        BY <1>9, <1>10, <2>1
    <2> QED
        BY <1>2, <1>7, <2>2, <2>3, <2>4
<1>13. ASSUME NEW s \in Receipts
       PROVE  ReceiptOK(doc', alloc', refund', advance', s)
    <2>1. CASE s # r
        <3>1. advance'[s] = advance[s]
            BY <1>9, <2>1 DEF TypeOK
        <3>2. ReceiptOK(doc, alloc, refund, advance, s)
            BY DEF MoneyOK
        <3>3. doc'[s] = doc[s] /\ refund'[s] = refund[s] /\ alloc'[s] = alloc[s]
            BY <1>10, <2>1
        <3> QED
            BY <1>12, <2>1, <3>1, <3>2, <3>3 DEF ReceiptOK
    <2>2. CASE s = r
        <3>1. advance'[r] = advance[r] - a.cash - a.tds
            BY <1>9 DEF TypeOK
        <3>2. /\ doc[r].amount \in Nat /\ doc[r].discount \in Nat /\ doc[r].tds \in Nat
              /\ a.cash = x /\ a.disc \in Nat /\ a.tds \in Nat
            BY <1>0, <1>2, <1>3, <1>7 DEF Amounts
        <3>3. doc[r].status = "posted" /\ doc[r].cheque # "bounced"
            BY <1>5, <1>9 DEF ReceiptOK
        <3>4. /\ CashOf(alloc', r) + RefundedOf(refund, r) <= doc[r].amount
              /\ DiscOf(alloc', r) <= doc[r].discount
              /\ TdsOf(alloc', r) <= doc[r].tds
            BY <1>2, <1>6, <1>7, <1>12, <3>2
        <3>5. advance[r] = doc[r].amount + doc[r].tds - CashOf(alloc, r) - TdsOf(alloc, r)
                             - RefundedOf(refund, r)
            BY <1>5, <3>3 DEF ReceiptOK
        <3>6. advance'[r] = doc[r].amount + doc[r].tds - CashOf(alloc', r) - TdsOf(alloc', r)
                              - RefundedOf(refund, r)
            BY <1>2, <1>6, <1>12, <3>1, <3>2, <3>5
        <3>7. CashOf(alloc', r) = doc[r].amount
                => DiscOf(alloc', r) = doc[r].discount /\ TdsOf(alloc', r) = doc[r].tds
            BY <1>2, <1>7, <1>12, <3>2
        <3> QED
            BY <2>2, <3>3, <3>4, <3>6, <3>7 DEF ReceiptOK
    <2> QED
        BY <2>1, <2>2
<1>14. ASSUME NEW j \in Invoices
       PROVE  InvoiceOK(alloc', bill', receivable', j)
    <2>1. CASE j # i
        <3>1. receivable'[j] = receivable[j]
            BY <1>9, <2>1 DEF TypeOK
        <3> QED
            BY <1>12, <2>1, <3>1 DEF MoneyOK, InvoiceOK
    <2>2. CASE j = i
        <3>1. receivable'[i] = receivable[i] - Total(a)
            BY <1>9 DEF TypeOK
        <3>2. Bill[i] \in Nat /\ Total(a) \in Nat
            BY <1>0, <1>8 DEF Total, Amounts
        <3>3. Total(a) <= Bill[i] - SettledOf(alloc, i)
            BY <1>2, <1>4, <1>5, <1>9, <3>2 DEF Outstanding, AtLeastZero, InvoiceOK
        <3> QED
            BY <1>2, <1>5, <1>9, <1>12, <2>2, <3>1, <3>2, <3>3 DEF InvoiceOK
    <2> QED
        BY <2>1, <2>2
<1>15. RowsReal(alloc')
    BY <1>6, <1>7, <1>10 DEF MoneyOK, RowsReal
<1> QED
    BY <1>10, <1>11, <1>13, <1>14, <1>15 DEF MoneyOK

(* Reversing one allocation, or rolling it back, keeps the books right.    *)
LEMMA EraseStep ==
    ASSUME TypeOK, MoneyOK(doc, alloc, refund, bill, advance, receivable),
           NEW r \in Receipts, NEW i \in Invoices, doc[r].status = "posted",
           EraseAlloc(r, i), UNCHANGED <<doc, refund, bill>>
    PROVE  /\ alloc' \in Rows
           /\ advance' \in [Receipts -> Int] /\ receivable' \in [Invoices -> Int]
           /\ MoneyOK(doc', alloc', refund', bill', advance', receivable')
<1> DEFINE a == alloc[r][i]
<1>0. MaxAmount \in Nat /\ Bill \in [Invoices -> Amounts]
    BY MoneyInAssumption
<1>1. alloc \in Rows /\ refund \in RefundRows
    BY DEF TypeOK
<1>2. /\ CashOf(alloc, r) \in Nat /\ DiscOf(alloc, r) \in Nat /\ TdsOf(alloc, r) \in Nat
      /\ SettledOf(alloc, i) \in Nat /\ RefundedOf(refund, r) \in Nat
    BY <1>1, SumsAreNat, RefundedIsNat
<1>3. /\ doc[r].amount \in Nat /\ doc[r].discount \in Nat /\ doc[r].tds \in Nat
      /\ a.cash \in Nat /\ a.disc \in Nat /\ a.tds \in Nat
      /\ Total(a) = a.cash + a.disc + a.tds /\ Total(a) \in Nat
      /\ Bill[i] \in Nat
    <2>1. doc[r].amount \in Amounts /\ doc[r].discount \in Amounts /\ doc[r].tds \in Amounts
        BY DEF TypeOK, Docs
    <2>2. a.cash \in Amounts /\ a.disc \in Amounts /\ a.tds \in Amounts
        BY <1>1 DEF Rows
    <2> QED
        BY <1>0, <2>1, <2>2 DEF Amounts, Total
<1>4. ReceiptOK(doc, alloc, refund, advance, r) /\ InvoiceOK(alloc, bill, receivable, i)
    BY DEF MoneyOK
<1>5. /\ NoAlloc \in [cash : Amounts, disc : Amounts, tds : Amounts]
      /\ NoAlloc.cash = 0 /\ NoAlloc.disc = 0 /\ NoAlloc.tds = 0 /\ Total(NoAlloc) = 0
    BY <1>0 DEF NoAlloc, Amounts, Total
<1>6. a.cash = 0 => a = NoAlloc
    BY DEF MoneyOK, RowsReal
<1>7. /\ alloc' = [alloc EXCEPT ![r][i] = NoAlloc]
      /\ advance' = [advance EXCEPT ![r] = @ + a.cash + a.tds]
      /\ receivable' = [receivable EXCEPT ![i] = @ + Total(a)]
    BY DEF EraseAlloc
<1>8. /\ alloc' \in Rows
      /\ alloc'[r][i] = NoAlloc
      /\ \A s \in Receipts, j \in Invoices : s # r \/ j # i => alloc'[s][j] = alloc[s][j]
      /\ \A s \in Receipts : s # r => alloc'[s] = alloc[s]
    BY <1>1, <1>5, <1>7 DEF Rows
<1>9. /\ advance' \in [Receipts -> Int] /\ receivable' \in [Invoices -> Int]
      /\ advance'[r] = advance[r] + a.cash + a.tds
      /\ receivable'[i] = receivable[i] + Total(a)
      /\ \A s \in Receipts : s # r => advance'[s] = advance[s]
      /\ \A j \in Invoices : j # i => receivable'[j] = receivable[j]
    <2>1. advance \in [Receipts -> Int] /\ receivable \in [Invoices -> Int]
        BY DEF TypeOK
    <2> QED
        BY <1>3, <1>7, <2>1
<1>10. /\ CashOf(alloc', r) = CashOf(alloc, r) - a.cash
       /\ DiscOf(alloc', r) = DiscOf(alloc, r) - a.disc
       /\ TdsOf(alloc', r) = TdsOf(alloc, r) - a.tds
       /\ SettledOf(alloc', i) = SettledOf(alloc, i) - Total(a)
       /\ \A j \in Invoices : j # i => SettledOf(alloc', j) = SettledOf(alloc, j)
       /\ \A s \in Receipts : s # r => /\ CashOf(alloc', s) = CashOf(alloc, s)
                                       /\ DiscOf(alloc', s) = DiscOf(alloc, s)
                                       /\ TdsOf(alloc', s) = TdsOf(alloc, s)
    <2>1. /\ CashOf(alloc', r) = CashOf(alloc, r) - alloc[r][i].cash + alloc'[r][i].cash
          /\ DiscOf(alloc', r) = DiscOf(alloc, r) - alloc[r][i].disc + alloc'[r][i].disc
          /\ TdsOf(alloc', r) = TdsOf(alloc, r) - alloc[r][i].tds + alloc'[r][i].tds
          /\ SettledOf(alloc', i) = SettledOf(alloc, i) - Total(alloc[r][i]) + Total(alloc'[r][i])
          /\ \A j \in Invoices : j # i => SettledOf(alloc', j) = SettledOf(alloc, j)
          /\ \A s \in Receipts : s # r => /\ CashOf(alloc', s) = CashOf(alloc, s)
                                          /\ DiscOf(alloc', s) = DiscOf(alloc, s)
                                          /\ TdsOf(alloc', s) = TdsOf(alloc, s)
        BY <1>1, <1>8, RowChange
    <2>2. /\ alloc'[r][i].cash = 0 /\ alloc'[r][i].disc = 0 /\ alloc'[r][i].tds = 0
          /\ Total(alloc'[r][i]) = 0
        BY <1>5, <1>8
    <2> QED
        BY <1>2, <1>3, <2>1, <2>2
<1>11. ASSUME NEW s \in Receipts
       PROVE  ReceiptOK(doc', alloc', refund', advance', s)
    <2>1. CASE s # r
        <3>1. ReceiptOK(doc, alloc, refund, advance, s)
            BY DEF MoneyOK
        <3>2. doc'[s] = doc[s] /\ refund'[s] = refund[s] /\ alloc'[s] = alloc[s]
            BY <1>8, <2>1
        <3> QED
            BY <1>9, <1>10, <2>1, <3>1, <3>2 DEF ReceiptOK
    <2>2. CASE s = r
        <3>1. /\ CashOf(alloc, r) + RefundedOf(refund, r) <= doc[r].amount
              /\ DiscOf(alloc, r) <= doc[r].discount
              /\ TdsOf(alloc, r) <= doc[r].tds
              /\ doc[r].cheque # "bounced"
              /\ advance[r] = doc[r].amount + doc[r].tds - CashOf(alloc, r) - TdsOf(alloc, r)
                                - RefundedOf(refund, r)
              /\ CashOf(alloc, r) = doc[r].amount
                    => DiscOf(alloc, r) = doc[r].discount /\ TdsOf(alloc, r) = doc[r].tds
            BY <1>4 DEF ReceiptOK
        <3>2. /\ CashOf(alloc', r) + RefundedOf(refund, r) <= doc[r].amount
              /\ DiscOf(alloc', r) <= doc[r].discount
              /\ TdsOf(alloc', r) <= doc[r].tds
              /\ advance'[r] = doc[r].amount + doc[r].tds - CashOf(alloc', r) - TdsOf(alloc', r)
                                 - RefundedOf(refund, r)
            BY <1>2, <1>3, <1>9, <1>10, <3>1
        <3>3. CashOf(alloc', r) = doc[r].amount
                => DiscOf(alloc', r) = doc[r].discount /\ TdsOf(alloc', r) = doc[r].tds
            <4>1. SUFFICES ASSUME CashOf(alloc', r) = doc[r].amount
                           PROVE  DiscOf(alloc', r) = doc[r].discount /\ TdsOf(alloc', r) = doc[r].tds
                OBVIOUS
            <4>2. a.cash = 0
                BY <1>2, <1>3, <1>10, <3>1, <4>1
            <4>3. a.disc = 0 /\ a.tds = 0
                BY <1>5, <1>6, <4>2
            <4> QED
                BY <1>2, <1>3, <1>10, <3>1, <4>1, <4>2, <4>3
        <3> QED
            BY <2>2, <3>1, <3>2, <3>3 DEF ReceiptOK
    <2> QED
        BY <2>1, <2>2
<1>12. ASSUME NEW j \in Invoices
       PROVE  InvoiceOK(alloc', bill', receivable', j)
    <2>1. CASE j # i
        BY <1>9, <1>10, <2>1 DEF MoneyOK, InvoiceOK
    <2>2. CASE j = i
        <3>1. SettledOf(alloc', i) \in Nat
            BY <1>8, SumsAreNat
        <3> QED
            BY <1>2, <1>3, <1>4, <1>9, <1>10, <2>2, <3>1 DEF InvoiceOK
    <2> QED
        BY <2>1, <2>2
<1>13. RowsReal(alloc')
    BY <1>8 DEF MoneyOK, RowsReal
<1> QED
    BY <1>8, <1>9, <1>11, <1>12, <1>13 DEF MoneyOK

(* Voiding takes every row of the receipt and then the receipt itself off  *)
(* the books.                                                              *)
LEMMA UnwindStep ==
    ASSUME TypeOK, MoneyOK(doc, alloc, refund, bill, advance, receivable),
           NEW r \in Receipts, doc[r].status = "posted", ~HasRefund(r),
           UnwindReceipt(r), UNCHANGED <<refund, bill>>,
           doc'[r].status = "voided", doc'[r].amount = doc[r].amount,
           doc'[r].discount = doc[r].discount, doc'[r].tds = doc[r].tds,
           \A s \in Receipts : s # r => doc'[s] = doc[s]
    PROVE  /\ alloc' \in Rows
           /\ advance' \in [Receipts -> Int] /\ receivable' \in [Invoices -> Int]
           /\ MoneyOK(doc', alloc', refund', bill', advance', receivable')
<1>0. MaxAmount \in Nat /\ Bill \in [Invoices -> Amounts]
    BY MoneyInAssumption
<1>1. alloc \in Rows /\ refund \in RefundRows
    BY DEF TypeOK
<1>2. /\ CashOf(alloc, r) \in Nat /\ TdsOf(alloc, r) \in Nat
      /\ \A i \in Invoices : SettledOf(alloc, i) \in Nat
    BY <1>1, SumsAreNat
<1>3. /\ \A f \in Refunds : refund[r][f].amount = 0
      /\ RefundedOf(refund, r) = 0
    <2>1. \A f \in Refunds : refund[r][f].amount = 0
        BY <1>0, <1>1 DEF HasRefund, RefundRows, Amounts
    <2> QED
        BY <1>1, <2>1, RefundedIsNat
<1>4. doc[r].amount \in Nat /\ doc[r].discount \in Nat /\ doc[r].tds \in Nat
    <2>1. doc[r].amount \in Amounts /\ doc[r].discount \in Amounts /\ doc[r].tds \in Amounts
        BY DEF TypeOK, Docs
    <2> QED
        BY <1>0, <2>1 DEF Amounts
<1>5. Live(r).cash = CashOf(alloc, r) /\ Live(r).tds = TdsOf(alloc, r)
    BY DEF Live, CashOf, TdsOf
<1>6. NoAlloc \in [cash : Amounts, disc : Amounts, tds : Amounts]
    BY <1>0 DEF NoAlloc, Amounts
<1>7. /\ alloc' \in Rows
      /\ \A i \in Invoices : alloc'[r][i] = NoAlloc
      /\ \A s \in Receipts : s # r => alloc'[s] = alloc[s]
    BY <1>1, <1>6 DEF UnwindReceipt, Rows
<1>8. \A i \in Invoices : Total(alloc[r][i]) \in Nat /\ Bill[i] \in Nat
    BY <1>0, <1>1 DEF Rows, Amounts, Total
<1>9. /\ advance' \in [Receipts -> Int] /\ receivable' \in [Invoices -> Int]
      /\ advance'[r] = advance[r] + CashOf(alloc, r) + TdsOf(alloc, r) - (doc[r].amount + doc[r].tds)
      /\ \A i \in Invoices : receivable'[i] = receivable[i] + Total(alloc[r][i])
      /\ \A s \in Receipts : s # r => advance'[s] = advance[s]
    <2>1. advance \in [Receipts -> Int] /\ receivable \in [Invoices -> Int]
        BY DEF TypeOK
    <2> QED
        BY <1>2, <1>4, <1>5, <1>8, <2>1 DEF UnwindReceipt
<1>10. /\ CashOf(alloc', r) = 0 /\ DiscOf(alloc', r) = 0 /\ TdsOf(alloc', r) = 0
       /\ \A s \in Receipts : s # r => /\ CashOf(alloc', s) = CashOf(alloc, s)
                                       /\ DiscOf(alloc', s) = DiscOf(alloc, s)
                                       /\ TdsOf(alloc', s) = TdsOf(alloc, s)
       /\ \A i \in Invoices : SettledOf(alloc', i) = SettledOf(alloc, i) - Total(alloc[r][i])
    BY <1>1, <1>7, RowsErased
<1>11. ASSUME NEW s \in Receipts
       PROVE  ReceiptOK(doc', alloc', refund', advance', s)
    <2>1. CASE s # r
        <3>1. ReceiptOK(doc, alloc, refund, advance, s)
            BY DEF MoneyOK
        <3>2. doc'[s] = doc[s] /\ refund'[s] = refund[s] /\ alloc'[s] = alloc[s]
            BY <1>7, <2>1
        <3> QED
            BY <1>9, <1>10, <2>1, <3>1, <3>2 DEF ReceiptOK
    <2>2. CASE s = r
        <3>1. advance[r] = doc[r].amount + doc[r].tds - CashOf(alloc, r) - TdsOf(alloc, r)
                             - RefundedOf(refund, r)
            BY DEF MoneyOK, ReceiptOK
        <3>2. advance'[r] = 0
            BY <1>2, <1>3, <1>4, <1>9, <3>1
        <3>3. RefundedOf(refund', r) = 0 /\ \A f \in Refunds : refund'[r][f].amount = 0
            BY <1>3
        <3> QED
            BY <1>4, <1>7, <1>10, <2>2, <3>2, <3>3 DEF ReceiptOK
    <2> QED
        BY <2>1, <2>2
<1>12. ASSUME NEW i \in Invoices
       PROVE  InvoiceOK(alloc', bill', receivable', i)
    <2>1. SettledOf(alloc', i) \in Nat
        BY <1>7, SumsAreNat
    <2>2. InvoiceOK(alloc, bill, receivable, i)
        BY DEF MoneyOK
    <2> QED
        BY <1>2, <1>8, <1>9, <1>10, <2>1, <2>2 DEF InvoiceOK
<1>13. RowsReal(alloc')
    BY <1>7 DEF MoneyOK, RowsReal
<1> QED
    BY <1>7, <1>9, <1>11, <1>12, <1>13 DEF MoneyOK

RefundWrite(r, f, row) ==
    /\ refund' = [refund EXCEPT ![r][f] = row]
    /\ advance' = [advance EXCEPT ![r] = @ - row.amount + refund[r][f].amount]

(* Handing money back, or taking the hand-back back, moves the receipt's   *)
(* refunds and its balance on Customer Advances by the same amount.        *)
LEMMA RefundStep ==
    ASSUME TypeOK, MoneyOK(doc, alloc, refund, bill, advance, receivable),
           NEW r \in Receipts, NEW f \in Refunds, NEW row \in [amount : Amounts, date : Dates],
           RefundWrite(r, f, row), UNCHANGED <<doc, alloc, bill, receivable>>,
           doc[r].status # "posted" => row.amount = 0,
           CashOf(alloc, r) + RefundedOf(refund, r) - refund[r][f].amount + row.amount <= doc[r].amount
    PROVE  /\ refund' \in RefundRows
           /\ advance' \in [Receipts -> Int]
           /\ MoneyOK(doc', alloc', refund', bill', advance', receivable')
<1>0. MaxAmount \in Nat
    BY MoneyInAssumption
<1>1. alloc \in Rows /\ refund \in RefundRows
    BY DEF TypeOK
<1>2. /\ CashOf(alloc, r) \in Nat /\ TdsOf(alloc, r) \in Nat
      /\ RefundedOf(refund, r) \in Nat
    BY <1>1, SumsAreNat, RefundedIsNat
<1>3. /\ doc[r].amount \in Nat /\ doc[r].tds \in Nat
      /\ refund[r][f].amount \in Nat /\ row.amount \in Nat
    <2>1. doc[r].amount \in Amounts /\ doc[r].tds \in Amounts
        BY DEF TypeOK, Docs
    <2>2. refund[r][f].amount \in Amounts
        BY <1>1 DEF RefundRows
    <2>3. row.amount \in Amounts
        OBVIOUS
    <2> QED
        BY <1>0, <2>1, <2>2, <2>3 DEF Amounts
<1>4. /\ refund' \in RefundRows
      /\ refund'[r][f] = row
      /\ \A s \in Receipts, g \in Refunds : s # r \/ g # f => refund'[s][g] = refund[s][g]
      /\ \A s \in Receipts : s # r => refund'[s] = refund[s]
    BY <1>1 DEF RefundRows, RefundWrite
<1>5. /\ RefundedOf(refund', r) = RefundedOf(refund, r) - refund[r][f].amount + row.amount
      /\ \A s \in Receipts : s # r => RefundedOf(refund', s) = RefundedOf(refund, s)
    <2>1. /\ RefundedOf(refund', r)
                = RefundedOf(refund, r) - refund[r][f].amount + refund'[r][f].amount
          /\ \A s \in Receipts : s # r => RefundedOf(refund', s) = RefundedOf(refund, s)
        BY <1>1, <1>4, RefundChange
    <2> QED
        BY <1>4, <2>1
<1>6. /\ advance' \in [Receipts -> Int]
      /\ advance'[r] = advance[r] - row.amount + refund[r][f].amount
      /\ \A s \in Receipts : s # r => advance'[s] = advance[s]
    <2>1. advance \in [Receipts -> Int]
        BY DEF TypeOK
    <2> QED
        BY <1>3, <2>1 DEF RefundWrite
<1>7. ASSUME NEW s \in Receipts
      PROVE  ReceiptOK(doc', alloc', refund', advance', s)
    <2>0. ReceiptOK(doc, alloc, refund, advance, s)
        BY DEF MoneyOK
    <2>1. CASE s # r
        <3>1. doc'[s] = doc[s] /\ refund'[s] = refund[s] /\ alloc' = alloc
            BY <1>4, <2>1
        <3> QED
            BY <1>5, <1>6, <2>0, <2>1, <3>1 DEF ReceiptOK
    <2>2. CASE s = r
        <3>1. CASE doc[r].status = "posted"
            <4>1. advance'[r] = doc[r].amount + doc[r].tds - CashOf(alloc, r) - TdsOf(alloc, r)
                                  - RefundedOf(refund', r)
                BY <1>2, <1>3, <1>5, <1>6, <2>0, <2>2, <3>1 DEF ReceiptOK
            <4>2. CashOf(alloc, r) + RefundedOf(refund', r) <= doc[r].amount
                BY <1>2, <1>3, <1>5
            <4> QED
                BY <2>0, <2>2, <3>1, <4>1, <4>2 DEF ReceiptOK
        <3>2. CASE doc[r].status # "posted"
            <4>1. /\ \A g \in Refunds : refund[r][g].amount = 0
                  /\ row.amount = 0
                BY <2>0, <2>2, <3>2 DEF ReceiptOK
            <4>2. \A g \in Refunds : refund'[r][g].amount = 0
                BY <1>4, <4>1
            <4>3. RefundedOf(refund', r) = RefundedOf(refund, r) /\ advance'[r] = advance[r]
                <5>1. advance[r] \in Int
                    BY DEF TypeOK
                <5> QED
                    BY <1>2, <1>5, <1>6, <4>1, <5>1
            <4> QED
                BY <2>0, <2>2, <3>2, <4>2, <4>3 DEF ReceiptOK
        <3> QED
            BY <3>1, <3>2
    <2> QED
        BY <2>1, <2>2
<1> QED
    BY <1>4, <1>6, <1>7 DEF MoneyOK

(* No rows, no sums.                                                       *)
LEMMA EmptySums ==
    ASSUME NEW A \in Rows
    PROVE  /\ \A r \in Receipts :
                (\A i \in Invoices : A[r][i] = NoAlloc)
                    => CashOf(A, r) = 0 /\ DiscOf(A, r) = 0 /\ TdsOf(A, r) = 0
           /\ \A i \in Invoices :
                (\A r \in Receipts : A[r][i] = NoAlloc) => SettledOf(A, i) = 0
<1>1. ASSUME NEW r \in Receipts, \A i \in Invoices : A[r][i] = NoAlloc
      PROVE  CashOf(A, r) = 0 /\ DiscOf(A, r) = 0 /\ TdsOf(A, r) = 0
    BY <1>1, RowsErased
<1>2. ASSUME NEW i \in Invoices, \A r \in Receipts : A[r][i] = NoAlloc
      PROVE  SettledOf(A, i) = 0
    <2> DEFINE S == [r \in Receipts |-> Total(A[r][i])]
    <2>1. \A r \in Receipts : S[r] = 0
        BY <1>2 DEF NoAlloc, Total
    <2>2. S \in [Receipts -> 0 .. Top]
        <3>1. 0 \in 0 .. Top
            BY MoneyInAssumption DEF Top
        <3> QED
            BY <2>1, <3>1
    <2>3. Sum(S) = 0
        BY <2>1, <2>2, SumOfZeros
    <2> QED
        BY <2>3 DEF SettledOf
<1> QED
    BY <1>1, <1>2

(* What Available computes.                                                *)
LEMMA AvailableIs ==
    ASSUME TypeOK, NEW r \in Receipts
    PROVE  /\ Available(r) \in Nat
           /\ Available(r) > 0 => CashOf(alloc, r) + RefundedOf(refund, r) + Available(r) = doc[r].amount
<1>0. MaxAmount \in Nat
    BY MoneyInAssumption
<1>1. /\ CashOf(alloc, r) \in Nat /\ RefundedOf(refund, r) \in Nat
    BY SumsAreNat, RefundedIsNat DEF TypeOK
<1>2. doc[r].amount \in Nat
    <2>1. doc[r].amount \in Amounts
        BY DEF TypeOK, Docs
    <2> QED
        BY <1>0, <2>1 DEF Amounts
<1>3. Live(r).cash = CashOf(alloc, r) /\ Refunded(r) = RefundedOf(refund, r)
    BY DEF Live, Refunded, CashOf, RefundedOf
<1> QED
    BY <1>1, <1>2, <1>3 DEF Available, CashAvailable, AtLeastZero

(* Every initial state satisfies the invariant.                            *)
LEMMA InitOK == Init => IInv
<1> SUFFICES ASSUME Init PROVE IInv
    OBVIOUS
<1>0. MaxAmount \in Nat /\ Bill \in [Invoices -> Amounts] /\ 0 \in Amounts
    BY MoneyInAssumption DEF Amounts
<1>1. /\ doc \in Docs
      /\ \A r \in Receipts : doc[r] = NoDoc
    BY <1>0 DEF Init, Docs, NoDoc, Dates
<1>2. /\ alloc \in Rows
      /\ \A r \in Receipts, i \in Invoices : alloc[r][i] = NoAlloc
    BY <1>0 DEF Init, Rows, NoAlloc
<1>3. /\ refund \in RefundRows
      /\ \A r \in Receipts, f \in Refunds : refund[r][f].amount = 0
    BY <1>0 DEF Init, RefundRows, NoRefund, Dates
<1>4. /\ bill \in [Invoices -> {"draft", "completed", "cancelled"}]
      /\ period \in [Dates -> {"open", "soft_closed", "closed"}]
      /\ holdCheques \in BOOLEAN
      /\ advance \in [Receipts -> Int]
      /\ receivable \in [Invoices -> Int]
    <2>1. \A i \in Invoices : Bill[i] \in Int
        BY <1>0 DEF Amounts
    <2> QED
        BY <2>1 DEF Init
<1>5. batch \in Batches /\ batch.phase = "idle"
    BY DEF Init, Batches, Idle
<1>6. TypeOK
    BY <1>1, <1>2, <1>3, <1>4, <1>5 DEF TypeOK
<1>7. ASSUME NEW r \in Receipts
      PROVE  ReceiptOK(doc, alloc, refund, advance, r)
    <2>1. CashOf(alloc, r) = 0 /\ DiscOf(alloc, r) = 0 /\ TdsOf(alloc, r) = 0
        BY <1>2, EmptySums
    <2>2. RefundedOf(refund, r) = 0
        BY <1>3, RefundedIsNat
    <2>3. advance[r] = 0
        BY DEF Init
    <2>4. /\ doc[r].amount = 0 /\ doc[r].discount = 0 /\ doc[r].tds = 0
          /\ doc[r].status # "posted" /\ doc[r].cheque # "bounced"
        <3>1. doc[r] = NoDoc
            BY <1>1
        <3> QED
            BY <3>1 DEF NoDoc
    <2>5. /\ \A i \in Invoices : alloc[r][i] = NoAlloc
          /\ \A f \in Refunds : refund[r][f].amount = 0
        BY <1>2, <1>3
    <2> QED
        BY <2>1, <2>2, <2>3, <2>4, <2>5 DEF ReceiptOK
<1>8. ASSUME NEW i \in Invoices
      PROVE  InvoiceOK(alloc, bill, receivable, i)
    <2>1. SettledOf(alloc, i) = 0
        BY <1>2, EmptySums
    <2>2. receivable[i] = IF bill[i] = "completed" THEN Bill[i] ELSE 0
        BY DEF Init
    <2>3. Bill[i] \in Nat
        BY <1>0 DEF Amounts
    <2> QED
        BY <2>1, <2>2, <2>3 DEF InvoiceOK
<1> QED
    BY <1>2, <1>5, <1>6, <1>7, <1>8 DEF IInv, MoneyOK, RowsReal, BatchOK

-----------------------------------------------------------------------------
(* Each action preserves the invariant.                                    *)

(* Allocating to one invoice (allocate_receipt) keeps the invariant.       *)
LEMMA AllocateOK ==
    ASSUME IInv, NEW r \in Receipts, NEW i \in Invoices, NEW x, Allocate(r, i, x)
    PROVE  IInv'
<1>1. /\ alloc' \in Rows
      /\ advance' \in [Receipts -> Int] /\ receivable' \in [Invoices -> Int]
      /\ MoneyOK(doc', alloc', refund', bill', advance', receivable')
    BY WriteStep DEF IInv, Allocate
<1>2. TypeOK'
    BY <1>1 DEF IInv, TypeOK, Allocate, rules
<1>3. BatchOK'
    BY DEF Allocate, Quiet, BatchOK
<1> QED
    BY <1>1, <1>2, <1>3 DEF IInv

(* Only a posted receipt has rows.                                         *)
LEMMA RowsArePosted ==
    ASSUME IInv, NEW r \in Receipts, NEW i \in Invoices, alloc[r][i] # NoAlloc
    PROVE  doc[r].status = "posted"
BY DEF IInv, MoneyOK, ReceiptOK

(* Reversing one allocation (reverse_allocation) keeps it.                 *)
LEMMA ReverseOK ==
    ASSUME IInv, NEW r \in Receipts, NEW i \in Invoices, ReverseAllocation(r, i)
    PROVE  IInv'
<1>0. doc[r].status = "posted"
    BY RowsArePosted DEF ReverseAllocation
<1>1. /\ alloc' \in Rows
      /\ advance' \in [Receipts -> Int] /\ receivable' \in [Invoices -> Int]
      /\ MoneyOK(doc', alloc', refund', bill', advance', receivable')
    BY <1>0, EraseStep DEF IInv, ReverseAllocation
<1>2. TypeOK'
    BY <1>1 DEF IInv, TypeOK, ReverseAllocation, rules
<1>3. BatchOK'
    BY DEF ReverseAllocation, Quiet, BatchOK
<1> QED
    BY <1>1, <1>2, <1>3 DEF IInv

(* Only the cheque state of receipt r changes.                             *)
LEMMA ChequeStep ==
    ASSUME IInv, NEW r \in Receipts, UNCHANGED <<alloc, refund, bill, books>>,
           doc' \in Docs,
           doc'[r].status = doc[r].status, doc'[r].amount = doc[r].amount,
           doc'[r].discount = doc[r].discount, doc'[r].tds = doc[r].tds,
           doc'[r].cheque = "bounced" => doc[r].status = "voided",
           \A s \in Receipts : s # r => doc'[s] = doc[s]
    PROVE  MoneyOK(doc', alloc', refund', bill', advance', receivable')
<1>1. ASSUME NEW s \in Receipts
      PROVE  ReceiptOK(doc', alloc', refund', advance', s)
    <2>1. ReceiptOK(doc, alloc, refund, advance, s)
        BY DEF IInv, MoneyOK
    <2>2. CASE s = r
        BY <2>1, <2>2 DEF ReceiptOK, books
    <2>3. CASE s # r
        BY <2>1, <2>3 DEF ReceiptOK, books
    <2> QED
        BY <2>2, <2>3
<1> QED
    BY <1>1 DEF IInv, MoneyOK, books

(* Voiding a receipt (void_receipt) keeps it.                              *)
LEMMA VoidOK ==
    ASSUME IInv, NEW r \in Receipts, VoidReceipt(r)
    PROVE  IInv'
<1>1. /\ doc' \in Docs
      /\ doc'[r].status = "voided" /\ doc'[r].amount = doc[r].amount
      /\ doc'[r].discount = doc[r].discount /\ doc'[r].tds = doc[r].tds
      /\ \A s \in Receipts : s # r => doc'[s] = doc[s]
    BY DEF IInv, TypeOK, Docs, VoidReceipt
<1>2. /\ alloc' \in Rows
      /\ advance' \in [Receipts -> Int] /\ receivable' \in [Invoices -> Int]
      /\ MoneyOK(doc', alloc', refund', bill', advance', receivable')
    <2>1. /\ doc[r].status = "posted" /\ ~HasRefund(r)
          /\ UnwindReceipt(r) /\ UNCHANGED <<refund, bill>>
        BY DEF VoidReceipt, Voidable
    <2> QED
        BY <1>1, <2>1, UnwindStep DEF IInv
<1>3. TypeOK'
    BY <1>1, <1>2 DEF IInv, TypeOK, VoidReceipt, rules
<1>4. BatchOK'
    BY DEF VoidReceipt, Quiet, BatchOK
<1> QED
    BY <1>2, <1>3, <1>4 DEF IInv

(* A bounced cheque (set_cheque_status BOUNCED) keeps it.                  *)
LEMMA BounceOK ==
    ASSUME IInv, NEW r \in Receipts, NEW charged, BounceCheque(r, charged)
    PROVE  IInv'
<1>1. /\ doc' \in Docs
      /\ doc'[r].status = "voided" /\ doc'[r].amount = doc[r].amount
      /\ doc'[r].discount = doc[r].discount /\ doc'[r].tds = doc[r].tds
      /\ \A s \in Receipts : s # r => doc'[s] = doc[s]
    BY DEF IInv, TypeOK, Docs, BounceCheque
<1>2. /\ alloc' \in Rows
      /\ advance' \in [Receipts -> Int] /\ receivable' \in [Invoices -> Int]
      /\ MoneyOK(doc', alloc', refund', bill', advance', receivable')
    <2>1. CASE doc[r].status = "voided" /\ UNCHANGED <<alloc, advance, receivable>>
        <3>1. UNCHANGED <<alloc, refund, bill, books>>
            BY <2>1 DEF BounceCheque, books
        <3>2. MoneyOK(doc', alloc', refund', bill', advance', receivable')
            BY <1>1, <2>1, <3>1, ChequeStep
        <3> QED
            BY <2>1, <3>2 DEF IInv, TypeOK
    <2>2. CASE Voidable(r) /\ UnwindReceipt(r)
        <3>1. /\ doc[r].status = "posted" /\ ~HasRefund(r)
              /\ UnwindReceipt(r) /\ UNCHANGED <<refund, bill>>
            BY <2>2 DEF BounceCheque, Voidable
        <3> QED
            BY <1>1, <3>1, UnwindStep DEF IInv
    <2> QED
        BY <2>1, <2>2 DEF BounceCheque
<1>3. TypeOK'
    BY <1>1, <1>2 DEF IInv, TypeOK, BounceCheque, rules
<1>4. BatchOK'
    BY DEF BounceCheque, Quiet, BatchOK
<1> QED
    BY <1>2, <1>3, <1>4 DEF IInv

(* Handing an advance back (refund_advance) keeps it.                      *)
LEMMA RefundOK ==
    ASSUME IInv, NEW r \in Receipts, NEW f \in Refunds, NEW x \in Amounts, NEW d \in Dates,
           RefundAdvance(r, f, x, d)
    PROVE  IInv'
<1> DEFINE row == [amount |-> x, date |-> d]
<1>0. TypeOK /\ MoneyOK(doc, alloc, refund, bill, advance, receivable)
    BY DEF IInv
<1>1. row \in [amount : Amounts, date : Dates] /\ row.amount = x
    OBVIOUS
<1>2. refund[r][f].amount = 0
    BY DEF RefundAdvance, NoRefund
<1>3. x \in Nat /\ CashOf(alloc, r) + RefundedOf(refund, r) + x <= doc[r].amount
    <2>1. x \in 1 .. Available(r)
        BY DEF RefundAdvance
    <2>2. /\ Available(r) \in Nat
          /\ Available(r) > 0 => CashOf(alloc, r) + RefundedOf(refund, r) + Available(r) = doc[r].amount
        BY <1>0, AvailableIs
    <2>3. CashOf(alloc, r) \in Nat /\ RefundedOf(refund, r) \in Nat
        BY <1>0, SumsAreNat, RefundedIsNat DEF TypeOK
    <2> QED
        BY <2>1, <2>2, <2>3
<1>4. CashOf(alloc, r) + RefundedOf(refund, r) - refund[r][f].amount + row.amount <= doc[r].amount
    <2>1. CashOf(alloc, r) \in Nat /\ RefundedOf(refund, r) \in Nat
        BY <1>0, SumsAreNat, RefundedIsNat DEF TypeOK
    <2> QED
        BY <1>1, <1>2, <1>3, <2>1
<1>5. RefundWrite(r, f, row)
    <2>1. advance \in [Receipts -> Int] /\ refund[r][f].amount = 0
        BY <1>0, <1>2 DEF TypeOK
    <2>2. advance' = [advance EXCEPT ![r] = @ - x]
        BY DEF RefundAdvance
    <2>3. advance[r] - x = advance[r] - row.amount + refund[r][f].amount
        BY <1>1, <1>3, <2>1
    <2>4. refund' = [refund EXCEPT ![r][f] = row]
        BY DEF RefundAdvance
    <2> QED
        BY <2>2, <2>3, <2>4 DEF RefundWrite
<1>6. doc[r].status = "posted" /\ UNCHANGED <<doc, alloc, bill, receivable>>
    BY DEF RefundAdvance
<1> HIDE DEF row
<1>7. /\ refund' \in RefundRows
      /\ advance' \in [Receipts -> Int]
      /\ MoneyOK(doc', alloc', refund', bill', advance', receivable')
    BY <1>0, <1>1, <1>4, <1>5, <1>6, RefundStep
<1>8. TypeOK'
    BY <1>7 DEF IInv, TypeOK, RefundAdvance, rules
<1>9. BatchOK'
    BY DEF RefundAdvance, Quiet, BatchOK
<1> QED
    BY <1>7, <1>8, <1>9 DEF IInv

(* Voiding a hand-back (void_advance_refund) keeps it.                     *)
LEMMA VoidRefundOK ==
    ASSUME IInv, NEW r \in Receipts, NEW f \in Refunds, VoidAdvanceRefund(r, f)
    PROVE  IInv'
<1>0. TypeOK /\ MoneyOK(doc, alloc, refund, bill, advance, receivable)
    BY DEF IInv
<1>1. NoRefund \in [amount : Amounts, date : Dates] /\ NoRefund.amount = 0
    BY MoneyInAssumption DEF NoRefund, Amounts, Dates
<1>2. /\ CashOf(alloc, r) \in Nat /\ RefundedOf(refund, r) \in Nat
      /\ doc[r].amount \in Nat /\ refund[r][f].amount \in Nat
    <2>1. CashOf(alloc, r) \in Nat /\ RefundedOf(refund, r) \in Nat
        BY <1>0, SumsAreNat, RefundedIsNat DEF TypeOK
    <2>2. doc[r].amount \in Amounts
        BY <1>0 DEF TypeOK, Docs
    <2>3. refund[r][f].amount \in Amounts
        BY <1>0 DEF TypeOK, RefundRows
    <2> QED
        BY <2>1, <2>2, <2>3, MoneyInAssumption DEF Amounts
<1>3. CashOf(alloc, r) + RefundedOf(refund, r) - refund[r][f].amount + NoRefund.amount <= doc[r].amount
    <2>1. CashOf(alloc, r) + RefundedOf(refund, r) <= doc[r].amount
        BY <1>0 DEF MoneyOK, ReceiptOK
    <2> QED
        BY <1>1, <1>2, <2>1
<1>4. RefundWrite(r, f, NoRefund)
    <2>1. advance \in [Receipts -> Int]
        BY <1>0 DEF TypeOK
    <2>2. advance[r] + refund[r][f].amount = advance[r] - NoRefund.amount + refund[r][f].amount
        BY <1>1, <1>2, <2>1
    <2>3. /\ refund' = [refund EXCEPT ![r][f] = NoRefund]
          /\ advance' = [advance EXCEPT ![r] = @ + refund[r][f].amount]
        BY DEF VoidAdvanceRefund
    <2> QED
        BY <2>2, <2>3 DEF RefundWrite
<1>5. UNCHANGED <<doc, alloc, bill, receivable>>
    BY DEF VoidAdvanceRefund
<1>6. /\ refund' \in RefundRows
      /\ advance' \in [Receipts -> Int]
      /\ MoneyOK(doc', alloc', refund', bill', advance', receivable')
    BY <1>0, <1>1, <1>3, <1>4, <1>5, RefundStep
<1>7. TypeOK'
    BY <1>6 DEF IInv, TypeOK, VoidAdvanceRefund, rules
<1>8. BatchOK'
    BY DEF VoidAdvanceRefund, Quiet, BatchOK
<1> QED
    BY <1>6, <1>7, <1>8 DEF IInv

(* A cheque set back to pending (set_cheque_status) keeps it.              *)
LEMMA UnclearOK ==
    ASSUME IInv, NEW r \in Receipts, UnclearCheque(r)
    PROVE  IInv'
<1>1. /\ doc' \in Docs
      /\ doc'[r].status = doc[r].status /\ doc'[r].amount = doc[r].amount
      /\ doc'[r].discount = doc[r].discount /\ doc'[r].tds = doc[r].tds
      /\ doc'[r].cheque # "bounced"
      /\ \A s \in Receipts : s # r => doc'[s] = doc[s]
    BY DEF IInv, TypeOK, Docs, UnclearCheque
<1>2. UNCHANGED <<alloc, refund, bill, books>>
    BY DEF UnclearCheque
<1>3. MoneyOK(doc', alloc', refund', bill', advance', receivable')
    BY <1>1, <1>2, ChequeStep
<1>4. TypeOK'
    BY <1>1 DEF IInv, TypeOK, UnclearCheque, rules, books
<1>5. BatchOK'
    BY DEF UnclearCheque, Quiet, BatchOK
<1> QED
    BY <1>3, <1>4, <1>5 DEF IInv

(* Cancelling an invoice without live allocations keeps it.                *)
LEMMA CancelOK ==
    ASSUME IInv, NEW i \in Invoices, CancelInvoice(i)
    PROVE  IInv'
<1>0. Bill \in [Invoices -> Amounts] /\ MaxAmount \in Nat
    BY MoneyInAssumption
<1>1. /\ bill' \in [Invoices -> {"draft", "completed", "cancelled"}]
      /\ receivable' \in [Invoices -> Int]
      /\ bill'[i] = "cancelled"
      /\ receivable'[i] = IF bill[i] = "completed" THEN receivable[i] - Bill[i] ELSE receivable[i]
      /\ \A j \in Invoices : j # i => bill'[j] = bill[j] /\ receivable'[j] = receivable[j]
    <2>1. /\ bill \in [Invoices -> {"draft", "completed", "cancelled"}]
          /\ receivable \in [Invoices -> Int]
        BY DEF IInv, TypeOK
    <2>2. Bill[i] \in Int
        BY <1>0 DEF Amounts
    <2> QED
        BY <2>1, <2>2 DEF CancelInvoice
<1>2. SettledOf(alloc, i) = 0
    BY EmptySums DEF CancelInvoice, IInv, TypeOK
<1>3. UNCHANGED <<doc, alloc, refund, advance>>
    BY DEF CancelInvoice
<1>4. ASSUME NEW j \in Invoices
      PROVE  InvoiceOK(alloc, bill', receivable', j)
    <2>1. InvoiceOK(alloc, bill, receivable, j)
        BY DEF IInv, MoneyOK
    <2>2. CASE j = i
        <3>1. receivable'[i] = 0
            <4>1. Bill[i] \in Int
                BY <1>0 DEF Amounts
            <4> QED
                BY <1>1, <1>2, <2>1, <2>2, <4>1 DEF InvoiceOK
        <3> QED
            BY <1>1, <1>2, <2>2, <3>1 DEF InvoiceOK
    <2>3. CASE j # i
        BY <1>1, <2>1, <2>3 DEF InvoiceOK
    <2> QED
        BY <2>2, <2>3
<1>5. MoneyOK(doc', alloc', refund', bill', advance', receivable')
    BY <1>3, <1>4 DEF IInv, MoneyOK
<1>6. TypeOK'
    BY <1>1 DEF IInv, TypeOK, CancelInvoice, rules
<1>7. BatchOK'
    BY DEF CancelInvoice, Quiet, BatchOK
<1> QED
    BY <1>5, <1>6, <1>7 DEF IInv

(* Closing or reopening a period keeps it.                                 *)
LEMMA SetPeriodOK ==
    ASSUME IInv, NEW d \in Dates, NEW st \in {"open", "soft_closed", "closed"}, SetPeriod(d, st)
    PROVE  IInv'
<1>1. TypeOK'
    BY DEF IInv, TypeOK, SetPeriod, books
<1>2. MoneyOK(doc', alloc', refund', bill', advance', receivable')
    BY DEF IInv, SetPeriod, books
<1>3. BatchOK'
    BY DEF SetPeriod, Quiet, BatchOK
<1> QED
    BY <1>1, <1>2, <1>3 DEF IInv

(* Switching the cheque rule keeps it.                                     *)
LEMMA ChangeRuleOK ==
    ASSUME IInv, ChangeChequeRule
    PROVE  IInv'
<1>1. TypeOK'
    <2>1. holdCheques' \in BOOLEAN
        BY Zenon DEF ChangeChequeRule
    <2> QED
        BY <2>1 DEF IInv, TypeOK, ChangeChequeRule, books
<1>2. MoneyOK(doc', alloc', refund', bill', advance', receivable')
    BY DEF IInv, ChangeChequeRule, books
<1>3. BatchOK'
    BY DEF ChangeChequeRule, Quiet, BatchOK
<1> QED
    BY <1>1, <1>2, <1>3 DEF IInv

(* What a transaction that starts to allocate from r looks like.           *)
LEMMA BeginIs ==
    ASSUME NEW origin \in {"create", "bulk", "clear"}, NEW r \in Receipts,
           NEW todo \in Seq(Invoices), NEW want \in Int, NEW exact \in BOOLEAN,
           Begin(origin, r, todo, want, exact)
    PROVE  /\ batch' \in Batches
           /\ batch'.phase = "apply" /\ batch'.origin = origin /\ batch'.receipt = r
           /\ batch'.done = <<>>
<1>1. <<>> \in Seq(Invoices)
    OBVIOUS
<1>2. batch' = [phase |-> "apply", origin |-> origin, receipt |-> r, todo |-> todo, done |-> <<>>,
                want |-> want, exact |-> exact, broken |-> FALSE]
    BY DEF Begin, Idle
<1> QED
    BY <1>1, <1>2 DEF Batches

(* Starting to allocate oldest first (bulk_allocate) keeps it.             *)
LEMMA BulkOK ==
    ASSUME IInv, NEW r \in Receipts, AllocateOldestFirst(r)
    PROVE  IInv'
<1>1. Available(r) \in Int /\ ByDue \in Seq(Invoices)
    BY AvailableIs, MoneyInAssumption DEF IInv
<1>2. /\ batch' \in Batches
      /\ batch'.phase = "apply" /\ batch'.origin = "bulk" /\ batch'.receipt = r
      /\ batch'.done = <<>>
    <2>1. Begin("bulk", r, ByDue, Available(r), FALSE)
        BY DEF AllocateOldestFirst
    <2> QED
        BY <1>1, <2>1, BeginIs
<1>3. TypeOK'
    BY <1>2 DEF IInv, TypeOK, AllocateOldestFirst, rules, books
<1>4. MoneyOK(doc', alloc', refund', bill', advance', receivable')
    BY DEF IInv, AllocateOldestFirst, books
<1>5. BatchOK'
    <2>1. doc'[r].status = "posted"
        BY DEF AllocateOldestFirst
    <2> QED
        BY <1>2, <2>1 DEF BatchOK
<1> QED
    BY <1>3, <1>4, <1>5 DEF IInv

(* Clearing a cheque (set_cheque_status CLEARED) keeps it.                 *)
LEMMA ClearOK ==
    ASSUME IInv, NEW r \in Receipts, ClearCheque(r)
    PROVE  IInv'
<1>1. /\ doc' \in Docs
      /\ doc'[r].status = doc[r].status /\ doc'[r].amount = doc[r].amount
      /\ doc'[r].discount = doc[r].discount /\ doc'[r].tds = doc[r].tds
      /\ doc'[r].cheque # "bounced"
      /\ \A s \in Receipts : s # r => doc'[s] = doc[s]
    <2>1. doc \in Docs
        BY DEF IInv, TypeOK
    <2>2. doc' = [doc EXCEPT ![r].cheque = "cleared"]
        BY DEF ClearCheque
    <2> QED
        BY <2>1, <2>2 DEF Docs
<1>2. UNCHANGED <<alloc, refund, bill, books>>
    BY DEF ClearCheque
<1>3. MoneyOK(doc', alloc', refund', bill', advance', receivable')
    BY <1>1, <1>2, ChequeStep
<1>4. batch' \in Batches /\ BatchOK'
    <2>1. CASE batch' = batch
        <3>1. batch'.phase = "idle"
            BY <2>1 DEF ClearCheque, Quiet
        <3> QED
            BY <2>1, <3>1 DEF IInv, TypeOK, BatchOK
    <2>2. CASE batch' # batch
        <3>1. doc[r].status = "posted" /\ doc[r].intent # "none"
            BY <2>2 DEF ClearCheque
        <3>2. /\ Available(r) \in Int /\ ByDue \in Seq(Invoices)
              /\ Lesser(doc[r].want, Available(r)) \in Int
            <4>1. Available(r) \in Int /\ ByDue \in Seq(Invoices)
                BY AvailableIs, MoneyInAssumption DEF IInv
            <4>2. doc[r].want \in Amounts
                BY DEF IInv, TypeOK, Docs
            <4> QED
                BY <4>1, <4>2, MoneyInAssumption DEF Amounts, Lesser
        <3>3. doc[r].intent \in Invoices \cup {"none", "oldest"}
            BY DEF IInv, TypeOK, Docs
        <3>4. \E todo \in Seq(Invoices), want \in Int : Begin("clear", r, todo, want, FALSE)
            <4>1. CASE doc[r].intent = "oldest"
                BY <2>2, <3>2, <4>1 DEF ClearCheque
            <4>2. CASE doc[r].intent # "oldest"
                <5>1. doc[r].intent \in Invoices
                    BY <3>1, <3>3, <4>2
                <5>2. <<doc[r].intent>> \in Seq(Invoices) /\ <<>> \in Seq(Invoices)
                    BY <5>1
                <5>3. \/ Begin("clear", r, <<doc[r].intent>>, Lesser(doc[r].want, Available(r)), FALSE)
                      \/ Begin("clear", r, <<>>, Lesser(doc[r].want, Available(r)), FALSE)
                    BY <2>2, <4>2 DEF ClearCheque
                <5> QED
                    BY <3>2, <5>2, <5>3
            <4> QED
                BY <4>1, <4>2
        <3>5. PICK todo \in Seq(Invoices), want \in Int : Begin("clear", r, todo, want, FALSE)
            BY <3>4
        <3>6. /\ batch' \in Batches
              /\ batch'.phase = "apply" /\ batch'.origin = "clear" /\ batch'.receipt = r
              /\ batch'.done = <<>>
            BY <3>5, BeginIs
        <3> QED
            BY <1>1, <3>1, <3>6 DEF BatchOK
    <2> QED
        BY <2>1, <2>2
<1>5. TypeOK'
    BY <1>1, <1>4 DEF IInv, TypeOK, ClearCheque, rules, books
<1> QED
    BY <1>3, <1>4, <1>5 DEF IInv

(* A receipt that was never entered has no rows; entered, all its money is *)
(* on account.                                                             *)
LEMMA CreateOK ==
    ASSUME IInv, NEW r \in Receipts, NEW e \in Entries, CreateReceipt(r, e)
    PROVE  IInv'
<1>0. /\ e.amount \in Amounts /\ e.discount \in Amounts /\ e.tds \in Amounts
      /\ e.date \in Dates /\ e.want \in Amounts /\ MaxAmount \in Nat
      /\ e.plan \in Invoices \cup {"advance", "oldest"}
    BY MoneyInAssumption DEF Entry
<1>1. e.amount \in Nat /\ e.discount \in Nat /\ e.tds \in Nat /\ e.want \in Nat
    BY <1>0 DEF Amounts
<1>2. doc[r].status # "posted"
    BY DEF CreateReceipt, NoDoc
<1>3. /\ \A i \in Invoices : alloc[r][i] = NoAlloc
      /\ \A f \in Refunds : refund[r][f].amount = 0
      /\ advance[r] = 0
    BY <1>2 DEF IInv, MoneyOK, ReceiptOK
<1>4. /\ CashOf(alloc, r) = 0 /\ DiscOf(alloc, r) = 0 /\ TdsOf(alloc, r) = 0
      /\ RefundedOf(refund, r) = 0
    BY <1>3, EmptySums, RefundedIsNat DEF IInv, TypeOK
<1>5. PICK hold \in BOOLEAN :
         /\ hold => e.plan # "advance"
         /\ doc' = [doc EXCEPT ![r] =
              [status |-> "posted", amount |-> e.amount, discount |-> e.discount, tds |-> e.tds,
               cheque |-> IF e.cheque THEN "pending" ELSE "none", date |-> e.date,
               intent |-> IF hold THEN e.plan ELSE "none", want |-> IF hold THEN e.want ELSE 0]]
    <2> DEFINE h == e.cheque /\ holdCheques /\ e.plan # "advance"
    <2>1. h \in BOOLEAN
        OBVIOUS
    <2> QED
        BY <2>1 DEF CreateReceipt
<1>6. /\ doc' \in Docs
      /\ doc'[r].status = "posted" /\ doc'[r].amount = e.amount /\ doc'[r].discount = e.discount
      /\ doc'[r].tds = e.tds /\ doc'[r].cheque # "bounced" /\ doc'[r].date = e.date
      /\ \A s \in Receipts : s # r => doc'[s] = doc[s]
    <2> DEFINE c == IF e.cheque THEN "pending" ELSE "none"
               p == IF hold THEN e.plan ELSE "none"
               w == IF hold THEN e.want ELSE 0
    <2>1. c \in {"none", "pending", "cleared", "bounced"} /\ c # "bounced"
        OBVIOUS
    <2>2. p \in Invoices \cup {"none", "oldest"}
        BY <1>0, <1>5
    <2>3. w \in Amounts
        BY <1>0 DEF Amounts
    <2>4. doc \in Docs
        BY DEF IInv, TypeOK
    <2>5. doc' = [doc EXCEPT ![r] =
              [status |-> "posted", amount |-> e.amount, discount |-> e.discount, tds |-> e.tds,
               cheque |-> c, date |-> e.date, intent |-> p, want |-> w]]
        BY <1>5
    <2> HIDE DEF c, p, w
    <2> QED
        BY <1>0, <2>1, <2>2, <2>3, <2>4, <2>5 DEF Docs
<1>7. /\ advance' \in [Receipts -> Int]
      /\ advance'[r] = e.amount + e.tds
      /\ \A s \in Receipts : s # r => advance'[s] = advance[s]
    <2>1. advance \in [Receipts -> Int] /\ advance' = [advance EXCEPT ![r] = @ + e.amount + e.tds]
        BY DEF IInv, TypeOK, CreateReceipt
    <2> QED
        BY <1>1, <1>3, <2>1
<1>8. UNCHANGED <<alloc, refund, bill, rules, receivable>>
    BY DEF CreateReceipt
<1>9. ASSUME NEW s \in Receipts
      PROVE  ReceiptOK(doc', alloc, refund, advance', s)
    <2>1. CASE s # r
        <3>1. ReceiptOK(doc, alloc, refund, advance, s)
            BY DEF IInv, MoneyOK
        <3> QED
            BY <1>6, <1>7, <2>1, <3>1 DEF ReceiptOK
    <2>2. CASE s = r
        <3>1. /\ CashOf(alloc, r) + RefundedOf(refund, r) <= e.amount
              /\ DiscOf(alloc, r) <= e.discount /\ TdsOf(alloc, r) <= e.tds
              /\ advance'[r] = e.amount + e.tds - CashOf(alloc, r) - TdsOf(alloc, r)
                                 - RefundedOf(refund, r)
              /\ CashOf(alloc, r) # e.amount
            <4>1. e.amount # 0
                BY MoneyInAssumption DEF Entry
            <4> QED
                BY <1>1, <1>4, <1>7, <4>1
        <3> QED
            BY <1>6, <2>2, <3>1 DEF ReceiptOK
    <2> QED
        BY <2>1, <2>2
<1>10. MoneyOK(doc', alloc', refund', bill', advance', receivable')
    BY <1>8, <1>9 DEF IInv, MoneyOK
<1>11. batch' \in Batches /\ BatchOK'
    <2>1. CASE batch' = batch
        <3>1. batch'.phase = "idle"
            BY <2>1 DEF CreateReceipt, Quiet
        <3> QED
            BY <2>1, <3>1 DEF IInv, TypeOK, BatchOK
    <2>2. CASE batch' # batch
        <3>1. \/ e.plan = "oldest" /\ Begin("create", r, ByDue, e.amount, FALSE)
              \/ e.plan \in Invoices /\ Begin("create", r, <<e.plan>>, e.want, TRUE)
            BY <2>2 DEF CreateReceipt
        <3>2. ByDue \in Seq(Invoices) /\ e.amount \in Int /\ e.want \in Int
            BY <1>1, MoneyInAssumption
        <3>3. /\ batch' \in Batches
              /\ batch'.phase = "apply" /\ batch'.origin = "create" /\ batch'.receipt = r
              /\ batch'.done = <<>>
            <4>1. CASE Begin("create", r, ByDue, e.amount, FALSE)
                BY <3>2, <4>1, BeginIs
            <4>2. CASE e.plan \in Invoices /\ Begin("create", r, <<e.plan>>, e.want, TRUE)
                <5>1. <<e.plan>> \in Seq(Invoices)
                    BY <4>2
                <5> QED
                    BY <3>2, <4>2, <5>1, BeginIs
            <4> QED
                BY <3>1, <4>1, <4>2
        <3>4. AllowsNew(doc[r].date)'
            BY <1>6, <1>8 DEF CreateReceipt, AllowsNew, rules
        <3> QED
            BY <1>3, <1>6, <1>8, <3>3, <3>4 DEF BatchOK, AllowsNew, rules
    <2> QED
        BY <2>1, <2>2
<1>12. TypeOK'
    BY <1>6, <1>7, <1>8, <1>11 DEF IInv, TypeOK, rules
<1> QED
    BY <1>10, <1>11, <1>12 DEF IInv

(* What is known while a transaction is under way.                         *)
LEMMA UnderWay ==
    ASSUME IInv, batch.phase # "idle"
    PROVE  /\ TypeOK /\ MoneyOK(doc, alloc, refund, bill, advance, receivable)
           /\ batch \in Batches
           /\ batch.todo \in Seq(Invoices) /\ batch.done \in Seq(Invoices) /\ batch.want \in Int
           /\ batch.receipt \in Receipts
           /\ doc[batch.receipt].status = "posted"
BY DEF IInv, TypeOK, Batches, BatchOK

(* Passing over an invoice of the loop keeps it.                           *)
LEMMA SkipOK ==
    ASSUME IInv, SkipInvoice
    PROVE  IInv'
<1>1. batch.phase = "apply" /\ batch.todo # <<>>
    BY DEF SkipInvoice, Applying
<1>2. batch \in Batches /\ batch.todo \in Seq(Invoices)
    BY <1>1, UnderWay
<1>3. Tail(batch.todo) \in Seq(Invoices)
    BY <1>1, <1>2
<1>4. batch' = [batch EXCEPT !.todo = Tail(batch.todo)]
    BY DEF SkipInvoice
<1>5. /\ batch' \in Batches
      /\ batch'.phase = batch.phase /\ batch'.receipt = batch.receipt
      /\ batch'.origin = batch.origin /\ batch'.done = batch.done
    BY <1>2, <1>3, <1>4 DEF Batches
<1>6. UNCHANGED <<doc, alloc, refund, bill, rules, books>>
    BY DEF SkipInvoice
<1>7. TypeOK'
    BY <1>5, <1>6 DEF IInv, TypeOK, rules, books
<1>8. BatchOK'
    BY <1>5, <1>6 DEF IInv, BatchOK, AllowsNew, rules
<1>9. MoneyOK(doc', alloc', refund', bill', advance', receivable')
    BY <1>6 DEF IInv, books
<1> QED
    BY <1>7, <1>8, <1>9 DEF IInv

(* An allocation of the loop: the row it writes is the one it remembers.   *)
LEMMA ApplyOK ==
    ASSUME IInv, ApplyToInvoice
    PROVE  IInv'
<1> DEFINE r == batch.receipt
           i == Head(batch.todo)
           done == Append(batch.done, i)
<1>1. batch.phase = "apply" /\ batch.todo # <<>>
    BY DEF ApplyToInvoice, Applying
<1>2. /\ TypeOK /\ MoneyOK(doc, alloc, refund, bill, advance, receivable)
      /\ batch \in Batches
      /\ batch.todo \in Seq(Invoices) /\ batch.done \in Seq(Invoices) /\ batch.want \in Int
      /\ r \in Receipts /\ doc[r].status = "posted"
    BY <1>1, UnderWay
<1>3. i \in Invoices /\ Tail(batch.todo) \in Seq(Invoices)
    BY <1>1, <1>2
<1>4. /\ PassesRules(r, i, Take) /\ WriteAlloc(r, i, Take)
      /\ UNCHANGED <<doc, refund, bill, rules>>
      /\ batch' = [batch EXCEPT !.todo = Tail(batch.todo), !.done = done, !.want = batch.want - Take]
    BY DEF ApplyToInvoice
<1>5. batch.want - Take \in Int
    <2>1. Take \in 1 .. Available(r)
        BY <1>4 DEF PassesRules
    <2> QED
        BY <1>2, <2>1
<1>6. /\ done \in Seq(Invoices)
      /\ Len(done) = Len(batch.done) + 1 /\ Len(batch.done) \in Nat
      /\ done[Len(batch.done) + 1] = i
      /\ \A k \in 1 .. Len(batch.done) : done[k] = batch.done[k]
    BY <1>2, <1>3
<1> HIDE DEF i, done
<1>7. /\ batch' \in Batches
      /\ batch'.phase = batch.phase /\ batch'.receipt = r
      /\ batch'.origin = batch.origin /\ batch'.done = done
    BY <1>2, <1>3, <1>4, <1>5, <1>6 DEF Batches
<1>8. /\ alloc' \in Rows
      /\ advance' \in [Receipts -> Int] /\ receivable' \in [Invoices -> Int]
      /\ MoneyOK(doc', alloc', refund', bill', advance', receivable')
    BY <1>2, <1>3, <1>4, WriteStep
<1>9. TypeOK'
    BY <1>2, <1>4, <1>7, <1>8 DEF TypeOK, rules
<1>10. \A j \in Invoices : j # i => alloc'[r][j] = alloc[r][j]
    BY <1>2, <1>3, <1>4 DEF TypeOK, Rows, WriteAlloc
<1>11. BatchOK'
    <2>1. AllowsNew(doc[r].date)
        BY <1>4 DEF PassesRules
    <2>2. ASSUME batch.origin = "create", NEW j \in Invoices, alloc'[r][j] # NoAlloc
          PROVE  \E k \in 1 .. Len(done) : done[k] = j
        <3>1. CASE j = i
            BY <1>6, <3>1
        <3>2. CASE j # i
            <4>1. PICK k \in 1 .. Len(batch.done) : batch.done[k] = j
                BY <1>1, <1>10, <2>2, <3>2 DEF IInv, BatchOK
            <4>2. k \in 1 .. Len(done) /\ done[k] = j
                BY <1>6, <4>1
            <4> QED
                BY <4>2
        <3> QED
            BY <3>1, <3>2
    <2>3. batch.origin = "create" => \A f \in Refunds : refund[r][f].amount = 0
        BY <1>1 DEF IInv, BatchOK
    <2> QED
        BY <1>2, <1>4, <1>7, <2>1, <2>2, <2>3 DEF BatchOK, AllowsNew, rules
<1> QED
    BY <1>8, <1>9, <1>11 DEF IInv

(* An error in the loop, before anything is undone, keeps it.              *)
LEMMA FailOK ==
    ASSUME IInv, Fail
    PROVE  IInv'
<1>1. batch.phase = "apply"
    BY DEF Fail, Applying
<1>2. batch \in Batches
    BY <1>1, UnderWay
<1>3. PICK b \in BOOLEAN : batch' = [batch EXCEPT !.phase = "undo", !.broken = b]
    <2>1. PassesRules(batch.receipt, Head(batch.todo), Take) \in BOOLEAN
        BY Zenon DEF PassesRules
    <2> QED
        BY <2>1 DEF Fail
<1>4. /\ batch' \in Batches
      /\ batch'.phase = "undo" /\ batch'.receipt = batch.receipt
      /\ batch'.origin = batch.origin /\ batch'.done = batch.done
    BY <1>2, <1>3 DEF Batches
<1>5. UNCHANGED <<doc, alloc, refund, bill, rules, books>>
    BY DEF Fail
<1>6. TypeOK'
    BY <1>4, <1>5 DEF IInv, TypeOK, rules, books
<1>7. BatchOK'
    BY <1>1, <1>4, <1>5 DEF IInv, BatchOK, AllowsNew, rules
<1>8. MoneyOK(doc', alloc', refund', bill', advance', receivable')
    BY <1>5 DEF IInv, books
<1> QED
    BY <1>6, <1>7, <1>8 DEF IInv

(* Rolling back the last allocation leaves the others remembered.          *)
LEMMA UndoAllocationOK ==
    ASSUME IInv, UndoAllocation
    PROVE  IInv'
<1> DEFINE r == batch.receipt
           n == Len(batch.done)
           i == batch.done[n]
           done == SubSeq(batch.done, 1, n - 1)
<1>1. batch.phase = "undo" /\ batch.done # <<>>
    BY DEF UndoAllocation
<1>2. /\ TypeOK /\ MoneyOK(doc, alloc, refund, bill, advance, receivable)
      /\ batch \in Batches /\ batch.done \in Seq(Invoices)
      /\ r \in Receipts /\ doc[r].status = "posted"
    BY <1>1, UnderWay
<1>3. n \in Nat \ {0} /\ i \in Invoices
    BY <1>1, <1>2
<1>4. /\ done \in Seq(Invoices) /\ Len(done) = n - 1
      /\ \A k \in 1 .. n - 1 : done[k] = batch.done[k]
    <2>1. \A k \in 1 .. n - 1 : batch.done[k] \in Invoices
        BY <1>2, <1>3
    <2> QED
        BY <1>2, <1>3, <2>1
<1>5. /\ EraseAlloc(r, i) /\ UNCHANGED <<doc, refund, bill, rules>>
      /\ batch' = [batch EXCEPT !.done = done]
    BY DEF UndoAllocation
<1> HIDE DEF i, done, n
<1>6. /\ batch' \in Batches
      /\ batch'.phase = batch.phase /\ batch'.receipt = r
      /\ batch'.origin = batch.origin /\ batch'.done = done
    BY <1>2, <1>4, <1>5 DEF Batches
<1>7. /\ alloc' \in Rows
      /\ advance' \in [Receipts -> Int] /\ receivable' \in [Invoices -> Int]
      /\ MoneyOK(doc', alloc', refund', bill', advance', receivable')
    BY <1>2, <1>3, <1>5, EraseStep
<1>8. TypeOK'
    BY <1>2, <1>5, <1>6, <1>7 DEF TypeOK, rules
<1>9. /\ alloc'[r][i] = NoAlloc
      /\ \A j \in Invoices : j # i => alloc'[r][j] = alloc[r][j]
    BY <1>2, <1>3, <1>5 DEF TypeOK, Rows, EraseAlloc
<1>10. BatchOK'
    <2>1. AllowsNew(doc[r].date)
        BY <1>1 DEF IInv, BatchOK
    <2>2. ASSUME batch.origin = "create", NEW j \in Invoices, alloc'[r][j] # NoAlloc
          PROVE  \E k \in 1 .. Len(done) : done[k] = j
        <3>1. j # i /\ alloc[r][j] # NoAlloc
            BY <1>9, <2>2
        <3>2. PICK k \in 1 .. n : batch.done[k] = j
            BY <1>1, <2>2, <3>1 DEF IInv, BatchOK, n
        <3>3. k # n
            BY <3>1, <3>2 DEF i
        <3>4. k \in 1 .. Len(done) /\ done[k] = j
            BY <1>3, <1>4, <3>2, <3>3
        <3> QED
            BY <3>4
    <2>3. batch.origin = "create" => \A f \in Refunds : refund[r][f].amount = 0
        BY <1>1 DEF IInv, BatchOK
    <2> QED
        BY <1>2, <1>5, <1>6, <2>1, <2>2, <2>3 DEF BatchOK, AllowsNew, rules
<1> QED
    BY <1>7, <1>8, <1>10 DEF IInv

(* The end of the transaction keeps it.                                    *)
LEMMA CommitOK ==
    ASSUME IInv, Commit
    PROVE  IInv'
<1>1. Idle \in Batches /\ Idle.phase = "idle"
    BY DEF Idle, Batches
<1>2. batch' = Idle /\ UNCHANGED <<doc, alloc, refund, bill, rules, books>>
    BY DEF Commit
<1>3. TypeOK'
    BY <1>1, <1>2 DEF IInv, TypeOK, rules, books
<1>4. BatchOK'
    BY <1>1, <1>2 DEF BatchOK
<1>5. MoneyOK(doc', alloc', refund', bill', advance', receivable')
    BY <1>2 DEF IInv, books
<1> QED
    BY <1>3, <1>4, <1>5 DEF IInv

(* A rolled back create takes the receipt itself back; by then none of its *)
(* rows is left.                                                           *)
LEMMA UndoCreate ==
    ASSUME IInv, batch.phase = "undo", batch.done = <<>>, batch.origin = "create",
           NEW r \in Receipts, r = batch.receipt,
           doc' = [doc EXCEPT ![r] = NoDoc],
           advance' = [advance EXCEPT ![r] = @ - doc[r].amount - doc[r].tds],
           UNCHANGED <<alloc, refund, bill, receivable>>
    PROVE  /\ doc' \in Docs /\ advance' \in [Receipts -> Int]
           /\ MoneyOK(doc', alloc', refund', bill', advance', receivable')
<1>1. doc[r].status = "posted" /\ doc \in Docs /\ advance \in [Receipts -> Int]
    BY DEF IInv, TypeOK, BatchOK
<1>2. /\ \A i \in Invoices : alloc[r][i] = NoAlloc
      /\ \A f \in Refunds : refund[r][f].amount = 0
    <2>1. 1 .. Len(batch.done) = {}
        OBVIOUS
    <2> QED
        BY <2>1 DEF IInv, BatchOK
<1>3. /\ CashOf(alloc, r) = 0 /\ DiscOf(alloc, r) = 0 /\ TdsOf(alloc, r) = 0
      /\ RefundedOf(refund, r) = 0
    BY <1>2, EmptySums, RefundedIsNat DEF IInv, TypeOK
<1>4. doc[r].amount \in Nat /\ doc[r].tds \in Nat
    <2>1. doc[r].amount \in Amounts /\ doc[r].tds \in Amounts
        BY <1>1 DEF Docs
    <2> QED
        BY <2>1, MoneyInAssumption DEF Amounts
<1>5. advance[r] = doc[r].amount + doc[r].tds
    <2>1. advance[r] = doc[r].amount + doc[r].tds - CashOf(alloc, r) - TdsOf(alloc, r)
                         - RefundedOf(refund, r)
        BY <1>1 DEF IInv, MoneyOK, ReceiptOK
    <2> QED
        BY <1>3, <1>4, <2>1
<1>6. /\ advance' \in [Receipts -> Int]
      /\ advance'[r] = 0
      /\ \A s \in Receipts : s # r => advance'[s] = advance[s]
    BY <1>1, <1>4, <1>5
<1>7. /\ NoDoc \in [status : {"none", "posted", "voided"}, amount : Amounts,
                     discount : Amounts, tds : Amounts,
                     cheque : {"none", "pending", "cleared", "bounced"}, date : Dates,
                     intent : Invoices \cup {"none", "oldest"}, want : Amounts]
      /\ NoDoc.amount = 0 /\ NoDoc.discount = 0 /\ NoDoc.tds = 0
      /\ NoDoc.status = "none" /\ NoDoc.cheque = "none"
    BY MoneyInAssumption DEF NoDoc, Amounts, Dates
<1>8. /\ doc' \in Docs
      /\ doc'[r] = NoDoc
      /\ \A s \in Receipts : s # r => doc'[s] = doc[s]
    BY <1>1, <1>7 DEF Docs
<1>9. ASSUME NEW s \in Receipts
      PROVE  ReceiptOK(doc', alloc, refund, advance', s)
    <2>1. CASE s # r
        <3>1. ReceiptOK(doc, alloc, refund, advance, s)
            BY DEF IInv, MoneyOK
        <3>2. doc'[s] = doc[s] /\ advance'[s] = advance[s]
            BY <1>6, <1>8, <2>1
        <3> QED
            BY <3>1, <3>2 DEF ReceiptOK
    <2>2. CASE s = r
        <3>1. /\ doc'[r].amount = 0 /\ doc'[r].discount = 0 /\ doc'[r].tds = 0
              /\ doc'[r].status = "none" /\ doc'[r].cheque = "none"
            BY <1>7, <1>8
        <3>2. CashOf(alloc, r) + RefundedOf(refund, r) = 0
            BY <1>3
        <3> QED
            BY <1>2, <1>3, <1>6, <2>2, <3>1, <3>2 DEF ReceiptOK
    <2> QED
        BY <2>1, <2>2
<1> QED
    BY <1>6, <1>8, <1>9 DEF IInv, MoneyOK

(* The end of the rollback keeps it, whatever the transaction was.         *)
LEMMA UndoRestOK ==
    ASSUME IInv, UndoRest
    PROVE  IInv'
<1> DEFINE r == batch.receipt
<1>1. batch.phase = "undo" /\ batch.done = <<>>
    BY DEF UndoRest
<1>2. /\ TypeOK /\ MoneyOK(doc, alloc, refund, bill, advance, receivable)
      /\ r \in Receipts /\ doc[r].status = "posted"
    BY <1>1, UnderWay
<1>3. Idle \in Batches /\ Idle.phase = "idle"
    BY DEF Idle, Batches
<1>4. batch' = Idle /\ UNCHANGED <<alloc, refund, bill, rules, receivable>>
    BY DEF UndoRest
<1>5. /\ doc' \in Docs /\ advance' \in [Receipts -> Int]
      /\ MoneyOK(doc', alloc', refund', bill', advance', receivable')
    <2>1. CASE /\ batch.origin = "create"
               /\ doc' = [doc EXCEPT ![r] = NoDoc]
               /\ advance' = [advance EXCEPT ![r] = @ - doc[r].amount - doc[r].tds]
        BY <1>1, <1>2, <1>4, <2>1, UndoCreate
    <2>2. CASE doc' = [doc EXCEPT ![r].cheque = "pending"] /\ advance' = advance
        <3>1. /\ doc' \in Docs
              /\ doc'[r].status = doc[r].status /\ doc'[r].amount = doc[r].amount
              /\ doc'[r].discount = doc[r].discount /\ doc'[r].tds = doc[r].tds
              /\ doc'[r].cheque # "bounced"
              /\ \A s \in Receipts : s # r => doc'[s] = doc[s]
            BY <1>2, <2>2 DEF TypeOK, Docs
        <3>2. UNCHANGED <<alloc, refund, bill, books>>
            BY <1>4, <2>2 DEF books
        <3>3. MoneyOK(doc', alloc', refund', bill', advance', receivable')
            BY <1>2, <3>1, <3>2, ChequeStep
        <3> QED
            BY <1>2, <2>2, <3>1, <3>3 DEF TypeOK
    <2>3. CASE UNCHANGED <<doc, advance>>
        BY <1>2, <1>4, <2>3 DEF TypeOK
    <2> QED
        BY <2>1, <2>2, <2>3 DEF UndoRest
<1>6. TypeOK'
    BY <1>2, <1>3, <1>4, <1>5 DEF TypeOK, rules
<1>7. BatchOK'
    BY <1>3, <1>4 DEF BatchOK
<1> QED
    BY <1>5, <1>6, <1>7 DEF IInv

-----------------------------------------------------------------------------
(* The theorems.                                                           *)

(* Every step preserves the invariant.                                     *)
LEMMA StepOK == IInv /\ [Next]_vars => IInv'
<1> SUFFICES ASSUME IInv, [Next]_vars PROVE IInv'
    OBVIOUS
<1>1. ASSUME NEW r \in Receipts, NEW e \in Entries, CreateReceipt(r, e) PROVE IInv'
    BY <1>1, CreateOK
<1>2. ASSUME NEW r \in Receipts, NEW i \in Invoices, NEW x \in Amounts, Allocate(r, i, x) PROVE IInv'
    BY <1>2, AllocateOK
<1>3. ASSUME NEW r \in Receipts, NEW i \in Invoices, ReverseAllocation(r, i) PROVE IInv'
    BY <1>3, ReverseOK
<1>4. ASSUME NEW r \in Receipts, NEW f \in Refunds, NEW x \in Amounts, NEW d \in Dates,
             RefundAdvance(r, f, x, d)
      PROVE  IInv'
    BY <1>4, RefundOK
<1>5. ASSUME NEW r \in Receipts, NEW f \in Refunds, VoidAdvanceRefund(r, f) PROVE IInv'
    BY <1>5, VoidRefundOK
<1>6. ASSUME NEW r \in Receipts, NEW charged \in BOOLEAN, BounceCheque(r, charged) PROVE IInv'
    BY <1>6, BounceOK
<1>7. ASSUME NEW r \in Receipts, VoidReceipt(r) PROVE IInv'
    BY <1>7, VoidOK
<1>8. ASSUME NEW r \in Receipts, AllocateOldestFirst(r) PROVE IInv'
    BY <1>8, BulkOK
<1>9. ASSUME NEW r \in Receipts, UnclearCheque(r) PROVE IInv'
    BY <1>9, UnclearOK
<1>10. ASSUME NEW r \in Receipts, ClearCheque(r) PROVE IInv'
    BY <1>10, ClearOK
<1>11. ASSUME NEW i \in Invoices, CancelInvoice(i) PROVE IInv'
    BY <1>11, CancelOK
<1>12. ASSUME NEW d \in Dates, SoftClose(d) \/ Close(d) \/ Reopen(d) PROVE IInv'
    <2>1. \E st \in {"open", "soft_closed", "closed"} : SetPeriod(d, st)
        BY <1>12 DEF SoftClose, Close, Reopen
    <2> QED
        BY <2>1, SetPeriodOK
<1>13. CASE ChangeChequeRule
    BY <1>13, ChangeRuleOK
<1>14. CASE BatchStep
    BY <1>14, SkipOK, ApplyOK, FailOK, UndoAllocationOK, UndoRestOK, CommitOK DEF BatchStep
<1>15. CASE UNCHANGED vars
    <2>1. TypeOK'
        BY <1>15 DEF IInv, TypeOK, vars
    <2>2. MoneyOK(doc', alloc', refund', bill', advance', receivable')
        BY <1>15 DEF IInv, vars
    <2>3. BatchOK'
        BY <1>15 DEF IInv, BatchOK, AllowsNew, vars
    <2> QED
        BY <2>1, <2>2, <2>3 DEF IInv
<1> QED
    BY <1>1, <1>2, <1>3, <1>4, <1>5, <1>6, <1>7, <1>8, <1>9, <1>10, <1>11, <1>12, <1>13,
       <1>14, <1>15 DEF Next

(* The invariant holds throughout.                                         *)
THEOREM Invariance == Spec => []IInv
BY InitOK, StepOK, PTL DEF Spec

(* Every variable keeps its type.                                          *)
THEOREM MoneyTypeCorrect == Spec => []TypeOK
<1>1. IInv => TypeOK
    BY DEF IInv
<1> QED
    BY <1>1, Invariance, PTL

(* No receipt is spent twice, through allocation, hand-back, void, bounce  *)
(* and rollback.                                                           *)
THEOREM SpentOnce == Spec => []NeverOverspent
<1>1. IInv => NeverOverspent
    BY DEF IInv, MoneyOK, ReceiptOK, NeverOverspent, Live, Refunded, CashOf, DiscOf, TdsOf, RefundedOf
<1> QED
    BY <1>1, Invariance, PTL

(* No invoice is paid beyond its total, or paid at all unless completed.   *)
THEOREM PaidOnce == Spec => []NeverOverpaid
<1>1. IInv => NeverOverpaid
    BY DEF IInv, MoneyOK, InvoiceOK, NeverOverpaid, Settled, SettledOf
<1> QED
    BY <1>1, Invariance, PTL

(* A voided receipt pays for nothing, and a bounced cheque is voided.      *)
THEOREM VoidedStaysEmpty == Spec => []VoidedIsEmpty
<1>1. IInv => VoidedIsEmpty
    BY DEF IInv, MoneyOK, ReceiptOK, VoidedIsEmpty, HasAlloc, HasRefund, NoAlloc
<1> QED
    BY <1>1, Invariance, PTL

(* The ledger agrees with the documents after every step, the steps inside *)
(* a transaction and its rollback included.                                *)
THEOREM LedgerAgrees == Spec => []BooksAgree
<1>1. ASSUME IInv PROVE BooksAgree
    <2>1. ASSUME NEW r \in Receipts
          PROVE  advance[r] = IF doc[r].status = "posted"
                              THEN Unallocated(doc[r], Live(r), Refunded(r)) ELSE 0
        <3>1. Live(r).cash = CashOf(alloc, r) /\ Live(r).tds = TdsOf(alloc, r)
              /\ Refunded(r) = RefundedOf(refund, r)
            BY DEF Live, Refunded, CashOf, TdsOf, RefundedOf
        <3>2. ReceiptOK(doc, alloc, refund, advance, r)
            BY <1>1 DEF IInv, MoneyOK
        <3> QED
            BY <3>1, <3>2 DEF ReceiptOK, Unallocated
    <2>2. ASSUME NEW i \in Invoices
          PROVE  receivable[i] = Outstanding(i)
        <3>1. Settled(i) = SettledOf(alloc, i)
            BY DEF Settled, SettledOf
        <3>2. InvoiceOK(alloc, bill, receivable, i)
            BY <1>1 DEF IInv, MoneyOK
        <3>3. Bill[i] \in Nat /\ SettledOf(alloc, i) \in Nat
            <4>1. Bill[i] \in Nat
                BY MoneyInAssumption DEF Amounts
            <4> QED
                BY <1>1, <4>1, SumsAreNat DEF IInv, TypeOK
        <3> QED
            BY <3>1, <3>2, <3>3 DEF InvoiceOK, Outstanding, AtLeastZero
    <2> QED
        BY <2>1, <2>2 DEF BooksAgree
<1> QED
    BY <1>1, Invariance, PTL

(* A receipt applied in full has applied all its discount and TDS, however *)
(* it was split and whatever was reversed on the way.                      *)
THEOREM SharesComplete == Spec => []SharesAddUp
<1>1. IInv => SharesAddUp
    BY DEF IInv, MoneyOK, ReceiptOK, SharesAddUp, Live, CashOf, DiscOf, TdsOf
<1> QED
    BY <1>1, Invariance, PTL

(* What a step does to receipt r when the period d is closed.              *)
Frozen(r, d) ==
    /\ period[d] = "closed"
    /\ \/ doc[r].status # "none" /\ doc[r].date = d
       \/ doc'[r].status # "none" /\ doc'[r].date = d
    => doc'[r].status = doc[r].status /\ alloc'[r] = alloc[r]

(* A step whose receipt has its date in an open period, or in one that is  *)
(* at most soft closed, and that leaves the other receipts alone.          *)
LEMMA OpenStep ==
    ASSUME NEW r \in Receipts, AllowsUnwind(doc[r].date), doc'[r].date = doc[r].date,
           \A s \in Receipts : s # r => doc'[s] = doc[s] /\ alloc'[s] = alloc[s]
    PROVE  \A s \in Receipts, d \in Dates : Frozen(s, d)
BY DEF Frozen, AllowsUnwind

(* A step that leaves every status and row alone.                          *)
LEMMA StillStep ==
    ASSUME \A s \in Receipts : doc'[s].status = doc[s].status /\ alloc'[s] = alloc[s]
    PROVE  \A s \in Receipts, d \in Dates : Frozen(s, d)
BY DEF Frozen

(* A receipt dated in a closed period is neither posted, voided, allocated *)
(* nor unallocated: a transaction that wrote, or must undo, anything was   *)
(* let through by the period and keeps it from changing until it ends.     *)
THEOREM ClosedStaysFrozen == Spec => ClosedPeriodIsFrozen
<1>1. ASSUME IInv, Next
      PROVE  \A s \in Receipts, d \in Dates : Frozen(s, d)
    <2>0. doc \in Docs /\ alloc \in Rows
        BY <1>1 DEF IInv, TypeOK
    <2>1. ASSUME NEW r \in Receipts, NEW e \in Entries, CreateReceipt(r, e)
          PROVE  \A s \in Receipts, d \in Dates : Frozen(s, d)
        <3>1. /\ doc[r].status = "none" /\ AllowsNew(e.date) /\ doc'[r].date = e.date
              /\ alloc' = alloc /\ \A s \in Receipts : s # r => doc'[s] = doc[s]
            BY <2>0, <2>1 DEF CreateReceipt, NoDoc, Docs
        <3> QED
            BY <3>1 DEF Frozen, AllowsNew
    <2>2. ASSUME NEW r \in Receipts, NEW i \in Invoices, NEW x \in Amounts, Allocate(r, i, x)
          PROVE  \A s \in Receipts, d \in Dates : Frozen(s, d)
        <3>1. /\ AllowsUnwind(doc[r].date) /\ doc' = doc
              /\ \A s \in Receipts : s # r => alloc'[s] = alloc[s]
            BY <2>0, <2>2 DEF Allocate, PassesRules, WriteAlloc, AllowsNew, AllowsUnwind, Rows
        <3> QED
            BY <3>1, OpenStep
    <2>3. ASSUME NEW r \in Receipts, NEW i \in Invoices, ReverseAllocation(r, i)
          PROVE  \A s \in Receipts, d \in Dates : Frozen(s, d)
        <3>1. /\ AllowsUnwind(doc[r].date) /\ doc' = doc
              /\ \A s \in Receipts : s # r => alloc'[s] = alloc[s]
            BY <2>0, <2>3 DEF ReverseAllocation, EraseAlloc, AllowsNew, AllowsUnwind, Rows
        <3> QED
            BY <3>1, OpenStep
    <2>4. ASSUME NEW r \in Receipts, VoidReceipt(r)
          PROVE  \A s \in Receipts, d \in Dates : Frozen(s, d)
        <3>1. /\ AllowsUnwind(doc[r].date) /\ doc'[r].date = doc[r].date
              /\ \A s \in Receipts : s # r => doc'[s] = doc[s] /\ alloc'[s] = alloc[s]
            BY <2>0, <2>4 DEF VoidReceipt, Voidable, UnwindReceipt, Docs, Rows
        <3> QED
            BY <3>1, OpenStep
    <2>5. ASSUME NEW r \in Receipts, NEW charged \in BOOLEAN, BounceCheque(r, charged)
          PROVE  \A s \in Receipts, d \in Dates : Frozen(s, d)
        <3>0. /\ doc'[r].status = "voided" /\ doc'[r].date = doc[r].date
              /\ \A s \in Receipts : s # r => doc'[s] = doc[s]
            BY <2>0, <2>5 DEF BounceCheque, Docs
        <3>1. CASE doc[r].status = "voided" /\ alloc' = alloc
            BY <3>0, <3>1, StillStep
        <3>2. CASE Voidable(r) /\ UnwindReceipt(r)
            <4>1. /\ AllowsUnwind(doc[r].date)
                  /\ \A s \in Receipts : s # r => alloc'[s] = alloc[s]
                BY <2>0, <3>2 DEF Voidable, UnwindReceipt, Rows
            <4> QED
                BY <3>0, <4>1, OpenStep
        <3> QED
            BY <2>5, <3>1, <3>2 DEF BounceCheque
    <2>6. ASSUME NEW r \in Receipts, UnclearCheque(r) \/ ClearCheque(r)
          PROVE  \A s \in Receipts, d \in Dates : Frozen(s, d)
        <3>1. /\ alloc' = alloc
              /\ \E c \in {"pending", "cleared"} : doc' = [doc EXCEPT ![r].cheque = c]
            BY <2>6 DEF UnclearCheque, ClearCheque
        <3>2. \A s \in Receipts : doc'[s].status = doc[s].status
            BY <2>0, <3>1 DEF Docs
        <3> QED
            BY <3>1, <3>2, StillStep
    <2>7. ASSUME UNCHANGED <<doc, alloc>>
          PROVE  \A s \in Receipts, d \in Dates : Frozen(s, d)
        BY <2>7, StillStep
    <2>8. CASE ApplyToInvoice
        <3>1. batch.receipt \in Receipts /\ batch.todo \in Seq(Invoices) /\ batch.todo # <<>>
            BY <1>1, <2>8, UnderWay DEF ApplyToInvoice, Applying
        <3>2. /\ AllowsUnwind(doc[batch.receipt].date) /\ doc' = doc
              /\ \A s \in Receipts : s # batch.receipt => alloc'[s] = alloc[s]
            BY <2>0, <2>8, <3>1 DEF ApplyToInvoice, PassesRules, WriteAlloc, AllowsNew, AllowsUnwind, Rows
        <3> QED
            BY <3>1, <3>2, OpenStep
    <2>9. CASE UndoAllocation
        <3>1. batch.receipt \in Receipts
            BY <1>1, <2>9, UnderWay DEF UndoAllocation
        <3>2. AllowsUnwind(doc[batch.receipt].date)
            BY <1>1, <2>9 DEF IInv, BatchOK, UndoAllocation, AllowsNew, AllowsUnwind
        <3>3. doc' = doc /\ \A s \in Receipts : s # batch.receipt => alloc'[s] = alloc[s]
            BY <2>0, <2>9, <3>1 DEF UndoAllocation, EraseAlloc, Rows
        <3> QED
            BY <3>1, <3>2, <3>3, OpenStep
    <2>10. CASE UndoRest
        <3>1. batch.receipt \in Receipts /\ batch.phase = "undo"
            BY <1>1, <2>10, UnderWay DEF UndoRest
        <3>2. CASE batch.origin = "create" /\ doc' = [doc EXCEPT ![batch.receipt] = NoDoc]
            <4>1. AllowsNew(doc[batch.receipt].date)
                BY <1>1, <3>1, <3>2 DEF IInv, BatchOK
            <4>2. /\ doc'[batch.receipt].status = "none" /\ alloc' = alloc
                  /\ \A s \in Receipts : s # batch.receipt => doc'[s] = doc[s]
                BY <2>0, <2>10, <3>1, <3>2 DEF UndoRest, NoDoc, Docs
            <4> QED
                BY <4>1, <4>2 DEF Frozen, AllowsNew
        <3>3. CASE doc' = [doc EXCEPT ![batch.receipt].cheque = "pending"] \/ doc' = doc
            <4>1. alloc' = alloc /\ \A s \in Receipts : doc'[s].status = doc[s].status
                BY <2>0, <2>10, <3>1, <3>3 DEF UndoRest, Docs
            <4> QED
                BY <4>1, StillStep
        <3> QED
            BY <2>10, <3>2, <3>3 DEF UndoRest
    <2>11. CASE SkipInvoice \/ Fail \/ Commit
        BY <2>7, <2>11 DEF SkipInvoice, Fail, Commit
    <2>12. ASSUME NEW r \in Receipts, AllocateOldestFirst(r)
           PROVE  UNCHANGED <<doc, alloc>>
        BY <2>12 DEF AllocateOldestFirst
    <2>13. ASSUME NEW r \in Receipts, NEW f \in Refunds, NEW x \in Amounts, NEW d \in Dates,
                  RefundAdvance(r, f, x, d)
           PROVE  UNCHANGED <<doc, alloc>>
        BY <2>13 DEF RefundAdvance
    <2>14. ASSUME NEW r \in Receipts, NEW f \in Refunds, VoidAdvanceRefund(r, f)
           PROVE  UNCHANGED <<doc, alloc>>
        BY <2>14 DEF VoidAdvanceRefund
    <2>15. ASSUME NEW i \in Invoices, CancelInvoice(i)
           PROVE  UNCHANGED <<doc, alloc>>
        BY <2>15 DEF CancelInvoice
    <2>16. ASSUME NEW d \in Dates, SoftClose(d) \/ Close(d) \/ Reopen(d)
           PROVE  UNCHANGED <<doc, alloc>>
        BY <2>16 DEF SoftClose, Close, Reopen, SetPeriod
    <2>17. CASE ChangeChequeRule
        BY <2>7, <2>17 DEF ChangeChequeRule
    <2> QED
        BY <1>1, <2>1, <2>2, <2>3, <2>4, <2>5, <2>6, <2>7, <2>8, <2>9, <2>10, <2>11, <2>12, <2>13,
           <2>14, <2>15, <2>16, <2>17 DEF Next, BatchStep
<1>2. IInv /\ [Next]_vars
        => [\A r \in Receipts, d \in Dates :
              /\ period[d] = "closed"
              /\ \/ doc[r].status # "none" /\ doc[r].date = d
                 \/ doc'[r].status # "none" /\ doc'[r].date = d
              => doc'[r].status = doc[r].status /\ alloc'[r] = alloc[r]]_vars
    BY <1>1 DEF Frozen
<1> QED
    BY <1>2, Invariance, PTL DEF Spec, ClosedPeriodIsFrozen

-----------------------------------------------------------------------------
(* The binary search of max_cash_for_balance, which a receipt's automatic  *)
(* allocation and a cheque's use, is right for every receipt, however      *)
(* large its amounts.  Halving is sound because a larger cash never        *)
(* carries smaller shares, in spite of the rounding and of the last slice, *)
(* which takes whatever is left.                                           *)

(* Quotients grow with their numerator.                                    *)
LEMMA QuotientGrows ==
    ASSUME NEW a \in Nat, NEW b \in Nat, NEW d \in Nat, d > 0, a <= b
    PROVE  a \div d <= b \div d /\ a \div d \in Nat /\ b \div d \in Nat
OBVIOUS

LEMMA ProductGrows ==
    ASSUME NEW x \in Nat, NEW y \in Nat, NEW k \in Nat, x <= y
    PROVE  x * k <= y * k /\ x * k \in Nat /\ y * k \in Nat
OBVIOUS

LEMMA RoundedQuotientGrows ==
    ASSUME NEW x \in Nat, NEW y \in Nat, NEW k \in Nat, NEW d \in Nat, d > 0, x <= y
    PROVE  /\ RoundedQuotient(x * k, d) <= RoundedQuotient(y * k, d)
           /\ RoundedQuotient(x * k, d) \in Nat /\ RoundedQuotient(y * k, d) \in Nat
<1> DEFINE m == x * k
           n == y * k
<1>1. m <= n /\ m \in Nat /\ n \in Nat
  BY ProductGrows
<1> HIDE DEF m, n
<1> DEFINE a == 2 * m + d
           b == 2 * n + d
           e == 2 * d
<1>2. a \in Nat /\ b \in Nat /\ e \in Nat /\ e > 0 /\ a <= b
  BY <1>1
<1> HIDE DEF a, b, e
<1>3. a \div e <= b \div e /\ a \div e \in Nat /\ b \div e \in Nat
  BY <1>2, QuotientGrows
<1> QED BY <1>3 DEF RoundedQuotient, a, b, e, m, n

(* A share of the discount or the TDS grows with the cash of its slice.    *)
LEMMA ShareGrows ==
    ASSUME NEW total \in Nat, NEW applied \in Nat, NEW x \in Nat, NEW y \in Nat, NEW base \in Nat,
           base > 0, x <= y, NEW cx \in BOOLEAN, NEW cy \in BOOLEAN, cx => cy
    PROVE  /\ OneShare(total, applied, x, base, cx) <= OneShare(total, applied, y, base, cy)
           /\ OneShare(total, applied, x, base, cx) \in Nat
           /\ OneShare(total, applied, y, base, cy) \in Nat
<1> DEFINE p == RoundedQuotient(x * total, base)
           q == RoundedQuotient(y * total, base)
           left == total - applied
<1>1. p <= q /\ p \in Nat /\ q \in Nat
  BY RoundedQuotientGrows
<1>2. left \in Int
  OBVIOUS
<1> HIDE DEF p, q, left
<1>3. /\ OneShare(total, applied, x, base, cx) =
           IF total <= 0 \/ left <= 0 THEN 0 ELSE AtLeastZero(Lesser(IF cx THEN left ELSE p, left))
      /\ OneShare(total, applied, y, base, cy) =
           IF total <= 0 \/ left <= 0 THEN 0 ELSE AtLeastZero(Lesser(IF cy THEN left ELSE q, left))
  BY DEF OneShare, p, q, left
<1>4. CASE total <= 0 \/ left <= 0
  BY <1>3, <1>4
<1>5. CASE ~(total <= 0 \/ left <= 0)
  <2> DEFINE a == IF cx THEN left ELSE p
             b == IF cy THEN left ELSE q
  <2>1. /\ OneShare(total, applied, x, base, cx) = AtLeastZero(Lesser(a, left))
        /\ OneShare(total, applied, y, base, cy) = AtLeastZero(Lesser(b, left))
    BY <1>3, <1>5
  <2>2. a \in Nat /\ b \in Nat /\ left \in Nat
    BY <1>1, <1>2, <1>5
  <2>3. a <= b \/ left <= b
    BY <1>1, <1>2
  <2> HIDE DEF a, b
  <2> QED BY <2>1, <2>2, <2>3 DEF AtLeastZero, Lesser
<1> QED BY <1>4, <1>5

-----------------------------------------------------------------------------
(* What a receipt, a balance and the state of its allocations look like.   *)
LEMMA InputTypes ==
    ASSUME input \in Inputs
    PROVE  /\ input.rec.amount \in Nat /\ input.rec.discount \in Nat /\ input.rec.tds \in Nat
           /\ input.live.cash \in Nat /\ input.live.disc \in Nat /\ input.live.tds \in Nat
           /\ input.refunds \in Nat /\ input.balance \in Nat /\ input.remaining \in Nat
           /\ input.rec.amount - input.refunds \in Nat
<1>1. /\ input.rec \in [amount : Paise \ {0}, discount : Paise, tds : Paise]
      /\ input.live \in [cash : Paise, disc : Paise, tds : Paise]
      /\ input.refunds \in Paise /\ input.balance \in Paise /\ input.remaining \in Paise
      /\ input.live.cash + input.refunds + input.remaining <= input.rec.amount
  BY DEF Inputs
<1>2. Paise \subseteq Nat
  BY MaxPaiseAssumption DEF Paise
<1>3. /\ input.rec.amount \in Nat /\ input.rec.discount \in Nat /\ input.rec.tds \in Nat
      /\ input.live.cash \in Nat /\ input.live.disc \in Nat /\ input.live.tds \in Nat
      /\ input.refunds \in Nat /\ input.balance \in Nat /\ input.remaining \in Nat
  BY <1>1, <1>2
<1> QED BY <1>1, <1>3

(* What fits still fits when it is made smaller.                           *)
LEMMA SmallerFits ==
    ASSUME input \in Inputs, NEW x \in Nat, NEW y \in Nat, x <= y, FitsInput(y)
    PROVE  FitsInput(x)
<1> DEFINE rec == input.rec
           held == input.live
           base == rec.amount - input.refunds
           S(c) == SharesFor(rec, c, held, input.refunds)
<1>0. /\ rec.amount \in Nat /\ rec.discount \in Nat /\ rec.tds \in Nat
      /\ held.cash \in Nat /\ held.disc \in Nat /\ held.tds \in Nat
      /\ input.refunds \in Nat /\ input.balance \in Nat /\ base \in Nat
  BY InputTypes
<1>1. y + S(y).disc + S(y).tds <= input.balance
  BY DEF FitsInput, Fits
<1>2. /\ S(x).disc <= S(y).disc /\ S(x).disc \in Nat /\ S(y).disc \in Nat
      /\ S(x).tds <= S(y).tds /\ S(x).tds \in Nat /\ S(y).tds \in Nat
  <2> DEFINE cx == held.cash + x >= base
             cy == held.cash + y >= base
             D(c, full) == OneShare(rec.discount, held.disc, c, base, full)
             T(c, full) == OneShare(rec.tds, held.tds, c, base, full)
  <2>1. /\ S(x) = IF x <= 0 \/ base <= 0 THEN [disc |-> 0, tds |-> 0]
                  ELSE [disc |-> D(x, cx), tds |-> T(x, cx)]
        /\ S(y) = IF y <= 0 \/ base <= 0 THEN [disc |-> 0, tds |-> 0]
                  ELSE [disc |-> D(y, cy), tds |-> T(y, cy)]
    BY DEF SharesFor
  <2>2. cx \in BOOLEAN /\ cy \in BOOLEAN /\ (cx => cy)
    BY <1>0
  <2>3. CASE base <= 0
    <3>1. S(x) = [disc |-> 0, tds |-> 0] /\ S(y) = [disc |-> 0, tds |-> 0]
      BY <2>1, <2>3
    <3> HIDE DEF S
    <3> QED BY <3>1
  <2>4. CASE base > 0
    <3>1. /\ D(x, cx) <= D(y, cy) /\ D(x, cx) \in Nat /\ D(y, cy) \in Nat
          /\ T(x, cx) <= T(y, cy) /\ T(x, cx) \in Nat /\ T(y, cy) \in Nat
      <4> DEFINE b == base
      <4>1. b \in Nat /\ b > 0
        BY <1>0, <2>4
      <4> HIDE DEF cx, cy, b
      <4> QED BY <1>0, <2>2, <4>1, ShareGrows DEF b
    <3>2. ~(base <= 0)
      BY <1>0, <2>4
    <3>3. /\ S(x).disc = (IF x <= 0 THEN 0 ELSE D(x, cx)) /\ S(x).tds = (IF x <= 0 THEN 0 ELSE T(x, cx))
          /\ S(y).disc = (IF y <= 0 THEN 0 ELSE D(y, cy)) /\ S(y).tds = (IF y <= 0 THEN 0 ELSE T(y, cy))
      <4> HIDE DEF S, D, T, cx, cy, base
      <4> QED BY <2>1, <3>2
    <3> HIDE DEF S, D, T, cx, cy
    <3> QED BY <3>1, <3>3
  <2> QED BY <1>0, <2>3, <2>4
<1> HIDE DEF S
<1>3. x + S(x).disc + S(x).tds <= input.balance
  BY <1>0, <1>1, <1>2
<1> QED BY <1>3 DEF FitsInput, Fits, S


-----------------------------------------------------------------------------
(* A nonempty set of numbers up to n has a largest element.                *)
LEMMA LargestExists ==
    ASSUME NEW n \in Nat, NEW A \in SUBSET (0 .. n), A # {}
    PROVE  \E x \in A : \A y \in A : y <= x
<1> DEFINE T == {k \in 0 .. n : n - k \in A}
<1>1. T \subseteq Nat /\ T # {}
  <2>1. PICK a \in A : TRUE
    OBVIOUS
  <2>2. n - a \in T
    BY <2>1
  <2> QED BY <2>2
<1>2. PICK k \in T : \A l \in T : ~(<<l, k>> \in OpToRel(<, Nat))
  BY <1>1, NatLessThanWellFounded, WFMin, Zenon
<1>3. \A l \in T : ~(l < k)
  BY <1>1, <1>2 DEF OpToRel
<1>4. n - k \in A /\ k \in 0 .. n
  OBVIOUS
<1>5. ASSUME NEW y \in A PROVE y <= n - k
  <2>1. n - y \in T
    OBVIOUS
  <2>2. ~(n - y < k)
    BY <1>3, <2>1
  <2> QED BY <1>4, <2>2
<1> QED BY <1>4, <1>5

Widest == Lesser(input.remaining, input.balance)

(* lo fits, and nothing above hi does.                                     *)
SearchInv ==
    /\ input \in Inputs
    /\ lo \in Nat /\ hi \in Nat /\ lo <= hi /\ hi <= Widest
    /\ FitsInput(lo)
    /\ \A y \in 0 .. Widest : FitsInput(y) => y <= hi

LEMMA WidestTyped ==
    ASSUME input \in Inputs
    PROVE  Widest \in Nat /\ AtLeastZero(Lesser(input.remaining, input.balance)) = Widest
<1>1. input.remaining \in Nat /\ input.balance \in Nat
  BY InputTypes
<1> QED BY <1>1 DEF Widest, Lesser, AtLeastZero

(* The documented answer exists and is the largest cash that fits.         *)
LEMMA AnswerIsLargest ==
    ASSUME SearchInv
    PROVE  LET m == MaxCashForBalance(input.rec, input.balance, input.remaining, input.live, input.refunds)
           IN  m \in 0 .. Widest /\ FitsInput(m) /\ \A y \in 0 .. Widest : FitsInput(y) => y <= m
<1> DEFINE A == {y \in 0 .. Widest : FitsInput(y)}
           m == MaxCashForBalance(input.rec, input.balance, input.remaining, input.live, input.refunds)
<1>1. Widest \in Nat /\ AtLeastZero(Lesser(input.remaining, input.balance)) = Widest
  BY WidestTyped DEF SearchInv
<1>2. lo \in A
  BY <1>1 DEF SearchInv
<1>3. PICK most \in A : \A y \in A : y <= most
  <2> DEFINE B == A
             n == Widest
  <2>1. n \in Nat /\ B \in SUBSET (0 .. n) /\ B # {}
    BY <1>1, <1>2
  <2> HIDE DEF B, n
  <2>2. \E x \in B : \A y \in B : y <= x
    BY <2>1, LargestExists
  <2> QED BY <2>2 DEF B
<1>4. \E x \in 0 .. Widest : FitsInput(x) /\ \A y \in 0 .. Widest : FitsInput(y) => y <= x
  BY <1>3
<1>5. m = CHOOSE x \in 0 .. Widest : FitsInput(x) /\ \A y \in 0 .. Widest : FitsInput(y) => y <= x
  BY <1>1 DEF MaxCashForBalance, FitsInput
<1> HIDE DEF m
<1>6. m \in 0 .. Widest /\ FitsInput(m) /\ \A y \in 0 .. Widest : FitsInput(y) => y <= m
  BY <1>4, <1>5
<1> QED BY <1>6 DEF m

LEMMA SearchStarts == SearchInit => SearchInv
<1> SUFFICES ASSUME SearchInit PROVE SearchInv
  OBVIOUS
<1>1. input \in Inputs /\ lo = 0 /\ hi = Widest
  BY DEF SearchInit, Widest
<1>2. Widest \in Nat
  BY <1>1, WidestTyped
<1>3. FitsInput(0)
  <2>1. SharesFor(input.rec, 0, input.live, input.refunds) = [disc |-> 0, tds |-> 0]
    BY DEF SharesFor
  <2>2. input.balance \in Nat
    BY <1>1, InputTypes
  <2> QED BY <2>1, <2>2 DEF FitsInput, Fits
<1> QED BY <1>1, <1>2, <1>3 DEF SearchInv

(* One turn of the loop.                                                   *)
LEMMA ProbeKeeps ==
    ASSUME SearchInv, Probe
    PROVE  SearchInv'
<1> DEFINE mid == (lo + hi + 1) \div 2
<1>1. /\ input \in Inputs /\ lo \in Nat /\ hi \in Nat /\ lo < hi /\ hi <= Widest
      /\ FitsInput(lo) /\ \A y \in 0 .. Widest : FitsInput(y) => y <= hi
  BY DEF SearchInv, Probe
<1>2. Widest \in Nat
  BY <1>1, WidestTyped
<1>3. mid \in Nat /\ lo < mid /\ mid <= hi
  BY <1>1
<1>4. input' = input /\ Widest' = Widest
  BY DEF Probe, Widest
<1>5. IF FitsInput(mid) THEN lo' = mid /\ hi' = hi ELSE lo' = lo /\ hi' = mid - 1
  BY DEF Probe
<1> HIDE DEF mid
<1>p. PICK m \in Nat : m = mid
  BY <1>3
<1>6. CASE FitsInput(m)
  <2>1. lo' = m /\ hi' = hi
    BY <1>5, <1>6, <1>p
  <2>2. FitsInput(lo)'
    BY <1>4, <1>6, <2>1 DEF FitsInput
  <2>3. \A y \in 0 .. Widest : FitsInput(y)' => y <= hi'
    BY <1>1, <1>4, <2>1 DEF FitsInput
  <2>4. lo' \in Nat /\ hi' \in Nat /\ lo' <= hi' /\ hi' <= Widest
    BY <1>1, <1>3, <1>p, <2>1
  <2> QED BY <1>1, <1>4, <2>2, <2>3, <2>4 DEF SearchInv
<1>7. CASE ~FitsInput(m)
  <2>1. lo' = lo /\ hi' = m - 1
    BY <1>5, <1>7, <1>p
  <2>2. FitsInput(lo)'
    BY <1>1, <1>4, <2>1 DEF FitsInput
  <2>3. ASSUME NEW y \in 0 .. Widest, FitsInput(y) PROVE y <= hi'
    <3>1. ~(m <= y)
      BY <1>1, <1>2, <1>7, <2>3, SmallerFits
    <3> QED BY <1>2, <2>1, <3>1
  <2>4. \A y \in 0 .. Widest : FitsInput(y)' => y <= hi'
    BY <1>4, <2>3 DEF FitsInput
  <2>5. lo' \in Nat /\ hi' \in Nat /\ lo' <= hi' /\ hi' <= Widest
    BY <1>1, <1>2, <1>3, <1>p, <2>1
  <2> QED BY <1>1, <1>4, <2>2, <2>4, <2>5 DEF SearchInv
<1> QED BY <1>6, <1>7

(* At every turn of max_cash_for_balance's loop the largest cash that fits *)
(* lies between lo and hi, for amounts of any size: when the loop ends, it *)
(* has found what the docstring promises.                                  *)
THEOREM SearchIsRight == SearchSpec => []SearchFindsLargest
<1>1. SearchInit => SearchInv
  BY SearchStarts
<1>2. SearchInv /\ [Probe]_searchVars => SearchInv'
  <2> SUFFICES ASSUME SearchInv, [Probe]_searchVars PROVE SearchInv'
    OBVIOUS
  <2>1. CASE Probe
    BY <2>1, ProbeKeeps
  <2>2. CASE UNCHANGED searchVars
    BY <2>2 DEF searchVars, SearchInv, Widest, FitsInput
  <2> QED BY <2>1, <2>2
<1>3. SearchInv => SearchFindsLargest
  <2> SUFFICES ASSUME SearchInv PROVE SearchFindsLargest
    OBVIOUS
  <2> DEFINE m == MaxCashForBalance(input.rec, input.balance, input.remaining, input.live, input.refunds)
  <2>1. m \in 0 .. Widest /\ FitsInput(m) /\ \A y \in 0 .. Widest : FitsInput(y) => y <= m
    BY AnswerIsLargest
  <2>2. Widest \in Nat
    BY WidestTyped DEF SearchInv
  <2> HIDE DEF m
  <2>3. lo <= m /\ m <= hi
    BY <2>1, <2>2 DEF SearchInv
  <2> QED BY <2>3 DEF SearchFindsLargest, m
<1> QED BY <1>1, <1>2, <1>3, PTL DEF SearchSpec

-----------------------------------------------------------------------------
(* Automatic allocation: oldest first, and of a cheque that clears.        *)

(* A receipt was entered with some cash, and with no larger discount or    *)
(* TDS; what carries TDS is never handed back.                             *)
DocOK(r) ==
    doc[r].status = "posted" =>
        /\ doc[r].amount > 0 /\ doc[r].discount <= doc[r].amount /\ doc[r].tds <= doc[r].amount
        /\ doc[r].tds > 0 => \A f \in Refunds : refund[r][f].amount = 0

(* The loop has no more to spend than the receipt has left, and started    *)
(* only where a cheque was no obstacle.                                    *)
LoopOK ==
    batch.phase = "apply" /\ ~batch.exact =>
        batch.want \in 0 .. Available(batch.receipt) /\ ~ChequeBlocks(batch.receipt)

LoopInv == IInv /\ (\A r \in Receipts : DocOK(r)) /\ LoopOK

(* max_cash_for_balance has an answer, which fits.                         *)
LEMMA AnswerFits ==
    ASSUME NEW rec, NEW live, NEW refunds, NEW balance \in Nat, NEW remaining \in Nat
    PROVE  LET m == MaxCashForBalance(rec, balance, remaining, live, refunds)
           IN  m \in 0 .. remaining /\ Fits(rec, m, live, refunds, balance)
<1> DEFINE top == AtLeastZero(Lesser(remaining, balance))
           Ok(x) == Fits(rec, x, live, refunds, balance)
           B == {x \in 0 .. top : Ok(x)}
           m == MaxCashForBalance(rec, balance, remaining, live, refunds)
<1>1. top \in Nat /\ top <= remaining
    BY DEF AtLeastZero, Lesser
<1>2. Ok(0)
    <2>1. SharesFor(rec, 0, live, refunds) = [disc |-> 0, tds |-> 0]
        BY DEF SharesFor
    <2> QED
        BY <2>1 DEF Fits
<1>3. m = CHOOSE x \in 0 .. top : Ok(x) /\ \A y \in 0 .. top : Ok(y) => y <= x
    BY DEF MaxCashForBalance
<1> HIDE DEF top, Ok, m
<1>4. B \in SUBSET (0 .. top) /\ B # {}
    BY <1>1, <1>2
<1>5. PICK z \in B : \A y \in B : y <= z
    <2> HIDE DEF B
    <2> QED
        BY <1>1, <1>4, LargestExists
<1>6. \E x \in 0 .. top : Ok(x) /\ \A y \in 0 .. top : Ok(y) => y <= x
    BY <1>5
<1>7. m \in 0 .. top /\ Ok(m)
    BY <1>3, <1>6
<1>8. m \in 0 .. remaining
    BY <1>1, <1>7
<1> QED
    BY <1>7, <1>8 DEF Ok, m

(* What the loop takes next is within its budget and the invoice's         *)
(* balance.                                                                *)
LEMMA TakeFits ==
    ASSUME LoopInv, Applying, ~batch.exact
    PROVE  LET r == batch.receipt i == Head(batch.todo) IN
           /\ r \in Receipts /\ i \in Invoices
           /\ Outstanding(i) \in Nat
           /\ Take \in 0 .. batch.want
           /\ Total(Slice(r, Take)) <= Outstanding(i)
<1> DEFINE r == batch.receipt
           i == Head(batch.todo)
<1>1. batch.phase = "apply" /\ batch.todo # <<>>
    BY DEF Applying
<1>2. /\ TypeOK /\ r \in Receipts /\ batch.todo \in Seq(Invoices)
    BY <1>1, UnderWay DEF LoopInv
<1>3. i \in Invoices
    BY <1>1, <1>2
<1>4. batch.want \in Nat
    <2>1. batch.want \in 0 .. Available(r) /\ Available(r) \in Nat
        BY <1>1, <1>2, AvailableIs DEF LoopInv, LoopOK
    <2> QED
        BY <2>1
<1>5. Outstanding(i) \in Nat
    <2>1. Bill[i] \in Nat
        BY <1>3, MoneyInAssumption DEF Amounts
    <2>2. Settled(i) \in Nat
        BY <1>2, <1>3, SumsAreNat DEF TypeOK, Settled, SettledOf
    <2> QED
        BY <2>1, <2>2 DEF Outstanding, AtLeastZero
<1>6. Take = MaxCashForBalance(doc[r], Outstanding(i), batch.want, Live(r), Refunded(r))
    BY DEF Take
<1> HIDE DEF r, i
<1>7. Take \in 0 .. batch.want /\ Fits(doc[r], Take, Live(r), Refunded(r), Outstanding(i))
    BY <1>4, <1>5, <1>6, AnswerFits
<1>8. Total(Slice(r, Take)) = Take + SharesFor(doc[r], Take, Live(r), Refunded(r)).disc
                                   + SharesFor(doc[r], Take, Live(r), Refunded(r)).tds
    BY DEF Total, Slice
<1>9. Total(Slice(r, Take)) <= Outstanding(i)
    BY <1>7, <1>8 DEF Fits
<1> QED
    BY <1>2, <1>3, <1>5, <1>7, <1>9 DEF r, i

(* Writing a row uses up as much of the receipt's cash.                    *)
LEMMA WriteSpends ==
    ASSUME IInv, NEW r \in Receipts, NEW i \in Invoices, NEW x \in 1 .. Available(r),
           WriteAlloc(r, i, x), UNCHANGED <<doc, refund>>, alloc' \in Rows
    PROVE  Available(r)' = Available(r) - x
<1>1. TypeOK /\ alloc \in Rows
    BY DEF IInv, TypeOK
<1>2. /\ alloc[r][i].cash = 0 /\ alloc'[r][i].cash = x
      /\ \A s \in Receipts, j \in Invoices : s # r \/ j # i => alloc'[s][j] = alloc[s][j]
    BY <1>1 DEF WriteAlloc, Slice, NoAlloc, Rows
<1>3. CashOf(alloc', r) = CashOf(alloc, r) - alloc[r][i].cash + alloc'[r][i].cash
    BY <1>1, <1>2, RowChange
<1>4. CashOf(alloc, r) \in Nat /\ RefundedOf(refund, r) \in Nat /\ Available(r) \in Nat
    BY <1>1, SumsAreNat, RefundedIsNat, AvailableIs DEF TypeOK
<1>5. CashOf(alloc, r) + RefundedOf(refund, r) + Available(r) = doc[r].amount
    BY <1>1, <1>4, AvailableIs
<1>6. Available(r)' = AtLeastZero(doc[r].amount - CashOf(alloc', r) - RefundedOf(refund, r))
    BY DEF Available, CashAvailable, Live, Refunded, CashOf, RefundedOf
<1> QED
    BY <1>2, <1>3, <1>4, <1>5, <1>6 DEF AtLeastZero

(* A step that leaves the money of every posted receipt as it is, and adds *)
(* no refund, keeps what its entry and its refunds are like.               *)
LEMMA DocsKept ==
    ASSUME TypeOK, NEW r \in Receipts, DocOK(r),
           doc'[r].status = "posted" => /\ doc[r].status = "posted" /\ doc'[r].amount = doc[r].amount
                                        /\ doc'[r].discount = doc[r].discount
                                        /\ doc'[r].tds = doc[r].tds,
           \A f \in Refunds : refund'[r][f].amount \in {0, refund[r][f].amount}
    PROVE  DocOK(r)'
BY DEF DocOK

(* A step outside the loop leaves it as it is.                             *)
LEMMA NoLoop ==
    ASSUME Quiet, batch' = batch
    PROVE  LoopOK'
BY DEF Quiet, LoopOK

(* Entering a receipt keeps it: an entry that starts to allocate has all   *)
(* its cash left, and a cheque that has to clear first does not start.     *)
LEMMA CreateLoop ==
    ASSUME LoopInv, NEW r \in Receipts, NEW e \in Entries, CreateReceipt(r, e)
    PROVE  (\A s \in Receipts : DocOK(s)') /\ LoopOK'
<1> DEFINE hold == e.cheque /\ holdCheques /\ e.plan # "advance"
<1>1. IInv' /\ IInv
    BY CreateOK DEF LoopInv
<1>2. doc \in Docs /\ doc' \in Docs /\ TypeOK /\ TypeOK'
    BY <1>1 DEF IInv, TypeOK
<1>3. e.amount \in Amounts \ {0} /\ e.discount \in Amounts /\ e.tds \in Amounts /\ e.cheque \in BOOLEAN
    BY MoneyInAssumption DEF Entry
<1>4. e.amount \in Nat /\ e.amount > 0
    BY <1>3, MoneyInAssumption DEF Amounts
<1>5. /\ doc'[r].status = "posted" /\ doc'[r].amount = e.amount /\ doc'[r].discount = e.discount
      /\ doc'[r].tds = e.tds /\ doc'[r].cheque = (IF e.cheque THEN "pending" ELSE "none")
    BY <1>2 DEF CreateReceipt, Docs
<1>6. \A s \in Receipts : s # r => doc'[s] = doc[s]
    BY <1>2 DEF CreateReceipt, Docs
<1>7. UNCHANGED <<alloc, refund, holdCheques>> /\ Quiet
    BY DEF CreateReceipt, rules
<1>8. doc[r].status # "posted"
    BY DEF CreateReceipt, NoDoc
<1>9. /\ \A i \in Invoices : alloc[r][i] = NoAlloc
      /\ \A f \in Refunds : refund[r][f].amount = 0
    BY <1>1, <1>8 DEF IInv, MoneyOK, ReceiptOK
<1>10. ASSUME NEW s \in Receipts PROVE DocOK(s)'
    <2>1. CASE s = r
        BY <1>4, <1>5, <1>7, <1>9, <2>1 DEF DocOK, CreateReceipt
    <2>2. CASE s # r
        BY <1>6, <1>7, <2>2 DEF DocOK, LoopInv
    <2> QED
        BY <2>1, <2>2
<1>11. Available(r)' = e.amount
    <2>1. CashOf(alloc, r) = 0 /\ RefundedOf(refund, r) = 0
        BY <1>2, <1>9, EmptySums, RefundedIsNat DEF TypeOK
    <2>2. Available(r)' = AtLeastZero(e.amount - CashOf(alloc, r) - RefundedOf(refund, r))
        BY <1>5, <1>7 DEF Available, CashAvailable, Live, Refunded, CashOf, RefundedOf
    <2> QED
        BY <1>4, <2>1, <2>2 DEF AtLeastZero
<1>12. LoopOK'
    <2>1. CASE batch' = batch
        BY <1>7, <2>1, NoLoop
    <2>2. CASE ~hold /\ e.plan = "oldest" /\ Begin("create", r, ByDue, e.amount, FALSE)
        <3>1. batch'.receipt = r /\ batch'.want = e.amount
            BY <2>2 DEF Begin, Idle
        <3>2. e.plan # "advance"
            BY <2>2
        <3>3. ~ChequeBlocks(r)'
            BY <1>5, <1>7, <2>2, <3>2 DEF ChequeBlocks
        <3> QED
            BY <1>4, <1>11, <3>1, <3>3 DEF LoopOK, ChequeBlocks, Available
    <2>3. CASE \E want \in Amounts : Begin("create", r, <<e.plan>>, want, TRUE)
        BY <2>3 DEF Begin, Idle, LoopOK
    <2>4. e.want \in Amounts
        BY MoneyInAssumption DEF Entry
    <2> QED
        BY <2>1, <2>2, <2>3, <2>4 DEF CreateReceipt
<1> QED
    BY <1>10, <1>12

(* So does a loop over an advance.                                         *)
LEMMA BulkLoop ==
    ASSUME LoopInv, NEW r \in Receipts, AllocateOldestFirst(r)
    PROVE  LoopOK'
<1>1. batch'.receipt = r /\ batch'.want = Available(r)
    BY DEF AllocateOldestFirst, Begin, Idle
<1>2. ~ChequeBlocks(r) /\ UNCHANGED <<doc, alloc, refund, holdCheques>>
    BY DEF AllocateOldestFirst, rules
<1>3. Available(r)' = Available(r)
    BY <1>2 DEF Available, Live, Refunded
<1>4. Available(r) \in Nat
    BY AvailableIs DEF LoopInv, IInv
<1>5. Available(r) \in 0 .. Available(r)'
    BY <1>3, <1>4
<1> QED
    BY <1>1, <1>2, <1>5 DEF LoopOK, ChequeBlocks, Available

(* So does a cheque that clears, with its plan or without.                 *)
LEMMA ClearLoop ==
    ASSUME LoopInv, NEW r \in Receipts, ClearCheque(r)
    PROVE  (\A s \in Receipts : DocOK(s)') /\ LoopOK'
<1>1. TypeOK /\ doc \in Docs
    BY DEF LoopInv, IInv, TypeOK
<1>2. UNCHANGED <<alloc, refund, holdCheques>> /\ Quiet /\ doc' = [doc EXCEPT ![r].cheque = "cleared"]
    BY DEF ClearCheque, rules
<1>3. /\ \A s \in Receipts : /\ doc'[s].status = doc[s].status /\ doc'[s].amount = doc[s].amount
                             /\ doc'[s].discount = doc[s].discount /\ doc'[s].tds = doc[s].tds
      /\ doc'[r].cheque = "cleared"
    BY <1>1, <1>2 DEF Docs
<1>4. \A s \in Receipts : DocOK(s)'
    BY <1>2, <1>3 DEF DocOK, LoopInv
<1>5. Available(r)' = Available(r) /\ Available(r) \in Nat
    <2>1. Available(r)' = Available(r)
        BY <1>2, <1>3 DEF Available, CashAvailable, Live, Refunded
    <2> QED
        BY <1>1, <2>1, AvailableIs
<1>6. LoopOK'
    <2>1. CASE batch' = batch
        BY <1>2, <2>1, NoLoop
    <2>2. CASE batch' # batch
        <3>1. \/ batch'.receipt = r /\ batch'.want = Available(r)
              \/ batch'.receipt = r /\ batch'.want = Lesser(doc[r].want, Available(r))
            BY <2>2 DEF ClearCheque, Begin, Idle
        <3>2. doc[r].want \in Nat
            <4>1. doc[r].want \in Amounts
                BY <1>1 DEF Docs
            <4> QED
                BY <4>1, MoneyInAssumption DEF Amounts
        <3>3. batch'.receipt = r /\ batch'.want \in 0 .. Available(r)'
            BY <1>5, <3>1, <3>2 DEF Lesser
        <3>4. ~ChequeBlocks(r)'
            BY <1>3 DEF ChequeBlocks
        <3> QED
            BY <3>3, <3>4 DEF LoopOK, ChequeBlocks, Available
    <2> QED
        BY <2>1, <2>2
<1> QED
    BY <1>4, <1>6

(* The loop spends from its budget what its row takes from the receipt.    *)
LEMMA ApplyLoop ==
    ASSUME LoopInv, ApplyToInvoice
    PROVE  LoopOK'
<1>0. batch.phase = "apply" /\ batch.todo # <<>> /\ Applying
    BY DEF ApplyToInvoice, Applying
<1>1. batch \in Batches /\ batch.receipt \in Receipts /\ batch.todo \in Seq(Invoices)
    BY <1>0, UnderWay DEF LoopInv
<1>2. Head(batch.todo) \in Invoices
    BY <1>0, <1>1
<1>3. PICK r \in Receipts, i \in Invoices, x \in 1 .. Available(batch.receipt) :
         r = batch.receipt /\ i = Head(batch.todo) /\ x = Take
    BY <1>1, <1>2 DEF ApplyToInvoice, PassesRules
<1>4. WriteAlloc(r, i, x) /\ UNCHANGED <<doc, refund, holdCheques>>
    BY <1>3 DEF ApplyToInvoice, rules
<1>5. /\ batch'.phase = "apply" /\ batch'.exact = batch.exact /\ batch'.receipt = r
      /\ batch'.want = batch.want - x
    BY <1>0, <1>1, <1>3 DEF ApplyToInvoice, Batches
<1>6. alloc' \in Rows /\ IInv
    BY ApplyOK DEF LoopInv, IInv, TypeOK
<1>7. Available(r)' = Available(r) - x /\ Available(r) \in Nat
    BY <1>3, <1>4, <1>6, WriteSpends, AvailableIs DEF IInv
<1>8. ASSUME ~batch.exact
      PROVE  batch.want - x \in 0 .. Available(r)' /\ ~ChequeBlocks(r)'
    <2>1. x \in 0 .. batch.want
        BY <1>0, <1>3, <1>8, TakeFits
    <2>2. batch.want \in 0 .. Available(r) /\ ~ChequeBlocks(r)
        BY <1>0, <1>3, <1>8 DEF LoopInv, LoopOK
    <2>3. ~ChequeBlocks(r)'
        BY <1>4, <2>2 DEF ChequeBlocks
    <2> QED
        BY <1>7, <2>1, <2>2, <2>3
<1> QED
    BY <1>5, <1>8 DEF LoopOK, ChequeBlocks, Available

(* Every step keeps it.                                                    *)
LEMMA LoopStep == LoopInv /\ [Next]_vars => LoopInv'
<1> SUFFICES ASSUME LoopInv, [Next]_vars PROVE (\A s \in Receipts : DocOK(s)') /\ LoopOK'
    BY StepOK DEF LoopInv
<1>0. TypeOK /\ doc \in Docs /\ refund \in RefundRows /\ batch \in Batches
    BY DEF LoopInv, IInv, TypeOK
<1> DEFINE SameDocs == UNCHANGED <<doc, refund>>
<1>same. ASSUME SameDocs PROVE \A s \in Receipts : DocOK(s)'
    BY <1>same DEF DocOK, LoopInv
<1>1. ASSUME NEW r \in Receipts, NEW e \in Entries, CreateReceipt(r, e)
      PROVE  (\A s \in Receipts : DocOK(s)') /\ LoopOK'
    BY <1>1, CreateLoop
<1>2. ASSUME NEW r \in Receipts, NEW i \in Invoices, NEW x \in Amounts, Allocate(r, i, x)
      PROVE  (\A s \in Receipts : DocOK(s)') /\ LoopOK'
    BY <1>2, <1>same, NoLoop DEF Allocate
<1>3. ASSUME NEW r \in Receipts, NEW i \in Invoices, ReverseAllocation(r, i)
      PROVE  (\A s \in Receipts : DocOK(s)') /\ LoopOK'
    BY <1>3, <1>same, NoLoop DEF ReverseAllocation
<1>4. ASSUME NEW r \in Receipts, NEW f \in Refunds, NEW x \in Amounts, NEW d \in Dates,
             RefundAdvance(r, f, x, d)
      PROVE  (\A s \in Receipts : DocOK(s)') /\ LoopOK'
    <2>1. /\ doc[r].tds = 0 /\ UNCHANGED doc /\ \A s \in Receipts : s # r => refund'[s] = refund[s]
          /\ Quiet /\ batch' = batch
        BY <1>0, <1>4 DEF RefundAdvance, RefundRows
    <2>2. \A s \in Receipts : DocOK(s)'
        BY <1>0, <2>1 DEF DocOK, LoopInv
    <2> QED
        BY <2>1, <2>2, NoLoop
<1>5. ASSUME NEW r \in Receipts, NEW f \in Refunds, VoidAdvanceRefund(r, f)
      PROVE  (\A s \in Receipts : DocOK(s)') /\ LoopOK'
    <2>1. /\ UNCHANGED doc /\ Quiet /\ batch' = batch
          /\ \A s \in Receipts, g \in Refunds : refund'[s][g].amount \in {0, refund[s][g].amount}
        BY <1>0, <1>5 DEF VoidAdvanceRefund, RefundRows, NoRefund
    <2>2. \A s \in Receipts : DocOK(s)'
        BY <1>0, <2>1, DocsKept DEF LoopInv
    <2> QED
        BY <2>1, <2>2, NoLoop
<1>6. ASSUME NEW r \in Receipts,
             \/ \E charged \in BOOLEAN : BounceCheque(r, charged)
             \/ VoidReceipt(r)
             \/ UnclearCheque(r)
      PROVE  (\A s \in Receipts : DocOK(s)') /\ LoopOK'
    <2>1. /\ \A s \in Receipts :
                doc'[s].status = "posted" =>
                    /\ doc[s].status = "posted" /\ doc'[s].amount = doc[s].amount
                    /\ doc'[s].discount = doc[s].discount /\ doc'[s].tds = doc[s].tds
          /\ UNCHANGED refund /\ Quiet /\ batch' = batch
        BY <1>0, <1>6 DEF BounceCheque, VoidReceipt, UnclearCheque, Docs
    <2>2. \A s \in Receipts : DocOK(s)'
        BY <1>0, <2>1, DocsKept DEF LoopInv
    <2> QED
        BY <2>1, <2>2, NoLoop
<1>7. ASSUME NEW r \in Receipts, AllocateOldestFirst(r)
      PROVE  (\A s \in Receipts : DocOK(s)') /\ LoopOK'
    <2>1. SameDocs
        BY <1>7 DEF AllocateOldestFirst
    <2> QED
        BY <1>7, <1>same, <2>1, BulkLoop
<1>8. ASSUME NEW r \in Receipts, ClearCheque(r)
      PROVE  (\A s \in Receipts : DocOK(s)') /\ LoopOK'
    BY <1>8, ClearLoop
<1>9. ASSUME NEW i \in Invoices, CancelInvoice(i)
      PROVE  (\A s \in Receipts : DocOK(s)') /\ LoopOK'
    BY <1>9, <1>same, NoLoop DEF CancelInvoice
<1>10. ASSUME NEW d \in Dates, SoftClose(d) \/ Close(d) \/ Reopen(d)
       PROVE  (\A s \in Receipts : DocOK(s)') /\ LoopOK'
    BY <1>10, <1>same, NoLoop DEF SoftClose, Close, Reopen, SetPeriod
<1>11. CASE ChangeChequeRule
    BY <1>11, <1>same, NoLoop DEF ChangeChequeRule
<1>12. CASE SkipInvoice
    <2>1. /\ batch'.phase = batch.phase /\ batch'.exact = batch.exact
          /\ batch'.receipt = batch.receipt /\ batch'.want = batch.want
        BY <1>0, <1>12 DEF SkipInvoice, Batches
    <2>2. UNCHANGED <<doc, alloc, refund, holdCheques>>
        BY <1>12 DEF SkipInvoice, rules
    <2>3. LoopOK'
        BY <2>1, <2>2 DEF LoopInv, LoopOK, ChequeBlocks, Available, Live, Refunded
    <2> QED
        BY <1>same, <2>2, <2>3
<1>13. CASE ApplyToInvoice
    <2>1. SameDocs
        BY <1>13 DEF ApplyToInvoice
    <2> QED
        BY <1>13, <1>same, <2>1, ApplyLoop
<1>14. CASE Fail \/ UndoAllocation \/ Commit
    <2>1. SameDocs
        BY <1>14 DEF Fail, UndoAllocation, Commit
    <2>2. batch'.phase # "apply"
        <3>1. ASSUME Fail PROVE batch'.phase = "undo"
            BY <1>0, <3>1 DEF Fail, Batches
        <3>2. ASSUME UndoAllocation PROVE batch'.phase = "undo"
            BY <1>0, <3>2 DEF UndoAllocation, Batches
        <3>3. ASSUME Commit PROVE batch'.phase = "idle"
            BY <3>3 DEF Commit, Idle
        <3> QED
            BY <1>14, <3>1, <3>2, <3>3
    <2>3. LoopOK'
        BY <2>2 DEF LoopOK
    <2> QED
        BY <1>same, <2>1, <2>3
<1>15. CASE UndoRest
    <2>1. batch.receipt \in Receipts
        BY <1>15, UnderWay DEF UndoRest, LoopInv
    <2>2. /\ \A s \in Receipts :
                doc'[s].status = "posted" =>
                    /\ doc[s].status = "posted" /\ doc'[s].amount = doc[s].amount
                    /\ doc'[s].discount = doc[s].discount /\ doc'[s].tds = doc[s].tds
          /\ UNCHANGED refund /\ batch' = Idle
        BY <1>0, <1>15, <2>1 DEF UndoRest, Docs, NoDoc
    <2>3. \A s \in Receipts : DocOK(s)'
        BY <1>0, <2>2, DocsKept DEF LoopInv
    <2> QED
        BY <2>2, <2>3 DEF LoopOK, Idle
<1>16. CASE UNCHANGED vars
    <2>1. SameDocs /\ UNCHANGED <<alloc, holdCheques, batch>>
        BY <1>16 DEF vars
    <2>2. LoopOK'
        BY <2>1 DEF LoopInv, LoopOK, ChequeBlocks, Available, Live, Refunded
    <2> QED
        BY <1>same, <2>1, <2>2
<1> HIDE DEF SameDocs
<1> QED
    BY <1>1, <1>2, <1>3, <1>4, <1>5, <1>6, <1>7, <1>8, <1>9, <1>10, <1>11, <1>12, <1>13,
       <1>14, <1>15, <1>16 DEF Next, BatchStep

LEMMA LoopHolds == Spec => []LoopInv
<1>1. Init => LoopInv
    <2> SUFFICES ASSUME Init PROVE LoopInv
        OBVIOUS
    <2>1. IInv
        BY InitOK
    <2>2. \A r \in Receipts : DocOK(r)
        BY DEF Init, DocOK, NoDoc
    <2>3. LoopOK
        BY DEF Init, LoopOK, Idle
    <2> QED
        BY <2>1, <2>2, <2>3 DEF LoopInv
<1> QED
    BY <1>1, LoopStep, PTL DEF Spec

(* What an automatic allocation takes next is within its budget, and its   *)
(* row passes every check of allocate_receipt unless the receipt's period  *)
(* was closed.                                                             *)
AutomaticPasses ==
    Applying /\ ~batch.exact /\ Wanted =>
        LET r == batch.receipt i == Head(batch.todo) IN
        /\ Take \in 1 .. batch.want
        /\ AllowsNew(doc[r].date) => PassesRules(r, i, Take)

(* allocate_receipt_oldest_first and the plan of a cheque that clears can  *)
(* be turned down over no amount, invoice or cheque: only a closed period  *)
(* or an allocation of the same pair stops them.                           *)
THEOREM AutomaticNeverRefused == Spec => []AutomaticPasses
<1>1. ASSUME LoopInv PROVE AutomaticPasses
    <2> SUFFICES ASSUME Applying, ~batch.exact, Wanted
                 PROVE  LET r == batch.receipt i == Head(batch.todo) IN
                        /\ Take \in 1 .. batch.want
                        /\ AllowsNew(doc[r].date) => PassesRules(r, i, Take)
        BY DEF AutomaticPasses
    <2> DEFINE r == batch.receipt
               i == Head(batch.todo)
    <2>1. /\ r \in Receipts /\ i \in Invoices /\ Outstanding(i) \in Nat
          /\ Take \in 0 .. batch.want /\ Total(Slice(r, Take)) <= Outstanding(i)
        BY <1>1, TakeFits
    <2>2. Outstanding(i) > 0 /\ Take > 0
        BY DEF Wanted
    <2>3. /\ doc[r].status = "posted" /\ TypeOK
          /\ batch.want \in 0 .. Available(r) /\ ~ChequeBlocks(r)
        BY <1>1, UnderWay DEF LoopInv, LoopOK, Applying
    <2>4. Available(r) \in Nat
        BY <2>1, <2>3, AvailableIs
    <2>5. bill[i] = "completed"
        BY <2>2 DEF Outstanding
    <2> HIDE DEF r, i
    <2>6. Take \in 1 .. batch.want /\ Take \in 1 .. Available(r)
        BY <2>1, <2>2, <2>3, <2>4
    <2>7. AllowsNew(doc[r].date) => PassesRules(r, i, Take)
        BY <2>1, <2>3, <2>5, <2>6 DEF PassesRules
    <2> QED
        BY <2>6, <2>7 DEF r, i
<1> QED
    BY <1>1, LoopHolds, PTL

(* What the loop asks of max_cash_for_balance.                             *)
Question ==
    LET r == batch.receipt IN
    [rec |-> [amount |-> doc[r].amount, discount |-> doc[r].discount, tds |-> doc[r].tds],
     live |-> Live(r), refunds |-> Refunded(r),
     balance |-> Outstanding(Head(batch.todo)), remaining |-> batch.want]

AsksWithinInputs == Applying /\ ~batch.exact => Question \in Inputs

(* The binary search is right about everything it is asked: the receipts,  *)
(* balances and allocations it is proved for are all that money in meets.  *)
THEOREM SearchCoversUse == MaxAmount <= MaxPaise => (Spec => []AsksWithinInputs)
<1> SUFFICES ASSUME MaxAmount <= MaxPaise PROVE Spec => []AsksWithinInputs
    OBVIOUS
<1>1. ASSUME LoopInv PROVE AsksWithinInputs
    <2> SUFFICES ASSUME Applying, ~batch.exact PROVE Question \in Inputs
        BY DEF AsksWithinInputs
    <2> DEFINE r == batch.receipt
               i == Head(batch.todo)
    <2>1. r \in Receipts /\ i \in Invoices /\ Outstanding(i) \in Nat
        BY <1>1, TakeFits
    <2>2. /\ doc[r].status = "posted" /\ TypeOK /\ batch.want \in 0 .. Available(r)
          /\ ReceiptOK(doc, alloc, refund, advance, r) /\ DocOK(r)
        BY <1>1, <2>1, UnderWay DEF LoopInv, LoopOK, Applying, MoneyOK
    <2>3. /\ CashOf(alloc, r) \in Nat /\ DiscOf(alloc, r) \in Nat /\ TdsOf(alloc, r) \in Nat
          /\ RefundedOf(refund, r) \in Nat /\ SettledOf(alloc, i) \in Nat
        BY <2>1, <2>2, SumsAreNat, RefundedIsNat DEF TypeOK
    <2>4. doc[r].amount \in Amounts /\ doc[r].discount \in Amounts /\ doc[r].tds \in Amounts
        BY <2>1, <2>2 DEF TypeOK, Docs
    <2>5. /\ Live(r) = [cash |-> CashOf(alloc, r), disc |-> DiscOf(alloc, r), tds |-> TdsOf(alloc, r)]
          /\ Refunded(r) = RefundedOf(refund, r) /\ Settled(i) = SettledOf(alloc, i)
        BY DEF Live, Refunded, Settled, CashOf, DiscOf, TdsOf, RefundedOf, SettledOf
    <2>6. /\ doc[r].amount \in Nat /\ doc[r].discount \in Nat /\ doc[r].tds \in Nat
          /\ doc[r].amount <= MaxPaise /\ MaxPaise \in Nat /\ doc[r].amount > 0
          /\ doc[r].discount <= doc[r].amount /\ doc[r].tds <= doc[r].amount
        BY <2>2, <2>4, MoneyInAssumption, MaxPaiseAssumption DEF Amounts, DocOK
    <2>7. /\ CashOf(alloc, r) + RefundedOf(refund, r) <= doc[r].amount
          /\ DiscOf(alloc, r) <= doc[r].discount /\ TdsOf(alloc, r) <= doc[r].tds
        BY <2>2 DEF ReceiptOK
    <2>8. batch.want \in Nat /\ CashOf(alloc, r) + RefundedOf(refund, r) + batch.want <= doc[r].amount
        <3>1. Available(r) \in Nat
            BY <2>1, <2>2, AvailableIs
        <3>2. CASE Available(r) = 0
            BY <2>2, <2>3, <2>6, <2>7, <3>2
        <3>3. CASE Available(r) > 0
            <4>1. CashOf(alloc, r) + RefundedOf(refund, r) + Available(r) = doc[r].amount
                BY <2>1, <2>2, <3>3, AvailableIs
            <4> QED
                BY <2>2, <2>3, <2>6, <3>1, <4>1
        <3> QED
            BY <3>1, <3>2, <3>3
    <2>9. Outstanding(i) \in Paise
        <3>1. Bill[i] \in Nat /\ Bill[i] <= MaxPaise
            <4>1. Bill[i] \in Amounts
                BY <2>1, MoneyInAssumption
            <4> QED
                BY <2>6, <4>1, MoneyInAssumption DEF Amounts
        <3>2. Outstanding(i) <= Bill[i]
            BY <2>3, <2>5, <3>1 DEF Outstanding, AtLeastZero
        <3> QED
            BY <2>1, <2>6, <3>1, <3>2 DEF Paise
    <2>10. doc[r].tds > 0 => RefundedOf(refund, r) = 0
        BY <2>1, <2>2, RefundedIsNat DEF DocOK, TypeOK
    <2>11. /\ doc[r].amount \in Paise \ {0} /\ doc[r].discount \in Paise /\ doc[r].tds \in Paise
           /\ CashOf(alloc, r) \in Paise /\ DiscOf(alloc, r) \in Paise /\ TdsOf(alloc, r) \in Paise
           /\ RefundedOf(refund, r) \in Paise /\ batch.want \in Paise
        BY <2>3, <2>6, <2>7, <2>8 DEF Paise
    <2>12. Question = [rec |-> [amount |-> doc[r].amount, discount |-> doc[r].discount, tds |-> doc[r].tds],
                       live |-> [cash |-> CashOf(alloc, r), disc |-> DiscOf(alloc, r), tds |-> TdsOf(alloc, r)],
                       refunds |-> RefundedOf(refund, r), balance |-> Outstanding(i), remaining |-> batch.want]
        BY <2>5 DEF Question
    <2> HIDE DEF r, i
    <2> QED
        BY <2>6, <2>7, <2>8, <2>9, <2>10, <2>11, <2>12 DEF Inputs
<1> QED
    BY <1>1, LoopHolds, PTL

=============================================================================
