----------------------------- MODULE ReceiptMath -----------------------------
(***************************************************************************)
(* backend/payments/receipt_math.py: what a customer receipt has left and  *)
(* how its settlement discount and the TDS the customer deducted are       *)
(* spread over its allocations.  Amounts are whole paise.                  *)
(*                                                                         *)
(* live = [cash, disc, tds] are the sums over the receipt's unreversed     *)
(* allocations, refunds the sum of its live advance refunds.               *)
(***************************************************************************)
EXTENDS Integers

AtLeastZero(n) == IF n < 0 THEN 0 ELSE n
Lesser(m, n) == IF m < n THEN m ELSE n

(* _round of a quotient: half up.  Python divides to 28 digits first, so   *)
(* an exact tie may come out a paisa lower there.                          *)
RoundedQuotient(n, d) == (2 * n + d) \div (2 * d)

(* Mutant: every slice is rounded down, the last one too.                  *)
OneShare_RoundsDown(total, applied, cash, base, completes) ==
    LET left == total - applied IN
    IF total <= 0 \/ left <= 0 THEN 0 ELSE AtLeastZero(Lesser((cash * total) \div base, left))

(* The inner function of shares_for.                                       *)
OneShare(total, applied, cash, base, completes) ==
    LET left == total - applied IN
    IF total <= 0 \/ left <= 0 THEN 0
    ELSE AtLeastZero(Lesser(IF completes THEN left ELSE RoundedQuotient(cash * total, base), left))

(* shares_for: the discount and the TDS that an allocation of cash clears. *)
SharesFor(rec, cash, live, refunds) ==
    LET base == rec.amount - refunds
        completes == live.cash + cash >= base
    IN  IF cash <= 0 \/ base <= 0 THEN [disc |-> 0, tds |-> 0]
        ELSE [disc |-> OneShare(rec.discount, live.disc, cash, base, completes),
              tds  |-> OneShare(rec.tds, live.tds, cash, base, completes)]

(* cash with the shares it carries stays within the invoice's balance.     *)
Fits(rec, cash, live, refunds, balance) ==
    LET s == SharesFor(rec, cash, live, refunds) IN cash + s.disc + s.tds <= balance

(* max_cash_for_balance, as its docstring states it: the largest cash      *)
(* within remaining that fits.  The loop that looks for it is              *)
(* MaxCashSearch.                                                          *)
MaxCashForBalance(rec, balance, remaining, live, refunds) ==
    CHOOSE x \in 0 .. AtLeastZero(Lesser(remaining, balance)) :
        /\ Fits(rec, x, live, refunds, balance)
        /\ \A y \in 0 .. AtLeastZero(Lesser(remaining, balance)) :
              Fits(rec, y, live, refunds, balance) => y <= x

(* Mutant: money handed back can still be applied.                         *)
CashAvailable_IgnoresRefunds(rec, live, refunds) == AtLeastZero(rec.amount - live.cash)

CashAvailable(rec, live, refunds) == AtLeastZero(rec.amount - live.cash - refunds)

(* receipt_unallocated: the receipt's balance on Customer Advances (2300). *)
Unallocated(rec, live, refunds) ==
    rec.amount + rec.tds - live.cash - live.tds - refunds

=============================================================================
