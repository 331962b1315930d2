---------------------------- MODULE MaxCashSearch ----------------------------
(***************************************************************************)
(* The binary search of max_cash_for_balance (receipt_math.py) as a loop:  *)
(* one step per iteration, started on every receipt, balance and state of  *)
(* its allocations within the bounds.                                      *)
(***************************************************************************)
EXTENDS ReceiptMath

CONSTANT MaxPaise    \* bound on every amount of an input

ASSUME MaxPaiseAssumption == MaxPaise \in Nat \ {0}

VARIABLES
    input,    \* [rec, live, refunds, balance, remaining]
    lo, hi

searchVars == <<input, lo, hi>>

Paise == 0 .. MaxPaise

(* What earlier allocations and refunds of the receipt can have left: the  *)
(* cash used, and shares no larger than the totals.                        *)
Inputs ==
    { x \in [rec : [amount : Paise \ {0}, discount : Paise, tds : Paise],
             live : [cash : Paise, disc : Paise, tds : Paise],
             refunds : Paise, balance : Paise, remaining : Paise] :
        /\ x.rec.discount <= x.rec.amount /\ x.rec.tds <= x.rec.amount
        /\ x.live.disc <= x.rec.discount /\ x.live.tds <= x.rec.tds
        /\ x.live.cash + x.refunds + x.remaining <= x.rec.amount
        /\ x.rec.tds > 0 => x.refunds = 0 }

FitsInput(x) == Fits(input.rec, x, input.live, input.refunds, input.balance)

SearchInit ==
    /\ input \in Inputs
    /\ lo = 0
    /\ hi = Lesser(input.remaining, input.balance)

(* Mutant: the search keeps the middle it has just ruled out.              *)
Probe_KeepsMid ==
    /\ lo < hi
    /\ LET mid == (lo + hi + 1) \div 2 IN
          IF FitsInput(mid) THEN lo' = mid /\ hi' = hi
                            ELSE lo' = lo /\ hi' = mid
    /\ UNCHANGED input

(* Mutant: a middle that fits is skipped.                                  *)
Probe_SkipsMid ==
    /\ lo < hi
    /\ LET mid == (lo + hi + 1) \div 2 IN
          IF FitsInput(mid) THEN lo' = mid /\ hi' = hi
                            ELSE lo' = lo /\ hi' = lo
    /\ UNCHANGED input

Probe ==
    /\ lo < hi
    /\ LET mid == (lo + hi + 1) \div 2 IN
          IF FitsInput(mid) THEN lo' = mid /\ hi' = hi
                            ELSE lo' = lo /\ hi' = mid - 1
    /\ UNCHANGED input

SearchSpec == SearchInit /\ [][Probe]_searchVars /\ WF_searchVars(Probe)

-----------------------------------------------------------------------------
(* The answer lies between lo and hi at every turn of the loop, and when   *)
(* the loop ends it is the largest cash that fits: the rounded shares grow *)
(* with the cash, so halving never discards a better answer.               *)
SearchFindsLargest ==
    /\ lo <= MaxCashForBalance(input.rec, input.balance, input.remaining, input.live, input.refunds)
    /\ MaxCashForBalance(input.rec, input.balance, input.remaining, input.live, input.refunds) <= hi

(* The loop ends.                                                          *)
SearchEnds == <>(lo = hi)

=============================================================================
