---------------------------- MODULE StockBalance ----------------------------
(***************************************************************************)
(* The stock of one product (backend/inventory/services.py,                *)
(* InventoryService): per godown a StockBalance row with what is on hand   *)
(* and what of it is reserved.  A row is locked before it is read and      *)
(* changed, so every operation here is one atomic step on it.  Handlers    *)
(* change several rows, or one row several times, in one transaction: the  *)
(* operators take the balances b and return the balances after the step.   *)
(*                                                                         *)
(* No batches and no serial numbers; the valuation layers that move with   *)
(* the quantities are left out.                                            *)
(***************************************************************************)
EXTENDS FiniteSets, Sums

CONSTANTS
    Godowns,     \* the company's godowns, the one in transit included
    Transit,     \* StockTransferService.in_transit_warehouse
    Policy,      \* company.negative_stock_policy
    MaxQty,      \* bound on the quantity of a document line
    Opening,     \* Opening[w]: stock on hand to begin with
    MaxStock     \* bound on what adjustments may bring into a godown

ASSUME StockAssumption ==
    /\ Transit \in Godowns
    /\ Policy \in {"BLOCK", "WARN"}
    /\ MaxQty \in Nat
    /\ MaxStock \in Nat
    /\ Opening \in [Godowns -> 0 .. MaxStock]
    /\ Opening[Transit] = 0

VARIABLES
    balance,     \* balance[w]: the StockBalance of the product in w
    adjusted     \* adjusted[w]: opening stock, purchases, counts and sales over the
                 \* counter: the movements of no document modelled here

stock == <<balance, adjusted>>

AtLeastZero(n) == IF n > 0 THEN n ELSE 0

Least(m, n) == IF m < n THEN m ELSE n

Available(b, w) == b[w].onHand - b[w].reserved

Enough_OnHand(b, w, q) == Policy = "BLOCK" => b[w].onHand >= q

(* post_movement and check_negative_stock refuse an issue, reserve_stock a *)
(* reservation, of more than is available.                                 *)
Enough(b, w, q) == Policy = "BLOCK" => Available(b, w) >= q

Move(b, w, delta) == [b EXCEPT ![w].onHand = @ + delta]

Reserve(b, w, q) == [b EXCEPT ![w].reserved = @ + q]

Release(b, w, q) == [b EXCEPT ![w].reserved = AtLeastZero(@ - q)]

StockInit ==
    /\ balance = [w \in Godowns |-> [onHand |-> Opening[w], reserved |-> 0]]
    /\ adjusted = Opening

(* A manual adjustment, a stock count, a purchase or a counter sale; the   *)
(* godown in transit is not offered for any of them.                       *)
Adjust(w, delta) ==
    /\ w # Transit
    /\ delta # 0
    /\ delta < 0 => Enough(balance, w, -delta)
    /\ adjusted[w] + delta \in 0 .. MaxStock
    /\ balance' = Move(balance, w, delta)
    /\ adjusted' = [adjusted EXCEPT ![w] = @ + delta]

=============================================================================
