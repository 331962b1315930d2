------------------------------ MODULE Godowns -------------------------------
(***************************************************************************)
(* Orders, transfers and adjustments over the same stock: each transaction *)
(* of one of them finds the balances the others left.                      *)
(***************************************************************************)
EXTENDS SalesOrders, StockTransfers

vars == <<balance, adjusted, order, challan, invoice, returning, transfer>>

Init == StockInit /\ OrderInit /\ TransferInit

Next ==
    \/ OrderNext /\ UNCHANGED transfer
    \/ TransferNext /\ UNCHANGED documents
    \/ /\ \E w \in Godowns, delta \in -MaxQty .. MaxQty : Adjust(w, delta)
       /\ UNCHANGED <<documents, transfer>>

Spec == Init /\ [][Next]_vars

-----------------------------------------------------------------------------
(* Types of the rows.                                                      *)
StockTypeOK ==
    /\ balance \in [Godowns -> [onHand : Int, reserved : Nat]]
    /\ adjusted \in [Godowns -> 0 .. MaxStock]
    /\ order \in [Orders -> Order]
    /\ challan \in [Challans -> Challan]
    /\ invoice \in [Invoices -> Invoice]
    /\ returning \in [Clerks -> Return \cup {NoReturn}]
    /\ transfer \in [Transfers -> Transfer]

(* A reservation is given back exactly once: what is reserved on the       *)
(* balance is what the open orders hold by their documents, whatever       *)
(* challans and invoices were completed, cancelled, deleted, converted or  *)
(* returned on the way.                                                    *)
ReservedIsHeld ==
    /\ balance[Shop].reserved = Sum([o \in Orders |-> StillHeld(order, challan, invoice, o)])
    /\ \A w \in Godowns \ {Shop} : balance[w].reserved = 0

(* Under BLOCK no godown promises or issues more than it has, the one in   *)
(* transit included, where a write-off skips the stock check.              *)
NeverOversold ==
    Policy = "BLOCK" => \A w \in Godowns : balance[w].reserved <= balance[w].onHand

(* Every unit is explained by a document: what a godown has is what was    *)
(* brought in, less what live challans and invoices took out, with what    *)
(* transfers carried; in transit is exactly what is on the road or short.  *)
GoodsAccountedFor ==
    \A w \in Godowns : balance[w].onHand = adjusted[w] - Sold(w) + Transferred(w)

(* The challans of an order, their bills and its own invoices never hand   *)
(* over more than was ordered.                                             *)
NotDeliveredTwice == \A o \in Orders : Delivered(o) <= Ordered[o]

(* recompute_order_status: a converted order, which cannot be converted or *)
(* cancelled any more, owes nothing unless the goods of one of its         *)
(* challans all came back.  Of a cancelled order nothing is out, nor can   *)
(* any document take goods out.                                            *)
StatusFollowsDocuments ==
    \A o \in Orders :
        /\ order[o].status = "CONVERTED" =>
              \/ Remaining(challan, invoice, o) = 0
              \/ \E c \in LiveChallans(challan, o) : challan[c].back = challan[c].qty
        /\ order[o].status = "CANCELLED" =>
              /\ Delivered(o) = 0
              /\ LiveChallans(challan, o) = {}
              /\ InvoicesForOrder(order, challan, invoice, o) = {}

=============================================================================
