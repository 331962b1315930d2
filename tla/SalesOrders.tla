---------------------------- MODULE SalesOrders -----------------------------
(***************************************************************************)
(* From order to delivery (backend/sales: notes_services.py, services.py,  *)
(* order_quantities.py, challan_return.py, route_service.py).  A confirmed *)
(* order reserves its stock; delivery challans and invoices made from it   *)
(* take the goods out and the reservation with them; cancelling either, or *)
(* goods that come back, returns the goods to the shelf and to the order.  *)
(* A reservation is a number on the balance without an owner: which order  *)
(* holds how much of it is computed from the documents.                    *)
(*                                                                         *)
(* Orders of one product, delivered from one godown.  Every handler locks  *)
(* its document and the order and is one step, except completing a challan *)
(* return, which reads what is left to return before it locks the challan. *)
(* The shipped and invoiced counters of an order line are a cache that     *)
(* every handler rewrites from the documents; here they are computed.      *)
(* Checks of customers, periods, credit and gates can only refuse.         *)
(***************************************************************************)
EXTENDS StockBalance

CONSTANTS
    Orders,
    MaxChallans,      \* bound on the challans made
    MaxInvoices,      \* bound on the invoices made
    Clerks,           \* who can complete challan returns at the same time
    Shop,             \* the godown of the orders
    Ordered,          \* Ordered[o]: the quantity of the order's line
    StockOnChallan,   \* values company.stock_on_delivery_challan may have
    NoOrder,
    NoReturn

Challans == 1 .. MaxChallans
Invoices == 1 .. MaxInvoices
NoBill == 0
Quantity == 0 .. MaxQty

ASSUME OrderAssumption ==
    /\ MaxChallans \in Nat
    /\ MaxInvoices \in Nat
    /\ Shop \in Godowns \ {Transit}
    /\ Ordered \in [Orders -> 1 .. MaxQty]
    /\ StockOnChallan \subseteq BOOLEAN
    /\ NoOrder \notin Orders
    /\ IsFiniteSet(Orders)

(* Two returns of a challan that posted no stock, completed side by side,  *)
(* can both pass the check of the quantity: see the README.                *)
ASSUME OneReturnAtATime == \A k, l \in Clerks : k = l

VARIABLES
    order,        \* order[o]: status, stock_held, converted_invoice
    challan,      \* challan[c]: status, sales_order, quantity, what came back on completed
                  \* returns, stock_posted, converted_invoice
    invoice,      \* invoice[i]: status, source_order, quantity, SALE movements of its own
    returning     \* returning[k]: the challan return clerk k is completing

documents == <<order, challan, invoice, returning>>

OrderStatus == {"DRAFT", "CONFIRMED", "PARTIALLY_CONVERTED", "CONVERTED", "CANCELLED"}
DocStatus == {"NONE", "DRAFT", "COMPLETED", "CANCELLED", "DELETED"}
Convertible == {"DRAFT", "CONFIRMED", "PARTIALLY_CONVERTED"}
Live == {"DRAFT", "COMPLETED"}

Order == [status : OrderStatus, held : BOOLEAN, bill : Invoices \cup {NoBill}]
Challan == [status : DocStatus, order : Orders \cup {NoOrder}, qty : Quantity,
            back : Quantity, posted : BOOLEAN, bill : Invoices \cup {NoBill}]
Invoice == [status : DocStatus, source : Orders \cup {NoOrder}, qty : Quantity, issued : BOOLEAN]
Return == [challan : Challans, qty : 1 .. MaxQty]

NoChallan == [status |-> "NONE", order |-> NoOrder, qty |-> 0, back |-> 0, posted |-> FALSE,
              bill |-> NoBill]
NoInvoice == [status |-> "NONE", source |-> NoOrder, qty |-> 0, issued |-> FALSE]
DraftChallan(o, q) == [status |-> "DRAFT", order |-> o, qty |-> q, back |-> 0, posted |-> FALSE,
                       bill |-> NoBill]
DraftInvoice(o, q) == [status |-> "DRAFT", source |-> o, qty |-> q, issued |-> FALSE]

OrderInit ==
    /\ order = [o \in Orders |-> [status |-> "DRAFT", held |-> FALSE, bill |-> NoBill]]
    /\ challan = [c \in Challans |-> NoChallan]
    /\ invoice = [i \in Invoices |-> NoInvoice]
    /\ returning = [k \in Clerks |-> NoReturn]

(* Rows get ascending ids and keep them.                                   *)
IsNext(docs, d) == docs[d].status = "NONE" /\ \A e \in 1 .. d - 1 : docs[e].status # "NONE"

-----------------------------------------------------------------------------
(* order_quantities.py, over orders od, challans ch and invoices inv.      *)
OnChallans(ch, o, states) ==
    Sum([c \in Challans |-> IF ch[c].order = o /\ ch[c].status \in states THEN ch[c].qty ELSE 0])

CameBack(ch, o) == Sum([c \in Challans |-> IF ch[c].order = o THEN ch[c].back ELSE 0])

Shipped(ch, o) == AtLeastZero(OnChallans(ch, o, {"COMPLETED"}) - CameBack(ch, o))

(* Drafts claim their quantity too.                                        *)
ClaimedByChallans(ch, o) == AtLeastZero(OnChallans(ch, o, Live) - CameBack(ch, o))

OnInvoices(inv, o, states) ==
    Sum([i \in Invoices |-> IF inv[i].source = o /\ inv[i].status \in states THEN inv[i].qty ELSE 0])

StillHeld(od, ch, inv, o) ==
    IF od[o].held /\ od[o].status # "CANCELLED"
    THEN AtLeastZero(Ordered[o] - Shipped(ch, o) - OnInvoices(inv, o, {"COMPLETED"}))
    ELSE 0

Taken(ch, inv, o) == ClaimedByChallans(ch, o) + OnInvoices(inv, o, Live)

Remaining_Separate(ch, inv, o) == AtLeastZero(Ordered[o] - OnInvoices(inv, o, Live))

Remaining(ch, inv, o) == AtLeastZero(Ordered[o] - Taken(ch, inv, o))

LinkedTo(ch, i) == {c \in Challans : ch[c].bill = i}

InvoicesForOrder(od, ch, inv, o) ==
    {i \in Invoices :
        /\ inv[i].status \in Live
        /\ \/ inv[i].source = o
           \/ od[o].bill = i
           \/ \E c \in LinkedTo(ch, i) : ch[c].order = o}

LiveChallans(ch, o) == {c \in Challans : ch[c].order = o /\ ch[c].status \in Live}

AnyCompleted(od, ch, inv, o) ==
    \/ Shipped(ch, o) > 0
    \/ \E i \in InvoicesForOrder(od, ch, inv, o) : inv[i].status = "COMPLETED"

Unprocessed(r) == IF r.held THEN "CONFIRMED" ELSE "DRAFT"

(* The status recompute_order_status aims at.                              *)
TargetStatus(od, ch, inv, o, reopen) ==
    LET r == od[o]
        bills == InvoicesForOrder(od, ch, inv, o)
        someDone == AnyCompleted(od, ch, inv, o)
        drafts == \/ \E c \in LiveChallans(ch, o) : ch[c].status = "DRAFT"
                  \/ \E i \in bills : inv[i].status = "DRAFT"
        fallsBack == reopen /\ r.status = "CONVERTED"
        nothingLeft == ~someDone /\ LiveChallans(ch, o) = {} /\ bills = {}
    IN IF someDone /\ Taken(ch, inv, o) >= Ordered[o] /\ ~drafts THEN "CONVERTED"
       ELSE IF someDone /\ (r.status \in Convertible \/ fallsBack) THEN "PARTIALLY_CONVERTED"
       ELSE IF nothingLeft /\ (r.status = "PARTIALLY_CONVERTED" \/ fallsBack) THEN Unprocessed(r)
       ELSE r.status

(* recompute_order_status: the order's row after a document of it changed; *)
(* it points to its latest live invoice.                                   *)
Recomputed(od, ch, inv, o, reopen) ==
    LET r == od[o]
        bills == InvoicesForOrder(od, ch, inv, o)
        latest == CHOOSE i \in bills : \A j \in bills : j <= i
    IN IF r.status = "CANCELLED" THEN r
       ELSE [r EXCEPT !.status = TargetStatus(od, ch, inv, o, reopen),
                      !.bill = IF bills # {} /\ r.bill \notin bills THEN latest ELSE @]

(* reopen_order_after_goods_back: the status of the order afterwards.      *)
Reopened(od, ch, inv, o) ==
    IF AnyCompleted(od, ch, inv, o) THEN "PARTIALLY_CONVERTED" ELSE Unprocessed(od[o])

(* release_order_conversion: a discarded draft gives its quantity back.    *)
Discarded(od, ch, inv, o, i) ==
    LET r == od[o] IN
    [r EXCEPT !.bill = IF @ = i THEN NoBill ELSE @,
              !.status = IF @ = "PARTIALLY_CONVERTED" /\ Taken(ch, inv, o) = 0
                         THEN Unprocessed(r) ELSE @]

-----------------------------------------------------------------------------
(* Sales orders.                                                           *)
ConfirmSalesOrder(o) ==
    /\ order[o].status = "DRAFT"
    /\ Enough(balance, Shop, Ordered[o])
    /\ balance' = Reserve(balance, Shop, Ordered[o])
    /\ order' = [order EXCEPT ![o].status = "CONFIRMED", ![o].held = TRUE]
    /\ UNCHANGED <<adjusted, challan, invoice, returning>>

ConvertSalesOrder(o, i, q) ==
    LET inv == [invoice EXCEPT ![i] = DraftInvoice(o, q)] IN
    /\ order[o].status \in Convertible
    /\ q \in 1 .. Remaining(challan, invoice, o)
    /\ IsNext(invoice, i)
    /\ invoice' = inv
    /\ order' = [order EXCEPT ![o].bill = i,
                              ![o].status = IF Remaining(challan, inv, o) > 0
                                            THEN "PARTIALLY_CONVERTED" ELSE @]
    /\ UNCHANGED <<stock, challan, returning>>

(* One draft challan of an order at a time.                                *)
ConvertSalesOrderToChallan(o, c, q) ==
    LET ch == [challan EXCEPT ![c] = DraftChallan(o, q)] IN
    /\ order[o].status \in Convertible
    /\ \A d \in LiveChallans(challan, o) : challan[d].status # "DRAFT"
    /\ q \in 1 .. Remaining(challan, invoice, o)
    /\ IsNext(challan, c)
    /\ challan' = ch
    /\ order' = [order EXCEPT ![o].status =
                     IF Remaining(ch, invoice, o) > 0 /\ @ # "DRAFT"
                     THEN "PARTIALLY_CONVERTED" ELSE @]
    /\ UNCHANGED <<stock, invoice, returning>>

CancelSalesOrder(o) ==
    /\ order[o].status \in {"DRAFT", "CONFIRMED"}
    /\ InvoicesForOrder(order, challan, invoice, o) = {}
    /\ LiveChallans(challan, o) = {}
    /\ balance' = Release(balance, Shop, StillHeld(order, challan, invoice, o))
    /\ order' = [order EXCEPT ![o].status = "CANCELLED", ![o].held = FALSE]
    /\ UNCHANGED <<adjusted, challan, invoice, returning>>

(* _release_failed_stop: a delivery was refused before anything of the     *)
(* order left the godown.                                                  *)
ReleaseFailedStop(o) ==
    /\ order[o].held
    /\ \A c \in LiveChallans(challan, o) : challan[c].status # "COMPLETED"
    /\ \A i \in InvoicesForOrder(order, challan, invoice, o) : invoice[i].status # "COMPLETED"
    /\ balance' = Release(balance, Shop, StillHeld(order, challan, invoice, o))
    /\ order' = [order EXCEPT ![o].status = "DRAFT", ![o].held = FALSE]
    /\ UNCHANGED <<adjusted, challan, invoice, returning>>

-----------------------------------------------------------------------------
(* Delivery challans.  The reservation goes first, so that the goods it    *)
(* kept are available to the movement.                                     *)
CompleteChallan(c, post) ==
    LET x == challan[c]
        o == x.order
        released == Release(balance, Shop, Least(StillHeld(order, challan, invoice, o), x.qty))
        ch == [challan EXCEPT ![c].status = "COMPLETED", ![c].posted = post]
    IN
    /\ x.status = "DRAFT"
    /\ order[o].status # "CANCELLED"
    /\ post => Enough(released, Shop, x.qty)
    /\ balance' = IF post THEN Move(released, Shop, -x.qty) ELSE released
    /\ challan' = ch
    /\ order' = [order EXCEPT ![o] = Recomputed(order, ch, invoice, o, FALSE)]
    /\ UNCHANGED <<adjusted, invoice, returning>>

(* A challan with a return is protected from deletion.                     *)
DeleteChallan(c) ==
    LET o == challan[c].order
        ch == [challan EXCEPT ![c] = [NoChallan EXCEPT !.status = "DELETED"]]
    IN
    /\ challan[c].status = "DRAFT"
    /\ \A k \in Clerks : returning[k] # NoReturn => returning[k].challan # c
    /\ challan' = ch
    /\ order' = [order EXCEPT ![o] = Recomputed(order, ch, invoice, o, FALSE)]
    /\ UNCHANGED <<stock, invoice, returning>>

(* recompute_order_status works on the row read before the quantity was    *)
(* given back and saves the status only if it changes that.                *)
CancelDraftChallan(c) ==
    LET o == challan[c].order
        ch == [challan EXCEPT ![c].status = "CANCELLED"]
        given == Discarded(order, ch, invoice, o, NoBill)
        recomputed == Recomputed(order, ch, invoice, o, FALSE)
    IN
    /\ challan[c].status = "DRAFT"
    /\ challan' = ch
    /\ order' = [order EXCEPT ![o] = IF recomputed.status # order[o].status THEN recomputed
                                     ELSE [recomputed EXCEPT !.status = given.status]]
    /\ UNCHANGED <<stock, invoice, returning>>

(* Goods of order o back on the shelf, by b: hold them for it again.       *)
HoldAgain(b, o, q) ==
    IF order[o].held /\ order[o].status # "CANCELLED"
    THEN /\ Enough(b, Shop, q)
         /\ balance' = Reserve(b, Shop, q)
    ELSE balance' = b

Reopen(ch, o) ==
    order' = IF order[o].status = "CANCELLED" THEN order
             ELSE [order EXCEPT ![o].status = Reopened(order, ch, invoice, o)]

CancelChallan(c) ==
    LET x == challan[c]
        ch == [challan EXCEPT ![c].status = "CANCELLED", ![c].posted = FALSE]
    IN
    /\ x.status = "COMPLETED"
    /\ x.back = 0
    /\ x.bill # NoBill => invoice[x.bill].status # "COMPLETED"
    /\ HoldAgain(IF x.posted THEN Move(balance, Shop, x.qty) ELSE balance, x.order, x.qty)
    /\ challan' = ch
    /\ Reopen(ch, x.order)
    /\ UNCHANGED <<adjusted, invoice, returning>>

(* The bill carries what stayed with the customer.                         *)
ConvertDeliveryChallan(c, i) ==
    LET x == challan[c] IN
    /\ x.status = "COMPLETED"
    /\ x.bill = NoBill
    /\ x.qty > x.back
    /\ IsNext(invoice, i)
    /\ invoice' = [invoice EXCEPT ![i] = DraftInvoice(NoOrder, x.qty - x.back)]
    /\ challan' = [challan EXCEPT ![c].bill = i]
    /\ order' = [order EXCEPT ![x.order].bill = i]
    /\ UNCHANGED <<stock, returning>>

StartReturn_Unchecked(k, c, q) ==
    /\ returning[k] = NoReturn
    /\ challan[c].qty > 0
    /\ returning' = [returning EXCEPT ![k] = [challan |-> c, qty |-> q]]
    /\ UNCHANGED <<stock, order, challan, invoice>>

(* ChallanReturnService.complete: the quantity is checked against what has *)
(* come back so far, then the challan is locked.                           *)
StartReturn(k, c, q) ==
    /\ returning[k] = NoReturn
    /\ q <= challan[c].qty - challan[c].back
    /\ returning' = [returning EXCEPT ![k] = [challan |-> c, qty |-> q]]
    /\ UNCHANGED <<stock, order, challan, invoice>>

(* restore_challan_return_stock_and_cogs puts back no more than the        *)
(* challan's own movements took out.                                       *)
Returnable(x, q) ==
    /\ x.status = "COMPLETED"
    /\ x.bill = NoBill
    /\ x.posted => q <= x.qty - x.back

CompleteReturn(k) ==
    LET c == returning[k].challan
        q == returning[k].qty
        x == challan[c]
        ch == [challan EXCEPT ![c].back = @ + q]
    IN
    /\ returning[k] # NoReturn
    /\ Returnable(x, q)
    /\ HoldAgain(IF x.posted THEN Move(balance, Shop, q) ELSE balance, x.order, q)
    /\ challan' = ch
    /\ Reopen(ch, x.order)
    /\ returning' = [returning EXCEPT ![k] = NoReturn]
    /\ UNCHANGED <<adjusted, invoice>>

(* Refused: rolled back, the return stays a draft.                         *)
RefuseReturn(k) ==
    /\ returning[k] # NoReturn
    /\ LET x == challan[returning[k].challan]
           q == returning[k].qty
       IN \/ ~Returnable(x, q)
          \/ /\ order[x.order].held
             /\ ~Enough(IF x.posted THEN Move(balance, Shop, q) ELSE balance, Shop, q)
    /\ returning' = [returning EXCEPT ![k] = NoReturn]
    /\ UNCHANGED <<stock, order, challan, invoice>>

-----------------------------------------------------------------------------
(* Invoices.                                                               *)

(* assert_converted_challan_lot_identity.                                  *)
MatchesChallans(i) ==
    LinkedTo(challan, i) # {} =>
        invoice[i].qty = Sum([c \in Challans |-> IF challan[c].bill = i THEN challan[c].qty ELSE 0])

StockFromChallan(i) == \E c \in LinkedTo(challan, i) : challan[c].posted

OrdersOf(i) ==
    {o \in Orders : \/ invoice[i].source = o
                    \/ order[o].bill = i
                    \/ \E c \in LinkedTo(challan, i) : challan[c].order = o}

CompleteInvoice_ReleasesAgain(i) ==
    LET x == invoice[i]
        issues == ~StockFromChallan(i)
        inv == [invoice EXCEPT ![i].status = "COMPLETED", ![i].issued = issues]
        touched == OrdersOf(i)
        o == CHOOSE p \in touched : TRUE
        released == IF touched # {}
                    THEN Release(balance, Shop, Least(StillHeld(order, challan, invoice, o), x.qty))
                    ELSE balance
    IN
    /\ x.status = "DRAFT"
    /\ MatchesChallans(i)
    /\ issues => Enough(balance, Shop, x.qty)
    /\ balance' = IF issues THEN Move(released, Shop, -x.qty) ELSE released
    /\ invoice' = inv
    /\ order' = [p \in Orders |-> IF p \in touched
                                  THEN Recomputed(order, challan, inv, p, FALSE) ELSE order[p]]
    /\ UNCHANGED <<adjusted, challan, returning>>

(* A bill made from a challan releases nothing: the challan did.  The      *)
(* first stock check precedes the release.                                 *)
CompleteInvoice(i) ==
    LET x == invoice[i]
        o == x.source
        issues == ~StockFromChallan(i)
        inv == [invoice EXCEPT ![i].status = "COMPLETED", ![i].issued = issues]
        released == IF LinkedTo(challan, i) = {} /\ o # NoOrder
                    THEN Release(balance, Shop, Least(StillHeld(order, challan, invoice, o), x.qty))
                    ELSE balance
    IN
    /\ x.status = "DRAFT"
    /\ MatchesChallans(i)
    /\ issues => Enough(balance, Shop, x.qty) /\ Enough(released, Shop, x.qty)
    /\ balance' = IF issues THEN Move(released, Shop, -x.qty) ELSE released
    /\ invoice' = inv
    /\ order' = [p \in Orders |-> IF p \in OrdersOf(i)
                                  THEN Recomputed(order, challan, inv, p, FALSE) ELSE order[p]]
    /\ UNCHANGED <<adjusted, challan, returning>>

(* The links to a deleted row are set to null.                             *)
DeleteInvoice(i) ==
    LET o == invoice[i].source
        inv == [invoice EXCEPT ![i] = [NoInvoice EXCEPT !.status = "DELETED"]]
        ch == [c \in Challans |-> IF challan[c].bill = i THEN [challan[c] EXCEPT !.bill = NoBill]
                                  ELSE challan[c]]
        unlinked == [p \in Orders |-> IF order[p].bill = i THEN [order[p] EXCEPT !.bill = NoBill]
                                      ELSE order[p]]
        given == [unlinked EXCEPT ![o] = Discarded(order, ch, inv, o, i)]
    IN
    /\ invoice[i].status = "DRAFT"
    /\ invoice' = inv
    /\ challan' = ch
    /\ order' = IF o = NoOrder THEN unlinked
                ELSE [given EXCEPT ![o] = Recomputed(given, ch, inv, o, FALSE)]
    /\ UNCHANGED <<stock, returning>>

OrderAfterCancel_StaysClosed(ch, inv, i, o) ==
    IF invoice[i].source = o \/ order[o].bill = i
    THEN Recomputed(order, ch, inv, o, FALSE)
    ELSE order[o]

(* _reopen_order_after_invoice_cancel finds the order by source_order or,  *)
(* if it is CONVERTED, by the pointer that was not cleared before.         *)
OrderAfterCancel(ch, inv, i, o) ==
    LET r == order[o]
        cleared == IF r.bill = i /\ r.status # "CONVERTED" THEN [r EXCEPT !.bill = NoBill] ELSE r
        recomputed == Recomputed([order EXCEPT ![o] = cleared], ch, inv, o, TRUE)
    IN IF invoice[i].source = o \/ cleared.bill = i
       THEN [recomputed EXCEPT !.bill = IF @ = i THEN NoBill ELSE @]
       ELSE cleared

(* The goods come back by the invoice's own movements, or else by those of *)
(* its challans, which then count as not posted and can be billed again.   *)
CancelInvoice(i) ==
    LET x == invoice[i]
        o == x.source
        done == x.status = "COMPLETED"
        undone == IF done /\ ~x.issued THEN {c \in LinkedTo(challan, i) : challan[c].posted} ELSE {}
        goods == IF done /\ x.issued THEN x.qty
                 ELSE Sum([c \in Challans |-> IF c \in undone THEN challan[c].qty ELSE 0])
        restored == Move(balance, Shop, goods)
        ch == [c \in Challans |-> IF c \in undone
                                  THEN [challan[c] EXCEPT !.posted = FALSE, !.bill = NoBill]
                                  ELSE challan[c]]
        inv == [invoice EXCEPT ![i].status = "CANCELLED"]
    IN
    /\ x.status \in Live
    /\ IF done /\ o # NoOrder THEN HoldAgain(restored, o, x.qty) ELSE balance' = restored
    /\ challan' = ch
    /\ invoice' = inv
    /\ order' = [p \in Orders |-> OrderAfterCancel(ch, inv, i, p)]
    /\ UNCHANGED <<adjusted, returning>>

-----------------------------------------------------------------------------
(* rebuild_balance: the hold is computed again from the orders.            *)
RebuildBalance ==
    LET held == Sum([o \in Orders |-> StillHeld(order, challan, invoice, o)])
    IN /\ balance' = [balance EXCEPT ![Shop].reserved = Least(held, AtLeastZero(balance[Shop].onHand))]
       /\ UNCHANGED <<adjusted, documents>>

OrderNext ==
    \/ \E o \in Orders :
          \/ ConfirmSalesOrder(o)
          \/ CancelSalesOrder(o)
          \/ ReleaseFailedStop(o)
          \/ \E i \in Invoices, q \in 1 .. MaxQty : ConvertSalesOrder(o, i, q)
          \/ \E c \in Challans, q \in 1 .. MaxQty : ConvertSalesOrderToChallan(o, c, q)
    \/ \E c \in Challans :
          \/ \E post \in StockOnChallan : CompleteChallan(c, post)
          \/ DeleteChallan(c)
          \/ CancelDraftChallan(c)
          \/ CancelChallan(c)
          \/ \E i \in Invoices : ConvertDeliveryChallan(c, i)
          \/ \E k \in Clerks, q \in 1 .. MaxQty : StartReturn(k, c, q)
    \/ \E k \in Clerks : CompleteReturn(k) \/ RefuseReturn(k)
    \/ \E i \in Invoices :
          \/ CompleteInvoice(i)
          \/ DeleteInvoice(i)
          \/ CancelInvoice(i)
    \/ RebuildBalance

-----------------------------------------------------------------------------
(* What the documents took out of the godown, for an order and in all.  A  *)
(* bill whose challan was cancelled before it was completed belongs to no  *)
(* order any more.                                                         *)
OutOnChallan(c) == IF challan[c].posted THEN challan[c].qty - challan[c].back ELSE 0

OutOnInvoice(i) == IF invoice[i].status = "COMPLETED" /\ invoice[i].issued THEN invoice[i].qty ELSE 0

BelongsTo(i, o) ==
    \/ invoice[i].source = o
    \/ \E c \in LinkedTo(challan, i) : challan[c].order = o /\ challan[c].status # "CANCELLED"

Delivered(o) ==
    Sum([c \in Challans |-> IF challan[c].order = o THEN OutOnChallan(c) ELSE 0])
        + Sum([i \in Invoices |-> IF BelongsTo(i, o) THEN OutOnInvoice(i) ELSE 0])

Sold(w) ==
    IF w = Shop THEN Sum([c \in Challans |-> OutOnChallan(c)]) + Sum([i \in Invoices |-> OutOnInvoice(i)])
    ELSE 0

=============================================================================
