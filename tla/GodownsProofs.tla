--------------------------- MODULE GodownsProofs ----------------------------
(***************************************************************************)
(* Proofs about Godowns, for any orders, challans, invoices, transfers and *)
(* godowns, any quantities and either policy.  First the stock: the rows   *)
(* are well typed, every unit is accounted for by a document, and under    *)
(* BLOCK no godown is oversold.  Then the orders, with three more          *)
(* inductive invariants, each on top of the ones before: their documents   *)
(* point to each other consistently and claim no more than was ordered     *)
(* (DocumentsInv), a hold is what the documents leave of it (HoldsOK), and *)
(* the status follows the documents (OrdersOK).                            *)
(***************************************************************************)
EXTENDS Godowns, SumsProofs, WellFoundedInduction, TLAPS

Balances == [Godowns -> [onHand : Int, reserved : Nat]]

(* Challan rows: a draft has no returns, only a completed challan has      *)
(* stock posted, and a bill made from it carries what stayed; once the     *)
(* bill is completed that was everything.                                  *)
ChallanOK(x, inv) ==
    /\ x.back <= x.qty
    /\ x.status \in {"NONE", "DRAFT"} => x.back = 0
    /\ x.status = "NONE" => x.qty = 0
    /\ x.status \in Live => x.order \in Orders
    /\ x.posted => x.status = "COMPLETED"
    /\ x.bill # NoBill =>
          /\ inv[x.bill].status # "NONE"
          /\ inv[x.bill].qty = x.qty - x.back
          /\ inv[x.bill].status = "COMPLETED" => x.back = 0

ChallansOK == \A c \in Challans : ChallanOK(challan[c], invoice)

(* A return that passed the check still fits when it is completed.         *)
ReturnsFit ==
    \A k \in Clerks :
        returning[k] # NoReturn =>
            returning[k].qty <= challan[returning[k].challan].qty - challan[returning[k].challan].back

(* Transfer rows run between two godowns of the company and their          *)
(* quantities add up.                                                      *)
TransfersOK ==
    \A t \in Transfers :
        LET x == transfer[t] IN
        /\ x.status # "NONE" => x.from # x.to /\ x.from # Transit /\ x.to # Transit
        /\ x.status \in {"NONE", "DRAFT", "DISPATCHED"} =>
              x.settled = "open" /\ x.short = 0 /\ x.received = 0
        /\ x.status = "COMPLETED" => x.received + x.short = x.qty

(* Nobody reserves anything outside the shop or counts what is in transit. *)
TransitOK ==
    /\ adjusted[Transit] = 0
    /\ \A w \in Godowns \ {Shop} : balance[w].reserved = 0

RowsOK == ChallansOK /\ ReturnsFit /\ TransfersOK

IInv ==
    /\ StockTypeOK
    /\ RowsOK
    /\ TransitOK
    /\ GoodsAccountedFor
    /\ NeverOversold

-----------------------------------------------------------------------------
(* Sums.                                                                   *)

(* Quantities add up: nothing to nothing, a changed line changes the sum   *)
(* by as much, and differences add up to the difference.                   *)
LEMMA OrderSumFacts ==
    \A D \in {Orders, Challans, Invoices} :
        /\ Sum([d \in D |-> 0]) = 0
        /\ \A f \in [D -> Quantity] :
              /\ Sum(f) \in Nat
              /\ \A d \in D, v \in Quantity : Sum([f EXCEPT ![d] = v]) = Sum(f) - f[d] + v
              /\ \A g \in [D -> Quantity] :
                    (\A d \in D : g[d] <= f[d]) => Sum([d \in D |-> f[d] - g[d]]) = Sum(f) - Sum(g)
<1>1. ASSUME NEW D \in {Orders, Challans, Invoices} PROVE IsFiniteSet(D)
    <2>1. IsFiniteSet(Challans) /\ IsFiniteSet(Invoices)
        BY OrderAssumption, FiniteInterval DEF Challans, Invoices
    <2> QED
        BY <2>1, OrderAssumption
<1>2. ASSUME NEW D \in {Orders, Challans, Invoices}, NEW f \in [D -> Quantity]
      PROVE  /\ f \in [D -> Int] /\ \A d \in D : f[d] >= 0
    BY StockAssumption DEF Quantity
<1>3. ASSUME NEW D \in {Orders, Challans, Invoices}, NEW f \in [D -> Quantity]
      PROVE  Sum(f) \in Nat
    <2>1. Sum(f) \in Int /\ Sum(f) >= 0
        BY <1>1, <1>2, SumIsInteger
    <2> QED
        BY <2>1
<1>4. ASSUME NEW D \in {Orders, Challans, Invoices}, NEW f \in [D -> Quantity],
             NEW d \in D, NEW v \in Quantity
      PROVE  Sum([f EXCEPT ![d] = v]) = Sum(f) - f[d] + v
    <2>1. v \in Int
        BY StockAssumption DEF Quantity
    <2> QED
        BY <1>1, <1>2, <2>1, SumChanges
<1>5. ASSUME NEW D \in {Orders, Challans, Invoices}, NEW f \in [D -> Quantity], NEW g \in [D -> Quantity]
      PROVE  Sum([d \in D |-> f[d] - g[d]]) = Sum(f) - Sum(g)
    BY <1>1, <1>2, SumSplits
<1>6. \A D \in {Orders, Challans, Invoices} : Sum([d \in D |-> 0]) = 0
    BY <1>1, SumIsZero
<1> QED
    BY <1>3, <1>4, <1>5, <1>6

(* The same for what transfers carry, which may be negative.               *)
LEMMA TransferSumFacts ==
    /\ Sum([t \in Transfers |-> 0]) = 0
    /\ \A f \in [Transfers -> -MaxQty .. MaxQty] :
          /\ Sum(f) \in Int
          /\ (\A t \in Transfers : f[t] >= 0) => Sum(f) >= 0
          /\ \A t \in Transfers, v \in -MaxQty .. MaxQty :
                Sum([f EXCEPT ![t] = v]) = Sum(f) - f[t] + v
<1>1. IsFiniteSet(Transfers)
    BY TransferAssumption
<1>2. ASSUME NEW f \in [Transfers -> -MaxQty .. MaxQty]
      PROVE  /\ Sum(f) \in Int
             /\ (\A t \in Transfers : f[t] >= 0) => Sum(f) >= 0
             /\ \A t \in Transfers, v \in -MaxQty .. MaxQty :
                   Sum([f EXCEPT ![t] = v]) = Sum(f) - f[t] + v
    <2>1. f \in [Transfers -> Int] /\ \A v \in -MaxQty .. MaxQty : v \in Int
        BY StockAssumption
    <2>2. /\ Sum(f) \in Int
          /\ (\A t \in Transfers : f[t] >= 0) => Sum(f) >= 0
        BY <1>1, <2>1, SumIsInteger
    <2>3. ASSUME NEW t \in Transfers, NEW v \in -MaxQty .. MaxQty
          PROVE  Sum([f EXCEPT ![t] = v]) = Sum(f) - f[t] + v
        BY <1>1, <2>1, SumChanges
    <2> QED
        BY <2>2, <2>3
<1> QED
    BY <1>1, <1>2, SumIsZero

(* Two functions that differ at one document have sums that differ by as   *)
(* much.                                                                   *)
LEMMA SumUpdate ==
    ASSUME NEW D \in {Orders, Challans, Invoices},
           NEW f \in [D -> Quantity], NEW g \in [D -> Quantity],
           NEW d \in D, \A e \in D : e # d => g[e] = f[e]
    PROVE  Sum(g) = Sum(f) - f[d] + g[d]
<1>1. g = [f EXCEPT ![d] = g[d]]
    OBVIOUS
<1>2. g[d] \in Quantity
    OBVIOUS
<1>3. Sum([f EXCEPT ![d] = g[d]]) = Sum(f) - f[d] + g[d]
    BY <1>2, OrderSumFacts
<1> QED
    BY <1>1, <1>3

(* Quantities are natural numbers, and so are their sums.                  *)
LEMMA SumNat ==
    ASSUME NEW D \in {Orders, Challans, Invoices}, NEW f \in [D -> Quantity]
    PROVE  Sum(f) \in Nat
BY OrderSumFacts

(* A sum of quantities is at least each of them.                           *)
LEMMA SumAtLeast ==
    ASSUME NEW D \in {Orders, Challans, Invoices}, NEW f \in [D -> Quantity], NEW d \in D
    PROVE  f[d] <= Sum(f)
<1> DEFINE g == [f EXCEPT ![d] = 0]
<1>0. MaxQty \in Nat
    BY StockAssumption
<1>1. g \in [D -> Quantity] /\ 0 \in Quantity /\ f[d] \in Nat
    BY <1>0 DEF Quantity
<1>2. Sum(g) = Sum(f) - f[d] + 0
    <2>1. 0 \in Quantity
        BY <1>1
    <2> QED
        BY <2>1, OrderSumFacts
<1>3. Sum(g) \in Nat /\ Sum(f) \in Nat
    BY <1>1, SumNat
<1> QED
    BY <1>1, <1>2, <1>3

(* The same for transfers, where quantities may be negative.               *)
LEMMA TransferSumUpdate ==
    ASSUME NEW f \in [Transfers -> -MaxQty .. MaxQty], NEW g \in [Transfers -> -MaxQty .. MaxQty],
           NEW t \in Transfers, \A e \in Transfers : e # t => g[e] = f[e]
    PROVE  Sum(g) = Sum(f) - f[t] + g[t]
<1>1. g = [f EXCEPT ![t] = g[t]]
    OBVIOUS
<1>2. g[t] \in -MaxQty .. MaxQty
    OBVIOUS
<1>3. Sum([f EXCEPT ![t] = g[t]]) = Sum(f) - f[t] + g[t]
    BY <1>2, TransferSumFacts
<1> QED
    BY <1>1, <1>3

(* A non-negative sum is at least each of its terms.                       *)
LEMMA TransferSumAtLeast ==
    ASSUME NEW f \in [Transfers -> -MaxQty .. MaxQty], \A e \in Transfers : f[e] >= 0,
           NEW t \in Transfers
    PROVE  f[t] <= Sum(f)
<1> DEFINE g == [f EXCEPT ![t] = 0]
<1>0. MaxQty \in Nat
    BY StockAssumption
<1>1. g \in [Transfers -> -MaxQty .. MaxQty] /\ f[t] \in Int /\ Sum(f) \in Int
    BY <1>0, TransferSumFacts
<1>2. \A e \in Transfers : g[e] >= 0
    BY <1>0
<1>3. Sum(g) >= 0 /\ Sum(g) \in Int
    BY <1>1, <1>2, TransferSumFacts
<1>4. Sum(g) = Sum(f) - f[t] + 0
    <2>1. 0 \in -MaxQty .. MaxQty
        BY <1>0
    <2> QED
        BY <2>1, TransferSumFacts
<1> QED
    BY <1>1, <1>3, <1>4

-----------------------------------------------------------------------------
(* Balances.                                                               *)

(* A movement changes what is on hand in one godown.                       *)
LEMMA MoveEffect ==
    ASSUME NEW b \in Balances, NEW w \in Godowns, NEW delta \in Int
    PROVE  /\ Move(b, w, delta) \in Balances
           /\ Move(b, w, delta)[w].onHand = b[w].onHand + delta
           /\ \A v \in Godowns : /\ v # w => Move(b, w, delta)[v].onHand = b[v].onHand
                                 /\ Move(b, w, delta)[v].reserved = b[v].reserved
BY DEF Move, Balances

(* A reservation changes what is reserved in one godown.                   *)
LEMMA ReserveEffect ==
    ASSUME NEW b \in Balances, NEW w \in Godowns, NEW q \in Nat
    PROVE  /\ Reserve(b, w, q) \in Balances
           /\ Reserve(b, w, q)[w].reserved = b[w].reserved + q
           /\ \A v \in Godowns : /\ v # w => Reserve(b, w, q)[v].reserved = b[v].reserved
                                 /\ Reserve(b, w, q)[v].onHand = b[v].onHand
BY DEF Reserve, Balances

(* A release never leaves a negative reservation and reserves nothing.     *)
LEMMA ReleaseEffect ==
    ASSUME NEW b \in Balances, NEW w \in Godowns, NEW q \in Nat
    PROVE  /\ Release(b, w, q) \in Balances
           /\ Release(b, w, q)[w].reserved <= b[w].reserved
           /\ \A v \in Godowns : /\ v # w => Release(b, w, q)[v].reserved = b[v].reserved
                                 /\ Release(b, w, q)[v].onHand = b[v].onHand
BY DEF Release, Balances, AtLeastZero

-----------------------------------------------------------------------------
(* What the documents of an order add up to.                               *)

(* Sums over challans and invoices are natural numbers.                    *)
LEMMA DocumentSums ==
    ASSUME NEW ch \in [Challans -> Challan], NEW inv \in [Invoices -> Invoice],
           NEW o, NEW states
    PROVE  /\ OnChallans(ch, o, states) \in Nat
           /\ CameBack(ch, o) \in Nat
           /\ OnInvoices(inv, o, states) \in Nat
<1>0. MaxQty \in Nat
    BY StockAssumption
<1>1. [c \in Challans |-> IF ch[c].order = o /\ ch[c].status \in states THEN ch[c].qty ELSE 0]
        \in [Challans -> Quantity]
    BY <1>0 DEF Challan, Quantity
<1>2. [c \in Challans |-> IF ch[c].order = o THEN ch[c].back ELSE 0] \in [Challans -> Quantity]
    BY <1>0 DEF Challan, Quantity
<1>3. [i \in Invoices |-> IF inv[i].source = o /\ inv[i].status \in states THEN inv[i].qty ELSE 0]
        \in [Invoices -> Quantity]
    BY <1>0 DEF Invoice, Quantity
<1> QED
    BY <1>1, <1>2, <1>3, SumNat DEF OnChallans, CameBack, OnInvoices

(* What an order still holds is a quantity.                                *)
LEMMA HeldType ==
    ASSUME NEW od, NEW ch \in [Challans -> Challan], NEW inv \in [Invoices -> Invoice],
           NEW o \in Orders
    PROVE  StillHeld(od, ch, inv, o) \in Quantity
<1>1. MaxQty \in Nat /\ Ordered[o] \in 1 .. MaxQty
    BY StockAssumption, OrderAssumption
<1>2. /\ OnChallans(ch, o, {"COMPLETED"}) \in Nat
      /\ CameBack(ch, o) \in Nat
      /\ OnInvoices(inv, o, {"COMPLETED"}) \in Nat
    BY DocumentSums
<1>3. Shipped(ch, o) \in Nat
    BY <1>2 DEF Shipped, AtLeastZero
<1> QED
    BY <1>1, <1>2, <1>3 DEF StillHeld, AtLeastZero, Quantity

(* A set of invoices has a latest one.                                     *)
LEMMA Latest ==
    ASSUME NEW S \in SUBSET Invoices, S # {}
    PROVE  \E i \in S : \A j \in S : j <= i
<1> DEFINE T == {n \in Nat : MaxInvoices - n \in S}
           R == OpToRel(<, Nat)
<1>0. MaxInvoices \in Nat
    BY OrderAssumption
<1>1. \A j \in S : j \in Nat /\ MaxInvoices - j \in T /\ MaxInvoices - (MaxInvoices - j) = j
    BY <1>0 DEF Invoices
<1>2. T # {} /\ T \subseteq Nat
    BY <1>1
<1>3. \E x \in T : \A y \in T : ~(<<y, x>> \in R)
    <2> HIDE DEF T, R
    <2>1. IsWellFoundedOn(R, Nat)
        BY NatLessThanWellFounded DEF R
    <2> QED
        BY <1>2, <2>1, WFMin
<1>4. PICK x \in T : \A y \in T : ~(<<y, x>> \in R)
    BY <1>3
<1>5. \A j \in S : ~(MaxInvoices - j < x)
    BY <1>1, <1>4 DEF OpToRel
<1>6. MaxInvoices - x \in S /\ x \in Nat
    OBVIOUS
<1>7. \A j \in S : j <= MaxInvoices - x
    BY <1>0, <1>1, <1>5, <1>6
<1> QED
    BY <1>6, <1>7

(* recompute_order_status leaves a well-formed order.                      *)
LEMMA RecomputedType ==
    ASSUME NEW od \in [Orders -> Order], NEW ch, NEW inv, NEW o \in Orders, NEW reopen
    PROVE  Recomputed(od, ch, inv, o, reopen) \in Order
<1> DEFINE r == od[o]
           bills == InvoicesForOrder(od, ch, inv, o)
           latest == CHOOSE i \in bills : \A j \in bills : j <= i
<1>1. bills # {} => latest \in Invoices
    <2>1. bills \in SUBSET Invoices
        BY DEF InvoicesForOrder
    <2> HIDE DEF bills
    <2> QED
        BY <2>1, Latest
<1>2. r \in Order /\ r.status \in OrderStatus
    BY DEF Order
<1>a. TargetStatus(od, ch, inv, o, reopen) \in OrderStatus
    BY <1>2 DEF TargetStatus, Unprocessed, OrderStatus
<1>3. CASE r.status = "CANCELLED"
    BY <1>2, <1>3 DEF Recomputed
<1>4. CASE r.status # "CANCELLED"
    <2> DEFINE s == TargetStatus(od, ch, inv, o, reopen)
               b == IF bills # {} /\ r.bill \notin bills THEN latest ELSE r.bill
    <2>1. Recomputed(od, ch, inv, o, reopen) = [r EXCEPT !.status = s, !.bill = b]
        BY <1>4 DEF Recomputed
    <2>2. b \in Invoices \cup {NoBill}
        <3> HIDE DEF bills, latest
        <3> QED
            BY <1>1, <1>2 DEF Order
    <2> HIDE DEF s, b
    <2>3. s \in OrderStatus
        BY <1>a DEF s
    <2> QED
        BY <1>2, <2>1, <2>2, <2>3 DEF Order
<1> QED
    BY <1>3, <1>4

(* So does release_order_conversion.                                       *)
LEMMA DiscardedType ==
    ASSUME NEW od \in [Orders -> Order], NEW ch, NEW inv, NEW o \in Orders, NEW i
    PROVE  Discarded(od, ch, inv, o, i) \in Order
<1> DEFINE r == od[o]
           b == IF r.bill = i THEN NoBill ELSE r.bill
           s == IF r.status = "PARTIALLY_CONVERTED" /\ Taken(ch, inv, o) = 0
                THEN Unprocessed(r) ELSE r.status
<1>1. r \in Order
    OBVIOUS
<1>2. b \in Invoices \cup {NoBill} /\ s \in OrderStatus
    BY <1>1 DEF Order, Unprocessed, OrderStatus
<1>3. Discarded(od, ch, inv, o, i) = [r EXCEPT !.bill = b, !.status = s]
    BY DEF Discarded
<1> HIDE DEF r, b, s
<1> QED
    BY <1>1, <1>2, <1>3 DEF Order

-----------------------------------------------------------------------------
(* What transfers carried.                                                 *)

(* The movements of one transfer in a godown stay within its quantity; in  *)
(* transit they are never negative.                                        *)
LEMMA CarriedType ==
    ASSUME NEW x \in Transfer, x.status = "COMPLETED" => x.received + x.short = x.qty,
           NEW w \in Godowns
    PROVE  /\ Carried(x, w) \in -MaxQty .. MaxQty
           /\ Carried(x, Transit) >= 0
<1>0. /\ MaxQty \in Nat /\ x.qty \in 0 .. MaxQty /\ x.short \in 0 .. MaxQty
      /\ x.received \in 0 .. MaxQty
    BY StockAssumption DEF Transfer
<1>1. /\ OnTheRoad(x) \in 0 .. MaxQty
      /\ AtSource(x) \in -MaxQty .. MaxQty
      /\ AtDestination(x) \in -MaxQty .. MaxQty
    BY <1>0 DEF OnTheRoad, AtSource, AtDestination, OpenShortage
<1> QED
    BY <1>0, <1>1 DEF Carried

(* What transfers carried is an integer, and what is in transit covers     *)
(* each transfer under way.                                                *)
LEMMA TransferTotals ==
    ASSUME transfer \in [Transfers -> Transfer], TransfersOK
    PROVE  /\ \A w \in Godowns : Transferred(w) \in Int
           /\ \A t \in Transfers : OnTheRoad(transfer[t]) <= Transferred(Transit)
<1>0. Transit \in Godowns
    BY StockAssumption
<1>1. \A w \in Godowns :
        [t \in Transfers |-> Carried(transfer[t], w)] \in [Transfers -> -MaxQty .. MaxQty]
    BY CarriedType DEF TransfersOK
<1>2. \A t \in Transfers : Carried(transfer[t], Transit) >= 0
    BY <1>0, CarriedType DEF TransfersOK
<1>3. ASSUME NEW t \in Transfers
      PROVE  OnTheRoad(transfer[t]) <= Transferred(Transit)
    <2> DEFINE f == [u \in Transfers |-> Carried(transfer[u], Transit)]
    <2>1. f \in [Transfers -> -MaxQty .. MaxQty] /\ \A u \in Transfers : f[u] >= 0
        BY <1>0, <1>1, <1>2
    <2>2. f[t] = OnTheRoad(transfer[t])
        BY DEF Carried
    <2> HIDE DEF f
    <2>3. f[t] <= Sum(f)
        BY <2>1, TransferSumAtLeast
    <2> QED
        BY <2>2, <2>3 DEF f, Transferred
<1> QED
    BY <1>1, <1>3, TransferSumFacts DEF Transferred

-----------------------------------------------------------------------------
(* What is out of the shop, as a function of the rows.                     *)
OutOf(x) == IF x.posted THEN x.qty - x.back ELSE 0
IssuedBy(x) == IF x.status = "COMPLETED" /\ x.issued THEN x.qty ELSE 0
OutOnChallans(ch) == Sum([c \in Challans |-> OutOf(ch[c])])
OutOnBills(inv) == Sum([i \in Invoices |-> IssuedBy(inv[i])])
Out(ch, inv) == OutOnChallans(ch) + OutOnBills(inv)

Fits(ch) == \A c \in Challans : ch[c].back <= ch[c].qty

(* What was sold is what is out by challans and by bills.                  *)
LEMMA SoldIsOut ==
    /\ Sold(Shop) = Out(challan, invoice)
    /\ \A w \in Godowns \ {Shop} : Sold(w) = 0
BY DEF Sold, Out, OutOnChallans, OutOnBills, OutOnChallan, OutOnInvoice, OutOf, IssuedBy

(* What each document took out is a quantity.                              *)
LEMMA OutTypes ==
    ASSUME NEW ch \in [Challans -> Challan], Fits(ch), NEW inv \in [Invoices -> Invoice]
    PROVE  /\ [c \in Challans |-> OutOf(ch[c])] \in [Challans -> Quantity]
           /\ [i \in Invoices |-> IssuedBy(inv[i])] \in [Invoices -> Quantity]
           /\ OutOnChallans(ch) \in Nat
           /\ OutOnBills(inv) \in Nat
<1>0. MaxQty \in Nat
    BY StockAssumption
<1>1. [c \in Challans |-> OutOf(ch[c])] \in [Challans -> Quantity]
    BY <1>0 DEF OutOf, Challan, Quantity, Fits
<1>2. [i \in Invoices |-> IssuedBy(inv[i])] \in [Invoices -> Quantity]
    BY <1>0 DEF IssuedBy, Invoice, Quantity
<1> QED
    BY <1>1, <1>2, SumNat DEF OutOnChallans, OutOnBills

(* A step on one challan changes what is out by what it changes there.     *)
LEMMA ChallanOutStep ==
    ASSUME NEW ch \in [Challans -> Challan], NEW new \in [Challans -> Challan],
           Fits(ch), Fits(new), NEW c \in Challans, \A d \in Challans : d # c => new[d] = ch[d]
    PROVE  OutOnChallans(new) = OutOnChallans(ch) - OutOf(ch[c]) + OutOf(new[c])
<1> DEFINE f == [d \in Challans |-> OutOf(ch[d])]
           g == [d \in Challans |-> OutOf(new[d])]
<1>1. f \in [Challans -> Quantity] /\ g \in [Challans -> Quantity]
    <2>1. NoInvoice \in Invoice
        BY StockAssumption DEF NoInvoice, Invoice, DocStatus, Quantity
    <2>2. [i \in Invoices |-> NoInvoice] \in [Invoices -> Invoice]
        BY <2>1
    <2> QED
        BY <2>2, OutTypes
<1>2. \A d \in Challans : d # c => g[d] = f[d]
    OBVIOUS
<1>3. f[c] = OutOf(ch[c]) /\ g[c] = OutOf(new[c])
    OBVIOUS
<1> HIDE DEF f, g
<1>4. Sum(g) = Sum(f) - f[c] + g[c]
    BY <1>1, <1>2, SumUpdate
<1> QED
    BY <1>3, <1>4 DEF f, g, OutOnChallans

(* The same for one invoice.                                               *)
LEMMA BillOutStep ==
    ASSUME NEW inv \in [Invoices -> Invoice], NEW new \in [Invoices -> Invoice],
           NEW i \in Invoices, \A j \in Invoices : j # i => new[j] = inv[j]
    PROVE  OutOnBills(new) = OutOnBills(inv) - IssuedBy(inv[i]) + IssuedBy(new[i])
<1> DEFINE f == [j \in Invoices |-> IssuedBy(inv[j])]
           g == [j \in Invoices |-> IssuedBy(new[j])]
<1>0. MaxQty \in Nat
    BY StockAssumption
<1>1. f \in [Invoices -> Quantity] /\ g \in [Invoices -> Quantity]
    BY <1>0 DEF IssuedBy, Invoice, Quantity
<1>2. \A j \in Invoices : j # i => g[j] = f[j]
    OBVIOUS
<1>3. f[i] = IssuedBy(inv[i]) /\ g[i] = IssuedBy(new[i])
    OBVIOUS
<1> HIDE DEF f, g
<1>4. Sum(g) = Sum(f) - f[i] + g[i]
    BY <1>1, <1>2, SumUpdate
<1> QED
    BY <1>3, <1>4 DEF f, g, OutOnBills

(* A handler of orders that keeps the rows in order, takes as much from    *)
(* the shop as its documents say and reserves no more than is there keeps  *)
(* the invariant.                                                          *)
LEMMA OrderStep ==
    ASSUME IInv, StockTypeOK', ChallansOK', ReturnsFit', UNCHANGED <<adjusted, transfer>>,
           NEW q \in Int, Out(challan', invoice') = Out(challan, invoice) + q,
           balance'[Shop].onHand = balance[Shop].onHand - q,
           \A w \in Godowns \ {Shop} : balance'[w] = balance[w],
           Policy = "BLOCK" => balance'[Shop].reserved <= balance'[Shop].onHand
    PROVE  IInv'
<1>0. Shop \in Godowns /\ Shop # Transit /\ Transit \in Godowns
    BY StockAssumption, OrderAssumption
<1>1. TransfersOK'
    BY DEF IInv, RowsOK, TransfersOK
<1>2. TransitOK'
    BY <1>0 DEF IInv, TransitOK
<1>3. \A w \in Godowns : Transferred(w)' = Transferred(w)
    BY DEF Transferred, Carried
<1>4. Out(challan, invoice) \in Int
    <2>1. StockTypeOK /\ ChallansOK
        BY DEF IInv, RowsOK
    <2>2. challan \in [Challans -> Challan] /\ Fits(challan) /\ invoice \in [Invoices -> Invoice]
        BY <2>1 DEF StockTypeOK, ChallansOK, ChallanOK, Fits
    <2> QED
        BY <2>2, OutTypes DEF Out
<1>5. /\ Sold(Shop)' = Sold(Shop) + q /\ Sold(Shop) \in Int
      /\ \A w \in Godowns \ {Shop} : Sold(w)' = 0 /\ Sold(w) = 0
    <2>1. Sold(Shop)' = Out(challan', invoice') /\ \A w \in Godowns \ {Shop} : Sold(w)' = 0
        BY SoldIsOut DEF Sold, Out, OutOnChallans, OutOnBills, OutOnChallan, OutOnInvoice, OutOf,
                         IssuedBy
    <2> QED
        BY <1>4, <2>1, SoldIsOut
<1>6. \A w \in Godowns : Transferred(w) \in Int /\ adjusted[w] \in Int
    BY TransferTotals DEF IInv, RowsOK, StockTypeOK
<1>7. GoodsAccountedFor'
    <2> SUFFICES ASSUME NEW w \in Godowns
                 PROVE  balance'[w].onHand = adjusted'[w] - Sold(w)' + Transferred(w)'
        BY DEF GoodsAccountedFor
    <2>1. balance[w].onHand = adjusted[w] - Sold(w) + Transferred(w)
        BY DEF IInv, GoodsAccountedFor
    <2>2. CASE w = Shop
        BY <1>3, <1>5, <1>6, <2>1, <2>2
    <2>3. CASE w # Shop
        BY <1>3, <1>5, <2>1, <2>3
    <2> QED
        BY <2>2, <2>3
<1>8. NeverOversold'
    BY <1>0 DEF IInv, NeverOversold
<1> QED
    BY <1>1, <1>2, <1>7, <1>8 DEF IInv, RowsOK

-----------------------------------------------------------------------------
(* Steps.                                                                  *)

(* The types of the rows, and of the constants a step uses.                *)
LEMMA Types ==
    ASSUME IInv
    PROVE  /\ balance \in Balances
           /\ order \in [Orders -> Order]
           /\ challan \in [Challans -> Challan]
           /\ invoice \in [Invoices -> Invoice]
           /\ returning \in [Clerks -> Return \cup {NoReturn}]
           /\ transfer \in [Transfers -> Transfer]
           /\ Shop \in Godowns /\ Transit \in Godowns /\ Shop # Transit
           /\ MaxQty \in Nat
           /\ Fits(challan)
           /\ ChallansOK
           /\ ReturnsFit
BY StockAssumption, OrderAssumption DEF IInv, StockTypeOK, Balances, RowsOK, ChallansOK, ChallanOK, Fits

(* Of these, what a step that moves goods in the shop needs.               *)
LEMMA BalanceType ==
    ASSUME IInv
    PROVE  balance \in Balances /\ Shop \in Godowns
BY Types

(* Holding goods again keeps what is on hand, and reserves no more than is *)
(* there.                                                                  *)
LEMMA HoldAgainEffect ==
    ASSUME NEW b \in Balances, NEW q \in Nat, NEW o, HoldAgain(b, o, q)
    PROVE  /\ balance' \in Balances
           /\ balance'[Shop].onHand = b[Shop].onHand
           /\ \A w \in Godowns \ {Shop} : balance'[w].onHand = b[w].onHand
                                         /\ balance'[w].reserved = b[w].reserved
           /\ (Policy = "BLOCK" => b[Shop].reserved <= b[Shop].onHand) =>
                 (Policy = "BLOCK" => balance'[Shop].reserved <= balance'[Shop].onHand)
<1>0. Shop \in Godowns
    BY OrderAssumption
<1>1. CASE balance' = b
    BY <1>0, <1>1
<1>2. CASE balance' = Reserve(b, Shop, q) /\ Enough(b, Shop, q)
    <2>1. Policy = "BLOCK" => b[Shop].onHand - b[Shop].reserved >= q
        BY <1>2 DEF Enough, Available
    <2>2. b[Shop].onHand \in Int /\ b[Shop].reserved \in Nat
        BY <1>0 DEF Balances
    <2>3. /\ balance' \in Balances
          /\ balance'[Shop].reserved = b[Shop].reserved + q
          /\ \A v \in Godowns : /\ v # Shop => balance'[v].reserved = b[v].reserved
                                /\ balance'[v].onHand = b[v].onHand
        BY <1>0, <1>2, ReserveEffect
    <2> QED
        BY <1>0, <2>1, <2>2, <2>3
<1> QED
    BY <1>1, <1>2 DEF HoldAgain

(* Two balances of a godown with the same numbers are the same row.        *)
LEMMA SameRow ==
    ASSUME NEW a \in Balances, NEW b \in Balances, NEW w \in Godowns,
           a[w].onHand = b[w].onHand, a[w].reserved = b[w].reserved
    PROVE  a[w] = b[w]
BY DEF Balances

(* A step that only changes orders and what they hold.                     *)
LEMMA HoldStep ==
    ASSUME IInv, UNCHANGED <<adjusted, transfer, challan, invoice, returning>>,
           balance' \in Balances, order' \in [Orders -> Order],
           \A w \in Godowns : balance'[w].onHand = balance[w].onHand,
           \A w \in Godowns \ {Shop} : balance'[w].reserved = balance[w].reserved,
           Policy = "BLOCK" => balance'[Shop].reserved <= balance'[Shop].onHand
    PROVE  IInv'
<1>1. StockTypeOK' /\ ChallansOK' /\ ReturnsFit'
    BY Types DEF IInv, StockTypeOK, Balances, ChallansOK, ReturnsFit
<1>2. Out(challan', invoice') = Out(challan, invoice) + 0
    BY Types, OutTypes DEF Out
<1>3. balance'[Shop].onHand = balance[Shop].onHand - 0
    BY Types DEF Balances
<1>4. \A w \in Godowns \ {Shop} : balance'[w] = balance[w]
    BY Types, SameRow
<1> QED
    BY <1>1, <1>2, <1>3, <1>4, OrderStep

(* A step on one challan row, and on the returns that go with it.          *)
LEMMA ChallanStep ==
    ASSUME IInv, UNCHANGED <<adjusted, transfer, invoice>>,
           balance' \in Balances, order' \in [Orders -> Order],
           NEW c \in Challans, NEW x \in Challan, challan' = [challan EXCEPT ![c] = x],
           ChallanOK(x, invoice),
           returning' \in [Clerks -> Return \cup {NoReturn}], ReturnsFit',
           balance'[Shop].onHand = balance[Shop].onHand - (OutOf(x) - OutOf(challan[c])),
           \A w \in Godowns \ {Shop} : /\ balance'[w].onHand = balance[w].onHand
                                       /\ balance'[w].reserved = balance[w].reserved,
           Policy = "BLOCK" => balance'[Shop].reserved <= balance'[Shop].onHand
    PROVE  IInv'
<1>1. /\ challan' \in [Challans -> Challan] /\ challan'[c] = x
      /\ \A d \in Challans : d # c => challan'[d] = challan[d]
    BY Types
<1>2. StockTypeOK'
    BY <1>1 DEF IInv, StockTypeOK, Balances
<1>3. ChallansOK' /\ Fits(challan')
    BY <1>1, Types DEF ChallansOK, ChallanOK, Fits
<1>4. OutOnChallans(challan') = OutOnChallans(challan) - OutOf(challan[c]) + OutOf(x)
    BY <1>1, <1>3, Types, ChallanOutStep
<1>5. /\ OutOnChallans(challan) \in Int /\ OutOnBills(invoice) \in Int
      /\ OutOf(challan[c]) \in Int /\ OutOf(x) \in Int
    BY Types, OutTypes DEF OutOf, Challan, Quantity
<1>6. Out(challan', invoice') = Out(challan, invoice) + (OutOf(x) - OutOf(challan[c]))
    BY <1>4, <1>5 DEF Out
<1>7. \A w \in Godowns \ {Shop} : balance'[w] = balance[w]
    BY Types, SameRow
<1>8. OutOf(x) - OutOf(challan[c]) \in Int
    BY <1>5
<1> QED
    BY <1>2, <1>3, <1>6, <1>7, <1>8, OrderStep

(* A new draft invoice takes nothing.                                      *)
LEMMA NewBill ==
    ASSUME IInv, UNCHANGED <<adjusted, transfer, balance, returning, challan>>,
           order' \in [Orders -> Order],
           NEW i \in Invoices, NEW x \in Invoice, IssuedBy(x) = 0,
           invoice[i].status = "NONE", invoice' = [invoice EXCEPT ![i] = x]
    PROVE  IInv'
<1>1. /\ invoice' \in [Invoices -> Invoice] /\ invoice'[i] = x
      /\ \A j \in Invoices : j # i => invoice'[j] = invoice[j]
    BY Types
<1>2. \A c \in Challans : challan[c].bill \in Invoices \cup {NoBill} /\ challan[c].bill # i
    BY Types DEF ChallansOK, ChallanOK, Challan, NoBill, Invoices
<1>3. ChallansOK'
    BY <1>1, <1>2, Types DEF ChallansOK, ChallanOK
<1>4. StockTypeOK' /\ ReturnsFit'
    BY <1>1, Types DEF IInv, StockTypeOK, ReturnsFit
<1>5. OutOnBills(invoice') = OutOnBills(invoice) - IssuedBy(invoice[i]) + IssuedBy(x)
    BY <1>1, Types, BillOutStep
<1>6. IssuedBy(invoice[i]) = 0
    BY DEF IssuedBy
<1>7. Out(challan', invoice') = Out(challan, invoice) + 0
    BY <1>5, <1>6, Types, OutTypes DEF Out
<1>8. balance'[Shop].onHand = balance[Shop].onHand - 0
    BY Types DEF Balances
<1>9. Policy = "BLOCK" => balance'[Shop].reserved <= balance'[Shop].onHand
    BY Types DEF IInv, NeverOversold
<1>10. \A w \in Godowns \ {Shop} : balance'[w] = balance[w]
    OBVIOUS
<1>11. UNCHANGED <<adjusted, transfer>> /\ 0 \in Int
    OBVIOUS
<1> QED
    BY <1>3, <1>4, <1>7, <1>8, <1>9, <1>10, <1>11, OrderStep

(* A step that only changes the returns under way.                         *)
LEMMA ReturnStep ==
    ASSUME IInv, UNCHANGED <<adjusted, transfer, balance, order, challan, invoice>>,
           returning' \in [Clerks -> Return \cup {NoReturn}], ReturnsFit'
    PROVE  IInv'
<1>1. StockTypeOK' /\ ChallansOK'
    BY Types DEF IInv, StockTypeOK, ChallansOK
<1>2. TransfersOK' /\ TransitOK' /\ NeverOversold'
    BY DEF IInv, RowsOK, TransfersOK, TransitOK, NeverOversold
<1>3. GoodsAccountedFor'
    BY DEF IInv, GoodsAccountedFor, Sold, Transferred, OutOnChallan, OutOnInvoice
<1> QED
    BY <1>1, <1>2, <1>3 DEF IInv, RowsOK

-----------------------------------------------------------------------------
(* Orders.                                                                 *)

(* Confirming an order reserves what is available.                         *)
LEMMA ConfirmKeeps ==
    ASSUME IInv, UNCHANGED transfer, NEW o \in Orders, ConfirmSalesOrder(o)
    PROVE  IInv'
<1>1. Ordered[o] \in Nat
    BY StockAssumption, OrderAssumption
<1>2. balance' = Reserve(balance, Shop, Ordered[o])
    BY DEF ConfirmSalesOrder
<1>3. /\ balance' \in Balances
      /\ balance'[Shop].reserved = balance[Shop].reserved + Ordered[o]
      /\ \A w \in Godowns : /\ w # Shop => balance'[w].reserved = balance[w].reserved
                            /\ balance'[w].onHand = balance[w].onHand
    BY <1>1, <1>2, BalanceType, ReserveEffect
<1>4. Policy = "BLOCK" => balance[Shop].onHand - balance[Shop].reserved >= Ordered[o]
    BY DEF ConfirmSalesOrder, Enough, Available
<1>5. balance[Shop].onHand \in Int /\ balance[Shop].reserved \in Nat /\ Shop \in Godowns
    BY Types DEF Balances
<1>6. Policy = "BLOCK" => balance'[Shop].reserved <= balance'[Shop].onHand
    BY <1>1, <1>3, <1>4, <1>5
<1>7. order' \in [Orders -> Order]
    BY Types DEF ConfirmSalesOrder, Order, OrderStatus
<1> QED
    BY <1>3, <1>6, <1>7, HoldStep DEF ConfirmSalesOrder

(* Cancelling an order, or a failed delivery stop, gives back what it      *)
(* holds.                                                                  *)
LEMMA GiveBackKeeps ==
    ASSUME IInv, UNCHANGED transfer, NEW o \in Orders,
           CancelSalesOrder(o) \/ ReleaseFailedStop(o)
    PROVE  IInv'
<1> DEFINE q == StillHeld(order, challan, invoice, o)
<1>1. q \in Nat
    BY Types, HeldType DEF Quantity
<1>2. balance' = Release(balance, Shop, q)
    BY DEF CancelSalesOrder, ReleaseFailedStop
<1> HIDE DEF q
<1>3. /\ balance' \in Balances
      /\ balance'[Shop].reserved <= balance[Shop].reserved
      /\ \A w \in Godowns : /\ w # Shop => balance'[w].reserved = balance[w].reserved
                            /\ balance'[w].onHand = balance[w].onHand
    BY <1>1, <1>2, Types, ReleaseEffect
<1>4. Policy = "BLOCK" => balance'[Shop].reserved <= balance'[Shop].onHand
    BY <1>3, Types DEF IInv, NeverOversold, Balances
<1>5. order' \in [Orders -> Order]
    BY Types DEF CancelSalesOrder, ReleaseFailedStop, Order, OrderStatus
<1> QED
    BY <1>3, <1>4, <1>5, HoldStep DEF CancelSalesOrder, ReleaseFailedStop

(* Rebuilding the balance reserves no more than is on hand.                *)
LEMMA RebuildKeeps ==
    ASSUME IInv, UNCHANGED transfer, RebuildBalance
    PROVE  IInv'
<1> DEFINE held == Sum([o \in Orders |-> StillHeld(order, challan, invoice, o)])
           new == Least(held, AtLeastZero(balance[Shop].onHand))
<1>1. held \in Nat
    <2>1. [o \in Orders |-> StillHeld(order, challan, invoice, o)] \in [Orders -> Quantity]
        BY Types, HeldType
    <2> QED
        BY <2>1, SumNat
<1>2. balance' = [balance EXCEPT ![Shop].reserved = new]
    BY DEF RebuildBalance
<1> HIDE DEF held
<1>3. balance[Shop].onHand \in Int /\ balance[Shop].reserved \in Nat /\ Shop \in Godowns
    BY Types DEF Balances
<1>4. new \in Nat /\ (Policy = "BLOCK" => new <= balance[Shop].onHand)
    BY <1>1, <1>3 DEF Least, AtLeastZero, IInv, NeverOversold
<1> HIDE DEF new
<1>5. /\ balance' \in Balances
      /\ balance'[Shop].reserved = new
      /\ \A w \in Godowns : /\ w # Shop => balance'[w].reserved = balance[w].reserved
                            /\ balance'[w].onHand = balance[w].onHand
    BY <1>2, <1>4, Types DEF Balances
<1>6. order' \in [Orders -> Order] /\ UNCHANGED <<adjusted, challan, invoice, returning>>
    BY Types DEF RebuildBalance, documents
<1> QED
    BY <1>3, <1>4, <1>5, <1>6, HoldStep

(* A draft invoice takes no goods.                                         *)
LEMMA ConvertKeeps ==
    ASSUME IInv, UNCHANGED transfer, NEW o \in Orders, NEW i \in Invoices, NEW q \in 1 .. MaxQty,
           ConvertSalesOrder(o, i, q)
    PROVE  IInv'
<1> DEFINE x == DraftInvoice(o, q)
<1>1. x \in Invoice /\ IssuedBy(x) = 0
    BY Types DEF Invoice, DocStatus, Quantity, IssuedBy, DraftInvoice
<1>2. /\ invoice[i].status = "NONE"
      /\ invoice' = [invoice EXCEPT ![i] = x]
      /\ UNCHANGED <<stock, challan, returning>>
    BY DEF ConvertSalesOrder, IsNext
<1>3. order' \in [Orders -> Order]
    <2>1. PICK s : /\ s \in OrderStatus
                   /\ order' = [order EXCEPT ![o].bill = i, ![o].status = s]
        <3>1. order \in [Orders -> Order] /\ order[o].status \in OrderStatus
            BY Types DEF Order
        <3>2. order' = [order EXCEPT ![o].bill = i,
                            ![o].status = IF Remaining(challan, invoice', o) > 0
                                          THEN "PARTIALLY_CONVERTED" ELSE @]
            BY DEF ConvertSalesOrder
        <3> DEFINE s == IF Remaining(challan, invoice', o) > 0
                        THEN "PARTIALLY_CONVERTED" ELSE order[o].status
        <3>3. s \in OrderStatus
            BY <3>1 DEF OrderStatus
        <3>4. order' = [order EXCEPT ![o].bill = i, ![o].status = s]
            BY <3>1, <3>2 DEF Order
        <3> QED
            BY <3>3, <3>4
    <2>2. order \in [Orders -> Order]
        BY Types
    <2> QED
        BY <2>1, <2>2 DEF Order
<1> HIDE DEF x
<1> QED
    BY <1>1, <1>2, <1>3, NewBill DEF stock

-----------------------------------------------------------------------------
(* Challans.                                                               *)

(* What returns expect does not change while their challan keeps its       *)
(* quantity and what came back.                                            *)
LEMMA ReturnsStillFit ==
    ASSUME IInv, UNCHANGED returning,
           \A c \in Challans : \A k \in Clerks :
               returning[k] # NoReturn /\ returning[k].challan = c =>
                   challan'[c].qty = challan[c].qty /\ challan'[c].back = challan[c].back
    PROVE  ReturnsFit' /\ returning' \in [Clerks -> Return \cup {NoReturn}]
<1>1. \A k \in Clerks : returning[k] # NoReturn => returning[k].challan \in Challans
    BY Types DEF Return
<1> QED
    BY <1>1, Types DEF ReturnsFit

(* A draft challan takes no goods, and no return waits for a challan that  *)
(* did not exist.                                                          *)
LEMMA ToChallanKeeps ==
    ASSUME IInv, UNCHANGED transfer, NEW o \in Orders, NEW c \in Challans, NEW q \in 1 .. MaxQty,
           ConvertSalesOrderToChallan(o, c, q)
    PROVE  IInv'
<1> DEFINE x == DraftChallan(o, q)
<1>1. /\ x \in Challan /\ OutOf(x) = 0
      /\ x.status = "DRAFT" /\ x.order = o /\ x.qty = q /\ x.back = 0 /\ x.bill = NoBill
      /\ x.posted = FALSE
    <2>1. q \in Quantity /\ 0 \in Quantity /\ "DRAFT" \in DocStatus
        BY Types DEF Quantity, DocStatus
    <2> QED
        BY <2>1 DEF Challan, OutOf, DraftChallan
<1>2. /\ challan[c].status = "NONE" /\ challan' = [challan EXCEPT ![c] = x]
      /\ UNCHANGED <<stock, invoice, returning>>
    BY DEF ConvertSalesOrderToChallan, IsNext
<1> HIDE DEF x
<1>3. ChallanOK(x, invoice)
    BY <1>1, Types DEF ChallanOK
<1>4. challan[c].qty = 0 /\ challan[c].back = 0 /\ OutOf(challan[c]) = 0
    BY <1>2, Types DEF ChallansOK, ChallanOK, OutOf
<1>5. \A k \in Clerks : returning[k] # NoReturn => returning[k].challan # c
    BY <1>4, Types DEF ReturnsFit, Return
<1>6. ReturnsFit' /\ returning' \in [Clerks -> Return \cup {NoReturn}]
    BY <1>2, <1>5, Types, ReturnsStillFit
<1>7. order' \in [Orders -> Order]
    BY Types DEF ConvertSalesOrderToChallan, Order, OrderStatus
<1>8. balance' = balance /\ adjusted' = adjusted
    BY <1>2 DEF stock
<1>9. /\ balance'[Shop].onHand = balance[Shop].onHand - (OutOf(x) - OutOf(challan[c]))
      /\ Policy = "BLOCK" => balance'[Shop].reserved <= balance'[Shop].onHand
    BY <1>1, <1>4, <1>8, Types DEF Balances, IInv, NeverOversold
<1> QED
    BY <1>1, <1>2, <1>3, <1>6, <1>7, <1>8, <1>9, Types, ChallanStep

(* Completing a challan posts the goods it takes, if it posts any, after   *)
(* giving back their reservation.                                          *)
LEMMA CompleteChallanKeeps ==
    ASSUME IInv, UNCHANGED transfer, NEW c \in Challans, NEW post \in StockOnChallan,
           CompleteChallan(c, post)
    PROVE  IInv'
<1> DEFINE o == challan[c].order
           q == challan[c].qty
           n == Least(StillHeld(order, challan, invoice, o), q)
           b == Release(balance, Shop, n)
           x == [challan[c] EXCEPT !.status = "COMPLETED", !.posted = post]
<1>0. /\ post \in BOOLEAN /\ challan[c] \in Challan /\ challan[c].status = "DRAFT"
      /\ o \in Orders /\ q \in Nat /\ challan[c].back = 0 /\ ~challan[c].posted
    BY Types, OrderAssumption DEF CompleteChallan, ChallansOK, ChallanOK, Challan, Quantity, Live
<1>1. n \in Nat
    BY <1>0, Types, HeldType DEF Least, Quantity
<1>2. /\ x \in Challan /\ OutOf(challan[c]) = 0 /\ OutOf(x) = IF post THEN q ELSE 0
      /\ x.status = "COMPLETED" /\ x.order = o /\ x.qty = q /\ x.back = 0
      /\ x.bill = challan[c].bill
    <2>1. x \in Challan
        BY <1>0 DEF Challan, DocStatus
    <2>2. /\ x.status = "COMPLETED" /\ x.order = o /\ x.qty = q /\ x.back = 0
          /\ x.bill = challan[c].bill /\ x.posted = post
        BY <1>0 DEF Challan
    <2> HIDE DEF x, o, q
    <2> QED
        BY <1>0, <2>1, <2>2 DEF OutOf
<1>3. /\ challan' = [challan EXCEPT ![c] = x]
      /\ balance' = IF post THEN Move(b, Shop, -q) ELSE b
      /\ post => Enough(b, Shop, q)
      /\ UNCHANGED <<adjusted, invoice, returning>>
    BY <1>0, Types DEF CompleteChallan
<1>4. order' \in [Orders -> Order]
    <2>1. Recomputed(order, challan', invoice, o, FALSE) \in Order
        BY <1>0, Types, RecomputedType
    <2>2. order' = [order EXCEPT ![o] = Recomputed(order, challan', invoice, o, FALSE)]
        BY DEF CompleteChallan
    <2> QED
        BY <2>1, <2>2, Types
<1> HIDE DEF n, x
<1>5. /\ b \in Balances
      /\ b[Shop].reserved <= balance[Shop].reserved
      /\ \A w \in Godowns : /\ w # Shop => b[w].reserved = balance[w].reserved
                            /\ b[w].onHand = balance[w].onHand
    BY <1>1, Types, ReleaseEffect
<1>6. /\ Shop \in Godowns /\ balance[Shop].onHand \in Int /\ balance[Shop].reserved \in Nat
      /\ b[Shop].reserved \in Nat /\ b[Shop].onHand \in Int
    BY <1>5, Types DEF Balances
<1>7. Policy = "BLOCK" => balance[Shop].reserved <= balance[Shop].onHand
    BY <1>6 DEF IInv, NeverOversold
<1>8. post => (Policy = "BLOCK" => b[Shop].onHand - b[Shop].reserved >= q)
    BY <1>3 DEF Enough, Available
<1> HIDE DEF b, q
<1>9. /\ balance' \in Balances
      /\ balance'[Shop].onHand = balance[Shop].onHand - (OutOf(x) - OutOf(challan[c]))
      /\ \A w \in Godowns \ {Shop} : /\ balance'[w].onHand = balance[w].onHand
                                      /\ balance'[w].reserved = balance[w].reserved
      /\ Policy = "BLOCK" => balance'[Shop].reserved <= balance'[Shop].onHand
    <2>1. CASE post
        <3>1. -q \in Int
            BY <1>0
        <3>2. /\ balance' \in Balances
              /\ balance'[Shop].onHand = b[Shop].onHand + (-q)
              /\ \A v \in Godowns : /\ v # Shop => balance'[v].onHand = b[v].onHand
                                    /\ balance'[v].reserved = b[v].reserved
            BY <1>3, <1>5, <1>6, <2>1, <3>1, MoveEffect
        <3> QED
            BY <1>0, <1>2, <1>5, <1>6, <1>8, <2>1, <3>2
    <2>2. CASE ~post
        BY <1>2, <1>3, <1>5, <1>6, <1>7, <2>2
    <2> QED
        BY <2>1, <2>2
<1>10. ChallanOK(x, invoice)
    BY <1>0, <1>2, Types DEF ChallansOK, ChallanOK, q
<1>11. ReturnsFit' /\ returning' \in [Clerks -> Return \cup {NoReturn}]
    BY <1>0, <1>2, <1>3, Types, ReturnsStillFit DEF q
<1> QED
    BY <1>2, <1>3, <1>4, <1>9, <1>10, <1>11, ChallanStep

(* A draft that is deleted or cancelled took no goods.                     *)
LEMMA DropDraftKeeps ==
    ASSUME IInv, UNCHANGED transfer, NEW c \in Challans, DeleteChallan(c) \/ CancelDraftChallan(c)
    PROVE  IInv'
<1> DEFINE x == challan'[c]
<1>0. /\ challan[c].status = "DRAFT" /\ challan[c] \in Challan
      /\ challan[c].order \in Orders /\ ~challan[c].posted /\ challan[c].back = 0
    BY Types DEF DeleteChallan, CancelDraftChallan, ChallansOK, ChallanOK, Live
<1>1. balance' = balance /\ UNCHANGED <<adjusted, invoice, returning>>
    BY DEF DeleteChallan, CancelDraftChallan, stock
<1>2. /\ challan' = [challan EXCEPT ![c] = x] /\ x \in Challan /\ ~x.posted /\ x.back = 0
      /\ x.status \in {"DELETED", "CANCELLED"} /\ x.back <= x.qty
      /\ x.bill # NoBill => x.bill = challan[c].bill /\ x.qty = challan[c].qty
    <2>1. CASE DeleteChallan(c)
        <3> DEFINE gone == [NoChallan EXCEPT !.status = "DELETED"]
        <3>1. /\ gone \in Challan /\ gone.posted = FALSE /\ gone.back = 0 /\ gone.qty = 0
              /\ gone.status = "DELETED" /\ gone.bill = NoBill
            <4>1. NoChallan \in Challan
                BY Types DEF NoChallan, Challan, DocStatus, Quantity
            <4>2. NoChallan.posted = FALSE /\ NoChallan.back = 0 /\ NoChallan.qty = 0
                  /\ NoChallan.bill = NoBill
                BY DEF NoChallan
            <4> QED
                BY <4>1, <4>2 DEF Challan, DocStatus
        <3>2. challan' = [challan EXCEPT ![c] = gone]
            BY <2>1 DEF DeleteChallan
        <3> HIDE DEF gone
        <3>3. x = gone
            BY <3>2, Types
        <3>4. gone.back <= gone.qty
            BY <3>1
        <3> QED
            BY <3>1, <3>2, <3>3, <3>4
    <2>2. CASE CancelDraftChallan(c)
        <3>1. challan' = [challan EXCEPT ![c].status = "CANCELLED"]
            BY <2>2 DEF CancelDraftChallan
        <3>2. /\ x.status = "CANCELLED" /\ x.posted = challan[c].posted /\ x.back = challan[c].back
              /\ x.qty = challan[c].qty /\ x.bill = challan[c].bill /\ x \in Challan
            BY <1>0, <3>1, Types DEF Challan, DocStatus
        <3>3. challan' = [challan EXCEPT ![c] = x]
            BY <3>1, Types
        <3> QED
            BY <1>0, <3>2, <3>3, Types DEF ChallansOK, ChallanOK
    <2> QED
        BY <2>1, <2>2
<1>3. order' \in [Orders -> Order]
    <2> DEFINE o == challan[c].order
               y == Recomputed(order, challan', invoice, o, FALSE)
    <2>1. y \in Order
        BY <1>0, Types, RecomputedType
    <2>2. CASE DeleteChallan(c)
        <3>1. order' = [order EXCEPT ![o] = y]
            BY <2>2 DEF DeleteChallan
        <3> QED
            BY <2>1, <3>1, Types
    <2>3. CASE CancelDraftChallan(c)
        <3> DEFINE s == Discarded(order, challan', invoice, o, NoBill).status
        <3>1. s \in OrderStatus
            BY <1>0, Types, DiscardedType DEF Order
        <3>2. order' = [order EXCEPT ![o] = IF y.status # order[o].status THEN y
                                            ELSE [y EXCEPT !.status = s]]
            BY <2>3 DEF CancelDraftChallan
        <3> HIDE DEF y, s
        <3>3. [y EXCEPT !.status = s] \in Order
            BY <2>1, <3>1 DEF Order
        <3> QED
            BY <2>1, <3>2, <3>3, Types
    <2> QED
        BY <2>2, <2>3
<1>4. ReturnsFit' /\ returning' \in [Clerks -> Return \cup {NoReturn}]
    <2>1. CASE DeleteChallan(c)
        <3>1. \A k \in Clerks : returning[k] # NoReturn => returning[k].challan # c
            BY <2>1 DEF DeleteChallan
        <3> QED
            BY <1>1, <1>2, <3>1, Types, ReturnsStillFit
    <2>2. CASE CancelDraftChallan(c)
        <3>1. challan' = [challan EXCEPT ![c].status = "CANCELLED"]
            BY <2>2 DEF CancelDraftChallan
        <3>2. \A d \in Challans : challan'[d].qty = challan[d].qty /\ challan'[d].back = challan[d].back
            BY <3>1, Types DEF Challan
        <3> QED
            BY <1>1, <3>2, ReturnsStillFit
    <2> QED
        BY <2>1, <2>2
<1>5. ChallanOK(x, invoice)
    BY <1>0, <1>2, Types DEF ChallansOK, ChallanOK, Live
<1>6. OutOf(x) = 0 /\ OutOf(challan[c]) = 0
    BY <1>0, <1>2 DEF OutOf
<1>7. /\ balance'[Shop].onHand = balance[Shop].onHand - (OutOf(x) - OutOf(challan[c]))
      /\ Policy = "BLOCK" => balance'[Shop].reserved <= balance'[Shop].onHand
    BY <1>1, <1>6, Types DEF Balances, IInv, NeverOversold
<1> HIDE DEF x
<1> QED
    BY <1>1, <1>2, <1>3, <1>4, <1>5, <1>7, Types, ChallanStep

(* Goods that come back to the shop, and may be held again.                *)
LEMMA GoodsBack ==
    ASSUME IInv, NEW b \in Balances, NEW g \in Nat, NEW q \in Nat, NEW o,
           b[Shop].onHand = balance[Shop].onHand + g, b[Shop].reserved = balance[Shop].reserved,
           \A w \in Godowns \ {Shop} : /\ b[w].onHand = balance[w].onHand
                                       /\ b[w].reserved = balance[w].reserved,
           balance' = b \/ HoldAgain(b, o, q)
    PROVE  /\ balance' \in Balances
           /\ balance'[Shop].onHand = balance[Shop].onHand + g
           /\ \A w \in Godowns \ {Shop} : /\ balance'[w].onHand = balance[w].onHand
                                          /\ balance'[w].reserved = balance[w].reserved
           /\ Policy = "BLOCK" => balance'[Shop].reserved <= balance'[Shop].onHand
<1>0. Shop \in Godowns /\ balance[Shop].onHand \in Int /\ balance[Shop].reserved \in Nat
    BY Types DEF Balances
<1>1. Policy = "BLOCK" => b[Shop].reserved <= b[Shop].onHand
    BY <1>0 DEF IInv, NeverOversold
<1>2. CASE balance' = b
    BY <1>1, <1>2
<1>3. CASE HoldAgain(b, o, q)
    <2>1. /\ balance' \in Balances
          /\ balance'[Shop].onHand = b[Shop].onHand
          /\ \A w \in Godowns \ {Shop} : balance'[w].onHand = b[w].onHand
                                         /\ balance'[w].reserved = b[w].reserved
          /\ (Policy = "BLOCK" => b[Shop].reserved <= b[Shop].onHand) =>
                 (Policy = "BLOCK" => balance'[Shop].reserved <= balance'[Shop].onHand)
        BY <1>3, HoldAgainEffect
    <2> QED
        BY <1>1, <2>1
<1> QED
    BY <1>2, <1>3

(* Goods of a challan that posted stock, or of one that did not.           *)
LEMMA ChallanGoodsBack ==
    ASSUME IInv, NEW post \in BOOLEAN, NEW q \in Nat, NEW o,
           HoldAgain(IF post THEN Move(balance, Shop, q) ELSE balance, o, q)
    PROVE  /\ balance' \in Balances
           /\ balance'[Shop].onHand = balance[Shop].onHand + (IF post THEN q ELSE 0)
           /\ \A w \in Godowns \ {Shop} : /\ balance'[w].onHand = balance[w].onHand
                                          /\ balance'[w].reserved = balance[w].reserved
           /\ Policy = "BLOCK" => balance'[Shop].reserved <= balance'[Shop].onHand
<1> DEFINE g == IF post THEN q ELSE 0
           b == IF post THEN Move(balance, Shop, q) ELSE balance
<1>0. Shop \in Godowns /\ balance[Shop].onHand \in Int /\ balance \in Balances
    BY Types DEF Balances
<1>1. g \in Nat /\ HoldAgain(b, o, q)
    OBVIOUS
<1>2. /\ b \in Balances
      /\ b[Shop].onHand = balance[Shop].onHand + g /\ b[Shop].reserved = balance[Shop].reserved
      /\ \A w \in Godowns \ {Shop} : /\ b[w].onHand = balance[w].onHand
                                     /\ b[w].reserved = balance[w].reserved
    <2>1. CASE post
        <3>1. /\ Move(balance, Shop, q) \in Balances
              /\ Move(balance, Shop, q)[Shop].onHand = balance[Shop].onHand + q
              /\ \A v \in Godowns :
                    /\ v # Shop => Move(balance, Shop, q)[v].onHand = balance[v].onHand
                    /\ Move(balance, Shop, q)[v].reserved = balance[v].reserved
            <4>1. q \in Int
                OBVIOUS
            <4> QED
                BY <1>0, <4>1, MoveEffect
        <3> QED
            BY <1>0, <2>1, <3>1
    <2>2. CASE ~post
        BY <1>0, <2>2
    <2> QED
        BY <2>1, <2>2
<1> HIDE DEF b
<1> QED
    BY <1>1, <1>2, GoodsBack

(* Reopening an order leaves well-formed orders.                           *)
LEMMA ReopenType ==
    ASSUME IInv, NEW ch, NEW o, Reopen(ch, o)
    PROVE  order' \in [Orders -> Order]
<1>1. CASE order' = order
    BY <1>1, Types
<1>2. CASE order' = [order EXCEPT ![o].status = Reopened(order, ch, invoice, o)]
    <2>1. Reopened(order, ch, invoice, o) \in OrderStatus
        BY DEF Reopened, Unprocessed, OrderStatus
    <2> QED
        BY <1>2, <2>1, Types DEF Order
<1> QED
    BY <1>1, <1>2 DEF Reopen

(* Cancelling a completed challan brings back what it posted.              *)
LEMMA CancelChallanKeeps ==
    ASSUME IInv, UNCHANGED transfer, NEW c \in Challans, CancelChallan(c)
    PROVE  IInv'
<1> DEFINE x == [challan[c] EXCEPT !.status = "CANCELLED", !.posted = FALSE]
           q == challan[c].qty
<1>0. /\ challan[c] \in Challan /\ challan[c].status = "COMPLETED" /\ challan[c].back = 0
      /\ q \in Nat /\ challan[c].posted \in BOOLEAN
    BY Types DEF CancelChallan, Challan, Quantity
<1>1. /\ challan' = [challan EXCEPT ![c] = x] /\ UNCHANGED <<adjusted, invoice, returning>>
      /\ HoldAgain(IF challan[c].posted THEN Move(balance, Shop, q) ELSE balance,
                   challan[c].order, q)
    BY <1>0, Types DEF CancelChallan
<1>2. x \in Challan
    BY <1>0 DEF Challan, DocStatus
<1>3. /\ x.status = "CANCELLED" /\ x.posted = FALSE /\ x.qty = q /\ x.back = 0
      /\ x.bill = challan[c].bill
    BY <1>0 DEF Challan
<1>4. order' \in [Orders -> Order]
    BY ReopenType DEF CancelChallan
<1> HIDE DEF x
<1>5. OutOf(x) = 0 /\ OutOf(challan[c]) = IF challan[c].posted THEN q ELSE 0
    BY <1>0, <1>3 DEF OutOf
<1>6. ChallanOK(x, invoice)
    BY <1>0, <1>3, Types DEF ChallansOK, ChallanOK, Live
<1>7. ReturnsFit' /\ returning' \in [Clerks -> Return \cup {NoReturn}]
    BY <1>0, <1>1, <1>3, Types, ReturnsStillFit
<1> HIDE DEF q
<1>8. /\ balance' \in Balances
      /\ balance'[Shop].onHand = balance[Shop].onHand + (IF challan[c].posted THEN q ELSE 0)
      /\ \A w \in Godowns \ {Shop} : /\ balance'[w].onHand = balance[w].onHand
                                     /\ balance'[w].reserved = balance[w].reserved
      /\ Policy = "BLOCK" => balance'[Shop].reserved <= balance'[Shop].onHand
    BY <1>0, <1>1, ChallanGoodsBack
<1>9. balance'[Shop].onHand = balance[Shop].onHand - (OutOf(x) - OutOf(challan[c]))
    BY <1>0, <1>5, <1>8, Types DEF Balances
<1> QED
    BY <1>1, <1>2, <1>4, <1>6, <1>7, <1>8, <1>9, ChallanStep

(* A return in progress changes no stock.                                  *)
LEMMA StartReturnKeeps ==
    ASSUME IInv, UNCHANGED transfer, NEW k \in Clerks, NEW c \in Challans, NEW q \in 1 .. MaxQty,
           StartReturn(k, c, q)
    PROVE  IInv'
<1>1. /\ returning' = [returning EXCEPT ![k] = [challan |-> c, qty |-> q]]
      /\ q <= challan[c].qty - challan[c].back /\ UNCHANGED <<stock, order, challan, invoice>>
    BY DEF StartReturn
<1>2. [challan |-> c, qty |-> q] \in Return
    BY DEF Return
<1>3. returning' \in [Clerks -> Return \cup {NoReturn}] /\ ReturnsFit'
    BY <1>1, <1>2, Types DEF ReturnsFit
<1> QED
    BY <1>1, <1>3, ReturnStep DEF stock

(* A refused return changes no stock either.                               *)
LEMMA RefuseReturnKeeps ==
    ASSUME IInv, UNCHANGED transfer, NEW k \in Clerks, RefuseReturn(k)
    PROVE  IInv'
<1>1. /\ returning' = [returning EXCEPT ![k] = NoReturn]
      /\ UNCHANGED <<stock, order, challan, invoice>>
    BY DEF RefuseReturn
<1>2. returning' \in [Clerks -> Return \cup {NoReturn}] /\ ReturnsFit'
    BY <1>1, Types DEF ReturnsFit
<1> QED
    BY <1>1, <1>2, ReturnStep DEF stock

(* A completed return brings its goods back once: nothing else came back   *)
(* on the challan since the quantity was checked.                          *)
LEMMA CompleteReturnKeeps ==
    ASSUME IInv, UNCHANGED transfer, NEW k \in Clerks, CompleteReturn(k)
    PROVE  IInv'
<1> DEFINE c == returning[k].challan
           q == returning[k].qty
           x == [challan[c] EXCEPT !.back = challan[c].back + q]
<1>0. /\ returning[k] # NoReturn /\ returning[k] \in Return /\ c \in Challans /\ q \in 1 .. MaxQty
      /\ q \in Nat
    BY Types DEF CompleteReturn, Return
<1>1. /\ challan[c] \in Challan /\ challan[c].status = "COMPLETED" /\ challan[c].bill = NoBill
      /\ challan[c].qty \in Quantity /\ challan[c].back \in Quantity /\ challan[c].posted \in BOOLEAN
      /\ challan[c].order \in Orders
    BY <1>0, Types DEF CompleteReturn, Returnable, Challan, ChallansOK, ChallanOK, Live
<1>2. q <= challan[c].qty - challan[c].back
    BY <1>0, Types DEF ReturnsFit
<1>3. challan[c].back + q \in Quantity /\ challan[c].back + q <= challan[c].qty
    BY <1>0, <1>1, <1>2, Types DEF Quantity
<1>4. /\ x \in Challan /\ x.status = "COMPLETED" /\ x.qty = challan[c].qty /\ x.bill = NoBill
      /\ x.back = challan[c].back + q /\ x.posted = challan[c].posted
      /\ x.order = challan[c].order
    BY <1>1, <1>3 DEF Challan
<1>5. /\ challan' = [challan EXCEPT ![c] = x] /\ UNCHANGED <<adjusted, invoice>>
      /\ returning' = [returning EXCEPT ![k] = NoReturn]
      /\ HoldAgain(IF challan[c].posted THEN Move(balance, Shop, q) ELSE balance,
                   challan[c].order, q)
    BY <1>0, Types DEF CompleteReturn
<1>6. order' \in [Orders -> Order]
    BY ReopenType DEF CompleteReturn
<1> HIDE DEF x
<1>7. returning' \in [Clerks -> Return \cup {NoReturn}] /\ ReturnsFit'
    BY <1>5, OneReturnAtATime, Types DEF ReturnsFit
<1>8. ChallanOK(x, invoice)
    BY <1>1, <1>3, <1>4 DEF ChallanOK, Live
<1> HIDE DEF c, q
<1>9. OutOf(x) - OutOf(challan[c]) = -(IF challan[c].posted THEN q ELSE 0)
    BY <1>0, <1>1, <1>4, Types DEF OutOf, Quantity
<1>10. /\ balance' \in Balances
       /\ balance'[Shop].onHand = balance[Shop].onHand + (IF challan[c].posted THEN q ELSE 0)
       /\ \A w \in Godowns \ {Shop} : /\ balance'[w].onHand = balance[w].onHand
                                      /\ balance'[w].reserved = balance[w].reserved
       /\ Policy = "BLOCK" => balance'[Shop].reserved <= balance'[Shop].onHand
    BY <1>0, <1>1, <1>5, ChallanGoodsBack
<1>11. balance'[Shop].onHand = balance[Shop].onHand - (OutOf(x) - OutOf(challan[c]))
    BY <1>0, <1>9, <1>10, Types DEF Balances
<1> QED
    BY <1>0, <1>4, <1>5, <1>6, <1>7, <1>8, <1>10, <1>11, ChallanStep

-----------------------------------------------------------------------------
(* Invoices.                                                               *)

(* A step on invoice i and on the challans it bills.                       *)
LEMMA BillStep ==
    ASSUME IInv, UNCHANGED <<adjusted, transfer, returning>>,
           balance' \in Balances, order' \in [Orders -> Order],
           challan' \in [Challans -> Challan], ChallansOK',
           \A c \in Challans : challan'[c].qty = challan[c].qty /\ challan'[c].back = challan[c].back,
           NEW i \in Invoices, NEW x \in Invoice, invoice' = [invoice EXCEPT ![i] = x],
           NEW g \in Int, OutOnChallans(challan') = OutOnChallans(challan) - g,
           balance'[Shop].onHand = balance[Shop].onHand + g + IssuedBy(invoice[i]) - IssuedBy(x),
           \A w \in Godowns \ {Shop} : /\ balance'[w].onHand = balance[w].onHand
                                       /\ balance'[w].reserved = balance[w].reserved,
           Policy = "BLOCK" => balance'[Shop].reserved <= balance'[Shop].onHand
    PROVE  IInv'
<1> DEFINE q == IssuedBy(x) - IssuedBy(invoice[i]) - g
<1>1. /\ invoice' \in [Invoices -> Invoice] /\ invoice'[i] = x
      /\ \A j \in Invoices : j # i => invoice'[j] = invoice[j]
    BY Types
<1>2. StockTypeOK'
    BY <1>1, Types DEF IInv, StockTypeOK, Balances
<1>3. ReturnsFit'
    BY ReturnsStillFit
<1>4. OutOnBills(invoice') = OutOnBills(invoice) - IssuedBy(invoice[i]) + IssuedBy(x)
    BY <1>1, Types, BillOutStep
<1>5. /\ OutOnChallans(challan) \in Int /\ OutOnBills(invoice) \in Int
      /\ IssuedBy(invoice[i]) \in Int /\ IssuedBy(x) \in Int
    BY Types, OutTypes DEF IssuedBy, Invoice, Quantity
<1>6. Out(challan', invoice') = Out(challan, invoice) + q /\ q \in Int
    BY <1>4, <1>5 DEF Out
<1>7. \A w \in Godowns \ {Shop} : balance'[w] = balance[w]
    BY Types, SameRow
<1>8. balance'[Shop].onHand = balance[Shop].onHand - q
    <2>1. balance[Shop].onHand \in Int
        BY Types DEF Balances
    <2> QED
        BY <1>5, <2>1
<1> HIDE DEF q
<1> QED
    BY <1>2, <1>3, <1>6, <1>7, <1>8, OrderStep

(* Challans that are out by as much as before are out by the same sum.     *)
LEMMA SameOut ==
    ASSUME NEW ch, NEW new, \A c \in Challans : OutOf(new[c]) = OutOf(ch[c])
    PROVE  OutOnChallans(new) = OutOnChallans(ch)
<1>1. [c \in Challans |-> OutOf(new[c])] = [c \in Challans |-> OutOf(ch[c])]
    OBVIOUS
<1> QED
    BY <1>1 DEF OutOnChallans

(* The bill of a challan is a draft for what stayed.                       *)
LEMMA BillChallanKeeps ==
    ASSUME IInv, UNCHANGED transfer, NEW c \in Challans, NEW i \in Invoices,
           ConvertDeliveryChallan(c, i)
    PROVE  IInv'
<1> DEFINE g == 0
           x == DraftInvoice(NoOrder, challan[c].qty - challan[c].back)
           y == [challan[c] EXCEPT !.bill = i]
<1>0. /\ challan[c] \in Challan /\ challan[c].status = "COMPLETED" /\ challan[c].bill = NoBill
      /\ challan[c].qty \in Quantity /\ challan[c].back \in Quantity
      /\ challan[c].back <= challan[c].qty /\ invoice[i].status = "NONE"
    BY Types DEF ConvertDeliveryChallan, IsNext, Challan, ChallansOK, ChallanOK
<1>1. /\ x \in Invoice /\ IssuedBy(x) = 0 /\ x.status = "DRAFT"
      /\ x.qty = challan[c].qty - challan[c].back
    BY <1>0, Types DEF DraftInvoice, Invoice, DocStatus, Quantity, IssuedBy
<1>2. /\ invoice' = [invoice EXCEPT ![i] = x]
      /\ challan' = [challan EXCEPT ![c] = y]
      /\ UNCHANGED <<stock, returning>>
    BY <1>0, Types DEF ConvertDeliveryChallan
<1>3. order' \in [Orders -> Order]
    BY Types DEF ConvertDeliveryChallan, Order
<1>4. /\ y \in Challan /\ y.status = challan[c].status /\ y.qty = challan[c].qty
      /\ y.back = challan[c].back /\ y.posted = challan[c].posted /\ y.order = challan[c].order
      /\ y.bill = i
    BY <1>0 DEF Challan
<1> HIDE DEF x, y
<1>5. challan' \in [Challans -> Challan]
    BY <1>2, <1>4, Types
<1>6. \A d \in Challans : d # c => challan'[d] = challan[d] /\ challan[d].bill # i
    BY <1>0, <1>2, Types DEF ChallansOK, ChallanOK, NoBill, Invoices
<1>7. challan'[c] = y /\ invoice'[i] = x /\ \A j \in Invoices : j # i => invoice'[j] = invoice[j]
    BY <1>2, Types
<1>8. ChallanOK(y, invoice')
    BY <1>0, <1>1, <1>4, <1>7, Types DEF ChallansOK, ChallanOK
<1>9. \A d \in Challans : d # c => ChallanOK(challan[d], invoice')
    BY <1>6, <1>7, Types DEF ChallansOK, ChallanOK, Challan
<1>10. ChallansOK'
    BY <1>6, <1>7, <1>8, <1>9 DEF ChallansOK
<1>11. /\ \A d \in Challans : /\ challan'[d].qty = challan[d].qty
                              /\ challan'[d].back = challan[d].back
       /\ \A d \in Challans : OutOf(challan'[d]) = OutOf(challan[d])
    BY <1>4, <1>6, <1>7 DEF OutOf
<1>12. OutOnChallans(challan') = OutOnChallans(challan) - g
    BY <1>11, Types, SameOut, OutTypes
<1>13. balance' = balance /\ adjusted' = adjusted /\ returning' = returning
    BY <1>2 DEF stock
<1>14. IssuedBy(invoice[i]) = 0
    BY <1>0 DEF IssuedBy
<1>15. /\ balance'[Shop].onHand = balance[Shop].onHand + g + IssuedBy(invoice[i]) - IssuedBy(x)
       /\ Policy = "BLOCK" => balance'[Shop].reserved <= balance'[Shop].onHand
    BY <1>1, <1>13, <1>14, Types DEF Balances, IInv, NeverOversold
<1>a. g \in Int
    OBVIOUS
<1> HIDE DEF g
<1> QED
    BY <1>a, <1>1, <1>2, <1>3, <1>5, <1>10, <1>11, <1>12, <1>13, <1>15, Types, BillStep

(* A bill of challans can be completed only for all they carried, so       *)
(* nothing has come back on them.                                          *)
LEMMA BilledWhole ==
    ASSUME IInv, NEW i \in Invoices, MatchesChallans(i), NEW c \in Challans, challan[c].bill = i
    PROVE  challan[c].back = 0
<1> DEFINE f == [d \in Challans |-> IF challan[d].bill = i THEN challan[d].qty ELSE 0]
<1>1. f \in [Challans -> Quantity]
    BY Types DEF Challan, Quantity
<1>2. invoice[i].qty = Sum(f)
    BY DEF MatchesChallans, LinkedTo
<1>3. f[c] = challan[c].qty
    OBVIOUS
<1> HIDE DEF f
<1>4. challan[c].qty <= invoice[i].qty
    BY <1>1, <1>2, <1>3, SumAtLeast
<1>5. i # NoBill
    BY DEF Invoices, NoBill
<1>6. invoice[i].qty = challan[c].qty - challan[c].back
    BY <1>5, Types DEF ChallansOK, ChallanOK
<1> QED
    BY <1>4, <1>6, Types DEF Challan, Quantity

(* Completing an invoice issues what no challan has issued, after giving   *)
(* back the reservation of its order.                                      *)
LEMMA CompleteInvoiceKeeps ==
    ASSUME IInv, UNCHANGED transfer, NEW i \in Invoices, CompleteInvoice(i)
    PROVE  IInv'
<1> DEFINE g == 0
           o == invoice[i].source
           q == invoice[i].qty
           issues == ~StockFromChallan(i)
           x == [invoice[i] EXCEPT !.status = "COMPLETED", !.issued = issues]
           n == Least(StillHeld(order, challan, invoice, o), q)
           b == IF LinkedTo(challan, i) = {} /\ o # NoOrder THEN Release(balance, Shop, n)
                ELSE balance
<1>0. /\ invoice[i] \in Invoice /\ invoice[i].status = "DRAFT" /\ q \in Quantity
      /\ o \in Orders \cup {NoOrder} /\ issues \in BOOLEAN
    BY Types DEF CompleteInvoice, Invoice, StockFromChallan
<1>1. /\ invoice' = [invoice EXCEPT ![i] = x]
      /\ balance' = IF issues THEN Move(b, Shop, -q) ELSE b
      /\ issues => Enough(b, Shop, q)
      /\ UNCHANGED <<adjusted, challan, returning>> /\ MatchesChallans(i)
    BY <1>0, Types DEF CompleteInvoice
<1>2. order' \in [Orders -> Order]
    <2>1. \A p \in Orders : Recomputed(order, challan, invoice', p, FALSE) \in Order
        BY Types, RecomputedType
    <2>2. order' = [p \in Orders |-> IF p \in OrdersOf(i)
                        THEN Recomputed(order, challan, invoice', p, FALSE) ELSE order[p]]
        BY DEF CompleteInvoice
    <2> QED
        BY <2>1, <2>2, Types
<1>3. /\ x \in Invoice /\ x.status = "COMPLETED" /\ x.qty = q /\ x.issued = issues
    BY <1>0 DEF Invoice, DocStatus
<1>4. o # NoOrder => n \in Nat
    BY <1>0, Types, HeldType DEF Least, Quantity
<1> HIDE DEF n, x, issues
<1>5. /\ b \in Balances
      /\ b[Shop].reserved <= balance[Shop].reserved
      /\ \A w \in Godowns : /\ w # Shop => b[w].reserved = balance[w].reserved
                            /\ b[w].onHand = balance[w].onHand
    <2>1. CASE b = balance
        BY <2>1, Types DEF Balances
    <2>2. CASE b = Release(balance, Shop, n) /\ n \in Nat
        BY <2>2, BalanceType, ReleaseEffect
    <2> QED
        BY <1>4, <2>1, <2>2
<1> HIDE DEF b
<1>6. /\ Shop \in Godowns /\ balance[Shop].onHand \in Int /\ balance[Shop].reserved \in Nat
      /\ b[Shop].reserved \in Nat /\ b[Shop].onHand \in Int /\ q \in Nat
    BY <1>0, <1>5, Types DEF Balances, Quantity
<1>7. Policy = "BLOCK" => balance[Shop].reserved <= balance[Shop].onHand
    BY <1>6 DEF IInv, NeverOversold
<1>8. issues => (Policy = "BLOCK" => b[Shop].onHand - b[Shop].reserved >= q)
    BY <1>1 DEF Enough, Available
<1>9. IssuedBy(invoice[i]) = 0 /\ IssuedBy(x) = IF issues THEN q ELSE 0
    BY <1>0, <1>3 DEF IssuedBy
<1> HIDE DEF q
<1>10. /\ balance' \in Balances
       /\ balance'[Shop].onHand = balance[Shop].onHand + g + IssuedBy(invoice[i]) - IssuedBy(x)
       /\ \A w \in Godowns \ {Shop} : /\ balance'[w].onHand = balance[w].onHand
                                      /\ balance'[w].reserved = balance[w].reserved
       /\ Policy = "BLOCK" => balance'[Shop].reserved <= balance'[Shop].onHand
    <2>1. CASE issues
        <3>1. -q \in Int
            BY <1>6
        <3>2. /\ balance' \in Balances
              /\ balance'[Shop].onHand = b[Shop].onHand + (-q)
              /\ \A v \in Godowns : /\ v # Shop => balance'[v].onHand = b[v].onHand
                                    /\ balance'[v].reserved = b[v].reserved
            BY <1>1, <1>5, <1>6, <2>1, <3>1, MoveEffect
        <3> QED
            BY <1>5, <1>6, <1>8, <1>9, <2>1, <3>2
    <2>2. CASE ~issues
        BY <1>1, <1>5, <1>6, <1>7, <1>9, <2>2
    <2> QED
        BY <2>1, <2>2
<1>11. /\ invoice'[i] = x /\ \A j \in Invoices : j # i => invoice'[j] = invoice[j]
    BY <1>1, Types
<1>12. ChallansOK'
    <2>1. \A c \in Challans : challan[c].bill = i => challan[c].back = 0
        BY <1>1, BilledWhole
    <2>2. \A c \in Challans : ChallanOK(challan[c], invoice')
        BY <1>0, <1>3, <1>11, <2>1, Types DEF ChallansOK, ChallanOK, Challan, q
    <2> QED
        BY <1>1, <2>2 DEF ChallansOK
<1>13. OutOnChallans(challan') = OutOnChallans(challan) - g
    BY <1>1, Types, OutTypes
<1>a. g \in Int
    OBVIOUS
<1> HIDE DEF g
<1> QED
    BY <1>a, <1>1, <1>2, <1>3, <1>10, <1>12, <1>13, Types, BillStep

(* A deleted draft invoice took no goods; its challans can be billed       *)
(* again.                                                                  *)
LEMMA DeleteInvoiceKeeps ==
    ASSUME IInv, UNCHANGED transfer, NEW i \in Invoices, DeleteInvoice(i)
    PROVE  IInv'
<1> DEFINE g == 0
           x == [NoInvoice EXCEPT !.status = "DELETED"]
           o == invoice[i].source
<1>0. invoice[i].status = "DRAFT" /\ o \in Orders \cup {NoOrder}
    BY Types DEF DeleteInvoice, Invoice
<1>1. /\ invoice' = [invoice EXCEPT ![i] = x]
      /\ challan' = [c \in Challans |-> IF challan[c].bill = i THEN [challan[c] EXCEPT !.bill = NoBill]
                                        ELSE challan[c]]
      /\ UNCHANGED <<stock, returning>>
    BY DEF DeleteInvoice
<1>2. x \in Invoice /\ x.status = "DELETED"
    <2>1. NoInvoice \in Invoice
        BY Types DEF NoInvoice, Invoice, DocStatus, Quantity
    <2> QED
        BY <2>1 DEF Invoice, DocStatus
<1> HIDE DEF x
<1>3. \A c \in Challans : /\ challan'[c] \in Challan
                          /\ challan'[c].qty = challan[c].qty /\ challan'[c].back = challan[c].back
                          /\ challan'[c].status = challan[c].status
                          /\ challan'[c].posted = challan[c].posted
                          /\ challan'[c].order = challan[c].order
                          /\ challan'[c].bill = IF challan[c].bill = i THEN NoBill ELSE challan[c].bill
    BY <1>1, Types DEF Challan
<1>4. challan' \in [Challans -> Challan]
    BY <1>1, <1>3
<1>5. \A j \in Invoices : j # i => invoice'[j] = invoice[j]
    BY <1>1, Types
<1>6. ChallansOK'
    <2>1. \A c \in Challans : ChallanOK(challan'[c], invoice')
        BY <1>3, <1>5, Types DEF ChallansOK, ChallanOK, Challan
    <2> QED
        BY <2>1 DEF ChallansOK
<1>7. OutOnChallans(challan') = OutOnChallans(challan) - g
    <2>1. \A c \in Challans : OutOf(challan'[c]) = OutOf(challan[c])
        BY <1>3 DEF OutOf
    <2> QED
        BY <2>1, Types, SameOut, OutTypes
<1>8. order' \in [Orders -> Order]
    <2> DEFINE unlinked == [p \in Orders |-> IF order[p].bill = i THEN [order[p] EXCEPT !.bill = NoBill]
                                             ELSE order[p]]
               given == [unlinked EXCEPT ![o] = Discarded(order, challan', invoice', o, i)]
    <2>1. unlinked \in [Orders -> Order]
        BY Types DEF Order
    <2>2. order' = IF o = NoOrder THEN unlinked
                   ELSE [given EXCEPT ![o] = Recomputed(given, challan', invoice', o, FALSE)]
        BY DEF DeleteInvoice
    <2> HIDE DEF unlinked
    <2>3. CASE o = NoOrder
        BY <2>1, <2>2, <2>3
    <2>4. CASE o # NoOrder
        <3>1. o \in Orders
            BY <1>0, <2>4
        <3>2. Discarded(order, challan', invoice', o, i) \in Order
            BY <3>1, Types, DiscardedType
        <3>3. given \in [Orders -> Order]
            BY <2>1, <3>2
        <3> HIDE DEF given
        <3>4. Recomputed(given, challan', invoice', o, FALSE) \in Order
            BY <3>1, <3>3, RecomputedType
        <3> QED
            BY <2>2, <2>4, <3>3, <3>4
    <2> QED
        BY <2>3, <2>4
<1>9. balance' = balance /\ adjusted' = adjusted /\ returning' = returning
    BY <1>1 DEF stock
<1>10. IssuedBy(invoice[i]) = 0 /\ IssuedBy(x) = 0
    BY <1>0, <1>2 DEF IssuedBy
<1>11. /\ balance'[Shop].onHand = balance[Shop].onHand + g + IssuedBy(invoice[i]) - IssuedBy(x)
       /\ Policy = "BLOCK" => balance'[Shop].reserved <= balance'[Shop].onHand
    BY <1>9, <1>10, Types DEF Balances, IInv, NeverOversold
<1>a. g \in Int
    OBVIOUS
<1> HIDE DEF g
<1> QED
    BY <1>a, <1>1, <1>2, <1>3, <1>4, <1>6, <1>7, <1>8, <1>9, <1>11, Types, BillStep

(* Challans whose goods come back with a cancelled bill were out with all  *)
(* of them.                                                                *)
LEMMA UndoneOut ==
    ASSUME NEW ch \in [Challans -> Challan], NEW new, Fits(ch), NEW U \in SUBSET Challans,
           \A c \in Challans : OutOf(new[c]) = IF c \in U THEN 0 ELSE OutOf(ch[c]),
           \A c \in U : OutOf(ch[c]) = ch[c].qty
    PROVE  /\ Sum([c \in Challans |-> IF c \in U THEN ch[c].qty ELSE 0]) \in Nat
           /\ OutOnChallans(new)
                = OutOnChallans(ch) - Sum([c \in Challans |-> IF c \in U THEN ch[c].qty ELSE 0])
<1> DEFINE f == [c \in Challans |-> OutOf(ch[c])]
           g == [c \in Challans |-> IF c \in U THEN ch[c].qty ELSE 0]
           h == [c \in Challans |-> f[c] - g[c]]
<1>0. MaxQty \in Nat
    BY StockAssumption
<1>1. f \in [Challans -> Quantity] /\ g \in [Challans -> Quantity]
    BY <1>0 DEF OutOf, Challan, Quantity, Fits
<1>2. \A c \in Challans : f[c] \in Nat /\ g[c] \in Nat
    BY <1>1, <1>0 DEF Quantity
<1>3. \A c \in Challans : g[c] <= f[c] /\ f[c] - g[c] = OutOf(new[c])
    <2> TAKE c \in Challans
    <2>1. CASE c \in U
        BY <1>2, <2>1
    <2>2. CASE c \notin U
        BY <1>2, <2>2
    <2> QED
        BY <2>1, <2>2
<1>4. OutOnChallans(new) = Sum(h)
    <2>1. [c \in Challans |-> OutOf(new[c])] = h
        BY <1>3
    <2> QED
        BY <2>1 DEF OutOnChallans
<1> HIDE DEF f, g
<1>5. Sum(h) = Sum(f) - Sum(g)
    BY <1>1, <1>3, OrderSumFacts
<1>6. Sum(g) \in Nat
    BY <1>1, SumNat
<1> QED
    BY <1>4, <1>5, <1>6 DEF f, g, OutOnChallans

(* Orders stay well formed when an invoice is cancelled.                   *)
LEMMA AfterCancelType ==
    ASSUME IInv, NEW ch, NEW inv, NEW i, NEW o \in Orders
    PROVE  OrderAfterCancel(ch, inv, i, o) \in Order
<1> DEFINE r == order[o]
           cleared == IF r.bill = i /\ r.status # "CONVERTED" THEN [r EXCEPT !.bill = NoBill] ELSE r
           od == [order EXCEPT ![o] = cleared]
           y == Recomputed(od, ch, inv, o, TRUE)
<1>1. r \in Order
    BY Types
<1>2. cleared \in Order
    BY <1>1 DEF Order
<1>3. OrderAfterCancel(ch, inv, i, o)
        = IF invoice[i].source = o \/ cleared.bill = i
          THEN [y EXCEPT !.bill = IF y.bill = i THEN NoBill ELSE y.bill] ELSE cleared
    BY DEF OrderAfterCancel
<1> HIDE DEF cleared
<1>4. od \in [Orders -> Order]
    BY <1>2, Types
<1> HIDE DEF od
<1>5. y \in Order
    BY <1>4, RecomputedType
<1> HIDE DEF y
<1>6. [y EXCEPT !.bill = IF y.bill = i THEN NoBill ELSE y.bill] \in Order
    BY <1>5 DEF Order
<1> QED
    BY <1>2, <1>3, <1>6

(* Cancelling an invoice brings back what it issued, or else what its      *)
(* challans posted.                                                        *)
LEMMA CancelInvoiceKeeps ==
    ASSUME IInv, UNCHANGED transfer, NEW i \in Invoices, CancelInvoice(i)
    PROVE  IInv'
<1> DEFINE done == invoice[i].status = "COMPLETED"
           own == done /\ invoice[i].issued
           U == IF done /\ ~invoice[i].issued
                THEN {c \in LinkedTo(challan, i) : challan[c].posted} ELSE {}
           g == Sum([c \in Challans |-> IF c \in U THEN challan[c].qty ELSE 0])
           goods == IF own THEN invoice[i].qty ELSE g
           x == [invoice[i] EXCEPT !.status = "CANCELLED"]
           b == Move(balance, Shop, goods)
<1>0. /\ invoice[i] \in Invoice /\ invoice[i].qty \in Nat /\ i # NoBill
      /\ \A c \in U : c \in Challans /\ challan[c].bill = i /\ challan[c].posted /\ done
      /\ U \in SUBSET Challans
    BY Types DEF Invoice, Quantity, LinkedTo, Invoices, NoBill
<1>1. /\ invoice' = [invoice EXCEPT ![i] = x]
      /\ challan' = [c \in Challans |-> IF c \in U
                        THEN [challan[c] EXCEPT !.posted = FALSE, !.bill = NoBill] ELSE challan[c]]
      /\ UNCHANGED <<adjusted, returning>>
      /\ balance' = b \/ HoldAgain(b, invoice[i].source, invoice[i].qty)
    BY <1>0, Types DEF CancelInvoice
<1>2. order' \in [Orders -> Order]
    <2>1. \A p \in Orders : OrderAfterCancel(challan', invoice', i, p) \in Order
        BY AfterCancelType
    <2>2. order' = [p \in Orders |-> OrderAfterCancel(challan', invoice', i, p)]
        BY DEF CancelInvoice
    <2> QED
        BY <2>1, <2>2
<1>3. x \in Invoice /\ x.status = "CANCELLED" /\ x.qty = invoice[i].qty /\ IssuedBy(x) = 0
    BY <1>0 DEF Invoice, DocStatus, IssuedBy
<1>4. IssuedBy(invoice[i]) = IF own THEN invoice[i].qty ELSE 0
    BY DEF IssuedBy
<1>5. own => U = {}
    OBVIOUS
<1> HIDE DEF x, U
<1>6. \A c \in Challans : /\ challan'[c] \in Challan
                          /\ challan'[c].qty = challan[c].qty /\ challan'[c].back = challan[c].back
                          /\ challan'[c].status = challan[c].status
                          /\ challan'[c].order = challan[c].order
                          /\ c \in U => challan'[c].bill = NoBill /\ challan'[c].posted = FALSE
                          /\ c \notin U => challan'[c] = challan[c]
    <2> TAKE c \in Challans
    <2>1. challan[c] \in Challan
        BY Types
    <2>2. CASE c \in U
        <3> DEFINE y == [challan[c] EXCEPT !.posted = FALSE, !.bill = NoBill]
        <3>1. challan'[c] = y
            BY <1>1, <2>2
        <3>2. /\ y \in Challan /\ y.qty = challan[c].qty /\ y.back = challan[c].back
              /\ y.status = challan[c].status /\ y.order = challan[c].order
              /\ y.bill = NoBill /\ y.posted = FALSE
            BY <2>1 DEF Challan
        <3> QED
            BY <2>2, <3>1, <3>2
    <2>3. CASE c \notin U
        BY <1>1, <2>1, <2>3
    <2> QED
        BY <2>2, <2>3
<1>7. challan' \in [Challans -> Challan]
    BY <1>1, <1>6
<1>8. invoice'[i] = x /\ \A j \in Invoices : j # i => invoice'[j] = invoice[j]
    BY <1>1, Types
<1>9. ChallansOK'
    <2>1. \A c \in U : ChallanOK(challan'[c], invoice')
        BY <1>0, <1>6, Types DEF ChallansOK, ChallanOK
    <2>2. \A c \in Challans \ U : ChallanOK(challan'[c], invoice')
        BY <1>3, <1>6, <1>8, Types DEF ChallansOK, ChallanOK, Challan
    <2> QED
        BY <2>1, <2>2 DEF ChallansOK
<1>10. \A c \in U : OutOf(challan[c]) = challan[c].qty
    <2> TAKE c \in U
    <2>1. c \in Challans /\ challan[c].back = 0 /\ challan[c].qty \in Nat /\ challan[c].posted
        BY <1>0, Types DEF ChallansOK, ChallanOK, Challan, Quantity
    <2> QED
        BY <2>1 DEF OutOf
<1>11. \A c \in Challans : OutOf(challan'[c]) = IF c \in U THEN 0 ELSE OutOf(challan[c])
    BY <1>6 DEF OutOf
<1>12. g \in Nat /\ OutOnChallans(challan') = OutOnChallans(challan) - g
    <2>1. challan \in [Challans -> Challan] /\ Fits(challan) /\ U \in SUBSET Challans
        BY <1>0, Types
    <2>2. g = Sum([c \in Challans |-> IF c \in U THEN challan[c].qty ELSE 0])
        OBVIOUS
    <2> HIDE DEF g, U
    <2>3. /\ Sum([c \in Challans |-> IF c \in U THEN challan[c].qty ELSE 0]) \in Nat
          /\ OutOnChallans(challan')
                = OutOnChallans(challan)
                     - Sum([c \in Challans |-> IF c \in U THEN challan[c].qty ELSE 0])
        BY <1>10, <1>11, <2>1, UndoneOut
    <2> QED
        BY <2>2, <2>3
<1>13. own => g = 0
    <2> SUFFICES ASSUME own PROVE g = 0
        OBVIOUS
    <2>1. [c \in Challans |-> IF c \in U THEN challan[c].qty ELSE 0] = [c \in Challans |-> 0]
        BY <1>5
    <2>2. Sum([c \in Challans |-> 0]) = 0
        BY OrderSumFacts
    <2> QED
        BY <2>1, <2>2
<1> HIDE DEF g, done
<1>14. goods \in Nat /\ goods \in Int /\ goods = g + IssuedBy(invoice[i]) - IssuedBy(x)
    BY <1>0, <1>3, <1>4, <1>12, <1>13
<1> HIDE DEF goods
<1>15. /\ b \in Balances
       /\ b[Shop].onHand = balance[Shop].onHand + goods /\ b[Shop].reserved = balance[Shop].reserved
       /\ \A w \in Godowns \ {Shop} : /\ b[w].onHand = balance[w].onHand
                                      /\ b[w].reserved = balance[w].reserved
    BY <1>14, BalanceType, MoveEffect
<1> HIDE DEF b
<1>16. /\ balance' \in Balances
       /\ balance'[Shop].onHand = balance[Shop].onHand + goods
       /\ \A w \in Godowns \ {Shop} : /\ balance'[w].onHand = balance[w].onHand
                                      /\ balance'[w].reserved = balance[w].reserved
       /\ Policy = "BLOCK" => balance'[Shop].reserved <= balance'[Shop].onHand
    BY <1>0, <1>1, <1>14, <1>15, GoodsBack
<1>17. balance'[Shop].onHand = balance[Shop].onHand + g + IssuedBy(invoice[i]) - IssuedBy(x)
    <2>1. balance[Shop].onHand \in Int /\ IssuedBy(invoice[i]) \in Int /\ IssuedBy(x) \in Int
        BY <1>0, <1>3, <1>4, Types DEF Balances
    <2> QED
        BY <1>12, <1>14, <1>16, <2>1
<1>18. g \in Int
    BY <1>12
<1> QED
    BY <1>1, <1>2, <1>3, <1>6, <1>7, <1>9, <1>12, <1>16, <1>17, <1>18, BillStep

-----------------------------------------------------------------------------
(* Transfers and adjustments.                                              *)

(* A step on one transfer whose movements are the change of what it        *)
(* carried keeps the invariant.                                            *)
LEMMA TransferStep ==
    ASSUME IInv, UNCHANGED <<adjusted, order, challan, invoice, returning>>,
           balance' \in Balances,
           NEW t \in Transfers, NEW x \in Transfer, transfer' = [transfer EXCEPT ![t] = x],
           x.status # "NONE" => x.from # x.to /\ x.from # Transit /\ x.to # Transit,
           x.status \in {"NONE", "DRAFT", "DISPATCHED"} =>
              x.settled = "open" /\ x.short = 0 /\ x.received = 0,
           x.status = "COMPLETED" => x.received + x.short = x.qty,
           \A w \in Godowns :
               /\ balance'[w].onHand = balance[w].onHand - Carried(transfer[t], w) + Carried(x, w)
               /\ balance'[w].reserved = balance[w].reserved
               /\ Policy = "BLOCK" => balance'[w].reserved <= balance'[w].onHand
    PROVE  IInv'
<1>1. /\ transfer' \in [Transfers -> Transfer] /\ transfer'[t] = x
      /\ \A u \in Transfers : u # t => transfer'[u] = transfer[u]
    BY Types
<1>2. StockTypeOK' /\ ChallansOK' /\ ReturnsFit'
    BY <1>1, Types DEF IInv, StockTypeOK, Balances, ChallansOK, ReturnsFit
<1>3. TransfersOK'
    BY <1>1 DEF IInv, RowsOK, TransfersOK
<1>4. TransitOK' /\ NeverOversold'
    BY DEF IInv, TransitOK, NeverOversold
<1>5. GoodsAccountedFor'
    <2> SUFFICES ASSUME NEW w \in Godowns
                 PROVE  balance'[w].onHand = adjusted'[w] - Sold(w)' + Transferred(w)'
        BY DEF GoodsAccountedFor
    <2> DEFINE f == [u \in Transfers |-> Carried(transfer[u], w)]
               h == [u \in Transfers |-> Carried(transfer'[u], w)]
    <2>1. f \in [Transfers -> -MaxQty .. MaxQty] /\ h \in [Transfers -> -MaxQty .. MaxQty]
        BY <1>1, <1>3, Types, CarriedType DEF IInv, RowsOK, TransfersOK
    <2>2. \A u \in Transfers : u # t => h[u] = f[u]
        BY <1>1
    <2>3. f[t] = Carried(transfer[t], w) /\ h[t] = Carried(x, w)
        BY <1>1
    <2>4. Transferred(w) = Sum(f) /\ Transferred(w)' = Sum(h)
        BY DEF Transferred, Carried
    <2> HIDE DEF f, h
    <2>5. Sum(h) = Sum(f) - f[t] + h[t]
        BY <2>1, <2>2, TransferSumUpdate
    <2>6. Sum(f) \in Int /\ f[t] \in Int /\ h[t] \in Int
        BY <2>1, Types, TransferSumFacts
    <2>7. Sold(w)' = Sold(w) /\ Sold(w) \in Int
        <3>1. Sold(w)' = Sold(w)
            BY DEF Sold, OutOnChallan, OutOnInvoice
        <3>2. Out(challan, invoice) \in Int
            BY Types, OutTypes DEF Out
        <3> QED
            BY <3>1, <3>2, SoldIsOut
    <2>8. balance[w].onHand = adjusted[w] - Sold(w) + Transferred(w) /\ adjusted[w] \in Int
        BY DEF IInv, GoodsAccountedFor, StockTypeOK
    <2>9. balance'[w].onHand = balance[w].onHand - f[t] + h[t] /\ adjusted'[w] = adjusted[w]
        BY <2>3
    <2> QED
        BY <2>4, <2>5, <2>6, <2>7, <2>8, <2>9
<1> QED
    BY <1>2, <1>3, <1>4, <1>5 DEF IInv, RowsOK

(* Two movements in different godowns.                                     *)
LEMMA TwoMoves ==
    ASSUME NEW b \in Balances, NEW u \in Godowns, NEW v \in Godowns, u # v,
           NEW m \in Int, NEW n \in Int
    PROVE  LET a == Move(Move(b, u, m), v, n) IN
           /\ a \in Balances
           /\ a[u].onHand = b[u].onHand + m
           /\ a[v].onHand = b[v].onHand + n
           /\ \A w \in Godowns : /\ w # u /\ w # v => a[w].onHand = b[w].onHand
                                 /\ a[w].reserved = b[w].reserved
<1> DEFINE d == Move(b, u, m)
           a == Move(d, v, n)
<1>1. /\ d \in Balances
      /\ d[u].onHand = b[u].onHand + m
      /\ \A w \in Godowns : /\ w # u => d[w].onHand = b[w].onHand
                            /\ d[w].reserved = b[w].reserved
    BY MoveEffect
<1> HIDE DEF d
<1>2. /\ a \in Balances
      /\ a[v].onHand = d[v].onHand + n
      /\ \A w \in Godowns : /\ w # v => a[w].onHand = d[w].onHand
                            /\ a[w].reserved = d[w].reserved
    BY <1>1, MoveEffect
<1> HIDE DEF a
<1> QED
    BY <1>1, <1>2 DEF a, d

(* The row of a transfer that exists.                                      *)
LEMMA TransferRow ==
    ASSUME IInv, NEW t \in Transfers
    PROVE  LET x == transfer[t] IN
           /\ x \in Transfer /\ x.from \in Godowns /\ x.to \in Godowns
           /\ x.qty \in Nat /\ x.short \in Nat /\ x.received \in Nat /\ x.qty <= MaxQty
           /\ x.status # "NONE" => x.from # x.to /\ x.from # Transit /\ x.to # Transit
           /\ x.status \in {"NONE", "DRAFT", "DISPATCHED"} =>
                 x.settled = "open" /\ x.short = 0 /\ x.received = 0
           /\ x.status = "COMPLETED" => x.received + x.short = x.qty
BY Types DEF IInv, RowsOK, TransfersOK, Transfer

(* Nobody promises what is in transit, and what is there covers each       *)
(* transfer under way.                                                     *)
LEMMA TransitCovers ==
    ASSUME IInv, NEW t \in Transfers
    PROVE  /\ balance[Transit].reserved = 0
           /\ OnTheRoad(transfer[t]) <= balance[Transit].onHand
<1>1. balance[Transit].reserved = 0 /\ adjusted[Transit] = 0
    BY Types DEF IInv, TransitOK
<1>2. OnTheRoad(transfer[t]) <= Transferred(Transit) /\ Transferred(Transit) \in Int
    BY Types, TransferTotals DEF IInv, RowsOK
<1>3. Sold(Transit) = 0
    BY Types, SoldIsOut
<1>4. balance[Transit].onHand = adjusted[Transit] - Sold(Transit) + Transferred(Transit)
    BY Types DEF IInv, GoodsAccountedFor
<1> QED
    BY <1>1, <1>2, <1>3, <1>4

(* Under BLOCK every godown can spare what is available.                   *)
LEMMA NotOver ==
    ASSUME IInv
    PROVE  \A w \in Godowns : /\ balance[w].onHand \in Int /\ balance[w].reserved \in Nat
                              /\ Policy = "BLOCK" => balance[w].reserved <= balance[w].onHand
BY Types DEF IInv, NeverOversold, Balances

(* A draft transfer moves nothing, nor does cancelling it.                 *)
LEMMA DraftKeeps ==
    ASSUME IInv, UNCHANGED documents, NEW t \in Transfers, NEW r \in Route, NEW q \in 1 .. MaxQty,
           Draft(t, r, q)
    PROVE  IInv'
<1> DEFINE x == DraftTransfer(r, q)
           y == transfer[t]
<1>1. /\ x \in Transfer /\ x.status = "DRAFT" /\ x.from # x.to /\ x.from # Transit /\ x.to # Transit
      /\ x.settled = "open" /\ x.short = 0 /\ x.received = 0
    BY Types DEF DraftTransfer, Route, Transfer
<1>2. y.status = "NONE" /\ transfer' = [transfer EXCEPT ![t] = x] /\ balance' = balance
      /\ UNCHANGED <<adjusted, order, challan, invoice, returning>>
    BY DEF Draft, stock, documents
<1> HIDE DEF x, y
<1>3. \A w \in Godowns : Carried(y, w) = 0 /\ Carried(x, w) = 0
    BY <1>1, <1>2 DEF Carried, OnTheRoad, AtSource, AtDestination, OpenShortage
<1>4. \A w \in Godowns :
          /\ balance'[w].onHand = balance[w].onHand - Carried(y, w) + Carried(x, w)
          /\ balance'[w].reserved = balance[w].reserved
          /\ Policy = "BLOCK" => balance'[w].reserved <= balance'[w].onHand
    BY <1>2, <1>3, NotOver
<1> QED
    BY <1>1, <1>2, <1>4, Types, TransferStep DEF y

(* A cancelled draft carried nothing.                                      *)
LEMMA CancelDraftKeeps ==
    ASSUME IInv, UNCHANGED documents, NEW t \in Transfers, CancelDraft(t)
    PROVE  IInv'
<1> DEFINE y == transfer[t]
           x == [y EXCEPT !.status = "CANCELLED"]
<1>1. y \in Transfer /\ y.status = "DRAFT" /\ y.settled = "open"
      /\ y.from # y.to /\ y.from # Transit /\ y.to # Transit
    BY TransferRow DEF CancelDraft
<1>2. /\ x \in Transfer /\ x.status = "CANCELLED" /\ x.from = y.from /\ x.to = y.to
      /\ x.settled = y.settled
    BY <1>1 DEF Transfer
<1>3. transfer' = [transfer EXCEPT ![t] = x] /\ balance' = balance
      /\ UNCHANGED <<adjusted, order, challan, invoice, returning>>
    BY Types DEF CancelDraft, stock, documents
<1> HIDE DEF x, y
<1>4. \A w \in Godowns : Carried(y, w) = 0 /\ Carried(x, w) = 0
    BY <1>1, <1>2 DEF Carried, OnTheRoad, AtSource, AtDestination, OpenShortage
<1>5. \A w \in Godowns :
          /\ balance'[w].onHand = balance[w].onHand - Carried(y, w) + Carried(x, w)
          /\ balance'[w].reserved = balance[w].reserved
          /\ Policy = "BLOCK" => balance'[w].reserved <= balance'[w].onHand
    BY <1>3, <1>4, NotOver
<1> QED
    BY <1>1, <1>2, <1>3, <1>5, Types, TransferStep DEF y

(* Dispatching moves the line from the source into transit.                *)
LEMMA DispatchKeeps ==
    ASSUME IInv, UNCHANGED documents, NEW t \in Transfers, Dispatch(t)
    PROVE  IInv'
<1> DEFINE y == transfer[t]
           x == [y EXCEPT !.status = "DISPATCHED"]
<1>1. /\ y \in Transfer /\ y.status = "DRAFT" /\ y.settled = "open" /\ y.short = 0 /\ y.received = 0
      /\ y.from # y.to /\ y.from # Transit /\ y.to # Transit /\ y.from \in Godowns
      /\ y.qty \in Nat /\ -y.qty \in Int
    BY TransferRow DEF Dispatch
<1>2. /\ x \in Transfer /\ x.status = "DISPATCHED" /\ x.from = y.from /\ x.to = y.to
      /\ x.settled = y.settled /\ x.qty = y.qty /\ x.short = y.short /\ x.received = y.received
    BY <1>1 DEF Transfer
<1>3. /\ transfer' = [transfer EXCEPT ![t] = x]
      /\ balance' = Move(Move(balance, y.from, -y.qty), Transit, y.qty)
      /\ Policy = "BLOCK" => balance[y.from].onHand - balance[y.from].reserved >= y.qty
      /\ UNCHANGED <<adjusted, order, challan, invoice, returning>>
    BY Types DEF Dispatch, documents, Enough, Available
<1> HIDE DEF x, y
<1>4. /\ balance' \in Balances
      /\ balance'[y.from].onHand = balance[y.from].onHand + (-y.qty)
      /\ balance'[Transit].onHand = balance[Transit].onHand + y.qty
      /\ \A w \in Godowns : /\ w # y.from /\ w # Transit => balance'[w].onHand = balance[w].onHand
                            /\ balance'[w].reserved = balance[w].reserved
    <2> DEFINE u == y.from
               m == -y.qty
               n == y.qty
    <2>1. n \in Int /\ m \in Int /\ u \in Godowns /\ Transit \in Godowns /\ u # Transit
          /\ balance \in Balances
        BY <1>1, Types
    <2> HIDE DEF u, m, n
    <2>2. LET a == Move(Move(balance, u, m), Transit, n) IN
          /\ a \in Balances
          /\ a[u].onHand = balance[u].onHand + m
          /\ a[Transit].onHand = balance[Transit].onHand + n
          /\ \A w \in Godowns : /\ w # u /\ w # Transit => a[w].onHand = balance[w].onHand
                                /\ a[w].reserved = balance[w].reserved
        BY <2>1, TwoMoves
    <2> QED
        BY <1>3, <2>2 DEF u, m, n
<1>5. \A w \in Godowns : /\ Carried(y, w) = 0
                         /\ Carried(x, w) = IF w = Transit THEN y.qty
                                            ELSE IF w = y.from THEN -y.qty ELSE 0
    BY <1>1, <1>2 DEF Carried, OnTheRoad, AtSource, AtDestination, OpenShortage
<1>6. \A w \in Godowns :
          /\ balance'[w].onHand = balance[w].onHand - Carried(y, w) + Carried(x, w)
          /\ balance'[w].reserved = balance[w].reserved
          /\ Policy = "BLOCK" => balance'[w].reserved <= balance'[w].onHand
    BY <1>1, <1>3, <1>4, <1>5, NotOver
<1> QED
    BY <1>1, <1>2, <1>3, <1>4, <1>6, Types, TransferStep, ZenonT(60) DEF y

(* A receipt moves what arrived; the rest is a shortage, still in transit. *)
LEMMA ReceiveKeeps ==
    ASSUME IInv, UNCHANGED documents, NEW t \in Transfers, NEW n \in 0 .. MaxQty, Receive(t, n)
    PROVE  IInv'
<1> DEFINE y == transfer[t]
           x == [y EXCEPT !.status = "COMPLETED", !.received = n, !.short = y.qty - n]
<1>1. /\ y \in Transfer /\ y.status = "DISPATCHED" /\ y.settled = "open"
      /\ y.from # y.to /\ y.from # Transit /\ y.to # Transit /\ y.to \in Godowns
      /\ y.qty \in 0 .. MaxQty /\ n \in 0 .. y.qty /\ -n \in Int /\ MaxQty \in Nat
    BY TransferRow, Types DEF Receive
<1>2. /\ x \in Transfer /\ x.status = "COMPLETED" /\ x.from = y.from /\ x.to = y.to
      /\ x.settled = y.settled /\ x.qty = y.qty /\ x.short = y.qty - n /\ x.received = n
    <2>1. y.qty - n \in 0 .. MaxQty /\ n \in 0 .. MaxQty
        BY <1>1
    <2> QED
        BY <1>1, <2>1 DEF Transfer
<1>3. /\ transfer' = [transfer EXCEPT ![t] = x]
      /\ balance' = Move(Move(balance, Transit, -n), y.to, n)
      /\ Policy = "BLOCK" => balance[Transit].onHand - balance[Transit].reserved >= y.qty
      /\ UNCHANGED <<adjusted, order, challan, invoice, returning>>
    BY Types DEF Receive, documents, Enough, Available
<1> HIDE DEF x, y
<1>4. /\ balance' \in Balances
      /\ balance'[Transit].onHand = balance[Transit].onHand + (-n)
      /\ balance'[y.to].onHand = balance[y.to].onHand + n
      /\ \A w \in Godowns : /\ w # Transit /\ w # y.to => balance'[w].onHand = balance[w].onHand
                            /\ balance'[w].reserved = balance[w].reserved
    <2> DEFINE u == y.to
               m == -n
    <2>1. n \in Int /\ m \in Int /\ Transit \in Godowns /\ u \in Godowns /\ Transit # u
          /\ balance \in Balances
        BY <1>1, Types
    <2> HIDE DEF u, m
    <2>2. LET a == Move(Move(balance, Transit, m), u, n) IN
          /\ a \in Balances
          /\ a[Transit].onHand = balance[Transit].onHand + m
          /\ a[u].onHand = balance[u].onHand + n
          /\ \A w \in Godowns : /\ w # Transit /\ w # u => a[w].onHand = balance[w].onHand
                                /\ a[w].reserved = balance[w].reserved
        BY <2>1, TwoMoves
    <2> QED
        BY <1>3, <2>2 DEF u, m
<1>5. \A w \in Godowns : /\ Carried(y, w) = IF w = Transit THEN y.qty
                                            ELSE IF w = y.from THEN -y.qty ELSE 0
                         /\ Carried(x, w) = IF w = Transit THEN y.qty - n
                                            ELSE IF w = y.from THEN -y.qty
                                            ELSE IF w = y.to THEN n ELSE 0
    BY <1>1, <1>2 DEF Carried, OnTheRoad, AtSource, AtDestination, OpenShortage
<1>6. \A w \in Godowns :
          /\ balance'[w].onHand = balance[w].onHand - Carried(y, w) + Carried(x, w)
          /\ balance'[w].reserved = balance[w].reserved
          /\ Policy = "BLOCK" => balance'[w].reserved <= balance'[w].onHand
    BY <1>1, <1>3, <1>4, <1>5, NotOver
<1>7. x.received + x.short = x.qty
    BY <1>1, <1>2
<1> QED
    BY <1>1, <1>2, <1>3, <1>4, <1>6, <1>7, Types, TransferStep DEF y

(* Writing off takes an open shortage out of transit, where it is, though  *)
(* nobody checks it.                                                       *)
LEMMA WriteOffKeeps ==
    ASSUME IInv, UNCHANGED documents, NEW t \in Transfers, WriteOff(t)
    PROVE  IInv'
<1> DEFINE y == transfer[t]
           x == [y EXCEPT !.settled = "WRITE_OFF"]
<1>1. /\ y \in Transfer /\ y.status = "COMPLETED" /\ y.settled = "open" /\ y.short > 0
      /\ y.from # y.to /\ y.from # Transit /\ y.to # Transit
      /\ y.qty \in Nat /\ y.short \in Nat /\ y.received \in Nat /\ y.received + y.short = y.qty
      /\ -y.short \in Int
    BY TransferRow DEF WriteOff, OpenShortage
<1>2. /\ x \in Transfer /\ x.status = "COMPLETED" /\ x.from = y.from /\ x.to = y.to
      /\ x.settled = "WRITE_OFF" /\ x.qty = y.qty /\ x.short = y.short /\ x.received = y.received
    BY <1>1 DEF Transfer
<1>3. /\ transfer' = [transfer EXCEPT ![t] = x]
      /\ balance' = Move(balance, Transit, -y.short)
      /\ UNCHANGED <<adjusted, order, challan, invoice, returning>>
    BY Types DEF WriteOff, documents
<1>4. OnTheRoad(y) = y.short
    BY <1>1 DEF OnTheRoad, OpenShortage
<1>5. balance[Transit].reserved = 0 /\ y.short <= balance[Transit].onHand
    BY <1>4, TransitCovers
<1> HIDE DEF x, y
<1>6. /\ balance' \in Balances
      /\ balance'[Transit].onHand = balance[Transit].onHand + (-y.short)
      /\ \A w \in Godowns : /\ w # Transit => balance'[w].onHand = balance[w].onHand
                            /\ balance'[w].reserved = balance[w].reserved
    BY <1>1, <1>3, Types, MoveEffect
<1>7. \A w \in Godowns : Carried(x, w) = Carried(y, w) - (IF w = Transit THEN y.short ELSE 0)
                         /\ Carried(y, w) \in Int
    BY <1>1, <1>2 DEF Carried, OnTheRoad, AtSource, AtDestination, OpenShortage
<1>8. \A w \in Godowns :
          /\ balance'[w].onHand = balance[w].onHand - Carried(y, w) + Carried(x, w)
          /\ balance'[w].reserved = balance[w].reserved
          /\ Policy = "BLOCK" => balance'[w].reserved <= balance'[w].onHand
    BY <1>1, <1>5, <1>6, <1>7, NotOver
<1> QED
    BY <1>1, <1>2, <1>3, <1>6, <1>8, Types, TransferStep DEF y

(* Sending back moves an open shortage from transit to the source.         *)
LEMMA SendBackKeeps ==
    ASSUME IInv, UNCHANGED documents, NEW t \in Transfers, SendBack(t)
    PROVE  IInv'
<1> DEFINE y == transfer[t]
           x == [y EXCEPT !.settled = "RETURN"]
<1>1. /\ y \in Transfer /\ y.status = "COMPLETED" /\ y.settled = "open" /\ y.short > 0
      /\ y.from # y.to /\ y.from # Transit /\ y.to # Transit /\ y.from \in Godowns
      /\ y.qty \in Nat /\ y.short \in Nat /\ y.received \in Nat /\ y.received + y.short = y.qty
      /\ -y.short \in Int
    BY TransferRow DEF SendBack, OpenShortage
<1>2. /\ x \in Transfer /\ x.status = "COMPLETED" /\ x.from = y.from /\ x.to = y.to
      /\ x.settled = "RETURN" /\ x.qty = y.qty /\ x.short = y.short /\ x.received = y.received
    BY <1>1 DEF Transfer
<1>3. /\ transfer' = [transfer EXCEPT ![t] = x]
      /\ balance' = Move(Move(balance, Transit, -y.short), y.from, y.short)
      /\ Policy = "BLOCK" => balance[Transit].onHand - balance[Transit].reserved >= y.short
      /\ UNCHANGED <<adjusted, order, challan, invoice, returning>>
    BY Types DEF SendBack, documents, Enough, Available
<1> HIDE DEF x, y
<1>4. /\ balance' \in Balances
      /\ balance'[Transit].onHand = balance[Transit].onHand + (-y.short)
      /\ balance'[y.from].onHand = balance[y.from].onHand + y.short
      /\ \A w \in Godowns : /\ w # Transit /\ w # y.from => balance'[w].onHand = balance[w].onHand
                            /\ balance'[w].reserved = balance[w].reserved
    <2> DEFINE u == y.from
               m == -y.short
               n == y.short
    <2>1. n \in Int /\ m \in Int /\ Transit \in Godowns /\ u \in Godowns /\ Transit # u
          /\ balance \in Balances
        BY <1>1, Types
    <2> HIDE DEF u, m, n
    <2>2. LET a == Move(Move(balance, Transit, m), u, n) IN
          /\ a \in Balances
          /\ a[Transit].onHand = balance[Transit].onHand + m
          /\ a[u].onHand = balance[u].onHand + n
          /\ \A w \in Godowns : /\ w # Transit /\ w # u => a[w].onHand = balance[w].onHand
                                /\ a[w].reserved = balance[w].reserved
        BY <2>1, TwoMoves
    <2> QED
        BY <1>3, <2>2 DEF u, m, n
<1>5. \A w \in Godowns : /\ Carried(y, w) \in Int
                         /\ Carried(x, w) = Carried(y, w) + (IF w = Transit THEN -y.short
                                            ELSE IF w = y.from THEN y.short ELSE 0)
    BY <1>1, <1>2 DEF Carried, OnTheRoad, AtSource, AtDestination, OpenShortage
<1>6. \A w \in Godowns :
          /\ balance'[w].onHand = balance[w].onHand - Carried(y, w) + Carried(x, w)
          /\ balance'[w].reserved = balance[w].reserved
          /\ Policy = "BLOCK" => balance'[w].reserved <= balance'[w].onHand
    BY <1>1, <1>3, <1>4, <1>5, NotOver
<1> QED
    BY <1>1, <1>2, <1>3, <1>4, <1>6, Types, TransferStep DEF y

(* Cancelling gives the source what it sent less what was settled, and     *)
(* takes it from where it is: transit, the destination, or both.           *)
LEMMA CancelTransferKeeps ==
    ASSUME IInv, UNCHANGED documents, NEW t \in Transfers, CancelTransfer(t)
    PROVE  IInv'
<1> DEFINE y == transfer[t]
           x == [y EXCEPT !.status = "CANCELLED"]
           v == IF y.status = "COMPLETED" THEN y.to ELSE Transit
           n == IF y.status = "COMPLETED" THEN y.received ELSE y.qty
           m == y.qty - (IF y.settled = "open" THEN 0 ELSE y.short)
           k == IF OpenShortage(y) THEN y.short ELSE 0
           a == Move(balance, y.from, m)
           b == Move(a, v, -n)
<1>1. /\ y \in Transfer /\ y.status \in {"DISPATCHED", "COMPLETED"}
      /\ y.from # y.to /\ y.from # Transit /\ y.to # Transit /\ y.from \in Godowns /\ y.to \in Godowns
      /\ y.qty \in Nat /\ y.short \in Nat /\ y.received \in Nat
      /\ y.status = "DISPATCHED" => y.settled = "open" /\ y.short = 0 /\ y.received = 0
      /\ y.status = "COMPLETED" => y.received + y.short = y.qty
    BY TransferRow DEF CancelTransfer
<1>2. /\ x \in Transfer /\ x.status = "CANCELLED" /\ x.from = y.from /\ x.to = y.to
      /\ x.settled = y.settled /\ x.qty = y.qty /\ x.short = y.short /\ x.received = y.received
    BY <1>1 DEF Transfer
<1>3. /\ transfer' = [transfer EXCEPT ![t] = x]
      /\ balance' = Move(b, Transit, -k)
      /\ Policy = "BLOCK" => a[v].onHand - a[v].reserved >= n
      /\ Policy = "BLOCK" /\ k > 0 => b[Transit].onHand - b[Transit].reserved >= k
      /\ UNCHANGED <<adjusted, order, challan, invoice, returning>>
    BY Types DEF CancelTransfer, documents, Enough, Available
<1> HIDE DEF x
<1>4. /\ v \in Godowns /\ v # y.from /\ m \in Nat /\ n \in Nat /\ k \in Nat
      /\ m \in Int /\ -n \in Int /\ -k \in Int
    BY <1>1, Types DEF OpenShortage
<1>5. \A w \in Godowns : /\ Carried(y, w) \in Int
                         /\ Carried(x, w) = Carried(y, w)
                              + (IF w = y.from THEN m ELSE 0)
                              - (IF w = v THEN n ELSE 0)
                              - (IF w = Transit THEN k ELSE 0)
    <2>1. CASE y.status = "DISPATCHED"
        <3>1. /\ OnTheRoad(y) = n /\ AtDestination(y) = 0 /\ AtSource(y) = -m
              /\ v = Transit /\ k = 0 /\ n = m
            BY <1>1, <2>1 DEF OnTheRoad, AtSource, AtDestination, OpenShortage
        <3>2. OnTheRoad(x) = 0 /\ AtDestination(x) = 0 /\ AtSource(x) = 0
            BY <1>1, <1>2, <2>1 DEF OnTheRoad, AtSource, AtDestination, OpenShortage
        <3> HIDE DEF m, n, k, v
        <3> QED
            BY <1>1, <1>2, <1>4, <3>1, <3>2 DEF Carried
    <2>2. CASE y.status = "COMPLETED"
        <3>1. /\ OnTheRoad(y) = k /\ AtDestination(y) = n /\ v = y.to
              /\ AtSource(y) = IF y.settled = "RETURN" THEN y.short - y.qty ELSE -y.qty
              /\ OnTheRoad(x) = 0 /\ AtDestination(x) = 0
              /\ AtSource(x) = IF y.settled = "WRITE_OFF" THEN -y.short ELSE 0
            BY <1>2, <2>2 DEF OnTheRoad, AtSource, AtDestination, OpenShortage
        <3>2. AtSource(y) \in Int /\ AtSource(x) = AtSource(y) + m
            <4>1. y.settled \in {"open", "WRITE_OFF", "RETURN"}
                BY <1>1 DEF Transfer
            <4> QED
                BY <1>1, <3>1, <4>1
        <3> HIDE DEF m, n, k, v
        <3> SUFFICES ASSUME NEW w \in Godowns
                     PROVE  /\ Carried(y, w) \in Int
                            /\ Carried(x, w) = Carried(y, w)
                                 + (IF w = y.from THEN m ELSE 0)
                                 - (IF w = v THEN n ELSE 0)
                                 - (IF w = Transit THEN k ELSE 0)
            OBVIOUS
        <3>3. CASE w = Transit
            <4>1. Carried(y, w) = k /\ Carried(x, w) = 0
                BY <3>1, <3>3 DEF Carried
            <4> QED
                BY <1>1, <1>4, <3>1, <3>3, <4>1
        <3>4. CASE w = y.from
            <4>1. Carried(y, w) = AtSource(y) /\ Carried(x, w) = AtSource(x)
                BY <1>1, <1>2, <3>4 DEF Carried
            <4> QED
                BY <1>1, <1>4, <3>1, <3>2, <3>4, <4>1
        <3>5. CASE w = y.to
            <4>1. Carried(y, w) = n /\ Carried(x, w) = 0
                BY <1>1, <1>2, <3>1, <3>5 DEF Carried
            <4> QED
                BY <1>1, <1>4, <3>1, <3>5, <4>1
        <3>6. CASE w # Transit /\ w # y.from /\ w # y.to
            <4>1. Carried(y, w) = 0 /\ Carried(x, w) = 0
                BY <1>2, <3>6 DEF Carried
            <4> QED
                BY <1>1, <1>4, <3>1, <3>6, <4>1
        <3> QED
            BY <3>3, <3>4, <3>5, <3>6
    <2> QED
        BY <1>1, <2>1, <2>2
<1> HIDE DEF y, v, n, m, k
<1>6. /\ a \in Balances
      /\ a[y.from].onHand = balance[y.from].onHand + m
      /\ \A w \in Godowns : /\ w # y.from => a[w].onHand = balance[w].onHand
                            /\ a[w].reserved = balance[w].reserved
    BY <1>1, <1>4, Types, MoveEffect
<1> HIDE DEF a
<1>7. /\ b \in Balances
      /\ b[v].onHand = a[v].onHand + (-n)
      /\ \A w \in Godowns : /\ w # v => b[w].onHand = a[w].onHand
                            /\ b[w].reserved = a[w].reserved
    BY <1>4, <1>6, MoveEffect
<1> HIDE DEF b
<1>8. /\ balance' \in Balances
      /\ balance'[Transit].onHand = b[Transit].onHand + (-k)
      /\ \A w \in Godowns : /\ w # Transit => balance'[w].onHand = b[w].onHand
                            /\ balance'[w].reserved = b[w].reserved
    <2> DEFINE d == -k
    <2>1. balance' = Move(b, Transit, d)
        BY <1>3
    <2>2. d \in Int /\ Transit \in Godowns
        BY <1>4, Types
    <2> HIDE DEF d
    <2>3. /\ Move(b, Transit, d) \in Balances
          /\ Move(b, Transit, d)[Transit].onHand = b[Transit].onHand + d
          /\ \A w \in Godowns : /\ w # Transit => Move(b, Transit, d)[w].onHand = b[w].onHand
                                /\ Move(b, Transit, d)[w].reserved = b[w].reserved
        BY <1>7, <2>2, MoveEffect
    <2> QED
        BY <2>1, <2>3 DEF d
<1>9. \A w \in Godowns : /\ a[w].onHand \in Int /\ b[w].onHand \in Int /\ balance'[w].onHand \in Int
                         /\ a[w].reserved \in Nat
    BY <1>6, <1>7, <1>8 DEF Balances
<1>10. \A w \in Godowns : Policy = "BLOCK" => a[w].reserved <= a[w].onHand
    BY <1>1, <1>4, <1>6, NotOver
<1>11. \A w \in Godowns : Policy = "BLOCK" => b[w].reserved <= b[w].onHand
    BY <1>3, <1>4, <1>7, <1>9, <1>10
<1>12. \A w \in Godowns : Policy = "BLOCK" => balance'[w].reserved <= balance'[w].onHand
    BY <1>3, <1>4, <1>7, <1>8, <1>9, <1>11
<1>13. ASSUME NEW w \in Godowns
       PROVE  balance'[w].onHand = balance[w].onHand - Carried(y, w) + Carried(x, w)
    <2>1. a[w].onHand = balance[w].onHand + (IF w = y.from THEN m ELSE 0)
        BY <1>4, <1>6, NotOver
    <2>2. b[w].onHand = a[w].onHand - (IF w = v THEN n ELSE 0)
        BY <1>4, <1>7, <1>9
    <2>3. balance'[w].onHand = b[w].onHand - (IF w = Transit THEN k ELSE 0)
        BY <1>4, <1>8, <1>9
    <2>4. Carried(y, w) \in Int /\ balance[w].onHand \in Int
        BY <1>5, NotOver
    <2> QED
        BY <1>4, <1>5, <1>9, <2>1, <2>2, <2>3, <2>4
<1>14. \A w \in Godowns :
          /\ balance'[w].onHand = balance[w].onHand - Carried(y, w) + Carried(x, w)
          /\ balance'[w].reserved = balance[w].reserved
          /\ Policy = "BLOCK" => balance'[w].reserved <= balance'[w].onHand
    BY <1>6, <1>7, <1>8, <1>12, <1>13
<1> QED
    BY <1>1, <1>2, <1>3, <1>8, <1>14, Types, TransferStep DEF y

(* An adjustment takes no more than is available and is on record.         *)
LEMMA AdjustKeeps ==
    ASSUME IInv, UNCHANGED <<documents, transfer>>, NEW w \in Godowns,
           NEW delta \in -MaxQty .. MaxQty, Adjust(w, delta)
    PROVE  IInv'
<1>1. /\ w # Transit /\ delta \in Int /\ adjusted[w] + delta \in 0 .. MaxStock
      /\ balance' = Move(balance, w, delta)
      /\ adjusted' = [adjusted EXCEPT ![w] = adjusted[w] + delta]
      /\ Policy = "BLOCK" /\ delta < 0 => balance[w].onHand - balance[w].reserved >= -delta
      /\ UNCHANGED <<order, challan, invoice, returning, transfer>>
    BY Types DEF Adjust, Enough, Available, documents
<1>2. /\ balance' \in Balances
      /\ balance'[w].onHand = balance[w].onHand + delta
      /\ \A v \in Godowns : /\ v # w => balance'[v].onHand = balance[v].onHand
                            /\ balance'[v].reserved = balance[v].reserved
    BY <1>1, BalanceType, MoveEffect
<1>3. /\ adjusted \in [Godowns -> 0 .. MaxStock] /\ adjusted' \in [Godowns -> 0 .. MaxStock]
      /\ adjusted'[w] = adjusted[w] + delta
      /\ \A v \in Godowns : v # w => adjusted'[v] = adjusted[v]
    BY <1>1 DEF IInv, StockTypeOK
<1>4. StockTypeOK' /\ ChallansOK' /\ ReturnsFit' /\ TransfersOK'
    BY <1>1, <1>2, <1>3, Types DEF IInv, StockTypeOK, Balances, RowsOK, ChallansOK, ReturnsFit,
                                   TransfersOK
<1>5. TransitOK'
    BY <1>1, <1>2, <1>3, Types DEF IInv, TransitOK
<1>6. NeverOversold'
    BY <1>1, <1>2, NotOver DEF NeverOversold
<1>7. GoodsAccountedFor'
    <2> SUFFICES ASSUME NEW v \in Godowns
                 PROVE  balance'[v].onHand = adjusted'[v] - Sold(v)' + Transferred(v)'
        BY DEF GoodsAccountedFor
    <2>1. balance[v].onHand = adjusted[v] - Sold(v) + Transferred(v)
        BY DEF IInv, GoodsAccountedFor
    <2>2. Sold(v)' = Sold(v) /\ Transferred(v)' = Transferred(v)
        BY <1>1 DEF Sold, OutOnChallan, OutOnInvoice, Transferred
    <2>3. Transferred(v) \in Int /\ adjusted[v] \in Int
        BY Types, TransferTotals DEF IInv, RowsOK, StockTypeOK
    <2>4. Sold(v) \in Int
        <3>1. Out(challan, invoice) \in Int
            BY Types, OutTypes DEF Out
        <3> QED
            BY <3>1, SoldIsOut
    <2> QED
        BY <1>1, <1>2, <1>3, <2>1, <2>2, <2>3, <2>4
<1> QED
    BY <1>4, <1>5, <1>6, <1>7 DEF IInv, RowsOK

-----------------------------------------------------------------------------
(* The invariant and what follows from it.                                 *)

(* The company starts with its opening stock and draft orders.             *)
LEMMA InitKeeps ==
    ASSUME Init
    PROVE  IInv
<1>0. /\ Shop \in Godowns /\ Transit \in Godowns /\ Shop # Transit /\ MaxQty \in Nat
      /\ Opening \in [Godowns -> 0 .. MaxStock] /\ Opening[Transit] = 0
    BY StockAssumption, OrderAssumption
<1>1. balance = [w \in Godowns |-> [onHand |-> Opening[w], reserved |-> 0]] /\ adjusted = Opening
    BY DEF Init, StockInit
<1>2. /\ order = [o \in Orders |-> [status |-> "DRAFT", held |-> FALSE, bill |-> NoBill]]
      /\ challan = [c \in Challans |-> NoChallan] /\ invoice = [i \in Invoices |-> NoInvoice]
      /\ returning = [k \in Clerks |-> NoReturn] /\ transfer = [t \in Transfers |-> NoTransfer]
    BY DEF Init, OrderInit, TransferInit
<1>3. NoChallan \in Challan /\ NoInvoice \in Invoice /\ NoTransfer \in Transfer
    BY <1>0 DEF NoChallan, Challan, NoInvoice, Invoice, NoTransfer, Transfer, DocStatus, Quantity
<1>4. [status |-> "DRAFT", held |-> FALSE, bill |-> NoBill] \in Order
    BY DEF Order, OrderStatus
<1>5. balance \in Balances /\ \A w \in Godowns : balance[w].onHand = Opening[w] /\ balance[w].reserved = 0
    BY <1>0, <1>1 DEF Balances
<1>6. StockTypeOK
    BY <1>0, <1>1, <1>2, <1>3, <1>4, <1>5 DEF StockTypeOK, Balances
<1>7. ChallansOK
    BY <1>2 DEF ChallansOK, ChallanOK, NoChallan, Live
<1>8. ReturnsFit
    BY <1>2 DEF ReturnsFit
<1>9. TransfersOK
    BY <1>2 DEF TransfersOK, NoTransfer
<1>10. TransitOK /\ NeverOversold
    BY <1>0, <1>1, <1>5 DEF TransitOK, NeverOversold
<1>11. GoodsAccountedFor
    <2> SUFFICES ASSUME NEW w \in Godowns
                 PROVE  balance[w].onHand = adjusted[w] - Sold(w) + Transferred(w)
        BY DEF GoodsAccountedFor
    <2>1. Transferred(w) = 0
        <3>1. \A t \in Transfers : Carried(transfer[t], w) = 0
            BY <1>2 DEF NoTransfer, Carried, OnTheRoad, AtSource, AtDestination, OpenShortage
        <3>2. [t \in Transfers |-> Carried(transfer[t], w)] = [t \in Transfers |-> 0]
            BY <3>1
        <3> QED
            BY <3>2, TransferSumFacts DEF Transferred
    <2>2. Sold(w) = 0
        <3>1. /\ [c \in Challans |-> OutOnChallan(c)] = [c \in Challans |-> 0]
              /\ [i \in Invoices |-> OutOnInvoice(i)] = [i \in Invoices |-> 0]
            BY <1>2 DEF OutOnChallan, OutOnInvoice, NoChallan, NoInvoice
        <3>2. Sum([c \in Challans |-> 0]) = 0 /\ Sum([i \in Invoices |-> 0]) = 0
            BY OrderSumFacts
        <3> QED
            BY <3>1, <3>2 DEF Sold
    <2> QED
        BY <1>0, <1>1, <1>5, <2>1, <2>2
<1> QED
    BY <1>6, <1>7, <1>8, <1>9, <1>10, <1>11 DEF IInv, RowsOK

(* Every handler keeps the invariant.                                      *)
LEMMA NextKeeps ==
    ASSUME IInv, Next
    PROVE  IInv'
<1>1. CASE OrderNext /\ UNCHANGED transfer
    BY <1>1, ConfirmKeeps, GiveBackKeeps, ConvertKeeps, ToChallanKeeps, CompleteChallanKeeps,
       DropDraftKeeps, CancelChallanKeeps, BillChallanKeeps, StartReturnKeeps, CompleteReturnKeeps,
       RefuseReturnKeeps, CompleteInvoiceKeeps, DeleteInvoiceKeeps, CancelInvoiceKeeps, RebuildKeeps
       DEF OrderNext
<1>2. CASE TransferNext /\ UNCHANGED documents
    BY <1>2, DraftKeeps, DispatchKeeps, ReceiveKeeps, WriteOffKeeps, SendBackKeeps,
       CancelDraftKeeps, CancelTransferKeeps DEF TransferNext
<1>3. ASSUME NEW w \in Godowns, NEW delta \in -MaxQty .. MaxQty, Adjust(w, delta),
             UNCHANGED <<documents, transfer>>
      PROVE  IInv'
    BY <1>3, AdjustKeeps
<1> QED
    BY <1>1, <1>2, <1>3 DEF Next

(* The inductive invariant holds throughout.                               *)
THEOREM Invariance == Spec => []IInv
<1>1. Init => IInv
    BY InitKeeps
<1>2. IInv /\ [Next]_vars => IInv'
    <2>1. IInv /\ UNCHANGED vars => IInv'
        BY DEF vars, IInv, StockTypeOK, RowsOK, ChallansOK, ReturnsFit, TransfersOK, TransitOK,
               GoodsAccountedFor, NeverOversold, Sold, OutOnChallan, OutOnInvoice, Transferred
    <2> QED
        BY <2>1, NextKeeps
<1> QED
    BY <1>1, <1>2, PTL DEF Spec

(* The rows of orders, challans, invoices, returns, transfers and balances *)
(* stay well typed; no challan gets back more than it carried.             *)
THEOREM StockIsTyped == Spec => []StockTypeOK
<1>1. IInv => StockTypeOK
    BY DEF IInv
<1> QED
    BY <1>1, Invariance, PTL

(* Every unit in a godown is explained by the documents: adjustments,      *)
(* challans and invoices that took goods out and transfers on the way,     *)
(* for any number of them.                                                 *)
THEOREM GoodsAreAccountedFor == Spec => []GoodsAccountedFor
<1>1. IInv => GoodsAccountedFor
    BY DEF IInv
<1> QED
    BY <1>1, Invariance, PTL

(* Under BLOCK no godown promises or issues more than it has, although     *)
(* writing off a shortage checks nothing.                                  *)
THEOREM NothingIsOversold == Spec => []NeverOversold
<1>1. IInv => NeverOversold
    BY DEF IInv
<1> QED
    BY <1>1, Invariance, PTL

-----------------------------------------------------------------------------
(* Orders and their documents.  Everything below is about the documents of *)
(* an order: what each of them claims, has shipped or has billed.          *)
ClaimOf(x, o) == IF x.order = o /\ x.status \in Live THEN x.qty - x.back ELSE 0
ShipOf(x, o) == IF x.order = o /\ x.status = "COMPLETED" THEN x.qty - x.back ELSE 0
TakenBy(x, o) == IF x.source = o /\ x.status \in Live THEN x.qty ELSE 0
DoneOf(x, o) == IF x.source = o /\ x.status = "COMPLETED" THEN x.qty ELSE 0

Claim(ch, o) == Sum([c \in Challans |-> ClaimOf(ch[c], o)])
Ship(ch, o) == Sum([c \in Challans |-> ShipOf(ch[c], o)])
Done(inv, o) == OnInvoices(inv, o, {"COMPLETED"})

(* Only a completed challan has goods that came back.                      *)
Net(ch) == \A c \in Challans : /\ ch[c].back <= ch[c].qty
                               /\ ch[c].back > 0 => ch[c].status = "COMPLETED"

(* Smaller quantities have a smaller sum.                                  *)
LEMMA SumMonotone ==
    ASSUME NEW D \in {Orders, Challans, Invoices}, NEW f \in [D -> Quantity],
           NEW g \in [D -> Quantity], \A d \in D : g[d] <= f[d]
    PROVE  Sum(g) <= Sum(f)
<1> DEFINE h == [d \in D |-> f[d] - g[d]]
<1>0. MaxQty \in Nat
    BY StockAssumption
<1>1. h \in [D -> Quantity]
    BY <1>0 DEF Quantity
<1>2. Sum(h) = Sum(f) - Sum(g)
    BY OrderSumFacts
<1> HIDE DEF h
<1>3. Sum(h) \in Nat /\ Sum(f) \in Nat /\ Sum(g) \in Nat
    BY <1>1, SumNat
<1> QED
    BY <1>2, <1>3

(* What a challan claims and ships is a quantity.                          *)
LEMMA ClaimTypes ==
    ASSUME NEW ch \in [Challans -> Challan], Net(ch), NEW o
    PROVE  /\ [c \in Challans |-> ClaimOf(ch[c], o)] \in [Challans -> Quantity]
           /\ [c \in Challans |-> ShipOf(ch[c], o)] \in [Challans -> Quantity]
           /\ Claim(ch, o) \in Nat
           /\ Ship(ch, o) \in Nat
           /\ Ship(ch, o) <= Claim(ch, o)
<1> DEFINE f == [c \in Challans |-> ClaimOf(ch[c], o)]
           g == [c \in Challans |-> ShipOf(ch[c], o)]
<1>0. MaxQty \in Nat
    BY StockAssumption
<1>1. f \in [Challans -> Quantity]
    BY <1>0 DEF ClaimOf, Challan, Quantity, Net
<1>2. g \in [Challans -> Quantity]
    BY <1>0 DEF ShipOf, Challan, Quantity, Net
<1>3. \A c \in Challans : g[c] <= f[c]
    BY <1>0 DEF ShipOf, ClaimOf, Live, Challan, Quantity, Net
<1>a. Claim(ch, o) = Sum(f) /\ Ship(ch, o) = Sum(g)
    BY DEF Claim, Ship
<1> HIDE DEF f, g
<1>4. Sum(f) \in Nat /\ Sum(g) \in Nat /\ Sum(g) <= Sum(f)
    BY <1>1, <1>2, <1>3, SumNat, SumMonotone
<1> QED
    BY <1>1, <1>2, <1>4, <1>a DEF f, g

(* The quantities on the challans less what came back, as the code         *)
(* computes them, are the sums of what stayed out on each.                 *)
LEMMA NetSums ==
    ASSUME NEW ch \in [Challans -> Challan], Net(ch), NEW o
    PROVE  Shipped(ch, o) = Ship(ch, o) /\ ClaimedByChallans(ch, o) = Claim(ch, o)
<1> DEFINE b == [c \in Challans |-> IF ch[c].order = o THEN ch[c].back ELSE 0]
           f == [c \in Challans |-> IF ch[c].order = o /\ ch[c].status \in Live
                                    THEN ch[c].qty ELSE 0]
           g == [c \in Challans |-> IF ch[c].order = o /\ ch[c].status \in {"COMPLETED"}
                                    THEN ch[c].qty ELSE 0]
<1>0. MaxQty \in Nat
    BY StockAssumption
<1>1. b \in [Challans -> Quantity] /\ f \in [Challans -> Quantity] /\ g \in [Challans -> Quantity]
    BY <1>0 DEF Challan, Quantity
<1>2. \A c \in Challans : /\ b[c] <= f[c] /\ f[c] - b[c] = ClaimOf(ch[c], o)
                          /\ b[c] <= g[c] /\ g[c] - b[c] = ShipOf(ch[c], o)
    <2> TAKE c \in Challans
    <2>1. /\ ch[c].qty \in Nat /\ ch[c].back \in Nat /\ ch[c].back <= ch[c].qty
          /\ ch[c].back > 0 => ch[c].status = "COMPLETED"
        BY <1>0 DEF Challan, Quantity, Net
    <2>2. ch[c].status # "COMPLETED" => ch[c].back = 0
        BY <2>1
    <2> QED
        BY <2>1, <2>2 DEF ClaimOf, ShipOf, Live
<1>3. /\ [c \in Challans |-> f[c] - b[c]] = [c \in Challans |-> ClaimOf(ch[c], o)]
      /\ [c \in Challans |-> g[c] - b[c]] = [c \in Challans |-> ShipOf(ch[c], o)]
    BY <1>2
<1>4. OnChallans(ch, o, Live) = Sum(f) /\ OnChallans(ch, o, {"COMPLETED"}) = Sum(g)
      /\ CameBack(ch, o) = Sum(b)
    BY DEF OnChallans, CameBack
<1> HIDE DEF b, f, g
<1>5. /\ Sum([c \in Challans |-> f[c] - b[c]]) = Sum(f) - Sum(b)
      /\ Sum([c \in Challans |-> g[c] - b[c]]) = Sum(g) - Sum(b)
    BY <1>1, <1>2, OrderSumFacts
<1>6. Claim(ch, o) = Sum(f) - Sum(b) /\ Ship(ch, o) = Sum(g) - Sum(b)
    BY <1>3, <1>5 DEF Claim, Ship
<1>7. Claim(ch, o) \in Nat /\ Ship(ch, o) \in Nat
    BY ClaimTypes
<1> QED
    BY <1>4, <1>6, <1>7 DEF Shipped, ClaimedByChallans, AtLeastZero

(* What invoices of an order took, and of it what is completed.            *)
LEMMA BillTypes ==
    ASSUME NEW inv \in [Invoices -> Invoice], NEW o
    PROVE  /\ [i \in Invoices |-> TakenBy(inv[i], o)] \in [Invoices -> Quantity]
           /\ [i \in Invoices |-> DoneOf(inv[i], o)] \in [Invoices -> Quantity]
           /\ OnInvoices(inv, o, Live) = Sum([i \in Invoices |-> TakenBy(inv[i], o)])
           /\ Done(inv, o) = Sum([i \in Invoices |-> DoneOf(inv[i], o)])
           /\ OnInvoices(inv, o, Live) \in Nat
           /\ Done(inv, o) \in Nat
           /\ Done(inv, o) <= OnInvoices(inv, o, Live)
<1> DEFINE f == [i \in Invoices |-> TakenBy(inv[i], o)]
           g == [i \in Invoices |-> DoneOf(inv[i], o)]
<1>0. MaxQty \in Nat
    BY StockAssumption
<1>1. f \in [Invoices -> Quantity] /\ g \in [Invoices -> Quantity]
    BY <1>0 DEF TakenBy, DoneOf, Invoice, Quantity
<1>2. \A i \in Invoices : g[i] <= f[i]
    BY <1>0 DEF TakenBy, DoneOf, Live, Invoice, Quantity
<1>3. OnInvoices(inv, o, Live) = Sum(f)
    BY DEF OnInvoices, TakenBy
<1>4. Done(inv, o) = Sum(g)
    <2>1. \A i \in Invoices : (inv[i].status \in {"COMPLETED"}) <=> (inv[i].status = "COMPLETED")
        OBVIOUS
    <2>2. [i \in Invoices |-> IF inv[i].source = o /\ inv[i].status \in {"COMPLETED"}
                              THEN inv[i].qty ELSE 0] = g
        BY <2>1 DEF DoneOf
    <2> QED
        BY <2>2 DEF Done, OnInvoices
<1> HIDE DEF f, g
<1>5. Sum(f) \in Nat /\ Sum(g) \in Nat /\ Sum(g) <= Sum(f)
    BY <1>1, <1>2, SumNat, SumMonotone
<1> QED
    BY <1>1, <1>3, <1>4, <1>5 DEF f, g

(* Of what an order has taken, at least what was shipped or billed is      *)
(* done.                                                                   *)
LEMMA DoneWithinTaken ==
    ASSUME NEW ch \in [Challans -> Challan], Net(ch), NEW inv \in [Invoices -> Invoice], NEW o
    PROVE  /\ Shipped(ch, o) \in Nat /\ Done(inv, o) \in Nat /\ Taken(ch, inv, o) \in Nat
           /\ Shipped(ch, o) + Done(inv, o) <= Taken(ch, inv, o)
<1>1. /\ Shipped(ch, o) = Ship(ch, o) /\ ClaimedByChallans(ch, o) = Claim(ch, o)
      /\ Ship(ch, o) \in Nat /\ Claim(ch, o) \in Nat /\ Ship(ch, o) <= Claim(ch, o)
    BY ClaimTypes, NetSums
<1>2. /\ Done(inv, o) \in Nat /\ OnInvoices(inv, o, Live) \in Nat
      /\ Done(inv, o) <= OnInvoices(inv, o, Live)
    BY BillTypes
<1> QED
    BY <1>1, <1>2 DEF Taken

(* A step on one challan changes what its order has shipped and claimed.   *)
LEMMA ChallanSums ==
    ASSUME NEW ch \in [Challans -> Challan], Net(ch), NEW new \in [Challans -> Challan], Net(new),
           NEW c \in Challans, \A d \in Challans : d # c => new[d] = ch[d], NEW o,
           NEW inv \in [Invoices -> Invoice]
    PROVE  /\ Shipped(new, o) = Shipped(ch, o) - ShipOf(ch[c], o) + ShipOf(new[c], o)
           /\ Taken(new, inv, o) = Taken(ch, inv, o) - ClaimOf(ch[c], o) + ClaimOf(new[c], o)
<1> DEFINE f == [d \in Challans |-> ClaimOf(ch[d], o)]
           g == [d \in Challans |-> ClaimOf(new[d], o)]
           u == [d \in Challans |-> ShipOf(ch[d], o)]
           v == [d \in Challans |-> ShipOf(new[d], o)]
<1>1. /\ f \in [Challans -> Quantity] /\ g \in [Challans -> Quantity]
      /\ u \in [Challans -> Quantity] /\ v \in [Challans -> Quantity]
    BY ClaimTypes
<1>2. \A d \in Challans : d # c => g[d] = f[d] /\ v[d] = u[d]
    OBVIOUS
<1>3. /\ f[c] = ClaimOf(ch[c], o) /\ g[c] = ClaimOf(new[c], o)
      /\ u[c] = ShipOf(ch[c], o) /\ v[c] = ShipOf(new[c], o)
    OBVIOUS
<1>4. Claim(ch, o) = Sum(f) /\ Claim(new, o) = Sum(g) /\ Ship(ch, o) = Sum(u) /\ Ship(new, o) = Sum(v)
    BY DEF Claim, Ship
<1> HIDE DEF f, g, u, v
<1>5. Sum(g) = Sum(f) - f[c] + g[c] /\ Sum(v) = Sum(u) - u[c] + v[c]
    BY <1>1, <1>2, SumUpdate
<1>6. /\ Shipped(ch, o) = Ship(ch, o) /\ ClaimedByChallans(ch, o) = Claim(ch, o)
      /\ Shipped(new, o) = Ship(new, o) /\ ClaimedByChallans(new, o) = Claim(new, o)
    BY NetSums
<1>7. OnInvoices(inv, o, Live) \in Nat /\ Claim(ch, o) \in Nat /\ Claim(new, o) \in Nat
    BY BillTypes, ClaimTypes
<1>8. f[c] \in Int /\ g[c] \in Int
    BY <1>1, StockAssumption DEF Quantity
<1> QED
    BY <1>3, <1>4, <1>5, <1>6, <1>7, <1>8 DEF Taken

(* Challans that change neither quantity nor state nor order ship and      *)
(* claim what they did.                                                    *)
LEMMA SameClaims ==
    ASSUME NEW ch, NEW new, NEW o,
           \A c \in Challans : /\ new[c].qty = ch[c].qty /\ new[c].back = ch[c].back
                               /\ new[c].status = ch[c].status /\ new[c].order = ch[c].order
    PROVE  Shipped(new, o) = Shipped(ch, o) /\ ClaimedByChallans(new, o) = ClaimedByChallans(ch, o)
<1>1. [c \in Challans |-> IF new[c].order = o THEN new[c].back ELSE 0]
        = [c \in Challans |-> IF ch[c].order = o THEN ch[c].back ELSE 0]
    OBVIOUS
<1>2. \A states :
        [c \in Challans |-> IF new[c].order = o /\ new[c].status \in states THEN new[c].qty ELSE 0]
        = [c \in Challans |-> IF ch[c].order = o /\ ch[c].status \in states THEN ch[c].qty ELSE 0]
    OBVIOUS
<1>3. CameBack(new, o) = CameBack(ch, o)
    BY <1>1 DEF CameBack
<1>4. \A states : OnChallans(new, o, states) = OnChallans(ch, o, states)
    BY <1>2 DEF OnChallans
<1> QED
    BY <1>3, <1>4 DEF Shipped, ClaimedByChallans

(* A step on one invoice changes what its order has taken and billed.      *)
LEMMA InvoiceSums ==
    ASSUME NEW inv \in [Invoices -> Invoice], NEW new \in [Invoices -> Invoice],
           NEW i \in Invoices, \A j \in Invoices : j # i => new[j] = inv[j], NEW o
    PROVE  /\ Done(new, o) = Done(inv, o) - DoneOf(inv[i], o) + DoneOf(new[i], o)
           /\ OnInvoices(new, o, Live)
                = OnInvoices(inv, o, Live) - TakenBy(inv[i], o) + TakenBy(new[i], o)
<1> DEFINE f == [j \in Invoices |-> TakenBy(inv[j], o)]
           g == [j \in Invoices |-> TakenBy(new[j], o)]
           u == [j \in Invoices |-> DoneOf(inv[j], o)]
           v == [j \in Invoices |-> DoneOf(new[j], o)]
<1>1. /\ f \in [Invoices -> Quantity] /\ g \in [Invoices -> Quantity]
      /\ u \in [Invoices -> Quantity] /\ v \in [Invoices -> Quantity]
      /\ OnInvoices(inv, o, Live) = Sum(f) /\ OnInvoices(new, o, Live) = Sum(g)
      /\ Done(inv, o) = Sum(u) /\ Done(new, o) = Sum(v)
    BY BillTypes
<1>2. \A j \in Invoices : j # i => g[j] = f[j] /\ v[j] = u[j]
    OBVIOUS
<1>3. /\ f[i] = TakenBy(inv[i], o) /\ g[i] = TakenBy(new[i], o)
      /\ u[i] = DoneOf(inv[i], o) /\ v[i] = DoneOf(new[i], o)
    OBVIOUS
<1> HIDE DEF f, g, u, v
<1>4. Sum(g) = Sum(f) - f[i] + g[i] /\ Sum(v) = Sum(u) - u[i] + v[i]
    BY <1>1, <1>2, SumUpdate
<1> QED
    BY <1>1, <1>3, <1>4

-----------------------------------------------------------------------------
(* The documents point to each other consistently: a bill belongs to one   *)
(* challan, not to an order, and does not issue again what the challan     *)
(* posted; no pointer leads to a row that does not exist.                  *)
LinkOK(x, inv) ==
    /\ x.back > 0 => x.status = "COMPLETED"
    /\ x.status \in Live => x.qty > 0
    /\ x.bill # NoBill => /\ x.status \in {"COMPLETED", "CANCELLED"}
                          /\ inv[x.bill].source = NoOrder
                          /\ x.posted => IssuedBy(inv[x.bill]) = 0

(* No two challans share a bill.                                           *)
OwnBills(ch) ==
    \A c, d \in Challans : ch[c].bill = ch[d].bill /\ ch[c].bill # NoBill => c = d

(* The links of all documents.                                             *)
LinksOK ==
    /\ \A c \in Challans : LinkOK(challan[c], invoice)
    /\ OwnBills(challan)
    /\ \A o \in Orders : order[o].bill # NoBill => invoice[order[o].bill].status # "NONE"

(* No order has more on its challans and invoices than was ordered.        *)
NotOverTaken == \A o \in Orders : Taken(challan, invoice, o) <= Ordered[o]

(* The invariant of the documents.                                         *)
DocumentsInv == LinksOK /\ NotOverTaken

(* An order's hold: a draft or cancelled order holds nothing, and of a     *)
(* draft nothing is out.                                                   *)
Idle(ch, inv, o) == Shipped(ch, o) = 0 /\ Done(inv, o) = 0

HoldOK(r, ch, inv, o) ==
    /\ r.status \in {"DRAFT", "CANCELLED"} => ~r.held
    /\ r.status = "DRAFT" => Idle(ch, inv, o)

(* The holds of all orders.                                                *)
HoldsOK == \A o \in Orders : HoldOK(order[o], challan, invoice, o)

(* An order's status: a cancelled order has no documents; a converted one  *)
(* owes nothing, or the goods of a challan came back, and has no drafts    *)
(* but bills of its challans.                                              *)
BillsChallanOf(ch, i, o) ==
    \E c \in LinkedTo(ch, i) : /\ ch[c].order = o /\ ch[c].status \in Live
                               /\ ch[c].qty > ch[c].back

(* What is known of a converted order.                                     *)
Settled(od, ch, inv, o) ==
    /\ \A c \in LiveChallans(ch, o) : ch[c].status # "DRAFT"
    /\ \A i \in InvoicesForOrder(od, ch, inv, o) :
          inv[i].status = "DRAFT" => inv[i].source # o /\ BillsChallanOf(ch, i, o)
    /\ \/ Remaining(ch, inv, o) = 0
       \/ \E c \in LiveChallans(ch, o) : ch[c].back = ch[c].qty

(* An order's row fits its documents.                                      *)
OrderOK(od, ch, inv, o) ==
    /\ od[o].status = "CANCELLED" => LiveChallans(ch, o) = {} /\ InvoicesForOrder(od, ch, inv, o) = {}
    /\ od[o].status = "CONVERTED" => Settled(od, ch, inv, o)

(* The statuses of all orders.                                             *)
OrdersOK == \A o \in Orders : OrderOK(order, challan, invoice, o)

-----------------------------------------------------------------------------
(* What recompute_order_status may do to an order.                         *)

(* It keeps the hold and cancels nothing.  The pointer stays or goes to a  *)
(* live invoice of the order.                                              *)
LEMMA RecomputedRow ==
    ASSUME NEW od \in [Orders -> Order], NEW ch, NEW inv, NEW o \in Orders, NEW reopen
    PROVE  LET y == Recomputed(od, ch, inv, o, reopen) IN
           /\ y.held = od[o].held
           /\ y.status = IF od[o].status = "CANCELLED" THEN od[o].status
                         ELSE TargetStatus(od, ch, inv, o, reopen)
           /\ y.bill = od[o].bill \/ y.bill \in InvoicesForOrder(od, ch, inv, o)
           /\ od[o].status = "CANCELLED" => y = od[o]
<1> DEFINE r == od[o]
           bills == InvoicesForOrder(od, ch, inv, o)
           latest == CHOOSE i \in bills : \A j \in bills : j <= i
           s == TargetStatus(od, ch, inv, o, reopen)
           b == IF bills # {} /\ r.bill \notin bills THEN latest ELSE r.bill
           y == Recomputed(od, ch, inv, o, reopen)
<1>1. bills # {} => latest \in bills
    <2>1. bills \in SUBSET Invoices
        BY DEF InvoicesForOrder
    <2> HIDE DEF bills
    <2> QED
        BY <2>1, Latest
<1>2. r \in Order
    OBVIOUS
<1>3. CASE r.status = "CANCELLED"
    BY <1>3 DEF Recomputed
<1>4. CASE r.status # "CANCELLED"
    <2>1. y = [r EXCEPT !.status = s, !.bill = b]
        BY <1>4 DEF Recomputed
    <2>2. b = r.bill \/ b \in bills
        <3> HIDE DEF bills, latest
        <3> QED
            BY <1>1
    <2> HIDE DEF s, b, y, bills
    <2>3. y.held = r.held /\ y.status = s /\ y.bill = b
        BY <1>2, <2>1 DEF Order
    <2> QED
        BY <1>4, <2>2, <2>3 DEF s, y, bills
<1> QED
    BY <1>3, <1>4

(* recompute_order_status gives no hold back.                              *)
LEMMA RecomputedHold ==
    ASSUME NEW od \in [Orders -> Order], NEW ch, NEW inv, NEW o \in Orders, NEW reopen
    PROVE  Recomputed(od, ch, inv, o, reopen).held = od[o].held
BY RecomputedRow

(* The same for the two ways recompute_order_status is called.             *)
LEMMA RecomputedKeepsHold ==
    ASSUME NEW od \in [Orders -> Order], NEW ch, NEW inv, NEW o \in Orders
    PROVE  /\ Recomputed(od, ch, inv, o, FALSE).held = od[o].held
           /\ Recomputed(od, ch, inv, o, TRUE).held = od[o].held
<1>1. ASSUME NEW b PROVE Recomputed(od, ch, inv, o, b).held = od[o].held
    BY RecomputedHold
<1>2. PICK f : f = FALSE
    OBVIOUS
<1>3. Recomputed(od, ch, inv, o, f).held = od[o].held
    BY <1>1
<1>4. PICK t : t = TRUE
    OBVIOUS
<1>5. Recomputed(od, ch, inv, o, t).held = od[o].held
    BY <1>1
<1> QED
    BY <1>2, <1>3, <1>4, <1>5

(* When nothing of an order is out its sums are zero.                      *)
LEMMA NothingCompleted ==
    ASSUME NEW od, NEW ch \in [Challans -> Challan], Net(ch), NEW inv \in [Invoices -> Invoice],
           NEW o, ~AnyCompleted(od, ch, inv, o)
    PROVE  Idle(ch, inv, o)
<1>1. Shipped(ch, o) = 0
    BY DoneWithinTaken DEF AnyCompleted
<1>2. \A i \in Invoices : DoneOf(inv[i], o) = 0
    BY DEF AnyCompleted, InvoicesForOrder, Live, DoneOf
<1>3. [i \in Invoices |-> DoneOf(inv[i], o)] = [i \in Invoices |-> 0]
    BY <1>2
<1>4. Sum([i \in Invoices |-> 0]) = 0
    BY OrderSumFacts
<1>5. Done(inv, o) = Sum([i \in Invoices |-> DoneOf(inv[i], o)])
    BY BillTypes
<1> QED
    BY <1>1, <1>3, <1>4, <1>5 DEF Idle

(* No challan and no invoice of the order is a draft.                      *)
NoDrafts(od, ch, inv, o) ==
    /\ \A c \in LiveChallans(ch, o) : ch[c].status # "DRAFT"
    /\ \A i \in InvoicesForOrder(od, ch, inv, o) : inv[i].status # "DRAFT"

(* recompute_order_status makes an order a draft only if nothing of it is  *)
(* out, and converted only if it owes nothing and has no drafts; a         *)
(* cancelled order stays so.                                               *)
LEMMA RecomputedStatus ==
    ASSUME NEW od \in [Orders -> Order], NEW ch, NEW inv, NEW o \in Orders, NEW reopen \in BOOLEAN
    PROVE  LET r == od[o]
               s == Recomputed(od, ch, inv, o, reopen).status
           IN
           /\ s = "CANCELLED" <=> r.status = "CANCELLED"
           /\ s = "DRAFT" => /\ ~AnyCompleted(od, ch, inv, o)
                             /\ r.status = "DRAFT" \/ ~r.held
           /\ s = "CONVERTED" =>
                 \/ Taken(ch, inv, o) >= Ordered[o] /\ NoDrafts(od, ch, inv, o)
                 \/ r.status = "CONVERTED" /\ ~reopen
                 \/ /\ r.status = "CONVERTED"
                    /\ ~AnyCompleted(od, ch, inv, o)
                    /\ LiveChallans(ch, o) # {} \/ InvoicesForOrder(od, ch, inv, o) # {}
<1> DEFINE r == od[o]
           s == TargetStatus(od, ch, inv, o, reopen)
           done == AnyCompleted(od, ch, inv, o)
           drafts == \/ \E c \in LiveChallans(ch, o) : ch[c].status = "DRAFT"
                     \/ \E i \in InvoicesForOrder(od, ch, inv, o) : inv[i].status = "DRAFT"
           full == Taken(ch, inv, o) >= Ordered[o]
           empty == LiveChallans(ch, o) = {} /\ InvoicesForOrder(od, ch, inv, o) = {}
           back == reopen /\ r.status = "CONVERTED"
<1>1. s = IF done /\ full /\ ~drafts THEN "CONVERTED"
          ELSE IF done /\ (r.status \in Convertible \/ back) THEN "PARTIALLY_CONVERTED"
          ELSE IF (~done /\ empty) /\ (r.status = "PARTIALLY_CONVERTED" \/ back) THEN Unprocessed(r)
          ELSE r.status
    BY DEF TargetStatus
<1>2. r \in Order /\ r.status \in OrderStatus /\ r.held \in BOOLEAN
    BY DEF Order
<1>3. Unprocessed(r) = "DRAFT" => ~r.held
    BY DEF Unprocessed
<1>4. Unprocessed(r) \in {"CONFIRMED", "DRAFT"}
    BY DEF Unprocessed
<1>5. ~drafts => NoDrafts(od, ch, inv, o)
    BY DEF NoDrafts
<1>6. Recomputed(od, ch, inv, o, reopen).status
        = IF r.status = "CANCELLED" THEN r.status ELSE s
    BY RecomputedRow
<1> HIDE DEF s, done, drafts, full, empty
<1>7. r.status # "CANCELLED" =>
        /\ s # "CANCELLED"
        /\ s = "DRAFT" => ~done /\ (r.status = "DRAFT" \/ ~r.held)
        /\ s = "CONVERTED" => \/ full /\ ~drafts
                              \/ r.status = "CONVERTED" /\ ~reopen
                              \/ r.status = "CONVERTED" /\ ~done /\ ~empty
    <2>1. r.status # "CANCELLED" => s # "CANCELLED"
        BY <1>1, <1>4
    <2>2. s = "DRAFT" => ~done
        BY <1>1, <1>4 DEF Convertible
    <2>3. s = "DRAFT" => r.status = "DRAFT" \/ ~r.held
        BY <1>1, <1>3
    <2>4. s = "CONVERTED" => \/ full /\ ~drafts
                             \/ r.status = "CONVERTED" /\ ~reopen
                             \/ r.status = "CONVERTED" /\ ~done /\ ~empty
        BY <1>1, <1>4
    <2> QED
        BY <2>1, <2>2, <2>3, <2>4
<1> QED
    BY <1>5, <1>6, <1>7 DEF done, drafts, full, empty

-----------------------------------------------------------------------------
(* What each handler does, row by row.                                     *)

(* Only challan c changes, and no invoice.                                 *)
OnlyChallan(c) ==
    /\ challan' \in [Challans -> Challan]
    /\ \A d \in Challans : d # c => challan'[d] = challan[d]
    /\ invoice' = invoice

(* Only order o changes, and keeps its hold.                               *)
OnlyOrder(o) ==
    /\ order' \in [Orders -> Order]
    /\ \A p \in Orders : p # o => order'[p] = order[p]

(* A release takes off what it says, down to nothing.                      *)
LEMMA ReleaseExact ==
    ASSUME NEW b \in Balances, NEW w \in Godowns, NEW q \in Nat
    PROVE  Release(b, w, q)[w].reserved = AtLeastZero(b[w].reserved - q)
BY DEF Release, Balances

(* Goods that come back are held again by an order that holds.             *)
LEMMA HeldAgain ==
    ASSUME NEW b \in Balances, NEW q \in Nat, NEW o, HoldAgain(b, o, q)
    PROVE  /\ balance'[Shop].reserved
                = b[Shop].reserved + (IF order[o].held /\ order[o].status # "CANCELLED" THEN q ELSE 0)
           /\ \A w \in Godowns \ {Shop} : balance'[w].reserved = b[w].reserved
<1>0. Shop \in Godowns
    BY OrderAssumption
<1>1. b[Shop].reserved \in Nat
    BY <1>0 DEF Balances
<1>2. CASE order[o].held /\ order[o].status # "CANCELLED"
    <2>1. balance' = Reserve(b, Shop, q)
        BY <1>2 DEF HoldAgain
    <2> QED
        BY <1>0, <1>2, <2>1, ReserveEffect
<1>3. CASE ~(order[o].held /\ order[o].status # "CANCELLED")
    <2>1. balance' = b
        BY <1>3 DEF HoldAgain
    <2> QED
        BY <1>1, <1>3, <2>1
<1> QED
    BY <1>2, <1>3

(* The handlers of challans.                                               *)
ChallanDrafted(o, c, q) ==
    /\ OnlyChallan(c) /\ OnlyOrder(o)
    /\ balance' = balance
    /\ challan[c].status = "NONE"
    /\ challan'[c].status = "DRAFT" /\ challan'[c].order = o /\ challan'[c].qty = q
    /\ challan'[c].back = 0 /\ challan'[c].posted = FALSE /\ challan'[c].bill = NoBill
    /\ q <= Remaining(challan, invoice, o)
    /\ order[o].status \in Convertible
    /\ order'[o].held = order[o].held /\ order'[o].bill = order[o].bill
    /\ order'[o].status = order[o].status \/ order'[o].status = "PARTIALLY_CONVERTED"

(* A draft challan of an order claims no more than what remained.          *)
LEMMA ToChallanFacts ==
    ASSUME IInv, NEW o \in Orders, NEW c \in Challans, NEW q \in 1 .. MaxQty,
           ConvertSalesOrderToChallan(o, c, q)
    PROVE  ChallanDrafted(o, c, q)
<1> DEFINE x == DraftChallan(o, q)
<1>1. /\ x \in Challan
      /\ x.status = "DRAFT" /\ x.order = o /\ x.qty = q /\ x.back = 0 /\ x.bill = NoBill
      /\ x.posted = FALSE
    <2>1. q \in Quantity /\ 0 \in Quantity /\ "DRAFT" \in DocStatus
        BY Types DEF Quantity, DocStatus
    <2> QED
        BY <2>1 DEF Challan, DraftChallan
<1>2. /\ challan[c].status = "NONE" /\ challan' = [challan EXCEPT ![c] = x]
      /\ UNCHANGED <<stock, invoice, returning>> /\ order[o].status \in Convertible
      /\ q \in 1 .. Remaining(challan, invoice, o)
    BY DEF ConvertSalesOrderToChallan, IsNext
<1> HIDE DEF x
<1>3. OnlyChallan(c) /\ challan'[c] = x
    BY <1>1, <1>2, Types DEF OnlyChallan
<1>4. /\ OnlyOrder(o) /\ order'[o].held = order[o].held /\ order'[o].bill = order[o].bill
      /\ order'[o].status = order[o].status \/ order'[o].status = "PARTIALLY_CONVERTED"
    <2>1. PICK s : /\ s = order[o].status \/ s = "PARTIALLY_CONVERTED"
                   /\ order' = [order EXCEPT ![o].status = s]
        BY DEF ConvertSalesOrderToChallan
    <2> QED
        BY <2>1, Types DEF OnlyOrder, Order, OrderStatus
<1>5. q <= Remaining(challan, invoice, o)
    <2>1. Remaining(challan, invoice, o) \in Int
        BY Types, DocumentSums, OrderAssumption
           DEF Remaining, Taken, ClaimedByChallans, AtLeastZero
    <2> QED
        BY <1>2, <2>1
<1> QED
    BY <1>1, <1>2, <1>3, <1>4, <1>5 DEF stock, ChallanDrafted

(* What completing a challan does to the rows and to the hold.             *)
LEMMA CompleteChallanFacts ==
    ASSUME IInv, NEW c \in Challans, NEW post \in StockOnChallan, CompleteChallan(c, post)
    PROVE  LET o == challan[c].order
               n == Least(StillHeld(order, challan, invoice, o), challan[c].qty)
           IN
           /\ OnlyChallan(c) /\ o \in Orders /\ OnlyOrder(o)
           /\ challan[c].status = "DRAFT" /\ challan[c].back = 0 /\ order[o].status # "CANCELLED"
           /\ challan'[c].status = "COMPLETED" /\ challan'[c].order = o
           /\ challan'[c].qty = challan[c].qty /\ challan'[c].back = 0
           /\ challan'[c].bill = challan[c].bill
           /\ order'[o] = Recomputed(order, challan', invoice', o, FALSE)
           /\ balance'[Shop].reserved = AtLeastZero(balance[Shop].reserved - n)
           /\ \A w \in Godowns \ {Shop} : balance'[w].reserved = balance[w].reserved
<1> DEFINE o == challan[c].order
           n == Least(StillHeld(order, challan, invoice, o), challan[c].qty)
           b == Release(balance, Shop, n)
           x == [challan[c] EXCEPT !.status = "COMPLETED", !.posted = post]
<1>0. /\ post \in BOOLEAN /\ challan[c] \in Challan /\ challan[c].status = "DRAFT"
      /\ o \in Orders /\ challan[c].qty \in Nat /\ challan[c].back = 0
    BY Types, OrderAssumption DEF CompleteChallan, ChallansOK, ChallanOK, Challan, Quantity, Live
<1>1. n \in Nat
    BY <1>0, Types, HeldType DEF Least, Quantity
<1>2. x \in Challan
    BY <1>0 DEF Challan, DocStatus
<1>3. /\ x.status = "COMPLETED" /\ x.order = o /\ x.qty = challan[c].qty
      /\ x.back = 0 /\ x.bill = challan[c].bill
    BY <1>0 DEF Challan
<1>4. /\ challan' = [challan EXCEPT ![c] = x]
      /\ balance' = IF post THEN Move(b, Shop, -challan[c].qty) ELSE b
      /\ invoice' = invoice /\ order[o].status # "CANCELLED"
    BY <1>0, Types DEF CompleteChallan
<1> HIDE DEF x, n
<1>5. OnlyChallan(c) /\ challan'[c] = x
    BY <1>2, <1>4, Types DEF OnlyChallan
<1>6. OnlyOrder(o) /\ order'[o] = Recomputed(order, challan', invoice', o, FALSE)
    <2>1. Recomputed(order, challan', invoice', o, FALSE) \in Order
        BY <1>0, Types, RecomputedType
    <2>2. order' = [order EXCEPT ![o] = Recomputed(order, challan', invoice', o, FALSE)]
        BY <1>4 DEF CompleteChallan
    <2> QED
        BY <1>0, <2>1, <2>2, Types DEF OnlyOrder
<1>7. /\ b \in Balances /\ b[Shop].reserved = AtLeastZero(balance[Shop].reserved - n)
      /\ \A w \in Godowns \ {Shop} : b[w].reserved = balance[w].reserved
    BY <1>1, Types, ReleaseEffect, ReleaseExact
<1> HIDE DEF b, o
<1>8. \A w \in Godowns : balance'[w].reserved = b[w].reserved
    <2>1. CASE post
        <3>1. -challan[c].qty \in Int /\ balance' = Move(b, Shop, -challan[c].qty)
            BY <1>0, <1>4, <2>1
        <3> QED
            BY <1>7, <3>1, Types, MoveEffect
    <2>2. CASE ~post
        BY <1>4, <2>2
    <2> QED
        BY <2>1, <2>2
<1> QED
    BY <1>0, <1>3, <1>4, <1>5, <1>6, <1>7, <1>8, Types DEF n, o

(* The row of a dropped draft.                                             *)
LEMMA DropDraftFacts ==
    ASSUME IInv, NEW c \in Challans, DeleteChallan(c) \/ CancelDraftChallan(c)
    PROVE  LET o == challan[c].order IN
           /\ OnlyChallan(c) /\ o \in Orders /\ OnlyOrder(o) /\ balance' = balance
           /\ challan[c].status = "DRAFT" /\ challan[c].back = 0
           /\ challan'[c].status \in {"DELETED", "CANCELLED"}
           /\ challan'[c].back = 0 /\ challan'[c].back <= challan'[c].qty
           /\ challan'[c].bill = NoBill \/ challan'[c].bill = challan[c].bill
           /\ ~challan'[c].posted
           /\ order'[o].held = order[o].held
           /\ order'[o].bill = Recomputed(order, challan', invoice', o, FALSE).bill
           /\ \/ order'[o].status = Recomputed(order, challan', invoice', o, FALSE).status
              \/ /\ order[o].status = "PARTIALLY_CONVERTED"
                 /\ Taken(challan', invoice', o) = 0
                 /\ order'[o].status = Unprocessed(order[o])
<1> DEFINE x == challan'[c]
           o == challan[c].order
<1>0. /\ challan[c].status = "DRAFT" /\ challan[c] \in Challan
      /\ o \in Orders /\ ~challan[c].posted /\ challan[c].back = 0
    BY Types DEF DeleteChallan, CancelDraftChallan, ChallansOK, ChallanOK, Live
<1>1. balance' = balance /\ invoice' = invoice
    BY DEF DeleteChallan, CancelDraftChallan, stock
<1>2. /\ challan' = [challan EXCEPT ![c] = x] /\ x \in Challan /\ ~x.posted /\ x.back = 0
      /\ x.status \in {"DELETED", "CANCELLED"} /\ x.back <= x.qty
      /\ x.bill = NoBill \/ x.bill = challan[c].bill
    <2>1. CASE DeleteChallan(c)
        <3> DEFINE gone == [NoChallan EXCEPT !.status = "DELETED"]
        <3>1. /\ gone \in Challan /\ gone.posted = FALSE /\ gone.back = 0 /\ gone.qty = 0
              /\ gone.status = "DELETED" /\ gone.bill = NoBill
            <4>1. NoChallan \in Challan
                BY Types DEF NoChallan, Challan, DocStatus, Quantity
            <4>2. NoChallan.posted = FALSE /\ NoChallan.back = 0 /\ NoChallan.qty = 0
                  /\ NoChallan.bill = NoBill
                BY DEF NoChallan
            <4> QED
                BY <4>1, <4>2 DEF Challan, DocStatus
        <3>2. challan' = [challan EXCEPT ![c] = gone]
            BY <2>1 DEF DeleteChallan
        <3> HIDE DEF gone
        <3>3. x = gone
            BY <3>2, Types
        <3>4. gone.back <= gone.qty
            BY <3>1
        <3> QED
            BY <3>1, <3>2, <3>3, <3>4
    <2>2. CASE CancelDraftChallan(c)
        <3>1. challan' = [challan EXCEPT ![c].status = "CANCELLED"]
            BY <2>2 DEF CancelDraftChallan
        <3>2. /\ x.status = "CANCELLED" /\ x.posted = challan[c].posted /\ x.back = challan[c].back
              /\ x.qty = challan[c].qty /\ x.bill = challan[c].bill /\ x \in Challan
            BY <1>0, <3>1, Types DEF Challan, DocStatus
        <3>3. challan' = [challan EXCEPT ![c] = x]
            BY <3>1, Types
        <3> QED
            BY <1>0, <3>2, <3>3, Types DEF ChallansOK, ChallanOK
    <2> QED
        BY <2>1, <2>2
<1>3. OnlyChallan(c)
    BY <1>1, <1>2, Types DEF OnlyChallan
<1>4. /\ OnlyOrder(o)
      /\ order'[o].held = order[o].held
      /\ order'[o].bill = Recomputed(order, challan', invoice', o, FALSE).bill
      /\ \/ order'[o].status = Recomputed(order, challan', invoice', o, FALSE).status
         \/ /\ order[o].status = "PARTIALLY_CONVERTED"
            /\ Taken(challan', invoice', o) = 0
            /\ order'[o].status = Unprocessed(order[o])
    <2> DEFINE y == Recomputed(order, challan', invoice', o, FALSE)
    <2>1. y \in Order /\ y.held = order[o].held
        <3>1. PICK p \in Orders : p = o
            BY <1>0
        <3> DEFINE v == Recomputed(order, challan', invoice', p, FALSE)
        <3>2. v \in Order
            BY Types, RecomputedType
        <3>0. order \in [Orders -> Order]
            BY Types
        <3>3. v.held = order[p].held
            BY <3>0, RecomputedKeepsHold
        <3>4. y = v
            BY <3>1
        <3> QED
            BY <3>1, <3>2, <3>3, <3>4
    <2>2. CASE DeleteChallan(c)
        <3>1. order' = [order EXCEPT ![o] = y]
            BY <1>1, <2>2 DEF DeleteChallan
        <3> HIDE DEF y
        <3>2. OnlyOrder(o) /\ order'[o] = y
            BY <1>0, <2>1, <3>1, Types DEF OnlyOrder
        <3> QED
            BY <2>1, <3>2 DEF y
    <2>3. CASE CancelDraftChallan(c)
        <3> DEFINE s == Discarded(order, challan', invoice', o, NoBill).status
        <3>1. s \in OrderStatus
            BY <1>0, Types, DiscardedType DEF Order
        <3>2. order' = [order EXCEPT ![o] = IF y.status # order[o].status THEN y
                                            ELSE [y EXCEPT !.status = s]]
            BY <1>1, <2>3 DEF CancelDraftChallan
        <3>3. s = IF order[o].status = "PARTIALLY_CONVERTED" /\ Taken(challan', invoice', o) = 0
                  THEN Unprocessed(order[o]) ELSE order[o].status
            <4> DEFINE r == order[o]
                       b == IF r.bill = NoBill THEN NoBill ELSE r.bill
                       t == IF r.status = "PARTIALLY_CONVERTED" /\ Taken(challan', invoice', o) = 0
                            THEN Unprocessed(r) ELSE r.status
            <4>1. Discarded(order, challan', invoice', o, NoBill) = [r EXCEPT !.bill = b, !.status = t]
                BY DEF Discarded
            <4>2. r \in Order
                BY <1>0, Types
            <4> HIDE DEF r, b, t
            <4>3. s = t
                BY <4>1, <4>2 DEF Order
            <4> QED
                BY <4>3 DEF t, r
        <3> HIDE DEF y, s
        <3>4. /\ [y EXCEPT !.status = s] \in Order /\ [y EXCEPT !.status = s].bill = y.bill
              /\ [y EXCEPT !.status = s].held = y.held /\ [y EXCEPT !.status = s].status = s
            BY <2>1, <3>1 DEF Order
        <3>5. OnlyOrder(o) /\ order'[o] = IF y.status # order[o].status THEN y
                                          ELSE [y EXCEPT !.status = s]
            BY <1>0, <2>1, <3>2, <3>4, Types DEF OnlyOrder
        <3>6. CASE y.status # order[o].status
            <4>1. order'[o] = y
                BY <3>5, <3>6
            <4> QED
                BY <2>1, <3>5, <4>1 DEF y
        <3>7. CASE y.status = order[o].status
            <4>1. order'[o].held = order[o].held /\ order'[o].bill = y.bill /\ order'[o].status = s
                BY <2>1, <3>4, <3>5, <3>7
            <4>2. \/ s = y.status
                  \/ /\ order[o].status = "PARTIALLY_CONVERTED"
                     /\ Taken(challan', invoice', o) = 0
                     /\ s = Unprocessed(order[o])
                BY <3>3, <3>7
            <4> QED
                BY <3>5, <4>1, <4>2 DEF y
        <3> QED
            BY <3>6, <3>7
    <2> QED
        BY <2>2, <2>3
<1> QED
    BY <1>0, <1>1, <1>2, <1>3, <1>4

(* Goods of a challan that come back, by a cancellation or a return, are   *)
(* held again by the order it delivers.                                    *)
LEMMA ChallanBackHeld ==
    ASSUME IInv, NEW post \in BOOLEAN, NEW q \in Nat, NEW o,
           HoldAgain(IF post THEN Move(balance, Shop, q) ELSE balance, o, q)
    PROVE  /\ balance'[Shop].reserved
                = balance[Shop].reserved
                    + (IF order[o].held /\ order[o].status # "CANCELLED" THEN q ELSE 0)
           /\ \A w \in Godowns \ {Shop} : balance'[w].reserved = balance[w].reserved
<1> DEFINE b == IF post THEN Move(balance, Shop, q) ELSE balance
<1>1. HoldAgain(b, o, q)
    OBVIOUS
<1>2. b \in Balances /\ \A w \in Godowns : b[w].reserved = balance[w].reserved
    <2>1. CASE post
        <3>1. q \in Int /\ b = Move(balance, Shop, q)
            BY <2>1
        <3> HIDE DEF b
        <3> QED
            BY <3>1, Types, MoveEffect
    <2>2. CASE ~post
        BY <2>2, Types
    <2> QED
        BY <2>1, <2>2
<1> HIDE DEF b
<1> QED
    BY <1>1, <1>2, Types, HeldAgain

(* An order is reopened, or stays cancelled.                               *)
LEMMA ReopenFacts ==
    ASSUME IInv, NEW ch, NEW o \in Orders, Reopen(ch, o)
    PROVE  /\ OnlyOrder(o)
           /\ order'[o].held = order[o].held /\ order'[o].bill = order[o].bill
           /\ order'[o].status = IF order[o].status = "CANCELLED" THEN order[o].status
                                 ELSE Reopened(order, ch, invoice, o)
<1>1. CASE order[o].status = "CANCELLED"
    <2>1. order' = order
        BY <1>1 DEF Reopen
    <2> QED
        BY <1>1, <2>1, Types DEF OnlyOrder
<1>2. CASE order[o].status # "CANCELLED"
    <2> DEFINE s == Reopened(order, ch, invoice, o)
    <2>1. order' = [order EXCEPT ![o].status = s] /\ s \in OrderStatus
        BY <1>2 DEF Reopen, Reopened, Unprocessed, OrderStatus
    <2> HIDE DEF s
    <2>2. /\ OnlyOrder(o)
          /\ order'[o].held = order[o].held /\ order'[o].bill = order[o].bill
          /\ order'[o].status = s
        BY <2>1, Types DEF OnlyOrder, Order
    <2> QED
        BY <1>2, <2>2 DEF s
<1> QED
    BY <1>1, <1>2

(* Goods of challan c came back: all of them by a cancellation, or some by *)
(* a return.                                                               *)
BackOnChallan(c, q) ==
    LET x == challan[c]
        o == x.order
    IN
    /\ OnlyChallan(c) /\ o \in Orders /\ OnlyOrder(o) /\ q \in Nat
    /\ x.status = "COMPLETED"
    /\ challan'[c].order = o /\ challan'[c].bill = x.bill /\ challan'[c].qty = x.qty
    /\ \/ /\ challan'[c].status = "CANCELLED" /\ challan'[c].posted = FALSE
          /\ x.back = 0 /\ challan'[c].back = 0 /\ q = x.qty
          /\ x.bill # NoBill => invoice[x.bill].status # "COMPLETED"
       \/ /\ challan'[c].status = "COMPLETED" /\ challan'[c].posted = x.posted
          /\ challan'[c].back = x.back + q /\ challan'[c].back <= x.qty
          /\ x.bill = NoBill
    /\ order'[o].held = order[o].held /\ order'[o].bill = order[o].bill
    /\ order'[o].status = IF order[o].status = "CANCELLED" THEN order[o].status
                          ELSE Reopened(order, challan', invoice', o)
    /\ balance'[Shop].reserved
         = balance[Shop].reserved + (IF order[o].held /\ order[o].status # "CANCELLED" THEN q ELSE 0)
    /\ \A w \in Godowns \ {Shop} : balance'[w].reserved = balance[w].reserved

(* Cancelling a challan brings all its goods back.                         *)
LEMMA CancelChallanFacts ==
    ASSUME IInv, NEW c \in Challans, CancelChallan(c)
    PROVE  BackOnChallan(c, challan[c].qty)
<1> DEFINE x == [challan[c] EXCEPT !.status = "CANCELLED", !.posted = FALSE]
           q == challan[c].qty
           o == challan[c].order
<1>0. /\ challan[c] \in Challan /\ challan[c].status = "COMPLETED" /\ challan[c].back = 0
      /\ q \in Nat /\ challan[c].posted \in BOOLEAN /\ o \in Orders
      /\ challan[c].bill # NoBill => invoice[challan[c].bill].status # "COMPLETED"
    BY Types DEF CancelChallan, Challan, Quantity, ChallansOK, ChallanOK, Live
<1>1. /\ challan' = [challan EXCEPT ![c] = x] /\ invoice' = invoice
      /\ HoldAgain(IF challan[c].posted THEN Move(balance, Shop, q) ELSE balance, o, q)
    BY <1>0, Types DEF CancelChallan
<1>2. x \in Challan
    BY <1>0 DEF Challan, DocStatus
<1>3. /\ x.status = "CANCELLED" /\ x.posted = FALSE /\ x.qty = q /\ x.back = 0
      /\ x.bill = challan[c].bill /\ x.order = o
    BY <1>0 DEF Challan
<1> HIDE DEF x
<1>4. OnlyChallan(c) /\ challan'[c] = x
    BY <1>1, <1>2, Types DEF OnlyChallan
<1>5. Reopen(challan', o)
    BY DEF CancelChallan
<1> HIDE DEF q, o
<1>6. /\ OnlyOrder(o)
      /\ order'[o].held = order[o].held /\ order'[o].bill = order[o].bill
      /\ order'[o].status = IF order[o].status = "CANCELLED" THEN order[o].status
                            ELSE Reopened(order, challan', invoice, o)
    BY <1>0, <1>5, ReopenFacts
<1>7. /\ balance'[Shop].reserved = balance[Shop].reserved
            + (IF order[o].held /\ order[o].status # "CANCELLED" THEN q ELSE 0)
      /\ \A w \in Godowns \ {Shop} : balance'[w].reserved = balance[w].reserved
    BY <1>0, <1>1, ChallanBackHeld
<1> QED
    BY <1>0, <1>1, <1>3, <1>4, <1>6, <1>7 DEF BackOnChallan, q, o

(* A completed return brings back what fits on its challan.                *)
LEMMA CompleteReturnFacts ==
    ASSUME IInv, NEW k \in Clerks, CompleteReturn(k)
    PROVE  \E c \in Challans : \E q \in Nat : BackOnChallan(c, q)
<1>a. /\ returning[k] # NoReturn /\ returning[k] \in Return
      /\ returning[k].challan \in Challans /\ returning[k].qty \in Nat
    BY Types DEF CompleteReturn, Return
<1>b. PICK c \in Challans : c = returning[k].challan
    BY <1>a
<1>c. PICK q \in Nat : q = returning[k].qty
    BY <1>a
<1> DEFINE x == [challan[c] EXCEPT !.back = challan[c].back + q]
           o == challan[c].order
<1>1. /\ challan[c] \in Challan /\ challan[c].status = "COMPLETED" /\ challan[c].bill = NoBill
      /\ challan[c].qty \in Quantity /\ challan[c].back \in Quantity /\ challan[c].posted \in BOOLEAN
      /\ o \in Orders
    BY <1>b, Types DEF CompleteReturn, Returnable, Challan, ChallansOK, ChallanOK, Live
<1>2. q <= challan[c].qty - challan[c].back
    BY <1>a, <1>b, <1>c, Types DEF ReturnsFit
<1>3. challan[c].back + q \in Quantity /\ challan[c].back + q <= challan[c].qty
    BY <1>1, <1>2, Types DEF Quantity
<1>4. /\ x \in Challan /\ x.status = "COMPLETED" /\ x.qty = challan[c].qty /\ x.bill = NoBill
      /\ x.back = challan[c].back + q /\ x.posted = challan[c].posted
      /\ x.order = challan[c].order
    BY <1>1, <1>3 DEF Challan
<1>5. /\ challan' = [challan EXCEPT ![c] = x] /\ invoice' = invoice
      /\ HoldAgain(IF challan[c].posted THEN Move(balance, Shop, q) ELSE balance, o, q)
      /\ Reopen(challan', o)
    BY <1>b, <1>c, Types DEF CompleteReturn
<1> HIDE DEF x, o
<1>6. OnlyChallan(c) /\ challan'[c] = x
    BY <1>4, <1>5, Types DEF OnlyChallan
<1>7. /\ OnlyOrder(o)
      /\ order'[o].held = order[o].held /\ order'[o].bill = order[o].bill
      /\ order'[o].status = IF order[o].status = "CANCELLED" THEN order[o].status
                            ELSE Reopened(order, challan', invoice, o)
    BY <1>1, <1>5, ReopenFacts
<1>8. /\ balance'[Shop].reserved = balance[Shop].reserved
            + (IF order[o].held /\ order[o].status # "CANCELLED" THEN q ELSE 0)
      /\ \A w \in Godowns \ {Shop} : balance'[w].reserved = balance[w].reserved
    BY <1>1, <1>5, ChallanBackHeld
<1>9. BackOnChallan(c, q)
    BY <1>1, <1>3, <1>4, <1>5, <1>6, <1>7, <1>8 DEF BackOnChallan, o
<1> QED
    BY <1>9

(* Only invoice i changes.                                                 *)
OnlyInvoice(i) ==
    /\ invoice' \in [Invoices -> Invoice]
    /\ \A j \in Invoices : j # i => invoice'[j] = invoice[j]

(* The challans change nothing but their bill and whether they posted.     *)
SameChallans ==
    /\ challan' \in [Challans -> Challan]
    /\ \A c \in Challans : /\ challan'[c].qty = challan[c].qty /\ challan'[c].back = challan[c].back
                           /\ challan'[c].status = challan[c].status
                           /\ challan'[c].order = challan[c].order

(* A new invoice gets a row that was free; nothing points to it yet.       *)
LEMMA FreeRow ==
    ASSUME IInv, NEW i \in Invoices, invoice[i].status = "NONE"
    PROVE  i # NoBill /\ \A c \in Challans : challan[c].bill # i
BY Types DEF ChallansOK, ChallanOK, NoBill, Invoices

(* The handlers of invoices.                                               *)
InvoiceDrafted(o, i, q) ==
    /\ OnlyInvoice(i) /\ OnlyOrder(o) /\ challan' = challan /\ balance' = balance
    /\ invoice[i].status = "NONE"
    /\ invoice'[i].status = "DRAFT" /\ invoice'[i].source = o /\ invoice'[i].qty = q
    /\ q <= Remaining(challan, invoice, o)
    /\ order[o].status \in Convertible
    /\ order'[o].held = order[o].held /\ order'[o].bill = i
    /\ order'[o].status = order[o].status \/ order'[o].status = "PARTIALLY_CONVERTED"

(* A draft invoice of an order claims no more than what remained.          *)
LEMMA ConvertFacts ==
    ASSUME IInv, NEW o \in Orders, NEW i \in Invoices, NEW q \in 1 .. MaxQty,
           ConvertSalesOrder(o, i, q)
    PROVE  InvoiceDrafted(o, i, q)
<1> DEFINE x == DraftInvoice(o, q)
<1>1. x \in Invoice /\ x.status = "DRAFT" /\ x.source = o /\ x.qty = q
    BY Types DEF Invoice, DocStatus, Quantity, DraftInvoice
<1>2. /\ invoice[i].status = "NONE" /\ invoice' = [invoice EXCEPT ![i] = x]
      /\ UNCHANGED <<stock, challan, returning>> /\ order[o].status \in Convertible
      /\ q \in 1 .. Remaining(challan, invoice, o)
    BY DEF ConvertSalesOrder, IsNext
<1> HIDE DEF x
<1>3. OnlyInvoice(i) /\ invoice'[i] = x
    BY <1>1, <1>2, Types DEF OnlyInvoice
<1>4. /\ OnlyOrder(o) /\ order'[o].held = order[o].held /\ order'[o].bill = i
      /\ order'[o].status = order[o].status \/ order'[o].status = "PARTIALLY_CONVERTED"
    <2>1. PICK s : /\ s = order[o].status \/ s = "PARTIALLY_CONVERTED"
                   /\ order' = [order EXCEPT ![o].bill = i, ![o].status = s]
        BY Types DEF ConvertSalesOrder, Order
    <2> QED
        BY <2>1, Types DEF OnlyOrder, Order, OrderStatus
<1>5. q <= Remaining(challan, invoice, o)
    <2>1. Remaining(challan, invoice, o) \in Int
        BY Types, DocumentSums, OrderAssumption
           DEF Remaining, Taken, ClaimedByChallans, AtLeastZero
    <2> QED
        BY <1>2, <2>1
<1> QED
    BY <1>1, <1>2, <1>3, <1>4, <1>5 DEF stock, InvoiceDrafted

(* What billing a challan does to the rows.                                *)
LEMMA BillChallanFacts ==
    ASSUME IInv, NEW c \in Challans, NEW i \in Invoices, ConvertDeliveryChallan(c, i)
    PROVE  LET o == challan[c].order IN
           /\ OnlyInvoice(i) /\ o \in Orders /\ OnlyOrder(o) /\ SameChallans /\ balance' = balance
           /\ invoice[i].status = "NONE"
           /\ invoice'[i].status = "DRAFT" /\ invoice'[i].source = NoOrder
           /\ challan[c].status = "COMPLETED" /\ challan[c].bill = NoBill
           /\ challan[c].qty > challan[c].back
           /\ challan'[c].bill = i
           /\ \A d \in Challans : d # c => challan'[d] = challan[d]
           /\ order'[o].held = order[o].held /\ order'[o].bill = i
           /\ order'[o].status = order[o].status
<1> DEFINE x == DraftInvoice(NoOrder, challan[c].qty - challan[c].back)
           y == [challan[c] EXCEPT !.bill = i]
           o == challan[c].order
<1>0. /\ challan[c] \in Challan /\ challan[c].status = "COMPLETED" /\ challan[c].bill = NoBill
      /\ challan[c].qty \in Quantity /\ challan[c].back \in Quantity
      /\ challan[c].back <= challan[c].qty /\ invoice[i].status = "NONE"
      /\ challan[c].qty > challan[c].back /\ o \in Orders
    BY Types DEF ConvertDeliveryChallan, IsNext, Challan, ChallansOK, ChallanOK, Live
<1>1. x \in Invoice /\ x.status = "DRAFT" /\ x.source = NoOrder
    BY <1>0, Types DEF DraftInvoice, Invoice, DocStatus, Quantity
<1>2. /\ invoice' = [invoice EXCEPT ![i] = x]
      /\ challan' = [challan EXCEPT ![c] = y]
      /\ balance' = balance
    BY <1>0, Types DEF ConvertDeliveryChallan, stock
<1>3. /\ OnlyOrder(o) /\ order'[o].held = order[o].held /\ order'[o].bill = i
      /\ order'[o].status = order[o].status
    <2>1. order' = [order EXCEPT ![o].bill = i]
        BY DEF ConvertDeliveryChallan
    <2> HIDE DEF o
    <2> QED
        BY <1>0, <2>1, Types DEF OnlyOrder, Order
<1>4. /\ y \in Challan /\ y.status = challan[c].status /\ y.qty = challan[c].qty
      /\ y.back = challan[c].back /\ y.order = challan[c].order /\ y.bill = i
    BY <1>0 DEF Challan
<1> HIDE DEF x, y
<1>5. OnlyInvoice(i) /\ invoice'[i] = x
    BY <1>1, <1>2, Types DEF OnlyInvoice
<1>6. /\ challan' \in [Challans -> Challan] /\ challan'[c] = y
      /\ \A d \in Challans : d # c => challan'[d] = challan[d]
    BY <1>2, <1>4, Types
<1>7. SameChallans
    BY <1>4, <1>6 DEF SameChallans
<1> QED
    BY <1>0, <1>1, <1>2, <1>3, <1>4, <1>5, <1>6, <1>7

(* What completing an invoice does to the rows and to the hold.            *)
LEMMA CompleteInvoiceFacts ==
    ASSUME IInv, NEW i \in Invoices, CompleteInvoice(i)
    PROVE  LET o == invoice[i].source
               n == Least(StillHeld(order, challan, invoice, o), invoice[i].qty)
           IN
           /\ OnlyInvoice(i) /\ challan' = challan
           /\ invoice[i].status = "DRAFT" /\ o \in Orders \cup {NoOrder}
           /\ invoice'[i].status = "COMPLETED" /\ invoice'[i].source = o
           /\ invoice'[i].qty = invoice[i].qty
           /\ StockFromChallan(i) => IssuedBy(invoice'[i]) = 0
           /\ order' \in [Orders -> Order]
           /\ \A p \in Orders : order'[p] = IF p \in OrdersOf(i)
                                            THEN Recomputed(order, challan', invoice', p, FALSE)
                                            ELSE order[p]
           /\ balance'[Shop].reserved = IF LinkedTo(challan, i) = {} /\ o # NoOrder
                                        THEN AtLeastZero(balance[Shop].reserved - n)
                                        ELSE balance[Shop].reserved
           /\ \A w \in Godowns \ {Shop} : balance'[w].reserved = balance[w].reserved
<1> DEFINE o == invoice[i].source
           q == invoice[i].qty
           issues == ~StockFromChallan(i)
           x == [invoice[i] EXCEPT !.status = "COMPLETED", !.issued = issues]
           n == Least(StillHeld(order, challan, invoice, o), q)
           b == IF LinkedTo(challan, i) = {} /\ o # NoOrder THEN Release(balance, Shop, n)
                ELSE balance
<1>0. /\ invoice[i] \in Invoice /\ invoice[i].status = "DRAFT" /\ q \in Quantity
      /\ o \in Orders \cup {NoOrder} /\ issues \in BOOLEAN
    BY Types DEF CompleteInvoice, Invoice, StockFromChallan
<1>1. /\ invoice' = [invoice EXCEPT ![i] = x]
      /\ balance' = IF issues THEN Move(b, Shop, -q) ELSE b
      /\ challan' = challan
    BY <1>0, Types DEF CompleteInvoice
<1>2. /\ order' \in [Orders -> Order]
      /\ \A p \in Orders : order'[p] = IF p \in OrdersOf(i)
                                       THEN Recomputed(order, challan', invoice', p, FALSE)
                                       ELSE order[p]
    <2>1. \A p \in Orders : Recomputed(order, challan', invoice', p, FALSE) \in Order
        BY Types, RecomputedType
    <2>2. order' = [p \in Orders |-> IF p \in OrdersOf(i)
                        THEN Recomputed(order, challan', invoice', p, FALSE) ELSE order[p]]
        BY <1>1 DEF CompleteInvoice
    <2> QED
        BY <2>1, <2>2, Types
<1>3. /\ x \in Invoice /\ x.status = "COMPLETED" /\ x.qty = q /\ x.issued = issues /\ x.source = o
    BY <1>0 DEF Invoice, DocStatus
<1>4. o # NoOrder => n \in Nat
    BY <1>0, Types, HeldType DEF Least, Quantity
<1>5. OnlyInvoice(i) /\ invoice'[i] = x
    <2> HIDE DEF x
    <2> QED
        BY <1>1, <1>3, Types DEF OnlyInvoice
<1>6. StockFromChallan(i) => IssuedBy(invoice'[i]) = 0
    BY <1>3, <1>5 DEF IssuedBy
<1> HIDE DEF n, x, issues
<1>7. /\ b \in Balances
      /\ b[Shop].reserved = IF LinkedTo(challan, i) = {} /\ o # NoOrder
                            THEN AtLeastZero(balance[Shop].reserved - n)
                            ELSE balance[Shop].reserved
      /\ \A w \in Godowns \ {Shop} : b[w].reserved = balance[w].reserved
    <2>1. CASE LinkedTo(challan, i) = {} /\ o # NoOrder
        <3>1. b = Release(balance, Shop, n) /\ n \in Nat
            BY <1>4, <2>1
        <3> QED
            BY <2>1, <3>1, Types, ReleaseEffect, ReleaseExact
    <2>2. CASE ~(LinkedTo(challan, i) = {} /\ o # NoOrder)
        <3>1. b = balance
            BY <2>2
        <3> QED
            BY <2>2, <3>1, Types
    <2> QED
        BY <2>1, <2>2
<1> HIDE DEF b
<1>8. \A w \in Godowns : balance'[w].reserved = b[w].reserved
    <2>1. CASE issues
        <3>1. -q \in Int /\ balance' = Move(b, Shop, -q)
            BY <1>0, <1>1, <2>1, Types DEF Quantity
        <3> QED
            BY <1>7, <3>1, Types, MoveEffect
    <2>2. CASE ~issues
        BY <1>1, <2>2
    <2> QED
        BY <2>1, <2>2
<1> QED
    BY <1>0, <1>1, <1>2, <1>3, <1>5, <1>6, <1>7, <1>8, Types DEF n

(* What deleting a draft invoice does to the rows.                         *)
LEMMA DeleteInvoiceFacts ==
    ASSUME IInv, NEW i \in Invoices, DeleteInvoice(i)
    PROVE  LET o == invoice[i].source IN
           /\ OnlyInvoice(i) /\ SameChallans /\ balance' = balance
           /\ invoice[i].status = "DRAFT" /\ o \in Orders \cup {NoOrder}
           /\ invoice'[i].status = "DELETED" /\ invoice'[i].source = NoOrder
           /\ \A c \in Challans : /\ challan'[c].posted = challan[c].posted
                                  /\ challan'[c].bill = IF challan[c].bill = i THEN NoBill
                                                        ELSE challan[c].bill
           /\ order' \in [Orders -> Order]
           /\ \A p \in Orders :
                 p # o => /\ order'[p].held = order[p].held /\ order'[p].status = order[p].status
                          /\ order'[p].bill = IF order[p].bill = i THEN NoBill ELSE order[p].bill
           /\ o # NoOrder =>
                 \E od \in [Orders -> Order] :
                     /\ od[o] = Discarded(order, challan', invoice', o, i)
                     /\ order'[o] = Recomputed(od, challan', invoice', o, FALSE)
<1> DEFINE x == [NoInvoice EXCEPT !.status = "DELETED"]
           o == invoice[i].source
<1>0. invoice[i].status = "DRAFT" /\ o \in Orders \cup {NoOrder}
    BY Types DEF DeleteInvoice, Invoice
<1>1. /\ invoice' = [invoice EXCEPT ![i] = x]
      /\ challan' = [c \in Challans |-> IF challan[c].bill = i THEN [challan[c] EXCEPT !.bill = NoBill]
                                        ELSE challan[c]]
      /\ balance' = balance
    BY DEF DeleteInvoice, stock
<1>2. x \in Invoice /\ x.status = "DELETED" /\ x.source = NoOrder
    <2>1. NoInvoice \in Invoice /\ NoInvoice.source = NoOrder
        BY Types DEF NoInvoice, Invoice, DocStatus, Quantity
    <2> QED
        BY <2>1 DEF Invoice, DocStatus
<1> HIDE DEF x
<1>3. OnlyInvoice(i) /\ invoice'[i] = x
    BY <1>1, <1>2, Types DEF OnlyInvoice
<1>4. \A c \in Challans : /\ challan'[c] \in Challan
                          /\ challan'[c].qty = challan[c].qty /\ challan'[c].back = challan[c].back
                          /\ challan'[c].status = challan[c].status
                          /\ challan'[c].posted = challan[c].posted
                          /\ challan'[c].order = challan[c].order
                          /\ challan'[c].bill = IF challan[c].bill = i THEN NoBill ELSE challan[c].bill
    BY <1>1, Types DEF Challan
<1>5. SameChallans
    BY <1>1, <1>4 DEF SameChallans
<1> DEFINE unlinked == [p \in Orders |-> IF order[p].bill = i THEN [order[p] EXCEPT !.bill = NoBill]
                                         ELSE order[p]]
           given == [unlinked EXCEPT ![o] = Discarded(order, challan', invoice', o, i)]
<1>6. /\ unlinked \in [Orders -> Order]
      /\ \A p \in Orders : /\ unlinked[p].held = order[p].held /\ unlinked[p].status = order[p].status
                           /\ unlinked[p].bill = IF order[p].bill = i THEN NoBill ELSE order[p].bill
    BY Types DEF Order
<1>7. order' = IF o = NoOrder THEN unlinked
               ELSE [given EXCEPT ![o] = Recomputed(given, challan', invoice', o, FALSE)]
    BY DEF DeleteInvoice
<1> HIDE DEF unlinked, o
<1>8. CASE o = NoOrder
    BY <1>0, <1>1, <1>2, <1>3, <1>4, <1>5, <1>6, <1>7, <1>8 DEF o
<1>9. CASE o # NoOrder
    <2>1. o \in Orders
        BY <1>0, <1>9
    <2>2. Discarded(order, challan', invoice', o, i) \in Order
        BY <2>1, Types, DiscardedType
    <2>3. /\ given \in [Orders -> Order] /\ given[o] = Discarded(order, challan', invoice', o, i)
          /\ \A p \in Orders : p # o => given[p] = unlinked[p]
        BY <1>6, <2>1, <2>2
    <2> HIDE DEF given
    <2>4. Recomputed(given, challan', invoice', o, FALSE) \in Order
        BY <2>1, <2>3, RecomputedType
    <2>5. /\ order' \in [Orders -> Order] /\ \A p \in Orders : p # o => order'[p] = unlinked[p]
          /\ order'[o] = Recomputed(given, challan', invoice', o, FALSE)
        BY <1>7, <1>9, <2>1, <2>3, <2>4
    <2>6. \A p \in Orders :
                 p # o => /\ order'[p].held = order[p].held /\ order'[p].status = order[p].status
                          /\ order'[p].bill = IF order[p].bill = i THEN NoBill ELSE order[p].bill
        BY <1>6, <2>5
    <2> QED
        BY <1>0, <1>1, <1>2, <1>3, <1>4, <1>5, <2>3, <2>5, <2>6 DEF o
<1> QED
    BY <1>8, <1>9

(* What cancelling an invoice does to the rows and to the hold.            *)
LEMMA CancelInvoiceFacts ==
    ASSUME IInv, NEW i \in Invoices, CancelInvoice(i)
    PROVE  LET o == invoice[i].source
               done == invoice[i].status = "COMPLETED"
           IN
           /\ OnlyInvoice(i) /\ SameChallans
           /\ invoice[i].status \in Live /\ o \in Orders \cup {NoOrder}
           /\ invoice'[i].status = "CANCELLED" /\ invoice'[i].source = o
           /\ invoice'[i].qty = invoice[i].qty
           /\ \A c \in Challans : \/ challan'[c] = challan[c]
                                  \/ /\ challan[c].bill = i /\ challan'[c].bill = NoBill
                                     /\ challan'[c].posted = FALSE
           /\ order' \in [Orders -> Order]
           /\ \A p \in Orders : order'[p] = OrderAfterCancel(challan', invoice', i, p)
           /\ balance'[Shop].reserved
                = balance[Shop].reserved
                    + (IF /\ done /\ o # NoOrder
                          /\ order[o].held /\ order[o].status # "CANCELLED"
                       THEN invoice[i].qty ELSE 0)
           /\ \A w \in Godowns \ {Shop} : balance'[w].reserved = balance[w].reserved
<1> DEFINE o == invoice[i].source
           done == invoice[i].status = "COMPLETED"
           own == done /\ invoice[i].issued
           U == IF done /\ ~invoice[i].issued
                THEN {c \in LinkedTo(challan, i) : challan[c].posted} ELSE {}
           g == Sum([c \in Challans |-> IF c \in U THEN challan[c].qty ELSE 0])
           goods == IF own THEN invoice[i].qty ELSE g
           x == [invoice[i] EXCEPT !.status = "CANCELLED"]
           b == Move(balance, Shop, goods)
<1>0. /\ invoice[i] \in Invoice /\ invoice[i].qty \in Nat /\ i # NoBill
      /\ \A c \in U : c \in Challans /\ challan[c].bill = i
      /\ U \in SUBSET Challans /\ o \in Orders \cup {NoOrder}
    BY Types DEF Invoice, Quantity, LinkedTo, Invoices, NoBill
<1>1. /\ invoice' = [invoice EXCEPT ![i] = x] /\ invoice[i].status \in Live
      /\ challan' = [c \in Challans |-> IF c \in U
                        THEN [challan[c] EXCEPT !.posted = FALSE, !.bill = NoBill] ELSE challan[c]]
      /\ IF done /\ o # NoOrder THEN HoldAgain(b, o, invoice[i].qty) ELSE balance' = b
    BY <1>0, Types DEF CancelInvoice
<1>2. /\ order' \in [Orders -> Order]
      /\ \A p \in Orders : order'[p] = OrderAfterCancel(challan', invoice', i, p)
    <2>1. \A p \in Orders : OrderAfterCancel(challan', invoice', i, p) \in Order
        BY AfterCancelType
    <2>2. order' = [p \in Orders |-> OrderAfterCancel(challan', invoice', i, p)]
        BY DEF CancelInvoice
    <2> QED
        BY <2>1, <2>2
<1>3. x \in Invoice /\ x.status = "CANCELLED" /\ x.qty = invoice[i].qty /\ x.source = o
    BY <1>0 DEF Invoice, DocStatus
<1>4. g \in Nat
    <2>1. [c \in Challans |-> IF c \in U THEN challan[c].qty ELSE 0] \in [Challans -> Quantity]
        <3> HIDE DEF U
        <3> QED
            BY Types DEF Challan, Quantity
    <2> QED
        BY <2>1, SumNat
<1>5. goods \in Int
    BY <1>0, <1>4
<1> HIDE DEF x, U, goods, g
<1>6. OnlyInvoice(i) /\ invoice'[i] = x
    BY <1>1, <1>3, Types DEF OnlyInvoice
<1>7. \A c \in Challans : /\ challan'[c] \in Challan
                          /\ challan'[c].qty = challan[c].qty /\ challan'[c].back = challan[c].back
                          /\ challan'[c].status = challan[c].status
                          /\ challan'[c].order = challan[c].order
                          /\ c \in U => challan'[c].bill = NoBill /\ challan'[c].posted = FALSE
                          /\ c \notin U => challan'[c] = challan[c]
    <2> TAKE c \in Challans
    <2>1. challan[c] \in Challan
        BY Types
    <2>2. CASE c \in U
        <3> DEFINE y == [challan[c] EXCEPT !.posted = FALSE, !.bill = NoBill]
        <3>1. challan'[c] = y
            BY <1>1, <2>2
        <3>2. /\ y \in Challan /\ y.qty = challan[c].qty /\ y.back = challan[c].back
              /\ y.status = challan[c].status /\ y.order = challan[c].order
              /\ y.bill = NoBill /\ y.posted = FALSE
            BY <2>1 DEF Challan
        <3> QED
            BY <2>2, <3>1, <3>2
    <2>3. CASE c \notin U
        BY <1>1, <2>1, <2>3
    <2> QED
        BY <2>2, <2>3
<1>8. SameChallans
    BY <1>1, <1>7 DEF SameChallans
<1>9. \A c \in Challans : \/ challan'[c] = challan[c]
                          \/ /\ challan[c].bill = i /\ challan'[c].bill = NoBill
                             /\ challan'[c].posted = FALSE
    BY <1>0, <1>7
<1>10. b \in Balances /\ \A w \in Godowns : b[w].reserved = balance[w].reserved
    BY <1>5, Types, MoveEffect
<1> HIDE DEF b
<1>11. /\ balance'[Shop].reserved
            = balance[Shop].reserved
                    + (IF /\ done /\ o # NoOrder
                          /\ order[o].held /\ order[o].status # "CANCELLED"
                       THEN invoice[i].qty ELSE 0)
       /\ \A w \in Godowns \ {Shop} : balance'[w].reserved = balance[w].reserved
    <2>1. CASE done /\ o # NoOrder
        <3>1. HoldAgain(b, o, invoice[i].qty)
            BY <1>1, <2>1
        <3>2. /\ balance'[Shop].reserved = b[Shop].reserved
                    + (IF order[o].held /\ order[o].status # "CANCELLED" THEN invoice[i].qty ELSE 0)
              /\ \A w \in Godowns \ {Shop} : balance'[w].reserved = b[w].reserved
            BY <1>0, <1>10, <3>1, HeldAgain
        <3> QED
            BY <1>10, <2>1, <3>2, Types
    <2>2. CASE ~(done /\ o # NoOrder)
        <3>1. balance' = b /\ balance[Shop].reserved \in Nat
            BY <1>1, <2>2, Types DEF Balances
        <3> QED
            BY <1>10, <2>2, <3>1, Types
    <2> QED
        BY <2>1, <2>2
<1> QED
    BY <1>0, <1>1, <1>2, <1>3, <1>6, <1>8, <1>9, <1>11

-----------------------------------------------------------------------------
(* The documents stay consistent and within what was ordered.              *)

(* Challans that are in order.                                             *)
LEMMA NetChallans ==
    ASSUME IInv, LinksOK
    PROVE  Net(challan)
BY Types DEF Net, ChallansOK, ChallanOK, LinksOK, LinkOK

(* A pointer after recompute_order_status leads to an invoice if it did    *)
(* before.                                                                 *)
LEMMA RecomputedPointer ==
    ASSUME NEW od \in [Orders -> Order], NEW ch, NEW inv, NEW o \in Orders, NEW reopen,
           od[o].bill # NoBill => inv[od[o].bill].status # "NONE"
    PROVE  Recomputed(od, ch, inv, o, reopen).bill # NoBill =>
               inv[Recomputed(od, ch, inv, o, reopen).bill].status # "NONE"
<1> DEFINE y == Recomputed(od, ch, inv, o, reopen)
<1>1. y.bill = od[o].bill \/ y.bill \in InvoicesForOrder(od, ch, inv, o)
    BY RecomputedRow
<1>2. \A i \in InvoicesForOrder(od, ch, inv, o) : inv[i].status # "NONE"
    BY DEF InvoicesForOrder, Live
<1> HIDE DEF y
<1>3. y.bill # NoBill => inv[y.bill].status # "NONE"
    BY <1>1, <1>2
<1> QED
    BY <1>3 DEF y

(* The invoices the orders point to exist.                                 *)
Pointers(od, inv) == \A o \in Orders : od[o].bill # NoBill => inv[od[o].bill].status # "NONE"

(* A step on one challan.                                                  *)
LEMMA DocumentsChallanStep ==
    ASSUME IInv, DocumentsInv, NEW c \in Challans, OnlyChallan(c),
           challan'[c].back <= challan'[c].qty, LinkOK(challan'[c], invoice),
           challan'[c].bill = NoBill \/ challan'[c].bill = challan[c].bill,
           Pointers(order', invoice'),
           \A o \in Orders : Taken(challan, invoice, o) - ClaimOf(challan[c], o) + ClaimOf(challan'[c], o)
                               <= Ordered[o]
    PROVE  DocumentsInv'
<1>1. /\ challan' \in [Challans -> Challan] /\ invoice' = invoice
      /\ \A d \in Challans : d # c => challan'[d] = challan[d]
    BY DEF OnlyChallan
<1>2. Net(challan) /\ Net(challan')
    <2>1. Net(challan)
        BY NetChallans DEF DocumentsInv
    <2> QED
        BY <1>1, <2>1 DEF Net, LinkOK
<1>3. \A d \in Challans : LinkOK(challan'[d], invoice')
    BY <1>1 DEF DocumentsInv, LinksOK
<1>4. OwnBills(challan')
    BY <1>1 DEF DocumentsInv, LinksOK, OwnBills
<1>5. LinksOK'
    BY <1>3, <1>4 DEF LinksOK, Pointers
<1>6. NotOverTaken'
    <2> SUFFICES ASSUME NEW o \in Orders PROVE Taken(challan', invoice', o) <= Ordered[o]
        BY DEF NotOverTaken
    <2>1. Taken(challan', invoice, o)
            = Taken(challan, invoice, o) - ClaimOf(challan[c], o) + ClaimOf(challan'[c], o)
        BY <1>1, <1>2, Types, ChallanSums
    <2> QED
        BY <1>1, <2>1
<1> QED
    BY <1>5, <1>6 DEF DocumentsInv

(* A step on one invoice changes what its order has taken.                 *)
LEMMA InvoiceTakes ==
    ASSUME IInv, NEW i \in Invoices, OnlyInvoice(i), SameChallans, NEW o \in Orders
    PROVE  Taken(challan', invoice', o)
             = Taken(challan, invoice, o) - TakenBy(invoice[i], o) + TakenBy(invoice'[i], o)
<1>1. ClaimedByChallans(challan', o) = ClaimedByChallans(challan, o)
    BY SameClaims DEF SameChallans
<1>2. OnInvoices(invoice', o, Live)
        = OnInvoices(invoice, o, Live) - TakenBy(invoice[i], o) + TakenBy(invoice'[i], o)
    BY Types, InvoiceSums DEF OnlyInvoice
<1>3. /\ ClaimedByChallans(challan, o) \in Nat /\ OnInvoices(invoice, o, Live) \in Nat
      /\ TakenBy(invoice[i], o) \in Int /\ TakenBy(invoice'[i], o) \in Int
    <2>1. /\ OnChallans(challan, o, Live) \in Nat /\ CameBack(challan, o) \in Nat
          /\ OnInvoices(invoice, o, Live) \in Nat
        BY Types, DocumentSums
    <2>2. invoice[i].qty \in Int /\ invoice'[i].qty \in Int
        BY Types DEF OnlyInvoice, Invoice, Quantity
    <2> QED
        BY <2>1, <2>2 DEF ClaimedByChallans, AtLeastZero, TakenBy
<1>4. Taken(challan', invoice', o)
        = Taken(challan, invoice, o) - TakenBy(invoice[i], o) + TakenBy(invoice'[i], o)
    BY <1>1, <1>2, <1>3 DEF Taken
<1> QED
    BY <1>4

(* A step on one invoice and the challans it bills.                        *)
LEMMA DocumentsInvoiceStep ==
    ASSUME IInv, DocumentsInv, NEW i \in Invoices, OnlyInvoice(i), SameChallans,
           \A c \in Challans : LinkOK(challan'[c], invoice'), OwnBills(challan'),
           Pointers(order', invoice'),
           \A o \in Orders :
               Taken(challan, invoice, o) - TakenBy(invoice[i], o) + TakenBy(invoice'[i], o) <= Ordered[o]
    PROVE  DocumentsInv'
<1>1. LinksOK'
    BY DEF LinksOK, Pointers
<1>2. NotOverTaken'
    <2> SUFFICES ASSUME NEW o \in Orders PROVE Taken(challan', invoice', o) <= Ordered[o]
        BY DEF NotOverTaken
    <2>1. Taken(challan', invoice', o)
            = Taken(challan, invoice, o) - TakenBy(invoice[i], o) + TakenBy(invoice'[i], o)
        BY InvoiceTakes
    <2> QED
        BY <2>1
<1> QED
    BY <1>1, <1>2 DEF DocumentsInv

(* A step that changes no document.                                        *)
LEMMA DocumentsSame ==
    ASSUME DocumentsInv, UNCHANGED <<challan, invoice>>,
           \A o \in Orders : order'[o].bill = order[o].bill
    PROVE  DocumentsInv'
<1>1. LinksOK'
    BY DEF DocumentsInv, LinksOK, OwnBills
<1>2. NotOverTaken'
    BY DEF DocumentsInv, NotOverTaken
<1> QED
    BY <1>1, <1>2 DEF DocumentsInv

(* The numbers a step on order o works with.                               *)
LEMMA TakenNumbers ==
    ASSUME IInv, DocumentsInv, NEW o \in Orders
    PROVE  /\ Ordered[o] \in Nat /\ Taken(challan, invoice, o) \in Nat
           /\ Taken(challan, invoice, o) <= Ordered[o]
           /\ Shipped(challan, o) \in Nat /\ Done(invoice, o) \in Nat
           /\ Shipped(challan, o) + Done(invoice, o) <= Taken(challan, invoice, o)
           /\ Remaining(challan, invoice, o) = Ordered[o] - Taken(challan, invoice, o)
           /\ Net(challan)
<1>1. Ordered[o] \in Nat
    BY StockAssumption, OrderAssumption
<1>2. Net(challan)
    BY NetChallans DEF DocumentsInv
<1>3. /\ Taken(challan, invoice, o) \in Nat /\ Shipped(challan, o) \in Nat /\ Done(invoice, o) \in Nat
      /\ Shipped(challan, o) + Done(invoice, o) <= Taken(challan, invoice, o)
    BY <1>2, Types, DoneWithinTaken
<1>4. Taken(challan, invoice, o) <= Ordered[o]
    BY DEF DocumentsInv, NotOverTaken
<1> QED
    BY <1>1, <1>2, <1>3, <1>4 DEF Remaining, AtLeastZero

(* What one document claims is a number.                                   *)
LEMMA RowNumbers ==
    ASSUME IInv, NEW o
    PROVE  /\ \A c \in Challans : /\ ClaimOf(challan[c], o) \in Int /\ ShipOf(challan[c], o) \in Int
                                  /\ challan[c].qty \in Nat /\ challan[c].back \in Nat
                                  /\ challan[c].back <= challan[c].qty
                                  /\ ClaimOf(challan[c], o) >= 0
           /\ \A i \in Invoices : /\ TakenBy(invoice[i], o) \in Nat /\ DoneOf(invoice[i], o) \in Nat
                                  /\ invoice[i].qty \in Nat
<1>1. \A c \in Challans : challan[c].qty \in Nat /\ challan[c].back \in Nat
                          /\ challan[c].back <= challan[c].qty
    BY Types DEF Challan, Quantity, ChallansOK, ChallanOK
<1>2. \A i \in Invoices : invoice[i].qty \in Nat
    BY Types DEF Invoice, Quantity
<1> QED
    BY <1>1, <1>2 DEF ClaimOf, ShipOf, TakenBy, DoneOf

(* One lemma per handler: it keeps the pointers between the documents and  *)
(* claims no more than was ordered.  convert_sales_order_to_challan:       *)
LEMMA DocumentsToChallan ==
    ASSUME IInv, DocumentsInv, NEW o \in Orders, NEW c \in Challans, NEW q \in 1 .. MaxQty,
           ConvertSalesOrderToChallan(o, c, q)
    PROVE  DocumentsInv'
<1>1. /\ OnlyChallan(c) /\ OnlyOrder(o) /\ challan[c].status = "NONE"
      /\ challan'[c].status = "DRAFT" /\ challan'[c].order = o /\ challan'[c].qty = q
      /\ challan'[c].back = 0 /\ challan'[c].posted = FALSE /\ challan'[c].bill = NoBill
      /\ q <= Remaining(challan, invoice, o) /\ order'[o].bill = order[o].bill
    <2>1. ChallanDrafted(o, c, q)
        BY ToChallanFacts
    <2> QED
        BY <2>1 DEF ChallanDrafted
<1>2. q \in Nat /\ q > 0
    BY Types
<1>3. LinkOK(challan'[c], invoice) /\ challan'[c].back <= challan'[c].qty
    BY <1>1, <1>2 DEF LinkOK
<1>4. Pointers(order', invoice')
    BY <1>1 DEF Pointers, DocumentsInv, LinksOK, OnlyOrder, OnlyChallan
<1>5. ASSUME NEW p \in Orders
      PROVE  Taken(challan, invoice, p) - ClaimOf(challan[c], p) + ClaimOf(challan'[c], p) <= Ordered[p]
    <2>1. ClaimOf(challan[c], p) = 0
        BY <1>1 DEF ClaimOf, Live
    <2>2. ClaimOf(challan'[c], p) = IF p = o THEN q ELSE 0
        BY <1>1, <1>2 DEF ClaimOf, Live
    <2> QED
        BY <1>1, <1>2, <2>1, <2>2, TakenNumbers
<1> QED
    BY <1>1, <1>3, <1>4, <1>5, DocumentsChallanStep

(* complete_delivery_challan: what was claimed is claimed still.           *)
LEMMA DocumentsCompleteChallan ==
    ASSUME IInv, DocumentsInv, NEW c \in Challans, NEW post \in StockOnChallan,
           CompleteChallan(c, post)
    PROVE  DocumentsInv'
<1>a. challan[c].order \in Orders
    BY CompleteChallanFacts
<1>b. PICK o \in Orders : o = challan[c].order
    BY <1>a
<1>1. /\ OnlyChallan(c) /\ OnlyOrder(o)
      /\ challan[c].status = "DRAFT" /\ challan[c].back = 0
      /\ challan'[c].status = "COMPLETED" /\ challan'[c].order = o
      /\ challan'[c].qty = challan[c].qty /\ challan'[c].back = 0
      /\ challan'[c].bill = challan[c].bill
      /\ order'[o] = Recomputed(order, challan', invoice', o, FALSE)
    BY <1>b, CompleteChallanFacts
<1>2. LinkOK(challan[c], invoice) /\ challan[c].bill = NoBill
    BY <1>1 DEF DocumentsInv, LinksOK, LinkOK
<1>3. LinkOK(challan'[c], invoice) /\ challan'[c].back <= challan'[c].qty
    BY <1>1, <1>2, RowNumbers DEF LinkOK, Live
<1>4. Pointers(order', invoice')
    <2>1. Pointers(order, invoice') /\ invoice' = invoice
        BY <1>1 DEF Pointers, DocumentsInv, LinksOK, OnlyChallan
    <2>2. order'[o].bill # NoBill => invoice'[order'[o].bill].status # "NONE"
        <3>1. order[o].bill # NoBill => invoice'[order[o].bill].status # "NONE"
            BY <2>1 DEF Pointers
        <3> DEFINE y == Recomputed(order, challan', invoice', o, FALSE)
        <3>2. y.bill # NoBill => invoice'[y.bill].status # "NONE"
            BY <3>1, Types, RecomputedPointer
        <3>3. order'[o] = y
            BY <1>1
        <3> HIDE DEF y
        <3> QED
            BY <3>2, <3>3
    <2> QED
        BY <1>1, <2>1, <2>2 DEF Pointers, OnlyOrder
<1>5. ASSUME NEW p \in Orders
      PROVE  Taken(challan, invoice, p) - ClaimOf(challan[c], p) + ClaimOf(challan'[c], p) <= Ordered[p]
    <2>1. ClaimOf(challan'[c], p) = ClaimOf(challan[c], p)
        BY <1>b, <1>1 DEF ClaimOf, Live
    <2>2. ClaimOf(challan[c], p) \in Int
        BY RowNumbers
    <2> QED
        BY <2>1, <2>2, TakenNumbers
<1> QED
    BY <1>1, <1>3, <1>4, <1>5, DocumentsChallanStep

(* A draft challan that is deleted or cancelled had no bill.               *)
LEMMA DocumentsDropDraft ==
    ASSUME IInv, DocumentsInv, NEW c \in Challans, DeleteChallan(c) \/ CancelDraftChallan(c)
    PROVE  DocumentsInv'
<1>a. challan[c].order \in Orders
    BY DropDraftFacts
<1>b. PICK o \in Orders : o = challan[c].order
    BY <1>a
<1>1. /\ OnlyChallan(c) /\ OnlyOrder(o)
      /\ challan[c].status = "DRAFT" /\ challan[c].back = 0
      /\ challan'[c].status \in {"DELETED", "CANCELLED"}
      /\ challan'[c].back = 0 /\ challan'[c].back <= challan'[c].qty
      /\ challan'[c].bill = NoBill \/ challan'[c].bill = challan[c].bill
      /\ order'[o].bill = Recomputed(order, challan', invoice', o, FALSE).bill
    BY <1>b, DropDraftFacts
<1>2. LinkOK(challan[c], invoice) /\ challan[c].bill = NoBill
    BY <1>1 DEF DocumentsInv, LinksOK, LinkOK
<1>3. LinkOK(challan'[c], invoice)
    BY <1>1, <1>2 DEF LinkOK, Live
<1>4. Pointers(order', invoice')
    <2>1. Pointers(order, invoice') /\ invoice' = invoice
        BY <1>1 DEF Pointers, DocumentsInv, LinksOK, OnlyChallan
    <2>2. order'[o].bill # NoBill => invoice'[order'[o].bill].status # "NONE"
        <3>1. order[o].bill # NoBill => invoice'[order[o].bill].status # "NONE"
            BY <2>1 DEF Pointers
        <3> DEFINE y == Recomputed(order, challan', invoice', o, FALSE)
        <3>2. y.bill # NoBill => invoice'[y.bill].status # "NONE"
            BY <3>1, Types, RecomputedPointer
        <3>3. order'[o].bill = y.bill
            BY <1>1
        <3> HIDE DEF y
        <3> QED
            BY <3>2, <3>3
    <2> QED
        BY <1>1, <2>1, <2>2 DEF Pointers, OnlyOrder
<1>5. ASSUME NEW p \in Orders
      PROVE  Taken(challan, invoice, p) - ClaimOf(challan[c], p) + ClaimOf(challan'[c], p) <= Ordered[p]
    <2>1. ClaimOf(challan'[c], p) = 0
        BY <1>1 DEF ClaimOf, Live
    <2>2. ClaimOf(challan[c], p) \in Int /\ ClaimOf(challan[c], p) >= 0
        BY RowNumbers
    <2> QED
        BY <2>1, <2>2, TakenNumbers
<1> QED
    BY <1>1, <1>3, <1>4, <1>5, DocumentsChallanStep

(* Goods that come back are not claimed any more.                          *)
LEMMA DocumentsBack ==
    ASSUME IInv, DocumentsInv, NEW c \in Challans, NEW q \in Nat, BackOnChallan(c, q)
    PROVE  DocumentsInv'
<1>a. challan[c].order \in Orders
    BY DEF BackOnChallan
<1>b. PICK o \in Orders : o = challan[c].order
    BY <1>a
<1>1. /\ OnlyChallan(c) /\ OnlyOrder(o)
      /\ challan[c].status = "COMPLETED"
      /\ challan'[c].order = o /\ challan'[c].bill = challan[c].bill
      /\ challan'[c].qty = challan[c].qty
      /\ order'[o].bill = order[o].bill
    BY <1>b DEF BackOnChallan
<1>2. \/ /\ challan'[c].status = "CANCELLED" /\ challan'[c].posted = FALSE
         /\ challan[c].back = 0 /\ challan'[c].back = 0
      \/ /\ challan'[c].status = "COMPLETED"
         /\ challan'[c].back = challan[c].back + q /\ challan'[c].back <= challan[c].qty
         /\ challan[c].bill = NoBill
    BY DEF BackOnChallan
<1>3. LinkOK(challan[c], invoice)
    BY DEF DocumentsInv, LinksOK
<1>4. challan'[c].back <= challan'[c].qty /\ LinkOK(challan'[c], invoice)
    <2>1. challan[c].qty > 0 /\ challan[c].qty \in Nat
        BY <1>1, <1>3, RowNumbers DEF LinkOK, Live
    <2> QED
        BY <1>1, <1>2, <1>3, <2>1 DEF LinkOK, Live
<1>5. Pointers(order', invoice')
    BY <1>1 DEF Pointers, DocumentsInv, LinksOK, OnlyOrder, OnlyChallan
<1>6. ASSUME NEW p \in Orders
      PROVE  Taken(challan, invoice, p) - ClaimOf(challan[c], p) + ClaimOf(challan'[c], p) <= Ordered[p]
    <2>1. /\ ClaimOf(challan[c], p) = IF p = o THEN challan[c].qty - challan[c].back ELSE 0
          /\ challan[c].qty \in Nat /\ challan[c].back \in Nat
          /\ challan[c].back <= challan[c].qty
        BY <1>b, <1>1, RowNumbers DEF ClaimOf, Live
    <2>2. ClaimOf(challan'[c], p) <= ClaimOf(challan[c], p) /\ ClaimOf(challan'[c], p) \in Int
        BY <1>1, <1>2, <2>1 DEF ClaimOf, Live
    <2> HIDE DEF ClaimOf
    <2>3. ClaimOf(challan[c], p) \in Int
        BY <2>1
    <2> QED
        BY <2>2, <2>3, TakenNumbers
<1> QED
    BY <1>1, <1>4, <1>5, <1>6, DocumentsChallanStep

(* The new invoice had no pointers to it.                                  *)
LEMMA DocumentsConvert ==
    ASSUME IInv, DocumentsInv, NEW o \in Orders, NEW i \in Invoices, NEW q \in 1 .. MaxQty,
           ConvertSalesOrder(o, i, q)
    PROVE  DocumentsInv'
<1>0. InvoiceDrafted(o, i, q)
    BY ConvertFacts
<1>1. /\ OnlyInvoice(i) /\ OnlyOrder(o) /\ challan' = challan /\ invoice[i].status = "NONE"
      /\ invoice'[i].status = "DRAFT" /\ invoice'[i].source = o /\ invoice'[i].qty = q
      /\ q <= Remaining(challan, invoice, o) /\ order'[o].bill = i
    BY <1>0 DEF InvoiceDrafted
<1>2. q \in Nat
    BY Types
<1>3. SameChallans
    BY <1>1, Types DEF SameChallans
<1>4. /\ \A c \in Challans : LinkOK(challan'[c], invoice')
      /\ OwnBills(challan')
    <2>1. \A c \in Challans : challan[c].bill # i /\ challan[c].bill \in Invoices \cup {NoBill}
        BY <1>1, FreeRow, Types DEF Challan
    <2>2. \A c \in Challans : LinkOK(challan[c], invoice)
        BY DEF DocumentsInv, LinksOK
    <2> QED
        BY <1>1, <2>1, <2>2 DEF LinkOK, OnlyInvoice, DocumentsInv, LinksOK
<1>5. Pointers(order', invoice')
    <2>1. Pointers(order, invoice)
        BY DEF DocumentsInv, LinksOK, Pointers
    <2>2. \A p \in Orders : order[p].bill \in Invoices \cup {NoBill}
        BY Types DEF Order
    <2> QED
        BY <1>1, <2>1, <2>2 DEF Pointers, OnlyOrder, OnlyInvoice
<1>6. ASSUME NEW p \in Orders
      PROVE  Taken(challan, invoice, p) - TakenBy(invoice[i], p) + TakenBy(invoice'[i], p) <= Ordered[p]
    <2>1. TakenBy(invoice[i], p) = 0 /\ TakenBy(invoice'[i], p) = IF p = o THEN q ELSE 0
        BY <1>1 DEF TakenBy, Live
    <2> QED
        BY <1>1, <1>2, <2>1, TakenNumbers
<1> QED
    BY <1>1, <1>3, <1>4, <1>5, <1>6, DocumentsInvoiceStep

(* The bill of a challan claims nothing of the order: its challan does.    *)
LEMMA DocumentsBillChallan ==
    ASSUME IInv, DocumentsInv, NEW c \in Challans, NEW i \in Invoices, ConvertDeliveryChallan(c, i)
    PROVE  DocumentsInv'
<1>a. challan[c].order \in Orders
    BY BillChallanFacts
<1>b. PICK o \in Orders : o = challan[c].order
    BY <1>a
<1>1. /\ OnlyInvoice(i) /\ OnlyOrder(o) /\ SameChallans
      /\ invoice[i].status = "NONE"
      /\ invoice'[i].status = "DRAFT" /\ invoice'[i].source = NoOrder
      /\ challan[c].status = "COMPLETED" /\ challan'[c].bill = i
      /\ \A d \in Challans : d # c => challan'[d] = challan[d]
      /\ order'[o].bill = i
    BY <1>b, BillChallanFacts
<1>2. \A d \in Challans : challan[d].bill # i /\ challan[d].bill \in Invoices \cup {NoBill}
    BY <1>1, FreeRow, Types DEF Challan
<1>3. \A d \in Challans : LinkOK(challan[d], invoice)
    BY DEF DocumentsInv, LinksOK
<1>4. \A d \in Challans : LinkOK(challan'[d], invoice')
    <2> TAKE d \in Challans
    <2>1. CASE d = c
        <3>1. IssuedBy(invoice'[i]) = 0
            BY <1>1 DEF IssuedBy
        <3> QED
            BY <1>1, <1>3, <2>1, <3>1 DEF LinkOK, SameChallans, Live
    <2>2. CASE d # c
        BY <1>1, <1>2, <1>3, <2>2 DEF LinkOK, OnlyInvoice
    <2> QED
        BY <2>1, <2>2
<1>5. OwnBills(challan')
    BY <1>1, <1>2 DEF OwnBills, DocumentsInv, LinksOK
<1>6. Pointers(order', invoice')
    <2>1. Pointers(order, invoice)
        BY DEF DocumentsInv, LinksOK, Pointers
    <2>2. \A p \in Orders : order[p].bill \in Invoices \cup {NoBill}
        BY Types DEF Order
    <2> QED
        BY <1>1, <2>1, <2>2 DEF Pointers, OnlyOrder, OnlyInvoice
<1>7. ASSUME NEW p \in Orders
      PROVE  Taken(challan, invoice, p) - TakenBy(invoice[i], p) + TakenBy(invoice'[i], p) <= Ordered[p]
    <2>1. TakenBy(invoice[i], p) = 0 /\ TakenBy(invoice'[i], p) = 0
        BY <1>1, OrderAssumption DEF TakenBy, Live
    <2> QED
        BY <2>1, TakenNumbers
<1> QED
    BY <1>1, <1>4, <1>5, <1>6, <1>7, DocumentsInvoiceStep

(* A bill issues nothing when its challan has posted the stock.            *)
LEMMA DocumentsCompleteInvoice ==
    ASSUME IInv, DocumentsInv, NEW i \in Invoices, CompleteInvoice(i)
    PROVE  DocumentsInv'
<1>1. /\ OnlyInvoice(i) /\ challan' = challan
      /\ invoice[i].status = "DRAFT"
      /\ invoice'[i].status = "COMPLETED" /\ invoice'[i].source = invoice[i].source
      /\ invoice'[i].qty = invoice[i].qty
      /\ StockFromChallan(i) => IssuedBy(invoice'[i]) = 0
    BY CompleteInvoiceFacts
<1>2. \A p \in Orders : \/ order'[p] = order[p]
                        \/ order'[p] = Recomputed(order, challan', invoice', p, FALSE)
    BY CompleteInvoiceFacts
<1>3. SameChallans
    BY <1>1, Types DEF SameChallans
<1>4. \A c \in Challans : LinkOK(challan'[c], invoice')
    <2> TAKE c \in Challans
    <2>1. LinkOK(challan[c], invoice) /\ challan[c].bill \in Invoices \cup {NoBill}
        BY Types DEF DocumentsInv, LinksOK, Challan
    <2>2. challan[c].posted /\ challan[c].bill = i => StockFromChallan(i)
        BY DEF StockFromChallan, LinkedTo
    <2>3. CASE challan[c].bill = i
        BY <1>1, <2>1, <2>2, <2>3 DEF LinkOK
    <2>4. CASE challan[c].bill # i
        BY <1>1, <2>1, <2>4 DEF LinkOK, OnlyInvoice
    <2> QED
        BY <2>3, <2>4
<1>5. OwnBills(challan')
    BY <1>1 DEF DocumentsInv, LinksOK
<1>6. Pointers(order', invoice')
    <2> SUFFICES ASSUME NEW p \in Orders
                 PROVE  order'[p].bill # NoBill => invoice'[order'[p].bill].status # "NONE"
        BY DEF Pointers
    <2>1. order[p].bill # NoBill => invoice'[order[p].bill].status # "NONE"
        <3>1. order[p].bill \in Invoices \cup {NoBill}
            BY Types DEF Order
        <3> QED
            BY <1>1, <3>1 DEF DocumentsInv, LinksOK, OnlyInvoice
    <2> DEFINE y == Recomputed(order, challan', invoice', p, FALSE)
    <2>2. y.bill # NoBill => invoice'[y.bill].status # "NONE"
        BY <2>1, Types, RecomputedPointer
    <2>3. order'[p] = order[p] \/ order'[p] = y
        BY <1>2
    <2> HIDE DEF y
    <2> QED
        BY <2>1, <2>2, <2>3
<1>7. ASSUME NEW p \in Orders
      PROVE  Taken(challan, invoice, p) - TakenBy(invoice[i], p) + TakenBy(invoice'[i], p) <= Ordered[p]
    <2>1. TakenBy(invoice'[i], p) = TakenBy(invoice[i], p)
        BY <1>1 DEF TakenBy, Live
    <2>2. TakenBy(invoice[i], p) \in Nat
        BY RowNumbers
    <2> QED
        BY <2>1, <2>2, TakenNumbers
<1> QED
    BY <1>1, <1>3, <1>4, <1>5, <1>6, <1>7, DocumentsInvoiceStep

(* Challans that lose their bill are in order.                             *)
LEMMA UnlinkedOK ==
    ASSUME IInv, DocumentsInv, NEW i \in Invoices, OnlyInvoice(i), SameChallans,
           IssuedBy(invoice'[i]) = 0,
           invoice'[i].source = invoice[i].source \/ invoice'[i].source = NoOrder,
           \A c \in Challans : \/ challan'[c].bill = NoBill
                               \/ /\ challan'[c].bill = challan[c].bill
                                  /\ challan'[c].posted => challan[c].posted
    PROVE  (\A c \in Challans : LinkOK(challan'[c], invoice')) /\ OwnBills(challan')
<1>1. \A c \in Challans : LinkOK(challan[c], invoice) /\ challan[c].bill \in Invoices \cup {NoBill}
    BY Types DEF DocumentsInv, LinksOK, Challan
<1>2. ASSUME NEW c \in Challans
      PROVE  LinkOK(challan'[c], invoice')
    <2>1. /\ challan'[c].qty = challan[c].qty /\ challan'[c].back = challan[c].back
          /\ challan'[c].status = challan[c].status
        BY DEF SameChallans
    <2>2. LinkOK(challan[c], invoice) /\ challan[c].bill \in Invoices \cup {NoBill}
        BY <1>1
    <2>3. CASE challan'[c].bill = NoBill
        BY <2>1, <2>2, <2>3 DEF LinkOK
    <2>4. CASE challan'[c].bill = i /\ challan'[c].bill = challan[c].bill
        BY <2>1, <2>2, <2>4 DEF LinkOK
    <2>5. CASE challan'[c].bill # i /\ challan'[c].bill = challan[c].bill
                /\ (challan'[c].posted => challan[c].posted)
        BY <2>1, <2>2, <2>5 DEF LinkOK, OnlyInvoice
    <2> QED
        BY <2>3, <2>4, <2>5
<1>3. OwnBills(challan')
    BY DEF OwnBills, DocumentsInv, LinksOK
<1> QED
    BY <1>2, <1>3

(* No pointer to a deleted invoice stays.                                  *)
LEMMA DocumentsDeleteInvoice ==
    ASSUME IInv, DocumentsInv, NEW i \in Invoices, DeleteInvoice(i)
    PROVE  DocumentsInv'
<1> DEFINE o == invoice[i].source
<1>1. /\ OnlyInvoice(i) /\ SameChallans
      /\ invoice[i].status = "DRAFT" /\ o \in Orders \cup {NoOrder}
      /\ invoice'[i].status = "DELETED" /\ invoice'[i].source = NoOrder
      /\ \A c \in Challans : /\ challan'[c].posted = challan[c].posted
                             /\ challan'[c].bill = IF challan[c].bill = i THEN NoBill
                                                   ELSE challan[c].bill
    BY DeleteInvoiceFacts
<1>2. \A p \in Orders :
         p # o => order'[p].bill = IF order[p].bill = i THEN NoBill ELSE order[p].bill
    BY DeleteInvoiceFacts
<1>3. o # NoOrder => \E od \in [Orders -> Order] :
                        /\ od[o] = Discarded(order, challan', invoice', o, i)
                        /\ order'[o] = Recomputed(od, challan', invoice', o, FALSE)
    BY DeleteInvoiceFacts
<1>4. (\A c \in Challans : LinkOK(challan'[c], invoice')) /\ OwnBills(challan')
    <2>1. IssuedBy(invoice'[i]) = 0
        BY <1>1 DEF IssuedBy
    <2>2. \A c \in Challans : \/ challan'[c].bill = NoBill
                              \/ /\ challan'[c].bill = challan[c].bill
                                 /\ challan'[c].posted => challan[c].posted
        BY <1>1
    <2> QED
        BY <1>1, <2>1, <2>2, UnlinkedOK
<1>5. \A p \in Orders : /\ order[p].bill \in Invoices \cup {NoBill}
                        /\ order[p].bill # NoBill => invoice'[order[p].bill].status # "NONE"
    <2>1. \A p \in Orders : /\ order[p].bill \in Invoices \cup {NoBill}
                            /\ order[p].bill # NoBill => invoice[order[p].bill].status # "NONE"
        BY Types DEF Order, DocumentsInv, LinksOK
    <2> QED
        BY <1>1, <2>1 DEF OnlyInvoice
<1> HIDE DEF o
<1>6. Pointers(order', invoice')
    <2> SUFFICES ASSUME NEW p \in Orders
                 PROVE  order'[p].bill # NoBill => invoice'[order'[p].bill].status # "NONE"
        BY DEF Pointers
    <2>1. CASE p # o
        BY <1>2, <1>5, <2>1
    <2>2. CASE p = o
        <3>1. PICK od \in [Orders -> Order] :
                        /\ od[p] = Discarded(order, challan', invoice', p, i)
                        /\ order'[p] = Recomputed(od, challan', invoice', p, FALSE)
            BY <1>3, <2>2, OrderAssumption
        <3>2. od[p].bill = NoBill \/ od[p].bill = order[p].bill
            <4> DEFINE r == order[p]
                       b == IF r.bill = i THEN NoBill ELSE r.bill
                       t == IF r.status = "PARTIALLY_CONVERTED" /\ Taken(challan', invoice', p) = 0
                            THEN Unprocessed(r) ELSE r.status
            <4>1. Discarded(order, challan', invoice', p, i) = [r EXCEPT !.bill = b, !.status = t]
                BY DEF Discarded
            <4>2. r \in Order
                BY Types
            <4> HIDE DEF t
            <4>3. [r EXCEPT !.bill = b, !.status = t].bill = b
                BY <4>2 DEF Order
            <4> QED
                BY <3>1, <4>1, <4>3
        <3>3. od[p].bill # NoBill => invoice'[od[p].bill].status # "NONE"
            BY <1>5, <3>2
        <3> DEFINE y == Recomputed(od, challan', invoice', p, FALSE)
        <3>4. y.bill # NoBill => invoice'[y.bill].status # "NONE"
            BY <3>3, RecomputedPointer
        <3>5. order'[p] = y
            BY <3>1
        <3> HIDE DEF y
        <3> QED
            BY <3>4, <3>5
    <2> QED
        BY <2>1, <2>2
<1>7. ASSUME NEW p \in Orders
      PROVE  Taken(challan, invoice, p) - TakenBy(invoice[i], p) + TakenBy(invoice'[i], p) <= Ordered[p]
    <2>1. TakenBy(invoice'[i], p) = 0 /\ TakenBy(invoice[i], p) \in Nat
        BY <1>1, RowNumbers DEF TakenBy, Live
    <2> QED
        BY <2>1, TakenNumbers
<1> QED
    BY <1>1, <1>4, <1>6, <1>7, DocumentsInvoiceStep

(* The order o of a cancelled invoice, from the row od[o] with the pointer *)
(* cleared.                                                                *)
AfterCancel(od, ch, inv, i, o) ==
    LET y == Recomputed(od, ch, inv, o, TRUE)
        z == OrderAfterCancel(ch, inv, i, o)
    IN
    /\ od[o].held = order[o].held /\ od[o].status = order[o].status
    /\ od[o].bill = IF order[o].bill = i /\ order[o].status # "CONVERTED" THEN NoBill
                    ELSE order[o].bill
    /\ IF invoice[i].source = o \/ od[o].bill = i
       THEN /\ z.held = y.held /\ z.status = y.status
            /\ z.bill = IF y.bill = i THEN NoBill ELSE y.bill
       ELSE z = od[o]

(* The row of any order after an invoice is cancelled has that form.       *)
LEMMA AfterCancelRow ==
    ASSUME IInv, NEW ch, NEW inv, NEW i \in Invoices, NEW o \in Orders
    PROVE  \E od \in [Orders -> Order] : AfterCancel(od, ch, inv, i, o)
<1> DEFINE r == order[o]
           cleared == IF r.bill = i /\ r.status # "CONVERTED" THEN [r EXCEPT !.bill = NoBill] ELSE r
           od == [order EXCEPT ![o] = cleared]
           y == Recomputed(od, ch, inv, o, TRUE)
           z == OrderAfterCancel(ch, inv, i, o)
<1>1. r \in Order
    BY Types
<1>2. /\ cleared \in Order /\ cleared.held = r.held /\ cleared.status = r.status
      /\ cleared.bill = IF r.bill = i /\ r.status # "CONVERTED" THEN NoBill ELSE r.bill
    BY <1>1 DEF Order
<1>3. z = IF invoice[i].source = o \/ cleared.bill = i
          THEN [y EXCEPT !.bill = IF y.bill = i THEN NoBill ELSE y.bill] ELSE cleared
    BY DEF OrderAfterCancel
<1> HIDE DEF cleared
<1>4. od \in [Orders -> Order] /\ od[o] = cleared
    BY <1>2, Types
<1> HIDE DEF od
<1>5. y \in Order
    BY <1>4, RecomputedType
<1> HIDE DEF y, z
<1>6. CASE invoice[i].source = o \/ cleared.bill = i
    <2>1. z = [y EXCEPT !.bill = IF y.bill = i THEN NoBill ELSE y.bill]
        BY <1>3, <1>6
    <2>2. /\ z.held = y.held /\ z.status = y.status
          /\ z.bill = IF y.bill = i THEN NoBill ELSE y.bill
        BY <1>5, <2>1 DEF Order
    <2> QED
        BY <1>2, <1>4, <1>6, <2>2 DEF y, z, AfterCancel
<1>7. CASE ~(invoice[i].source = o \/ cleared.bill = i)
    <2>1. z = cleared
        BY <1>3, <1>7
    <2> QED
        BY <1>2, <1>4, <1>7, <2>1 DEF y, z, AfterCancel
<1> QED
    BY <1>6, <1>7

(* The challans of a cancelled invoice lose their bill and count as not    *)
(* posted, or keep the link to a bill that issued nothing.                 *)
LEMMA DocumentsCancelInvoice ==
    ASSUME IInv, DocumentsInv, NEW i \in Invoices, CancelInvoice(i)
    PROVE  DocumentsInv'
<1>1. /\ OnlyInvoice(i) /\ SameChallans
      /\ invoice'[i].status = "CANCELLED" /\ invoice'[i].source = invoice[i].source
      /\ \A c \in Challans : \/ challan'[c] = challan[c]
                             \/ /\ challan[c].bill = i /\ challan'[c].bill = NoBill
                                /\ challan'[c].posted = FALSE
      /\ \A p \in Orders : order'[p] = OrderAfterCancel(challan', invoice', i, p)
    BY CancelInvoiceFacts
<1>2. (\A c \in Challans : LinkOK(challan'[c], invoice')) /\ OwnBills(challan')
    <2>1. IssuedBy(invoice'[i]) = 0
        BY <1>1 DEF IssuedBy
    <2>2. \A c \in Challans : \/ challan'[c].bill = NoBill
                              \/ /\ challan'[c].bill = challan[c].bill
                                 /\ challan'[c].posted => challan[c].posted
        BY <1>1
    <2> QED
        BY <1>1, <2>1, <2>2, UnlinkedOK
<1>3. Pointers(order', invoice')
    <2> SUFFICES ASSUME NEW p \in Orders
                 PROVE  order'[p].bill # NoBill => invoice'[order'[p].bill].status # "NONE"
        BY DEF Pointers
    <2>1. order[p].bill # NoBill => invoice'[order[p].bill].status # "NONE"
        <3>1. order[p].bill \in Invoices \cup {NoBill}
            BY Types DEF Order
        <3> QED
            BY <1>1, <3>1 DEF DocumentsInv, LinksOK, OnlyInvoice
    <2> DEFINE z == OrderAfterCancel(challan', invoice', i, p)
    <2>2. PICK od \in [Orders -> Order] : AfterCancel(od, challan', invoice', i, p)
        BY AfterCancelRow
    <2> DEFINE y == Recomputed(od, challan', invoice', p, TRUE)
    <2>3. od[p].bill # NoBill => invoice'[od[p].bill].status # "NONE"
        BY <2>1, <2>2 DEF AfterCancel
    <2>4. y.bill # NoBill => invoice'[y.bill].status # "NONE"
        BY <2>3, RecomputedPointer
    <2>5. order'[p] = z
        BY <1>1
    <2>6. z.bill = NoBill \/ z.bill = y.bill \/ z.bill = od[p].bill
        BY <2>2 DEF AfterCancel
    <2> HIDE DEF y, z
    <2> QED
        BY <2>3, <2>4, <2>5, <2>6
<1>4. ASSUME NEW p \in Orders
      PROVE  Taken(challan, invoice, p) - TakenBy(invoice[i], p) + TakenBy(invoice'[i], p) <= Ordered[p]
    <2>1. TakenBy(invoice'[i], p) = 0 /\ TakenBy(invoice[i], p) \in Nat
        BY <1>1, RowNumbers DEF TakenBy, Live
    <2> QED
        BY <2>1, TakenNumbers
<1> QED
    BY <1>1, <1>2, <1>3, <1>4, DocumentsInvoiceStep

-----------------------------------------------------------------------------
(* Steps that change no document.                                          *)

(* Nothing an order sees changes.                                          *)
Quiet ==
    /\ UNCHANGED <<order, challan, invoice>>
    /\ \A w \in Godowns : balance'[w].reserved = balance[w].reserved

(* Movements reserve nothing.                                              *)
LEMMA MovesReserveNothing ==
    ASSUME NEW b \in Balances, NEW u \in Godowns, NEW v \in Godowns, NEW l \in Int, NEW m \in Int
    PROVE  /\ Move(Move(b, u, l), v, m) \in Balances
           /\ \A w \in Godowns : Move(Move(b, u, l), v, m)[w].reserved = b[w].reserved
<1> DEFINE c == Move(b, u, l)
           d == Move(c, v, m)
<1>1. c \in Balances /\ \A w \in Godowns : c[w].reserved = b[w].reserved
    BY MoveEffect
<1> HIDE DEF c
<1>2. d \in Balances /\ \A w \in Godowns : d[w].reserved = c[w].reserved
    BY <1>1, MoveEffect
<1> HIDE DEF d
<1>3. d \in Balances /\ \A w \in Godowns : d[w].reserved = b[w].reserved
    BY <1>1, <1>2
<1> QED
    BY <1>3 DEF d, c

(* A transfer moves goods that nobody reserved.                            *)
LEMMA TransferIsQuiet ==
    ASSUME IInv, TransferNext, UNCHANGED documents
    PROVE  Quiet
<1>0. UNCHANGED <<order, challan, invoice>> /\ balance \in Balances
      /\ Transit \in Godowns /\ MaxQty \in Nat
    BY Types DEF documents
<1>1. PICK t \in Transfers :
        \/ balance' = balance
        \/ Dispatch(t)
        \/ \E n \in 0 .. MaxQty : Receive(t, n)
        \/ WriteOff(t)
        \/ SendBack(t)
        \/ CancelTransfer(t)
    BY DEF TransferNext, Draft, CancelDraft, stock
<1>2. /\ transfer[t].from \in Godowns /\ transfer[t].to \in Godowns
      /\ transfer[t].qty \in Int /\ transfer[t].short \in Int /\ transfer[t].received \in Int
      /\ -transfer[t].qty \in Int /\ -transfer[t].short \in Int
    BY TransferRow
<1>3. CASE balance' = balance
    BY <1>0, <1>3 DEF Quiet
<1>4. CASE Dispatch(t)
    <2> DEFINE u == transfer[t].from
               m == -transfer[t].qty
               n == transfer[t].qty
    <2>1. balance' = Move(Move(balance, u, m), Transit, n)
        BY <1>4 DEF Dispatch
    <2>2. u \in Godowns /\ m \in Int /\ n \in Int
        BY <1>2
    <2> HIDE DEF u, m, n
    <2>3. \A w \in Godowns : balance'[w].reserved = balance[w].reserved
        BY <1>0, <2>1, <2>2, MovesReserveNothing
    <2> QED
        BY <1>0, <2>3 DEF Quiet
<1>5. ASSUME NEW n \in 0 .. MaxQty, Receive(t, n) PROVE Quiet
    <2> DEFINE u == transfer[t].to
               m == -n
    <2>1. balance' = Move(Move(balance, Transit, m), u, n)
        BY <1>5 DEF Receive
    <2>2. u \in Godowns /\ m \in Int /\ n \in Int
        BY <1>0, <1>2
    <2> HIDE DEF u, m
    <2>3. \A w \in Godowns : balance'[w].reserved = balance[w].reserved
        BY <1>0, <2>1, <2>2, MovesReserveNothing
    <2> QED
        BY <1>0, <2>3 DEF Quiet
<1>6. CASE WriteOff(t)
    <2> DEFINE m == -transfer[t].short
    <2>1. balance' = Move(balance, Transit, m)
        BY <1>6 DEF WriteOff
    <2>2. m \in Int
        BY <1>2
    <2> HIDE DEF m
    <2>3. \A w \in Godowns : balance'[w].reserved = balance[w].reserved
        BY <1>0, <2>1, <2>2, MoveEffect
    <2> QED
        BY <1>0, <2>3 DEF Quiet
<1>7. CASE SendBack(t)
    <2> DEFINE u == transfer[t].from
               m == -transfer[t].short
               n == transfer[t].short
    <2>1. balance' = Move(Move(balance, Transit, m), u, n)
        BY <1>7 DEF SendBack
    <2>2. u \in Godowns /\ m \in Int /\ n \in Int
        BY <1>2
    <2> HIDE DEF u, m, n
    <2>3. \A w \in Godowns : balance'[w].reserved = balance[w].reserved
        BY <1>0, <2>1, <2>2, MovesReserveNothing
    <2> QED
        BY <1>0, <2>3 DEF Quiet
<1>8. CASE CancelTransfer(t)
    <2> DEFINE x == transfer[t]
               u == IF x.status = "COMPLETED" THEN x.to ELSE Transit
               l == x.qty - (IF x.settled = "open" THEN 0 ELSE x.short)
               m == -(IF x.status = "COMPLETED" THEN x.received ELSE x.qty)
               n == -(IF OpenShortage(x) THEN x.short ELSE 0)
               b == Move(Move(balance, x.from, l), u, m)
    <2>1. balance' = Move(b, Transit, n)
        BY <1>8 DEF CancelTransfer
    <2>2. x.from \in Godowns /\ u \in Godowns /\ l \in Int /\ m \in Int /\ n \in Int
        BY <1>0, <1>2
    <2> HIDE DEF u, l, m, n
    <2>3. b \in Balances /\ \A w \in Godowns : b[w].reserved = balance[w].reserved
        BY <1>0, <2>2, MovesReserveNothing
    <2> HIDE DEF b
    <2>4. \A w \in Godowns : balance'[w].reserved = b[w].reserved
        BY <1>0, <2>1, <2>2, <2>3, MoveEffect
    <2> QED
        BY <1>0, <2>3, <2>4 DEF Quiet
<1> QED
    BY <1>1, <1>3, <1>4, <1>5, <1>6, <1>7, <1>8

(* Nor does an adjustment, or starting or refusing a return.               *)
LEMMA OthersAreQuiet ==
    ASSUME IInv,
           \/ \E w \in Godowns, delta \in -MaxQty .. MaxQty : Adjust(w, delta) /\ UNCHANGED documents
           \/ \E k \in Clerks, c \in Challans, q \in 1 .. MaxQty : StartReturn(k, c, q)
           \/ \E k \in Clerks : RefuseReturn(k)
    PROVE  Quiet
<1>1. ASSUME NEW w \in Godowns, NEW delta \in -MaxQty .. MaxQty, Adjust(w, delta), UNCHANGED documents
      PROVE  Quiet
    <2>1. balance' = Move(balance, w, delta) /\ delta \in Int
        BY <1>1, Types DEF Adjust
    <2>2. \A v \in Godowns : balance'[v].reserved = balance[v].reserved
        BY <2>1, Types, MoveEffect
    <2> QED
        BY <1>1, <2>2 DEF Quiet, documents
<1> QED
    BY <1>1 DEF StartReturn, RefuseReturn, Quiet, stock

(* An order is confirmed.                                                  *)
Confirmed(o) ==
    /\ OnlyOrder(o) /\ UNCHANGED <<challan, invoice>>
    /\ order[o].status = "DRAFT"
    /\ order'[o].status = "CONFIRMED" /\ order'[o].held /\ order'[o].bill = order[o].bill
    /\ balance'[Shop].reserved = balance[Shop].reserved + Ordered[o]
    /\ \A w \in Godowns \ {Shop} : balance'[w].reserved = balance[w].reserved

(* What confirming an order does.                                          *)
LEMMA ConfirmFacts ==
    ASSUME IInv, NEW o \in Orders, ConfirmSalesOrder(o)
    PROVE  Confirmed(o)
<1>1. Ordered[o] \in Nat
    BY Types, OrderAssumption
<1>2. /\ order[o].status = "DRAFT" /\ balance' = Reserve(balance, Shop, Ordered[o])
      /\ order' = [order EXCEPT ![o].status = "CONFIRMED", ![o].held = TRUE]
      /\ UNCHANGED <<challan, invoice>>
    BY DEF ConfirmSalesOrder
<1>3. /\ balance'[Shop].reserved = balance[Shop].reserved + Ordered[o]
      /\ \A w \in Godowns \ {Shop} : balance'[w].reserved = balance[w].reserved
    BY <1>1, <1>2, Types, ReserveEffect
<1>4. /\ OnlyOrder(o) /\ order'[o].status = "CONFIRMED" /\ order'[o].held = TRUE
      /\ order'[o].bill = order[o].bill
    BY <1>2, Types DEF OnlyOrder, Order, OrderStatus
<1> QED
    BY <1>2, <1>3, <1>4 DEF Confirmed

(* An order is cancelled, or its delivery failed: it gives its hold back.  *)
GivenBack(o) ==
    /\ OnlyOrder(o) /\ UNCHANGED <<challan, invoice>>
    /\ \/ /\ InvoicesForOrder(order, challan, invoice, o) = {} /\ LiveChallans(challan, o) = {}
          /\ order'[o].status = "CANCELLED"
       \/ /\ \A c \in LiveChallans(challan, o) : challan[c].status # "COMPLETED"
          /\ \A i \in InvoicesForOrder(order, challan, invoice, o) : invoice[i].status # "COMPLETED"
          /\ order'[o].status = "DRAFT"
    /\ order'[o].held = FALSE /\ order'[o].bill = order[o].bill
    /\ balance'[Shop].reserved
         = AtLeastZero(balance[Shop].reserved - StillHeld(order, challan, invoice, o))
    /\ \A w \in Godowns \ {Shop} : balance'[w].reserved = balance[w].reserved

(* Cancelling an order and a failed delivery give the whole hold back.     *)
LEMMA GiveBackFacts ==
    ASSUME IInv, NEW o \in Orders, CancelSalesOrder(o) \/ ReleaseFailedStop(o)
    PROVE  GivenBack(o)
<1> DEFINE n == StillHeld(order, challan, invoice, o)
<1>1. n \in Nat
    BY Types, HeldType DEF Quantity
<1>2. PICK s : /\ order' = [order EXCEPT ![o].status = s, ![o].held = FALSE]
               /\ \/ /\ s = "CANCELLED"
                     /\ InvoicesForOrder(order, challan, invoice, o) = {}
                     /\ LiveChallans(challan, o) = {}
                  \/ /\ s = "DRAFT"
                     /\ \A c \in LiveChallans(challan, o) : challan[c].status # "COMPLETED"
                     /\ \A i \in InvoicesForOrder(order, challan, invoice, o) :
                            invoice[i].status # "COMPLETED"
    BY DEF CancelSalesOrder, ReleaseFailedStop
<1>3. UNCHANGED <<challan, invoice>> /\ balance' = Release(balance, Shop, n)
    BY DEF CancelSalesOrder, ReleaseFailedStop
<1> HIDE DEF n
<1>4. /\ balance'[Shop].reserved = AtLeastZero(balance[Shop].reserved - n)
      /\ \A w \in Godowns \ {Shop} : balance'[w].reserved = balance[w].reserved
    <2>1. /\ Release(balance, Shop, n)[Shop].reserved = AtLeastZero(balance[Shop].reserved - n)
          /\ \A w \in Godowns : w # Shop => Release(balance, Shop, n)[w].reserved = balance[w].reserved
        BY <1>1, BalanceType, ReleaseEffect, ReleaseExact
    <2> QED
        BY <1>3, <2>1
<1>5. s \in OrderStatus
    BY <1>2 DEF OrderStatus
<1>6. /\ OnlyOrder(o) /\ order'[o].status = s /\ order'[o].held = FALSE
      /\ order'[o].bill = order[o].bill
    BY <1>2, <1>5, Types DEF OnlyOrder, Order
<1> QED
    BY <1>2, <1>3, <1>4, <1>6 DEF GivenBack, n

(* No documents to begin with.                                             *)
LEMMA NoDocuments ==
    ASSUME Init
    PROVE  /\ \A c \in Challans : challan[c] = NoChallan
           /\ \A i \in Invoices : invoice[i] = NoInvoice
           /\ \A o \in Orders : /\ order[o].status = "DRAFT" /\ order[o].held = FALSE
                                /\ order[o].bill = NoBill
                                /\ Shipped(challan, o) = 0 /\ Done(invoice, o) = 0
                                /\ Taken(challan, invoice, o) = 0
           /\ \A w \in Godowns : balance[w].reserved = 0
<1>1. /\ challan = [c \in Challans |-> NoChallan] /\ invoice = [i \in Invoices |-> NoInvoice]
      /\ \A o \in Orders : /\ order[o].status = "DRAFT" /\ order[o].held = FALSE
                           /\ order[o].bill = NoBill
    BY DEF Init, OrderInit
<1>2. \A w \in Godowns : balance[w].reserved = 0
    BY DEF Init, StockInit
<1>3. ASSUME NEW o \in Orders
      PROVE  Shipped(challan, o) = 0 /\ Done(invoice, o) = 0 /\ Taken(challan, invoice, o) = 0
    <2>1. \A states :
            /\ [c \in Challans |-> IF challan[c].order = o /\ challan[c].status \in states
                                   THEN challan[c].qty ELSE 0] = [c \in Challans |-> 0]
            /\ [i \in Invoices |-> IF invoice[i].source = o /\ invoice[i].status \in states
                                   THEN invoice[i].qty ELSE 0] = [i \in Invoices |-> 0]
        BY <1>1 DEF NoChallan, NoInvoice
    <2>2. [c \in Challans |-> IF challan[c].order = o THEN challan[c].back ELSE 0]
            = [c \in Challans |-> 0]
        BY <1>1 DEF NoChallan
    <2>3. Sum([c \in Challans |-> 0]) = 0 /\ Sum([i \in Invoices |-> 0]) = 0
        BY OrderSumFacts
    <2>4. /\ \A states : OnChallans(challan, o, states) = 0 /\ OnInvoices(invoice, o, states) = 0
          /\ CameBack(challan, o) = 0
        BY <2>1, <2>2, <2>3 DEF OnChallans, OnInvoices, CameBack
    <2> QED
        BY <2>4 DEF Shipped, Done, Taken, ClaimedByChallans, AtLeastZero
<1> QED
    BY <1>1, <1>2, <1>3

(* Without documents the invariant holds.                                  *)
LEMMA DocumentsInit ==
    ASSUME Init
    PROVE  DocumentsInv
<1>0. \A c \in Challans : challan[c].bill = NoBill /\ challan[c].back = 0 /\ challan[c].status = "NONE"
    BY NoDocuments DEF NoChallan
<1>1. LinksOK
    <2>1. \A c \in Challans : LinkOK(challan[c], invoice)
        BY <1>0 DEF LinkOK, Live
    <2>2. OwnBills(challan)
        BY <1>0 DEF OwnBills
    <2>3. \A o \in Orders : order[o].bill = NoBill
        BY NoDocuments
    <2> QED
        BY <2>1, <2>2, <2>3 DEF LinksOK
<1>2. NotOverTaken
    <2>1. \A o \in Orders : Ordered[o] \in Nat
        BY StockAssumption, OrderAssumption
    <2>2. \A o \in Orders : Taken(challan, invoice, o) = 0
        BY NoDocuments
    <2> QED
        BY <2>1, <2>2 DEF NotOverTaken
<1> QED
    BY <1>1, <1>2 DEF DocumentsInv

(* Every handler keeps the documents consistent.                           *)
LEMMA DocumentsNext ==
    ASSUME IInv, DocumentsInv, Next
    PROVE  DocumentsInv'
<1>1. CASE OrderNext
    <2>1. ASSUME NEW o \in Orders,
                 ConfirmSalesOrder(o) \/ CancelSalesOrder(o) \/ ReleaseFailedStop(o)
          PROVE  DocumentsInv'
        <3>1. OnlyOrder(o) /\ UNCHANGED <<challan, invoice>> /\ order'[o].bill = order[o].bill
            BY <2>1, ConfirmFacts, GiveBackFacts DEF Confirmed, GivenBack
        <3> QED
            BY <3>1, DocumentsSame DEF OnlyOrder
    <2>2. ASSUME RebuildBalance PROVE DocumentsInv'
        BY <2>2, DocumentsSame DEF RebuildBalance, documents
    <2>3. ASSUME Quiet PROVE DocumentsInv'
        BY <2>3, DocumentsSame DEF Quiet
    <2>4. ASSUME NEW k \in Clerks, CompleteReturn(k) PROVE DocumentsInv'
        <3>1. PICK c \in Challans : \E q \in Nat : BackOnChallan(c, q)
            BY <2>4, CompleteReturnFacts
        <3> QED
            BY <3>1, DocumentsBack
    <2>5. ASSUME NEW c \in Challans, CancelChallan(c) PROVE DocumentsInv'
        BY <2>5, CancelChallanFacts, RowNumbers, DocumentsBack
    <2> QED
        BY <1>1, <2>1, <2>2, <2>3, <2>4, <2>5, OthersAreQuiet, DocumentsConvert, DocumentsToChallan,
           DocumentsCompleteChallan, DocumentsDropDraft, DocumentsBillChallan,
           DocumentsCompleteInvoice, DocumentsDeleteInvoice, DocumentsCancelInvoice DEF OrderNext
<1>2. CASE TransferNext /\ UNCHANGED documents
    BY <1>2, TransferIsQuiet, DocumentsSame DEF Quiet
<1>3. ASSUME NEW w \in Godowns, NEW delta \in -MaxQty .. MaxQty, Adjust(w, delta), UNCHANGED documents
      PROVE  DocumentsInv'
    BY <1>3, DocumentsSame DEF documents
<1> QED
    BY <1>1, <1>2, <1>3 DEF Next

(* The documents of the orders stay consistent: together they never claim  *)
(* more of an order than was ordered.                                      *)
THEOREM DocumentsInductive == Spec => [](IInv /\ DocumentsInv)
<1>1. Init => IInv /\ DocumentsInv
    BY InitKeeps, DocumentsInit
<1>2. IInv /\ DocumentsInv /\ [Next]_vars => DocumentsInv'
    <2>1. DocumentsInv /\ UNCHANGED vars => DocumentsInv'
        BY DEF vars, DocumentsInv, LinksOK, OwnBills, NotOverTaken
    <2> QED
        BY <2>1, DocumentsNext
<1> QED
    BY <1>1, <1>2, Invariance, PTL DEF Spec

-----------------------------------------------------------------------------
(* What the orders hold.                                                   *)

(* The state after a step that keeps the invariants.                       *)
LEMMA AfterStep ==
    ASSUME IInv', DocumentsInv'
    PROVE  /\ order' \in [Orders -> Order] /\ challan' \in [Challans -> Challan]
           /\ invoice' \in [Invoices -> Invoice] /\ balance' \in Balances
           /\ Net(challan')
           /\ \A o \in Orders : Taken(challan', invoice', o) <= Ordered[o]
<1>1. /\ order' \in [Orders -> Order] /\ challan' \in [Challans -> Challan]
      /\ invoice' \in [Invoices -> Invoice] /\ balance' \in Balances
    BY DEF IInv, StockTypeOK, Balances
<1>2. \A c \in Challans : /\ challan'[c].back <= challan'[c].qty
                          /\ challan'[c].back > 0 => challan'[c].status = "COMPLETED"
    BY DEF IInv, RowsOK, ChallansOK, ChallanOK, DocumentsInv, LinksOK, LinkOK
<1>3. \A o \in Orders : Taken(challan', invoice', o) <= Ordered[o]
    BY DEF DocumentsInv, NotOverTaken
<1> QED
    BY <1>1, <1>2, <1>3 DEF Net

(* What has left the godown for order o, on challans or its own invoices.  *)
Fulfilled(ch, inv, o) == Shipped(ch, o) + Done(inv, o)

(* An order that holds holds exactly what was not fulfilled.               *)
LEMMA HeldIs ==
    ASSUME NEW od, NEW ch \in [Challans -> Challan], Net(ch), NEW inv \in [Invoices -> Invoice],
           NEW o \in Orders, Taken(ch, inv, o) <= Ordered[o],
           od[o].held => od[o].status # "CANCELLED"
    PROVE  /\ StillHeld(od, ch, inv, o) = IF od[o].held THEN Ordered[o] - Fulfilled(ch, inv, o) ELSE 0
           /\ Fulfilled(ch, inv, o) \in Nat /\ Fulfilled(ch, inv, o) <= Ordered[o]
           /\ Ordered[o] \in Nat
           /\ Idle(ch, inv, o) <=> Fulfilled(ch, inv, o) = 0
<1>1. /\ Shipped(ch, o) \in Nat /\ Done(inv, o) \in Nat /\ Taken(ch, inv, o) \in Nat
      /\ Shipped(ch, o) + Done(inv, o) <= Taken(ch, inv, o)
    BY DoneWithinTaken
<1>2. Ordered[o] \in Nat
    BY StockAssumption, OrderAssumption
<1>3. AtLeastZero(Ordered[o] - Shipped(ch, o) - Done(inv, o)) = Ordered[o] - Fulfilled(ch, inv, o)
    BY <1>1, <1>2 DEF AtLeastZero, Fulfilled
<1>4. StillHeld(od, ch, inv, o) = IF od[o].held THEN Ordered[o] - Fulfilled(ch, inv, o) ELSE 0
    BY <1>3 DEF StillHeld, Done
<1>5. Fulfilled(ch, inv, o) \in Nat /\ Fulfilled(ch, inv, o) <= Ordered[o]
    BY <1>1, <1>2 DEF Fulfilled
<1>6. Idle(ch, inv, o) <=> Fulfilled(ch, inv, o) = 0
    BY <1>1 DEF Fulfilled, Idle
<1> QED
    BY <1>2, <1>4, <1>5, <1>6

(* Holds stay with their orders, d more of order o is fulfilled, and what  *)
(* is reserved goes down by as much if o holds.                            *)
Kept(o, d) ==
    /\ \A p \in Orders :
          /\ order'[p].held = order[p].held
          /\ Fulfilled(challan', invoice', p)
               = Fulfilled(challan, invoice, p) + (IF p = o THEN d ELSE 0)
    /\ balance'[Shop].reserved
         = AtLeastZero(balance[Shop].reserved - (IF o \in Orders /\ order[o].held THEN d ELSE 0))
    /\ \A w \in Godowns \ {Shop} : balance'[w].reserved = balance[w].reserved

(* What is held is a function of quantities.                               *)
Holding(od, ch, inv) == [o \in Orders |-> StillHeld(od, ch, inv, o)]

(* What each order holds is a quantity.                                    *)
LEMMA HoldingType ==
    ASSUME NEW od, NEW ch \in [Challans -> Challan], NEW inv \in [Invoices -> Invoice]
    PROVE  Holding(od, ch, inv) \in [Orders -> Quantity]
BY HeldType DEF Holding

(* What is reserved follows when one order's hold changes by as much.      *)
LEMMA HeldChanges ==
    ASSUME IInv, IInv', DocumentsInv', ReservedIsHeld, NEW o \in Orders,
           \A p \in Orders : p # o => StillHeld(order', challan', invoice', p)
                                        = StillHeld(order, challan, invoice, p),
           balance'[Shop].reserved = balance[Shop].reserved - StillHeld(order, challan, invoice, o)
                                       + StillHeld(order', challan', invoice', o),
           \A w \in Godowns \ {Shop} : balance'[w].reserved = balance[w].reserved
    PROVE  ReservedIsHeld'
<1> DEFINE f == Holding(order, challan, invoice)
           g == Holding(order', challan', invoice')
<1>1. f \in [Orders -> Quantity] /\ g \in [Orders -> Quantity]
    BY Types, AfterStep, HoldingType
<1>2. /\ \A p \in Orders : /\ f[p] = StillHeld(order, challan, invoice, p)
                           /\ g[p] = StillHeld(order', challan', invoice', p)
      /\ balance[Shop].reserved = Sum(f)
    BY DEF Holding, ReservedIsHeld
<1>3. ReservedIsHeld' <=> /\ balance'[Shop].reserved = Sum(g)
                          /\ \A w \in Godowns \ {Shop} : balance'[w].reserved = 0
    BY DEF Holding, ReservedIsHeld
<1> HIDE DEF f, g
<1>4. Sum(g) = Sum(f) - f[o] + g[o]
    BY <1>1, <1>2, SumUpdate
<1>5. \A w \in Godowns \ {Shop} : balance'[w].reserved = 0
    BY DEF ReservedIsHeld
<1> QED
    BY <1>2, <1>3, <1>4, <1>5

(* What is reserved covers what each order holds.                          *)
LEMMA HeldIsReserved ==
    ASSUME IInv, ReservedIsHeld, NEW o \in Orders
    PROVE  StillHeld(order, challan, invoice, o) <= balance[Shop].reserved
<1> DEFINE f == Holding(order, challan, invoice)
<1>1. f \in [Orders -> Quantity] /\ balance[Shop].reserved = Sum(f)
      /\ f[o] = StillHeld(order, challan, invoice, o)
    BY Types, HoldingType DEF Holding, ReservedIsHeld
<1> HIDE DEF f
<1> QED
    BY <1>1, SumAtLeast

(* If the handlers move exactly what was held, what is reserved stays what *)
(* is held.                                                                *)
LEMMA KeptIsHeld ==
    ASSUME IInv, IInv', DocumentsInv, DocumentsInv', HoldsOK, HoldsOK', ReservedIsHeld,
           NEW o, NEW d \in Int, Kept(o, d)
    PROVE  ReservedIsHeld'
<1> DEFINE a(p) == StillHeld(order, challan, invoice, p)
           z(p) == StillHeld(order', challan', invoice', p)
           u(p) == Fulfilled(challan, invoice, p)
           v(p) == Fulfilled(challan', invoice', p)
<1>1. \A p \in Orders : /\ a(p) = IF order[p].held THEN Ordered[p] - u(p) ELSE 0
                        /\ u(p) \in Nat /\ u(p) <= Ordered[p] /\ Ordered[p] \in Nat
    BY Types, NetChallans, HeldIs DEF DocumentsInv, NotOverTaken, HoldsOK, HoldOK
<1>2. \A p \in Orders : /\ z(p) = IF order'[p].held THEN Ordered[p] - v(p) ELSE 0
                        /\ v(p) \in Nat /\ v(p) <= Ordered[p]
    BY AfterStep, HeldIs DEF HoldsOK, HoldOK
<1>3. /\ \A p \in Orders : /\ order'[p].held = order[p].held
                           /\ v(p) = u(p) + (IF p = o THEN d ELSE 0)
      /\ balance'[Shop].reserved
           = AtLeastZero(balance[Shop].reserved - (IF o \in Orders /\ order[o].held THEN d ELSE 0))
      /\ \A w \in Godowns \ {Shop} : balance'[w].reserved = balance[w].reserved
    BY DEF Kept
<1>4. balance[Shop].reserved \in Nat
    BY Types DEF Balances
<1>5. \A p \in Orders : a(p) <= balance[Shop].reserved
    BY HeldIsReserved
<1> HIDE DEF a, z, u, v
<1>6. CASE o \in Orders
    <2>1. \A p \in Orders : p # o => z(p) = a(p)
        BY <1>1, <1>2, <1>3
    <2>2. balance'[Shop].reserved = balance[Shop].reserved - a(o) + z(o)
        BY <1>1, <1>2, <1>3, <1>4, <1>5, <1>6 DEF AtLeastZero
    <2> QED
        BY <1>3, <1>6, <2>1, <2>2, HeldChanges DEF a, z
<1>7. CASE o \notin Orders
    <2>1. \A p \in Orders : z(p) = a(p)
        BY <1>1, <1>2, <1>3, <1>7
    <2>2. Holding(order', challan', invoice') = Holding(order, challan, invoice)
        BY <2>1 DEF a, z, Holding
    <2>3. balance'[Shop].reserved = balance[Shop].reserved
        BY <1>3, <1>4, <1>7 DEF AtLeastZero
    <2> QED
        BY <1>3, <2>2, <2>3 DEF ReservedIsHeld, Holding
<1> QED
    BY <1>6, <1>7

(* recompute_order_status makes no draft of an order that holds or of      *)
(* which something is out.                                                 *)
LEMMA RecomputedHolds ==
    ASSUME NEW od \in [Orders -> Order], NEW ch \in [Challans -> Challan], Net(ch),
           NEW inv \in [Invoices -> Invoice], NEW o \in Orders, NEW reopen \in BOOLEAN,
           od[o].status \in {"DRAFT", "CANCELLED"} => ~od[o].held
    PROVE  HoldOK(Recomputed(od, ch, inv, o, reopen), ch, inv, o)
<1> DEFINE y == Recomputed(od, ch, inv, o, reopen)
<1>1. /\ y.status = "CANCELLED" => od[o].status = "CANCELLED"
      /\ y.status = "DRAFT" => /\ ~AnyCompleted(od, ch, inv, o)
                               /\ od[o].status = "DRAFT" \/ ~od[o].held
    BY RecomputedStatus
<1>2. y.held = od[o].held
    BY RecomputedHold
<1> HIDE DEF y
<1>3. y.status = "DRAFT" => Idle(ch, inv, o)
    BY <1>1, NothingCompleted
<1>4. HoldOK(y, ch, inv, o)
    BY <1>1, <1>2, <1>3 DEF HoldOK
<1> QED
    BY <1>4 DEF y

(* An order of which nothing more is out, with the hold it had.            *)
LEMMA SameHold ==
    ASSUME IInv, IInv', DocumentsInv, DocumentsInv', HoldsOK, NEW p \in Orders,
           order'[p].status = order[p].status \/ order'[p].status = "PARTIALLY_CONVERTED",
           order'[p].held = order[p].held,
           Fulfilled(challan', invoice', p) = Fulfilled(challan, invoice, p)
    PROVE  HoldOK(order'[p], challan', invoice', p)
<1>1. Idle(challan, invoice, p) <=> Fulfilled(challan, invoice, p) = 0
    <2>1. Shipped(challan, p) \in Nat /\ Done(invoice, p) \in Nat
        BY TakenNumbers
    <2> QED
        BY <2>1 DEF Idle, Fulfilled
<1>2. Idle(challan', invoice', p) <=> Fulfilled(challan', invoice', p) = 0
    <2>1. Shipped(challan', p) \in Nat /\ Done(invoice', p) \in Nat
        BY AfterStep, DoneWithinTaken
    <2> QED
        BY <2>1 DEF Idle, Fulfilled
<1> QED
    BY <1>1, <1>2 DEF HoldsOK, HoldOK

(* A step on one challan, or on one invoice, fulfils what it says.         *)
LEMMA ChallanFulfils ==
    ASSUME IInv, IInv', DocumentsInv, DocumentsInv', NEW c \in Challans, OnlyChallan(c),
           NEW p \in Orders
    PROVE  /\ Fulfilled(challan', invoice', p)
                = Fulfilled(challan, invoice, p) - ShipOf(challan[c], p) + ShipOf(challan'[c], p)
           /\ Fulfilled(challan, invoice, p) \in Nat
<1>1. Net(challan) /\ Net(challan') /\ challan' \in [Challans -> Challan]
    BY NetChallans, AfterStep DEF DocumentsInv
<1>2. Shipped(challan', p) = Shipped(challan, p) - ShipOf(challan[c], p) + ShipOf(challan'[c], p)
    BY <1>1, Types, ChallanSums DEF OnlyChallan
<1>3. Shipped(challan, p) \in Nat /\ Done(invoice, p) \in Nat /\ Shipped(challan', p) \in Nat
    BY <1>1, TakenNumbers, AfterStep, DoneWithinTaken
<1>4. Done(invoice', p) = Done(invoice, p)
    BY DEF OnlyChallan
<1>5. ShipOf(challan[c], p) \in Int /\ ShipOf(challan'[c], p) \in Int
    BY <1>1, Types DEF ShipOf, Challan, Quantity
<1> QED
    BY <1>2, <1>3, <1>4, <1>5 DEF Fulfilled

(* A step on one invoice changes what is fulfilled by what it changes      *)
(* there.                                                                  *)
LEMMA InvoiceFulfils ==
    ASSUME IInv, DocumentsInv, NEW i \in Invoices, OnlyInvoice(i), SameChallans, NEW p \in Orders
    PROVE  /\ Fulfilled(challan', invoice', p)
                = Fulfilled(challan, invoice, p) - DoneOf(invoice[i], p) + DoneOf(invoice'[i], p)
           /\ Fulfilled(challan, invoice, p) \in Nat
<1>1. Shipped(challan', p) = Shipped(challan, p)
    BY SameClaims DEF SameChallans
<1>2. Done(invoice', p) = Done(invoice, p) - DoneOf(invoice[i], p) + DoneOf(invoice'[i], p)
    BY Types, InvoiceSums DEF OnlyInvoice
<1>3. Shipped(challan, p) \in Nat /\ Done(invoice, p) \in Nat
    BY TakenNumbers
<1>4. DoneOf(invoice[i], p) \in Int /\ DoneOf(invoice'[i], p) \in Int
    BY Types DEF DoneOf, Invoice, Quantity, OnlyInvoice
<1> QED
    BY <1>1, <1>2, <1>3, <1>4 DEF Fulfilled

(* Nothing is reserved or released.                                        *)
LEMMA NothingReserved ==
    ASSUME IInv, \A w \in Godowns : balance'[w].reserved = balance[w].reserved, NEW o
    PROVE  /\ balance'[Shop].reserved
                = AtLeastZero(balance[Shop].reserved - (IF o \in Orders /\ order[o].held THEN 0 ELSE 0))
           /\ \A w \in Godowns \ {Shop} : balance'[w].reserved = balance[w].reserved
<1>1. balance[Shop].reserved \in Nat
    BY Types DEF Balances
<1> QED
    BY <1>1, Types DEF AtLeastZero

(* A draft challan or invoice fulfils nothing yet.                         *)
LEMMA HoldsToChallan ==
    ASSUME IInv, IInv', DocumentsInv, DocumentsInv', HoldsOK,
           NEW o \in Orders, NEW c \in Challans, NEW q \in 1 .. MaxQty,
           ConvertSalesOrderToChallan(o, c, q)
    PROVE  HoldsOK' /\ Kept(o, 0)
<1>1. /\ OnlyChallan(c) /\ OnlyOrder(o) /\ balance' = balance /\ challan[c].status = "NONE"
      /\ challan'[c].status = "DRAFT"
      /\ order'[o].held = order[o].held
      /\ order'[o].status = order[o].status \/ order'[o].status = "PARTIALLY_CONVERTED"
    <2>1. ChallanDrafted(o, c, q)
        BY ToChallanFacts
    <2> QED
        BY <2>1 DEF ChallanDrafted
<1>2. \A p \in Orders : /\ Fulfilled(challan', invoice', p) = Fulfilled(challan, invoice, p)
                        /\ Fulfilled(challan, invoice, p) \in Nat
    <2> TAKE p \in Orders
    <2>1. ShipOf(challan[c], p) = 0 /\ ShipOf(challan'[c], p) = 0
        BY <1>1 DEF ShipOf
    <2> QED
        BY <1>1, <2>1, ChallanFulfils
<1>3. HoldsOK'
    <2> SUFFICES ASSUME NEW p \in Orders PROVE HoldOK(order'[p], challan', invoice', p)
        BY DEF HoldsOK
    <2> QED
        BY <1>1, <1>2, SameHold DEF OnlyOrder
<1>4. Kept(o, 0)
    BY <1>1, <1>2, NothingReserved DEF Kept, OnlyOrder
<1> QED
    BY <1>3, <1>4

(* Making a draft invoice moves nothing of the hold.                       *)
LEMMA HoldsConvert ==
    ASSUME IInv, IInv', DocumentsInv, DocumentsInv', HoldsOK,
           NEW o \in Orders, NEW i \in Invoices, NEW q \in 1 .. MaxQty, ConvertSalesOrder(o, i, q)
    PROVE  HoldsOK' /\ Kept(o, 0)
<1>1. /\ OnlyInvoice(i) /\ OnlyOrder(o) /\ challan' = challan /\ balance' = balance
      /\ invoice[i].status = "NONE" /\ invoice'[i].status = "DRAFT"
      /\ order'[o].held = order[o].held
      /\ order'[o].status = order[o].status \/ order'[o].status = "PARTIALLY_CONVERTED"
    <2>1. InvoiceDrafted(o, i, q)
        BY ConvertFacts
    <2> QED
        BY <2>1 DEF InvoiceDrafted
<1>2. \A p \in Orders : /\ Fulfilled(challan', invoice', p) = Fulfilled(challan, invoice, p)
                        /\ Fulfilled(challan, invoice, p) \in Nat
    <2> TAKE p \in Orders
    <2>1. DoneOf(invoice[i], p) = 0 /\ DoneOf(invoice'[i], p) = 0
        BY <1>1 DEF DoneOf
    <2>2. SameChallans
        BY <1>1, Types DEF SameChallans
    <2> QED
        BY <1>1, <2>1, <2>2, InvoiceFulfils
<1>3. HoldsOK'
    <2> SUFFICES ASSUME NEW p \in Orders PROVE HoldOK(order'[p], challan', invoice', p)
        BY DEF HoldsOK
    <2> QED
        BY <1>1, <1>2, SameHold DEF OnlyOrder
<1>4. Kept(o, 0)
    BY <1>1, <1>2, NothingReserved DEF Kept, OnlyOrder
<1> QED
    BY <1>3, <1>4

(* Billing a challan moves nothing of the hold.                            *)
LEMMA HoldsBillChallan ==
    ASSUME IInv, IInv', DocumentsInv, DocumentsInv', HoldsOK,
           NEW c \in Challans, NEW i \in Invoices, ConvertDeliveryChallan(c, i)
    PROVE  HoldsOK' /\ Kept(NoOrder, 0)
<1>a. challan[c].order \in Orders
    BY BillChallanFacts
<1>b. PICK o \in Orders : o = challan[c].order
    BY <1>a
<1>1. /\ OnlyInvoice(i) /\ OnlyOrder(o) /\ SameChallans /\ balance' = balance
      /\ invoice[i].status = "NONE" /\ invoice'[i].status = "DRAFT"
      /\ order'[o].held = order[o].held /\ order'[o].status = order[o].status
    BY <1>b, BillChallanFacts
<1>2. \A p \in Orders : /\ Fulfilled(challan', invoice', p) = Fulfilled(challan, invoice, p)
                        /\ Fulfilled(challan, invoice, p) \in Nat
    <2> TAKE p \in Orders
    <2>1. DoneOf(invoice[i], p) = 0 /\ DoneOf(invoice'[i], p) = 0
        BY <1>1 DEF DoneOf
    <2> QED
        BY <1>1, <2>1, InvoiceFulfils
<1>3. HoldsOK'
    <2> SUFFICES ASSUME NEW p \in Orders PROVE HoldOK(order'[p], challan', invoice', p)
        BY DEF HoldsOK
    <2> QED
        BY <1>1, <1>2, SameHold DEF OnlyOrder
<1>4. Kept(NoOrder, 0)
    BY <1>1, <1>2, NothingReserved DEF Kept, OnlyOrder
<1> QED
    BY <1>3, <1>4

(* Completing a document takes off the whole of its quantity if the order  *)
(* holds, and nothing otherwise.                                           *)
LEMMA ReleasedWhole ==
    ASSUME IInv, IInv', DocumentsInv, DocumentsInv', HoldsOK, NEW o \in Orders, NEW q \in Nat,
           Fulfilled(challan', invoice', o) = Fulfilled(challan, invoice, o) + q
    PROVE  Least(StillHeld(order, challan, invoice, o), q) = IF order[o].held THEN q ELSE 0
<1>1. /\ StillHeld(order, challan, invoice, o)
           = IF order[o].held THEN Ordered[o] - Fulfilled(challan, invoice, o) ELSE 0
      /\ Fulfilled(challan, invoice, o) \in Nat /\ Ordered[o] \in Nat
    BY Types, NetChallans, HeldIs DEF DocumentsInv, NotOverTaken, HoldsOK, HoldOK
<1>2. Fulfilled(challan', invoice', o) <= Ordered[o]
    <2>1. /\ Shipped(challan', o) + Done(invoice', o) <= Taken(challan', invoice', o)
          /\ Taken(challan', invoice', o) <= Ordered[o]
          /\ Shipped(challan', o) \in Nat /\ Done(invoice', o) \in Nat
          /\ Taken(challan', invoice', o) \in Nat
        BY AfterStep, DoneWithinTaken
    <2> QED
        BY <1>1, <2>1 DEF Fulfilled
<1> QED
    BY <1>1, <1>2 DEF Least

(* A completed challan takes its quantity out of the hold.                 *)
LEMMA HoldsCompleteChallan ==
    ASSUME IInv, IInv', DocumentsInv, DocumentsInv', HoldsOK,
           NEW c \in Challans, NEW post \in StockOnChallan, CompleteChallan(c, post)
    PROVE  HoldsOK' /\ Kept(challan[c].order, challan[c].qty)
<1>a. challan[c].order \in Orders
    BY CompleteChallanFacts
<1>b. PICK o \in Orders : o = challan[c].order
    BY <1>a
<1>c. PICK q \in Nat : q = challan[c].qty
    BY RowNumbers
<1>1. /\ OnlyChallan(c) /\ OnlyOrder(o)
      /\ challan[c].status = "DRAFT"
      /\ challan'[c].status = "COMPLETED" /\ challan'[c].order = o
      /\ challan'[c].qty = q /\ challan'[c].back = 0
      /\ order'[o] = Recomputed(order, challan', invoice', o, FALSE)
      /\ balance'[Shop].reserved = AtLeastZero(balance[Shop].reserved
                                      - Least(StillHeld(order, challan, invoice, o), q))
      /\ \A w \in Godowns \ {Shop} : balance'[w].reserved = balance[w].reserved
    BY <1>b, <1>c, CompleteChallanFacts
<1>2. \A p \in Orders : /\ Fulfilled(challan', invoice', p)
                             = Fulfilled(challan, invoice, p) + (IF p = o THEN q ELSE 0)
                        /\ Fulfilled(challan, invoice, p) \in Nat
    <2> TAKE p \in Orders
    <2>1. ShipOf(challan[c], p) = 0 /\ ShipOf(challan'[c], p) = IF p = o THEN q ELSE 0
        BY <1>1 DEF ShipOf
    <2> QED
        BY <1>1, <2>1, ChallanFulfils
<1>3. order'[o].held = order[o].held
    <2>1. order \in [Orders -> Order]
        BY Types
    <2>2. Recomputed(order, challan', invoice', o, FALSE).held = order[o].held
        BY <2>1, RecomputedKeepsHold
    <2> QED
        BY <1>1, <2>2
<1>4. HoldsOK'
    <2> SUFFICES ASSUME NEW p \in Orders PROVE HoldOK(order'[p], challan', invoice', p)
        BY DEF HoldsOK
    <2>1. CASE p = o
        <3>1. order[o].status \in {"DRAFT", "CANCELLED"} => ~order[o].held
            BY DEF HoldsOK, HoldOK
        <3>2. /\ order \in [Orders -> Order] /\ challan' \in [Challans -> Challan] /\ Net(challan')
              /\ invoice' \in [Invoices -> Invoice] /\ FALSE \in BOOLEAN
            BY Types, AfterStep
        <3>3. HoldOK(Recomputed(order, challan', invoice', o, FALSE), challan', invoice', o)
            BY <3>1, <3>2, RecomputedHolds
        <3> QED
            BY <1>1, <2>1, <3>3
    <2>2. CASE p # o
        BY <1>1, <1>2, <2>2, SameHold DEF OnlyOrder
    <2> QED
        BY <2>1, <2>2
<1>5. Least(StillHeld(order, challan, invoice, o), q) = IF order[o].held THEN q ELSE 0
    BY <1>2, ReleasedWhole
<1>6. balance'[Shop].reserved
        = AtLeastZero(balance[Shop].reserved - (IF o \in Orders /\ order[o].held THEN q ELSE 0))
    BY <1>1, <1>5
<1>7. Kept(o, q)
    BY <1>1, <1>2, <1>3, <1>6 DEF Kept, OnlyOrder
<1> QED
    BY <1>b, <1>c, <1>4, <1>7

(* Dropping a draft challan moves nothing of the hold.                     *)
LEMMA HoldsDropDraft ==
    ASSUME IInv, IInv', DocumentsInv, DocumentsInv', HoldsOK,
           NEW c \in Challans, DeleteChallan(c) \/ CancelDraftChallan(c)
    PROVE  HoldsOK' /\ Kept(NoOrder, 0)
<1>a. challan[c].order \in Orders
    BY DropDraftFacts
<1>b. PICK o \in Orders : o = challan[c].order
    BY <1>a
<1>1. /\ OnlyChallan(c) /\ OnlyOrder(o) /\ balance' = balance
      /\ challan[c].status = "DRAFT" /\ challan'[c].status \in {"DELETED", "CANCELLED"}
      /\ order'[o].held = order[o].held
      /\ \/ order'[o].status = Recomputed(order, challan', invoice', o, FALSE).status
         \/ /\ Taken(challan', invoice', o) = 0
            /\ order'[o].status = Unprocessed(order[o])
    BY <1>b, DropDraftFacts
<1>2. \A p \in Orders : /\ Fulfilled(challan', invoice', p) = Fulfilled(challan, invoice, p)
                        /\ Fulfilled(challan, invoice, p) \in Nat
    <2> TAKE p \in Orders
    <2>1. ShipOf(challan[c], p) = 0 /\ ShipOf(challan'[c], p) = 0
        BY <1>1 DEF ShipOf
    <2> QED
        BY <1>1, <2>1, ChallanFulfils
<1>3. HoldsOK'
    <2> SUFFICES ASSUME NEW p \in Orders PROVE HoldOK(order'[p], challan', invoice', p)
        BY DEF HoldsOK
    <2>1. CASE p = o
        <3> DEFINE y == Recomputed(order, challan', invoice', o, FALSE)
        <3>1. CASE order'[o].status = y.status
            <4>1. order[o].status \in {"DRAFT", "CANCELLED"} => ~order[o].held
                BY DEF HoldsOK, HoldOK
            <4>2. /\ order \in [Orders -> Order] /\ challan' \in [Challans -> Challan] /\ Net(challan')
                  /\ invoice' \in [Invoices -> Invoice] /\ FALSE \in BOOLEAN
                BY Types, AfterStep
            <4>3. HoldOK(y, challan', invoice', o)
                BY <4>1, <4>2, RecomputedHolds
            <4>4. y.held = order[o].held
                BY Types, RecomputedKeepsHold
            <4> HIDE DEF y
            <4> QED
                BY <1>1, <2>1, <3>1, <4>3, <4>4 DEF HoldOK
        <3>2. CASE Taken(challan', invoice', o) = 0 /\ order'[o].status = Unprocessed(order[o])
            <4>1. Idle(challan', invoice', o)
                <5>1. /\ Shipped(challan', o) \in Nat /\ Done(invoice', o) \in Nat
                      /\ Shipped(challan', o) + Done(invoice', o) <= Taken(challan', invoice', o)
                    BY AfterStep, DoneWithinTaken
                <5> QED
                    BY <3>2, <5>1 DEF Idle
            <4> QED
                BY <1>1, <2>1, <3>2, <4>1 DEF HoldOK, Unprocessed
        <3> QED
            BY <1>1, <3>1, <3>2
    <2>2. CASE p # o
        BY <1>1, <1>2, <2>2, SameHold DEF OnlyOrder
    <2> QED
        BY <2>1, <2>2
<1>4. Kept(NoOrder, 0)
    BY <1>1, <1>2, NothingReserved DEF Kept, OnlyOrder
<1> QED
    BY <1>3, <1>4

(* Goods that come back are held again, if the order still holds.          *)
LEMMA HoldsBack ==
    ASSUME IInv, IInv', DocumentsInv, DocumentsInv', HoldsOK,
           NEW c \in Challans, NEW q \in Nat, BackOnChallan(c, q)
    PROVE  HoldsOK' /\ Kept(challan[c].order, -q)
<1>a. challan[c].order \in Orders
    BY DEF BackOnChallan
<1>b. PICK o \in Orders : o = challan[c].order
    BY <1>a
<1>1. /\ OnlyChallan(c) /\ OnlyOrder(o)
      /\ challan[c].status = "COMPLETED" /\ challan'[c].order = o /\ challan'[c].qty = challan[c].qty
      /\ order'[o].held = order[o].held
      /\ order'[o].status = IF order[o].status = "CANCELLED" THEN order[o].status
                            ELSE Reopened(order, challan', invoice', o)
      /\ balance'[Shop].reserved
           = balance[Shop].reserved + (IF order[o].held /\ order[o].status # "CANCELLED" THEN q ELSE 0)
      /\ \A w \in Godowns \ {Shop} : balance'[w].reserved = balance[w].reserved
    BY <1>b DEF BackOnChallan
<1>2. \/ challan'[c].status = "CANCELLED" /\ challan[c].back = 0 /\ q = challan[c].qty
      \/ challan'[c].status = "COMPLETED" /\ challan'[c].back = challan[c].back + q
    BY DEF BackOnChallan
<1>3. \A p \in Orders : /\ Fulfilled(challan', invoice', p)
                             = Fulfilled(challan, invoice, p) + (IF p = o THEN -q ELSE 0)
                        /\ Fulfilled(challan, invoice, p) \in Nat
    <2> TAKE p \in Orders
    <2>1. challan[c].qty \in Nat /\ challan[c].back \in Nat
        BY RowNumbers
    <2>2. /\ ShipOf(challan[c], p) = IF p = o THEN challan[c].qty - challan[c].back ELSE 0
          /\ ShipOf(challan'[c], p) = IF p = o THEN challan[c].qty - challan[c].back - q ELSE 0
        <3>1. ShipOf(challan[c], p) = IF p = o THEN challan[c].qty - challan[c].back ELSE 0
            BY <1>b, <1>1 DEF ShipOf
        <3>2. CASE challan'[c].status = "CANCELLED"
            BY <1>1, <1>2, <2>1, <3>1, <3>2 DEF ShipOf
        <3>3. CASE challan'[c].status = "COMPLETED"
            BY <1>1, <1>2, <2>1, <3>1, <3>3 DEF ShipOf
        <3> QED
            BY <1>2, <3>2, <3>3
    <2> QED
        BY <1>1, <2>1, <2>2, ChallanFulfils
<1>4. HoldsOK'
    <2> SUFFICES ASSUME NEW p \in Orders PROVE HoldOK(order'[p], challan', invoice', p)
        BY DEF HoldsOK
    <2>1. CASE p = o
        <3>1. order[o].status \in {"DRAFT", "CANCELLED"} => ~order[o].held
            BY DEF HoldsOK, HoldOK
        <3>2. CASE order[o].status = "CANCELLED"
            BY <1>1, <2>1, <3>1, <3>2 DEF HoldOK
        <3>3. CASE order[o].status # "CANCELLED"
            <4>1. order'[o].status = IF AnyCompleted(order, challan', invoice', o)
                                     THEN "PARTIALLY_CONVERTED" ELSE Unprocessed(order[o])
                BY <1>1, <3>3 DEF Reopened
            <4>2. ~AnyCompleted(order, challan', invoice', o) => Idle(challan', invoice', o)
                BY AfterStep, NothingCompleted
            <4> QED
                BY <1>1, <2>1, <4>1, <4>2 DEF HoldOK, Unprocessed
        <3> QED
            BY <3>2, <3>3
    <2>2. CASE p # o
        BY <1>1, <1>3, <2>2, SameHold DEF OnlyOrder
    <2> QED
        BY <2>1, <2>2
<1>5. balance'[Shop].reserved
        = AtLeastZero(balance[Shop].reserved - (IF o \in Orders /\ order[o].held THEN -q ELSE 0))
    <2>1. order[o].held => order[o].status # "CANCELLED"
        BY DEF HoldsOK, HoldOK
    <2>2. balance[Shop].reserved \in Nat
        BY Types DEF Balances
    <2>3. CASE order[o].held
        BY <1>1, <2>1, <2>2, <2>3 DEF AtLeastZero
    <2>4. CASE ~order[o].held
        BY <1>1, <2>2, <2>4 DEF AtLeastZero
    <2> QED
        BY <2>3, <2>4
<1>6. Kept(o, -q)
    BY <1>1, <1>3, <1>5 DEF Kept, OnlyOrder
<1> QED
    BY <1>b, <1>4, <1>6

(* A completed invoice of an order takes its quantity out of the hold; a   *)
(* bill of a challan takes nothing.                                        *)
LEMMA HoldsCompleteInvoice ==
    ASSUME IInv, IInv', DocumentsInv, DocumentsInv', HoldsOK, NEW i \in Invoices, CompleteInvoice(i)
    PROVE  HoldsOK' /\ Kept(invoice[i].source, invoice[i].qty)
<1>b. PICK o : o = invoice[i].source
    OBVIOUS
<1>c. PICK q \in Nat : q = invoice[i].qty
    BY RowNumbers
<1>1. /\ OnlyInvoice(i) /\ challan' = challan
      /\ invoice[i].status = "DRAFT" /\ o \in Orders \cup {NoOrder}
      /\ invoice'[i].status = "COMPLETED" /\ invoice'[i].source = o /\ invoice'[i].qty = q
      /\ balance'[Shop].reserved = IF LinkedTo(challan, i) = {} /\ o # NoOrder
                                   THEN AtLeastZero(balance[Shop].reserved
                                          - Least(StillHeld(order, challan, invoice, o), q))
                                   ELSE balance[Shop].reserved
      /\ \A w \in Godowns \ {Shop} : balance'[w].reserved = balance[w].reserved
    BY <1>b, <1>c, CompleteInvoiceFacts
<1>2. \A p \in Orders : order'[p] = IF p \in OrdersOf(i)
                                    THEN Recomputed(order, challan', invoice', p, FALSE)
                                    ELSE order[p]
    BY CompleteInvoiceFacts
<1>3. \A p \in Orders : /\ Fulfilled(challan', invoice', p)
                             = Fulfilled(challan, invoice, p) + (IF p = o THEN q ELSE 0)
                        /\ Fulfilled(challan, invoice, p) \in Nat
    <2> TAKE p \in Orders
    <2>1. DoneOf(invoice[i], p) = 0 /\ DoneOf(invoice'[i], p) = IF p = o THEN q ELSE 0
        BY <1>1 DEF DoneOf
    <2>2. SameChallans
        BY <1>1, Types DEF SameChallans
    <2> QED
        BY <1>1, <2>1, <2>2, InvoiceFulfils
<1>4. ASSUME NEW p \in Orders
      PROVE  HoldOK(order'[p], challan', invoice', p) /\ order'[p].held = order[p].held
    <2>1. CASE p \in OrdersOf(i)
        <3> DEFINE y == Recomputed(order, challan', invoice', p, FALSE)
        <3>1. order[p].status \in {"DRAFT", "CANCELLED"} => ~order[p].held
            BY DEF HoldsOK, HoldOK
        <3>2. /\ order \in [Orders -> Order] /\ challan' \in [Challans -> Challan] /\ Net(challan')
              /\ invoice' \in [Invoices -> Invoice] /\ FALSE \in BOOLEAN
            BY Types, AfterStep
        <3>3. HoldOK(y, challan', invoice', p)
            BY <3>1, <3>2, RecomputedHolds
        <3>4. y.held = order[p].held
            BY <3>2, RecomputedKeepsHold
        <3>5. order'[p] = y
            BY <1>2, <2>1
        <3> HIDE DEF y
        <3> QED
            BY <3>3, <3>4, <3>5
    <2>2. CASE p \notin OrdersOf(i)
        <3>1. p # o /\ order'[p] = order[p]
            BY <1>b, <1>2, <2>2 DEF OrdersOf
        <3>2. Fulfilled(challan', invoice', p) = Fulfilled(challan, invoice, p)
            BY <1>3, <3>1
        <3> QED
            BY <3>1, <3>2, SameHold
    <2> QED
        BY <2>1, <2>2
<1>5. balance'[Shop].reserved
        = AtLeastZero(balance[Shop].reserved - (IF o \in Orders /\ order[o].held THEN q ELSE 0))
    <2>1. CASE o \in Orders
        <3>1. o # NoOrder
            BY <2>1, OrderAssumption
        <3>2. LinkedTo(challan, i) = {}
            <4> SUFFICES ASSUME NEW c \in Challans, challan[c].bill = i PROVE FALSE
                BY DEF LinkedTo
            <4>1. i # NoBill
                BY DEF Invoices, NoBill
            <4>2. invoice[i].source = NoOrder
                BY <4>1 DEF DocumentsInv, LinksOK, LinkOK
            <4> QED
                BY <1>b, <3>1, <4>2
        <3>3. Least(StillHeld(order, challan, invoice, o), q) = IF order[o].held THEN q ELSE 0
            BY <1>3, <2>1, ReleasedWhole
        <3> QED
            BY <1>1, <2>1, <3>1, <3>2, <3>3
    <2>2. CASE o = NoOrder
        <3>1. balance[Shop].reserved \in Nat
            BY Types DEF Balances
        <3> QED
            BY <1>1, <2>2, <3>1, OrderAssumption DEF AtLeastZero
    <2> QED
        BY <1>1, <2>1, <2>2
<1>6. Kept(o, q)
    BY <1>1, <1>3, <1>4, <1>5 DEF Kept
<1>7. HoldsOK'
    BY <1>4 DEF HoldsOK
<1> QED
    BY <1>b, <1>c, <1>6, <1>7

(* The row y a discarded draft leaves of the row r.                        *)
LeftBy(y, r, taken, i) ==
    /\ y.held = r.held
    /\ y.bill = IF r.bill = i THEN NoBill ELSE r.bill
    /\ \/ y.status = r.status
       \/ r.status = "PARTIALLY_CONVERTED" /\ taken = 0 /\ y.status = Unprocessed(r)

(* release_order_conversion leaves such a row.                             *)
LEMMA DiscardedRow ==
    ASSUME NEW od \in [Orders -> Order], NEW ch, NEW inv, NEW o \in Orders, NEW i
    PROVE  LeftBy(Discarded(od, ch, inv, o, i), od[o], Taken(ch, inv, o), i)
<1> DEFINE r == od[o]
           b == IF r.bill = i THEN NoBill ELSE r.bill
           t == IF r.status = "PARTIALLY_CONVERTED" /\ Taken(ch, inv, o) = 0
                THEN Unprocessed(r) ELSE r.status
           y == Discarded(od, ch, inv, o, i)
<1>1. y = [r EXCEPT !.bill = b, !.status = t]
    BY DEF Discarded
<1>2. r \in Order
    OBVIOUS
<1>3. t = r.status \/ (r.status = "PARTIALLY_CONVERTED" /\ Taken(ch, inv, o) = 0 /\ t = Unprocessed(r))
    OBVIOUS
<1> HIDE DEF t, b, y
<1>4. y.held = r.held /\ y.bill = b /\ y.status = t
    BY <1>1, <1>2 DEF Order
<1> QED
    BY <1>3, <1>4 DEF b, y, LeftBy

(* Deleting a draft invoice moves nothing of the hold.                     *)
LEMMA HoldsDeleteInvoice ==
    ASSUME IInv, IInv', DocumentsInv, DocumentsInv', HoldsOK, NEW i \in Invoices, DeleteInvoice(i)
    PROVE  HoldsOK' /\ Kept(NoOrder, 0)
<1>b. PICK o : o = invoice[i].source
    OBVIOUS
<1>1. /\ OnlyInvoice(i) /\ SameChallans /\ balance' = balance
      /\ invoice[i].status = "DRAFT" /\ o \in Orders \cup {NoOrder}
      /\ invoice'[i].status = "DELETED"
      /\ \A p \in Orders :
            p # o => order'[p].held = order[p].held /\ order'[p].status = order[p].status
    BY <1>b, DeleteInvoiceFacts, ZenonT(60)
<1>2. o # NoOrder => \E od \in [Orders -> Order] :
                        /\ od[o] = Discarded(order, challan', invoice', o, i)
                        /\ order'[o] = Recomputed(od, challan', invoice', o, FALSE)
    BY <1>b, DeleteInvoiceFacts
<1>3. \A p \in Orders : /\ Fulfilled(challan', invoice', p) = Fulfilled(challan, invoice, p)
                        /\ Fulfilled(challan, invoice, p) \in Nat
    <2> TAKE p \in Orders
    <2>1. DoneOf(invoice[i], p) = 0 /\ DoneOf(invoice'[i], p) = 0
        BY <1>1 DEF DoneOf
    <2> QED
        BY <1>1, <2>1, InvoiceFulfils
<1>4. ASSUME NEW p \in Orders
      PROVE  HoldOK(order'[p], challan', invoice', p) /\ order'[p].held = order[p].held
    <2>1. CASE p = o
        <3>1. PICK od \in [Orders -> Order] :
                        /\ od[p] = Discarded(order, challan', invoice', p, i)
                        /\ order'[p] = Recomputed(od, challan', invoice', p, FALSE)
            BY <1>2, <2>1, OrderAssumption
        <3>2. /\ od[p].held = order[p].held
              /\ od[p].status = order[p].status \/ od[p].status = Unprocessed(order[p])
            <4>1. LeftBy(Discarded(order, challan', invoice', p, i), order[p],
                         Taken(challan', invoice', p), i)
                BY Types, DiscardedRow
            <4>2. LeftBy(od[p], order[p], Taken(challan', invoice', p), i)
                BY <3>1, <4>1
            <4> QED
                BY <4>2 DEF LeftBy
        <3>3. od[p].status \in {"DRAFT", "CANCELLED"} => ~od[p].held
            BY <3>2 DEF HoldsOK, HoldOK, Unprocessed
        <3> DEFINE y == Recomputed(od, challan', invoice', p, FALSE)
        <3>4. /\ challan' \in [Challans -> Challan] /\ Net(challan')
              /\ invoice' \in [Invoices -> Invoice] /\ FALSE \in BOOLEAN
            BY AfterStep
        <3>5. HoldOK(y, challan', invoice', p)
            BY <3>3, <3>4, RecomputedHolds
        <3>6. y.held = od[p].held
            BY RecomputedKeepsHold
        <3>7. order'[p] = y
            BY <3>1
        <3> HIDE DEF y
        <3> QED
            BY <3>2, <3>5, <3>6, <3>7
    <2>2. CASE p # o
        BY <1>1, <1>3, <2>2, SameHold
    <2> QED
        BY <2>1, <2>2
<1>5. Kept(NoOrder, 0)
    BY <1>1, <1>3, <1>4, NothingReserved DEF Kept
<1>6. HoldsOK'
    BY <1>4 DEF HoldsOK
<1> QED
    BY <1>5, <1>6

(* A cancelled invoice gives its quantity back to the hold, a draft or the *)
(* bill of a challan gives nothing.                                        *)
LEMMA HoldsCancelInvoice ==
    ASSUME IInv, IInv', DocumentsInv, DocumentsInv', HoldsOK, NEW i \in Invoices, CancelInvoice(i)
    PROVE  HoldsOK' /\ \E d \in Int : Kept(invoice[i].source, d)
<1>b. PICK o : o = invoice[i].source
    OBVIOUS
<1>c. PICK d \in Int : d = IF invoice[i].status = "COMPLETED" THEN -invoice[i].qty ELSE 0
    BY RowNumbers
<1>1. /\ OnlyInvoice(i) /\ SameChallans /\ o \in Orders \cup {NoOrder}
      /\ invoice'[i].status = "CANCELLED"
      /\ \A p \in Orders : order'[p] = OrderAfterCancel(challan', invoice', i, p)
      /\ balance'[Shop].reserved
           = balance[Shop].reserved
               + (IF /\ invoice[i].status = "COMPLETED" /\ o # NoOrder
                     /\ order[o].held /\ order[o].status # "CANCELLED"
                  THEN invoice[i].qty ELSE 0)
      /\ \A w \in Godowns \ {Shop} : balance'[w].reserved = balance[w].reserved
    BY <1>b, CancelInvoiceFacts
<1>2. invoice[i].qty \in Nat
    BY RowNumbers
<1>3. \A p \in Orders : /\ Fulfilled(challan', invoice', p)
                             = Fulfilled(challan, invoice, p) + (IF p = o THEN d ELSE 0)
                        /\ Fulfilled(challan, invoice, p) \in Nat
    <2> TAKE p \in Orders
    <2>1. DoneOf(invoice'[i], p) = 0 /\ -DoneOf(invoice[i], p) = IF p = o THEN d ELSE 0
        BY <1>b, <1>c, <1>1, <1>2 DEF DoneOf
    <2>2. DoneOf(invoice[i], p) \in Nat
        BY RowNumbers
    <2> QED
        BY <1>1, <2>1, <2>2, InvoiceFulfils
<1>4. ASSUME NEW p \in Orders
      PROVE  HoldOK(order'[p], challan', invoice', p) /\ order'[p].held = order[p].held
    <2> DEFINE z == OrderAfterCancel(challan', invoice', i, p)
    <2>1. PICK od \in [Orders -> Order] : AfterCancel(od, challan', invoice', i, p)
        BY AfterCancelRow
    <2> DEFINE y == Recomputed(od, challan', invoice', p, TRUE)
    <2>2. /\ od[p].held = order[p].held /\ od[p].status = order[p].status
          /\ invoice[i].source = p \/ od[p].bill = i => z.held = y.held /\ z.status = y.status
          /\ ~(invoice[i].source = p \/ od[p].bill = i) => z = od[p]
        BY <2>1 DEF AfterCancel
    <2>3. od[p].status \in {"DRAFT", "CANCELLED"} => ~od[p].held
        BY <2>2 DEF HoldsOK, HoldOK
    <2>4. /\ challan' \in [Challans -> Challan] /\ Net(challan')
          /\ invoice' \in [Invoices -> Invoice] /\ TRUE \in BOOLEAN
        BY AfterStep
    <2>5. HoldOK(y, challan', invoice', p)
        BY <2>3, <2>4, RecomputedHolds
    <2>6. y.held = od[p].held
        BY RecomputedKeepsHold
    <2>7. order'[p] = z
        BY <1>1
    <2> HIDE DEF y, z
    <2>8. CASE invoice[i].source = p \/ od[p].bill = i
        <3>1. order'[p].held = y.held /\ order'[p].status = y.status
            BY <2>2, <2>7, <2>8
        <3> QED
            BY <2>2, <2>5, <2>6, <3>1 DEF HoldOK
    <2>9. CASE ~(invoice[i].source = p \/ od[p].bill = i)
        <3>1. order'[p].held = order[p].held /\ order'[p].status = order[p].status
            BY <2>2, <2>7, <2>9
        <3>2. p # o
            BY <1>b, <2>9
        <3> QED
            BY <1>3, <3>1, <3>2, SameHold
    <2> QED
        BY <2>8, <2>9
<1>5. balance'[Shop].reserved
        = AtLeastZero(balance[Shop].reserved - (IF o \in Orders /\ order[o].held THEN d ELSE 0))
    <2>1. balance[Shop].reserved \in Nat
        BY Types DEF Balances
    <2>2. CASE o \in Orders
        <3>1. o # NoOrder /\ (order[o].held => order[o].status # "CANCELLED")
            BY <2>2, OrderAssumption DEF HoldsOK, HoldOK
        <3>2. CASE order[o].held
            BY <1>c, <1>1, <1>2, <2>1, <2>2, <3>1, <3>2 DEF AtLeastZero
        <3>3. CASE ~order[o].held
            BY <1>1, <2>1, <3>3 DEF AtLeastZero
        <3> QED
            BY <3>2, <3>3
    <2>3. CASE o = NoOrder
        BY <1>1, <2>1, <2>3, OrderAssumption DEF AtLeastZero
    <2> QED
        BY <1>1, <2>2, <2>3
<1>6. Kept(o, d)
    BY <1>1, <1>3, <1>4, <1>5 DEF Kept
<1>7. HoldsOK'
    BY <1>4 DEF HoldsOK
<1> QED
    BY <1>b, <1>6, <1>7

(* A confirmed order holds all of its quantity.                            *)
LEMMA HoldsConfirm ==
    ASSUME IInv, IInv', DocumentsInv, DocumentsInv', HoldsOK, NEW o \in Orders, ConfirmSalesOrder(o)
    PROVE  HoldsOK' /\ (ReservedIsHeld => ReservedIsHeld')
<1>1. /\ OnlyOrder(o) /\ UNCHANGED <<challan, invoice>>
      /\ order[o].status = "DRAFT" /\ order'[o].status = "CONFIRMED" /\ order'[o].held
      /\ balance'[Shop].reserved = balance[Shop].reserved + Ordered[o]
      /\ \A w \in Godowns \ {Shop} : balance'[w].reserved = balance[w].reserved
    BY ConfirmFacts DEF Confirmed
<1>2. HoldsOK'
    BY <1>1 DEF HoldsOK, HoldOK, OnlyOrder
<1>3. ~order[o].held /\ Idle(challan, invoice, o)
    BY <1>1 DEF HoldsOK, HoldOK
<1>4. StillHeld(order, challan, invoice, o) = 0
    BY <1>3 DEF StillHeld
<1>5. StillHeld(order', challan', invoice', o) = Ordered[o]
    <2>1. Ordered[o] \in Nat /\ Ordered[o] > 0
        BY Types, OrderAssumption
    <2> QED
        BY <1>1, <1>3, <2>1 DEF StillHeld, Idle, Done, AtLeastZero
<1>6. \A p \in Orders : p # o => StillHeld(order', challan', invoice', p)
                                   = StillHeld(order, challan, invoice, p)
    BY <1>1 DEF StillHeld, OnlyOrder
<1>7. ASSUME ReservedIsHeld PROVE ReservedIsHeld'
    <2>1. balance[Shop].reserved \in Nat /\ Ordered[o] \in Nat
        BY Types, OrderAssumption DEF Balances
    <2>2. balance'[Shop].reserved = balance[Shop].reserved - StillHeld(order, challan, invoice, o)
                                       + StillHeld(order', challan', invoice', o)
        BY <1>1, <1>4, <1>5, <2>1
    <2> QED
        BY <1>1, <1>6, <1>7, <2>2, HeldChanges
<1> QED
    BY <1>2, <1>7

(* After the hold was given back nothing is held.                          *)
LEMMA HoldsGiveBack ==
    ASSUME IInv, IInv', DocumentsInv, DocumentsInv', HoldsOK, NEW o \in Orders,
           CancelSalesOrder(o) \/ ReleaseFailedStop(o)
    PROVE  HoldsOK' /\ (ReservedIsHeld => ReservedIsHeld')
<1>1. GivenBack(o)
    BY GiveBackFacts
<1>2. /\ OnlyOrder(o) /\ UNCHANGED <<challan, invoice>> /\ order'[o].held = FALSE
      /\ balance'[Shop].reserved
           = AtLeastZero(balance[Shop].reserved - StillHeld(order, challan, invoice, o))
      /\ \A w \in Godowns \ {Shop} : balance'[w].reserved = balance[w].reserved
    BY <1>1 DEF GivenBack
<1>3. order'[o].status = "DRAFT" => Idle(challan', invoice', o)
    <2>1. ASSUME order'[o].status = "DRAFT"
          PROVE  Shipped(challan, o) = 0 /\ Done(invoice, o) = 0
        <3>1. /\ \A c \in LiveChallans(challan, o) : challan[c].status # "COMPLETED"
              /\ \A i \in InvoicesForOrder(order, challan, invoice, o) : invoice[i].status # "COMPLETED"
            BY <1>1, <2>1 DEF GivenBack
        <3>2. /\ [c \in Challans |-> ShipOf(challan[c], o)] = [c \in Challans |-> 0]
              /\ [i \in Invoices |-> DoneOf(invoice[i], o)] = [i \in Invoices |-> 0]
            BY <3>1 DEF LiveChallans, InvoicesForOrder, Live, ShipOf, DoneOf
        <3>3. Sum([c \in Challans |-> 0]) = 0 /\ Sum([i \in Invoices |-> 0]) = 0
            BY OrderSumFacts
        <3>4. /\ Shipped(challan, o) = Ship(challan, o)
              /\ Done(invoice, o) = Sum([i \in Invoices |-> DoneOf(invoice[i], o)])
            BY Types, NetChallans, NetSums, BillTypes DEF DocumentsInv
        <3> QED
            BY <3>2, <3>3, <3>4 DEF Ship
    <2> QED
        BY <1>2, <2>1 DEF Idle
<1>4. HoldsOK'
    BY <1>2, <1>3 DEF HoldsOK, HoldOK, OnlyOrder
<1>5. StillHeld(order', challan', invoice', o) = 0
    BY <1>2 DEF StillHeld
<1>6. \A p \in Orders : p # o => StillHeld(order', challan', invoice', p)
                                   = StillHeld(order, challan, invoice, p)
    BY <1>2 DEF StillHeld, OnlyOrder
<1>7. ASSUME ReservedIsHeld PROVE ReservedIsHeld'
    <2>1. /\ balance[Shop].reserved \in Nat /\ StillHeld(order, challan, invoice, o) \in Nat
          /\ StillHeld(order, challan, invoice, o) <= balance[Shop].reserved
        BY <1>7, Types, HeldType, HeldIsReserved DEF Balances, Quantity
    <2>2. balance'[Shop].reserved = balance[Shop].reserved - StillHeld(order, challan, invoice, o)
                                       + StillHeld(order', challan', invoice', o)
        BY <1>2, <1>5, <2>1 DEF AtLeastZero
    <2> QED
        BY <1>2, <1>6, <1>7, <2>2, HeldChanges
<1> QED
    BY <1>4, <1>7

(* Rebuilding the balance finds what was reserved.                         *)
LEMMA HoldsRebuild ==
    ASSUME IInv, HoldsOK, RebuildBalance
    PROVE  HoldsOK' /\ (Policy = "BLOCK" /\ ReservedIsHeld => ReservedIsHeld')
<1>1. /\ UNCHANGED <<order, challan, invoice>>
      /\ balance' = [balance EXCEPT ![Shop].reserved =
             Least(Sum([o \in Orders |-> StillHeld(order, challan, invoice, o)]),
                   AtLeastZero(balance[Shop].onHand))]
    BY DEF RebuildBalance, documents
<1>2. HoldsOK'
    BY <1>1 DEF HoldsOK
<1>3. ASSUME Policy = "BLOCK", ReservedIsHeld PROVE ReservedIsHeld'
    <2>1. /\ balance[Shop].reserved = Sum([o \in Orders |-> StillHeld(order, challan, invoice, o)])
          /\ balance[Shop].reserved \in Nat /\ balance[Shop].onHand \in Int
          /\ balance[Shop].reserved <= balance[Shop].onHand
        BY <1>3, Types, NotOver DEF ReservedIsHeld, IInv, NeverOversold
    <2>2. Least(balance[Shop].reserved, AtLeastZero(balance[Shop].onHand)) = balance[Shop].reserved
        BY <2>1 DEF Least, AtLeastZero
    <2>3. balance' = [balance EXCEPT ![Shop].reserved = balance[Shop].reserved]
        BY <1>1, <2>1, <2>2
    <2>4. \A w \in Godowns : balance'[w].reserved = balance[w].reserved
        BY <2>3, Types DEF Balances
    <2> QED
        BY <1>1, <1>3, <2>4, Types DEF ReservedIsHeld
<1> QED
    BY <1>2, <1>3

(* Transfers, adjustments and pending returns move nothing of the hold.    *)
LEMMA HoldsQuiet ==
    ASSUME IInv, HoldsOK, Quiet
    PROVE  HoldsOK' /\ (ReservedIsHeld => ReservedIsHeld')
<1>1. HoldsOK'
    BY DEF HoldsOK, Quiet
<1>2. ASSUME ReservedIsHeld PROVE ReservedIsHeld'
    BY <1>2, Types DEF ReservedIsHeld, Quiet
<1> QED
    BY <1>1, <1>2

(* Every handler keeps what the orders hold and, under BLOCK, what is      *)
(* reserved for them.                                                      *)
LEMMA HoldsNext ==
    ASSUME IInv, IInv', DocumentsInv, DocumentsInv', HoldsOK, Next
    PROVE  HoldsOK' /\ (Policy = "BLOCK" /\ ReservedIsHeld => ReservedIsHeld')
<1>1. CASE OrderNext
    <2>1. ASSUME NEW o \in Orders,
                 ConfirmSalesOrder(o) \/ CancelSalesOrder(o) \/ ReleaseFailedStop(o)
          PROVE  HoldsOK' /\ (ReservedIsHeld => ReservedIsHeld')
        BY <2>1, HoldsConfirm, HoldsGiveBack
    <2>2. ASSUME NEW o, NEW d \in Int, HoldsOK' /\ Kept(o, d)
          PROVE  HoldsOK' /\ (ReservedIsHeld => ReservedIsHeld')
        BY <2>2, KeptIsHeld
    <2>3. ASSUME Quiet PROVE HoldsOK' /\ (ReservedIsHeld => ReservedIsHeld')
        BY <2>3, HoldsQuiet
    <2>4. ASSUME NEW k \in Clerks, CompleteReturn(k)
          PROVE  HoldsOK' /\ (ReservedIsHeld => ReservedIsHeld')
        <3>1. PICK c \in Challans, q \in Nat : BackOnChallan(c, q)
            BY <2>4, CompleteReturnFacts
        <3>2. HoldsOK' /\ Kept(challan[c].order, -q)
            BY <3>1, HoldsBack
        <3> QED
            BY <2>2, <3>2
    <2>5. ASSUME NEW c \in Challans, CancelChallan(c)
          PROVE  HoldsOK' /\ (ReservedIsHeld => ReservedIsHeld')
        <3>1. PICK q \in Nat : q = challan[c].qty
            BY RowNumbers
        <3>2. BackOnChallan(c, q)
            BY <2>5, <3>1, CancelChallanFacts
        <3>3. HoldsOK' /\ Kept(challan[c].order, -q)
            BY <3>2, HoldsBack
        <3> QED
            BY <2>2, <3>3
    <2>6. ASSUME NEW c \in Challans, NEW post \in StockOnChallan, CompleteChallan(c, post)
          PROVE  HoldsOK' /\ (ReservedIsHeld => ReservedIsHeld')
        BY <2>2, <2>6, HoldsCompleteChallan, RowNumbers
    <2>7. ASSUME NEW i \in Invoices, CompleteInvoice(i)
          PROVE  HoldsOK' /\ (ReservedIsHeld => ReservedIsHeld')
        BY <2>2, <2>7, HoldsCompleteInvoice, RowNumbers
    <2>8. ASSUME NEW i \in Invoices, CancelInvoice(i)
          PROVE  HoldsOK' /\ (ReservedIsHeld => ReservedIsHeld')
        BY <2>2, <2>8, HoldsCancelInvoice
    <2>9. ASSUME NEW c \in Challans, DeleteChallan(c) \/ CancelDraftChallan(c)
          PROVE  HoldsOK' /\ (ReservedIsHeld => ReservedIsHeld')
        BY <2>2, <2>9, HoldsDropDraft
    <2>10. ASSUME NEW i \in Invoices, DeleteInvoice(i)
           PROVE  HoldsOK' /\ (ReservedIsHeld => ReservedIsHeld')
        BY <2>2, <2>10, HoldsDeleteInvoice
    <2>11. ASSUME NEW o \in Orders, NEW i \in Invoices, NEW q \in 1 .. MaxQty,
                  ConvertSalesOrder(o, i, q)
           PROVE  HoldsOK' /\ (ReservedIsHeld => ReservedIsHeld')
        BY <2>2, <2>11, HoldsConvert
    <2>12. ASSUME NEW o \in Orders, NEW c \in Challans, NEW q \in 1 .. MaxQty,
                  ConvertSalesOrderToChallan(o, c, q)
           PROVE  HoldsOK' /\ (ReservedIsHeld => ReservedIsHeld')
        BY <2>2, <2>12, HoldsToChallan
    <2>13. ASSUME NEW c \in Challans, NEW i \in Invoices, ConvertDeliveryChallan(c, i)
           PROVE  HoldsOK' /\ (ReservedIsHeld => ReservedIsHeld')
        BY <2>2, <2>13, HoldsBillChallan
    <2> QED
        BY <1>1, <2>1, <2>3, <2>4, <2>5, <2>6, <2>7, <2>8, <2>9, <2>10, <2>11, <2>12, <2>13,
           OthersAreQuiet, HoldsRebuild DEF OrderNext
<1>2. CASE TransferNext /\ UNCHANGED documents
    BY <1>2, TransferIsQuiet, HoldsQuiet
<1>3. ASSUME NEW w \in Godowns, NEW delta \in -MaxQty .. MaxQty, Adjust(w, delta), UNCHANGED documents
      PROVE  HoldsOK' /\ (ReservedIsHeld => ReservedIsHeld')
    <2>1. Quiet
        BY <1>3, OthersAreQuiet
    <2> QED
        BY <2>1, HoldsQuiet
<1> QED
    BY <1>1, <1>2, <1>3 DEF Next

(* Nothing is held to begin with.                                          *)
LEMMA HoldsInit ==
    ASSUME Init
    PROVE  HoldsOK /\ ReservedIsHeld
<1>1. \A o \in Orders : /\ order[o].status = "DRAFT" /\ order[o].held = FALSE
                        /\ Shipped(challan, o) = 0 /\ Done(invoice, o) = 0
    BY NoDocuments
<1>2. HoldsOK
    BY <1>1 DEF HoldsOK, HoldOK, Idle
<1>3. [o \in Orders |-> StillHeld(order, challan, invoice, o)] = [o \in Orders |-> 0]
    BY <1>1 DEF StillHeld
<1>4. Sum([o \in Orders |-> 0]) = 0
    BY OrderSumFacts
<1>5. \A w \in Godowns : balance[w].reserved = 0
    BY NoDocuments
<1>6. ReservedIsHeld
    BY <1>3, <1>4, <1>5, OrderAssumption DEF ReservedIsHeld
<1> QED
    BY <1>2, <1>6

(* Draft and cancelled orders hold nothing, whatever happened to them.     *)
THEOREM HoldsInductive == Spec => [](IInv /\ DocumentsInv /\ HoldsOK)
<1>1. Init => HoldsOK
    BY HoldsInit
<1>2. IInv /\ IInv' /\ DocumentsInv /\ DocumentsInv' /\ HoldsOK /\ [Next]_vars => HoldsOK'
    <2>1. HoldsOK /\ UNCHANGED vars => HoldsOK'
        BY DEF vars, HoldsOK
    <2> QED
        BY <2>1, HoldsNext
<1> QED
    BY <1>1, <1>2, DocumentsInductive, PTL DEF Spec

(* A reservation is given back exactly once: under BLOCK what is reserved  *)
(* in the shop is at any time what the open orders hold by their           *)
(* documents, and nowhere else is anything reserved, for any number of     *)
(* orders, challans and invoices and any quantities.                       *)
THEOREM HoldsAreExact ==
    ASSUME Policy = "BLOCK"
    PROVE  Spec => []ReservedIsHeld
<1>1. Init => ReservedIsHeld
    BY HoldsInit
<1>2. /\ IInv /\ IInv' /\ DocumentsInv /\ DocumentsInv' /\ HoldsOK
      /\ ReservedIsHeld /\ [Next]_vars
      => ReservedIsHeld'
    <2>1. ReservedIsHeld /\ UNCHANGED vars => ReservedIsHeld'
        BY DEF vars, ReservedIsHeld
    <2> QED
        BY <2>1, HoldsNext
<1> QED
    BY <1>1, <1>2, HoldsInductive, PTL DEF Spec

-----------------------------------------------------------------------------
(* The status of an order follows its documents.                           *)

(* What one challan ships is part of what its order has shipped.           *)
LEMMA ShippedAtLeast ==
    ASSUME NEW ch \in [Challans -> Challan], Net(ch), NEW o, NEW c \in Challans
    PROVE  ShipOf(ch[c], o) <= Shipped(ch, o)
<1> DEFINE f == [d \in Challans |-> ShipOf(ch[d], o)]
<1>1. f \in [Challans -> Quantity] /\ f[c] = ShipOf(ch[c], o) /\ Sum(f) = Ship(ch, o)
    BY ClaimTypes DEF Ship
<1>2. Shipped(ch, o) = Ship(ch, o)
    BY NetSums
<1> HIDE DEF f
<1> QED
    BY <1>1, <1>2, SumAtLeast

(* recompute_order_status points to no invoice that was not the order's.   *)
LEMMA RecomputedBills ==
    ASSUME NEW od \in [Orders -> Order], NEW new \in [Orders -> Order], NEW ch, NEW inv,
           NEW o \in Orders, NEW reopen \in BOOLEAN,
           new[o].bill = NoBill \/ new[o].bill = Recomputed(od, ch, inv, o, reopen).bill
    PROVE  InvoicesForOrder(new, ch, inv, o) \subseteq InvoicesForOrder(od, ch, inv, o)
<1> DEFINE y == Recomputed(od, ch, inv, o, reopen)
<1>1. y.bill = od[o].bill \/ y.bill \in InvoicesForOrder(od, ch, inv, o)
    BY RecomputedRow
<1>2. new[o].bill = NoBill \/ new[o].bill = od[o].bill \/ new[o].bill \in InvoicesForOrder(od, ch, inv, o)
    BY <1>1
<1>3. NoBill \notin Invoices
    BY DEF Invoices, NoBill
<1> QED
    BY <1>2, <1>3 DEF InvoicesForOrder

(* With fewer invoices a settled order is settled.                         *)
LEMMA SettledBills ==
    ASSUME NEW od, NEW new, NEW ch, NEW inv, NEW o, Settled(od, ch, inv, o),
           InvoicesForOrder(new, ch, inv, o) \subseteq InvoicesForOrder(od, ch, inv, o)
    PROVE  Settled(new, ch, inv, o)
BY DEF Settled

(* An order after recompute_order_status: from the row od[o] it worked on. *)
LEMMA RecomputedOrder ==
    ASSUME IInv', DocumentsInv', NEW od \in [Orders -> Order], NEW o \in Orders, NEW reopen \in BOOLEAN,
           order'[o].status = Recomputed(od, challan', invoice', o, reopen).status,
           \/ order'[o].bill = NoBill
           \/ order'[o].bill = Recomputed(od, challan', invoice', o, reopen).bill,
           od[o].status = "CANCELLED" => /\ LiveChallans(challan', o) = {}
                                         /\ InvoicesForOrder(od, challan', invoice', o) = {},
           od[o].status = "CONVERTED" =>
               \/ Settled(od, challan', invoice', o)
               \/ reopen /\ AnyCompleted(od, challan', invoice', o)
               \/ /\ reopen
                  /\ LiveChallans(challan', o) = {} /\ InvoicesForOrder(od, challan', invoice', o) = {}
    PROVE  OrderOK(order', challan', invoice', o)
<1> DEFINE ch == challan'
           inv == invoice'
           y == Recomputed(od, ch, inv, o, reopen)
<1>1. InvoicesForOrder(order', ch, inv, o) \subseteq InvoicesForOrder(od, ch, inv, o)
    BY AfterStep, RecomputedBills
<1>2. /\ y.status = "CANCELLED" => od[o].status = "CANCELLED"
      /\ y.status = "CONVERTED" =>
            \/ Taken(ch, inv, o) >= Ordered[o] /\ NoDrafts(od, ch, inv, o)
            \/ od[o].status = "CONVERTED" /\ ~reopen
            \/ /\ od[o].status = "CONVERTED"
               /\ ~AnyCompleted(od, ch, inv, o)
               /\ LiveChallans(ch, o) # {} \/ InvoicesForOrder(od, ch, inv, o) # {}
    BY RecomputedStatus
<1>3. ASSUME y.status = "CONVERTED"
      PROVE  Settled(order', ch, inv, o)
    <2>1. CASE Taken(ch, inv, o) >= Ordered[o] /\ NoDrafts(od, ch, inv, o)
        <3>1. Taken(ch, inv, o) \in Nat /\ Ordered[o] \in Nat
            BY AfterStep, DoneWithinTaken, StockAssumption, OrderAssumption
        <3>2. Remaining(ch, inv, o) = 0
            BY <2>1, <3>1 DEF Remaining, AtLeastZero
        <3> QED
            BY <1>1, <2>1, <3>2 DEF Settled, NoDrafts
    <2>2. CASE Settled(od, ch, inv, o)
        BY <1>1, <2>2, SettledBills
    <2> QED
        BY <1>2, <1>3, <2>1, <2>2
<1> HIDE DEF y, ch, inv
<1>4. order'[o].status = y.status
    BY DEF y, ch, inv
<1>5. order'[o].status = "CANCELLED" => LiveChallans(ch, o) = {} /\ InvoicesForOrder(order', ch, inv, o) = {}
    BY <1>1, <1>2, <1>4 DEF ch, inv
<1> QED
    BY <1>3, <1>4, <1>5 DEF OrderOK, ch, inv

(* An order stays what it was when a challan of another order changes.     *)
LEMMA OtherChallan ==
    ASSUME IInv, IInv', DocumentsInv, DocumentsInv', NEW c \in Challans, OnlyChallan(c),
           NEW p \in Orders, order'[p] = order[p], challan'[c].order # p,
           challan[c].order # p \/ challan[c].status = "NONE",
           OrderOK(order, challan, invoice, p)
    PROVE  OrderOK(order', challan', invoice', p)
<1>0. /\ invoice' = invoice /\ \A d \in Challans : d # c => challan'[d] = challan[d]
      /\ challan' \in [Challans -> Challan]
    BY DEF OnlyChallan
<1>1. challan[c].order # p \/ (challan[c].status \notin Live /\ challan[c].bill = NoBill)
    BY DEF DocumentsInv, LinksOK, LinkOK, Live
<1>2. LiveChallans(challan', p) = LiveChallans(challan, p)
    BY <1>0, <1>1 DEF LiveChallans
<1>3. \A i \in Invoices : \A d \in Challans :
         (challan'[d].bill = i /\ challan'[d].order = p) <=> (challan[d].bill = i /\ challan[d].order = p)
    <2>1. NoBill \notin Invoices
        BY DEF Invoices, NoBill
    <2> QED
        BY <1>0, <1>1, <2>1
<1>4. InvoicesForOrder(order', challan', invoice', p) = InvoicesForOrder(order, challan, invoice, p)
    BY <1>0, <1>3 DEF InvoicesForOrder, LinkedTo
<1>5. \A i \in Invoices : BillsChallanOf(challan, i, p) => BillsChallanOf(challan', i, p)
    <2> SUFFICES ASSUME NEW i \in Invoices, BillsChallanOf(challan, i, p)
                 PROVE  BillsChallanOf(challan', i, p)
        OBVIOUS
    <2>1. PICK d \in Challans : /\ challan[d].bill = i /\ challan[d].order = p
                                /\ challan[d].status \in Live /\ challan[d].qty > challan[d].back
        BY DEF BillsChallanOf, LinkedTo
    <2>2. d # c
        BY <1>1, <2>1
    <2> QED
        BY <1>0, <2>1, <2>2 DEF BillsChallanOf, LinkedTo
<1>6. Remaining(challan', invoice', p) = Remaining(challan, invoice, p)
    <2>1. Net(challan) /\ Net(challan')
        BY NetChallans, AfterStep DEF DocumentsInv
    <2>2. Taken(challan', invoice, p)
            = Taken(challan, invoice, p) - ClaimOf(challan[c], p) + ClaimOf(challan'[c], p)
        BY <1>0, <2>1, Types, ChallanSums
    <2>3. ClaimOf(challan[c], p) = 0 /\ ClaimOf(challan'[c], p) = 0
        BY <1>1 DEF ClaimOf
    <2>4. Taken(challan, invoice, p) \in Nat
        BY TakenNumbers
    <2> QED
        BY <1>0, <2>2, <2>3, <2>4 DEF Remaining
<1>7. \A d \in LiveChallans(challan, p) : challan'[d] = challan[d]
    BY <1>0, <1>1 DEF LiveChallans
<1>8. Settled(order, challan, invoice, p) => Settled(order', challan', invoice', p)
    <2>1. InvoicesForOrder(order, challan, invoice, p) \in SUBSET Invoices
        BY DEF InvoicesForOrder
    <2> QED
        BY <1>0, <1>2, <1>4, <1>5, <1>6, <1>7, <2>1 DEF Settled
<1> QED
    BY <1>2, <1>4, <1>8 DEF OrderOK

(* An order that is still open for conversion may have any documents.      *)
LEMMA OpenOrder ==
    ASSUME NEW od, NEW ch, NEW inv, NEW o, od[o].status \notin {"CANCELLED", "CONVERTED"}
    PROVE  OrderOK(od, ch, inv, o)
BY DEF OrderOK

(* Neither its row nor its documents changed.                              *)
LEMMA SameDocuments ==
    ASSUME NEW p \in Orders, order'[p] = order[p], UNCHANGED <<challan, invoice>>,
           OrderOK(order, challan, invoice, p)
    PROVE  OrderOK(order', challan', invoice', p)
BY DEF OrderOK, Settled, InvoicesForOrder

(* An order stays what it was when an invoice of another order is made.    *)
LEMMA OtherInvoice ==
    ASSUME IInv, IInv', DocumentsInv, DocumentsInv', NEW i \in Invoices, OnlyInvoice(i), SameChallans,
           invoice[i].status = "NONE", NEW p \in Orders, order'[p] = order[p],
           invoice'[i].source # p,
           \A d \in Challans : challan[d].order = p => challan'[d] = challan[d],
           OrderOK(order, challan, invoice, p)
    PROVE  OrderOK(order', challan', invoice', p)
<1>0. /\ \A j \in Invoices : j # i => invoice'[j] = invoice[j]
      /\ \A d \in Challans : /\ challan'[d].order = challan[d].order
                             /\ challan'[d].status = challan[d].status
                             /\ challan'[d].qty = challan[d].qty /\ challan'[d].back = challan[d].back
    BY DEF OnlyInvoice, SameChallans
<1>1. LiveChallans(challan', p) = LiveChallans(challan, p)
    BY <1>0 DEF LiveChallans
<1>2. i # NoBill /\ order[p].bill # i /\ \A d \in Challans : challan[d].bill # i
    BY FreeRow DEF DocumentsInv, LinksOK
<1>3. \A j \in Invoices : \A d \in Challans :
         (challan'[d].bill = j /\ challan'[d].order = p) <=> (challan[d].bill = j /\ challan[d].order = p)
    BY <1>0
<1>4. InvoicesForOrder(order', challan', invoice', p) = InvoicesForOrder(order, challan, invoice, p)
    <2>1. ASSUME NEW j \in Invoices
          PROVE  j \in InvoicesForOrder(order', challan', invoice', p)
                    <=> j \in InvoicesForOrder(order, challan, invoice, p)
        <3>1. CASE j = i
            BY <1>2, <1>3, <3>1 DEF InvoicesForOrder, LinkedTo, Live
        <3>2. CASE j # i
            BY <1>0, <1>3, <3>2 DEF InvoicesForOrder, LinkedTo
        <3> QED
            BY <3>1, <3>2
    <2>2. /\ InvoicesForOrder(order', challan', invoice', p) \subseteq Invoices
          /\ InvoicesForOrder(order, challan, invoice, p) \subseteq Invoices
        BY DEF InvoicesForOrder
    <2> QED
        BY <2>1, <2>2
<1>5. \A j \in Invoices : BillsChallanOf(challan, j, p) => BillsChallanOf(challan', j, p)
    BY <1>0, <1>3 DEF BillsChallanOf, LinkedTo
<1>6. Remaining(challan', invoice', p) = Remaining(challan, invoice, p)
    <2>1. TakenBy(invoice[i], p) = 0 /\ TakenBy(invoice'[i], p) = 0
        BY DEF TakenBy, Live
    <2>2. Taken(challan', invoice', p) = Taken(challan, invoice, p)
        BY <2>1, InvoiceTakes, TakenNumbers
    <2> QED
        BY <2>2 DEF Remaining
<1>7. i \notin InvoicesForOrder(order, challan, invoice, p)
    BY DEF InvoicesForOrder, Live
<1>8. Settled(order, challan, invoice, p) => Settled(order', challan', invoice', p)
    <2>1. /\ InvoicesForOrder(order, challan, invoice, p) \in SUBSET Invoices
          /\ LiveChallans(challan, p) \in SUBSET Challans
        BY DEF InvoicesForOrder, LiveChallans
    <2> QED
        BY <1>0, <1>1, <1>4, <1>5, <1>6, <1>7, <2>1 DEF Settled
<1> QED
    BY <1>1, <1>4, <1>8 DEF OrderOK

(* The documents of order p, seen from the row od[p], when invoice i stops *)
(* being a draft.                                                          *)
OnlyBillsDrafted(od, ch, inv, o) ==
    /\ \A c \in LiveChallans(ch, o) : ch[c].status # "DRAFT"
    /\ \A i \in InvoicesForOrder(od, ch, inv, o) :
          inv[i].status = "DRAFT" => inv[i].source # o /\ BillsChallanOf(ch, i, o)

(* The order has no documents it did not have, nor drafts.                 *)
NoNewDocuments(od, p) ==
    /\ LiveChallans(challan', p) = LiveChallans(challan, p)
    /\ InvoicesForOrder(od, challan', invoice', p) \subseteq InvoicesForOrder(order, challan, invoice, p)
    /\ OnlyBillsDrafted(order, challan, invoice, p) => OnlyBillsDrafted(od, challan', invoice', p)

(* An invoice that is completed, cancelled or deleted leaves the order no  *)
(* new documents and no new drafts.                                        *)
LEMMA InvoiceSettles ==
    ASSUME IInv, IInv', DocumentsInv, NEW i \in Invoices, OnlyInvoice(i), SameChallans,
           invoice[i].status \in Live, invoice'[i].status # "DRAFT",
           NEW p \in Orders, NEW od, od[p].bill = order[p].bill \/ od[p].bill = NoBill,
           invoice'[i].source = p => invoice[i].source = p,
           \A d \in Challans : \/ challan'[d].bill = challan[d].bill
                               \/ challan[d].bill = i /\ challan'[d].bill = NoBill
    PROVE  NoNewDocuments(od, p)
<1>0. /\ \A j \in Invoices : j # i => invoice'[j] = invoice[j]
      /\ \A d \in Challans : /\ challan'[d].order = challan[d].order
                             /\ challan'[d].status = challan[d].status
                             /\ challan'[d].qty = challan[d].qty /\ challan'[d].back = challan[d].back
    BY DEF OnlyInvoice, SameChallans
<1>1. LiveChallans(challan', p) = LiveChallans(challan, p)
    BY <1>0 DEF LiveChallans
<1>2. NoBill \notin Invoices
    BY DEF NoBill, Invoices
<1>3. \A j \in Invoices : \A d \in Challans : challan'[d].bill = j => challan[d].bill = j
    BY <1>2
<1>4. ASSUME NEW j \in InvoicesForOrder(od, challan', invoice', p)
      PROVE  j \in InvoicesForOrder(order, challan, invoice, p)
    <2>0. j \in Invoices /\ invoice'[j].status \in Live
        BY DEF InvoicesForOrder
    <2>1. invoice[j].status \in Live /\ (invoice'[j].source = p => invoice[j].source = p)
        BY <1>0, <2>0
    <2>2. od[p].bill = j => order[p].bill = j
        BY <1>2, <2>0
    <2>3. \/ invoice'[j].source = p \/ od[p].bill = j
          \/ \E d \in Challans : challan'[d].bill = j /\ challan'[d].order = p
        BY DEF InvoicesForOrder, LinkedTo
    <2>4. \/ invoice[j].source = p \/ order[p].bill = j
          \/ \E d \in Challans : challan[d].bill = j /\ challan[d].order = p
        BY <1>0, <1>3, <2>0, <2>1, <2>2, <2>3
    <2> QED
        BY <2>0, <2>1, <2>4 DEF InvoicesForOrder, LinkedTo
<1>5. ASSUME NEW j \in Invoices, j # i, BillsChallanOf(challan, j, p)
      PROVE  BillsChallanOf(challan', j, p)
    <2>1. PICK d \in Challans : /\ challan[d].bill = j /\ challan[d].order = p
                                /\ challan[d].status \in Live /\ challan[d].qty > challan[d].back
        BY <1>5 DEF BillsChallanOf, LinkedTo
    <2>2. challan'[d].bill = j
        BY <1>5, <2>1
    <2> QED
        BY <1>0, <2>1, <2>2 DEF BillsChallanOf, LinkedTo
<1>6. OnlyBillsDrafted(order, challan, invoice, p) => OnlyBillsDrafted(od, challan', invoice', p)
    <2> HAVE OnlyBillsDrafted(order, challan, invoice, p)
    <2>1. \A c \in LiveChallans(challan', p) : challan'[c].status # "DRAFT"
        BY <1>0, <1>1 DEF OnlyBillsDrafted, LiveChallans
    <2>2. ASSUME NEW j \in InvoicesForOrder(od, challan', invoice', p), invoice'[j].status = "DRAFT"
          PROVE  invoice'[j].source # p /\ BillsChallanOf(challan', j, p)
        <3>1. j # i /\ j \in Invoices /\ invoice'[j] = invoice[j]
            BY <1>0, <2>2 DEF InvoicesForOrder
        <3>2. invoice[j].source # p /\ BillsChallanOf(challan, j, p)
            BY <1>4, <2>2, <3>1 DEF OnlyBillsDrafted
        <3> QED
            BY <1>5, <3>1, <3>2
    <2> QED
        BY <2>1, <2>2 DEF OnlyBillsDrafted
<1> QED
    BY <1>1, <1>4, <1>6 DEF NoNewDocuments

(* When the invoice claims as much of the order as before, a settled order *)
(* stays settled.                                                          *)
LEMMA StaysSettled ==
    ASSUME IInv, DocumentsInv, NEW i \in Invoices, OnlyInvoice(i), SameChallans,
           NEW p \in Orders, NEW od, NoNewDocuments(od, p),
           TakenBy(invoice'[i], p) = TakenBy(invoice[i], p),
           Settled(order, challan, invoice, p)
    PROVE  Settled(od, challan', invoice', p)
<1>1. Remaining(challan', invoice', p) = Remaining(challan, invoice, p)
    <2>1. Taken(challan', invoice', p) = Taken(challan, invoice, p)
        <3>1. /\ Taken(challan', invoice', p)
                  = Taken(challan, invoice, p) - TakenBy(invoice[i], p) + TakenBy(invoice'[i], p)
              /\ Taken(challan, invoice, p) \in Nat /\ TakenBy(invoice[i], p) \in Nat
            BY InvoiceTakes, TakenNumbers, RowNumbers
        <3> QED
            BY <3>1
    <2> QED
        BY <2>1 DEF Remaining
<1>2. OnlyBillsDrafted(od, challan', invoice', p)
    BY DEF NoNewDocuments, OnlyBillsDrafted, Settled
<1>3. \/ Remaining(challan, invoice, p) = 0
      \/ \E c \in LiveChallans(challan, p) : challan[c].back = challan[c].qty
    BY DEF Settled
<1>4. \A c \in LiveChallans(challan, p) : /\ c \in LiveChallans(challan', p)
                                          /\ challan'[c].back = challan[c].back
                                          /\ challan'[c].qty = challan[c].qty
    BY DEF NoNewDocuments, SameChallans, LiveChallans
<1> QED
    BY <1>1, <1>2, <1>3, <1>4 DEF Settled, OnlyBillsDrafted

(* One lemma per handler.  An order that is converted has no draft challan *)
(* and no draft invoice of its own, one that is cancelled has no live      *)
(* document: most handlers find their order open.                          *)
LEMMA OrdersConfirm ==
    ASSUME IInv, OrdersOK, NEW o \in Orders, ConfirmSalesOrder(o)
    PROVE  OrdersOK'
<1>1. /\ OnlyOrder(o) /\ UNCHANGED <<challan, invoice>> /\ order'[o].status = "CONFIRMED"
    BY ConfirmFacts DEF Confirmed
<1>2. ASSUME NEW p \in Orders
      PROVE  OrderOK(order', challan', invoice', p)
    <2>1. CASE p = o
        BY <1>1, <2>1, OpenOrder
    <2>2. CASE p # o
        BY <1>1, <2>2, SameDocuments DEF OrdersOK, OnlyOrder
    <2> QED
        BY <2>1, <2>2
<1> QED
    BY <1>2 DEF OrdersOK

(* Only an order without documents is cancelled.                           *)
LEMMA OrdersGiveBack ==
    ASSUME IInv, OrdersOK, NEW o \in Orders, CancelSalesOrder(o) \/ ReleaseFailedStop(o)
    PROVE  OrdersOK'
<1>0. GivenBack(o)
    BY GiveBackFacts
<1>1. /\ OnlyOrder(o) /\ UNCHANGED <<challan, invoice>> /\ order'[o].bill = order[o].bill
      /\ \/ order'[o].status = "DRAFT"
         \/ /\ order'[o].status = "CANCELLED"
            /\ InvoicesForOrder(order, challan, invoice, o) = {} /\ LiveChallans(challan, o) = {}
    BY <1>0 DEF GivenBack
<1>2. ASSUME NEW p \in Orders
      PROVE  OrderOK(order', challan', invoice', p)
    <2>1. CASE p = o /\ order'[o].status = "DRAFT"
        BY <1>1, <2>1, OpenOrder
    <2>2. CASE p = o /\ order'[o].status # "DRAFT"
        BY <1>1, <2>2 DEF OrderOK, InvoicesForOrder
    <2>3. CASE p # o
        BY <1>1, <2>3, SameDocuments DEF OrdersOK, OnlyOrder
    <2> QED
        BY <2>1, <2>2, <2>3
<1> QED
    BY <1>2 DEF OrdersOK

(* Steps that change no order and no document.                             *)
LEMMA OrdersQuiet ==
    ASSUME OrdersOK, UNCHANGED <<order, challan, invoice>>
    PROVE  OrdersOK'
BY DEF OrdersOK

(* Only an open order is converted to a challan.                           *)
LEMMA OrdersToChallan ==
    ASSUME IInv, IInv', DocumentsInv, DocumentsInv', OrdersOK,
           NEW o \in Orders, NEW c \in Challans, NEW q \in 1 .. MaxQty,
           ConvertSalesOrderToChallan(o, c, q)
    PROVE  OrdersOK'
<1>0. ChallanDrafted(o, c, q)
    BY ToChallanFacts
<1>1. /\ OnlyChallan(c) /\ OnlyOrder(o)
      /\ challan[c].status = "NONE" /\ challan'[c].order = o
      /\ order[o].status \in Convertible
      /\ order'[o].status = order[o].status \/ order'[o].status = "PARTIALLY_CONVERTED"
    BY <1>0 DEF ChallanDrafted
<1>2. ASSUME NEW p \in Orders
      PROVE  OrderOK(order', challan', invoice', p)
    <2>1. CASE p = o
        BY <1>1, <2>1, OpenOrder DEF Convertible
    <2>2. CASE p # o
        BY <1>1, <2>2, OtherChallan DEF OrdersOK, OnlyOrder
    <2> QED
        BY <2>1, <2>2
<1> QED
    BY <1>2 DEF OrdersOK

(* Only an open order is converted to an invoice.                          *)
LEMMA OrdersConvert ==
    ASSUME IInv, IInv', DocumentsInv, DocumentsInv', OrdersOK,
           NEW o \in Orders, NEW i \in Invoices, NEW q \in 1 .. MaxQty, ConvertSalesOrder(o, i, q)
    PROVE  OrdersOK'
<1>0. InvoiceDrafted(o, i, q)
    BY ConvertFacts
<1>1. /\ OnlyInvoice(i) /\ OnlyOrder(o) /\ challan' = challan
      /\ invoice[i].status = "NONE" /\ invoice'[i].source = o
      /\ order[o].status \in Convertible
      /\ order'[o].status = order[o].status \/ order'[o].status = "PARTIALLY_CONVERTED"
    BY <1>0 DEF InvoiceDrafted
<1>2. SameChallans
    BY <1>1, Types DEF SameChallans
<1>3. ASSUME NEW p \in Orders
      PROVE  OrderOK(order', challan', invoice', p)
    <2>1. CASE p = o
        BY <1>1, <2>1, OpenOrder DEF Convertible
    <2>2. CASE p # o
        BY <1>1, <1>2, <2>2, OtherInvoice DEF OrdersOK, OnlyOrder
    <2> QED
        BY <2>1, <2>2
<1> QED
    BY <1>3 DEF OrdersOK

(* An order with a draft challan is neither cancelled nor converted.       *)
LEMMA DraftChallanOpen ==
    ASSUME NEW o \in Orders, OrderOK(order, challan, invoice, o), NEW c \in Challans,
           challan[c].order = o, challan[c].status = "DRAFT"
    PROVE  order[o].status \notin {"CANCELLED", "CONVERTED"}
BY DEF OrderOK, Settled, LiveChallans, Live

(* The order is open and recomputed; others are left alone.                *)
LEMMA OrdersCompleteChallan ==
    ASSUME IInv, IInv', DocumentsInv, DocumentsInv', OrdersOK,
           NEW c \in Challans, NEW post \in StockOnChallan, CompleteChallan(c, post)
    PROVE  OrdersOK'
<1>b. PICK o : o = challan[c].order
    OBVIOUS
<1>1. /\ OnlyChallan(c) /\ o \in Orders /\ OnlyOrder(o)
      /\ challan[c].status = "DRAFT" /\ challan'[c].order = o
      /\ order'[o] = Recomputed(order, challan', invoice', o, FALSE)
    BY <1>b, CompleteChallanFacts
<1>2. order[o].status \notin {"CANCELLED", "CONVERTED"}
    BY <1>b, <1>1, DraftChallanOpen DEF OrdersOK
<1>3. ASSUME NEW p \in Orders
      PROVE  OrderOK(order', challan', invoice', p)
    <2>1. CASE p = o
        <3>1. FALSE \in BOOLEAN /\ order \in [Orders -> Order]
            BY Types
        <3>2. order'[p] = Recomputed(order, challan', invoice', p, FALSE)
            BY <1>1, <2>1
        <3> QED
            BY <1>2, <2>1, <3>1, <3>2, RecomputedOrder
    <2>2. CASE p # o
        BY <1>b, <1>1, <2>2, OtherChallan DEF OrdersOK, OnlyOrder
    <2> QED
        BY <2>1, <2>2
<1> QED
    BY <1>3 DEF OrdersOK

(* The order is open and recomputed, or falls back when nothing of it is   *)
(* taken.                                                                  *)
LEMMA OrdersDropDraft ==
    ASSUME IInv, IInv', DocumentsInv, DocumentsInv', OrdersOK,
           NEW c \in Challans, DeleteChallan(c) \/ CancelDraftChallan(c)
    PROVE  OrdersOK'
<1>b. PICK o : o = challan[c].order
    OBVIOUS
<1>1. /\ OnlyChallan(c) /\ o \in Orders /\ OnlyOrder(o) /\ challan[c].status = "DRAFT"
      /\ order'[o].bill = Recomputed(order, challan', invoice', o, FALSE).bill
      /\ \/ order'[o].status = Recomputed(order, challan', invoice', o, FALSE).status
         \/ order'[o].status = Unprocessed(order[o])
    BY <1>b, DropDraftFacts
<1>2. order[o].status \notin {"CANCELLED", "CONVERTED"}
    BY <1>b, <1>1, DraftChallanOpen DEF OrdersOK
<1>3. challan'[c].order = o \/ challan'[c].order = NoOrder
    <2>1. challan[c] \in Challan /\ challan \in [Challans -> Challan]
        BY Types
    <2>2. CASE DeleteChallan(c)
        BY <2>1, <2>2 DEF DeleteChallan, NoChallan
    <2>3. CASE CancelDraftChallan(c)
        BY <1>b, <2>1, <2>3 DEF CancelDraftChallan, Challan
    <2> QED
        BY <2>2, <2>3
<1>4. ASSUME NEW p \in Orders
      PROVE  OrderOK(order', challan', invoice', p)
    <2>1. CASE p = o /\ order'[o].status = Unprocessed(order[o])
        BY <2>1, OpenOrder DEF Unprocessed
    <2>2. CASE p = o /\ order'[o].status # Unprocessed(order[o])
        <3>1. FALSE \in BOOLEAN /\ order \in [Orders -> Order]
            BY Types
        <3>2. /\ order'[p].status = Recomputed(order, challan', invoice', p, FALSE).status
              /\ order'[p].bill = Recomputed(order, challan', invoice', p, FALSE).bill
            BY <1>1, <2>2
        <3> QED
            BY <1>2, <2>2, <3>1, <3>2, RecomputedOrder
    <2>3. CASE p # o
        <3>1. challan'[c].order # p
            BY <1>3, <2>3, OrderAssumption
        <3> QED
            BY <1>b, <1>1, <2>3, <3>1, OtherChallan DEF OrdersOK, OnlyOrder
    <2> QED
        BY <2>1, <2>2, <2>3
<1> QED
    BY <1>4 DEF OrdersOK

(* The order is reopened unless it is cancelled, which it cannot be.       *)
LEMMA OrdersBack ==
    ASSUME IInv, IInv', DocumentsInv, DocumentsInv', OrdersOK,
           NEW c \in Challans, NEW q \in Nat, BackOnChallan(c, q)
    PROVE  OrdersOK'
<1>b. PICK o : o = challan[c].order
    OBVIOUS
<1>1. /\ OnlyChallan(c) /\ o \in Orders /\ OnlyOrder(o)
      /\ challan[c].status = "COMPLETED" /\ challan'[c].order = o
      /\ order'[o].status = IF order[o].status = "CANCELLED" THEN order[o].status
                            ELSE Reopened(order, challan', invoice', o)
    BY <1>b DEF BackOnChallan
<1>2. order[o].status # "CANCELLED"
    BY <1>b, <1>1 DEF OrdersOK, OrderOK, LiveChallans, Live
<1>3. ASSUME NEW p \in Orders
      PROVE  OrderOK(order', challan', invoice', p)
    <2>1. CASE p = o
        BY <1>1, <1>2, <2>1, OpenOrder DEF Reopened, Unprocessed
    <2>2. CASE p # o
        BY <1>b, <1>1, <2>2, OtherChallan DEF OrdersOK, OnlyOrder
    <2> QED
        BY <2>1, <2>2
<1> QED
    BY <1>3 DEF OrdersOK

(* A bill made from a challan of a converted order leaves it settled.      *)
LEMMA OrdersBillChallan ==
    ASSUME IInv, IInv', DocumentsInv, DocumentsInv', OrdersOK,
           NEW c \in Challans, NEW i \in Invoices, ConvertDeliveryChallan(c, i)
    PROVE  OrdersOK'
<1>b. PICK o : o = challan[c].order
    OBVIOUS
<1>1. /\ OnlyInvoice(i) /\ o \in Orders /\ OnlyOrder(o) /\ SameChallans
      /\ invoice[i].status = "NONE"
      /\ invoice'[i].status = "DRAFT" /\ invoice'[i].source = NoOrder
      /\ challan[c].status = "COMPLETED" /\ challan[c].bill = NoBill
      /\ challan[c].qty > challan[c].back
      /\ challan'[c].bill = i
      /\ \A d \in Challans : d # c => challan'[d] = challan[d]
      /\ order'[o].bill = i /\ order'[o].status = order[o].status
    BY <1>b, BillChallanFacts
<1>2. order[o].status # "CANCELLED"
    BY <1>b, <1>1 DEF OrdersOK, OrderOK, LiveChallans, Live
<1>3. ASSUME Settled(order, challan, invoice, o)
      PROVE  Settled(order', challan', invoice', o)
    <2>1. /\ \A j \in Invoices : j # i => invoice'[j] = invoice[j]
          /\ \A d \in Challans : /\ challan'[d].order = challan[d].order
                                 /\ challan'[d].status = challan[d].status
                                 /\ challan'[d].qty = challan[d].qty
                                 /\ challan'[d].back = challan[d].back
        BY <1>1 DEF OnlyInvoice, SameChallans
    <2>2. LiveChallans(challan', o) = LiveChallans(challan, o)
        BY <2>1 DEF LiveChallans
    <2>3. \A j \in Invoices : j # NoBill
        BY DEF Invoices, NoBill
    <2>4. ASSUME NEW j \in InvoicesForOrder(order', challan', invoice', o), j # i
          PROVE  j \in InvoicesForOrder(order, challan, invoice, o)
        <3>1. j \in Invoices /\ invoice'[j] = invoice[j] /\ invoice'[j].status \in Live
            BY <2>1, <2>4 DEF InvoicesForOrder
        <3>2. \/ invoice'[j].source = o
              \/ \E d \in Challans : challan'[d].bill = j /\ challan'[d].order = o
            BY <1>1, <2>4 DEF InvoicesForOrder, LinkedTo
        <3>3. \/ invoice[j].source = o
              \/ \E d \in Challans : challan[d].bill = j /\ challan[d].order = o
            BY <1>1, <2>1, <2>4, <3>1, <3>2
        <3> QED
            BY <3>1, <3>3 DEF InvoicesForOrder, LinkedTo
    <2>5. ASSUME NEW j \in InvoicesForOrder(order', challan', invoice', o), invoice'[j].status = "DRAFT"
          PROVE  invoice'[j].source # o /\ BillsChallanOf(challan', j, o)
        <3>1. CASE j = i
            <4>1. invoice'[j].source # o
                BY <1>1, <3>1, OrderAssumption
            <4>2. c \in LinkedTo(challan', i) /\ challan'[c].order = o /\ challan'[c].status \in Live
                  /\ challan'[c].qty > challan'[c].back
                BY <1>b, <1>1, <2>1 DEF LinkedTo, Live
            <4> QED
                BY <3>1, <4>1, <4>2 DEF BillsChallanOf
        <3>2. CASE j # i
            <4>1. j \in Invoices /\ invoice'[j] = invoice[j]
                BY <2>1, <3>2 DEF InvoicesForOrder
            <4>2. invoice[j].source # o /\ BillsChallanOf(challan, j, o)
                BY <1>3, <2>4, <2>5, <3>2, <4>1 DEF Settled
            <4>3. PICK d \in Challans : /\ challan[d].bill = j /\ challan[d].order = o
                                        /\ challan[d].status \in Live /\ challan[d].qty > challan[d].back
                BY <4>2 DEF BillsChallanOf, LinkedTo
            <4>4. d # c
                BY <1>1, <2>3, <4>1, <4>3
            <4> QED
                BY <1>1, <4>1, <4>2, <4>3, <4>4 DEF BillsChallanOf, LinkedTo
        <3> QED
            BY <3>1, <3>2
    <2>6. Remaining(challan', invoice', o) = Remaining(challan, invoice, o)
        <3>1. TakenBy(invoice[i], o) = 0 /\ TakenBy(invoice'[i], o) = 0
            BY <1>1, OrderAssumption DEF TakenBy, Live
        <3>2. Taken(challan', invoice', o) = Taken(challan, invoice, o)
            BY <1>1, <3>1, InvoiceTakes, TakenNumbers
        <3> QED
            BY <3>2 DEF Remaining
    <2>7. LiveChallans(challan, o) \in SUBSET Challans
        BY DEF LiveChallans
    <2> QED
        BY <1>3, <2>1, <2>2, <2>5, <2>6, <2>7 DEF Settled
<1>4. ASSUME NEW p \in Orders
      PROVE  OrderOK(order', challan', invoice', p)
    <2>1. CASE p = o
        BY <1>1, <1>2, <1>3, <2>1 DEF OrdersOK, OrderOK
    <2>2. CASE p # o
        <3>1. invoice'[i].source # p /\ order'[p] = order[p]
            BY <1>1, <2>2, OrderAssumption DEF OnlyOrder
        <3>2. \A d \in Challans : challan[d].order = p => challan'[d] = challan[d]
            BY <1>b, <1>1, <2>2
        <3> QED
            BY <1>1, <3>1, <3>2, OtherInvoice DEF OrdersOK
    <2> QED
        BY <2>1, <2>2
<1> QED
    BY <1>4 DEF OrdersOK

(* An invoice that is completed claims what it claimed as a draft.         *)
LEMMA OrdersCompleteInvoice ==
    ASSUME IInv, IInv', DocumentsInv, DocumentsInv', OrdersOK, NEW i \in Invoices, CompleteInvoice(i)
    PROVE  OrdersOK'
<1>1. /\ OnlyInvoice(i) /\ challan' = challan
      /\ invoice[i].status = "DRAFT"
      /\ invoice'[i].status = "COMPLETED" /\ invoice'[i].source = invoice[i].source
      /\ invoice'[i].qty = invoice[i].qty
    BY CompleteInvoiceFacts
<1>2. \A p \in Orders : \/ order'[p] = order[p]
                        \/ order'[p] = Recomputed(order, challan', invoice', p, FALSE)
    BY CompleteInvoiceFacts
<1>3. SameChallans
    BY <1>1, Types DEF SameChallans
<1>4. ASSUME NEW p \in Orders
      PROVE  OrderOK(order', challan', invoice', p)
    <2>0. OrderOK(order, challan, invoice, p)
        BY DEF OrdersOK
    <2>1. ASSUME NEW od, od[p].bill = order[p].bill \/ od[p].bill = NoBill
          PROVE  NoNewDocuments(od, p)
        BY <1>1, <1>3, <2>1, InvoiceSettles DEF Live
    <2>2. TakenBy(invoice'[i], p) = TakenBy(invoice[i], p)
        BY <1>1 DEF TakenBy, Live
    <2>3. ASSUME NEW od, NoNewDocuments(od, p), od[p].status = order[p].status
          PROVE  OrderOK(od, challan', invoice', p)
        <3>1. Settled(order, challan, invoice, p) => Settled(od, challan', invoice', p)
            BY <1>1, <1>3, <2>2, <2>3, StaysSettled
        <3> QED
            BY <2>0, <2>3, <3>1 DEF OrderOK, NoNewDocuments
    <2>4. CASE order'[p] = order[p]
        <3>1. PICK od : od = order'
            OBVIOUS
        <3>2. OrderOK(od, challan', invoice', p)
            BY <2>1, <2>3, <2>4, <3>1
        <3> QED
            BY <3>1, <3>2
    <2>5. CASE order'[p] = Recomputed(order, challan', invoice', p, FALSE)
        <3>1. OrderOK(order, challan', invoice', p)
            BY <2>1, <2>3
        <3>2. FALSE \in BOOLEAN /\ order \in [Orders -> Order]
            BY Types
        <3>3. /\ order[p].status = "CANCELLED" => /\ LiveChallans(challan', p) = {}
                                                  /\ InvoicesForOrder(order, challan', invoice', p) = {}
              /\ order[p].status = "CONVERTED" => Settled(order, challan', invoice', p)
            BY <3>1 DEF OrderOK
        <3> QED
            BY <2>5, <3>2, <3>3, RecomputedOrder
    <2> QED
        BY <1>2, <2>4, <2>5
<1> QED
    BY <1>4 DEF OrdersOK

(* An order with a draft invoice of its own is open; to other orders the   *)
(* deleted invoice was at most a bill of a challan.                        *)
LEMMA OrdersDeleteInvoice ==
    ASSUME IInv, IInv', DocumentsInv, DocumentsInv', OrdersOK, NEW i \in Invoices, DeleteInvoice(i)
    PROVE  OrdersOK'
<1>b. PICK o : o = invoice[i].source
    OBVIOUS
<1>1. /\ OnlyInvoice(i) /\ SameChallans
      /\ invoice[i].status = "DRAFT" /\ o \in Orders \cup {NoOrder}
      /\ invoice'[i].status = "DELETED" /\ invoice'[i].source = NoOrder
      /\ \A c \in Challans : challan'[c].bill = IF challan[c].bill = i THEN NoBill ELSE challan[c].bill
      /\ \A p \in Orders :
            p # o => /\ order'[p].status = order[p].status
                     /\ order'[p].bill = IF order[p].bill = i THEN NoBill ELSE order[p].bill
    BY <1>b, DeleteInvoiceFacts, ZenonT(60)
<1>2. o # NoOrder => \E od \in [Orders -> Order] :
                        /\ od[o] = Discarded(order, challan', invoice', o, i)
                        /\ order'[o] = Recomputed(od, challan', invoice', o, FALSE)
    BY <1>b, DeleteInvoiceFacts
<1>3. ASSUME NEW p \in Orders
      PROVE  OrderOK(order', challan', invoice', p)
    <2>0. OrderOK(order, challan, invoice, p)
        BY DEF OrdersOK
    <2>1. CASE p # o
        <3>1. PICK od : od = order'
            OBVIOUS
        <3>2. /\ od[p].status = order[p].status
              /\ od[p].bill = order[p].bill \/ od[p].bill = NoBill
            BY <1>1, <2>1, <3>1
        <3>3. NoNewDocuments(od, p)
            BY <1>1, <3>2, InvoiceSettles, OrderAssumption DEF Live
        <3>4. TakenBy(invoice'[i], p) = TakenBy(invoice[i], p)
            BY <1>b, <1>1, <2>1, OrderAssumption DEF TakenBy
        <3>5. Settled(order, challan, invoice, p) => Settled(od, challan', invoice', p)
            BY <1>1, <3>3, <3>4, StaysSettled
        <3>6. OrderOK(od, challan', invoice', p)
            BY <2>0, <3>2, <3>3, <3>5 DEF OrderOK, NoNewDocuments
        <3> QED
            BY <3>1, <3>6
    <2>2. CASE p = o
        <3>0. i \in InvoicesForOrder(order, challan, invoice, p)
            BY <1>b, <1>1, <2>2 DEF InvoicesForOrder, Live
        <3>1. order[p].status \notin {"CANCELLED", "CONVERTED"}
            BY <1>b, <1>1, <2>0, <2>2, <3>0 DEF OrderOK, Settled
        <3>2. PICK od \in [Orders -> Order] :
                        /\ od[p] = Discarded(order, challan', invoice', p, i)
                        /\ order'[p] = Recomputed(od, challan', invoice', p, FALSE)
            BY <1>2, <2>2, OrderAssumption
        <3>3. LeftBy(Discarded(order, challan', invoice', p, i), order[p],
                     Taken(challan', invoice', p), i)
            BY Types, DiscardedRow
        <3>4. LeftBy(od[p], order[p], Taken(challan', invoice', p), i)
            BY <3>2, <3>3
        <3>5. od[p].status \notin {"CANCELLED", "CONVERTED"}
            BY <3>1, <3>4 DEF LeftBy, Unprocessed
        <3>6. FALSE \in BOOLEAN
            OBVIOUS
        <3> QED
            BY <3>2, <3>5, <3>6, RecomputedOrder
    <2> QED
        BY <2>1, <2>2
<1> QED
    BY <1>3 DEF OrdersOK

(* After the invoice of a converted order is cancelled, either something   *)
(* of the order is out still, or the goods of its challans all came back.  *)
LEMMA SettledOrOut ==
    ASSUME IInv', DocumentsInv', NEW od, NEW p \in Orders,
           OnlyBillsDrafted(od, challan', invoice', p),
           ~AnyCompleted(od, challan', invoice', p),
           LiveChallans(challan', p) # {} \/ InvoicesForOrder(od, challan', invoice', p) # {}
    PROVE  Settled(od, challan', invoice', p)
<1>1. \A j \in InvoicesForOrder(od, challan', invoice', p) : BillsChallanOf(challan', j, p)
    <2> TAKE j \in InvoicesForOrder(od, challan', invoice', p)
    <2>1. invoice'[j].status \in Live /\ invoice'[j].status # "COMPLETED"
        BY DEF AnyCompleted, InvoicesForOrder
    <2> QED
        BY <2>1 DEF OnlyBillsDrafted, Live
<1>2. PICK c \in LiveChallans(challan', p) : TRUE
    BY <1>1 DEF BillsChallanOf, LinkedTo, LiveChallans
<1>3. /\ c \in Challans /\ challan'[c].order = p /\ challan'[c].status = "COMPLETED"
    BY <1>2 DEF OnlyBillsDrafted, LiveChallans, Live
<1>4. /\ challan' \in [Challans -> Challan] /\ Net(challan') /\ invoice' \in [Invoices -> Invoice]
    BY AfterStep
<1>5. challan'[c].qty \in Nat /\ challan'[c].back \in Nat /\ challan'[c].back <= challan'[c].qty
    BY <1>3, <1>4, StockAssumption DEF Net, Challan, Quantity
<1>6. ShipOf(challan'[c], p) <= Shipped(challan', p) /\ Shipped(challan', p) \in Nat
    BY <1>3, <1>4, ShippedAtLeast, DoneWithinTaken
<1>7. Shipped(challan', p) = 0
    BY <1>6 DEF AnyCompleted
<1>8. ShipOf(challan'[c], p) = challan'[c].qty - challan'[c].back
    BY <1>3 DEF ShipOf
<1>9. challan'[c].back = challan'[c].qty
    BY <1>5, <1>6, <1>7, <1>8
<1> QED
    BY <1>2, <1>9 DEF Settled, OnlyBillsDrafted

(* The order of a cancelled invoice is recomputed with reopen; others only *)
(* lose the pointer to it.                                                 *)
LEMMA OrdersCancelInvoice ==
    ASSUME IInv, IInv', DocumentsInv, DocumentsInv', OrdersOK, NEW i \in Invoices, CancelInvoice(i)
    PROVE  OrdersOK'
<1>1. /\ OnlyInvoice(i) /\ SameChallans
      /\ invoice[i].status \in Live
      /\ invoice'[i].status = "CANCELLED" /\ invoice'[i].source = invoice[i].source
      /\ \A c \in Challans : \/ challan'[c] = challan[c]
                             \/ challan[c].bill = i /\ challan'[c].bill = NoBill
      /\ \A p \in Orders : order'[p] = OrderAfterCancel(challan', invoice', i, p)
    BY CancelInvoiceFacts
<1>2. ASSUME NEW p \in Orders
      PROVE  OrderOK(order', challan', invoice', p)
    <2>0. OrderOK(order, challan, invoice, p)
        BY DEF OrdersOK
    <2> DEFINE z == OrderAfterCancel(challan', invoice', i, p)
    <2>1. PICK od \in [Orders -> Order] : AfterCancel(od, challan', invoice', i, p)
        BY AfterCancelRow
    <2> DEFINE y == Recomputed(od, challan', invoice', p, TRUE)
    <2>2. /\ od[p].status = order[p].status
          /\ od[p].bill = order[p].bill \/ od[p].bill = NoBill
          /\ invoice[i].source = p \/ od[p].bill = i =>
                z.status = y.status /\ (z.bill = NoBill \/ z.bill = y.bill)
          /\ ~(invoice[i].source = p \/ od[p].bill = i) => z = od[p]
        BY <2>1 DEF AfterCancel
    <2>3. order'[p] = z
        BY <1>1
    <2> HIDE DEF y, z
    <2>4. ASSUME NEW new, new[p].bill = od[p].bill
          PROVE  NoNewDocuments(new, p)
        BY <1>1, <2>2, <2>4, InvoiceSettles
    <2>5. CASE invoice[i].source = p \/ od[p].bill = i
        <3>1. NoNewDocuments(od, p)
            BY <2>4
        <3>2. od[p].status = "CANCELLED" => /\ LiveChallans(challan', p) = {}
                                            /\ InvoicesForOrder(od, challan', invoice', p) = {}
            BY <2>0, <2>2, <3>1 DEF OrderOK, NoNewDocuments
        <3>3. od[p].status = "CONVERTED" =>
                 \/ Settled(od, challan', invoice', p)
                 \/ TRUE /\ AnyCompleted(od, challan', invoice', p)
                 \/ /\ TRUE
                    /\ LiveChallans(challan', p) = {} /\ InvoicesForOrder(od, challan', invoice', p) = {}
            <4>1. od[p].status = "CONVERTED" => OnlyBillsDrafted(od, challan', invoice', p)
                BY <2>0, <2>2, <3>1 DEF OrderOK, NoNewDocuments, OnlyBillsDrafted, Settled
            <4> QED
                BY <4>1, SettledOrOut
        <3>4. order'[p].status = y.status /\ (order'[p].bill = NoBill \/ order'[p].bill = y.bill)
            BY <2>2, <2>3, <2>5
        <3>5. PICK reopen \in BOOLEAN : reopen = TRUE
            OBVIOUS
        <3>6. /\ order'[p].status = Recomputed(od, challan', invoice', p, reopen).status
              /\ \/ order'[p].bill = NoBill
                 \/ order'[p].bill = Recomputed(od, challan', invoice', p, reopen).bill
            BY <3>4, <3>5 DEF y
        <3>7. od[p].status = "CONVERTED" =>
                 \/ Settled(od, challan', invoice', p)
                 \/ reopen /\ AnyCompleted(od, challan', invoice', p)
                 \/ /\ reopen
                    /\ LiveChallans(challan', p) = {} /\ InvoicesForOrder(od, challan', invoice', p) = {}
            BY <3>3, <3>5
        <3> QED
            BY <3>2, <3>6, <3>7, RecomputedOrder
    <2>6. CASE ~(invoice[i].source = p \/ od[p].bill = i)
        <3>1. PICK new : new = order'
            OBVIOUS
        <3>2. new[p] = od[p]
            BY <2>2, <2>3, <2>6, <3>1
        <3>3. NoNewDocuments(new, p)
            BY <2>4, <3>2
        <3>4. TakenBy(invoice'[i], p) = TakenBy(invoice[i], p)
            BY <1>1, <2>6 DEF TakenBy
        <3>5. Settled(order, challan, invoice, p) => Settled(new, challan', invoice', p)
            BY <1>1, <3>3, <3>4, StaysSettled
        <3>6. OrderOK(new, challan', invoice', p)
            BY <2>0, <2>2, <3>2, <3>3, <3>5 DEF OrderOK, NoNewDocuments
        <3> QED
            BY <3>1, <3>6
    <2> QED
        BY <2>5, <2>6
<1> QED
    BY <1>2 DEF OrdersOK

(* Every handler keeps the statuses of the orders right.                   *)
LEMMA OrdersNext ==
    ASSUME IInv, IInv', DocumentsInv, DocumentsInv', OrdersOK, Next
    PROVE  OrdersOK'
<1>1. CASE OrderNext
    <2>1. ASSUME NEW o \in Orders,
                 ConfirmSalesOrder(o) \/ CancelSalesOrder(o) \/ ReleaseFailedStop(o)
          PROVE  OrdersOK'
        BY <2>1, OrdersConfirm, OrdersGiveBack
    <2>2. ASSUME Quiet PROVE OrdersOK'
        BY <2>2, OrdersQuiet DEF Quiet
    <2>3. ASSUME RebuildBalance PROVE OrdersOK'
        BY <2>3, OrdersQuiet DEF RebuildBalance, documents
    <2>4. ASSUME NEW k \in Clerks, CompleteReturn(k)
          PROVE  OrdersOK'
        BY <2>4, CompleteReturnFacts, OrdersBack
    <2>5. ASSUME NEW c \in Challans, CancelChallan(c)
          PROVE  OrdersOK'
        <3>1. PICK q \in Nat : q = challan[c].qty
            BY RowNumbers
        <3>2. BackOnChallan(c, q)
            BY <2>5, <3>1, CancelChallanFacts
        <3> QED
            BY <3>2, OrdersBack
    <2>6. ASSUME NEW c \in Challans, NEW post \in StockOnChallan, CompleteChallan(c, post)
          PROVE  OrdersOK'
        BY <2>6, OrdersCompleteChallan
    <2>7. ASSUME NEW i \in Invoices, CompleteInvoice(i) \/ CancelInvoice(i) \/ DeleteInvoice(i)
          PROVE  OrdersOK'
        BY <2>7, OrdersCompleteInvoice, OrdersCancelInvoice, OrdersDeleteInvoice
    <2>8. ASSUME NEW c \in Challans, DeleteChallan(c) \/ CancelDraftChallan(c)
          PROVE  OrdersOK'
        BY <2>8, OrdersDropDraft
    <2>9. ASSUME NEW o \in Orders, NEW i \in Invoices, NEW q \in 1 .. MaxQty,
                 ConvertSalesOrder(o, i, q)
          PROVE  OrdersOK'
        BY <2>9, OrdersConvert
    <2>10. ASSUME NEW o \in Orders, NEW c \in Challans, NEW q \in 1 .. MaxQty,
                  ConvertSalesOrderToChallan(o, c, q)
           PROVE  OrdersOK'
        BY <2>10, OrdersToChallan
    <2>11. ASSUME NEW c \in Challans, NEW i \in Invoices, ConvertDeliveryChallan(c, i)
           PROVE  OrdersOK'
        BY <2>11, OrdersBillChallan
    <2> QED
        BY <1>1, <2>1, <2>2, <2>3, <2>4, <2>5, <2>6, <2>7, <2>8, <2>9, <2>10, <2>11,
           OthersAreQuiet DEF OrderNext
<1>2. CASE TransferNext /\ UNCHANGED documents
    BY <1>2, TransferIsQuiet, OrdersQuiet DEF Quiet
<1>3. ASSUME NEW w \in Godowns, NEW delta \in -MaxQty .. MaxQty, Adjust(w, delta), UNCHANGED documents
      PROVE  OrdersOK'
    <2>1. Quiet
        BY <1>3, OthersAreQuiet
    <2> QED
        BY <2>1, OrdersQuiet DEF Quiet
<1> QED
    BY <1>1, <1>2, <1>3 DEF Next

(* Every order begins as a draft.                                          *)
LEMMA OrdersInit ==
    ASSUME Init
    PROVE  OrdersOK
<1>1. \A o \in Orders : order[o].status = "DRAFT"
    BY NoDocuments
<1> QED
    BY <1>1, OpenOrder DEF OrdersOK

(* Cancelled orders have no documents, converted ones are settled.         *)
THEOREM OrdersInductive == Spec => [](IInv /\ DocumentsInv /\ OrdersOK)
<1>1. Init => OrdersOK
    BY OrdersInit
<1>2. IInv /\ IInv' /\ DocumentsInv /\ DocumentsInv' /\ OrdersOK /\ [Next]_vars => OrdersOK'
    <2>1. OrdersOK /\ UNCHANGED vars => OrdersOK'
        BY DEF vars, OrdersOK
    <2> QED
        BY <2>1, OrdersNext
<1> QED
    BY <1>1, <1>2, DocumentsInductive, PTL DEF Spec

(* Of an order without documents nothing is out.                           *)
LEMMA NothingDelivered ==
    ASSUME IInv, NEW o \in Orders,
           LiveChallans(challan, o) = {}, InvoicesForOrder(order, challan, invoice, o) = {}
    PROVE  Delivered(o) = 0
<1>1. \A c \in Challans : challan[c].order = o => OutOnChallan(c) = 0
    BY Types DEF LiveChallans, Live, ChallansOK, ChallanOK, OutOnChallan
<1>2. \A i \in Invoices : BelongsTo(i, o) => OutOnInvoice(i) = 0
    <2> SUFFICES ASSUME NEW i \in Invoices, BelongsTo(i, o), invoice[i].status = "COMPLETED"
                 PROVE  FALSE
        BY DEF OutOnInvoice
    <2>1. i \in InvoicesForOrder(order, challan, invoice, o)
        BY DEF BelongsTo, InvoicesForOrder, Live
    <2> QED
        BY <2>1
<1>3. /\ [c \in Challans |-> IF challan[c].order = o THEN OutOnChallan(c) ELSE 0]
            = [c \in Challans |-> 0]
      /\ [i \in Invoices |-> IF BelongsTo(i, o) THEN OutOnInvoice(i) ELSE 0] = [i \in Invoices |-> 0]
    BY <1>1, <1>2
<1>4. Sum([c \in Challans |-> 0]) = 0 /\ Sum([i \in Invoices |-> 0]) = 0
    BY OrderSumFacts
<1> QED
    BY <1>3, <1>4 DEF Delivered

(* recompute_order_status never leaves an order converted that owes goods, *)
(* unless the goods of a challan all came back, nor can a cancelled order  *)
(* have goods out or a document that could still take them out.            *)
THEOREM StatusIsRight == Spec => []StatusFollowsDocuments
<1>1. IInv /\ OrdersOK => StatusFollowsDocuments
    BY NothingDelivered DEF OrdersOK, OrderOK, Settled, StatusFollowsDocuments
<1> QED
    BY <1>1, OrdersInductive, PTL

-----------------------------------------------------------------------------
(* Nothing is delivered twice.                                             *)

(* What is summed over challans by their bills is summed over the bills:   *)
(* by induction on the challans up to k, as a least counterexample.        *)
LEMMA SumByBills ==
    ASSUME NEW f \in [Challans -> Quantity], NEW g \in [Invoices -> Quantity],
           NEW bill \in [Challans -> Invoices \cup {NoBill}],
           \A c \in Challans : f[c] = IF bill[c] = NoBill THEN 0 ELSE g[bill[c]],
           \A c, d \in Challans : bill[c] = bill[d] /\ bill[c] # NoBill => c = d,
           \A i \in Invoices : (\A c \in Challans : bill[c] # i) => g[i] = 0
    PROVE  Sum(f) = Sum(g)
<1> DEFINE F(k) == [c \in Challans |-> IF c <= k THEN f[c] ELSE 0]
           G(k) == [i \in Invoices |-> IF \E c \in Challans : c <= k /\ bill[c] = i THEN g[i] ELSE 0]
           R == OpToRel(<, Nat)
           Bad == {k \in Nat : k <= MaxChallans /\ Sum(F(k)) # Sum(G(k))}
<1>0. /\ MaxChallans \in Nat /\ 0 \in Quantity /\ NoBill \notin Invoices
      /\ \A c \in Challans : c \in Nat /\ c > 0 /\ c <= MaxChallans
    BY StockAssumption, OrderAssumption DEF Quantity, NoBill, Invoices, Challans
<1>1. \A k \in Nat : F(k) \in [Challans -> Quantity] /\ G(k) \in [Invoices -> Quantity]
    BY <1>0
<1>2. F(MaxChallans) = f /\ G(MaxChallans) = g
    <2>1. F(MaxChallans) = f
        BY <1>0
    <2>2. \A i \in Invoices : G(MaxChallans)[i] = g[i]
        BY <1>0
    <2> QED
        BY <2>1, <2>2
<1>3. Sum(F(0)) = Sum(G(0))
    <2>1. \A c \in Challans : ~(c <= 0)
        BY <1>0
    <2>2. F(0) = [c \in Challans |-> 0] /\ G(0) = [i \in Invoices |-> 0]
        BY <2>1
    <2>3. Sum([c \in Challans |-> 0]) = 0 /\ Sum([i \in Invoices |-> 0]) = 0
        BY OrderSumFacts
    <2> QED
        BY <2>2, <2>3
<1>4. ASSUME NEW k \in Nat, k + 1 <= MaxChallans, Sum(F(k)) = Sum(G(k))
      PROVE  Sum(F(k + 1)) = Sum(G(k + 1))
    <2>0. k + 1 \in Challans /\ k + 1 \in Nat /\ ~(k + 1 <= k)
        BY <1>4 DEF Challans
    <2>1. \A c \in Challans : c # k + 1 => (c <= k + 1 <=> c <= k)
        BY <1>0
    <2>2. Sum(F(k + 1)) = Sum(F(k)) + f[k + 1]
        <3>1. /\ F(k) \in [Challans -> Quantity] /\ F(k + 1) \in [Challans -> Quantity]
              /\ \A e \in Challans : e # k + 1 => F(k + 1)[e] = F(k)[e]
              /\ F(k)[k + 1] = 0 /\ F(k + 1)[k + 1] = f[k + 1]
            BY <1>1, <2>0, <2>1
        <3> HIDE DEF F
        <3>2. Sum(F(k + 1)) = Sum(F(k)) - F(k)[k + 1] + F(k + 1)[k + 1]
            BY <2>0, <3>1, SumUpdate
        <3>3. Sum(F(k)) \in Nat
            BY <3>1, SumNat
        <3> QED
            BY <3>1, <3>2, <3>3
    <2>3. CASE bill[k + 1] = NoBill
        <3>1. \A i \in Invoices : (\E c \in Challans : c <= k + 1 /\ bill[c] = i)
                                     <=> (\E c \in Challans : c <= k /\ bill[c] = i)
            BY <1>0, <2>1, <2>3, <2>0
        <3>2. G(k + 1) = G(k)
            BY <3>1
        <3>3. f[k + 1] = 0 /\ Sum(F(k)) \in Nat
            BY <1>1, <2>0, <2>3, SumNat
        <3> HIDE DEF F, G
        <3> QED
            BY <1>4, <2>2, <3>2, <3>3
    <2>4. CASE bill[k + 1] # NoBill
        <3> DEFINE i == bill[k + 1]
        <3>1. i \in Invoices /\ f[k + 1] = g[i]
            BY <2>0, <2>4
        <3>2. \A c \in Challans : c <= k => bill[c] # i
            BY <2>0, <2>4
        <3>3. \A j \in Invoices : j # i => ((\E c \in Challans : c <= k + 1 /\ bill[c] = j)
                                              <=> (\E c \in Challans : c <= k /\ bill[c] = j))
            BY <2>0, <2>1
        <3>4. /\ G(k) \in [Invoices -> Quantity] /\ G(k + 1) \in [Invoices -> Quantity]
              /\ \A j \in Invoices : j # i => G(k + 1)[j] = G(k)[j]
              /\ G(k)[i] = 0 /\ G(k + 1)[i] = g[i]
            <4>1. G(k) \in [Invoices -> Quantity] /\ G(k + 1) \in [Invoices -> Quantity]
                BY <1>1, <2>0
            <4>2. \A j \in Invoices : j # i => G(k + 1)[j] = G(k)[j]
                BY <3>3
            <4>3. G(k)[i] = 0
                BY <3>1, <3>2
            <4>4. \E c \in Challans : c <= k + 1 /\ bill[c] = i
                BY <2>0
            <4>5. G(k + 1)[i] = g[i]
                BY <3>1, <4>4
            <4> QED
                BY <4>1, <4>2, <4>3, <4>5
        <3> HIDE DEF F, G, i
        <3>5. Sum(G(k + 1)) = Sum(G(k)) - G(k)[i] + G(k + 1)[i]
            BY <3>1, <3>4, SumUpdate
        <3>6. Sum(G(k)) \in Nat
            BY <3>4, SumNat
        <3> QED
            BY <1>4, <2>2, <3>1, <3>4, <3>5, <3>6
    <2> QED
        BY <2>3, <2>4
<1> HIDE DEF F, G
<1>5. Bad = {}
    <2> SUFFICES ASSUME Bad # {} PROVE FALSE
        OBVIOUS
    <2>1. \E x \in Bad : \A y \in Bad : ~(<<y, x>> \in R)
        <3>1. IsWellFoundedOn(R, Nat) /\ Bad \subseteq Nat
            BY NatLessThanWellFounded
        <3> HIDE DEF Bad, R
        <3> QED
            BY <3>1, WFMin
    <2>2. PICK x \in Bad : \A y \in Bad : ~(<<y, x>> \in R)
        BY <2>1
    <2>3. x \in Nat /\ x <= MaxChallans /\ Sum(F(x)) # Sum(G(x)) /\ x # 0
        BY <1>3
    <2>4. x - 1 \in Nat /\ (x - 1) + 1 = x /\ x - 1 <= MaxChallans
        BY <1>0, <2>3
    <2>5. Sum(F(x - 1)) # Sum(G(x - 1))
        BY <1>4, <2>3, <2>4
    <2>6. x - 1 \in Bad /\ <<x - 1, x>> \in R
        BY <2>3, <2>4, <2>5 DEF OpToRel
    <2> QED
        BY <2>2, <2>6
<1>6. Sum(F(MaxChallans)) = Sum(G(MaxChallans))
    BY <1>0, <1>5
<1> QED
    BY <1>2, <1>6

(* What the bill of challan c issued for order o.                          *)
BillOut(x, inv, o) ==
    IF x.order = o /\ x.status # "CANCELLED" /\ x.bill # NoBill THEN IssuedBy(inv[x.bill]) ELSE 0

(* Invoice i bills a challan of order o that was not cancelled.            *)
BilledFor(ch, o, i) == \E c \in LinkedTo(ch, i) : ch[c].order = o /\ ch[c].status # "CANCELLED"

(* The bills of an order's challans issued what they issued challan by     *)
(* challan: no two challans have the same bill.                            *)
LEMMA BillsMatch ==
    ASSUME IInv, DocumentsInv, NEW o \in Orders
    PROVE  Sum([c \in Challans |-> BillOut(challan[c], invoice, o)])
             = Sum([i \in Invoices |-> IF BilledFor(challan, o, i) THEN IssuedBy(invoice[i]) ELSE 0])
<1> DEFINE f == [c \in Challans |-> BillOut(challan[c], invoice, o)]
           g == [i \in Invoices |-> IF BilledFor(challan, o, i) THEN IssuedBy(invoice[i]) ELSE 0]
           bill == [c \in Challans |-> IF challan[c].order = o /\ challan[c].status # "CANCELLED"
                                       THEN challan[c].bill ELSE NoBill]
<1>0. /\ 0 \in Quantity /\ NoBill \notin Invoices
      /\ \A c \in Challans : challan[c].bill \in Invoices \cup {NoBill}
      /\ \A i \in Invoices : IssuedBy(invoice[i]) \in Quantity
    <2>1. 0 \in Quantity
        BY StockAssumption DEF Quantity
    <2>2. NoBill \notin Invoices
        BY DEF NoBill, Invoices
    <2>3. \A c \in Challans : challan[c].bill \in Invoices \cup {NoBill}
        BY Types DEF Challan
    <2>4. \A i \in Invoices : IssuedBy(invoice[i]) \in Quantity
        <3>1. \A i \in Invoices : invoice[i].qty \in Quantity
            BY Types DEF Invoice
        <3> QED
            BY <2>1, <3>1 DEF IssuedBy
    <2> QED
        BY <2>1, <2>2, <2>3, <2>4
<1>1. g \in [Invoices -> Quantity]
    BY <1>0
<1>2. f \in [Challans -> Quantity]
    BY <1>0 DEF BillOut
<1>3. bill \in [Challans -> Invoices \cup {NoBill}]
    BY <1>0
<1>4. \A c \in Challans : f[c] = IF bill[c] = NoBill THEN 0 ELSE g[bill[c]]
    <2> TAKE c \in Challans
    <2>1. CASE bill[c] = NoBill
        BY <2>1 DEF BillOut
    <2>2. CASE bill[c] # NoBill
        <3>1. /\ challan[c].order = o /\ challan[c].status # "CANCELLED"
              /\ bill[c] = challan[c].bill /\ challan[c].bill \in Invoices /\ challan[c].bill # NoBill
            BY <1>0, <2>2
        <3>2. BilledFor(challan, o, challan[c].bill)
            BY <3>1 DEF BilledFor, LinkedTo
        <3> QED
            BY <3>1, <3>2 DEF BillOut
    <2> QED
        BY <2>1, <2>2
<1>5. \A c, d \in Challans : bill[c] = bill[d] /\ bill[c] # NoBill => c = d
    BY DEF DocumentsInv, LinksOK, OwnBills
<1>6. \A i \in Invoices : (\A c \in Challans : bill[c] # i) => g[i] = 0
    BY DEF BilledFor, LinkedTo
<1> HIDE DEF f, g, bill
<1>7. Sum(f) = Sum(g)
    BY <1>1, <1>2, <1>3, <1>4, <1>5, <1>6, SumByBills
<1> QED
    BY <1>7 DEF f, g

(* What an order's challans and bills handed over is part of what they     *)
(* claim: a bill issues nothing that its challan posted.                   *)
LEMMA DeliveredIsTaken ==
    ASSUME IInv, DocumentsInv, NEW o \in Orders
    PROVE  Delivered(o) \in Int /\ Delivered(o) <= Taken(challan, invoice, o)
<1> DEFINE A == [c \in Challans |-> IF challan[c].order = o THEN OutOnChallan(c) ELSE 0]
           B == [i \in Invoices |-> IF BelongsTo(i, o) THEN OutOnInvoice(i) ELSE 0]
           C == [c \in Challans |-> ClaimOf(challan[c], o)]
           f == [c \in Challans |-> BillOut(challan[c], invoice, o)]
           L == [i \in Invoices |-> IF BilledFor(challan, o, i) THEN IssuedBy(invoice[i]) ELSE 0]
           S == [i \in Invoices |-> IF invoice[i].source = o THEN IssuedBy(invoice[i]) ELSE 0]
           T == [i \in Invoices |-> TakenBy(invoice[i], o)]
<1>0. /\ MaxQty \in Nat /\ 0 \in Quantity /\ NoBill \notin Invoices
      /\ challan \in [Challans -> Challan] /\ invoice \in [Invoices -> Invoice] /\ Net(challan)
    BY Types, TakenNumbers, StockAssumption DEF Quantity, NoBill, Invoices
<1>1. \A i \in Invoices : /\ IssuedBy(invoice[i]) \in Quantity
                          /\ IssuedBy(invoice[i]) <= invoice[i].qty /\ invoice[i].qty \in Quantity
    BY <1>0 DEF IssuedBy, Invoice, Quantity
<1>2. ASSUME NEW c \in Challans
      PROVE  /\ A[c] \in Quantity /\ C[c] \in Quantity /\ f[c] \in Quantity
             /\ A[c] + f[c] <= C[c]
    <2> DEFINE x == challan[c]
    <2>1. /\ x.qty \in Quantity /\ x.back \in Quantity /\ x.back <= x.qty
          /\ x.bill \in Invoices \cup {NoBill} /\ x.posted \in BOOLEAN
          /\ x.posted => x.status = "COMPLETED"
          /\ x.bill # NoBill => /\ x.status \in {"COMPLETED", "CANCELLED"}
                                /\ invoice[x.bill].qty = x.qty - x.back
                                /\ x.posted => IssuedBy(invoice[x.bill]) = 0
        BY <1>0, Types DEF Challan, ChallansOK, ChallanOK, Net, DocumentsInv, LinksOK, LinkOK
    <2>2. /\ A[c] = IF x.order = o /\ x.posted THEN x.qty - x.back ELSE 0
          /\ C[c] = IF x.order = o /\ x.status \in Live THEN x.qty - x.back ELSE 0
          /\ f[c] = IF x.order = o /\ x.status # "CANCELLED" /\ x.bill # NoBill
                    THEN IssuedBy(invoice[x.bill]) ELSE 0
        BY DEF OutOnChallan, ClaimOf, BillOut
    <2>3. x.bill # NoBill => /\ IssuedBy(invoice[x.bill]) \in Quantity
                             /\ IssuedBy(invoice[x.bill]) <= x.qty - x.back
        BY <1>1, <2>1
    <2> HIDE DEF x, A, C, f
    <2>4. x.qty \in Nat /\ x.back \in Nat /\ x.qty - x.back \in Quantity
        BY <1>0, <2>1 DEF Quantity
    <2>5. A[c] \in Quantity /\ C[c] \in Quantity /\ f[c] \in Quantity
        BY <1>0, <2>2, <2>3, <2>4
    <2>6. A[c] + f[c] <= C[c]
        <3>1. CASE x.order = o /\ x.status = "COMPLETED"
            <4>1. C[c] = x.qty - x.back
                BY <2>2, <3>1 DEF Live
            <4>2. CASE x.posted
                <5>1. A[c] = x.qty - x.back /\ f[c] = 0
                    BY <2>1, <2>2, <3>1, <4>2
                <5> QED
                    BY <2>4, <4>1, <5>1
            <4>3. CASE ~x.posted
                <5>1. A[c] = 0
                    BY <2>2, <4>3
                <5>2. f[c] = 0 \/ (x.bill # NoBill /\ f[c] = IssuedBy(invoice[x.bill]))
                    BY <2>2
                <5>3. f[c] <= x.qty - x.back /\ f[c] \in Nat
                    BY <2>3, <2>4, <5>2, <1>0, <2>5 DEF Quantity
                <5> QED
                    BY <4>1, <5>1, <5>3
            <4> QED
                BY <4>2, <4>3
        <3>2. CASE ~(x.order = o /\ x.status = "COMPLETED")
            <4>1. A[c] = 0 /\ f[c] = 0
                BY <2>1, <2>2, <3>2
            <4>2. C[c] \in Nat
                BY <1>0, <2>5 DEF Quantity
            <4> QED
                BY <4>1, <4>2
        <3> QED
            BY <3>1, <3>2
    <2> QED
        BY <2>5, <2>6
<1>3. ASSUME NEW i \in Invoices
      PROVE  /\ B[i] \in Quantity /\ L[i] \in Quantity /\ S[i] \in Quantity /\ T[i] \in Quantity
             /\ L[i] <= B[i] /\ B[i] - L[i] = S[i] /\ S[i] <= T[i]
    <2>1. B[i] = IF invoice[i].source = o \/ BilledFor(challan, o, i) THEN IssuedBy(invoice[i]) ELSE 0
        BY DEF BelongsTo, BilledFor, OutOnInvoice, IssuedBy
    <2>2. BilledFor(challan, o, i) => invoice[i].source # o
        <3>1. \A c \in Challans : challan[c].bill = i => invoice[i].source = NoOrder
            BY <1>0 DEF DocumentsInv, LinksOK, LinkOK
        <3> QED
            BY <3>1, OrderAssumption DEF BilledFor, LinkedTo
    <2>3. T[i] = IF invoice[i].source = o /\ invoice[i].status \in Live THEN invoice[i].qty ELSE 0
        BY DEF TakenBy
    <2>4. IssuedBy(invoice[i]) # 0 => invoice[i].status \in Live
        BY DEF IssuedBy, Live
    <2>5. /\ IssuedBy(invoice[i]) \in Nat /\ invoice[i].qty \in Nat
          /\ IssuedBy(invoice[i]) <= invoice[i].qty
        BY <1>0, <1>1 DEF Quantity
    <2>6. /\ L[i] = IF BilledFor(challan, o, i) THEN IssuedBy(invoice[i]) ELSE 0
          /\ S[i] = IF invoice[i].source = o THEN IssuedBy(invoice[i]) ELSE 0
        OBVIOUS
    <2> HIDE DEF B, L, S, T
    <2>7. B[i] \in Quantity /\ L[i] \in Quantity /\ S[i] \in Quantity /\ T[i] \in Quantity
        BY <1>0, <1>1, <2>1, <2>3, <2>6
    <2>8. L[i] <= B[i] /\ B[i] - L[i] = S[i]
        BY <2>1, <2>2, <2>5, <2>6
    <2>9. S[i] <= T[i]
        BY <2>3, <2>4, <2>5, <2>6
    <2> QED
        BY <2>7, <2>8, <2>9
<1>4. /\ A \in [Challans -> Quantity] /\ C \in [Challans -> Quantity] /\ f \in [Challans -> Quantity]
      /\ B \in [Invoices -> Quantity] /\ L \in [Invoices -> Quantity] /\ S \in [Invoices -> Quantity]
      /\ T \in [Invoices -> Quantity]
    BY <1>2, <1>3
<1>5. Delivered(o) = Sum(A) + Sum(B)
    BY DEF Delivered
<1>6. Taken(challan, invoice, o) = Sum(C) + Sum(T)
    <2>1. ClaimedByChallans(challan, o) = Sum(C) /\ OnInvoices(invoice, o, Live) = Sum(T)
        BY <1>0, NetSums, BillTypes DEF Claim
    <2> QED
        BY <2>1 DEF Taken
<1>7. Sum(f) = Sum(L)
    BY BillsMatch
<1>8. [i \in Invoices |-> B[i] - L[i]] = S
    BY <1>3
<1> DEFINE D == [c \in Challans |-> C[c] - A[c]]
<1>9. D \in [Challans -> Quantity] /\ \A c \in Challans : f[c] <= D[c] /\ A[c] <= C[c]
    <2>1. ASSUME NEW c \in Challans
          PROVE  D[c] \in Quantity /\ f[c] <= D[c] /\ A[c] <= C[c]
        <3>1. D[c] = C[c] - A[c]
            OBVIOUS
        <3>2. A[c] \in Quantity /\ C[c] \in Quantity /\ f[c] \in Quantity /\ A[c] + f[c] <= C[c]
            BY <1>2
        <3> HIDE DEF A, C, D, f
        <3> QED
            BY <1>0, <3>1, <3>2 DEF Quantity
    <2>2. D = [c \in Challans |-> D[c]]
        OBVIOUS
    <2> HIDE DEF D
    <2> QED
        BY <2>1, <2>2
<1> HIDE DEF A, B, C, L, S, T, f
<1>10. Sum(D) = Sum(C) - Sum(A) /\ Sum(S) = Sum(B) - Sum(L)
    <2>1. Sum([c \in Challans |-> C[c] - A[c]]) = Sum(C) - Sum(A)
        BY <1>4, <1>9, OrderSumFacts
    <2>2. Sum([i \in Invoices |-> B[i] - L[i]]) = Sum(B) - Sum(L)
        BY <1>3, <1>4, OrderSumFacts
    <2> QED
        BY <1>8, <2>1, <2>2
<1> HIDE DEF D
<1>11. Sum(f) <= Sum(D) /\ Sum(S) <= Sum(T)
    BY <1>3, <1>4, <1>9, SumMonotone
<1>12. /\ Sum(A) \in Nat /\ Sum(B) \in Nat /\ Sum(C) \in Nat /\ Sum(D) \in Nat /\ Sum(f) \in Nat
       /\ Sum(L) \in Nat /\ Sum(S) \in Nat /\ Sum(T) \in Nat
    BY <1>4, <1>9, SumNat
<1> QED
    BY <1>5, <1>6, <1>7, <1>10, <1>11, <1>12

(* The challans of an order, their bills and its own invoices never hand   *)
(* over more than was ordered, whatever was cancelled, returned, deleted   *)
(* or billed again on the way.                                             *)
THEOREM DeliveredOnce == Spec => []NotDeliveredTwice
<1>1. IInv /\ DocumentsInv => NotDeliveredTwice
    <2> SUFFICES ASSUME IInv, DocumentsInv, NEW o \in Orders
                 PROVE  Delivered(o) <= Ordered[o]
        BY DEF NotDeliveredTwice
    <2>1. Delivered(o) <= Taken(challan, invoice, o)
        BY DeliveredIsTaken
    <2>2. Taken(challan, invoice, o) <= Ordered[o] /\ Taken(challan, invoice, o) \in Nat /\ Ordered[o] \in Nat
        BY TakenNumbers
    <2>3. Delivered(o) \in Int
        BY DeliveredIsTaken
    <2> QED
        BY <2>1, <2>2, <2>3
<1> QED
    BY <1>1, DocumentsInductive, PTL

=============================================================================
