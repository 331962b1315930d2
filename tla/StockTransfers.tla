--------------------------- MODULE StockTransfers ---------------------------
(***************************************************************************)
(* Transfers between godowns (backend/inventory/services.py,               *)
(* StockTransferService).  Goods leave the source into the godown in       *)
(* transit, and from there reach the destination; what a receipt finds     *)
(* missing stays in transit until it is written off or sent back.          *)
(*                                                                         *)
(* A transfer has one line.  Dispatching or receiving again is answered    *)
(* without a change.  The period gates can only refuse and are left out.   *)
(***************************************************************************)
EXTENDS StockBalance

CONSTANT Transfers

ASSUME TransferAssumption == IsFiniteSet(Transfers)

VARIABLE transfer    \* transfer[t]: the StockTransfer and its line

Route == {r \in (Godowns \ {Transit}) \X (Godowns \ {Transit}) : r[1] # r[2]}

Transfer == [status : {"NONE", "DRAFT", "DISPATCHED", "COMPLETED", "CANCELLED"},
             from : Godowns, to : Godowns, qty : 0 .. MaxQty, received : 0 .. MaxQty,
             short : 0 .. MaxQty, settled : {"open", "WRITE_OFF", "RETURN"}]

NoTransfer == [status |-> "NONE", from |-> Transit, to |-> Transit, qty |-> 0, received |-> 0,
               short |-> 0, settled |-> "open"]

DraftTransfer(r, q) == [status |-> "DRAFT", from |-> r[1], to |-> r[2], qty |-> q, received |-> 0,
                        short |-> 0, settled |-> "open"]

TransferInit == transfer = [t \in Transfers |-> NoTransfer]

OpenShortage(x) == x.status = "COMPLETED" /\ x.settled = "open" /\ x.short > 0

Draft(t, r, q) ==
    /\ transfer[t].status = "NONE"
    /\ q > 0
    /\ transfer' = [transfer EXCEPT ![t] = DraftTransfer(r, q)]
    /\ UNCHANGED stock

Dispatch(t) ==
    LET x == transfer[t] IN
    /\ x.status = "DRAFT"
    /\ Enough(balance, x.from, x.qty)
    /\ balance' = Move(Move(balance, x.from, -x.qty), Transit, x.qty)
    /\ transfer' = [transfer EXCEPT ![t].status = "DISPATCHED"]
    /\ UNCHANGED adjusted

(* n arrived; the stock check in transit is for the whole line.            *)
Receive(t, n) ==
    LET x == transfer[t] IN
    /\ x.status = "DISPATCHED"
    /\ n <= x.qty
    /\ Enough(balance, Transit, x.qty)
    /\ balance' = Move(Move(balance, Transit, -n), x.to, n)
    /\ transfer' = [transfer EXCEPT ![t].status = "COMPLETED", ![t].received = n,
                                    ![t].short = x.qty - n]
    /\ UNCHANGED adjusted

(* Books the loss once a second person approved it; until then nothing     *)
(* changes.  The negative-stock check is skipped.                          *)
WriteOff(t) ==
    LET x == transfer[t] IN
    /\ OpenShortage(x)
    /\ balance' = Move(balance, Transit, -x.short)
    /\ transfer' = [transfer EXCEPT ![t].settled = "WRITE_OFF"]
    /\ UNCHANGED adjusted

SendBack(t) ==
    LET x == transfer[t] IN
    /\ OpenShortage(x)
    /\ Enough(balance, Transit, x.short)
    /\ balance' = Move(Move(balance, Transit, -x.short), x.from, x.short)
    /\ transfer' = [transfer EXCEPT ![t].settled = "RETURN"]
    /\ UNCHANGED adjusted

CancelDraft(t) ==
    /\ transfer[t].status = "DRAFT"
    /\ transfer' = [transfer EXCEPT ![t].status = "CANCELLED"]
    /\ UNCHANGED stock

CancelTransfer_WholeLine(t) ==
    LET x == transfer[t]
        arrivedAt == IF x.status = "COMPLETED" THEN x.to ELSE Transit
        arrived == IF x.status = "COMPLETED" THEN x.received ELSE x.qty
        open == IF OpenShortage(x) THEN x.short ELSE 0
        taken == Move(Move(balance, x.from, x.qty), arrivedAt, -arrived)
    IN
    /\ x.status \in {"DISPATCHED", "COMPLETED"}
    /\ arrived > 0
    /\ Enough(balance, arrivedAt, arrived)
    /\ balance' = Move(taken, Transit, -open)
    /\ transfer' = [transfer EXCEPT ![t].status = "CANCELLED"]
    /\ UNCHANGED adjusted

(* The source gets back what was dispatched less a settled shortage; what  *)
(* arrived is taken from where it arrived, an open shortage from transit.  *)
(* Without an arrival there is no TRANSFER_IN to reverse: refused.         *)
CancelTransfer(t) ==
    LET x == transfer[t]
        arrivedAt == IF x.status = "COMPLETED" THEN x.to ELSE Transit
        arrived == IF x.status = "COMPLETED" THEN x.received ELSE x.qty
        settledShort == IF x.settled = "open" THEN 0 ELSE x.short
        open == IF OpenShortage(x) THEN x.short ELSE 0
        atSource == Move(balance, x.from, x.qty - settledShort)
        taken == Move(atSource, arrivedAt, -arrived)
    IN
    /\ x.status \in {"DISPATCHED", "COMPLETED"}
    /\ arrived > 0
    /\ Enough(atSource, arrivedAt, arrived)
    /\ open > 0 => Enough(taken, Transit, open)
    /\ balance' = Move(taken, Transit, -open)
    /\ transfer' = [transfer EXCEPT ![t].status = "CANCELLED"]
    /\ UNCHANGED adjusted

TransferNext ==
    \E t \in Transfers :
        \/ \E r \in Route, q \in 1 .. MaxQty : Draft(t, r, q)
        \/ Dispatch(t)
        \/ \E n \in 0 .. MaxQty : Receive(t, n)
        \/ WriteOff(t)
        \/ SendBack(t)
        \/ CancelDraft(t)
        \/ CancelTransfer(t)

-----------------------------------------------------------------------------
(* What the movements of a transfer add up to in godown w.                 *)
AtSource(x) ==
    CASE x.status = "DISPATCHED" -> -x.qty
      [] x.status = "COMPLETED"  -> IF x.settled = "RETURN" THEN x.short - x.qty ELSE -x.qty
      [] x.status = "CANCELLED"  -> IF x.settled = "WRITE_OFF" THEN -x.short ELSE 0
      [] OTHER -> 0

OnTheRoad(x) ==
    CASE x.status = "DISPATCHED" -> x.qty
      [] OpenShortage(x) -> x.short
      [] OTHER -> 0

AtDestination(x) == IF x.status = "COMPLETED" THEN x.received ELSE 0

Carried(x, w) ==
    IF w = Transit THEN OnTheRoad(x)
    ELSE IF w = x.from THEN AtSource(x)
    ELSE IF w = x.to THEN AtDestination(x)
    ELSE 0

Transferred(w) == Sum([t \in Transfers |-> Carried(transfer[t], w)])

=============================================================================
