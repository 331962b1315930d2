----------------------------- MODULE ReceiptOnce -----------------------------
(***************************************************************************)
(* What the offline receipt outbox promises the cashier: a receipt kept on *)
(* the device is posted at most once, and leaves the device only after it  *)
(* has been posted or a person has thrown it away.                         *)
(***************************************************************************)
EXTENDS Naturals

CONSTANT Receipts

VARIABLES
    kept,      \* receipts on the device
    posted,    \* posted[k]: how many receipts the server has posted for k
    dropped    \* receipts a person discarded

vars == <<kept, posted, dropped>>

Init ==
    /\ kept = {}
    /\ posted = [k \in Receipts |-> 0]
    /\ dropped = {}

(* The cashier records a receipt; an earlier online attempt may already    *)
(* have posted it.                                                         *)
Keep(k) ==
    /\ k \notin kept
    /\ kept' = kept \cup {k}
    /\ UNCHANGED <<posted, dropped>>

Post(k) ==
    /\ posted[k] = 0
    /\ posted' = [posted EXCEPT ![k] = 1]
    /\ UNCHANGED <<kept, dropped>>

Sent(k) ==
    /\ k \in kept
    /\ posted[k] = 1
    /\ kept' = kept \ {k}
    /\ UNCHANGED <<posted, dropped>>

Discard(k) ==
    /\ k \in kept
    /\ kept' = kept \ {k}
    /\ dropped' = dropped \cup {k}
    /\ UNCHANGED posted

Next == \E k \in Receipts : Keep(k) \/ Post(k) \/ Sent(k) \/ Discard(k)

Spec == Init /\ [][Next]_vars

=============================================================================
