---------------------------- MODULE ReceiptOutbox ----------------------------
(***************************************************************************)
(* The offline receipt outbox of the web client                            *)
(* (web/src/offline/receiptOutbox.ts, pages/sales/useReceiptOutbox.ts and  *)
(* the save button of NewReceiptDialog.tsx) composed with the server's     *)
(* claim protocol (Idempotency).  Tabs of one browser share one IndexedDB  *)
(* store and each runs its own flush loop; requests travel to the server   *)
(* and outlive the tab that gave up on them.                               *)
(*                                                                         *)
(* The 30 day prune is left to Idempotency: here time does not pass.       *)
(***************************************************************************)
EXTENDS Idempotency

CONSTANTS
    Tabs,         \* browser tabs on the receipts page
    NoRequest,    \* a tab that is not waiting for the server
    Body,         \* Body[k]: the fingerprint of the receipt queued as k
    Losses,       \* may a tab lose the answer of a request (timeout, network)?
    Overtaking,   \* may it give up on a request that has not claimed its key yet?
    Switches      \* may the user switch company?

ASSUME OutboxAssumption ==
    /\ Body \in [Keys -> Prints]
    /\ NoRequest \notin Requests
    /\ Losses \in BOOLEAN /\ Overtaking \in BOOLEAN /\ Switches \in BOOLEAN

VARIABLES
    outbox,     \* the IndexedDB store in queuedAt order: [id, status] rows
    tab,        \* tab[t]: where the flush loop of t is, and its snapshot
    shown,      \* shown[t]: receipts t lists as "needs attention"
    fresh,      \* keys of gestures not made yet
    discarded,  \* keys a person discarded
    server,     \* the user's active company on the server
    local       \* the active company id in the browser's local storage

device == <<outbox, tab, shown, fresh, discarded, server, local>>

(* The flush loop: "start" when a retry asked for it, "loop" over the      *)
(* snapshot, "dispatch" while the request waits for its CSRF cookie,       *)
(* "wait" for the answer, then the write of the result to the store.       *)
(* "saving" is the dialog's own first send, "keep" its write to the store  *)
(* when the answer never arrived.                                          *)

Companies == {"own", "other"}

Queued(k) == \E i \in 1 .. Len(outbox) : outbox[i] = [id |-> k, status |-> "queued"]

InStore(k) == \E i \in 1 .. Len(outbox) : outbox[i].id = k

(* The rows at the given positions, in order.  (SelectSeq, in a form the   *)
(* provers can reason about.)                                              *)
Picked(s, positions) ==
    LET picked[i \in 0 .. Len(s)] ==
            IF i = 0 THEN <<>>
            ELSE IF i \in positions THEN Append(picked[i - 1], s[i]) ELSE picked[i - 1]
    IN  picked[Len(s)]

Without(k) == Picked(outbox, {i \in 1 .. Len(outbox) : outbox[i].id # k})

WithStatus(k, s) ==
    [i \in 1 .. Len(outbox) |-> IF outbox[i].id = k THEN [outbox[i] EXCEPT !.status = s] ELSE outbox[i]]

NeedsAttention(box) == {box[i].id : i \in {j \in 1 .. Len(box) : box[j].status = "conflict"}}

QueuedIds == LET rest == Picked(outbox, {i \in 1 .. Len(outbox) : outbox[i].status = "queued"})
             IN  [i \in 1 .. Len(rest) |-> rest[i].id]

NoKey == NoRequest

IdleTab == [at |-> "idle", rows |-> <<>>, id |-> NoKey, req |-> NoRequest]

OutboxInit ==
    /\ Init
    /\ outbox = <<>>
    /\ tab = [t \in Tabs |-> IdleTab]
    /\ shown = [t \in Tabs |-> {}]
    /\ fresh = Keys
    /\ discarded = {}
    /\ server = "own"
    /\ local = "own"

-----------------------------------------------------------------------------
Move(t, step) == tab' = [tab EXCEPT ![t].at = step]

(* The loop ends and the tab reads the store again (setItems).             *)
Finished(t) ==
    /\ tab' = [tab EXCEPT ![t] = IdleTab]
    /\ shown' = [shown EXCEPT ![t] = NeedsAttention(outbox)]

(* queueReceipt: a put under the key, last in queuedAt order; the page     *)
(* then reads the store again (onQueued, refresh).                         *)
QueueReceipt(t, k) ==
    /\ outbox' = Append(Without(k), [id |-> k, status |-> "queued"])
    /\ shown' = [shown EXCEPT ![t] = NeedsAttention(outbox')]

(* The cashier saves while the browser knows it is offline.                *)
SaveOffline(t, k) ==
    /\ k \in fresh
    /\ local = "own"
    /\ QueueReceipt(t, k)
    /\ fresh' = fresh \ {k}
    /\ UNCHANGED <<tab, discarded, server, local, vars>>

(* The cashier saves online: one request under a new key.  A tab is either *)
(* in its dialog or in its flush loop; a dialog open beside a running      *)
(* flush counts as another member of Tabs.                                 *)
SaveOnline(t, k, r) ==
    /\ tab[t].at = "idle"
    /\ k \in fresh
    /\ local = "own" /\ server = "own"
    /\ Submit(r, k, Body[k])
    /\ tab' = [tab EXCEPT ![t] = [at |-> "saving", rows |-> <<>>, id |-> k, req |-> r]]
    /\ fresh' = fresh \ {k}
    /\ UNCHANGED <<outbox, shown, discarded, server, local>>

(* The dialog has its answer, good or bad: the gesture and its key are     *)
(* over.                                                                   *)
SaveAnswered(t) ==
    /\ tab[t].at = "saving"
    /\ Deliver(tab[t].req)
    /\ tab' = [tab EXCEPT ![t] = IdleTab]
    /\ UNCHANGED <<outbox, shown, fresh, discarded, server, local>>

(* No answer arrived, so the receipt is kept under the key it was sent     *)
(* with.                                                                   *)
KeepUnanswered(t) ==
    /\ tab[t].at = "keep"
    /\ QueueReceipt(t, tab[t].id)
    /\ tab' = [tab EXCEPT ![t] = IdleTab]
    /\ UNCHANGED <<fresh, discarded, server, local, vars>>

(* flushReceiptOutbox reads the queue once, oldest first.  busy.current    *)
(* lets a tab run one flush at a time; other tabs run their own.           *)
StartFlush(t) ==
    /\ tab[t].at = "start" \/ (tab[t].at = "idle" /\ outbox # <<>>)
    /\ tab' = [tab EXCEPT ![t] = [at |-> "loop", rows |-> QueuedIds, id |-> NoKey, req |-> NoRequest]]
    /\ UNCHANGED <<outbox, shown, fresh, discarded, server, local, vars>>

(* The next row of the snapshot, unless the company has changed.           *)
NextRow(t) ==
    /\ tab[t].at = "loop"
    /\ \/ /\ tab[t].rows = <<>> \/ local # "own"
          /\ Finished(t)
       \/ /\ tab[t].rows # <<>> /\ local = "own"
          /\ tab' = [tab EXCEPT ![t] = [at |-> "dispatch", rows |-> Tail(@.rows),
                                        id |-> Head(@.rows), req |-> @.req]]
          /\ shown' = shown
    /\ UNCHANGED <<outbox, fresh, discarded, server, local, vars>>

(* Mutant: the row leaves the store before the server has answered.        *)
Dispatch_RemovesFirst(t, r) ==
    /\ tab[t].at = "dispatch"
    /\ local = "own" /\ server = "own"
    /\ Submit(r, tab[t].id, Body[tab[t].id])
    /\ tab' = [tab EXCEPT ![t] = [at |-> "wait", rows |-> @.rows, id |-> @.id, req |-> r]]
    /\ outbox' = Without(tab[t].id)
    /\ UNCHANGED <<shown, fresh, discarded, server, local>>

(* The request leaves with the company id stored now.  A server on another *)
(* company than the header, or both on another company (whose customers    *)
(* do not include this one), refuses without touching the key.             *)
Dispatch(t, r) ==
    /\ tab[t].at = "dispatch"
    /\ \/ /\ local = "own" /\ server = "own"
          /\ Submit(r, tab[t].id, Body[tab[t].id])
          /\ tab' = [tab EXCEPT ![t] = [at |-> "wait", rows |-> @.rows, id |-> @.id, req |-> r]]
       \/ /\ local = "other" \/ server = "other"
          /\ Move(t, "refuse")
          /\ UNCHANGED vars
    /\ UNCHANGED <<outbox, shown, fresh, discarded, server, local>>

(* Mutant: every 409 counts as a refusal.                                  *)
Refusals_AnyConflict == {"refused", "reused_422", "transient", "in_flight_409"}

(* isDeterministicRefusal: a 4xx is a refusal, except 408, 429 and the 409 *)
(* of a key in flight.  The server's transient answers are 429s and 4xxs.  *)
Refusals == {"refused", "reused_422", "transient"}
Stops == {"in_flight_409", "fault", "transient"}

Receive(t) ==
    /\ tab[t].at = "wait"
    /\ \/ /\ out[tab[t].req] = "ok"
          /\ Move(t, "remove")
          /\ shown' = shown
       \/ /\ out[tab[t].req] \in Refusals
          /\ Move(t, "refuse")
          /\ shown' = shown
       \/ /\ out[tab[t].req] \in Stops
          /\ Finished(t)
    /\ Deliver(tab[t].req)
    /\ UNCHANGED <<outbox, fresh, discarded, server, local>>

(* removeQueuedReceipt after a success.                                    *)
Remove(t) ==
    /\ tab[t].at = "remove"
    /\ outbox' = Without(tab[t].id)
    /\ Move(t, "loop")
    /\ UNCHANGED <<shown, fresh, discarded, server, local, vars>>

(* Mutant: a refused receipt stays queued.                                 *)
Refuse_LeavesQueued(t) ==
    /\ tab[t].at = "refuse"
    /\ Move(t, "loop")
    /\ UNCHANGED <<outbox, shown, fresh, discarded, server, local, vars>>

(* updateQueued after a refusal: only a row that is still there changes.   *)
Refuse(t) ==
    /\ tab[t].at = "refuse"
    /\ outbox' = WithStatus(tab[t].id, "conflict")
    /\ Move(t, "loop")
    /\ UNCHANGED <<shown, fresh, discarded, server, local, vars>>

(* A tab whose request gets no answer: the flush stops, the dialog keeps   *)
(* the receipt.                                                            *)
Unanswered(t) ==
    \/ tab[t].at = "wait" /\ Finished(t)
    \/ tab[t].at = "saving" /\ Move(t, "keep") /\ shown' = shown

(* Unless Overtaking, a tab gives up (after a minute) only on a request    *)
(* that the server has by then answered or let work under the key, so no   *)
(* later send of the same key can overtake it.                             *)
MayAbandon(t) ==
    tab[t].at \in {"wait", "saving"}
        => Overtaking \/ pc[tab[t].req] \notin {"begin", "lookup", "insert"}

(* Timeout or network loss: the request itself lives on.                   *)
LoseAnswer(t) ==
    /\ Losses
    /\ tab[t].at \in {"wait", "saving"}
    /\ MayAbandon(t)
    /\ Unanswered(t)
    /\ UNCHANGED <<outbox, fresh, discarded, server, local, vars>>

Waiting(t, r) == tab[t].at \in {"wait", "saving"} /\ tab[t].req = r

(* The worker dies and its connection with it.                             *)
WorkerDies(r) ==
    /\ Crash(r)
    /\ \/ /\ \A t \in Tabs : ~Waiting(t, r)
          /\ UNCHANGED <<tab, shown>>
       \/ \E t \in Tabs : Waiting(t, r) /\ Unanswered(t)
    /\ UNCHANGED <<outbox, fresh, discarded, server, local>>

(* The answer of a request nobody waits for any more.                      *)
Unheard(r) ==
    /\ \A t \in Tabs : ~Waiting(t, r)
    /\ Deliver(r)
    /\ UNCHANGED device

(* The tab is closed or reloaded in the middle of anything.                *)
Reload(t) ==
    /\ Losses
    /\ tab[t].at # "idle"
    /\ MayAbandon(t)
    /\ Finished(t)
    /\ UNCHANGED <<outbox, fresh, discarded, server, local, vars>>

(* retry: retryQueuedReceipt from a list that may be out of date, then a   *)
(* flush unless one is running.                                            *)
RetryQueued(t, k) ==
    /\ k \in shown[t]
    /\ outbox' = WithStatus(k, "queued")
    /\ IF tab[t].at = "idle" THEN Move(t, "start") ELSE tab' = tab
    /\ UNCHANGED <<shown, fresh, discarded, server, local, vars>>

(* The person throws a refused receipt away.                               *)
Discard(t, k) ==
    /\ k \in shown[t]
    /\ outbox' = Without(k)
    /\ discarded' = IF InStore(k) THEN discarded \cup {k} ELSE discarded
    /\ shown' = [shown EXCEPT ![t] = NeedsAttention(outbox')]
    /\ UNCHANGED <<tab, fresh, server, local, vars>>

(* useCompanySwitcher: the server switches first, local storage after its  *)
(* answer.                                                                 *)
SwitchCompany ==
    /\ Switches
    /\ \/ /\ server = local
          /\ server' \in Companies \ {server}
          /\ local' = local
       \/ /\ server # local
          /\ local' = server
          /\ server' = server
    /\ UNCHANGED <<outbox, tab, shown, fresh, discarded, vars>>

ServerStep(r) ==
    /\ Claim(r) \/ (\E o \in Outcomes : Build(r, o)) \/ Settle(r)
    /\ UNCHANGED device

TabStep(t) ==
    \/ SaveAnswered(t) \/ KeepUnanswered(t)
    \/ NextRow(t) \/ (\E r \in Requests : Dispatch(t, r))
    \/ Receive(t) \/ Remove(t) \/ Refuse(t)

OutboxNext ==
    \/ \E t \in Tabs :
          \/ StartFlush(t) \/ TabStep(t) \/ LoseAnswer(t) \/ Reload(t)
          \/ \E k \in Keys : \/ SaveOffline(t, k) \/ RetryQueued(t, k) \/ Discard(t, k)
                              \/ \E r \in Requests : SaveOnline(t, k, r)
    \/ \E r \in Requests : ServerStep(r) \/ WorkerDies(r) \/ Unheard(r)
    \/ SwitchCompany

allVars == <<vars, device>>

OutboxSpec == OutboxInit /\ [][OutboxNext]_allVars

-----------------------------------------------------------------------------
(* The outbox keeps the promise of ReceiptOnce: each receipt is posted at  *)
(* most once however often it is sent, and leaves the device only when     *)
(* posted or discarded by a person (flushReceiptOutbox, the server's       *)
(* create with its Idempotency-Key).                                       *)
Promise == INSTANCE ReceiptOnce WITH
    Receipts <- Keys,
    kept <- {outbox[i].id : i \in 1 .. Len(outbox)},
    posted <- [k \in Keys |-> Len(effects[k])],
    dropped <- discarded

KeepsPromise == Promise!Spec

(* A receipt listed as "needs attention" has not been posted: a person     *)
(* will discard it or enter it again (the refusal branch of the flush).    *)
AttentionMeansUnposted ==
    \A i \in 1 .. Len(outbox) : outbox[i].status = "conflict" => effects[outbox[i].id] = <<>>

(* While no worker dies, every queued receipt is sent or set aside, though *)
(* answers are lost, tabs reload and the server fails some attempts.       *)
QueueDrains == \A k \in Keys : Queued(k) ~> ~Queued(k)

(* Requests and loops go on; the page is opened or comes back online again *)
(* and again; the server does not fail every attempt at a receipt.         *)
OutboxFairness ==
    /\ \A r \in Requests : WF_allVars(ServerStep(r)) /\ WF_allVars(Unheard(r))
    /\ \A t \in Tabs : WF_allVars(TabStep(t)) /\ WF_allVars(StartFlush(t))
    /\ \A k \in Keys :
          SF_allVars(\E r \in Requests : /\ key[r] = k
                                         /\ \E o \in {"ok", "refused"} : Build(r, o)
                                         /\ UNCHANGED device)

(* Answers are lost and tabs reloaded finitely often.  (A step of the loop *)
(* may look like a reload: the end of a flush.)                            *)
FewLosses == <>[][\A t \in Tabs : LoseAnswer(t) \/ Reload(t) => TabStep(t)]_allVars

FairOutbox == OutboxSpec /\ OutboxFairness /\ FewLosses

=============================================================================
