------------------------------- MODULE Gateway -------------------------------
(***************************************************************************)
(* Online payments (backend/payments): a customer pays a payment link at   *)
(* the provider, the provider's webhooks book the capture as a receipt or  *)
(* park it, parked captures are retried or refunded, and refunds go        *)
(* through an outbox with a stable key.                                    *)
(*                                                                         *)
(* One link for one invoice.  An action is one database transaction or one *)
(* provider call.  Between two of them any handler, worker, beat job or    *)
(* member of staff may step, and a handler or a worker may die.            *)
(*                                                                         *)
(* The provider, its webhooks and the clock are the environment.  A refund *)
(* is known to the provider by its idempotency key, and its refund id is   *)
(* one to one with the key.  GATEWAY_HOLDING_STATE is on, as by default.   *)
(* Journals are those of Money In and are not repeated here.               *)
(***************************************************************************)
EXTENDS FiniteSets, Sums

CONSTANTS
    Payments,      \* provider payment ids made on the link
    Amount,        \* Amount[p]: what the customer pays with p
    LinkAmount,    \* amount of the link
    Bill,          \* open balance of the invoice when the link was made
    AllowPartial,  \* the link's allow_partial
    Captures,      \* ids of the events the provider sends for one capture
    Partials,      \* partial refunds that staff may ask for
    RefundEvents,  \* does the provider send refund.processed?
    LateCaptures,  \* may a capture be finalized after its refund?
    Handlers,      \* webhook requests in progress
    Workers,       \* refund requests and refund tasks in progress
    None,          \* no payment, no reason
    MaxSeq,        \* bound: refunds that staff start per payment
    MaxAttempts,   \* MAX_REFUND_ATTEMPTS
    MaxReplays,    \* attempts at which a dead letter is discarded
    MaxTrouble     \* bound: faults and interventions in one behaviour

(* A refund is known by its key: the per-payment sequence (0 for the       *)
(* automatic refund of a parked capture, whose key has none) and amount.   *)
Seqs == 0 .. MaxSeq
Asked == Partials \cup {Amount[p] : p \in Payments}
RefundKeys == Seqs \X Asked

ASSUME GatewayAssumption ==
    /\ LinkAmount \in Nat /\ Bill \in Nat
    /\ Amount \in [Payments -> Nat \ {0}]
    /\ Partials \subseteq Nat \ {0}
    /\ IsFiniteSet(Payments) /\ IsFiniteSet(Partials)
    /\ {AllowPartial, RefundEvents, LateCaptures} \subseteq BOOLEAN
    /\ MaxSeq \in Nat /\ MaxAttempts \in Nat /\ MaxReplays \in Nat /\ MaxTrouble \in Nat
    /\ None \notin Payments

VARIABLES
    gp,        \* gp[p]: the GatewayPayment row of p
    link,      \* the PaymentLink
    invoice,   \* is the invoice cancelled, and what else has paid it
    receipt,   \* receipt[p]: the CustomerReceipt with the UTR of p
    outbox,    \* outbox[p][k]: the GatewayRefundOutbox row
    seen,      \* ProcessedWebhookEvent: events marked as processed
    dead,      \* dead[p]: the DeadLetterEvent of p
    open,      \* does the period allow money entries?
    paid,      \* provider: payments captured
    refunded,  \* refunded[p]: provider: keys of the refunds it has made
    hook,      \* hook[h]: where the webhook request is
    job,       \* job[w]: where the refund request or task is
    booked,    \* booked[p]: receipts ever posted for p
    released,  \* released[p]: allocated money taken back by refunds of p
    acked,     \* payments whose capture was answered with a 2xx
    trouble    \* faults and interventions so far

provider == <<paid, refunded>>
threads == <<hook, job>>
events == <<seen, dead, acked>>
books == <<receipt, booked, released>>
vars == <<gp, link, invoice, receipt, outbox, seen, dead, open, paid, refunded,
          hook, job, booked, released, acked, trouble>>

Lesser(m, n) == IF m < n THEN m ELSE n
Minus(m, n) == IF m < n THEN 0 ELSE m - n

(* The refund bookkeeping kept in raw_payload.                             *)
NoRaw == [keys |-> {}, partials |-> 0, unwound |-> FALSE, seq |-> 0]
NoRow == [status |-> "NONE", reason |-> None, raw |-> NoRaw]
NoRefund == [status |-> "NONE", attempts |-> 0]
NoEvent == [kind |-> "none", pay |-> None, id |-> None]
Idle == [pc |-> "idle", event |-> NoEvent, saw |-> "NONE"]
NoJob == [pc |-> "idle", by |-> "none", pay |-> None, key |-> <<0, 0>>, full |-> FALSE, row |-> NoRow]

CapturedLike == {"CAPTURED", "CAPTURED_PENDING_BOOKS"}
Refundable == CapturedLike \cup {"PARTIALLY_REFUNDED"}
Accounted == Refundable \cup {"REFUNDED"}

(* _TERMINAL_HOLDING_REASONS                                               *)
Terminal == {"INVOICE_CANCELLED", "LINK_CANCELLED", "AMOUNT_MISMATCH", "ALREADY_PAID", "LINK_EXPIRED", "NO_LINK"}

ASSUME NoReasonAssumption == None \notin Terminal \cup {"PERIOD_LOCKED", "UTR_CLASH"}

Init ==
    /\ gp = [p \in Payments |-> NoRow]
    /\ link = [status |-> "SENT", paid |-> None, past |-> FALSE]
    /\ invoice = [cancelled |-> FALSE, other |-> 0]
    /\ receipt = [p \in Payments |-> [state |-> "none", alloc |-> 0]]
    /\ outbox = [p \in Payments |-> [k \in RefundKeys |-> NoRefund]]
    /\ seen = {}
    /\ dead = [p \in Payments |-> [state |-> "none", attempts |-> 0]]
    /\ open = TRUE
    /\ paid = {}
    /\ refunded = [p \in Payments |-> {}]
    /\ hook = [h \in Handlers |-> Idle]
    /\ job = [w \in Workers |-> NoJob]
    /\ booked = [p \in Payments |-> 0]
    /\ released = [p \in Payments |-> 0]
    /\ acked = {}
    /\ trouble = 0

-----------------------------------------------------------------------------
(* What the services look up.                                              *)
Allocated == Sum([p \in Payments |-> receipt[p].alloc])

Outstanding == IF invoice.cancelled THEN 0 ELSE Minus(Bill, Allocated + invoice.other)

Prior(p) == Sum([q \in Payments |-> IF q # p /\ gp[q].status \in CapturedLike THEN Amount[q] ELSE 0])

Remaining(p, raw) == Minus(Amount[p], raw.partials)

SentBack(p) == Sum([k \in RefundKeys |-> IF k \in refunded[p] THEN k[2] ELSE 0])

Live(p) == receipt[p].state = "posted"

-----------------------------------------------------------------------------
(* finalize_gateway_payment.                                               *)

WrongAmount(p) ==
    \/ ~AllowPartial /\ Amount[p] < LinkAmount
    \/ Amount[p] + Prior(p) > LinkAmount

(* Mutant: the status of the invoice is not looked up.                     *)
HoldReason_DeadBill(p) ==
    IF link.status = "CANCELLED" THEN "LINK_CANCELLED"
    ELSE IF link.status = "PAID" THEN "ALREADY_PAID"
    ELSE IF ~open THEN "PERIOD_LOCKED"
    ELSE None

(* Why the capture cannot be booked, in the order of the code; None if it  *)
(* can.  A hold that is retried skips the checks of the link.              *)
HoldReason(p) ==
    LET retrying == gp[p].status = "CAPTURED_PENDING_BOOKS" IN
    IF link.status = "CANCELLED" /\ ~retrying THEN "LINK_CANCELLED"
    ELSE IF invoice.cancelled THEN "INVOICE_CANCELLED"
    ELSE IF link.status = "PAID" /\ link.paid # None THEN "ALREADY_PAID"
    ELSE IF ~retrying /\ link.past /\ link.status \notin {"PAID", "PARTIALLY_PAID"} THEN "LINK_EXPIRED"
    ELSE IF ~retrying /\ WrongAmount(p) THEN "AMOUNT_MISMATCH"
    ELSE IF receipt[p].state \in {"none", "refunded"} /\ ~open THEN "PERIOD_LOCKED"
    ELSE None

(* A receipt with this UTR for another amount: the whole finalize raises.  *)
Clashes(p) == receipt[p].state = "clashing"

Parked(p, reason, raw) == [gp EXCEPT ![p] = [status |-> "CAPTURED_PENDING_BOOKS", reason |-> reason, raw |-> raw]]

Hold(p, raw) ==
    LET reason == HoldReason(p) IN
    /\ reason # None
    /\ gp' = Parked(p, reason, raw)
    /\ link' = IF reason = "LINK_EXPIRED" THEN [link EXCEPT !.status = "EXPIRED"] ELSE link
    /\ UNCHANGED books

(* What allocate_receipt lets through, had being allocated already.  A     *)
(* second live row of the receipt for the invoice breaks a constraint.     *)
Allocates(p, had, x) == open /\ x \in 1 .. Amount[p] - had

(* Mutant: a receipt that is there is not looked for.                      *)
Book_NoAdopt(p, raw) ==
    /\ HoldReason(p) = None /\ ~Clashes(p)
    /\ receipt' = [receipt EXCEPT ![p] = [state |-> "posted", alloc |-> 0]]
    /\ booked' = [booked EXCEPT ![p] = @ + 1]
    /\ gp' = [gp EXCEPT ![p] = [status |-> "CAPTURED", reason |-> None, raw |-> raw]]
    /\ link' = [link EXCEPT !.status = "PARTIALLY_PAID", !.paid = p]
    /\ UNCHANGED released

(* The receipt is made or adopted, allocated, and the link moves on.       *)
Book(p, raw) ==
    LET fresh == receipt[p].state \in {"none", "refunded"}
        had == IF fresh THEN 0 ELSE receipt[p].alloc
        want == Lesser(Amount[p], Outstanding)
        done == Allocates(p, had, want)
        full == Prior(p) + Amount[p] >= LinkAmount /\ (done \/ want = 0)
    IN  /\ HoldReason(p) = None /\ ~Clashes(p)
        /\ ~(done /\ had > 0)
        /\ receipt' = [receipt EXCEPT ![p] = [state |-> "posted", alloc |-> IF done THEN had + want ELSE had]]
        /\ booked' = [booked EXCEPT ![p] = IF fresh THEN @ + 1 ELSE @]
        /\ gp' = [gp EXCEPT ![p] = [status |-> "CAPTURED", reason |-> None, raw |-> raw]]
        /\ link' = [link EXCEPT !.status = IF full THEN "PAID" ELSE "PARTIALLY_PAID",
                                !.paid = IF full \/ @ = None THEN p ELSE @]
        /\ UNCHANGED released

(* A capture that is booked already: only a missing allocation is retried. *)
Recapture(p) ==
    LET want == Lesser(Amount[p] - receipt[p].alloc, Outstanding) IN
    /\ receipt' = IF Live(p) /\ receipt[p].alloc = 0 /\ Allocates(p, 0, want)
                  THEN [receipt EXCEPT ![p].alloc = want]
                  ELSE receipt
    /\ UNCHANGED <<gp, link, booked, released>>

(* Without LateCaptures nobody works on a capture once it is refunded.     *)
Timely(p) == LateCaptures \/ gp[p].status \notin {"REFUNDED", "PARTIALLY_REFUNDED"}

(* raw is what the caller hands over as raw_payload.                       *)
Finalize(p, raw) ==
    /\ Timely(p)
    /\ IF gp[p].status = "CAPTURED" THEN Recapture(p) ELSE Hold(p, raw) \/ Book(p, raw)

(* It raises instead, and its transaction rolls back.                      *)
Refuses(p) == gp[p].status # "CAPTURED" /\ Clashes(p) /\ HoldReason(p) = None

-----------------------------------------------------------------------------
(* _unwind_refund_books and _finalise_refund_state.                        *)

Unwound(raw, alias) == raw.unwound \/ alias \in raw.keys

(* reverse_allocation is gated by the receipt's period.                    *)
MayUnwind(p, raw, alias) == Unwound(raw, alias) \/ ~Live(p) \/ receipt[p].alloc = 0 \/ open

OtherCaptured(p) == \E q \in Payments \ {p} : gp[q].status \in CapturedLike

UnwindBooks(p, raw, a, full, alias) ==
    IF Unwound(raw, alias) THEN UNCHANGED <<receipt, released, link, booked>>
    ELSE LET freed == IF Live(p) THEN Lesser(a, receipt[p].alloc) ELSE 0 IN
         /\ receipt' = IF Live(p)
                       THEN [receipt EXCEPT ![p] = [state |-> IF full /\ @.alloc = freed THEN "refunded" ELSE @.state,
                                                    alloc |-> @.alloc - freed]]
                       ELSE receipt
         /\ released' = [released EXCEPT ![p] = @ + freed]
         /\ link' = IF full /\ ~OtherCaptured(p)
                    THEN [link EXCEPT !.status = IF @ \in {"PAID", "PARTIALLY_PAID", "SENT"} THEN "SENT" ELSE "CREATED",
                                      !.paid = None]
                    ELSE link
         /\ UNCHANGED booked

RawAfter(raw, a, full, alias, aliases) ==
    [raw EXCEPT !.keys = @ \cup aliases \cup (IF raw.unwound THEN {} ELSE {alias}),
                !.unwound = @ \/ full,
                !.partials = IF full THEN @ ELSE @ + a]

RowAfter(row, a, full, alias, aliases) ==
    [status |-> IF full THEN "REFUNDED" ELSE "PARTIALLY_REFUNDED",
     reason |-> row.reason,
     raw |-> RawAfter(row.raw, a, full, alias, aliases)]

-----------------------------------------------------------------------------
(* Webhooks.  An event may be delivered any number of times, to any number *)
(* of handlers; it is marked as seen only after its work is committed.     *)

CaptureEvent(p, id) == [kind |-> "capture", pay |-> p, id |-> id]
RefundEvent(p, k) == [kind |-> "refund", pay |-> p, id |-> k]

Sent == {CaptureEvent(p, id) : p \in paid, id \in Captures}
        \cup (IF RefundEvents
              THEN UNION {{RefundEvent(p, k) : k \in refunded[p]} : p \in Payments}
              ELSE {})

Deliver(h, e) ==
    /\ hook[h].pc = "idle"
    /\ e \notin seen
    /\ hook' = [hook EXCEPT ![h] = [pc |-> "work", event |-> e, saw |-> "NONE"]]
    /\ UNCHANGED <<gp, link, invoice, books, outbox, events, open, provider, job>>

Working(h, kind) == hook[h].pc = "work" /\ hook[h].event.kind = kind

Then(h, step) == hook' = [hook EXCEPT ![h].pc = step]

Done(h) == hook' = [hook EXCEPT ![h] = Idle]

(* The capture is booked or parked.                                        *)
HandleCapture(h) ==
    /\ Working(h, "capture")
    /\ Finalize(hook[h].event.pay, NoRaw)
    /\ Then(h, "mark")
    /\ UNCHANGED <<invoice, outbox, events, open, provider, job>>

(* finalize refused; the handler looks the row up to park it.              *)
CaptureRefused(h) ==
    LET p == hook[h].event.pay IN
    /\ Working(h, "capture")
    /\ Refuses(p)
    /\ hook' = [hook EXCEPT ![h].pc = "park", ![h].saw = gp[p].status]
    /\ UNCHANGED <<gp, link, invoice, books, outbox, events, open, provider, job>>

(* Mutant: the exception is answered with a 202 and nothing else.          *)
CaptureFails_Silent(h) ==
    /\ Working(h, "capture")
    /\ acked' = acked \cup {hook[h].event.pay}
    /\ Done(h)
    /\ UNCHANGED <<gp, link, invoice, books, outbox, seen, dead, open, provider, job>>

(* Any other exception (a lost race for the new row, a database error):    *)
(* park_dead_letter, answer 202.                                           *)
CaptureFails(h) ==
    LET p == hook[h].event.pay IN
    /\ Working(h, "capture")
    /\ dead' = IF dead[p].state = "pending" THEN dead
               ELSE [dead EXCEPT ![p] = [state |-> "pending", attempts |-> 1]]
    /\ acked' = acked \cup {p}
    /\ Done(h)
    /\ UNCHANGED <<gp, link, invoice, books, outbox, seen, open, provider, job>>

(* park_gateway_payment writes the status whatever it is by now, unless    *)
(* the row was captured when it was read; the row is created if there was  *)
(* none, and the creation fails if there is one by now.                    *)
ParkRefused(h) ==
    LET p == hook[h].event.pay
        saw == hook[h].saw
    IN  /\ hook[h].pc = "park"
        /\ Timely(p)
        /\ IF saw = "NONE" /\ gp[p].status # "NONE"
           THEN Done(h) /\ UNCHANGED gp
           ELSE /\ Then(h, "mark")
                /\ gp' = IF saw = "CAPTURED" THEN gp ELSE Parked(p, "UTR_CLASH", gp[p].raw)
        /\ UNCHANGED <<link, invoice, books, outbox, events, open, provider, job>>

(* refund_gateway_payment with skip_gateway: the refund is made already.   *)
KnownRefund(p, k) == gp[p].status = "REFUNDED" \/ <<"prov", k>> \in gp[p].raw.keys

TakesRefund(p, k) ==
    /\ gp[p].status \in Refundable
    /\ k[2] <= Remaining(p, gp[p].raw)
    /\ MayUnwind(p, gp[p].raw, <<"prov", k>>)

HandleRefund(h) ==
    LET p == hook[h].event.pay
        k == hook[h].event.id
        alias == <<"prov", k>>
        full == k[2] >= Remaining(p, gp[p].raw)
    IN  /\ Working(h, "refund")
        /\ IF KnownRefund(p, k)
           THEN UNCHANGED <<gp, link, books>>
           ELSE /\ TakesRefund(p, k)
                /\ UnwindBooks(p, gp[p].raw, k[2], full, alias)
                /\ gp' = [gp EXCEPT ![p] = RowAfter(@, k[2], full, alias, {})]
        /\ Then(h, "mark")
        /\ UNCHANGED <<invoice, outbox, events, open, provider, job>>

(* _mark_seen and the 200.                                                 *)
MarkSeen(h) ==
    /\ hook[h].pc = "mark"
    /\ seen' = seen \cup {hook[h].event}
    /\ acked' = IF hook[h].event.kind = "capture" THEN acked \cup {hook[h].event.pay} ELSE acked
    /\ Done(h)
    /\ UNCHANGED <<gp, link, invoice, books, outbox, dead, open, provider, job>>

(* A refund the payment has no room for, or a closed period: 400.          *)
RefundRefused(h) ==
    /\ Working(h, "refund")
    /\ ~KnownRefund(hook[h].event.pay, hook[h].event.id)
    /\ ~TakesRefund(hook[h].event.pay, hook[h].event.id)
    /\ Done(h)
    /\ UNCHANGED <<gp, link, invoice, books, outbox, events, open, provider, job>>

(* The handler dies; nothing is marked.                                    *)
HandlerStops(h) ==
    /\ hook[h].pc # "idle"
    /\ Done(h)
    /\ UNCHANGED <<gp, link, invoice, books, outbox, events, open, provider, job>>

-----------------------------------------------------------------------------
(* Beat jobs and staff retry what is parked.                               *)

(* Mutant: only captures of cancelled bills and links are sent back.       *)
AutoRefund_Cancelled(p) ==
    /\ gp[p].status = "CAPTURED_PENDING_BOOKS"
    /\ gp[p].reason \in {"INVOICE_CANCELLED", "LINK_CANCELLED"}
    /\ \A s \in Seqs : outbox[p][<<s, Amount[p]>>].status = "NONE"
    /\ outbox' = [outbox EXCEPT ![p][<<0, Amount[p]>>] = [status |-> "PENDING", attempts |-> 0]]
    /\ UNCHANGED <<gp, link, invoice, books, events, open, provider, threads>>

(* _auto_refund_parked_capture: one outbox row per payment and amount.     *)
AutoRefund(p) ==
    LET k == <<0, Amount[p]>> IN
    /\ gp[p].status = "CAPTURED_PENDING_BOOKS"
    /\ gp[p].reason \in Terminal
    /\ \A s \in Seqs : outbox[p][<<s, Amount[p]>>].status = "NONE"
    /\ outbox' = [outbox EXCEPT ![p][k] = [status |-> "PENDING", attempts |-> 0]]
    /\ UNCHANGED <<gp, link, invoice, books, events, open, provider, threads>>

(* reconcile_gateway_captures on a hold that may post after all.           *)
Reconcile(p) ==
    /\ gp[p].status = "CAPTURED_PENDING_BOOKS"
    /\ gp[p].reason \notin Terminal
    /\ Finalize(p, gp[p].raw)
    /\ UNCHANGED <<invoice, outbox, events, open, provider, threads>>

(* The retry-books view: staff may press it on any gateway payment.        *)
RetryBooks(p) ==
    /\ gp[p].status # "NONE"
    /\ Finalize(p, gp[p].raw)
    /\ UNCHANGED <<invoice, outbox, events, open, provider, threads>>

(* _replay_pending_payment_dead_letters                                    *)
ReplayDeadLetter(p) ==
    /\ dead[p].state = "pending"
    /\ dead[p].attempts < MaxReplays
    /\ Finalize(p, NoRaw)
    /\ dead' = [dead EXCEPT ![p].state = "replayed", ![p].attempts = @ + 1]
    /\ UNCHANGED <<invoice, outbox, seen, acked, open, provider, threads>>

ReplayFails(p) ==
    /\ dead[p].state = "pending"
    /\ dead[p].attempts < MaxReplays
    /\ dead' = [dead EXCEPT ![p] = [state |-> IF @.attempts + 1 >= MaxReplays THEN "discarded" ELSE "pending",
                                    attempts |-> @.attempts + 1]]
    /\ UNCHANGED <<gp, link, invoice, books, outbox, seen, acked, open, provider, threads>>

-----------------------------------------------------------------------------
(* Refunds: the view's three phases and the outbox task.                   *)

Aliases(k) == {<<"idem", k>>, <<"prov", k>>}

Succeeded(p, k) == [outbox EXCEPT ![p][k].status = "SUCCEEDED"]

(* Phase 1 of refund_gateway_payment: reserve the key and the outbox row.  *)
Refund(w, p, a) ==
    LET raw == gp[p].raw
        k == <<raw.seq + 1, a>>
    IN  /\ job[w].pc = "idle"
        /\ gp[p].status \in Refundable
        /\ a <= Remaining(p, raw)
        /\ raw.seq < MaxSeq
        /\ gp' = [gp EXCEPT ![p].raw.seq = @ + 1]
        /\ outbox' = IF outbox[p][k].status = "NONE"
                     THEN [outbox EXCEPT ![p][k] = [status |-> "PENDING", attempts |-> 0]]
                     ELSE outbox
        /\ job' = [job EXCEPT ![w] = [pc |-> "call", by |-> "view", pay |-> p, key |-> k,
                                      full |-> a >= Remaining(p, raw), row |-> NoRow]]
        /\ UNCHANGED <<link, invoice, books, events, open, provider, hook>>

(* Mutant: a row in progress is never taken over.                          *)
Claim_NeverTakesOver(w, p, k) ==
    LET row == outbox[p][k] IN
    /\ job[w].pc = "idle"
    /\ row.status \in {"PENDING", "FAILED"}
    /\ row.attempts < MaxAttempts
    /\ outbox' = [outbox EXCEPT ![p][k] = [status |-> "IN_PROGRESS", attempts |-> @.attempts + 1]]
    /\ job' = [job EXCEPT ![w] = [pc |-> "call", by |-> "task", pay |-> p, key |-> k,
                                  full |-> k[2] >= Remaining(p, gp[p].raw), row |-> gp[p]]]
    /\ UNCHANGED <<gp, link, invoice, books, events, open, provider, hook>>

(* execute_gateway_refund claims a row: new, failed, or in progress for    *)
(* ten minutes, which the provider's thirty second timeout makes a dead    *)
(* worker's.  The payment's row is read here and not again.                *)
Claim(w, p, k) ==
    LET row == outbox[p][k] IN
    /\ job[w].pc = "idle"
    /\ row.status \in {"PENDING", "FAILED", "IN_PROGRESS"}
    /\ row.status = "IN_PROGRESS" =>
          \A v \in Workers : ~(job[v].by = "task" /\ job[v].pay = p /\ job[v].key = k)
    /\ row.attempts < MaxAttempts
    /\ IF gp[p].status = "REFUNDED"
       THEN outbox' = Succeeded(p, k) /\ UNCHANGED job
       ELSE /\ outbox' = [outbox EXCEPT ![p][k] = [status |-> "IN_PROGRESS", attempts |-> @.attempts + 1]]
            /\ job' = [job EXCEPT ![w] = [pc |-> "call", by |-> "task", pay |-> p, key |-> k,
                                          full |-> k[2] >= Remaining(p, gp[p].raw), row |-> gp[p]]]
    /\ UNCHANGED <<gp, link, invoice, books, events, open, provider, hook>>

(* The provider makes a refund once per key, and never more than it took.  *)
ProviderAccepts(p, k) == k \in refunded[p] \/ SentBack(p) + k[2] <= Amount[p]

CallProvider(w) ==
    LET p == job[w].pay
        k == job[w].key
    IN  /\ job[w].pc = "call"
        /\ ProviderAccepts(p, k)
        /\ refunded' = [refunded EXCEPT ![p] = @ \cup {k}]
        /\ job' = [job EXCEPT ![w].pc = "books"]
        /\ UNCHANGED <<gp, link, invoice, books, outbox, events, open, paid, hook>>

Released(w) == job' = [job EXCEPT ![w] = NoJob]

(* What an exception leaves: the task marks its row FAILED, the view       *)
(* leaves its row to the beat.                                             *)
Deferred(w) ==
    outbox' = IF job[w].by = "task"
              THEN [outbox EXCEPT ![job[w].pay][job[w].key].status = "FAILED"]
              ELSE outbox

(* The provider has nothing left to give back for the payment.             *)
CallRefused(w) ==
    /\ job[w].pc = "call"
    /\ ~ProviderAccepts(job[w].pay, job[w].key)
    /\ Deferred(w)
    /\ Released(w)
    /\ UNCHANGED <<gp, link, invoice, books, events, open, provider, hook>>

(* The call times out, before or after the provider acted on it.           *)
CallFails(w) ==
    LET p == job[w].pay
        k == job[w].key
    IN  /\ job[w].pc = "call"
        /\ \/ UNCHANGED refunded
           \/ ProviderAccepts(p, k) /\ refunded' = [refunded EXCEPT ![p] = @ \cup {k}]
        /\ Deferred(w)
        /\ Released(w)
        /\ UNCHANGED <<gp, link, invoice, books, events, open, paid, hook>>

(* Mutant: the books are unwound before the provider has answered.         *)
FinishView_Early(w) ==
    LET p == job[w].pay
        k == job[w].key
    IN  /\ job[w].pc = "call" /\ job[w].by = "view"
        /\ MayUnwind(p, gp[p].raw, <<"idem", k>>)
        /\ UnwindBooks(p, gp[p].raw, k[2], job[w].full, <<"idem", k>>)
        /\ gp' = [gp EXCEPT ![p] = RowAfter(@, k[2], job[w].full, <<"idem", k>>, Aliases(k))]
        /\ job' = [job EXCEPT ![w].by = "task"]
        /\ UNCHANGED <<invoice, outbox, events, open, provider, hook>>

(* Phase 3 of the view: fresh row, aliases checked, books unwound.         *)
FinishView(w) ==
    LET p == job[w].pay
        k == job[w].key
        raw == gp[p].raw
        alias == <<"idem", k>>
    IN  /\ job[w].pc = "books" /\ job[w].by = "view"
        /\ IF Aliases(k) \cap raw.keys # {}
           THEN /\ gp' = [gp EXCEPT ![p].raw.keys = @ \cup Aliases(k)]
                /\ UNCHANGED <<link, books>>
           ELSE /\ MayUnwind(p, raw, alias)
                /\ UnwindBooks(p, raw, k[2], job[w].full, alias)
                /\ gp' = [gp EXCEPT ![p] = RowAfter(@, k[2], job[w].full, alias, Aliases(k))]
        /\ outbox' = Succeeded(p, k)
        /\ Released(w)
        /\ UNCHANGED <<invoice, events, open, provider, hook>>

(* Mutant: the task marks the payment without looking at its books.        *)
FinishTask_StatusOnly(w) ==
    /\ job[w].pc = "books" /\ job[w].by = "task"
    /\ gp' = [gp EXCEPT ![job[w].pay].status = "REFUNDED"]
    /\ outbox' = Succeeded(job[w].pay, job[w].key)
    /\ Released(w)
    /\ UNCHANGED <<link, books, invoice, events, open, provider, hook>>

(* The end of the task, from the row it read when it claimed.              *)
FinishTask(w) ==
    LET p == job[w].pay
        k == job[w].key
        full == job[w].full
        row == job[w].row
        alias == <<"idem", k>>
        already == row.raw.unwound \/ Aliases(k) \cap row.raw.keys # {}
    IN  /\ job[w].pc = "books" /\ job[w].by = "task"
        /\ IF already
           THEN /\ gp' = IF full THEN [gp EXCEPT ![p].status = "REFUNDED"] ELSE gp
                /\ UNCHANGED <<link, books>>
           ELSE /\ MayUnwind(p, row.raw, alias)
                /\ UnwindBooks(p, row.raw, k[2], full, alias)
                /\ gp' = [gp EXCEPT ![p] = [RowAfter(row, k[2], full, alias, Aliases(k)) EXCEPT !.reason = gp[p].reason]]
        /\ outbox' = Succeeded(p, k)
        /\ Released(w)
        /\ UNCHANGED <<invoice, events, open, provider, hook>>

(* The books refuse (closed period): rolled back, the row stays to retry.  *)
BooksRefuse(w) ==
    LET p == job[w].pay
        raw == IF job[w].by = "task" THEN job[w].row.raw ELSE gp[p].raw
    IN  /\ job[w].pc = "books"
        /\ ~MayUnwind(p, raw, <<"idem", job[w].key>>)
        /\ Aliases(job[w].key) \cap raw.keys = {}
        /\ Deferred(w)
        /\ Released(w)
        /\ UNCHANGED <<gp, link, invoice, books, events, open, provider, hook>>

WorkerDies(w) ==
    /\ job[w].pc # "idle"
    /\ Released(w)
    /\ UNCHANGED <<gp, link, invoice, books, outbox, events, open, provider, hook>>

-----------------------------------------------------------------------------
(* The customer, the clock and staff.                                      *)

Pay(p) ==
    /\ p \notin paid
    /\ paid' = paid \cup {p}
    /\ UNCHANGED <<gp, link, invoice, books, outbox, events, open, refunded, threads>>

(* The invoice is settled in another way meanwhile.                        *)
PayElsewhere ==
    /\ Outstanding > 0
    /\ invoice' = [invoice EXCEPT !.other = @ + Outstanding]
    /\ UNCHANGED <<gp, link, books, outbox, events, open, provider, threads>>

LinkExpires ==
    /\ ~link.past
    /\ link' = [link EXCEPT !.past = TRUE]
    /\ UNCHANGED <<gp, invoice, books, outbox, events, open, provider, threads>>

CancelLink ==
    /\ link.status \notin {"PAID", "CANCELLED"}
    /\ link' = [link EXCEPT !.status = "CANCELLED"]
    /\ UNCHANGED <<gp, invoice, books, outbox, events, open, provider, threads>>

(* SalesInvoiceService.cancel: no live allocation, no payment received.    *)
CancelInvoice ==
    /\ ~invoice.cancelled
    /\ Allocated + invoice.other = 0
    /\ \A p \in Payments : gp[p].status \notin CapturedLike
    /\ invoice' = [invoice EXCEPT !.cancelled = TRUE]
    /\ UNCHANGED <<gp, link, books, outbox, events, open, provider, threads>>

ClosePeriod ==
    /\ open
    /\ open' = FALSE
    /\ UNCHANGED <<gp, link, invoice, books, outbox, events, provider, threads>>

OpenPeriod ==
    /\ ~open
    /\ open' = TRUE
    /\ UNCHANGED <<gp, link, invoice, books, outbox, events, provider, threads>>

(* Staff record the money themselves under the provider's reference, with  *)
(* the same or another amount, or void such a receipt.                     *)
StaffReceipt(p, state) ==
    /\ receipt[p].state = "none" /\ open
    /\ receipt' = [receipt EXCEPT ![p].state = state]
    /\ UNCHANGED <<gp, link, invoice, booked, released, outbox, events, open, provider, threads>>

VoidStaffReceipt(p) ==
    /\ receipt[p].state \in {"manual", "clashing"}
    /\ receipt' = [receipt EXCEPT ![p].state = "none"]
    /\ UNCHANGED <<gp, link, invoice, booked, released, outbox, events, open, provider, threads>>

-----------------------------------------------------------------------------
(* What goes on by itself.                                                 *)
HandlerStep(h) ==
    \/ HandleCapture(h) \/ CaptureRefused(h) \/ ParkRefused(h)
    \/ HandleRefund(h) \/ RefundRefused(h) \/ MarkSeen(h)

WorkerStep(w) ==
    \/ CallProvider(w) \/ CallRefused(w) \/ FinishView(w) \/ FinishTask(w) \/ BooksRefuse(w)
    \/ \E p \in Payments, k \in RefundKeys : Claim(w, p, k)

BeatStep(p) == AutoRefund(p) \/ Reconcile(p) \/ ReplayDeadLetter(p)

(* What people and the provider start.                                     *)
Request ==
    \/ \E h \in Handlers, e \in Sent : Deliver(h, e)
    \/ \E w \in Workers, p \in Payments : \E a \in Partials \cup {Amount[p]} : Refund(w, p, a)
    \/ \E p \in Payments : Pay(p) \/ RetryBooks(p) \/ VoidStaffReceipt(p)
    \/ OpenPeriod

(* Faults and interventions.                                               *)
Trouble ==
    \/ \E h \in Handlers : CaptureFails(h) \/ HandlerStops(h)
    \/ \E w \in Workers : CallFails(w) \/ WorkerDies(w)
    \/ \E p \in Payments : ReplayFails(p) \/ StaffReceipt(p, "manual") \/ StaffReceipt(p, "clashing")
    \/ PayElsewhere \/ LinkExpires \/ CancelLink \/ CancelInvoice \/ ClosePeriod

Step ==
    \/ \E h \in Handlers : HandlerStep(h)
    \/ \E w \in Workers : WorkerStep(w)
    \/ \E p \in Payments : BeatStep(p)
    \/ Request

Next ==
    \/ Step /\ UNCHANGED trouble
    \/ trouble < MaxTrouble /\ Trouble /\ trouble' = trouble + 1

Spec == Init /\ [][Next]_vars

(* Handlers and workers go on once started, and beat runs its jobs.        *)
Fairness ==
    /\ \A h \in Handlers : WF_vars(HandlerStep(h) /\ UNCHANGED trouble)
    /\ \A w \in Workers : WF_vars(WorkerStep(w) /\ UNCHANGED trouble)
    /\ \A p \in Payments : WF_vars(BeatStep(p) /\ UNCHANGED trouble)

FairSpec == Spec /\ Fairness

-----------------------------------------------------------------------------
(* No signed capture is dropped ("Never drop a signed capture"): a capture *)
(* the provider was told is taken care of has a payment row that is booked,*)
(* parked or refunded, or a dead letter that is not yet replayed.          *)
NeverDropped ==
    \A p \in acked : gp[p].status \in Accounted \/ dead[p].state \in {"pending", "discarded"}

(* One provider payment makes one receipt, however often, through which    *)
(* event and after whichever failure it is finalized.                      *)
OneReceiptPerPayment == \A p \in Payments : booked[p] <= 1

(* The books give back no more than the provider did: allocations are      *)
(* released once per refund.                                               *)
UnwoundOnce == \A p \in Payments : released[p] <= SentBack(p)

(* REFUNDED means that the provider has returned the whole payment and     *)
(* that it no longer settles the invoice.                                  *)
RefundedIsReturned ==
    \A p \in Payments : gp[p].status = "REFUNDED" => SentBack(p) = Amount[p] /\ ~(Live(p) /\ receipt[p].alloc > 0)

(* No gateway money is on a cancelled invoice.                             *)
DeadBillIsFree ==
    invoice.cancelled => \A p \in Payments : receipt[p].alloc = 0 /\ gp[p].status # "CAPTURED"

(* A refund that is due is carried out, or given up after the last of its   *)
(* attempts: the outbox row survives the death of the request that made it *)
(* and of every worker that claims it.                                     *)
RefundsSettle ==
    \A p \in Payments, k \in RefundKeys :
        outbox[p][k].status = "PENDING"
            ~> outbox[p][k].status = "SUCCEEDED" \/ outbox[p][k].attempts = MaxAttempts

(* No capture stays parked for good: while the period is open, no receipt  *)
(* of another amount has its UTR and a refund still has attempts left, the *)
(* reconcile job books it or sends it back.                                *)
ParkedMovesOn ==
    \A p \in Payments :
        []<>(\/ gp[p].status # "CAPTURED_PENDING_BOOKS"
             \/ ~open \/ Clashes(p)
             \/ \E k \in RefundKeys : outbox[p][k].attempts = MaxAttempts)

=============================================================================
