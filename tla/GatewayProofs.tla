---------------------------- MODULE GatewayProofs ----------------------------
(***************************************************************************)
(* Theorems about Gateway: for any payments, handlers and workers, any     *)
(* number of faults and any provider events.  What holds of captures needs *)
(* no more than the order of the writes; one receipt per payment needs     *)
(* that no capture is finalized after its refund (LateCaptures is FALSE),  *)
(* and what is said of refunds that staff refund whole payments: for       *)
(* partial ones it fails, as the run gateway_unwind shows.                 *)
(***************************************************************************)
EXTENDS Gateway, SumsProofs, TLAPS

(* What is allocated, and the keys of refunds, are all that is summed.     *)
Amounts == {0} \cup Asked \cup UNION {0 .. Amount[p] : p \in Payments}

-----------------------------------------------------------------------------
(* Types, as far as the arguments below need them.                         *)

Status == {"NONE"} \cup Accounted
Alias == {"idem", "prov"} \X RefundKeys
Raw == [keys : SUBSET Alias, partials : Nat, unwound : BOOLEAN, seq : Seqs]
Reasons == Terminal \cup {"PERIOD_LOCKED", "UTR_CLASH", None}
Row == [status : Status, reason : Reasons, raw : Raw]
Event == [kind : {"none", "capture", "refund"}, pay : Payments \cup {None}, id : Captures \cup RefundKeys \cup {None}]

GpTyped == gp \in [Payments -> Row]

ReceiptTyped ==
    /\ receipt \in [Payments -> [state : {"none", "manual", "clashing", "posted", "refunded"}, alloc : Nat]]
    /\ \A p \in Payments : receipt[p].alloc <= Amount[p] /\ (receipt[p].alloc > 0 => Live(p))

OutboxTyped ==
    outbox \in [Payments -> [RefundKeys ->
        [status : {"NONE", "PENDING", "IN_PROGRESS", "FAILED", "SUCCEEDED"}, attempts : Nat]]]

CountsTyped ==
    /\ booked \in [Payments -> Nat]
    /\ released \in [Payments -> Nat]
    /\ invoice \in [cancelled : BOOLEAN, other : Nat]

DeadTyped == dead \in [Payments -> [state : {"none", "pending", "replayed", "discarded"}, attempts : Nat]]

ProviderTyped == refunded \in [Payments -> SUBSET RefundKeys] /\ paid \subseteq Payments

HooksTyped ==
    /\ hook \in [Handlers -> [pc : {"idle", "work", "park", "mark"}, event : Event, saw : Status]]
    /\ \A h \in Handlers : hook[h].pc # "idle" =>
          /\ hook[h].event.pay \in Payments
          /\ hook[h].event.kind = "refund" => hook[h].event.id \in refunded[hook[h].event.pay]

JobsTyped ==
    /\ job \in [Workers -> [pc : {"idle", "call", "books"}, by : {"none", "view", "task"}, pay : Payments \cup {None},
                            key : Seqs \X Nat, full : BOOLEAN, row : Row]]
    /\ \A w \in Workers : job[w].pc # "idle" =>
          /\ job[w].pay \in Payments
          /\ job[w].key \in RefundKeys
          /\ job[w].pc = "books" => job[w].key \in refunded[job[w].pay]

Typed ==
    /\ GpTyped /\ ReceiptTyped /\ OutboxTyped /\ CountsTyped
    /\ DeadTyped /\ ProviderTyped /\ HooksTyped /\ JobsTyped

LEMMA Keys ==
    /\ RefundKeys \subseteq Seqs \X Nat
    /\ \A k \in RefundKeys : k[2] \in Nat \ {0} /\ k[2] \in Amounts
    /\ \A p \in Payments : <<0, Amount[p]>> \in RefundKeys
    /\ \A p \in Payments, s \in Seqs : \A a \in Partials \cup {Amount[p]} : <<s, a>> \in RefundKeys
    /\ \A p \in Payments : 0 .. Amount[p] \subseteq Amounts
<1>1. Asked \subseteq Nat \ {0} /\ Asked \subseteq Amounts
  BY GatewayAssumption DEF Asked, Amounts
<1>2. \A p \in Payments : Amount[p] \in Asked /\ 0 .. Amount[p] \subseteq Amounts
  BY DEF Asked, Amounts
<1>3. 0 \in Seqs /\ Partials \subseteq Asked
  BY GatewayAssumption DEF Seqs, Asked
<1> QED BY <1>1, <1>2, <1>3 DEF RefundKeys

LEMMA InitTyped == Init => Typed
<1> SUFFICES ASSUME Init PROVE Typed
  OBVIOUS
<1>1. NoRow \in Row
  BY GatewayAssumption DEF NoRow, NoRaw, Row, Status, Reasons, Raw, Seqs, Alias
<1>2. GpTyped /\ ReceiptTyped /\ CountsTyped
  BY <1>1, GatewayAssumption DEF Init, GpTyped, ReceiptTyped, CountsTyped
<1>3. OutboxTyped /\ DeadTyped /\ ProviderTyped
  BY DEF Init, OutboxTyped, DeadTyped, ProviderTyped, NoRefund
<1>4. HooksTyped
  BY DEF Init, HooksTyped, Idle, NoEvent, Event, Status
<1>5. JobsTyped
  BY <1>1, GatewayAssumption DEF Init, JobsTyped, NoJob, Seqs
<1> QED BY <1>2, <1>3, <1>4, <1>5 DEF Typed

-----------------------------------------------------------------------------
(* finalize_gateway_payment, for one payment: what becomes of its row, its *)
(* receipt and the count of receipts.                                      *)

(* Allocations and refunds add up.                                         *)
LEMMA SumFacts ==
    \A D \in {Payments, RefundKeys} :
        /\ Sum([d \in D |-> 0]) = 0
        /\ \A f \in [D -> Amounts] :
              /\ Sum(f) \in Nat
              /\ \A d \in D : f[d] <= Sum(f)
              /\ \A d \in D, v \in Amounts : Sum([f EXCEPT ![d] = v]) = Sum(f) - f[d] + v
<1>1. IsFiniteSet(Asked)
  <2>1. /\ IsFiniteSet(Payments) /\ DOMAIN Amount = Payments
        /\ Amount = [p \in Payments |-> Amount[p]]
    BY GatewayAssumption
  <2>2. IsFiniteSet({Amount[p] : p \in Payments})
    BY <2>1, FiniteValues
  <2> QED BY <2>2, GatewayAssumption, FinitePairs DEF Asked
<1>2. IsFiniteSet(Seqs)
  BY GatewayAssumption, FiniteInterval DEF Seqs
<1>3. IsFiniteSet(RefundKeys)
  BY <1>1, <1>2, FinitePairs DEF RefundKeys
<1>4. \A D \in {Payments, RefundKeys} : IsFiniteSet(D)
  BY <1>3, GatewayAssumption
<1>5. Amounts \subseteq Nat
  <2>1. Asked \subseteq Nat
    BY GatewayAssumption DEF Asked
  <2>2. ASSUME NEW p \in Payments PROVE 0 .. Amount[p] \subseteq Nat
    BY GatewayAssumption
  <2>3. 0 \in Nat
    OBVIOUS
  <2> QED BY <2>1, <2>2, <2>3, Zenon DEF Amounts
<1>6. \A D \in {Payments, RefundKeys} : AddsUp(D, Amounts)
  BY <1>4, <1>5, NaturalSums
<1> QED BY <1>6 DEF AddsUp

LEMMA OutstandingType == Typed => Outstanding \in Nat /\ Allocated \in Nat
<1> SUFFICES ASSUME Typed PROVE Outstanding \in Nat /\ Allocated \in Nat
  OBVIOUS
<1>1. [p \in Payments |-> receipt[p].alloc] \in [Payments -> Amounts]
  BY GatewayAssumption, Keys DEF Typed, ReceiptTyped
<1>2. Allocated \in Nat
  BY <1>1, SumFacts DEF Allocated
<1> QED BY <1>2, GatewayAssumption DEF Outstanding, Minus, Typed, CountsTyped

LEMMA ReasonType ==
    ASSUME NEW p \in Payments
    PROVE  /\ HoldReason(p) \in Reasons
           /\ HoldReason(p) = None => ~invoice.cancelled
BY NoReasonAssumption DEF HoldReason, Reasons, Terminal

(* What finalize does to payment p, and to no other.                       *)
Finalized(p, raw) ==
    /\ GpTyped' /\ ReceiptTyped' /\ CountsTyped'
    /\ released' = released
    /\ \A q \in Payments : q # p => gp'[q] = gp[q] /\ receipt'[q] = receipt[q] /\ booked'[q] = booked[q]
    /\ gp'[p].status \in CapturedLike
    /\ gp'[p].raw \in {raw, gp[p].raw}
    /\ booked'[p] = booked[p] \/ (booked'[p] = booked[p] + 1 /\ ~Live(p) /\ receipt'[p].state = "posted")
    /\ receipt'[p].state \in {receipt[p].state, "posted"}
    /\ invoice.cancelled => /\ receipt'[p].alloc = receipt[p].alloc
                            /\ gp[p].status = "CAPTURED" \/ gp'[p].status # "CAPTURED"

LEMMA HoldStep ==
    ASSUME Typed, NEW p \in Payments, NEW raw \in Raw, Hold(p, raw), UNCHANGED invoice
    PROVE  Finalized(p, raw)
<1>1. gp' = [gp EXCEPT ![p] = [status |-> "CAPTURED_PENDING_BOOKS", reason |-> HoldReason(p), raw |-> raw]]
  BY DEF Hold, Parked
<1>2. HoldReason(p) \in Reasons
  BY ReasonType
<1>3. GpTyped'
  BY <1>1, <1>2 DEF Typed, GpTyped, Row, Status, Accounted, Refundable, CapturedLike
<1>4. receipt' = receipt /\ booked' = booked /\ released' = released
  BY DEF Hold, books
<1>5. ReceiptTyped' /\ CountsTyped'
  BY <1>4 DEF Typed, ReceiptTyped, CountsTyped, Live
<1>6. gp'[p] = [status |-> "CAPTURED_PENDING_BOOKS", reason |-> HoldReason(p), raw |-> raw]
      /\ \A q \in Payments : q # p => gp'[q] = gp[q]
  BY <1>1 DEF Typed, GpTyped
<1> QED BY <1>3, <1>4, <1>5, <1>6 DEF Finalized, CapturedLike

LEMMA BookStep ==
    ASSUME Typed, NEW p \in Payments, NEW raw \in Raw, Book(p, raw), UNCHANGED invoice
    PROVE  Finalized(p, raw)
<1> DEFINE fresh == receipt[p].state \in {"none", "refunded"}
           had == IF fresh THEN 0 ELSE receipt[p].alloc
           want == Lesser(Amount[p], Outstanding)
           done == Allocates(p, had, want)
           after == IF done THEN had + want ELSE had
<1>1. /\ receipt' = [receipt EXCEPT ![p] = [state |-> "posted", alloc |-> after]]
      /\ booked' = [booked EXCEPT ![p] = IF fresh THEN @ + 1 ELSE @]
      /\ gp' = [gp EXCEPT ![p] = [status |-> "CAPTURED", reason |-> None, raw |-> raw]]
      /\ released' = released
      /\ ~invoice.cancelled
  BY ReasonType DEF Book
<1>2. after \in Nat /\ after <= Amount[p]
  <2>1. had \in Nat /\ had <= Amount[p] /\ Amount[p] \in Nat
    BY GatewayAssumption DEF Typed, ReceiptTyped
  <2>2. want \in Nat
    BY <2>1, OutstandingType DEF Lesser
  <2>3. done => want \in 1 .. Amount[p] - had
    BY DEF Allocates
  <2> QED BY <2>1, <2>2, <2>3
<1> HIDE DEF after, done, want, had
<1>3. GpTyped'
  BY <1>1 DEF Typed, GpTyped, Row, Status, Accounted, Refundable, CapturedLike, Reasons
<1>4. ReceiptTyped'
  BY <1>1, <1>2 DEF Typed, ReceiptTyped, Live
<1>5. CountsTyped'
  BY <1>1 DEF Typed, CountsTyped
<1>6. /\ gp'[p] = [status |-> "CAPTURED", reason |-> None, raw |-> raw]
      /\ receipt'[p].state = "posted"
      /\ booked'[p] = IF fresh THEN booked[p] + 1 ELSE booked[p]
      /\ \A q \in Payments : q # p => gp'[q] = gp[q] /\ receipt'[q] = receipt[q] /\ booked'[q] = booked[q]
  BY <1>1 DEF Typed, GpTyped, ReceiptTyped, CountsTyped
<1>7. fresh => ~Live(p)
  BY DEF Live
<1> QED BY <1>1, <1>3, <1>4, <1>5, <1>6, <1>7 DEF Finalized, CapturedLike

LEMMA RecaptureStep ==
    ASSUME Typed, NEW p \in Payments, NEW raw \in Raw, gp[p].status = "CAPTURED", Recapture(p), UNCHANGED invoice
    PROVE  Finalized(p, raw)
<1> DEFINE want == Lesser(Amount[p] - receipt[p].alloc, Outstanding)
<1>1. gp' = gp /\ booked' = booked /\ released' = released
  BY DEF Recapture
<1>2. GpTyped' /\ CountsTyped'
  BY <1>1 DEF Typed, GpTyped, CountsTyped
<1>3. \/ receipt' = receipt
      \/ /\ Live(p) /\ Allocates(p, 0, want)
         /\ receipt' = [receipt EXCEPT ![p].alloc = want]
  BY DEF Recapture
<1>4. Allocates(p, 0, want) => want \in Nat /\ want <= Amount[p] /\ want > 0
  BY GatewayAssumption DEF Allocates
<1>5. invoice.cancelled => ~Allocates(p, 0, want)
  BY GatewayAssumption DEF Outstanding, Lesser, Typed, ReceiptTyped, Allocates
<1> HIDE DEF want
<1>6. /\ ReceiptTyped'
      /\ receipt'[p].state = receipt[p].state
      /\ \A q \in Payments : q # p => receipt'[q] = receipt[q]
      /\ invoice.cancelled => receipt'[p].alloc = receipt[p].alloc
  BY <1>3, <1>4, <1>5 DEF Typed, ReceiptTyped, Live
<1> QED BY <1>1, <1>2, <1>6 DEF Finalized, CapturedLike

LEMMA FinalizeStep ==
    ASSUME Typed, NEW p \in Payments, NEW raw \in Raw, Finalize(p, raw), UNCHANGED invoice
    PROVE  Finalized(p, raw)
BY HoldStep, BookStep, RecaptureStep DEF Finalize

-----------------------------------------------------------------------------
(* _unwind_refund_books for one payment.                                   *)

Unwinding(p, raw, a, full, alias) ==
    /\ ReceiptTyped' /\ CountsTyped'
    /\ booked' = booked
    /\ \A q \in Payments : q # p => receipt'[q] = receipt[q] /\ released'[q] = released[q]
    /\ receipt'[p].alloc <= receipt[p].alloc
    /\ receipt'[p].state = receipt[p].state \/ (full /\ Live(p) /\ receipt'[p].state = "refunded")
    /\ released'[p] + receipt'[p].alloc = released[p] + receipt[p].alloc
    /\ a >= Amount[p] /\ ~Unwound(raw, alias) => receipt'[p].alloc = 0

LEMMA UnwindStep ==
    ASSUME Typed, NEW p \in Payments, NEW raw, NEW a \in Nat, NEW full \in BOOLEAN, NEW alias,
           UnwindBooks(p, raw, a, full, alias), UNCHANGED invoice
    PROVE  Unwinding(p, raw, a, full, alias)
<1> DEFINE freed == IF Live(p) THEN Lesser(a, receipt[p].alloc) ELSE 0
           turned == IF full /\ receipt[p].alloc = freed THEN "refunded" ELSE receipt[p].state
<1>t. /\ receipt[p].alloc \in Nat /\ receipt[p].alloc <= Amount[p] /\ Amount[p] \in Nat
      /\ receipt[p].alloc > 0 => Live(p)
      /\ released[p] \in Nat
  BY GatewayAssumption DEF Typed, ReceiptTyped, CountsTyped
<1>1. CASE Unwound(raw, alias)
  <2>1. receipt' = receipt /\ released' = released /\ booked' = booked
    BY <1>1 DEF UnwindBooks
  <2>2. ReceiptTyped' /\ CountsTyped'
    BY <2>1 DEF Typed, ReceiptTyped, CountsTyped, Live
  <2> QED BY <1>1, <1>t, <2>1, <2>2 DEF Unwinding
<1>2. CASE ~Unwound(raw, alias)
  <2>1. /\ receipt' = IF Live(p)
                      THEN [receipt EXCEPT ![p] = [state |-> turned, alloc |-> @.alloc - freed]]
                      ELSE receipt
        /\ released' = [released EXCEPT ![p] = @ + freed]
        /\ booked' = booked
    BY <1>2 DEF UnwindBooks
  <2>2. /\ freed \in Nat /\ freed <= receipt[p].alloc
        /\ a >= Amount[p] => freed = receipt[p].alloc
        /\ ~Live(p) => freed = 0 /\ receipt[p].alloc = 0
    BY <1>t DEF Lesser
  <2> HIDE DEF freed
  <2>3. /\ \A q \in Payments : q # p => receipt'[q] = receipt[q] /\ released'[q] = released[q]
        /\ receipt'[p].alloc = receipt[p].alloc - freed
        /\ released'[p] = released[p] + freed
        /\ receipt'[p].state = IF Live(p) THEN turned ELSE receipt[p].state
    BY <1>t, <2>1, <2>2 DEF Typed, ReceiptTyped, CountsTyped
  <2>4. CountsTyped'
    BY <2>1, <2>2 DEF Typed, CountsTyped
  <2>5. receipt' \in [Payments -> [state : {"none", "manual", "clashing", "posted", "refunded"}, alloc : Nat]]
    BY <1>t, <2>1, <2>2 DEF Typed, ReceiptTyped
  <2>6. receipt'[p].alloc > 0 => Live(p) /\ receipt'[p].state = receipt[p].state
    BY <1>t, <2>2, <2>3
  <2>7. ReceiptTyped'
    <3> SUFFICES ASSUME NEW q \in Payments
                 PROVE  receipt'[q].alloc <= Amount[q] /\ (receipt'[q].alloc > 0 => receipt'[q].state = "posted")
      BY <2>5 DEF ReceiptTyped, Live
    <3>1. CASE q = p
      BY <1>t, <2>2, <2>3, <2>6, <3>1 DEF Live
    <3>2. CASE q # p
      BY <2>3, <3>2 DEF Typed, ReceiptTyped, Live
    <3> QED BY <3>1, <3>2
  <2>8. receipt'[p].state = receipt[p].state \/ (full /\ Live(p) /\ receipt'[p].state = "refunded")
    BY <2>3
  <2> QED BY <1>t, <2>1, <2>2, <2>3, <2>4, <2>7, <2>8 DEF Unwinding
<1> QED BY <1>1, <1>2

LEMMA RowAfterType ==
    ASSUME NEW row \in Row, NEW a \in Nat, NEW full \in BOOLEAN, NEW alias \in Alias, NEW aliases \in SUBSET Alias
    PROVE  /\ RowAfter(row, a, full, alias, aliases) \in Row
           /\ RowAfter(row, a, full, alias, aliases).status = IF full THEN "REFUNDED" ELSE "PARTIALLY_REFUNDED"
<1>1. RawAfter(row.raw, a, full, alias, aliases) \in Raw
  <2> DEFINE raw == row.raw
             own == IF raw.unwound THEN {} ELSE {alias}
  <2>1. raw \in Raw
    BY DEF Row
  <2>2. own \subseteq Alias
    OBVIOUS
  <2> HIDE DEF raw, own
  <2>3. RawAfter(raw, a, full, alias, aliases) =
            [raw EXCEPT !.keys = @ \cup aliases \cup own, !.unwound = @ \/ full,
                        !.partials = IF full THEN @ ELSE @ + a]
    BY DEF RawAfter, own
  <2> DEFINE keys == raw.keys \cup aliases \cup own
             unwound == raw.unwound \/ full
             partials == IF full THEN raw.partials ELSE raw.partials + a
  <2>5. keys \in SUBSET Alias /\ partials \in Nat /\ raw.seq \in Seqs
    BY <2>1, <2>2 DEF Raw
  <2>6. unwound \in BOOLEAN
    OBVIOUS
  <2>7. RawAfter(raw, a, full, alias, aliases) = [keys |-> keys, partials |-> partials, unwound |-> unwound, seq |-> raw.seq]
    BY <2>1, <2>3 DEF Raw
  <2> HIDE DEF keys, unwound, partials
  <2>4. RawAfter(raw, a, full, alias, aliases) \in Raw
    BY <2>5, <2>6, <2>7 DEF Raw
  <2> QED BY <2>4 DEF raw
<1> QED BY <1>1 DEF RowAfter, Row, Status, Accounted, Refundable, CapturedLike

-----------------------------------------------------------------------------
(* What a step can do to a payment: nothing that counts, a finalize, or    *)
(* the end of a refund.                                                    *)

Returned == {"REFUNDED", "PARTIALLY_REFUNDED"}

Quiet(p) ==
    /\ gp'[p].status = gp[p].status
    /\ receipt'[p].alloc = receipt[p].alloc
    /\ receipt'[p].state = "posted" <=> Live(p)
    /\ booked'[p] = booked[p] /\ released'[p] = released[p]

Captured(p) ==
    /\ Timely(p)
    /\ gp'[p].status \in CapturedLike
    /\ Live(p) => receipt'[p].state = "posted"
    /\ booked'[p] = booked[p] \/ (booked'[p] = booked[p] + 1 /\ ~Live(p) /\ receipt'[p].state = "posted")
    /\ released'[p] = released[p]
    /\ invoice.cancelled => /\ receipt'[p].alloc = receipt[p].alloc
                            /\ gp[p].status = "CAPTURED" \/ gp'[p].status # "CAPTURED"

GivenBack(p) ==
    /\ gp'[p].status \in Returned
    /\ booked'[p] = booked[p]
    /\ receipt'[p].alloc <= receipt[p].alloc
    /\ released'[p] + receipt'[p].alloc = released[p] + receipt[p].alloc

Effect == \A p \in Payments : Quiet(p) \/ Captured(p) \/ GivenBack(p)

LEMMA NoEffect ==
    ASSUME gp' = gp, receipt' = receipt, booked' = booked, released' = released
    PROVE  Effect
BY DEF Effect, Quiet, Live

LEMMA FinalizeEffect ==
    ASSUME Typed, NEW p \in Payments, NEW raw \in Raw, Finalize(p, raw), UNCHANGED invoice
    PROVE  Effect /\ GpTyped' /\ ReceiptTyped' /\ CountsTyped' /\ gp'[p].status \in CapturedLike
<1>1. Finalized(p, raw)
  BY FinalizeStep
<1>2. \A q \in Payments : q # p => Quiet(q)
  BY <1>1 DEF Finalized, Quiet, Live
<1>3. Captured(p)
  BY <1>1 DEF Finalized, Captured, Finalize, Live
<1> QED BY <1>1, <1>2, <1>3 DEF Finalized, Effect

(* A threads' variable that stays, or one thread of it that moves.         *)
Grows == \A p \in Payments : refunded[p] \subseteq refunded'[p]

LEMMA HooksStay ==
    ASSUME HooksTyped, hook' = hook, Grows
    PROVE  HooksTyped'
BY DEF HooksTyped, Grows

LEMMA HookMoves ==
    ASSUME HooksTyped, Grows, NEW h \in Handlers, hook[h].pc # "idle",
           NEW s \in {"idle", "work", "park", "mark"}, NEW saw \in Status,
           hook' = [hook EXCEPT ![h] = [pc |-> s, event |-> hook[h].event, saw |-> saw]]
    PROVE  HooksTyped'
BY DEF HooksTyped, Grows

LEMMA HookDone ==
    ASSUME HooksTyped, Grows, NEW h \in Handlers, Done(h)
    PROVE  HooksTyped'
<1>1. Idle \in [pc : {"idle", "work", "park", "mark"}, event : Event, saw : Status] /\ Idle.pc = "idle"
  BY DEF Idle, NoEvent, Event, Status
<1> QED BY <1>1 DEF HooksTyped, Grows, Done

LEMMA HookThen ==
    ASSUME HooksTyped, Grows, NEW h \in Handlers, hook[h].pc # "idle", NEW s \in {"idle", "work", "park", "mark"},
           Then(h, s)
    PROVE  HooksTyped'
<1>1. hook' = [hook EXCEPT ![h] = [pc |-> s, event |-> hook[h].event, saw |-> hook[h].saw]]
  <2>1. hook[h] \in [pc : {"idle", "work", "park", "mark"}, event : Event, saw : Status]
    BY DEF HooksTyped
  <2>2. [hook[h] EXCEPT !.pc = s] = [pc |-> s, event |-> hook[h].event, saw |-> hook[h].saw]
    BY <2>1
  <2> QED BY <2>2 DEF Then
<1> QED BY <1>1, HookMoves DEF HooksTyped

LEMMA JobsStay ==
    ASSUME JobsTyped, job' = job, Grows
    PROVE  JobsTyped'
BY DEF JobsTyped, Grows

LEMMA JobDone ==
    ASSUME JobsTyped, Grows, NEW w \in Workers, Released(w)
    PROVE  JobsTyped'
<1>1. /\ NoJob.pc = "idle" /\ NoJob.by = "none" /\ NoJob.pay = None /\ NoJob.key \in Seqs \X Nat
      /\ NoJob \in [pc : {"idle", "call", "books"}, by : {"none", "view", "task"}, pay : Payments \cup {None},
                            key : Seqs \X Nat, full : BOOLEAN, row : Row]
  <2>1. NoRow \in Row
    BY GatewayAssumption DEF NoRow, NoRaw, Row, Status, Reasons, Raw, Seqs, Alias
  <2> QED BY <2>1, GatewayAssumption DEF NoJob, Seqs
<1> QED BY <1>1 DEF JobsTyped, Grows, Released

LEMMA JobStarts ==
    ASSUME JobsTyped, Grows, NEW w \in Workers, NEW by \in {"view", "task"}, NEW p \in Payments, NEW k \in RefundKeys,
           NEW full \in BOOLEAN, NEW row \in Row,
           job' = [job EXCEPT ![w] = [pc |-> "call", by |-> by, pay |-> p, key |-> k, full |-> full, row |-> row]]
    PROVE  JobsTyped'
BY Keys DEF JobsTyped, Grows


-----------------------------------------------------------------------------
(* Every action keeps the types and has an effect of one of the kinds.     *)

LEMMA NoRawType == NoRaw \in Raw
BY GatewayAssumption DEF NoRaw, Raw, Seqs, Alias

LEMMA RawType == Typed => \A p \in Payments : gp[p].raw \in Raw
BY DEF Typed, GpTyped, Row

LEMMA Alone == UNCHANGED refunded => Grows
BY DEF Grows

LEMMA HandleCaptureKeeps ==
    ASSUME Typed, NEW h \in Handlers, HandleCapture(h)
    PROVE  Typed' /\ Effect /\ gp'[hook[h].event.pay].status \in CapturedLike
<1>1. hook[h].event.pay \in Payments /\ hook[h].pc # "idle"
  BY DEF Typed, HooksTyped, HandleCapture, Working
<1>2. Effect /\ GpTyped' /\ ReceiptTyped' /\ CountsTyped' /\ gp'[hook[h].event.pay].status \in CapturedLike
  BY <1>1, NoRawType, FinalizeEffect DEF HandleCapture
<1>3. HooksTyped' /\ JobsTyped'
  BY <1>1, Alone, HookThen, JobsStay DEF Typed, HandleCapture, provider
<1>4. OutboxTyped' /\ DeadTyped' /\ ProviderTyped'
  BY DEF Typed, HandleCapture, OutboxTyped, DeadTyped, ProviderTyped, provider, events
<1> QED BY <1>2, <1>3, <1>4 DEF Typed

LEMMA RetryKeeps ==
    ASSUME Typed, NEW p \in Payments, Reconcile(p) \/ RetryBooks(p)
    PROVE  Typed' /\ Effect
<1>1. Effect /\ GpTyped' /\ ReceiptTyped' /\ CountsTyped'
  BY RawType, FinalizeEffect DEF Reconcile, RetryBooks
<1>2. HooksTyped' /\ JobsTyped'
  BY Alone, HooksStay, JobsStay DEF Typed, Reconcile, RetryBooks, provider, threads
<1>3. OutboxTyped' /\ DeadTyped' /\ ProviderTyped'
  BY DEF Typed, Reconcile, RetryBooks, OutboxTyped, DeadTyped, ProviderTyped, provider, events
<1> QED BY <1>1, <1>2, <1>3 DEF Typed

LEMMA ReplayKeeps ==
    ASSUME Typed, NEW p \in Payments, ReplayDeadLetter(p)
    PROVE  Typed' /\ Effect /\ gp'[p].status \in CapturedLike
<1>1. Effect /\ GpTyped' /\ ReceiptTyped' /\ CountsTyped' /\ gp'[p].status \in CapturedLike
  BY NoRawType, FinalizeEffect DEF ReplayDeadLetter
<1>2. HooksTyped' /\ JobsTyped'
  BY Alone, HooksStay, JobsStay DEF Typed, ReplayDeadLetter, provider, threads
<1>3. OutboxTyped' /\ DeadTyped' /\ ProviderTyped'
  BY DEF Typed, ReplayDeadLetter, OutboxTyped, DeadTyped, ProviderTyped, provider
<1> QED BY <1>1, <1>2, <1>3 DEF Typed

LEMMA ParkKeeps ==
    ASSUME Typed, NEW h \in Handlers, ParkRefused(h)
    PROVE  Typed' /\ Effect
<1> DEFINE p == hook[h].event.pay
           parked == [status |-> "CAPTURED_PENDING_BOOKS", reason |-> "UTR_CLASH", raw |-> gp[p].raw]
<1>1. p \in Payments /\ hook[h].pc # "idle"
  BY DEF Typed, HooksTyped, ParkRefused
<1>2. gp' = gp \/ (Timely(p) /\ gp' = [gp EXCEPT ![p] = parked])
  BY DEF ParkRefused, Parked
<1>3. receipt' = receipt /\ booked' = booked /\ released' = released /\ invoice' = invoice
  BY DEF ParkRefused, books
<1>4. ReceiptTyped' /\ CountsTyped'
  BY <1>3 DEF Typed, ReceiptTyped, CountsTyped, Live
<1>5. parked \in Row
  BY <1>1, RawType DEF Row, Status, Accounted, Refundable, CapturedLike, Reasons
<1>6. GpTyped'
  BY <1>1, <1>2, <1>5 DEF Typed, GpTyped
<1>7. Effect
  <2> SUFFICES ASSUME NEW q \in Payments PROVE Quiet(q) \/ Captured(q)
    BY DEF Effect
  <2>1. CASE gp' = gp \/ q # p
    BY <1>1, <1>2, <1>3, <2>1 DEF Quiet, Live, Typed, GpTyped
  <2>2. CASE gp' # gp /\ q = p
    BY <1>1, <1>2, <1>3, <2>2 DEF Captured, Live, CapturedLike, Typed, GpTyped
  <2> QED BY <2>1, <2>2
<1>8. HooksTyped' /\ JobsTyped'
  <2>1. Done(h) \/ Then(h, "mark")
    BY DEF ParkRefused
  <2> QED BY <1>1, <2>1, Alone, HookDone, HookThen, JobsStay DEF Typed, ParkRefused, provider
<1>9. OutboxTyped' /\ DeadTyped' /\ ProviderTyped'
  BY DEF Typed, ParkRefused, OutboxTyped, DeadTyped, ProviderTyped, provider, events
<1> QED BY <1>4, <1>6, <1>7, <1>8, <1>9 DEF Typed

(* The row and the receipt at the end of a refund.                         *)
LEMMA RefundEffect ==
    ASSUME Typed, NEW p \in Payments, NEW raw, NEW a \in Nat, NEW full \in BOOLEAN, NEW alias, NEW row \in Row,
           UnwindBooks(p, raw, a, full, alias), UNCHANGED invoice,
           gp' = [gp EXCEPT ![p] = row], row.status \in Returned
    PROVE  Effect /\ GpTyped' /\ ReceiptTyped' /\ CountsTyped' /\ Unwinding(p, raw, a, full, alias)
<1>1. Unwinding(p, raw, a, full, alias)
  BY UnwindStep
<1>2. GpTyped'
  BY DEF Typed, GpTyped
<1>3. \A q \in Payments : q # p => Quiet(q)
  BY <1>1 DEF Unwinding, Quiet, Live, Typed, GpTyped
<1>4. GivenBack(p)
  BY <1>1 DEF Unwinding, GivenBack, Typed, GpTyped
<1> QED BY <1>1, <1>2, <1>3, <1>4 DEF Effect, Unwinding

LEMMA HandleRefundKeeps ==
    ASSUME Typed, NEW h \in Handlers, HandleRefund(h)
    PROVE  Typed' /\ Effect
<1> DEFINE p == hook[h].event.pay
           k == hook[h].event.id
           alias == <<"prov", k>>
           full == k[2] >= Remaining(p, gp[p].raw)
           row == RowAfter(gp[p], k[2], full, alias, {})
<1>1. p \in Payments /\ k \in RefundKeys /\ hook[h].pc # "idle" /\ gp[p] \in Row /\ alias \in Alias
  BY DEF Typed, HooksTyped, ProviderTyped, GpTyped, HandleRefund, Working, Alias
<1>2. k[2] \in Nat
  BY <1>1, Keys
<1>3. full \in BOOLEAN
  OBVIOUS
<1>4. row \in Row /\ row.status \in Returned
  <2> HIDE DEF full, alias
  <2> QED BY <1>1, <1>2, <1>3, RowAfterType DEF Returned
<1>5. \/ gp' = gp /\ UNCHANGED books
      \/ UnwindBooks(p, gp[p].raw, k[2], full, alias) /\ gp' = [gp EXCEPT ![p] = row]
  BY DEF HandleRefund
<1>6. invoice' = invoice
  BY DEF HandleRefund
<1>7. Effect /\ GpTyped' /\ ReceiptTyped' /\ CountsTyped'
  <2>1. CASE gp' = gp /\ UNCHANGED books
    BY <1>6, <2>1, NoEffect DEF books, Typed, GpTyped, ReceiptTyped, CountsTyped, Live
  <2>2. CASE UnwindBooks(p, gp[p].raw, k[2], full, alias) /\ gp' = [gp EXCEPT ![p] = row]
    <3> HIDE DEF full, alias, row, p, k
    <3> QED BY <1>1, <1>2, <1>3, <1>4, <1>6, <2>2, RefundEffect
  <2> QED BY <1>5, <2>1, <2>2
<1>8. HooksTyped' /\ JobsTyped'
  BY <1>1, Alone, HookThen, JobsStay DEF Typed, HandleRefund, provider
<1>9. OutboxTyped' /\ DeadTyped' /\ ProviderTyped'
  BY DEF Typed, HandleRefund, OutboxTyped, DeadTyped, ProviderTyped, provider, events
<1> QED BY <1>7, <1>8, <1>9 DEF Typed


LEMMA OutboxWrite ==
    ASSUME OutboxTyped, NEW p \in Payments, NEW k \in RefundKeys, NEW n \in Nat,
           NEW s \in {"PENDING", "IN_PROGRESS", "FAILED", "SUCCEEDED"},
           outbox' = [outbox EXCEPT ![p][k] = [status |-> s, attempts |-> n]]
    PROVE  OutboxTyped'
BY DEF OutboxTyped

LEMMA FailedType ==
    ASSUME OutboxTyped, NEW p \in Payments, NEW k \in RefundKeys, outbox' = [outbox EXCEPT ![p][k].status = "FAILED"]
    PROVE  OutboxTyped'
BY DEF OutboxTyped

LEMMA SucceededType ==
    ASSUME Typed, NEW p \in Payments, NEW k \in RefundKeys, outbox' = Succeeded(p, k)
    PROVE  OutboxTyped'
BY DEF Typed, OutboxTyped, Succeeded

LEMMA AliasType ==
    ASSUME NEW k \in RefundKeys
    PROVE  Aliases(k) \in SUBSET Alias /\ <<"idem", k>> \in Alias /\ <<"prov", k>> \in Alias
BY DEF Aliases, Alias

LEMMA FinishViewKeeps ==
    ASSUME Typed, NEW w \in Workers, FinishView(w)
    PROVE  Typed' /\ Effect
<1> DEFINE p == job[w].pay
           k == job[w].key
           raw == gp[p].raw
           full == job[w].full
           alias == <<"idem", k>>
           row == RowAfter(gp[p], k[2], full, alias, Aliases(k))
<1>1. p \in Payments /\ k \in RefundKeys /\ full \in BOOLEAN /\ gp[p] \in Row
  BY DEF Typed, JobsTyped, GpTyped, FinishView
<1>2. k[2] \in Nat /\ alias \in Alias /\ Aliases(k) \in SUBSET Alias
  BY <1>1, Keys, AliasType
<1>3. row \in Row /\ row.status \in Returned
  <2> HIDE DEF full, alias, k
  <2> QED BY <1>1, <1>2, RowAfterType DEF Returned
<1>4. \/ gp' = [gp EXCEPT ![p].raw.keys = @ \cup Aliases(k)] /\ UNCHANGED books
      \/ UnwindBooks(p, raw, k[2], full, alias) /\ gp' = [gp EXCEPT ![p] = row]
  BY DEF FinishView
<1>5. invoice' = invoice /\ outbox' = Succeeded(p, k) /\ Released(w)
  BY DEF FinishView
<1>6. Effect /\ GpTyped' /\ ReceiptTyped' /\ CountsTyped'
  <2>1. CASE gp' = [gp EXCEPT ![p].raw.keys = @ \cup Aliases(k)] /\ UNCHANGED books
    <3> HIDE DEF p, k
    <3>1. GpTyped'
      BY <1>1, <1>2, <2>1 DEF Typed, GpTyped, Row, Raw
    <3>2. \A q \in Payments : gp'[q].status = gp[q].status
      BY <1>1, <2>1 DEF Typed, GpTyped, Row
    <3> QED BY <1>5, <2>1, <3>1, <3>2 DEF books, Typed, ReceiptTyped, CountsTyped, Live, Effect, Quiet
  <2>2. CASE UnwindBooks(p, raw, k[2], full, alias) /\ gp' = [gp EXCEPT ![p] = row]
    <3> HIDE DEF full, alias, row, p, k, raw
    <3> QED BY <1>1, <1>2, <1>3, <1>5, <2>2, RefundEffect
  <2> QED BY <1>4, <2>1, <2>2
<1>7. OutboxTyped'
  BY <1>1, <1>5, SucceededType
<1>8. HooksTyped' /\ JobsTyped'
  BY <1>5, Alone, HooksStay, JobDone DEF Typed, FinishView, provider
<1>9. DeadTyped' /\ ProviderTyped'
  BY DEF Typed, FinishView, DeadTyped, ProviderTyped, provider, events
<1> QED BY <1>6, <1>7, <1>8, <1>9 DEF Typed

LEMMA FinishTaskKeeps ==
    ASSUME Typed, NEW w \in Workers, FinishTask(w)
    PROVE  Typed' /\ Effect
<1> DEFINE p == job[w].pay
           k == job[w].key
           full == job[w].full
           alias == <<"idem", k>>
           read == RowAfter(job[w].row, k[2], full, alias, Aliases(k))
           row == [read EXCEPT !.reason = gp[p].reason]
<1>1. p \in Payments /\ k \in RefundKeys /\ full \in BOOLEAN /\ gp[p] \in Row /\ job[w].row \in Row
  BY DEF Typed, JobsTyped, GpTyped, FinishTask
<1>2. k[2] \in Nat /\ alias \in Alias /\ Aliases(k) \in SUBSET Alias
  BY <1>1, Keys, AliasType
<1>3. row \in Row /\ row.status \in Returned
  <2>1. read \in Row /\ read.status \in Returned
    <3> HIDE DEF full, alias, k
    <3> QED BY <1>1, <1>2, RowAfterType DEF Returned
  <2> HIDE DEF read
  <2> QED BY <1>1, <2>1 DEF Row
<1>4. \/ gp' = gp /\ UNCHANGED books
      \/ gp' = [gp EXCEPT ![p].status = "REFUNDED"] /\ UNCHANGED books
      \/ UnwindBooks(p, job[w].row.raw, k[2], full, alias) /\ gp' = [gp EXCEPT ![p] = row]
  BY DEF FinishTask
<1>5. invoice' = invoice /\ outbox' = Succeeded(p, k) /\ Released(w)
  BY DEF FinishTask
<1>6. Effect /\ GpTyped' /\ ReceiptTyped' /\ CountsTyped'
  <2>1. CASE gp' = gp /\ UNCHANGED books
    BY <1>5, <2>1, NoEffect DEF books, Typed, GpTyped, ReceiptTyped, CountsTyped, Live
  <2>2. CASE gp' = [gp EXCEPT ![p].status = "REFUNDED"] /\ UNCHANGED books
    <3> HIDE DEF p, k
    <3>1. GpTyped'
      BY <1>1, <2>2 DEF Typed, GpTyped, Row, Status, Accounted
    <3>2. receipt' = receipt /\ booked' = booked /\ released' = released
      BY <2>2 DEF books
    <3>3. ReceiptTyped' /\ CountsTyped'
      BY <1>5, <3>2 DEF Typed, ReceiptTyped, CountsTyped, Live
    <3>4. \A q \in Payments : gp'[q].status \in {gp[q].status, "REFUNDED"}
      BY <1>1, <2>2 DEF Typed, GpTyped, Row
    <3>5. Effect
      BY <3>2, <3>4 DEF Effect, Quiet, GivenBack, Returned, Live, Typed, ReceiptTyped, CountsTyped
    <3> QED BY <3>1, <3>3, <3>5
  <2>3. CASE UnwindBooks(p, job[w].row.raw, k[2], full, alias) /\ gp' = [gp EXCEPT ![p] = row]
    <3> HIDE DEF full, alias, row, p, k
    <3> QED BY <1>1, <1>2, <1>3, <1>5, <2>3, RefundEffect
  <2> QED BY <1>4, <2>1, <2>2, <2>3
<1>7. OutboxTyped'
  BY <1>1, <1>5, SucceededType
<1>8. HooksTyped' /\ JobsTyped'
  BY <1>5, Alone, HooksStay, JobDone DEF Typed, FinishTask, provider
<1>9. DeadTyped' /\ ProviderTyped'
  BY DEF Typed, FinishTask, DeadTyped, ProviderTyped, provider, events
<1> QED BY <1>6, <1>7, <1>8, <1>9 DEF Typed

(* The view's first phase changes the payment's counter only.              *)
LEMMA RefundKeeps ==
    ASSUME Typed, NEW w \in Workers, NEW p \in Payments, NEW a \in Partials \cup {Amount[p]}, Refund(w, p, a)
    PROVE  Typed' /\ Effect
<1> DEFINE k == <<gp[p].raw.seq + 1, a>>
           full == a >= Remaining(p, gp[p].raw)
<1>1. gp[p] \in Row /\ gp[p].raw \in Raw /\ gp[p].raw.seq < MaxSeq
  BY DEF Typed, GpTyped, Row, Refund
<1>2. gp[p].raw.seq + 1 \in Seqs
  BY <1>1, GatewayAssumption DEF Raw, Seqs
<1>3. k \in RefundKeys
  BY <1>2, Keys
<1>4. gp' = [gp EXCEPT ![p].raw.seq = @ + 1] /\ UNCHANGED <<books, invoice>>
  BY DEF Refund
<1>5. GpTyped' /\ \A q \in Payments : gp'[q].status = gp[q].status
  BY <1>1, <1>2, <1>4 DEF Typed, GpTyped, Row, Raw
<1>6. ReceiptTyped' /\ CountsTyped' /\ Effect
  BY <1>4, <1>5 DEF books, Typed, ReceiptTyped, CountsTyped, Live, Effect, Quiet
<1>7. OutboxTyped'
  BY <1>3 DEF Refund, Typed, OutboxTyped
<1>8. HooksTyped'
  BY Alone, HooksStay DEF Refund, Typed, provider
<1>9. JobsTyped'
  <2>1. job' = [job EXCEPT ![w] = [pc |-> "call", by |-> "view", pay |-> p, key |-> k, full |-> full, row |-> NoRow]]
    BY DEF Refund
  <2>2. NoRow \in Row
    BY NoRawType DEF NoRow, Row, Status, Reasons
  <2>3. full \in BOOLEAN
    OBVIOUS
  <2>4. UNCHANGED refunded
    BY DEF Refund, provider
  <2>5. JobsTyped
    BY DEF Typed
  <2> HIDE DEF k, full
  <2> QED BY <1>3, <2>1, <2>2, <2>3, <2>4, <2>5, Alone, JobStarts
<1>10. DeadTyped' /\ ProviderTyped'
  BY DEF Typed, Refund, DeadTyped, ProviderTyped, provider, events
<1> QED BY <1>5, <1>6, <1>7, <1>8, <1>9, <1>10 DEF Typed

LEMMA ClaimKeeps ==
    ASSUME Typed, NEW w \in Workers, NEW p \in Payments, NEW k \in RefundKeys, Claim(w, p, k)
    PROVE  Typed' /\ Effect
<1> DEFINE full == k[2] >= Remaining(p, gp[p].raw)
<1>1. gp' = gp /\ UNCHANGED <<books, invoice, events, provider, hook>>
  BY DEF Claim
<1>2. GpTyped' /\ ReceiptTyped' /\ CountsTyped' /\ DeadTyped' /\ ProviderTyped' /\ Effect
  BY <1>1, NoEffect DEF books, events, provider, Typed, GpTyped, ReceiptTyped, CountsTyped, DeadTyped, ProviderTyped, Live
<1>3. OutboxTyped'
  <2>1. \/ outbox' = Succeeded(p, k)
        \/ outbox' = [outbox EXCEPT ![p][k] = [status |-> "IN_PROGRESS", attempts |-> outbox[p][k].attempts + 1]]
    BY DEF Claim
  <2>2. outbox[p][k].attempts + 1 \in Nat
    BY DEF Typed, OutboxTyped
  <2> QED BY <2>1, <2>2, OutboxWrite, SucceededType DEF Typed
<1>4. HooksTyped'
  BY <1>1, Alone, HooksStay DEF Typed, provider
<1>5. JobsTyped'
  <2>1. \/ job' = job
        \/ job' = [job EXCEPT ![w] = [pc |-> "call", by |-> "task", pay |-> p, key |-> k, full |-> full, row |-> gp[p]]]
    BY DEF Claim
  <2>2. gp[p] \in Row /\ JobsTyped /\ full \in BOOLEAN /\ UNCHANGED refunded
    BY <1>1 DEF Typed, GpTyped, provider
  <2> HIDE DEF full
  <2> QED BY <2>1, <2>2, Alone, JobStarts, JobsStay
<1> QED BY <1>2, <1>3, <1>4, <1>5 DEF Typed

(* The provider's part of a refund.                                        *)
LEMMA CallKeeps ==
    ASSUME Typed, NEW w \in Workers, CallProvider(w) \/ CallRefused(w) \/ CallFails(w) \/ BooksRefuse(w) \/ WorkerDies(w)
    PROVE  Typed' /\ Effect
<1> DEFINE p == job[w].pay
           k == job[w].key
<1>1. p \in Payments /\ k \in RefundKeys
  BY DEF Typed, JobsTyped, CallProvider, CallRefused, CallFails, BooksRefuse, WorkerDies
<1>2. UNCHANGED <<gp, books, invoice, events, hook, paid>>
  BY DEF CallProvider, CallRefused, CallFails, BooksRefuse, WorkerDies, provider
<1>3. GpTyped' /\ ReceiptTyped' /\ CountsTyped' /\ DeadTyped' /\ Effect
  BY <1>2, NoEffect DEF books, events, Typed, GpTyped, ReceiptTyped, CountsTyped, DeadTyped, Live
<1>4. refunded' = refunded \/ refunded' = [refunded EXCEPT ![p] = @ \cup {k}]
  BY DEF CallProvider, CallRefused, CallFails, BooksRefuse, WorkerDies, provider
<1>5. ProviderTyped' /\ Grows
  BY <1>1, <1>2, <1>4 DEF Typed, ProviderTyped, Grows
<1>6. OutboxTyped'
  <2>1. Deferred(w) \/ outbox' = outbox
    BY DEF CallProvider, CallRefused, CallFails, BooksRefuse, WorkerDies
  <2>2. outbox' = outbox \/ outbox' = [outbox EXCEPT ![p][k].status = "FAILED"]
    BY <2>1 DEF Deferred
  <2> HIDE DEF p, k
  <2>3. CASE outbox' = outbox
    BY <2>3 DEF Typed, OutboxTyped
  <2>4. CASE outbox' = [outbox EXCEPT ![p][k].status = "FAILED"]
    BY <1>1, <2>4, FailedType DEF Typed
  <2> QED BY <2>2, <2>3, <2>4
<1>7. HooksTyped'
  BY <1>2, <1>5, HooksStay DEF Typed
<1>8. JobsTyped'
  <2>1. CASE Released(w)
    BY <1>5, <2>1, JobDone DEF Typed
  <2>2. CASE CallProvider(w)
    <3>1. job' = [job EXCEPT ![w].pc = "books"] /\ k \in refunded'[p]
      BY <1>1, <2>2 DEF CallProvider, Typed, ProviderTyped
    <3>2. job[w].pc = "call" /\ JobsTyped
      BY <2>2 DEF CallProvider, Typed
    <3>3. /\ job'[w].pc = "books" /\ job'[w].pay = p /\ job'[w].key = k
          /\ \A v \in Workers : v # w => job'[v] = job[v]
      BY <3>1, <3>2 DEF JobsTyped
    <3>4. job' \in [Workers -> [pc : {"idle", "call", "books"}, by : {"none", "view", "task"},
                               pay : Payments \cup {None}, key : Seqs \X Nat, full : BOOLEAN, row : Row]]
      BY <3>1, <3>2 DEF JobsTyped
    <3> HIDE DEF p, k
    <3>5. ASSUME NEW v \in Workers, job'[v].pc # "idle"
          PROVE  /\ job'[v].pay \in Payments
                 /\ job'[v].key \in RefundKeys
                 /\ job'[v].pc = "books" => job'[v].key \in refunded'[job'[v].pay]
      <4>1. CASE v = w
        BY <1>1, <3>1, <3>3, <4>1
      <4>2. CASE v # w
        BY <1>5, <3>2, <3>3, <3>5, <4>2 DEF JobsTyped, Grows
      <4> QED BY <4>1, <4>2
    <3> QED BY <3>4, <3>5 DEF JobsTyped
  <2> QED BY <2>1, <2>2 DEF CallProvider, CallRefused, CallFails, BooksRefuse, WorkerDies
<1> QED BY <1>3, <1>5, <1>6, <1>7, <1>8 DEF Typed


LEMMA HookRecord ==
    ASSUME NEW x \in [pc : {"idle", "work", "park", "mark"}, event : Event, saw : Status], NEW s, NEW v
    PROVE  [x EXCEPT !.pc = s, !.saw = v] = [pc |-> s, event |-> x.event, saw |-> v]
<1> DEFINE y == [x EXCEPT !.pc = s]
<1>1. y = [pc |-> s, event |-> x.event, saw |-> x.saw]
  OBVIOUS
<1>2. [x EXCEPT !.pc = s, !.saw = v] = [y EXCEPT !.saw = v]
  OBVIOUS
<1>3. [y EXCEPT !.saw = v] = [pc |-> s, event |-> x.event, saw |-> v]
  <2> HIDE DEF y
  <2> QED BY <1>1
<1> QED BY <1>2, <1>3

(* Handlers that leave the books alone.                                    *)
LEMMA HandlerKeeps ==
    ASSUME Typed, NEW h \in Handlers,
           CaptureRefused(h) \/ CaptureFails(h) \/ MarkSeen(h) \/ RefundRefused(h) \/ HandlerStops(h)
    PROVE  Typed' /\ Effect
<1>1. hook[h].event.pay \in Payments /\ hook[h].pc # "idle"
  BY DEF Typed, HooksTyped, CaptureRefused, CaptureFails, MarkSeen, RefundRefused, HandlerStops, Working
<1>2. UNCHANGED <<gp, books, invoice, outbox, provider, job>>
  BY DEF CaptureRefused, CaptureFails, MarkSeen, RefundRefused, HandlerStops
<1>3. GpTyped' /\ ReceiptTyped' /\ CountsTyped' /\ OutboxTyped' /\ ProviderTyped' /\ Effect
  BY <1>2, NoEffect DEF books, provider, Typed, GpTyped, ReceiptTyped, CountsTyped, OutboxTyped, ProviderTyped, Live
<1>4. Grows /\ JobsTyped'
  BY <1>2, Alone, JobsStay DEF Typed, provider
<1>5. DeadTyped'
  <2>1. CASE CaptureFails(h)
    BY <1>1, <2>1 DEF CaptureFails, Typed, DeadTyped
  <2>2. CASE CaptureRefused(h) \/ MarkSeen(h) \/ RefundRefused(h) \/ HandlerStops(h)
    BY <2>2 DEF CaptureRefused, MarkSeen, RefundRefused, HandlerStops, events, Typed, DeadTyped
  <2> QED BY <2>1, <2>2
<1>6. HooksTyped'
  <2>1. CASE CaptureRefused(h)
    <3>1. hook' = [hook EXCEPT ![h] = [pc |-> "park", event |-> hook[h].event, saw |-> gp[hook[h].event.pay].status]]
      <4>1. hook[h] \in [pc : {"idle", "work", "park", "mark"}, event : Event, saw : Status]
        BY DEF Typed, HooksTyped
      <4>2. hook' = [hook EXCEPT ![h].pc = "park", ![h].saw = gp[hook[h].event.pay].status]
        BY <2>1 DEF CaptureRefused
      <4>3. [hook[h] EXCEPT !.pc = "park", !.saw = gp[hook[h].event.pay].status]
              = [pc |-> "park", event |-> hook[h].event, saw |-> gp[hook[h].event.pay].status]
        BY <4>1, HookRecord
      <4> QED BY <4>2, <4>3
    <3>2. gp[hook[h].event.pay].status \in Status
      BY <1>1 DEF Typed, GpTyped, Row
    <3> QED BY <1>1, <1>4, <3>1, <3>2, HookMoves DEF Typed
  <2>2. CASE CaptureFails(h) \/ MarkSeen(h) \/ RefundRefused(h) \/ HandlerStops(h)
    BY <1>4, <2>2, HookDone DEF CaptureFails, MarkSeen, RefundRefused, HandlerStops, Typed
  <2> QED BY <2>1, <2>2
<1> QED BY <1>3, <1>4, <1>5, <1>6 DEF Typed

LEMMA DeliverKeeps ==
    ASSUME Typed, NEW h \in Handlers, NEW e \in Sent, Deliver(h, e)
    PROVE  Typed' /\ Effect
<1>1. UNCHANGED <<gp, books, invoice, outbox, events, provider, job>>
  BY DEF Deliver
<1>2. GpTyped' /\ ReceiptTyped' /\ CountsTyped' /\ OutboxTyped' /\ DeadTyped' /\ ProviderTyped' /\ Effect
  BY <1>1, NoEffect
     DEF books, provider, events, Typed, GpTyped, ReceiptTyped, CountsTyped, OutboxTyped, DeadTyped, ProviderTyped, Live
<1>3. Grows /\ JobsTyped'
  BY <1>1, Alone, JobsStay DEF Typed, provider
<1>4. e \in Event /\ e.pay \in Payments /\ (e.kind = "refund" => e.id \in refunded[e.pay])
  BY DEF Sent, CaptureEvent, RefundEvent, Event, Typed, ProviderTyped
<1>5. HooksTyped'
  BY <1>3, <1>4 DEF Deliver, Typed, HooksTyped, Grows, Status
<1> QED BY <1>2, <1>3, <1>5 DEF Typed

(* Steps outside the threads that leave the books alone.                   *)
LEMMA WorldKeeps ==
    ASSUME Typed,
           \/ \E p \in Payments : AutoRefund(p) \/ ReplayFails(p) \/ Pay(p)
           \/ PayElsewhere \/ LinkExpires \/ CancelLink \/ CancelInvoice \/ ClosePeriod \/ OpenPeriod
    PROVE  Typed' /\ Effect
<1>1. UNCHANGED <<gp, books, refunded, threads>>
  BY DEF AutoRefund, ReplayFails, Pay, PayElsewhere, LinkExpires, CancelLink, CancelInvoice, ClosePeriod, OpenPeriod, provider
<1>2. GpTyped' /\ ReceiptTyped' /\ Effect
  BY <1>1, NoEffect DEF books, Typed, GpTyped, ReceiptTyped, Live
<1>3. HooksTyped' /\ JobsTyped'
  BY <1>1, Alone, HooksStay, JobsStay DEF Typed, threads
<1>4. CountsTyped'
  <2>1. invoice' = invoice \/ PayElsewhere \/ CancelInvoice
    BY DEF AutoRefund, ReplayFails, Pay, LinkExpires, CancelLink, ClosePeriod, OpenPeriod
  <2>2. PayElsewhere => invoice' \in [cancelled : BOOLEAN, other : Nat]
    <3>1. invoice.other + Outstanding \in Nat
      BY OutstandingType DEF Typed, CountsTyped
    <3> QED BY <3>1 DEF PayElsewhere, Typed, CountsTyped
  <2>3. CancelInvoice => invoice' \in [cancelled : BOOLEAN, other : Nat]
    BY DEF CancelInvoice, Typed, CountsTyped
  <2> QED BY <1>1, <2>1, <2>2, <2>3 DEF books, Typed, CountsTyped
<1>5. ProviderTyped'
  <2>1. paid' = paid \/ \E p \in Payments : Pay(p)
    BY DEF AutoRefund, ReplayFails, PayElsewhere, LinkExpires, CancelLink, CancelInvoice, ClosePeriod, OpenPeriod, provider
  <2> QED BY <1>1, <2>1 DEF Pay, Typed, ProviderTyped
<1>6. OutboxTyped'
  <2>1. CASE outbox' = outbox
    BY <2>1 DEF Typed, OutboxTyped
  <2>2. ASSUME NEW p \in Payments, AutoRefund(p) PROVE OutboxTyped'
    BY <2>2, Keys, OutboxWrite DEF AutoRefund, Typed
  <2> QED BY <2>1, <2>2
          DEF ReplayFails, Pay, PayElsewhere, LinkExpires, CancelLink, CancelInvoice, ClosePeriod, OpenPeriod
<1>7. DeadTyped'
  <2>1. CASE dead' = dead
    BY <2>1 DEF Typed, DeadTyped
  <2>2. ASSUME NEW p \in Payments, ReplayFails(p) PROVE DeadTyped'
    BY <2>2 DEF ReplayFails, Typed, DeadTyped
  <2> QED BY <2>1, <2>2
          DEF AutoRefund, Pay, PayElsewhere, LinkExpires, CancelLink, CancelInvoice, ClosePeriod, OpenPeriod, events
<1> QED BY <1>2, <1>3, <1>4, <1>5, <1>6, <1>7 DEF Typed

LEMMA StaffKeeps ==
    ASSUME Typed, NEW p \in Payments, NEW s \in {"manual", "clashing"}, StaffReceipt(p, s) \/ VoidStaffReceipt(p)
    PROVE  Typed' /\ Effect
<1>1. UNCHANGED <<gp, invoice, booked, released, outbox, events, provider, threads>>
  BY DEF StaffReceipt, VoidStaffReceipt
<1>2. GpTyped' /\ CountsTyped' /\ OutboxTyped' /\ DeadTyped' /\ ProviderTyped'
  BY <1>1 DEF provider, events, Typed, GpTyped, CountsTyped, OutboxTyped, DeadTyped, ProviderTyped
<1>3. HooksTyped' /\ JobsTyped'
  BY <1>1, Alone, HooksStay, JobsStay DEF Typed, threads, provider
<1>4. PICK t \in {"none", "manual", "clashing"} : receipt' = [receipt EXCEPT ![p].state = t] /\ ~Live(p)
  BY DEF StaffReceipt, VoidStaffReceipt, Live
<1>5. /\ receipt' \in [Payments -> [state : {"none", "manual", "clashing", "posted", "refunded"}, alloc : Nat]]
      /\ receipt'[p].state # "posted"
      /\ \A q \in Payments : receipt'[q].alloc = receipt[q].alloc /\ (q # p => receipt'[q] = receipt[q])
  BY <1>4 DEF Typed, ReceiptTyped
<1>6. ReceiptTyped'
  BY <1>4, <1>5 DEF Typed, ReceiptTyped, Live
<1>7. Effect
  BY <1>1, <1>4, <1>5 DEF Effect, Quiet, Live
<1> QED BY <1>2, <1>3, <1>6, <1>7 DEF Typed

LEMMA StepKeeps ==
    ASSUME Typed, [Next]_vars
    PROVE  Typed' /\ Effect
<1>1. CASE UNCHANGED vars
  BY <1>1, NoEffect DEF vars, Typed, GpTyped, ReceiptTyped, OutboxTyped, CountsTyped, DeadTyped,
        ProviderTyped, HooksTyped, JobsTyped, Live
<1>2. ASSUME NEW h \in Handlers, HandlerStep(h) PROVE Typed' /\ Effect
  BY <1>2, HandleCaptureKeeps, ParkKeeps, HandleRefundKeeps, HandlerKeeps DEF HandlerStep
<1>3. ASSUME NEW w \in Workers, WorkerStep(w) PROVE Typed' /\ Effect
  BY <1>3, CallKeeps, FinishViewKeeps, FinishTaskKeeps, ClaimKeeps DEF WorkerStep
<1>4. ASSUME NEW p \in Payments, BeatStep(p) PROVE Typed' /\ Effect
  BY <1>4, WorldKeeps, RetryKeeps, ReplayKeeps DEF BeatStep
<1>5. CASE Request
  BY <1>5, DeliverKeeps, RefundKeeps, RetryKeeps, StaffKeeps, WorldKeeps DEF Request
<1>6. CASE Trouble
  BY <1>6, HandlerKeeps, CallKeeps, StaffKeeps, WorldKeeps DEF Trouble
<1> QED BY <1>1, <1>2, <1>3, <1>4, <1>5, <1>6 DEF Next, Step

THEOREM Types == Spec => []Typed
BY InitTyped, StepKeeps, PTL DEF Spec


-----------------------------------------------------------------------------
(* No capture is dropped: NeverDropped speaks of what was answered; a      *)
(* handler about to answer has its capture accounted for, and one about to *)
(* park has seen a row that is not captured, so that it does park it.      *)

Answering(h) ==
    /\ hook[h].pc = "park" => hook[h].saw # "CAPTURED"
    /\ hook[h].pc = "mark" /\ hook[h].event.kind = "capture" => gp[hook[h].event.pay].status \in Accounted

AckInv == acked \subseteq Payments /\ NeverDropped /\ \A h \in Handlers : Answering(h)

LEMMA AccountedStays ==
    ASSUME Effect, NEW p \in Payments, gp[p].status \in Accounted
    PROVE  gp'[p].status \in Accounted
BY DEF Effect, Quiet, Captured, GivenBack, Returned, Accounted, Refundable, CapturedLike

(* The handlers that do not step go on being right.                        *)
LEMMA OthersAnswer ==
    ASSUME Typed, AckInv, Effect, NEW h \in Handlers, hook'[h] = hook[h]
    PROVE  Answering(h)'
<1>1. hook[h].pc # "idle" => hook[h].event.pay \in Payments
  BY DEF Typed, HooksTyped
<1> QED BY <1>1, AccountedStays DEF AckInv, Answering

LEMMA DroppedStays ==
    ASSUME AckInv, Effect, acked' = acked,
           \A p \in Payments : dead'[p].state = dead[p].state \/ gp'[p].status \in Accounted
                                 \/ dead'[p].state \in {"pending", "discarded"}
    PROVE  acked' \subseteq Payments /\ NeverDropped'
<1> SUFFICES ASSUME NEW p \in acked
             PROVE  gp'[p].status \in Accounted \/ dead'[p].state \in {"pending", "discarded"}
  BY DEF AckInv, NeverDropped
<1>1. p \in Payments
  BY DEF AckInv
<1> QED BY <1>1, AccountedStays DEF AckInv, NeverDropped

LEMMA AckStep == Typed /\ AckInv /\ [Next]_vars => AckInv'
<1> SUFFICES ASSUME Typed, AckInv, [Next]_vars PROVE AckInv'
  OBVIOUS
<1>e. Effect
  BY StepKeeps
<1>f. ASSUME hook' = hook, acked' = acked, dead' = dead PROVE AckInv'
  BY <1>e, <1>f, OthersAnswer, DroppedStays DEF AckInv
<1>h. ASSUME NEW h \in Handlers, NEW x, hook' = [hook EXCEPT ![h] = x], x.pc \in {"idle", "work"}
      PROVE  \A g \in Handlers : Answering(g)'
  <2>1. \A g \in Handlers : g # h => hook'[g] = hook[g]
    BY <1>h DEF Typed, HooksTyped
  <2>2. hook'[h].pc \in {"idle", "work"}
    BY <1>h DEF Typed, HooksTyped
  <2>3. Answering(h)'
    BY <2>2 DEF Answering
  <2> QED BY <1>e, <2>1, <2>3, OthersAnswer
<1>t. ASSUME NEW h \in Handlers, NEW s, Then(h, s)
      PROVE  /\ \A g \in Handlers : g # h => Answering(g)'
             /\ hook'[h].pc = s /\ hook'[h].event = hook[h].event /\ hook'[h].saw = hook[h].saw
  <2>1. /\ \A g \in Handlers : g # h => hook'[g] = hook[g]
        /\ hook'[h].pc = s /\ hook'[h].event = hook[h].event /\ hook'[h].saw = hook[h].saw
    BY <1>t DEF Then, Typed, HooksTyped
  <2> QED BY <1>e, <2>1, OthersAnswer
<1>d. ASSUME NEW h \in Handlers, Done(h) PROVE \A g \in Handlers : Answering(g)'
  BY <1>d, <1>h DEF Done, Idle
<1>1. ASSUME NEW h \in Handlers, HandleCapture(h) PROVE AckInv'
  <2>1. gp'[hook[h].event.pay].status \in Accounted
    BY <1>1, HandleCaptureKeeps DEF Accounted, Refundable
  <2>2. Answering(h)'
    BY <1>1, <1>t, <2>1 DEF Answering, HandleCapture
  <2> QED BY <1>1, <1>e, <1>t, <2>2, DroppedStays DEF AckInv, HandleCapture, events
<1>2. ASSUME NEW h \in Handlers, HandleRefund(h) PROVE AckInv'
  <2>1. Answering(h)'
    BY <1>2, <1>t DEF Answering, HandleRefund, Working
  <2> QED BY <1>2, <1>e, <1>t, <2>1, DroppedStays DEF AckInv, HandleRefund, events
<1>3. ASSUME NEW h \in Handlers, ParkRefused(h) PROVE AckInv'
  <2>1. acked' = acked /\ dead' = dead
    BY <1>3 DEF ParkRefused, events
  <2>2. CASE Done(h)
    BY <1>d, <1>e, <2>1, <2>2, DroppedStays DEF AckInv
  <2>3. CASE Then(h, "mark") /\ gp' = Parked(hook[h].event.pay, "UTR_CLASH", gp[hook[h].event.pay].raw)
    <3>1. hook[h].event.pay \in Payments
      BY <1>3 DEF ParkRefused, Typed, HooksTyped
    <3>2. gp'[hook[h].event.pay].status \in Accounted
      BY <2>3, <3>1 DEF Parked, Accounted, Refundable, CapturedLike, Typed, GpTyped
    <3>3. Answering(h)'
      BY <1>t, <2>3, <3>2 DEF Answering
    <3> QED BY <1>e, <1>t, <2>1, <2>3, <3>3, DroppedStays DEF AckInv
  <2>4. hook[h].saw # "CAPTURED"
    BY <1>3 DEF ParkRefused, AckInv, Answering
  <2> QED BY <1>3, <2>2, <2>3, <2>4 DEF ParkRefused
<1>4. ASSUME NEW h \in Handlers, CaptureRefused(h) PROVE AckInv'
  <2>1. /\ \A g \in Handlers : g # h => hook'[g] = hook[g]
        /\ hook'[h].pc = "park" /\ hook'[h].saw = gp[hook[h].event.pay].status
    BY <1>4 DEF CaptureRefused, Typed, HooksTyped
  <2>2. Answering(h)'
    BY <1>4, <2>1 DEF Answering, CaptureRefused, Refuses
  <2>3. acked' = acked /\ dead' = dead
    BY <1>4 DEF CaptureRefused, events
  <2> QED BY <1>e, <2>1, <2>2, <2>3, OthersAnswer, DroppedStays DEF AckInv
<1>5. ASSUME NEW h \in Handlers, MarkSeen(h) PROVE AckInv'
  <2> DEFINE p == hook[h].event.pay
  <2>1. p \in Payments
    BY <1>5 DEF MarkSeen, Typed, HooksTyped
  <2>2. hook[h].event.kind = "capture" => gp[p].status \in Accounted
    BY <1>5 DEF MarkSeen, AckInv, Answering
  <2>3. gp' = gp /\ dead' = dead /\ Done(h)
        /\ acked' = IF hook[h].event.kind = "capture" THEN acked \cup {p} ELSE acked
    BY <1>5 DEF MarkSeen
  <2> HIDE DEF p
  <2> QED BY <1>d, <2>1, <2>2, <2>3 DEF AckInv, NeverDropped
<1>6. ASSUME NEW h \in Handlers, CaptureFails(h) PROVE AckInv'
  <2> DEFINE p == hook[h].event.pay
  <2>1. p \in Payments
    BY <1>6 DEF CaptureFails, Working, Typed, HooksTyped
  <2>2. gp' = gp /\ Done(h) /\ acked' = acked \cup {p}
    BY <1>6 DEF CaptureFails
  <2>3. /\ dead'[p].state = "pending"
        /\ \A q \in Payments : q # p => dead'[q] = dead[q]
    BY <1>6, <2>1 DEF CaptureFails, Typed, DeadTyped
  <2> HIDE DEF p
  <2> QED BY <1>d, <2>1, <2>2, <2>3 DEF AckInv, NeverDropped
<1>7. ASSUME NEW h \in Handlers, RefundRefused(h) \/ HandlerStops(h) PROVE AckInv'
  <2>1. acked' = acked /\ dead' = dead /\ Done(h)
    BY <1>7 DEF RefundRefused, HandlerStops, events
  <2> QED BY <1>d, <1>e, <2>1, DroppedStays DEF AckInv
<1>8. ASSUME NEW h \in Handlers, NEW e \in Sent, Deliver(h, e) PROVE AckInv'
  <2>1. acked' = acked /\ dead' = dead
    BY <1>8 DEF Deliver, events
  <2>2. \A g \in Handlers : Answering(g)'
    BY <1>8, <1>h DEF Deliver
  <2> QED BY <1>e, <2>1, <2>2, DroppedStays DEF AckInv
<1>9. ASSUME NEW p \in Payments, ReplayDeadLetter(p) \/ ReplayFails(p) PROVE AckInv'
  <2>1. acked' = acked /\ hook' = hook
    BY <1>9 DEF ReplayDeadLetter, ReplayFails, threads
  <2>2. \A q \in Payments : q # p => dead'[q] = dead[q]
    BY <1>9 DEF ReplayDeadLetter, ReplayFails, Typed, DeadTyped
  <2>3. CASE ReplayDeadLetter(p)
    <3>1. gp'[p].status \in Accounted
      BY <2>3, ReplayKeeps DEF Accounted, Refundable
    <3> QED BY <1>e, <2>1, <2>2, <3>1, OthersAnswer, DroppedStays DEF AckInv
  <2>4. CASE ReplayFails(p)
    <3>1. dead'[p].state \in {"pending", "discarded"}
      BY <2>4 DEF ReplayFails, Typed, DeadTyped
    <3> QED BY <1>e, <2>1, <2>2, <3>1, OthersAnswer, DroppedStays DEF AckInv
  <2> QED BY <1>9, <2>3, <2>4
<1>10. ASSUME NEW p \in Payments,
              AutoRefund(p) \/ Reconcile(p) \/ RetryBooks(p) \/ Pay(p) \/ VoidStaffReceipt(p)
                \/ StaffReceipt(p, "manual") \/ StaffReceipt(p, "clashing")
       PROVE  AckInv'
  BY <1>10, <1>f DEF AutoRefund, Reconcile, RetryBooks, Pay, VoidStaffReceipt, StaffReceipt, threads, events
<1>11. ASSUME NEW w \in Workers, WorkerStep(w) \/ CallFails(w) \/ WorkerDies(w) PROVE AckInv'
  BY <1>11, <1>f
     DEF WorkerStep, CallProvider, CallRefused, FinishView, FinishTask, BooksRefuse, Claim, CallFails, WorkerDies, events
<1>12. ASSUME NEW w \in Workers, NEW p \in Payments, NEW a, Refund(w, p, a) PROVE AckInv'
  BY <1>12, <1>f DEF Refund, events
<1>13. CASE PayElsewhere \/ LinkExpires \/ CancelLink \/ CancelInvoice \/ ClosePeriod \/ OpenPeriod \/ UNCHANGED vars
  BY <1>13, <1>f DEF PayElsewhere, LinkExpires, CancelLink, CancelInvoice, ClosePeriod, OpenPeriod, vars, threads, events
<1>14. CASE Step
  BY <1>1, <1>2, <1>3, <1>4, <1>5, <1>7, <1>8, <1>9, <1>10, <1>11, <1>12, <1>13, <1>14
     DEF Step, HandlerStep, BeatStep, Request
<1>15. CASE Trouble
  BY <1>6, <1>7, <1>9, <1>10, <1>11, <1>13, <1>15 DEF Trouble
<1> QED BY <1>13, <1>14, <1>15 DEF Next

(* A capture answered with a 2xx is never lost: handlers may die, finalize *)
(* may fail, dead letters may be replayed or given up, at any point.       *)
THEOREM NothingIsDropped == Spec => []NeverDropped
<1>1. Init => AckInv
  BY DEF Init, AckInv, NeverDropped, Answering, Idle
<1>2. AckInv => NeverDropped
  BY DEF AckInv
<1> QED BY <1>1, <1>2, AckStep, Types, PTL DEF Spec


-----------------------------------------------------------------------------
(* Nothing is on a cancelled bill: the cancellation found nothing on it,   *)
(* and from then on finalize stops at the bill.                            *)

LEMMA CancelledOnlyByCancel ==
    ASSUME Typed, [Next]_vars, ~CancelInvoice
    PROVE  invoice'.cancelled = invoice.cancelled
<1>1. invoice' = invoice \/ PayElsewhere
  <2>1. ASSUME NEW h \in Handlers, HandlerStep(h) \/ CaptureFails(h) \/ HandlerStops(h) PROVE invoice' = invoice
    BY <2>1 DEF HandlerStep, HandleCapture, CaptureRefused, ParkRefused, HandleRefund, RefundRefused, MarkSeen,
                CaptureFails, HandlerStops
  <2>2. ASSUME NEW w \in Workers, WorkerStep(w) \/ CallFails(w) \/ WorkerDies(w) PROVE invoice' = invoice
    BY <2>2 DEF WorkerStep, CallProvider, CallRefused, FinishView, FinishTask, BooksRefuse, Claim, CallFails, WorkerDies
  <2>3. ASSUME NEW p \in Payments, BeatStep(p) \/ ReplayFails(p) PROVE invoice' = invoice
    BY <2>3 DEF BeatStep, AutoRefund, Reconcile, ReplayDeadLetter, ReplayFails
  <2>4. Request => invoice' = invoice
    BY DEF Request, Deliver, Refund, Pay, RetryBooks, VoidStaffReceipt, OpenPeriod
  <2>5. ASSUME NEW p \in Payments, StaffReceipt(p, "manual") \/ StaffReceipt(p, "clashing") PROVE invoice' = invoice
    BY <2>5 DEF StaffReceipt
  <2>6. LinkExpires \/ CancelLink \/ ClosePeriod => invoice' = invoice
    BY DEF LinkExpires, CancelLink, ClosePeriod
  <2>7. UNCHANGED vars => invoice' = invoice
    BY DEF vars
  <2> QED BY <2>1, <2>2, <2>3, <2>4, <2>5, <2>6, <2>7 DEF Next, Step, Trouble
<1> QED BY <1>1 DEF PayElsewhere, Typed, CountsTyped

LEMMA DeadBillStep == Typed /\ DeadBillIsFree /\ [Next]_vars => DeadBillIsFree'
<1> SUFFICES ASSUME Typed, DeadBillIsFree, [Next]_vars PROVE DeadBillIsFree'
  OBVIOUS
<1>1. CASE CancelInvoice
  <2>1. receipt' = receipt /\ gp' = gp /\ Allocated + invoice.other = 0
        /\ \A p \in Payments : gp[p].status \notin CapturedLike
    BY <1>1 DEF CancelInvoice, books
  <2>2. Allocated = 0
    BY <2>1, OutstandingType DEF Typed, CountsTyped
  <2>3. [p \in Payments |-> receipt[p].alloc] \in [Payments -> Amounts]
    BY GatewayAssumption, Keys DEF Typed, ReceiptTyped
  <2>4. \A p \in Payments : receipt[p].alloc <= Allocated
    BY <2>3, SumFacts DEF Allocated
  <2>5. \A p \in Payments : receipt[p].alloc = 0
    BY <2>2, <2>4 DEF Typed, ReceiptTyped
  <2> QED BY <2>1, <2>5 DEF DeadBillIsFree, CapturedLike
<1>2. CASE ~CancelInvoice
  <2> SUFFICES ASSUME invoice.cancelled, NEW p \in Payments
               PROVE  receipt'[p].alloc = 0 /\ gp'[p].status # "CAPTURED"
    BY <1>2, CancelledOnlyByCancel DEF DeadBillIsFree
  <2>1. receipt[p].alloc = 0 /\ gp[p].status # "CAPTURED"
    BY DEF DeadBillIsFree
  <2>2. Effect /\ receipt'[p].alloc \in Nat
    BY StepKeeps DEF Typed, ReceiptTyped
  <2> QED BY <2>1, <2>2 DEF Effect, Quiet, Captured, GivenBack, Returned
<1> QED BY <1>1, <1>2

(* Gateway money is never on a cancelled invoice, in whatever order the    *)
(* cancellation, the captures and their retries come.                      *)
THEOREM CancelledBillStaysFree == Spec => []DeadBillIsFree
<1>1. Init => DeadBillIsFree
  <2> SUFFICES ASSUME Init PROVE ~invoice.cancelled
    BY DEF DeadBillIsFree
  <2>1. invoice = [cancelled |-> FALSE, other |-> 0]
    BY DEF Init
  <2> QED BY <2>1
<1> QED BY <1>1, DeadBillStep, Types, PTL DEF Spec

-----------------------------------------------------------------------------
(* One receipt per payment, when no capture is finalized after its refund. *)
(* A receipt that was posted is still there or its payment was refunded.   *)

Kept == \A p \in Payments : booked[p] <= 1 /\ (booked[p] = 1 => Live(p) \/ gp[p].status \in Returned)

LEMMA KeptStep == ~LateCaptures /\ Typed /\ Kept /\ [Next]_vars => Kept'
<1> SUFFICES ASSUME ~LateCaptures, Typed, Kept, [Next]_vars, NEW p \in Payments
             PROVE  booked'[p] <= 1 /\ (booked'[p] = 1 => receipt'[p].state = "posted" \/ gp'[p].status \in Returned)
  BY DEF Kept, Live
<1>1. Effect /\ booked[p] \in Nat
  BY StepKeeps DEF Typed, CountsTyped
<1>2. booked[p] <= 1 /\ (booked[p] = 1 => Live(p) \/ gp[p].status \in Returned)
  BY DEF Kept
<1>3. CASE Quiet(p)
  BY <1>2, <1>3 DEF Quiet
<1>4. CASE Captured(p)
  BY <1>1, <1>2, <1>4 DEF Captured, Timely, Returned
<1>5. CASE GivenBack(p)
  BY <1>2, <1>5 DEF GivenBack
<1> QED BY <1>1, <1>3, <1>4, <1>5 DEF Effect

(* A payment is booked at most once, through any number of capture events, *)
(* retries and replays, and next to receipts that staff enter or void.     *)
THEOREM BookedOnce == ~LateCaptures => (Spec => []OneReceiptPerPayment)
<1> SUFFICES ASSUME ~LateCaptures PROVE Spec => []OneReceiptPerPayment
  OBVIOUS
<1>1. Init => Kept
  <2> SUFFICES ASSUME Init, NEW p \in Payments
               PROVE  booked[p] <= 1 /\ (booked[p] = 1 => Live(p) \/ gp[p].status \in Returned)
    BY DEF Kept
  <2>1. booked = [q \in Payments |-> 0]
    BY DEF Init
  <2>2. booked[p] = 0
    BY <2>1
  <2> QED BY <2>2
<1>2. Typed /\ Kept /\ [Next]_vars => Kept'
  BY KeptStep
<1>3. Kept => OneReceiptPerPayment
  BY DEF Kept, OneReceiptPerPayment
<1> QED BY <1>1, <1>2, <1>3, Types, PTL DEF Spec


-----------------------------------------------------------------------------
(* Refunds of whole payments.  The provider returns a payment once; a row  *)
(* whose raw_payload knows of a refund is REFUNDED; a task that read an    *)
(* older row therefore read one that knew of none, and its unwinding finds *)
(* what is still allocated, or nothing if the request was faster.          *)

WholeRefunds == Partials = {} /\ ~LateCaptures

Touched(raw) == raw.keys # {} \/ raw.unwound

RowOK(p) ==
    /\ gp[p].raw.partials = 0
    /\ Touched(gp[p].raw) => gp[p].status = "REFUNDED"
    /\ gp[p].status # "PARTIALLY_REFUNDED"
    /\ gp[p].status = "REFUNDED" => refunded[p] # {} /\ receipt[p].alloc = 0
    /\ released[p] + receipt[p].alloc <= Amount[p]
    /\ released[p] > 0 => gp[p].status = "REFUNDED"

SentOK(p) == refunded[p] = {} \/ \E k \in RefundKeys : refunded[p] = {k} /\ k[2] = Amount[p]

AskedOK == \A p \in Payments, k \in RefundKeys : outbox[p][k].status # "NONE" => k[2] = Amount[p]

JobOK(w) ==
    job[w].pc # "idle" =>
        /\ job[w].key[2] = Amount[job[w].pay]
        /\ job[w].full
        /\ job[w].by = "task" => job[w].row.raw.partials = 0 /\ ~Touched(job[w].row.raw)

RefundInv ==
    /\ \A p \in Payments : RowOK(p) /\ SentOK(p)
    /\ AskedOK
    /\ \A w \in Workers : JobOK(w)

LEMMA SentBackIs ==
    ASSUME NEW p \in Payments
    PROVE  /\ refunded[p] = {} => SentBack(p) = 0
           /\ \A k \in RefundKeys : refunded[p] = {k} => SentBack(p) = k[2]
<1> DEFINE zero == [j \in RefundKeys |-> 0]
<1>1. Sum(zero) = 0 /\ zero \in [RefundKeys -> Amounts]
  BY SumFacts DEF Amounts
<1>2. ASSUME refunded[p] = {} PROVE SentBack(p) = 0
  <2>1. [j \in RefundKeys |-> IF j \in refunded[p] THEN j[2] ELSE 0] = zero
    BY <1>2
  <2> QED BY <1>1, <2>1 DEF SentBack
<1>3. ASSUME NEW k \in RefundKeys, refunded[p] = {k} PROVE SentBack(p) = k[2]
  <2>1. [j \in RefundKeys |-> IF j \in refunded[p] THEN j[2] ELSE 0] = [zero EXCEPT ![k] = k[2]]
    BY <1>3
  <2>2. k[2] \in Amounts /\ k[2] \in Nat /\ zero[k] = 0
    BY Keys
  <2>3. Sum([zero EXCEPT ![k] = k[2]]) = Sum(zero) - zero[k] + k[2]
    <3> HIDE DEF zero
    <3> QED BY <1>1, <2>2, SumFacts
  <2> HIDE DEF zero
  <2> QED BY <1>1, <2>1, <2>2, <2>3 DEF SentBack
<1> QED BY <1>2, <1>3

LEMMA RefundInvEnough ==
    ASSUME Typed, RefundInv
    PROVE  RefundedIsReturned /\ UnwoundOnce
<1> SUFFICES ASSUME NEW p \in Payments
             PROVE  /\ gp[p].status = "REFUNDED" => SentBack(p) = Amount[p] /\ ~(Live(p) /\ receipt[p].alloc > 0)
                    /\ released[p] <= SentBack(p)
  BY DEF RefundedIsReturned, UnwoundOnce
<1>1. RowOK(p) /\ SentOK(p)
  BY DEF RefundInv
<1>2. released[p] \in Nat /\ receipt[p].alloc \in Nat /\ Amount[p] \in Nat
  BY GatewayAssumption DEF Typed, CountsTyped, ReceiptTyped
<1>3. SentBack(p) = IF refunded[p] = {} THEN 0 ELSE Amount[p]
  BY <1>1, SentBackIs DEF SentOK
<1> QED BY <1>1, <1>2, <1>3 DEF RowOK

(* A row nobody refunds in this step.                                      *)
LEMMA RowStays ==
    ASSUME NEW p \in Payments, RowOK(p), Grows,
           gp'[p].status = gp[p].status, gp'[p].raw.partials = gp[p].raw.partials,
           gp'[p].raw.unwound = gp[p].raw.unwound,
           gp'[p].raw.keys = gp[p].raw.keys \/ gp[p].status = "REFUNDED",
           receipt'[p].alloc = receipt[p].alloc, released'[p] = released[p]
    PROVE  RowOK(p)'
BY DEF RowOK, Touched, Grows

LEMMA RowFinalized ==
    ASSUME WholeRefunds, Typed, Typed', NEW p \in Payments, RowOK(p), Timely(p),
           gp'[p].status \in CapturedLike, gp'[p].raw.partials = 0, ~Touched(gp'[p].raw), released'[p] = released[p]
    PROVE  RowOK(p)'
<1>1. released[p] = 0 /\ receipt'[p].alloc <= Amount[p] /\ receipt'[p].alloc \in Nat
  BY DEF WholeRefunds, Timely, RowOK, Typed, CountsTyped, ReceiptTyped
<1> QED BY <1>1 DEF RowOK, CapturedLike, Touched

LEMMA RowRefunded ==
    ASSUME Typed, Typed', NEW p \in Payments, RowOK(p), NEW raw, NEW alias, Unwinding(p, raw, Amount[p], TRUE, alias),
           Unwound(raw, alias) => receipt[p].alloc = 0,
           refunded[p] # {}, refunded' = refunded, gp'[p].status = "REFUNDED", gp'[p].raw.partials = 0
    PROVE  RowOK(p)'
<1>1. /\ receipt[p].alloc \in Nat /\ receipt'[p].alloc \in Nat /\ Amount[p] \in Nat
      /\ released[p] \in Nat /\ released'[p] \in Nat
  BY GatewayAssumption DEF Typed, ReceiptTyped, CountsTyped
<1>2. receipt'[p].alloc = 0
  BY <1>1 DEF Unwinding
<1> QED BY <1>1, <1>2 DEF RowOK, Unwinding

(* The row after a refund of all that is left.                             *)
WholeRow(row, a, alias, aliases) == RowAfter(row, a, TRUE, alias, aliases)

LEMMA RowAfterWhole ==
    ASSUME NEW row \in Row, NEW a \in Nat, NEW alias \in Alias, NEW aliases \in SUBSET Alias
    PROVE  /\ WholeRow(row, a, alias, aliases) \in Row
           /\ WholeRow(row, a, alias, aliases).status = "REFUNDED"
           /\ WholeRow(row, a, alias, aliases).raw.partials = row.raw.partials
<1>1. TRUE \in BOOLEAN
  OBVIOUS
<1>2. RowAfter(row, a, TRUE, alias, aliases) \in Row
  BY <1>1, RowAfterType
<1>3. /\ RowAfter(row, a, TRUE, alias, aliases).status = "REFUNDED"
      /\ RowAfter(row, a, TRUE, alias, aliases).raw.partials = row.raw.partials
  BY DEF RowAfter, RawAfter, Row, Raw
<1> QED BY <1>2, <1>3 DEF WholeRow

(* Steps that refund nothing and finalize nothing.                         *)
LEMMA RefundFrame ==
    ASSUME RefundInv, gp' = gp, released' = released, refunded' = refunded, outbox' = outbox, job' = job,
           \A p \in Payments : receipt'[p].alloc = receipt[p].alloc
    PROVE  RefundInv'
<1>1. \A p \in Payments : RowOK(p)' /\ SentOK(p)'
  BY DEF RefundInv, RowOK, SentOK, Touched
<1>2. AskedOK' /\ \A w \in Workers : JobOK(w)'
  BY DEF RefundInv, AskedOK, JobOK, Touched
<1> QED BY <1>1, <1>2 DEF RefundInv

LEMMA FinalizeRefunds ==
    ASSUME WholeRefunds, Typed, Typed', RefundInv, NEW p \in Payments, NEW raw \in {NoRaw, gp[p].raw}, Finalize(p, raw),
           UNCHANGED <<invoice, outbox, refunded, job>>
    PROVE  RefundInv'
<1>1. Timely(p) /\ RowOK(p) /\ raw \in Raw
  BY NoRawType, RawType DEF Finalize, RefundInv
<1>2. Finalized(p, raw)
  BY <1>1, FinalizeStep
<1>3. gp[p].raw.partials = 0 /\ ~Touched(gp[p].raw)
  BY <1>1 DEF Timely, WholeRefunds, RowOK
<1>4. raw.partials = 0 /\ ~Touched(raw)
  BY <1>3 DEF NoRaw, Touched
<1>5. gp'[p].raw = raw \/ gp'[p].raw = gp[p].raw
  BY <1>2 DEF Finalized
<1>6. RowOK(p)'
  BY <1>1, <1>2, <1>3, <1>4, <1>5, RowFinalized DEF Finalized
<1>7. \A q \in Payments : q # p => RowOK(q)'
  BY <1>2, Alone, RowStays DEF Finalized, RefundInv
<1>8. AskedOK' /\ (\A w \in Workers : JobOK(w)') /\ (\A q \in Payments : SentOK(q)')
  BY DEF RefundInv, AskedOK, JobOK, SentOK, Touched
<1> QED BY <1>6, <1>7, <1>8 DEF RefundInv

LEMMA ParkRefunds ==
    ASSUME WholeRefunds, Typed, Typed', RefundInv, NEW h \in Handlers, ParkRefused(h)
    PROVE  RefundInv'
<1>0. PICK p \in Payments : p = hook[h].event.pay
  BY DEF Typed, HooksTyped, ParkRefused
<1>1. UNCHANGED <<receipt, released, outbox, refunded, job>>
  BY DEF ParkRefused, books, provider
<1>2. CASE gp' = gp
  BY <1>1, <1>2, RefundFrame
<1>3. CASE gp' = Parked(p, "UTR_CLASH", gp[p].raw) /\ Timely(p)
  <2>1. RowOK(p) /\ gp[p].raw.partials = 0 /\ ~Touched(gp[p].raw)
    BY <1>3 DEF RefundInv, RowOK, Timely, WholeRefunds
  <2>2. /\ gp'[p].status = "CAPTURED_PENDING_BOOKS" /\ gp'[p].raw = gp[p].raw
        /\ \A q \in Payments : q # p => gp'[q] = gp[q]
    BY <1>3 DEF Parked, Typed, GpTyped
  <2>3. RowOK(p)'
    BY <1>1, <1>3, <2>1, <2>2, RowFinalized DEF CapturedLike
  <2>4. \A q \in Payments : q # p => RowOK(q)'
    BY <1>1, <2>2, Alone, RowStays DEF RefundInv
  <2>5. AskedOK' /\ (\A w \in Workers : JobOK(w)') /\ (\A q \in Payments : SentOK(q)')
    BY <1>1 DEF RefundInv, AskedOK, JobOK, SentOK, Touched
  <2> QED BY <2>3, <2>4, <2>5 DEF RefundInv
<1> QED BY <1>0, <1>2, <1>3 DEF ParkRefused

(* A refund of p enters the books.                                         *)
LEMMA BooksRefunded ==
    ASSUME WholeRefunds, Typed, Typed', RefundInv, NEW p \in Payments, NEW raw, NEW alias, NEW row \in Row,
           UnwindBooks(p, raw, Amount[p], TRUE, alias), UNCHANGED <<invoice, refunded>>,
           Unwound(raw, alias) => receipt[p].alloc = 0,
           refunded[p] # {}, gp' = [gp EXCEPT ![p] = row], row.status = "REFUNDED", row.raw.partials = 0
    PROVE  \A q \in Payments : RowOK(q)' /\ SentOK(q)'
<1>1. Amount[p] \in Nat
  BY GatewayAssumption
<1>2. Unwinding(p, raw, Amount[p], TRUE, alias)
  BY <1>1, UnwindStep
<1>3. gp'[p] = row /\ \A q \in Payments : q # p => gp'[q] = gp[q]
  BY DEF Typed, GpTyped
<1>4. RowOK(p)'
  BY <1>2, <1>3, RowRefunded DEF RefundInv
<1>5. \A q \in Payments : q # p => RowOK(q)'
  BY <1>2, <1>3, Alone, RowStays DEF RefundInv, Unwinding
<1> QED BY <1>4, <1>5 DEF RefundInv, SentOK

LEMMA WholeRemains ==
    ASSUME RefundInv, NEW p \in Payments
    PROVE  Remaining(p, gp[p].raw) = Amount[p]
BY GatewayAssumption DEF RefundInv, RowOK, Remaining, Minus

LEMMA HandleRefundRefunds ==
    ASSUME WholeRefunds, Typed, Typed', RefundInv, NEW h \in Handlers, HandleRefund(h)
    PROVE  RefundInv'
<1>0. PICK p \in Payments, k \in RefundKeys : p = hook[h].event.pay /\ k = hook[h].event.id /\ k \in refunded[p]
  BY DEF Typed, HooksTyped, ProviderTyped, HandleRefund, Working
<1> DEFINE alias == <<"prov", k>>
           row == RowAfter(gp[p], k[2], TRUE, alias, {})
<1>1. UNCHANGED <<invoice, outbox, refunded, job>>
  BY DEF HandleRefund, provider
<1>2. k[2] = Amount[p] /\ Amount[p] \in Nat
  BY <1>0, GatewayAssumption DEF RefundInv, SentOK
<1>3. (k[2] >= Remaining(p, gp[p].raw)) = TRUE
  BY <1>2, WholeRemains
<1>4. CASE KnownRefund(p, k)
  BY <1>0, <1>1, <1>4, RefundFrame DEF HandleRefund, books
<1>5. CASE ~KnownRefund(p, k)
  <2>1. UnwindBooks(p, gp[p].raw, Amount[p], TRUE, alias) /\ gp' = [gp EXCEPT ![p] = row]
    BY <1>0, <1>2, <1>3, <1>5 DEF HandleRefund
  <2>2. gp[p] \in Row /\ alias \in Alias
    BY AliasType DEF Typed, GpTyped
  <2>3. row \in Row /\ row.status = "REFUNDED" /\ row.raw.partials = 0
    <3>1. gp[p].raw.partials = 0 /\ {} \in SUBSET Alias
      BY DEF RefundInv, RowOK
    <3>2. row = WholeRow(gp[p], k[2], alias, {}) /\ k[2] \in Nat
      BY <1>2 DEF WholeRow
    <3> HIDE DEF alias, row
    <3> QED BY <2>2, <3>1, <3>2, RowAfterWhole
  <2>4. ~Unwound(gp[p].raw, alias)
    BY <1>5 DEF KnownRefund, Unwound, RefundInv, RowOK, Touched
  <2> HIDE DEF row, alias
  <2>5. \A q \in Payments : RowOK(q)' /\ SentOK(q)'
    BY <1>0, <1>1, <2>1, <2>3, <2>4, BooksRefunded
  <2>6. AskedOK' /\ (\A w \in Workers : JobOK(w)')
    BY <1>1 DEF RefundInv, AskedOK, JobOK, Touched
  <2> QED BY <2>5, <2>6 DEF RefundInv
<1> QED BY <1>4, <1>5

LEMMA JobsOfRefunds ==
    ASSUME Typed, RefundInv, NEW w \in Workers, Released(w)
    PROVE  \A v \in Workers : JobOK(v)'
<1>1. job'[w].pc = "idle" /\ \A v \in Workers : v # w => job'[v] = job[v]
  BY DEF Released, NoJob, Typed, JobsTyped
<1> QED BY <1>1 DEF RefundInv, JobOK, Touched

LEMMA AskedFor ==
    ASSUME Typed, RefundInv, NEW p \in Payments, NEW k \in RefundKeys, k[2] = Amount[p],
           \A q \in Payments, j \in RefundKeys : outbox'[q][j].status = outbox[q][j].status \/ (q = p /\ j = k)
    PROVE  AskedOK'
BY DEF RefundInv, AskedOK

LEMMA FinishViewRefunds ==
    ASSUME WholeRefunds, Typed, Typed', RefundInv, NEW w \in Workers, FinishView(w)
    PROVE  RefundInv'
<1>0. PICK p \in Payments, k \in RefundKeys :
          p = job[w].pay /\ k = job[w].key /\ k \in refunded[p] /\ k[2] = Amount[p] /\ job[w].full
  BY DEF Typed, JobsTyped, FinishView, RefundInv, JobOK
<1> DEFINE alias == <<"idem", k>>
           row == RowAfter(gp[p], k[2], TRUE, alias, Aliases(k))
<1>1. UNCHANGED <<invoice, refunded>> /\ outbox' = Succeeded(p, k) /\ Released(w) /\ job[w].full = TRUE
  BY <1>0 DEF FinishView, provider, Typed, JobsTyped
<1>2. AskedOK'
  <2>1. \A q \in Payments, j \in RefundKeys : outbox'[q][j].status = outbox[q][j].status \/ (q = p /\ j = k)
    BY <1>1 DEF Succeeded, Typed, OutboxTyped
  <2> QED BY <1>0, <2>1, AskedFor
<1>3. \A v \in Workers : JobOK(v)'
  BY <1>1, JobsOfRefunds
<1>4. CASE Aliases(k) \cap gp[p].raw.keys # {}
  <2>1. gp' = [gp EXCEPT ![p].raw.keys = @ \cup Aliases(k)] /\ UNCHANGED <<receipt, released>>
    BY <1>0, <1>4 DEF FinishView, books
  <2>2. gp[p].status = "REFUNDED"
    BY <1>4 DEF RefundInv, RowOK, Touched
  <2>3. /\ gp'[p].status = gp[p].status /\ gp'[p].raw.partials = gp[p].raw.partials
        /\ gp'[p].raw.unwound = gp[p].raw.unwound
        /\ \A q \in Payments : q # p => gp'[q] = gp[q]
    BY <2>1 DEF Typed, GpTyped, Row, Raw
  <2>4. \A q \in Payments : RowOK(q)'
    BY <1>1, <2>1, <2>2, <2>3, Alone, RowStays DEF RefundInv
  <2>5. \A q \in Payments : SentOK(q)'
    BY <1>1 DEF RefundInv, SentOK
  <2> QED BY <1>2, <1>3, <2>4, <2>5 DEF RefundInv
<1>5. CASE Aliases(k) \cap gp[p].raw.keys = {}
  <2>1. UnwindBooks(p, gp[p].raw, Amount[p], TRUE, alias) /\ gp' = [gp EXCEPT ![p] = row]
    BY <1>0, <1>1, <1>5 DEF FinishView
  <2>2. gp[p] \in Row /\ alias \in Alias /\ Aliases(k) \in SUBSET Alias /\ k[2] \in Nat
    BY AliasType, Keys DEF Typed, GpTyped
  <2>3. row \in Row /\ row.status = "REFUNDED" /\ row.raw.partials = 0
    <3>1. gp[p].raw.partials = 0
      BY DEF RefundInv, RowOK
    <3>2. row = WholeRow(gp[p], k[2], alias, Aliases(k))
      BY DEF WholeRow
    <3> HIDE DEF alias, row
    <3> QED BY <2>2, <3>1, <3>2, RowAfterWhole
  <2>4. Unwound(gp[p].raw, alias) => receipt[p].alloc = 0
    BY DEF Unwound, RefundInv, RowOK, Touched
  <2> HIDE DEF row, alias
  <2>5. \A q \in Payments : RowOK(q)' /\ SentOK(q)'
    BY <1>0, <1>1, <2>1, <2>3, <2>4, BooksRefunded
  <2> QED BY <1>2, <1>3, <2>5 DEF RefundInv
<1> QED BY <1>4, <1>5

LEMMA FinishTaskRefunds ==
    ASSUME WholeRefunds, Typed, Typed', RefundInv, NEW w \in Workers, FinishTask(w)
    PROVE  RefundInv'
<1>0. PICK p \in Payments, k \in RefundKeys :
          p = job[w].pay /\ k = job[w].key /\ k \in refunded[p] /\ k[2] = Amount[p] /\ job[w].full
            /\ job[w].row.raw.partials = 0 /\ ~Touched(job[w].row.raw)
  BY DEF Typed, JobsTyped, FinishTask, RefundInv, JobOK
<1> DEFINE alias == <<"idem", k>>
           read == RowAfter(job[w].row, k[2], TRUE, alias, Aliases(k))
           row == [read EXCEPT !.reason = gp[p].reason]
<1>1. UNCHANGED <<invoice, refunded>> /\ outbox' = Succeeded(p, k) /\ Released(w) /\ job[w].full = TRUE
  BY <1>0 DEF FinishTask, provider, Typed, JobsTyped
<1>2. AskedOK'
  <2>1. \A q \in Payments, j \in RefundKeys : outbox'[q][j].status = outbox[q][j].status \/ (q = p /\ j = k)
    BY <1>1 DEF Succeeded, Typed, OutboxTyped
  <2> QED BY <1>0, <2>1, AskedFor
<1>3. \A v \in Workers : JobOK(v)'
  BY <1>1, JobsOfRefunds
<1>4. UnwindBooks(p, job[w].row.raw, Amount[p], TRUE, alias) /\ gp' = [gp EXCEPT ![p] = row]
  <2>1. ~(job[w].row.raw.unwound \/ Aliases(k) \cap job[w].row.raw.keys # {})
    BY <1>0 DEF Touched
  <2> QED BY <1>0, <1>1, <2>1 DEF FinishTask
<1>5. job[w].row \in Row /\ gp[p] \in Row /\ alias \in Alias /\ Aliases(k) \in SUBSET Alias /\ k[2] \in Nat
  BY AliasType, Keys DEF Typed, GpTyped, JobsTyped
<1>6. row \in Row /\ row.status = "REFUNDED" /\ row.raw.partials = 0
  <2>1. read \in Row /\ read.status = "REFUNDED" /\ read.raw.partials = 0
    <3>1. read = WholeRow(job[w].row, k[2], alias, Aliases(k))
      BY DEF WholeRow
    <3> HIDE DEF alias, read
    <3> QED BY <1>0, <1>5, <3>1, RowAfterWhole
  <2> HIDE DEF read
  <2> QED BY <1>5, <2>1 DEF Row
<1>7. ~Unwound(job[w].row.raw, alias)
  BY <1>0 DEF Unwound, Touched
<1> HIDE DEF row, alias
<1>8. \A q \in Payments : RowOK(q)' /\ SentOK(q)'
  BY <1>0, <1>1, <1>4, <1>6, <1>7, BooksRefunded
<1> QED BY <1>2, <1>3, <1>8 DEF RefundInv


LEMMA RefundRefunds ==
    ASSUME WholeRefunds, Typed, Typed', RefundInv, NEW w \in Workers, NEW p \in Payments,
           NEW a \in Partials \cup {Amount[p]}, Refund(w, p, a)
    PROVE  RefundInv'
<1> DEFINE k == <<gp[p].raw.seq + 1, a>>
<1>1. a = Amount[p] /\ k[2] = Amount[p] /\ Amount[p] \in Nat
  BY GatewayAssumption DEF WholeRefunds
<1>2. k \in RefundKeys
  BY <1>1, Keys, GatewayAssumption DEF Refund, Typed, GpTyped, Row, Raw, Seqs
<1>3. UNCHANGED <<receipt, released, refunded>> /\ gp' = [gp EXCEPT ![p].raw.seq = @ + 1]
  BY DEF Refund, books, provider
<1>4. \A q \in Payments : /\ gp'[q].status = gp[q].status
                          /\ gp'[q].raw.partials = gp[q].raw.partials
                          /\ gp'[q].raw.unwound = gp[q].raw.unwound
                          /\ gp'[q].raw.keys = gp[q].raw.keys
  BY <1>3 DEF Typed, GpTyped, Row, Raw
<1>5. \A q \in Payments : RowOK(q)' /\ SentOK(q)'
  BY <1>3, <1>4, Alone, RowStays DEF RefundInv, SentOK
<1>6. AskedOK'
  <2>1. \/ outbox' = outbox
        \/ outbox' = [outbox EXCEPT ![p][k] = [status |-> "PENDING", attempts |-> 0]]
    BY DEF Refund
  <2> HIDE DEF k
  <2>2. \A q \in Payments, j \in RefundKeys : outbox'[q][j].status = outbox[q][j].status \/ (q = p /\ j = k)
    BY <1>2, <2>1 DEF Typed, OutboxTyped
  <2> QED BY <1>1, <1>2, <2>2, AskedFor
<1>7. /\ job'[w].key = k /\ job'[w].pay = p /\ job'[w].by = "view"
      /\ job'[w].full = (a >= Remaining(p, gp[p].raw))
      /\ \A v \in Workers : v # w => job'[v] = job[v]
  BY DEF Refund, Typed, JobsTyped
<1>8. a >= Remaining(p, gp[p].raw)
  BY <1>1, WholeRemains
<1> HIDE DEF k
<1>9. JobOK(w)'
  BY <1>1, <1>7, <1>8 DEF JobOK
<1>10. \A v \in Workers : JobOK(v)'
  BY <1>7, <1>9 DEF RefundInv, JobOK, Touched
<1> QED BY <1>5, <1>6, <1>10 DEF RefundInv

LEMMA ClaimRefunds ==
    ASSUME WholeRefunds, Typed, Typed', RefundInv, NEW w \in Workers, NEW p \in Payments, NEW k \in RefundKeys,
           Claim(w, p, k)
    PROVE  RefundInv'
<1>1. k[2] = Amount[p] /\ Amount[p] \in Nat
  BY GatewayAssumption DEF Claim, RefundInv, AskedOK
<1>2. UNCHANGED <<gp, receipt, released, refunded>>
  BY DEF Claim, books, provider
<1>3. \A q \in Payments : RowOK(q)' /\ SentOK(q)'
  BY <1>2 DEF RefundInv, RowOK, SentOK, Touched
<1>4. AskedOK'
  <2>1. \/ outbox' = Succeeded(p, k)
        \/ outbox' = [outbox EXCEPT ![p][k] = [status |-> "IN_PROGRESS", attempts |-> outbox[p][k].attempts + 1]]
    BY DEF Claim
  <2>2. \A q \in Payments, j \in RefundKeys : outbox'[q][j].status = outbox[q][j].status \/ (q = p /\ j = k)
    BY <2>1 DEF Typed, OutboxTyped, Succeeded
  <2> QED BY <1>1, <2>2, AskedFor
<1>5. CASE gp[p].status = "REFUNDED"
  <2>1. job' = job
    BY <1>5 DEF Claim
  <2> QED BY <1>3, <1>4, <2>1 DEF RefundInv, JobOK, Touched
<1>6. CASE gp[p].status # "REFUNDED"
  <2>1. /\ job'[w].key = k /\ job'[w].pay = p /\ job'[w].row = gp[p]
        /\ job'[w].full = (k[2] >= Remaining(p, gp[p].raw))
        /\ \A v \in Workers : v # w => job'[v] = job[v]
    BY <1>6 DEF Claim, Typed, JobsTyped
  <2>2. k[2] >= Remaining(p, gp[p].raw)
    BY <1>1, WholeRemains
  <2>3. gp[p].raw.partials = 0 /\ ~Touched(gp[p].raw)
    BY <1>6 DEF RefundInv, RowOK
  <2>4. JobOK(w)'
    BY <1>1, <2>1, <2>2, <2>3 DEF JobOK, Touched
  <2>5. \A v \in Workers : JobOK(v)'
    BY <2>1, <2>4 DEF RefundInv, JobOK, Touched
  <2> QED BY <1>3, <1>4, <2>5 DEF RefundInv
<1> QED BY <1>5, <1>6

(* The provider refunds a payment once.                                    *)
LEMMA CallRefunds ==
    ASSUME WholeRefunds, Typed, Typed', RefundInv, NEW w \in Workers,
           CallProvider(w) \/ CallRefused(w) \/ CallFails(w) \/ BooksRefuse(w) \/ WorkerDies(w)
    PROVE  RefundInv'
<1>0. PICK p \in Payments, k \in RefundKeys : p = job[w].pay /\ k = job[w].key /\ k[2] = Amount[p]
  BY DEF Typed, JobsTyped, CallProvider, CallRefused, CallFails, BooksRefuse, WorkerDies, RefundInv, JobOK
<1>1. UNCHANGED <<gp, receipt, released>>
  BY DEF CallProvider, CallRefused, CallFails, BooksRefuse, WorkerDies, books
<1>2. refunded' = refunded \/ (ProviderAccepts(p, k) /\ refunded' = [refunded EXCEPT ![p] = @ \cup {k}])
  BY <1>0 DEF CallProvider, CallRefused, CallFails, BooksRefuse, WorkerDies, provider
<1>3. Grows
  BY <1>2 DEF Grows, Typed, ProviderTyped
<1>4. \A q \in Payments : RowOK(q)'
  BY <1>1, <1>3, RowStays DEF RefundInv
<1>5. \A q \in Payments : SentOK(q)'
  <2>1. CASE refunded' = refunded
    BY <2>1 DEF RefundInv, SentOK
  <2>2. CASE ProviderAccepts(p, k) /\ refunded' = [refunded EXCEPT ![p] = @ \cup {k}]
    <3>1. \A q \in Payments : q # p => refunded'[q] = refunded[q]
      BY <2>2 DEF Typed, ProviderTyped
    <3>2. refunded'[p] = refunded[p] \cup {k}
      BY <2>2 DEF Typed, ProviderTyped
    <3>3. refunded[p] = {} \/ k \in refunded[p]
      <4> SUFFICES ASSUME NEW j \in RefundKeys, refunded[p] = {j}, j[2] = Amount[p], k # j PROVE FALSE
        BY DEF RefundInv, SentOK
      <4>1. SentBack(p) = Amount[p]
        BY SentBackIs
      <4>2. Amount[p] + Amount[p] <= Amount[p]
        BY <1>0, <2>2, <4>1 DEF ProviderAccepts
      <4> QED BY <4>2, GatewayAssumption
    <3>4. SentOK(p)'
      <4>1. CASE refunded[p] = {}
        BY <1>0, <3>2, <4>1 DEF SentOK
      <4>2. CASE k \in refunded[p]
        BY <3>2, <4>2 DEF SentOK, RefundInv
      <4> QED BY <3>3, <4>1, <4>2
    <3> QED BY <3>1, <3>4 DEF RefundInv, SentOK
  <2> QED BY <1>2, <2>1, <2>2
<1>6. AskedOK'
  <2>1. outbox' = outbox \/ outbox' = [outbox EXCEPT ![p][k].status = "FAILED"]
    BY <1>0 DEF CallProvider, CallRefused, CallFails, BooksRefuse, WorkerDies, Deferred
  <2>2. \A q \in Payments, j \in RefundKeys : outbox'[q][j].status = outbox[q][j].status \/ (q = p /\ j = k)
    BY <2>1 DEF Typed, OutboxTyped
  <2> QED BY <1>0, <2>2, AskedFor
<1>7. \A v \in Workers : JobOK(v)'
  <2>1. CASE Released(w)
    BY <2>1, JobsOfRefunds
  <2>2. CASE CallProvider(w)
    <3>1. /\ job'[w].key = job[w].key /\ job'[w].pay = job[w].pay /\ job'[w].full = job[w].full
          /\ job'[w].by = job[w].by /\ job'[w].row = job[w].row /\ job[w].pc # "idle"
          /\ \A v \in Workers : v # w => job'[v] = job[v]
      BY <2>2 DEF CallProvider, Typed, JobsTyped
    <3> QED BY <3>1 DEF RefundInv, JobOK, Touched
  <2> QED BY <2>1, <2>2 DEF CallProvider, CallRefused, CallFails, BooksRefuse, WorkerDies
<1> QED BY <1>4, <1>5, <1>6, <1>7 DEF RefundInv

LEMMA RefundStep == WholeRefunds /\ Typed /\ RefundInv /\ [Next]_vars => RefundInv'
<1> SUFFICES ASSUME WholeRefunds, Typed, RefundInv, [Next]_vars PROVE RefundInv'
  OBVIOUS
<1>t. Typed'
  BY StepKeeps
<1>f. ASSUME UNCHANGED <<gp, receipt, released, refunded, outbox, job>> PROVE RefundInv'
  BY <1>f, RefundFrame
<1>1. ASSUME NEW h \in Handlers, HandleCapture(h) PROVE RefundInv'
  <2>1. hook[h].event.pay \in Payments
    BY <1>1 DEF Typed, HooksTyped, HandleCapture, Working
  <2> QED BY <1>1, <1>t, <2>1, FinalizeRefunds DEF HandleCapture, provider
<1>2. ASSUME NEW p \in Payments, Reconcile(p) \/ RetryBooks(p) \/ ReplayDeadLetter(p) PROVE RefundInv'
  BY <1>2, <1>t, FinalizeRefunds DEF Reconcile, RetryBooks, ReplayDeadLetter, provider, threads
<1>3. ASSUME NEW h \in Handlers, HandleRefund(h) \/ ParkRefused(h) PROVE RefundInv'
  BY <1>3, <1>t, HandleRefundRefunds, ParkRefunds
<1>4. ASSUME NEW h \in Handlers,
             CaptureRefused(h) \/ CaptureFails(h) \/ MarkSeen(h) \/ RefundRefused(h) \/ HandlerStops(h)
               \/ \E e \in Sent : Deliver(h, e)
      PROVE  RefundInv'
  BY <1>4, <1>f DEF CaptureRefused, CaptureFails, MarkSeen, RefundRefused, HandlerStops, Deliver, books, provider
<1>5. ASSUME NEW w \in Workers, WorkerStep(w) \/ CallFails(w) \/ WorkerDies(w) PROVE RefundInv'
  BY <1>5, <1>t, FinishViewRefunds, FinishTaskRefunds, ClaimRefunds, CallRefunds DEF WorkerStep
<1>6. ASSUME NEW w \in Workers, NEW p \in Payments, NEW a \in Partials \cup {Amount[p]}, Refund(w, p, a) PROVE RefundInv'
  BY <1>6, <1>t, RefundRefunds
<1>7. ASSUME NEW p \in Payments, AutoRefund(p) PROVE RefundInv'
  <2>1. UNCHANGED <<gp, receipt, released, refunded, job>>
    BY <1>7 DEF AutoRefund, books, provider, threads
  <2>2. \A q \in Payments : RowOK(q)' /\ SentOK(q)'
    BY <2>1 DEF RefundInv, RowOK, SentOK, Touched
  <2>3. \A w \in Workers : JobOK(w)'
    BY <2>1 DEF RefundInv, JobOK, Touched
  <2>4. PICK k \in RefundKeys :
          k = <<0, Amount[p]>> /\ outbox' = [outbox EXCEPT ![p][k] = [status |-> "PENDING", attempts |-> 0]]
    BY <1>7, Keys DEF AutoRefund
  <2>5. \A q \in Payments, j \in RefundKeys : outbox'[q][j].status = outbox[q][j].status \/ (q = p /\ j = k)
    BY <2>4 DEF Typed, OutboxTyped
  <2> QED BY <2>2, <2>3, <2>4, <2>5, AskedFor DEF RefundInv
<1>8. ASSUME NEW p \in Payments,
             VoidStaffReceipt(p) \/ StaffReceipt(p, "manual") \/ StaffReceipt(p, "clashing")
      PROVE  RefundInv'
  <2>1. UNCHANGED <<gp, released, refunded, outbox, job>>
    BY <1>8 DEF VoidStaffReceipt, StaffReceipt, provider, threads
  <2>2. \A q \in Payments : receipt'[q].alloc = receipt[q].alloc
    BY <1>8 DEF VoidStaffReceipt, StaffReceipt, Typed, ReceiptTyped
  <2> QED BY <2>1, <2>2, RefundFrame
<1>9. CASE \/ \E p \in Payments : Pay(p) \/ ReplayFails(p)
           \/ PayElsewhere \/ LinkExpires \/ CancelLink \/ CancelInvoice \/ ClosePeriod \/ OpenPeriod \/ UNCHANGED vars
  BY <1>9, <1>f DEF Pay, ReplayFails, PayElsewhere, LinkExpires, CancelLink, CancelInvoice, ClosePeriod, OpenPeriod,
        vars, books, provider, threads
<1>10. CASE Step
  BY <1>1, <1>2, <1>3, <1>4, <1>5, <1>6, <1>7, <1>8, <1>9, <1>10 DEF Step, HandlerStep, BeatStep, Request
<1>11. CASE Trouble
  BY <1>4, <1>5, <1>8, <1>9, <1>11 DEF Trouble
<1> QED BY <1>9, <1>10, <1>11 DEF Next

LEMMA RefundStart == Init => RefundInv
<1> SUFFICES ASSUME Init PROVE RefundInv
  OBVIOUS
<1>1. \A p \in Payments : gp[p] = NoRow /\ receipt[p].alloc = 0 /\ released[p] = 0 /\ refunded[p] = {}
  BY DEF Init
<1>2. \A p \in Payments : RowOK(p) /\ SentOK(p)
  <2> SUFFICES ASSUME NEW p \in Payments PROVE RowOK(p) /\ SentOK(p)
    OBVIOUS
  <2>1. gp[p].status = "NONE" /\ gp[p].raw.partials = 0
    BY <1>1 DEF NoRow, NoRaw
  <2>2. ~Touched(gp[p].raw)
    <3>1. gp[p].raw.keys = {}
      BY <1>1 DEF NoRow, NoRaw
    <3>2. ~gp[p].raw.unwound
      BY <1>1 DEF NoRow, NoRaw
    <3> QED BY <3>1, <3>2 DEF Touched
  <2>3. receipt[p].alloc = 0 /\ released[p] = 0 /\ refunded[p] = {} /\ Amount[p] \in Nat
    BY <1>1, GatewayAssumption
  <2> QED BY <2>1, <2>2, <2>3 DEF RowOK, SentOK
<1>3. AskedOK
  BY DEF Init, AskedOK, NoRefund
<1>4. \A w \in Workers : JobOK(w)
  BY DEF Init, JobOK, NoJob
<1> QED BY <1>2, <1>3, <1>4 DEF RefundInv

THEOREM RefundsInductive == WholeRefunds => (Spec => []RefundInv)
<1> SUFFICES ASSUME WholeRefunds PROVE Spec => []RefundInv
  OBVIOUS
<1>1. Typed /\ RefundInv /\ [Next]_vars => RefundInv'
  BY RefundStep
<1> QED BY <1>1, RefundStart, Types, PTL DEF Spec

(* Where staff refund whole payments, REFUNDED means that the provider has *)
(* returned the payment and that it settles nothing, whichever of request, *)
(* task and webhook came first.                                            *)
THEOREM RefundedMeansReturned == WholeRefunds => (Spec => []RefundedIsReturned)
<1>1. Typed /\ RefundInv => RefundedIsReturned
  BY RefundInvEnough
<1> QED BY <1>1, Types, RefundsInductive, PTL

(* There the books take back no more than the provider returned, although  *)
(* the task works from a row it read before the call.                      *)
THEOREM BooksUnwoundOnce == WholeRefunds => (Spec => []UnwoundOnce)
<1>1. Typed /\ RefundInv => UnwoundOnce
  BY RefundInvEnough
<1> QED BY <1>1, Types, RefundsInductive, PTL

=============================================================================
