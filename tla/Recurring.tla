----------------------------- MODULE Recurring -----------------------------
(***************************************************************************)
(* A recurring schedule (backend/sales/recurring.py): the hourly beat bills*)
(* every due period once, several periods behind if need be, while people  *)
(* run it by hand, edit, pause and resume it (sales/views.py,              *)
(* sales/serializers.py) and contracts stop and restart it                 *)
(* (contracts/services.py, contracts/ops.py).  generate_for_schedule locks *)
(* the row and is one step; everybody else reads the row, and writes what  *)
(* he made of it later.                                                    *)
(*                                                                         *)
(* Days are local; the calendar is a parameter (RunDates has the code's).  *)
(* Of a document only its existence counts: whether it is an order, a      *)
(* challan or an invoice, and whether the invoice was completed at once,   *)
(* is left out; so are the error texts and customers who are not active,   *)
(* for whom every operation is refused.                                    *)
(***************************************************************************)
EXTENDS Sums

CONSTANTS
    Beats,       \* passes of the beat that may overlap (a backlog of the queue)
    LastDay,     \* bound on time
    Horizon,     \* bound on next_run_at
    PeriodOf(_), \* period_key_for, numbered
    AdvanceNextRun(_),
    UtcDay(_),   \* the date in UTC of a run due on a local day
    Owners,      \* bound: "none" for a schedule of its own, "live" for a contract's
    Starts,      \* bound: first run dates
    Ends,        \* bound: end dates, -1 for none
    Limits,      \* bound: values of max_occurrences, 0 for none
    MayClose,    \* bound: periods that may be closed
    MaxTicks,    \* MAX_CATCHUP_TICKS
    MaxEdits     \* bound on the writes of people and contracts

Today == 0 .. LastDay
Days == 0 .. Horizon
Periods == {PeriodOf(d) : d \in Days}

ASSUME RecurringAssumption ==
    /\ LastDay \in Nat /\ Horizon \in Nat /\ LastDay <= Horizon
    /\ MaxTicks \in Nat \ {0} /\ MaxEdits \in Nat
    /\ \A d \in Days : PeriodOf(d) \in Nat
    /\ \A d \in Days : /\ UtcDay(d) \in Int /\ UtcDay(d) <= d
                       /\ UtcDay(d) <= LastDay => AdvanceNextRun(d) \in Days
    /\ Owners \subseteq {"none", "live"}
    /\ Starts \subseteq Today /\ Ends \subseteq Int /\ Limits \subseteq Nat
    /\ MayClose \subseteq Periods

(* A calendar whose next run is never beyond the next period, and in which *)
(* a run that is due on a day in UTC is not in a later period than it.     *)
Orderly ==
    /\ \A d \in Days : UtcDay(d) <= LastDay => PeriodOf(AdvanceNextRun(d)) <= PeriodOf(d) + 1
    /\ \A d, e \in Days : UtcDay(d) <= e => PeriodOf(d) <= PeriodOf(e)

VARIABLES
    row,        \* the RecurringInvoiceSchedule
    docs,       \* docs[p]: documents generated for period p
    closed,     \* periods closed in the books or in GST
    contract,   \* "none", or whether the schedule's contract is "live" or "ended"
    now,        \* today
    beat,       \* beat[b]: where a pass is, and what it read
    form,       \* a write under way: what it is and the row it was read from
    edits,      \* writes made so far
    hand        \* history: what people did to the order of the periods

vars == <<row, docs, closed, contract, now, beat, form, edits, hand>>
world == <<closed, contract, now>>
desk == <<form, edits>>

Row == [next : Days, active : BOOLEAN, runs : Nat, max : Limits,
        end : Ends, paused : {"", "CONTRACT_ENDED"}]

IdlePass == [at |-> "idle", next |-> 0, now |-> 0, ticks |-> 0]

Pass == [at : {"idle", "loop", "generate", "refresh"}, next : Days, now : Today,
         ticks : 0 .. MaxTicks]

Writes == {"edit", "renewed", "resume", "pause"}

NoForm == [kind |-> "none"]

Init ==
    /\ row \in [next : Starts, active : {TRUE}, runs : {0}, max : Limits, end : Ends, paused : {""}]
    /\ row.end # -1 => row.end >= row.next
    /\ contract \in Owners
    /\ contract = "live" => row.max = 0 /\ row.end = -1
    /\ docs = [p \in Periods |-> 0]
    /\ closed = {}
    /\ now = 0
    /\ beat = [b \in Beats |-> IdlePass]
    /\ form = NoForm
    /\ edits = 0
    /\ hand = [first |-> PeriodOf(row.next), moved |-> FALSE, jumped |-> FALSE, stale |-> FALSE]

-----------------------------------------------------------------------------
(* generate_for_schedule.                                                  *)
TermOver(r, on) == (r.end # -1 /\ on > r.end) \/ (r.max > 0 /\ r.runs >= r.max)

Finished(r) == (r.max > 0 /\ r.runs >= r.max) \/ (r.end # -1 /\ r.next > r.end)

(* Mutant: the period is not looked up again under the lock.               *)
Result_Unchecked(on) ==
    IF ~row.active THEN "inactive"
    ELSE IF TermOver(row, on) THEN "finished"
    ELSE IF PeriodOf(on) \in closed THEN "locked"
    ELSE "created"

Result(on) ==
    IF ~row.active THEN "inactive"
    ELSE IF docs[PeriodOf(on)] > 0 THEN "duplicate"
    ELSE IF TermOver(row, on) THEN "finished"
    ELSE IF PeriodOf(on) \in closed THEN "locked"
    ELSE "created"

(* Mutant: a run is not counted.                                           *)
AfterRun_Uncounted(r, on) == [r EXCEPT !.next = IF UtcDay(@) <= on THEN AdvanceNextRun(@) ELSE @]

AfterRun(r, on) ==
    LET counted == [r EXCEPT !.runs = @ + 1,
                             !.next = IF UtcDay(@) <= on THEN AdvanceNextRun(@) ELSE @]
    IN  [counted EXCEPT !.active = @ /\ ~Finished(counted)]

Generate(on, result) ==
    /\ result = Result(on)
    /\ row' = CASE result = "created"  -> AfterRun(row, on)
                [] result = "finished" -> [row EXCEPT !.active = FALSE]
                [] OTHER -> row
    /\ docs' = IF result = "created" THEN [docs EXCEPT ![PeriodOf(on)] = @ + 1] ELSE docs

-----------------------------------------------------------------------------
(* The beat: _process_company_schedules reads the due schedules, then      *)
(* _process_one_schedule works from what was read.                         *)
StartPass(b) ==
    /\ beat[b].at = "idle"
    /\ row.active /\ row.next <= now
    /\ beat' = [beat EXCEPT ![b] = [at |-> "loop", next |-> row.next, now |-> now, ticks |-> 0]]
    /\ UNCHANGED <<row, docs, world, desk, hand>>

(* Mutant: one tick too many.                                              *)
Going_OneMore(b) == beat[b].next <= beat[b].now /\ beat[b].ticks <= MaxTicks

Going(b) == beat[b].next <= beat[b].now /\ beat[b].ticks < MaxTicks

EndPass(b) == beat' = [beat EXCEPT ![b] = IdlePass]

LeaveLoop(b) ==
    /\ beat[b].at = "loop"
    /\ ~Going(b)
    /\ EndPass(b)
    /\ UNCHANGED <<row, docs, world, desk, hand>>

(* Mutant: the date moves on in memory only.                               *)
SkipBilled_InMemory(b) ==
    LET x == beat[b] IN
    /\ x.at = "loop" /\ Going(b)
    /\ docs[PeriodOf(x.next)] > 0
    /\ beat' = [beat EXCEPT ![b].next = AdvanceNextRun(x.next), ![b].ticks = @ + 1]
    /\ UNCHANGED <<row, docs, world, desk, hand>>

(* The period has its document: only next_run_at is written, one step on   *)
(* from what this pass read.                                               *)
SkipBilled(b) ==
    LET x == beat[b] IN
    /\ x.at = "loop" /\ Going(b)
    /\ docs[PeriodOf(x.next)] > 0
    /\ row' = [row EXCEPT !.next = AdvanceNextRun(x.next)]
    /\ beat' = [beat EXCEPT ![b].next = AdvanceNextRun(x.next), ![b].ticks = @ + 1]
    /\ UNCHANGED <<docs, world, desk, hand>>

(* Mutant: a closed period is passed over.                                 *)
StopAtClosed_Advances(b) ==
    LET x == beat[b] IN
    /\ x.at = "loop" /\ Going(b)
    /\ docs[PeriodOf(x.next)] = 0
    /\ PeriodOf(x.next) \in closed
    /\ row' = [row EXCEPT !.next = AdvanceNextRun(x.next)]
    /\ EndPass(b)
    /\ UNCHANGED <<docs, world, desk, hand>>

(* The period is closed: the pass stops and next_run_at stays.             *)
StopAtClosed(b) ==
    LET x == beat[b] IN
    /\ x.at = "loop" /\ Going(b)
    /\ docs[PeriodOf(x.next)] = 0
    /\ PeriodOf(x.next) \in closed
    /\ EndPass(b)
    /\ UNCHANGED <<row, docs, world, desk, hand>>

TryPeriod(b) ==
    LET x == beat[b] IN
    /\ x.at = "loop" /\ Going(b)
    /\ docs[PeriodOf(x.next)] = 0
    /\ PeriodOf(x.next) \notin closed
    /\ beat' = [beat EXCEPT ![b].at = "generate", ![b].ticks = @ + 1]
    /\ UNCHANGED <<row, docs, world, desk, hand>>

BeatGenerates(b, result) ==
    /\ beat[b].at = "generate"
    /\ Generate(beat[b].next, result)
    /\ IF result = "created" THEN beat' = [beat EXCEPT ![b].at = "refresh"] ELSE EndPass(b)
    /\ UNCHANGED <<world, desk, hand>>

(* An exception rolls back; next_run_at stays for the next pass.           *)
BeatFails(b) ==
    /\ beat[b].at = "generate"
    /\ EndPass(b)
    /\ UNCHANGED <<row, docs, world, desk, hand>>

Refresh(b) ==
    /\ beat[b].at = "refresh"
    /\ beat' = [beat EXCEPT ![b].at = "loop", ![b].next = row.next]
    /\ UNCHANGED <<row, docs, world, desk, hand>>

Results == {"inactive", "duplicate", "finished", "locked", "created"}

Beat(b) ==
    \/ StartPass(b) \/ LeaveLoop(b) \/ SkipBilled(b) \/ StopAtClosed(b) \/ TryPeriod(b)
    \/ \E result \in Results : BeatGenerates(b, result)
    \/ BeatFails(b) \/ Refresh(b)

-----------------------------------------------------------------------------
(* run_now bills today's period; an overdue schedule moves on by one step, *)
(* which may be past a period that was never billed.                       *)
RunNow(result) ==
    /\ Generate(now, result)
    /\ hand' = [hand EXCEPT !.jumped = @ \/ /\ row'.next # row.next
                                            /\ docs'[PeriodOf(row.next)] = 0]
    /\ UNCHANGED <<world, beat, desk>>

(* The next occurrence after today (next_future_run).                      *)
NextFutureRun[d \in Days] == IF d > now THEN d ELSE NextFutureRun[AdvanceNextRun(d)]

Read(kind) ==
    /\ form = NoForm
    /\ edits < MaxEdits
    /\ form' = [kind |-> kind, row |-> row]
    /\ UNCHANGED <<row, docs, closed, now, beat, edits, hand>>

(* PATCH: get_object, then save() of the whole row.                        *)
StartEdit == Read("edit") /\ UNCHANGED contract

(* set_schedule_active.                                                    *)
StartResume == contract = "live" /\ Read("resume") /\ UNCHANGED contract

StartPause == contract # "none" /\ Read("pause") /\ UNCHANGED contract

(* Renewing a contract goes on to resume_renewed_contract_schedules, which *)
(* takes up a schedule that stands still because the contract had ended.   *)
PausedByContract == ~row.active /\ row.paused = "CONTRACT_ENDED"

ContractRenewed ==
    /\ contract # "none"
    /\ contract' = "live"
    /\ \/ PausedByContract /\ Read("renewed")
       \/ ~PausedByContract /\ UNCHANGED <<row, docs, closed, now, beat, desk, hand>>

Write(r) ==
    /\ row' = r
    /\ form' = NoForm
    /\ edits' = edits + 1
    /\ hand' = [hand EXCEPT !.moved = @ \/ r.next # row.next,
                            !.stale = @ \/ r.runs # row.runs]
    /\ UNCHANGED <<docs, world, beat>>

(* The serializer validates against the row that was read.                 *)
Resumable(r, was) ==
    ~was.active /\ r.active =>
        /\ r.next > now
        /\ r.max = 0 \/ was.runs < r.max
        /\ r.end = -1 \/ r.end >= r.next

SaveEdit(next, active, max) ==
    LET was == form.row
        r == [was EXCEPT !.next = next, !.active = active, !.max = max,
                         !.paused = IF active # was.active THEN "" ELSE @]
    IN
    /\ form.kind = "edit"
    /\ contract # "none" => next = was.next /\ max = was.max
    /\ next # was.next => r.end = -1 \/ r.end >= next
    /\ Resumable(r, was)
    /\ Write(r)

SaveResume(next) ==
    /\ form.kind \in {"renewed", "resume"}
    /\ next = NextFutureRun[form.row.next]
    /\ Write([row EXCEPT !.next = next, !.active = TRUE, !.paused = ""])

(* Pausing from the contract writes back the next_run_at it read.          *)
SavePause ==
    /\ form.kind = "pause"
    /\ Write([row EXCEPT !.next = form.row.next, !.active = FALSE, !.paused = ""])

(* pause_ended_contract_schedules, when a contract ends and again every    *)
(* day; finding the schedule and updating it are one step.                 *)
PauseEnded ==
    /\ contract \in {"live", "ended"}
    /\ contract' = "ended"
    /\ row' = IF row.active THEN [row EXCEPT !.active = FALSE, !.paused = "CONTRACT_ENDED"] ELSE row
    /\ UNCHANGED <<docs, closed, now, beat, desk, hand>>

People ==
    \/ \E result \in Results : RunNow(result)
    \/ StartEdit \/ StartResume \/ StartPause
    \/ \E next \in Days, active \in BOOLEAN, max \in Limits : SaveEdit(next, active, max)
    \/ (\E next \in Days : SaveResume(next)) \/ SavePause
    \/ PauseEnded \/ ContractRenewed

-----------------------------------------------------------------------------
NextDay ==
    /\ now < LastDay
    /\ now' = now + 1
    /\ UNCHANGED <<row, docs, closed, contract, beat, desk, hand>>

CloseOrReopen(p) ==
    /\ closed' = IF p \in closed THEN closed \ {p} ELSE closed \cup {p}
    /\ UNCHANGED <<row, docs, contract, now, beat, desk, hand>>

World == NextDay \/ \E p \in MayClose : CloseOrReopen(p)

Next == (\E b \in Beats : Beat(b)) \/ People \/ World

Spec == Init /\ [][Next]_vars

-----------------------------------------------------------------------------
RecurringTypeOK ==
    /\ row \in Row
    /\ docs \in [Periods -> Nat]
    /\ closed \subseteq Periods
    /\ contract \in {"none", "live", "ended"}
    /\ now \in Today
    /\ beat \in [Beats -> Pass]
    /\ form \in [kind : Writes, row : Row] \cup {NoForm}
    /\ edits \in 0 .. MaxEdits
    /\ hand \in [first : Periods, moved : BOOLEAN, jumped : BOOLEAN, stale : BOOLEAN]

(* However passes of the beat overlap with each other, with Run now and    *)
(* with edits, a period is billed at most once (generate_for_schedule).    *)
OneDocumentPerPeriod == \A p \in Periods : docs[p] <= 1

(* Unless a person moved the date or ran an overdue schedule by hand, no   *)
(* period is passed over: not by closed periods, failures, pauses of the   *)
(* contract or a pass that works from an old read                          *)
(* (CR-015, CR-121: next_run_at only moves past what was billed).          *)
NothingSkipped ==
    ~hand.moved /\ ~hand.jumped =>
        \A p \in Periods : hand.first <= p /\ p < PeriodOf(row.next) => docs[p] = 1

(* max_occurrences counts every document, by hand or by the beat, and is   *)
(* never exceeded, unless an edit overwrote a count made meanwhile.        *)
LimitKept ==
    [][~hand.stale /\ row.max > 0 /\ docs' # docs => Sum(docs) < row.max]_vars

(* A due schedule with nothing in its way does not stay due for ever.      *)
NeverStuck ==
    []<>~(row.active /\ row.next <= now /\ PeriodOf(row.next) \notin closed)

(* The beat comes every hour and its passes run to their end; a generation *)
(* that is tried again and again does not fail every time.                 *)
Fairness ==
    \A b \in Beats : /\ WF_vars(Beat(b))
                     /\ SF_vars(\E result \in Results : BeatGenerates(b, result))

FairSpec == Spec /\ Fairness

=============================================================================
