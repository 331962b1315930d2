--------------------------- MODULE RecurringProofs ---------------------------
(***************************************************************************)
(* What Recurring guarantees for every calendar and any number of passes.  *)
(*                                                                         *)
(* The invariant below says of the row, and of each pass that still works  *)
(* from its own read of it, that everything before its date is billed.     *)
(***************************************************************************)
EXTENDS Recurring, SumsProofs, TLAPS

(* The documents of all periods: one more is one more.                     *)
LEMMA DocumentSumFacts ==
    /\ Sum([p \in Periods |-> 0]) = 0
    /\ \A f \in [Periods -> 0 .. 1] :
          /\ Sum(f) \in Nat
          /\ \A p \in Periods : f[p] = 0 => Sum([f EXCEPT ![p] = 1]) = Sum(f) + 1
<1>1. IsFiniteSet(Periods)
    <2> DEFINE of == [d \in Days |-> PeriodOf(d)]
    <2>1. IsFiniteSet(Days) /\ DOMAIN of = Days /\ of = [d \in Days |-> of[d]]
        BY RecurringAssumption, FiniteInterval DEF Days
    <2>2. Periods = {of[d] : d \in Days}
        BY DEF Periods
    <2> HIDE DEF of
    <2> QED
        BY <2>1, <2>2, FiniteValues
<1>2. 0 .. 1 \subseteq Nat
    OBVIOUS
<1>3. AddsUp(Periods, 0 .. 1)
    BY <1>1, <1>2, NaturalSums
<1>4. ASSUME NEW f \in [Periods -> 0 .. 1], NEW p \in Periods, f[p] = 0
      PROVE  Sum([f EXCEPT ![p] = 1]) = Sum(f) + 1
    <2>1. Sum([f EXCEPT ![p] = 1]) = Sum(f) - f[p] + 1 /\ Sum(f) \in Nat
        <3>1. 1 \in 0 .. 1
            OBVIOUS
        <3> QED
            BY <1>3, <3>1, Zenon DEF AddsUp
    <2>2. f[p] = 0
        BY <1>4
    <2> QED
        BY <2>1, <2>2
<1> QED
    BY <1>3, <1>4 DEF AddsUp

(* Every period from first up to that of day d has its document in f.      *)
Filled(f, first, d) == \A p \in Periods : first <= p /\ p < PeriodOf(d) => f[p] = 1

BilledBefore(d) == Filled(docs, hand.first, d)

AtMostOnce == docs \in [Periods -> 0 .. 1]

(* A pass about to generate has found its date due.                        *)
DueWhenTried == \A b \in Beats : beat[b].at = "generate" => beat[b].next <= beat[b].now

RunsCounted == ~hand.stale => row.runs = Sum(docs)

NoGaps ==
    ~hand.moved /\ ~hand.jumped =>
        /\ BilledBefore(row.next)
        /\ \A b \in Beats : beat[b].at \in {"loop", "generate"} => BilledBefore(beat[b].next)

WritesCounted == form # NoForm => edits < MaxEdits

Books == RecurringTypeOK /\ AtMostOnce /\ DueWhenTried /\ RunsCounted /\ WritesCounted

-----------------------------------------------------------------------------
(* Days and periods are numbers, and a due run has a next one.             *)
LEMMA CalendarFacts ==
    /\ LastDay \in Nat /\ Horizon \in Nat /\ Today \subseteq Days
    /\ \A d \in Days : PeriodOf(d) \in Periods /\ PeriodOf(d) \in Nat
    /\ \A p \in Periods : p \in Nat
    /\ \A d \in Days : UtcDay(d) \in Int /\ UtcDay(d) <= d
    /\ \A d \in Days, on \in Today : UtcDay(d) <= on => AdvanceNextRun(d) \in Days
    /\ \A d \in Days, on \in Today : d <= on => d \in Today
<1>1. LastDay \in Nat /\ Horizon \in Nat /\ LastDay <= Horizon
    BY RecurringAssumption
<1>2. Today \subseteq Days
    BY <1>1 DEF Today, Days
<1>3. \A d \in Days : PeriodOf(d) \in Periods /\ PeriodOf(d) \in Nat
    BY RecurringAssumption DEF Periods
<1>4. \A p \in Periods : p \in Nat
    BY RecurringAssumption DEF Periods
<1>5. \A d \in Days : UtcDay(d) \in Int /\ UtcDay(d) <= d
    BY RecurringAssumption
<1>6. \A d \in Days, on \in Today : UtcDay(d) <= on => UtcDay(d) <= LastDay
    BY <1>1, <1>5 DEF Today
<1>7. \A d \in Days, on \in Today : UtcDay(d) <= on => AdvanceNextRun(d) \in Days
    BY <1>6, RecurringAssumption
<1>8. \A d \in Days, on \in Today : d <= on => d \in Today
    BY <1>1 DEF Today, Days
<1> QED
    BY <1>1, <1>2, <1>3, <1>4, <1>5, <1>7, <1>8

(* The row after a document was created.                                   *)
LEMMA AfterRunFacts ==
    ASSUME NEW r \in Row, NEW on \in Today
    PROVE  /\ AfterRun(r, on) \in Row
           /\ AfterRun(r, on).runs = r.runs + 1
           /\ AfterRun(r, on).next = IF UtcDay(r.next) <= on THEN AdvanceNextRun(r.next) ELSE r.next
<1> DEFINE next == IF UtcDay(r.next) <= on THEN AdvanceNextRun(r.next) ELSE r.next
           counted == [r EXCEPT !.runs = @ + 1, !.next = next]
           active == counted.active /\ ~Finished(counted)
<1>1. r.next \in Days
    BY DEF Row
<1>2. next \in Days
    BY <1>1, CalendarFacts
<1> HIDE DEF next
<1>3. counted \in Row /\ counted.runs = r.runs + 1 /\ counted.next = next
    <2> DEFINE runs == r.runs + 1
    <2>1. runs \in Nat
        <3>1. r.runs \in Nat
            BY DEF Row
        <3> QED
            BY <3>1
    <2>2. counted = [r EXCEPT !.runs = runs, !.next = next]
        OBVIOUS
    <2> HIDE DEF runs, counted
    <2>3. [r EXCEPT !.runs = runs, !.next = next] \in Row
        BY <1>2, <2>1 DEF Row
    <2>4. /\ [r EXCEPT !.runs = runs, !.next = next].runs = runs
          /\ [r EXCEPT !.runs = runs, !.next = next].next = next
        BY DEF Row
    <2> QED
        BY <2>2, <2>3, <2>4 DEF runs
<1> HIDE DEF counted
<1>4. active \in BOOLEAN
    BY <1>3 DEF Row
<1> HIDE DEF active
<1>5. [counted EXCEPT !.active = active] \in Row
    BY <1>3, <1>4 DEF Row
<1>6. /\ [counted EXCEPT !.active = active].runs = r.runs + 1
      /\ [counted EXCEPT !.active = active].next = next
    BY <1>3 DEF Row
<1>7. AfterRun(r, on) = [counted EXCEPT !.active = active]
    BY DEF AfterRun, next, counted, active
<1> QED
    BY <1>5, <1>6, <1>7 DEF next

(* What one locked generation does to the row and the documents.           *)
LEMMA GenerateFacts ==
    ASSUME RecurringTypeOK, AtMostOnce, NEW on \in Today, NEW result, Generate(on, result)
    PROVE  /\ row' \in Row
           /\ AtMostOnce'
           /\ \A p \in Periods : docs[p] = 1 => docs'[p] = 1
           /\ row'.next # row.next =>
                 /\ UtcDay(row.next) <= on
                 /\ row'.next = AdvanceNextRun(row.next)
                 /\ docs'[PeriodOf(on)] = 1
           /\ row.runs = Sum(docs) => row'.runs = Sum(docs')
           /\ docs' # docs /\ row.max > 0 => row.runs < row.max
<1>1. row \in Row /\ docs \in [Periods -> 0 .. 1]
    BY DEF RecurringTypeOK, AtMostOnce
<1>2. on \in Days /\ PeriodOf(on) \in Periods
    BY CalendarFacts
<1>3. CASE result = "created"
    <2>1. row' = AfterRun(row, on) /\ docs' = [docs EXCEPT ![PeriodOf(on)] = @ + 1]
        BY <1>3 DEF Generate
    <2>2. ~(docs[PeriodOf(on)] > 0) /\ ~TermOver(row, on)
        BY <1>3 DEF Generate, Result
    <2>3. docs[PeriodOf(on)] = 0
        BY <1>1, <1>2, <2>2
    <2>4. docs' = [docs EXCEPT ![PeriodOf(on)] = 1]
        BY <2>1, <2>3
    <2>5. docs' \in [Periods -> 0 .. 1] /\ docs'[PeriodOf(on)] = 1
        BY <1>1, <1>2, <2>4
    <2>6. \A p \in Periods : docs[p] = 1 => docs'[p] = 1
        BY <1>1, <1>2, <2>4
    <2>7. Sum(docs') = Sum(docs) + 1
        BY <1>1, <1>2, <2>3, <2>4, DocumentSumFacts
    <2>8. row.max > 0 => row.runs < row.max
        <3>1. row.runs \in Nat /\ row.max \in Nat
            BY <1>1, RecurringAssumption DEF Row
        <3> QED
            BY <2>2, <3>1 DEF TermOver
    <2>9. /\ row' \in Row
          /\ row'.runs = row.runs + 1
          /\ row'.next = IF UtcDay(row.next) <= on THEN AdvanceNextRun(row.next) ELSE row.next
        BY <1>1, <2>1, AfterRunFacts
    <2> QED
        BY <2>5, <2>6, <2>7, <2>8, <2>9 DEF AtMostOnce
<1>4. CASE result = "finished"
    <2>1. row' = [row EXCEPT !.active = FALSE] /\ docs' = docs
        BY <1>4 DEF Generate
    <2>2. row' \in Row /\ row'.next = row.next /\ row'.runs = row.runs
        BY <1>1, <2>1 DEF Row
    <2> QED
        BY <1>1, <2>1, <2>2 DEF AtMostOnce
<1>5. CASE result # "created" /\ result # "finished"
    <2>1. row' = row /\ docs' = docs
        BY <1>5 DEF Generate
    <2> QED
        BY <1>1, <2>1 DEF AtMostOnce
<1> QED
    BY <1>3, <1>4, <1>5

-----------------------------------------------------------------------------
(* Where a step of one pass leaves the others and itself.                  *)
LEMMA PassFacts ==
    ASSUME NEW b \in Beats, beat \in [Beats -> Pass], NEW x \in Pass, beat' = [beat EXCEPT ![b] = x]
    PROVE  /\ beat' \in [Beats -> Pass]
           /\ beat'[b] = x
           /\ \A c \in Beats : c # b => beat'[c] = beat[c]
    OBVIOUS

LEMMA IdlePassType == IdlePass \in Pass
<1>1. 0 \in Days /\ 0 \in Today /\ 0 \in 0 .. MaxTicks
    BY RecurringAssumption DEF Days, Today
<1> QED
    BY <1>1 DEF IdlePass, Pass

(* Every step of a pass changes its own record only.                       *)
LEMMA BeatFacts ==
    ASSUME RecurringTypeOK, NEW b \in Beats, Beat(b)
    PROVE  \E x \in Pass :
              /\ beat' = [beat EXCEPT ![b] = x]
              /\ x.at = "generate" => x.next <= x.now
              /\ \/ x.at \in {"idle", "refresh"}
                 \/ StartPass(b) /\ x.next = row.next
                 \/ SkipBilled(b) /\ x.next = AdvanceNextRun(beat[b].next)
                 \/ TryPeriod(b) /\ x.next = beat[b].next
                 \/ Refresh(b) /\ x.next = row.next
<1> DEFINE y == beat[b]
<1>1. y \in Pass /\ row \in Row /\ now \in Today /\ beat \in [Beats -> Pass]
    BY DEF RecurringTypeOK
<1>2. /\ y.at \in {"idle", "loop", "generate", "refresh"} /\ y.next \in Days /\ y.now \in Today
      /\ y.ticks \in 0 .. MaxTicks /\ row.next \in Days
      /\ y = [at |-> y.at, next |-> y.next, now |-> y.now, ticks |-> y.ticks]
    BY <1>1 DEF Pass, Row
<1>3. MaxTicks \in Nat \ {0} /\ 0 \in 0 .. MaxTicks
    BY RecurringAssumption
<1>4. CASE EndPass(b)
    BY <1>4, IdlePassType DEF EndPass, IdlePass
<1>5. CASE StartPass(b)
    <2> DEFINE x == [at |-> "loop", next |-> row.next, now |-> now, ticks |-> 0]
    <2>1. x \in Pass /\ x.at = "loop" /\ x.next = row.next
        BY <1>1, <1>2, <1>3 DEF Pass
    <2>2. beat' = [beat EXCEPT ![b] = x]
        BY <1>5 DEF StartPass
    <2> HIDE DEF x
    <2> QED
        BY <1>5, <2>1, <2>2
<1>6. CASE SkipBilled(b)
    <2> DEFINE x == [at |-> y.at, next |-> AdvanceNextRun(y.next), now |-> y.now, ticks |-> y.ticks + 1]
    <2>1. y.next <= y.now /\ y.ticks < MaxTicks /\ y.at = "loop"
        BY <1>6 DEF SkipBilled, Going
    <2>2. AdvanceNextRun(y.next) \in Days
        <3>1. UtcDay(y.next) \in Int /\ UtcDay(y.next) <= y.next /\ y.next \in Int /\ y.now \in Int
            BY <1>2, CalendarFacts DEF Days, Today
        <3>2. UtcDay(y.next) <= y.now
            BY <2>1, <3>1
        <3> QED
            BY <1>2, <3>2, CalendarFacts
    <2>3. y.ticks + 1 \in 0 .. MaxTicks
        BY <1>2, <1>3, <2>1
    <2>4. x \in Pass /\ x.at = "loop" /\ x.next = AdvanceNextRun(y.next)
        BY <1>2, <2>1, <2>2, <2>3 DEF Pass
    <2>5. beat' = [beat EXCEPT ![b] = x]
        <3>1. beat' = [beat EXCEPT ![b].next = AdvanceNextRun(y.next), ![b].ticks = @ + 1]
            BY <1>6 DEF SkipBilled
        <3> QED
            BY <1>1, <1>2, <3>1
    <2> HIDE DEF x
    <2> QED
        BY <1>6, <2>4, <2>5
<1>7. CASE TryPeriod(b)
    <2> DEFINE x == [at |-> "generate", next |-> y.next, now |-> y.now, ticks |-> y.ticks + 1]
    <2>1. y.next <= y.now /\ y.ticks < MaxTicks
        BY <1>7 DEF TryPeriod, Going
    <2>2. y.ticks + 1 \in 0 .. MaxTicks
        BY <1>2, <1>3, <2>1
    <2>3. x \in Pass /\ x.next = y.next /\ x.next <= x.now
        BY <1>2, <2>1, <2>2 DEF Pass
    <2>4. beat' = [beat EXCEPT ![b] = x]
        <3>1. beat' = [beat EXCEPT ![b].at = "generate", ![b].ticks = @ + 1]
            BY <1>7 DEF TryPeriod
        <3> QED
            BY <1>1, <1>2, <3>1
    <2> HIDE DEF x
    <2> QED
        BY <1>7, <2>3, <2>4
<1>8. CASE beat' = [beat EXCEPT ![b].at = "refresh"]
    <2> DEFINE x == [at |-> "refresh", next |-> y.next, now |-> y.now, ticks |-> y.ticks]
    <2>1. x \in Pass /\ x.at = "refresh"
        BY <1>2 DEF Pass
    <2>2. beat' = [beat EXCEPT ![b] = x]
        <3>1. [y EXCEPT !.at = "refresh"] = x
            BY <1>1 DEF Pass
        <3>2. beat' = [beat EXCEPT ![b] = [y EXCEPT !.at = "refresh"]]
            BY <1>1, <1>8
        <3> QED
            BY <3>1, <3>2
    <2> HIDE DEF x
    <2> QED
        BY <2>1, <2>2
<1>9. CASE Refresh(b)
    <2> DEFINE x == [at |-> "loop", next |-> row.next, now |-> y.now, ticks |-> y.ticks]
    <2>1. x \in Pass /\ x.at = "loop" /\ x.next = row.next
        BY <1>2 DEF Pass
    <2>2. beat' = [beat EXCEPT ![b] = x]
        <3>1. beat' = [beat EXCEPT ![b].at = "loop", ![b].next = row.next]
            BY <1>9 DEF Refresh
        <3>2. [y EXCEPT !.at = "loop", !.next = row.next] = x
            <4> DEFINE z == [at |-> "loop", next |-> y.next, now |-> y.now, ticks |-> y.ticks]
            <4>1. [y EXCEPT !.at = "loop"] = z
                BY <1>1 DEF Pass
            <4>2. z \in Pass
                BY <1>2 DEF Pass
            <4>3. z.at = "loop" /\ z.now = y.now /\ z.ticks = y.ticks
                OBVIOUS
            <4> HIDE DEF z
            <4>4. [z EXCEPT !.next = row.next] = [at |-> z.at, next |-> row.next, now |-> z.now, ticks |-> z.ticks]
                BY <4>2 DEF Pass
            <4> QED
                BY <4>1, <4>3, <4>4
        <3>3. beat' = [beat EXCEPT ![b] = [y EXCEPT !.at = "loop", !.next = row.next]]
            BY <1>1, <3>1
        <3> QED
            BY <3>2, <3>3
    <2> HIDE DEF x
    <2> QED
        BY <1>9, <2>1, <2>2
<1> HIDE DEF y
<1> QED
    BY <1>4, <1>5, <1>6, <1>7, <1>8, <1>9
       DEF Beat, LeaveLoop, StopAtClosed, BeatFails, BeatGenerates

-----------------------------------------------------------------------------
(* Books: types, one document per period, counted runs.                    *)

(* A step that leaves the passes alone keeps what is known of them.        *)
LEMMA BooksFromParts ==
    ASSUME Books,
           row' \in Row, AtMostOnce', RunsCounted',
           closed' \subseteq Periods, contract' \in {"none", "live", "ended"}, now' \in Today,
           beat' \in [Beats -> Pass], DueWhenTried', WritesCounted',
           form' \in [kind : Writes, row : Row] \cup {NoForm}, edits' \in 0 .. MaxEdits,
           hand' \in [first : Periods, moved : BOOLEAN, jumped : BOOLEAN, stale : BOOLEAN]
    PROVE  Books'
<1>1. docs' \in [Periods -> Nat]
    BY DEF AtMostOnce
<1> QED
    BY <1>1 DEF Books, RecurringTypeOK

LEMMA BeatKeepsBooks ==
    ASSUME Books, NEW b \in Beats, Beat(b)
    PROVE  Books'
<1>1. RecurringTypeOK /\ AtMostOnce /\ DueWhenTried /\ RunsCounted /\ WritesCounted
    BY DEF Books
<1>2. PICK x \in Pass : /\ beat' = [beat EXCEPT ![b] = x]
                        /\ x.at = "generate" => x.next <= x.now
    BY <1>1, BeatFacts
<1>3. /\ beat' \in [Beats -> Pass]
      /\ beat'[b] = x
      /\ \A c \in Beats : c # b => beat'[c] = beat[c]
    BY <1>1, <1>2, PassFacts DEF RecurringTypeOK
<1>4. DueWhenTried'
    BY <1>1, <1>2, <1>3 DEF DueWhenTried
<1>5. UNCHANGED <<closed, contract, now, form, edits, hand>>
    BY DEF Beat, StartPass, LeaveLoop, SkipBilled, StopAtClosed, TryPeriod, BeatGenerates, BeatFails,
           Refresh, world, desk
<1>6. row' \in Row /\ AtMostOnce' /\ RunsCounted'
    <2>1. CASE UNCHANGED <<row, docs>>
        BY <1>1, <1>5, <2>1 DEF RecurringTypeOK, AtMostOnce, RunsCounted
    <2>2. CASE SkipBilled(b)
        <3>1. x.next \in Days
            BY DEF Pass
        <3>2. AdvanceNextRun(beat[b].next) \in Days
            <4>1. beat[b] \in Pass /\ beat[b].next <= beat[b].now
                BY <1>1, <2>2 DEF SkipBilled, Going, RecurringTypeOK
            <4>2. beat[b].next \in Days /\ beat[b].now \in Today
                BY <4>1 DEF Pass
            <4>3. UtcDay(beat[b].next) <= beat[b].now
                BY <4>1, <4>2, CalendarFacts DEF Days, Today
            <4> QED
                BY <4>2, <4>3, CalendarFacts
        <3> DEFINE next == AdvanceNextRun(beat[b].next)
        <3>3. row' = [row EXCEPT !.next = next] /\ docs' = docs /\ row \in Row
            BY <1>1, <2>2 DEF SkipBilled, RecurringTypeOK
        <3> HIDE DEF next
        <3>4. row' \in Row /\ row'.runs = row.runs
            BY <3>2, <3>3 DEF Row, next
        <3> QED
            BY <1>1, <1>5, <3>3, <3>4 DEF AtMostOnce, RunsCounted
    <2>3. ASSUME NEW result \in Results, BeatGenerates(b, result)
          PROVE  row' \in Row /\ AtMostOnce' /\ RunsCounted'
        <3>1. beat[b].next \in Today
            <4>1. beat[b] \in Pass /\ beat[b].next <= beat[b].now
                BY <1>1, <2>3 DEF BeatGenerates, DueWhenTried, RecurringTypeOK
            <4> QED
                BY <4>1, CalendarFacts DEF Pass
        <3>2. Generate(beat[b].next, result)
            BY <2>3 DEF BeatGenerates
        <3> QED
            BY <1>1, <1>5, <3>1, <3>2, GenerateFacts DEF RunsCounted
    <2> QED
        BY <2>1, <2>2, <2>3 DEF Beat, StartPass, LeaveLoop, StopAtClosed, TryPeriod, BeatFails, Refresh
<1> QED
    BY <1>1, <1>3, <1>4, <1>5, <1>6, BooksFromParts DEF RecurringTypeOK, WritesCounted

LEMMA RunNowKeepsBooks ==
    ASSUME Books, NEW result \in Results, RunNow(result)
    PROVE  Books'
<1>1. RecurringTypeOK /\ AtMostOnce /\ DueWhenTried /\ RunsCounted /\ WritesCounted
    BY DEF Books
<1>2. now \in Today /\ Generate(now, result)
    BY <1>1 DEF RecurringTypeOK, RunNow
<1>3. hand' \in [first : Periods, moved : BOOLEAN, jumped : BOOLEAN, stale : BOOLEAN] /\ hand'.stale = hand.stale
    <2> DEFINE jump == hand.jumped \/ (row'.next # row.next /\ docs'[PeriodOf(row.next)] = 0)
    <2>1. hand' = [hand EXCEPT !.jumped = jump]
        BY DEF RunNow
    <2>2. jump \in BOOLEAN
        BY <1>1 DEF RecurringTypeOK
    <2> HIDE DEF jump
    <2> QED
        BY <1>1, <2>1, <2>2 DEF RecurringTypeOK
<1>4. UNCHANGED <<closed, contract, now, beat, form, edits>>
    BY DEF RunNow, world, desk
<1>5. row' \in Row /\ AtMostOnce' /\ RunsCounted'
    BY <1>1, <1>2, <1>3, GenerateFacts DEF RunsCounted
<1> QED
    BY <1>1, <1>3, <1>4, <1>5, BooksFromParts DEF RecurringTypeOK, DueWhenTried, WritesCounted

(* A write of a person or a contract, whatever row it writes.              *)
LEMMA WriteKeepsBooks ==
    ASSUME Books, NEW r \in Row, form # NoForm, Write(r)
    PROVE  Books'
<1>1. RecurringTypeOK /\ AtMostOnce /\ DueWhenTried /\ RunsCounted /\ WritesCounted
    BY DEF Books
<1> DEFINE moved == hand.moved \/ r.next # row.next
           stale == hand.stale \/ r.runs # row.runs
<1>2. moved \in BOOLEAN /\ stale \in BOOLEAN
    BY <1>1 DEF RecurringTypeOK
<1>3. hand' = [hand EXCEPT !.moved = moved, !.stale = stale]
    BY DEF Write
<1>4. hand' \in [first : Periods, moved : BOOLEAN, jumped : BOOLEAN, stale : BOOLEAN] /\ hand'.stale = stale
    <2> HIDE DEF moved, stale
    <2> QED
        BY <1>1, <1>2, <1>3 DEF RecurringTypeOK
<1>5. /\ row' = r /\ form' = NoForm /\ edits' = edits + 1
      /\ UNCHANGED <<docs, closed, contract, now, beat>>
    BY DEF Write, world
<1>6. edits' \in 0 .. MaxEdits
    BY <1>1, <1>5, RecurringAssumption DEF RecurringTypeOK, WritesCounted
<1>7. RunsCounted'
    BY <1>1, <1>4, <1>5 DEF RunsCounted
<1> QED
    BY <1>1, <1>4, <1>5, <1>6, <1>7, BooksFromParts DEF RecurringTypeOK, AtMostOnce, DueWhenTried, WritesCounted

(* Reading the row before a write.                                         *)
LEMMA ReadKeepsBooks ==
    ASSUME Books, NEW kind \in Writes, Read(kind), contract' \in {"none", "live", "ended"}
    PROVE  Books'
<1>1. RecurringTypeOK /\ AtMostOnce /\ DueWhenTried /\ RunsCounted /\ WritesCounted
    BY DEF Books
<1>2. UNCHANGED <<row, docs, closed, now, beat, edits, hand>> /\ edits < MaxEdits
    BY DEF Read
<1>3. form' \in [kind : Writes, row : Row]
    BY <1>1 DEF Read, RecurringTypeOK
<1> QED
    BY <1>1, <1>2, <1>3, BooksFromParts
       DEF RecurringTypeOK, AtMostOnce, DueWhenTried, RunsCounted, WritesCounted

(* The rows the writes make.                                               *)
LEMMA WrittenRows ==
    ASSUME RecurringTypeOK, form # NoForm, NEW next \in Days, NEW active \in BOOLEAN, NEW max \in Limits,
           NEW paused \in {"", "CONTRACT_ENDED"}
    PROVE  /\ form.row \in Row
           /\ [form.row EXCEPT !.next = next, !.active = active, !.max = max, !.paused = paused] \in Row
           /\ [row EXCEPT !.next = next, !.active = active, !.paused = paused] \in Row
           /\ [row EXCEPT !.active = active, !.paused = paused] \in Row
<1>1. row \in Row /\ form \in [kind : Writes, row : Row]
    BY DEF RecurringTypeOK
<1>2. form.row \in Row
    BY <1>1
<1> QED
    BY <1>1, <1>2 DEF Row

LEMMA PeopleKeepBooks ==
    ASSUME Books, People
    PROVE  Books'
<1>1. RecurringTypeOK /\ AtMostOnce /\ DueWhenTried /\ RunsCounted /\ WritesCounted
    BY DEF Books
<1>2. ASSUME NEW result \in Results, RunNow(result) PROVE Books'
    BY <1>2, RunNowKeepsBooks
<1>3. CASE StartEdit \/ StartResume \/ StartPause
    BY <1>1, <1>3, ReadKeepsBooks DEF StartEdit, StartResume, StartPause, Writes, RecurringTypeOK
<1>4. NoForm.kind = "none"
    BY DEF NoForm
<1>5. ASSUME NEW next \in Days, NEW active \in BOOLEAN, NEW max \in Limits, SaveEdit(next, active, max)
      PROVE  Books'
    <2> DEFINE paused == IF active # form.row.active THEN "" ELSE form.row.paused
               r == [form.row EXCEPT !.next = next, !.active = active, !.max = max, !.paused = paused]
    <2>1. form # NoForm /\ Write(r)
        BY <1>4, <1>5 DEF SaveEdit
    <2>2. form.row \in Row
        BY <1>1, <1>5, <2>1, WrittenRows
    <2>3. paused \in {"", "CONTRACT_ENDED"}
        BY <2>2 DEF Row
    <2>4. r \in Row
        <3> HIDE DEF paused
        <3> QED
            BY <1>1, <1>5, <2>1, <2>3, WrittenRows
    <2> HIDE DEF r
    <2> QED
        BY <2>1, <2>4, WriteKeepsBooks
<1>6. ASSUME NEW next \in Days, SaveResume(next) PROVE Books'
    <2> DEFINE r == [row EXCEPT !.next = next, !.active = TRUE, !.paused = ""]
    <2>1. form # NoForm /\ Write(r)
        BY <1>4, <1>6 DEF SaveResume
    <2>2. Limits # {}
        BY <1>1 DEF RecurringTypeOK, Row
    <2>3. r \in Row
        BY <1>1, <1>6, <2>1, <2>2, WrittenRows
    <2> HIDE DEF r
    <2> QED
        BY <2>1, <2>3, WriteKeepsBooks
<1>7. CASE SavePause
    <2> DEFINE r == [row EXCEPT !.next = form.row.next, !.active = FALSE, !.paused = ""]
    <2>1. form # NoForm /\ Write(r)
        BY <1>4, <1>7 DEF SavePause
    <2>2. Limits # {} /\ Days # {}
        BY <1>1 DEF RecurringTypeOK, Row
    <2>3. form.row.next \in Days
        BY <1>1, <2>1, <2>2, WrittenRows DEF Row
    <2>4. r \in Row
        BY <1>1, <2>1, <2>2, <2>3, WrittenRows
    <2> HIDE DEF r
    <2> QED
        BY <2>1, <2>4, WriteKeepsBooks
<1>8. CASE PauseEnded
    <2>1. UNCHANGED <<docs, closed, now, beat, form, edits, hand>> /\ contract' = "ended"
        BY <1>8 DEF PauseEnded, desk
    <2>2. row' \in Row /\ row'.runs = row.runs
        <3>1. row \in Row
            BY <1>1 DEF RecurringTypeOK
        <3>2. [row EXCEPT !.active = FALSE, !.paused = "CONTRACT_ENDED"] \in Row
            BY <3>1 DEF Row
        <3>3. [row EXCEPT !.active = FALSE, !.paused = "CONTRACT_ENDED"].runs = row.runs
            BY <3>1 DEF Row
        <3> QED
            BY <1>8, <3>1, <3>2, <3>3 DEF PauseEnded
    <2> QED
        BY <1>1, <2>1, <2>2, BooksFromParts
           DEF RecurringTypeOK, AtMostOnce, DueWhenTried, RunsCounted, WritesCounted
<1>9. CASE ContractRenewed
    <2>1. contract' = "live"
        BY <1>9 DEF ContractRenewed
    <2>2. CASE Read("renewed")
        BY <2>1, <2>2, ReadKeepsBooks DEF Writes
    <2>3. CASE UNCHANGED <<row, docs, closed, now, beat, form, edits, hand>>
        BY <1>1, <2>1, <2>3, BooksFromParts
           DEF RecurringTypeOK, AtMostOnce, DueWhenTried, RunsCounted, WritesCounted
    <2> QED
        BY <1>9, <2>2, <2>3 DEF ContractRenewed, desk
<1> QED
    BY <1>2, <1>3, <1>5, <1>6, <1>7, <1>8, <1>9 DEF People

LEMMA WorldKeepsBooks ==
    ASSUME Books, World
    PROVE  Books'
<1>1. RecurringTypeOK /\ AtMostOnce /\ DueWhenTried /\ RunsCounted /\ WritesCounted
    BY DEF Books
<1>2. UNCHANGED <<row, docs, contract, beat, form, edits, hand>>
    BY DEF World, NextDay, CloseOrReopen, desk
<1>3. now' \in Today
    BY <1>1, RecurringAssumption DEF World, NextDay, CloseOrReopen, RecurringTypeOK, Today
<1>4. closed' \subseteq Periods
    BY <1>1, RecurringAssumption DEF World, NextDay, CloseOrReopen, RecurringTypeOK
<1> QED
    BY <1>1, <1>2, <1>3, <1>4, BooksFromParts
       DEF RecurringTypeOK, AtMostOnce, DueWhenTried, RunsCounted, WritesCounted

LEMMA InitBooks == Init => Books
<1> SUFFICES ASSUME Init PROVE Books
    OBVIOUS
<1>1. row \in Row
    <2>1. row \in [next : Starts, active : {TRUE}, runs : {0}, max : Limits, end : Ends, paused : {""}]
        BY DEF Init
    <2>2. Starts \subseteq Days
        BY CalendarFacts, RecurringAssumption
    <2>3. row = [next |-> row.next, active |-> row.active, runs |-> row.runs,
                 max |-> row.max, end |-> row.end, paused |-> row.paused]
        BY <2>1, Zenon
    <2>4. row.active \in BOOLEAN /\ row.max \in Limits /\ row.end \in Ends
        BY <2>1, Zenon
    <2>5. row.next \in Starts /\ row.runs = 0 /\ row.paused = ""
        BY <2>1, Zenon
    <2>6. row.next \in Days /\ row.paused \in {"", "CONTRACT_ENDED"}
        BY <2>2, <2>5, Zenon
    <2>7. row.runs \in Nat
        <3>1. 0 \in Nat
            OBVIOUS
        <3> QED
            BY <2>5, <3>1, Zenon
    <2> QED
        BY <2>3, <2>4, <2>6, <2>7, Zenon DEF Row
<1>2. PeriodOf(row.next) \in Periods
    BY <1>1, CalendarFacts DEF Row
<1>3. docs \in [Periods -> 0 .. 1] /\ docs \in [Periods -> Nat] /\ Sum(docs) = 0
    <2>1. docs = [p \in Periods |-> 0]
        BY DEF Init
    <2>2. Sum([p \in Periods |-> 0]) = 0
        BY DocumentSumFacts
    <2> QED
        BY <2>1, <2>2
<1>4. beat \in [Beats -> Pass] /\ \A b \in Beats : beat[b].at = "idle"
    BY IdlePassType DEF Init, IdlePass
<1>5. now \in Today /\ edits \in 0 .. MaxEdits
    <2>1. LastDay \in Nat /\ MaxEdits \in Nat
        BY RecurringAssumption
    <2>2. now = 0 /\ edits = 0
        BY DEF Init
    <2> QED
        BY <2>1, <2>2 DEF Today
<1>6. hand \in [first : Periods, moved : BOOLEAN, jumped : BOOLEAN, stale : BOOLEAN]
    BY <1>2 DEF Init
<1>7. closed \subseteq Periods /\ contract \in {"none", "live", "ended"} /\ form = NoForm
    BY RecurringAssumption DEF Init
<1>8. row.runs = 0
    BY DEF Init
<1> QED
    BY <1>1, <1>3, <1>4, <1>5, <1>6, <1>7, <1>8
       DEF Books, RecurringTypeOK, AtMostOnce, DueWhenTried, RunsCounted, WritesCounted

LEMMA BooksAlways == Spec => []Books
<1>1. Init => Books
    BY InitBooks
<1>2. Books /\ [Next]_vars => Books'
    <2>1. Books /\ UNCHANGED vars => Books'
        BY DEF vars, Books, RecurringTypeOK, AtMostOnce, DueWhenTried, RunsCounted, WritesCounted
    <2> QED
        BY <2>1, BeatKeepsBooks, PeopleKeepBooks, WorldKeepsBooks DEF Next
<1> QED
    BY <1>1, <1>2, PTL DEF Spec

-----------------------------------------------------------------------------
(* NoGaps.                                                                 *)

(* One step on from a billed period leaves no gap.                         *)
LEMMA StepOn ==
    ASSUME Orderly, NEW f, NEW first \in Nat, NEW d \in Days, NEW on \in Today, UtcDay(d) <= on,
           Filled(f, first, d), first <= PeriodOf(d) => f[PeriodOf(d)] = 1
    PROVE  Filled(f, first, AdvanceNextRun(d))
<1>1. /\ AdvanceNextRun(d) \in Days /\ PeriodOf(d) \in Nat /\ PeriodOf(AdvanceNextRun(d)) \in Nat
      /\ \A p \in Periods : p \in Nat
    BY CalendarFacts
<1>2. UtcDay(d) <= LastDay
    BY CalendarFacts DEF Today
<1>3. PeriodOf(AdvanceNextRun(d)) <= PeriodOf(d) + 1
    BY <1>2 DEF Orderly
<1> SUFFICES ASSUME NEW p \in Periods, first <= p, p < PeriodOf(AdvanceNextRun(d))
             PROVE  f[p] = 1
    BY DEF Filled
<1>4. p < PeriodOf(d) \/ p = PeriodOf(d)
    BY <1>1, <1>3
<1> QED
    BY <1>4 DEF Filled

(* Documents are never taken back.                                         *)
LEMMA FilledGrows ==
    ASSUME NEW f, NEW g, \A p \in Periods : f[p] = 1 => g[p] = 1, NEW first, NEW d, Filled(f, first, d)
    PROVE  Filled(g, first, d)
    BY DEF Filled

LEMMA BeatLeavesNoGaps ==
    ASSUME Orderly, Books, NoGaps, NEW b \in Beats, Beat(b)
    PROVE  NoGaps'
<1>1. RecurringTypeOK /\ AtMostOnce /\ DueWhenTried /\ RunsCounted /\ WritesCounted
    BY DEF Books
<1>2. hand' = hand
    BY DEF Beat, StartPass, LeaveLoop, SkipBilled, StopAtClosed, TryPeriod, BeatGenerates, BeatFails,
           Refresh
<1> SUFFICES ASSUME ~hand.moved, ~hand.jumped
             PROVE  /\ BilledBefore(row.next)'
                    /\ \A c \in Beats : beat'[c].at \in {"loop", "generate"} => BilledBefore(beat[c].next)'
    BY <1>2 DEF NoGaps
<1>3. /\ Filled(docs, hand.first, row.next)
      /\ \A c \in Beats : beat[c].at \in {"loop", "generate"} => Filled(docs, hand.first, beat[c].next)
    BY DEF NoGaps, BilledBefore
<1>4. hand.first \in Nat /\ row.next \in Days /\ beat[b] \in Pass /\ beat \in [Beats -> Pass]
    BY <1>1, CalendarFacts DEF RecurringTypeOK, Row
<1>5. beat[b].next \in Days /\ beat[b].now \in Today
    BY <1>4 DEF Pass
<1>6. beat[b].next <= beat[b].now => UtcDay(beat[b].next) <= beat[b].now
    BY <1>5, CalendarFacts DEF Days, Today
<1>7. SkipBilled(b) => Filled(docs, hand.first, AdvanceNextRun(beat[b].next))
    <2> SUFFICES ASSUME SkipBilled(b)
                 PROVE  Filled(docs, hand.first, AdvanceNextRun(beat[b].next))
        OBVIOUS
    <2>1. /\ beat[b].at = "loop" /\ beat[b].next <= beat[b].now
          /\ docs[PeriodOf(beat[b].next)] > 0
        BY DEF SkipBilled, Going
    <2>2. docs[PeriodOf(beat[b].next)] = 1
        BY <1>1, <1>5, <2>1, CalendarFacts DEF AtMostOnce
    <2> QED
        BY <1>3, <1>4, <1>5, <1>6, <2>1, <2>2, StepOn
<1>8. /\ \A p \in Periods : docs[p] = 1 => docs'[p] = 1
      /\ Filled(docs', hand.first, row'.next)
    <2>1. CASE UNCHANGED <<row, docs>>
        BY <1>3, <2>1
    <2>2. CASE SkipBilled(b)
        <3>1. docs' = docs /\ row' = [row EXCEPT !.next = AdvanceNextRun(beat[b].next)]
            BY <2>2 DEF SkipBilled
        <3>2. row'.next = AdvanceNextRun(beat[b].next)
            BY <1>1, <3>1 DEF RecurringTypeOK, Row
        <3> QED
            BY <1>7, <2>2, <3>1, <3>2
    <2>3. ASSUME NEW result \in Results, BeatGenerates(b, result)
          PROVE  /\ \A p \in Periods : docs[p] = 1 => docs'[p] = 1
                 /\ Filled(docs', hand.first, row'.next)
        <3> DEFINE on == beat[b].next
        <3>1. beat[b].at = "generate" /\ on <= beat[b].now /\ Generate(on, result)
            BY <1>1, <2>3 DEF BeatGenerates, DueWhenTried
        <3>2. on \in Today
            BY <1>5, <3>1, CalendarFacts
        <3>3. /\ AtMostOnce'
              /\ \A p \in Periods : docs[p] = 1 => docs'[p] = 1
              /\ row'.next # row.next =>
                    /\ UtcDay(row.next) <= on
                    /\ row'.next = AdvanceNextRun(row.next)
                    /\ docs'[PeriodOf(on)] = 1
            BY <1>1, <3>1, <3>2, GenerateFacts
        <3>4. Filled(docs', hand.first, row.next) /\ Filled(docs', hand.first, on)
            BY <1>3, <3>1, <3>3, FilledGrows
        <3>5. CASE row'.next = row.next
            BY <3>3, <3>4, <3>5
        <3>6. CASE row'.next # row.next
            <4>1. PeriodOf(row.next) <= PeriodOf(on)
                BY <1>4, <1>5, <3>3, <3>6 DEF Orderly
            <4>2. /\ PeriodOf(row.next) \in Nat /\ PeriodOf(on) \in Nat
                  /\ PeriodOf(row.next) \in Periods
                BY <1>4, <1>5, CalendarFacts
            <4>3. PeriodOf(row.next) < PeriodOf(on) \/ PeriodOf(row.next) = PeriodOf(on)
                BY <4>1, <4>2
            <4>4. hand.first <= PeriodOf(row.next) => docs'[PeriodOf(row.next)] = 1
                BY <3>3, <3>4, <3>6, <4>2, <4>3 DEF Filled
            <4> QED
                BY <1>4, <3>2, <3>3, <3>4, <3>6, <4>4, StepOn
        <3> QED
            BY <3>5, <3>6
    <2> QED
        BY <2>1, <2>2, <2>3 DEF Beat, StartPass, LeaveLoop, StopAtClosed, TryPeriod, BeatFails, Refresh
<1>9. PICK x \in Pass :
        /\ beat' = [beat EXCEPT ![b] = x]
        /\ \/ x.at \in {"idle", "refresh"}
           \/ StartPass(b) /\ x.next = row.next
           \/ SkipBilled(b) /\ x.next = AdvanceNextRun(beat[b].next)
           \/ TryPeriod(b) /\ x.next = beat[b].next
           \/ Refresh(b) /\ x.next = row.next
    BY <1>1, BeatFacts
<1>10. beat'[b] = x /\ \A c \in Beats : c # b => beat'[c] = beat[c]
    BY <1>4, <1>9, PassFacts
<1>11. x.at \in {"loop", "generate"} => Filled(docs, hand.first, x.next)
    BY <1>3, <1>7, <1>9 DEF TryPeriod
<1>12. \A c \in Beats : beat'[c].at \in {"loop", "generate"} => Filled(docs', hand.first, beat'[c].next)
    BY <1>3, <1>8, <1>10, <1>11, FilledGrows
<1> QED
    BY <1>2, <1>8, <1>12 DEF BilledBefore

(* A step that is not a pass's: the documents grow, the date stays, or the *)
(* period it leaves is billed, or a person is noted to have moved it.      *)
LEMMA OthersLeaveNoGaps ==
    ASSUME Orderly, Books, NoGaps, beat' = beat,
           hand'.first = hand.first,
           hand'.moved \in BOOLEAN, hand'.jumped \in BOOLEAN,
           hand.moved => hand'.moved, hand.jumped => hand'.jumped,
           \A p \in Periods : docs[p] = 1 => docs'[p] = 1,
           \/ hand'.moved \/ hand'.jumped
           \/ Filled(docs', hand.first, row'.next)
           \/ row'.next = row.next
    PROVE  NoGaps'
<1> SUFFICES ASSUME ~hand'.moved, ~hand'.jumped
             PROVE  /\ BilledBefore(row.next)'
                    /\ \A c \in Beats : beat'[c].at \in {"loop", "generate"} => BilledBefore(beat[c].next)'
    BY DEF NoGaps
<1>1. /\ Filled(docs, hand.first, row.next)
      /\ \A c \in Beats : beat[c].at \in {"loop", "generate"} => Filled(docs, hand.first, beat[c].next)
    BY DEF NoGaps, BilledBefore
<1>2. Filled(docs', hand.first, row.next)
    BY <1>1, FilledGrows
<1>3. Filled(docs', hand.first, row'.next)
    BY <1>2
<1>4. \A c \in Beats : beat[c].at \in {"loop", "generate"} => Filled(docs', hand.first, beat[c].next)
    BY <1>1, FilledGrows
<1> QED
    BY <1>3, <1>4 DEF BilledBefore

LEMMA RunNowLeavesNoGaps ==
    ASSUME Orderly, Books, NoGaps, NEW result \in Results, RunNow(result)
    PROVE  NoGaps'
<1>1. RecurringTypeOK /\ AtMostOnce
    BY DEF Books
<1>2. now \in Today /\ Generate(now, result) /\ beat' = beat
    BY <1>1 DEF RecurringTypeOK, RunNow
<1>3. /\ AtMostOnce'
      /\ \A p \in Periods : docs[p] = 1 => docs'[p] = 1
      /\ row'.next # row.next =>
            /\ UtcDay(row.next) <= now
            /\ row'.next = AdvanceNextRun(row.next)
    BY <1>1, <1>2, GenerateFacts
<1> DEFINE jump == hand.jumped \/ (row'.next # row.next /\ docs'[PeriodOf(row.next)] = 0)
<1>4. hand' = [hand EXCEPT !.jumped = jump] /\ jump \in BOOLEAN
    BY <1>1 DEF RunNow, RecurringTypeOK
<1>5. /\ hand'.first = hand.first /\ hand'.moved = hand.moved /\ hand'.jumped = jump
      /\ hand.moved \in BOOLEAN /\ hand.first \in Nat
    <2> HIDE DEF jump
    <2> QED
        BY <1>1, <1>4, CalendarFacts DEF RecurringTypeOK
<1>6. row.next \in Days /\ PeriodOf(row.next) \in Periods
    BY <1>1, CalendarFacts DEF RecurringTypeOK, Row
<1>7. ASSUME ~hand.moved, ~jump, row'.next # row.next
      PROVE  Filled(docs', hand.first, row'.next)
    <2>1. docs'[PeriodOf(row.next)] = 1
        BY <1>3, <1>6, <1>7 DEF AtMostOnce
    <2>2. Filled(docs, hand.first, row.next)
        BY <1>7 DEF NoGaps, BilledBefore
    <2>3. Filled(docs', hand.first, row.next)
        BY <1>3, <2>2, FilledGrows
    <2> QED
        BY <1>2, <1>3, <1>5, <1>6, <1>7, <2>1, <2>3, StepOn
<1> QED
    BY <1>2, <1>3, <1>4, <1>5, <1>7, OthersLeaveNoGaps

(* A write that moves the date is noted; the others leave it.              *)
LEMMA WriteLeavesNoGaps ==
    ASSUME Orderly, Books, NoGaps, NEW r, Write(r)
    PROVE  NoGaps'
<1>1. RecurringTypeOK
    BY DEF Books
<1> DEFINE moved == hand.moved \/ r.next # row.next
           stale == hand.stale \/ r.runs # row.runs
<1>2. /\ hand' = [hand EXCEPT !.moved = moved, !.stale = stale]
      /\ moved \in BOOLEAN
      /\ row' = r /\ docs' = docs /\ beat' = beat
    BY <1>1 DEF Write, RecurringTypeOK
<1>3. /\ hand'.first = hand.first /\ hand'.moved = moved /\ hand'.jumped = hand.jumped
      /\ hand.jumped \in BOOLEAN
    <2> HIDE DEF moved, stale
    <2> QED
        BY <1>1, <1>2 DEF RecurringTypeOK
<1> QED
    BY <1>2, <1>3, OthersLeaveNoGaps

LEMMA NextLeavesNoGaps ==
    ASSUME Orderly, Books, NoGaps, Next
    PROVE  NoGaps'
<1>1. ASSUME NEW b \in Beats, Beat(b) PROVE NoGaps'
    BY <1>1, BeatLeavesNoGaps
<1>2. ASSUME NEW result \in Results, RunNow(result) PROVE NoGaps'
    BY <1>2, RunNowLeavesNoGaps
<1>3. ASSUME NEW r, Write(r) PROVE NoGaps'
    BY <1>3, WriteLeavesNoGaps
<1>4. CASE UNCHANGED <<row, docs, beat, hand>>
    BY <1>4 DEF NoGaps, BilledBefore
<1>5. CASE PauseEnded
    <2>1. docs' = docs /\ beat' = beat /\ hand' = hand
        BY <1>5 DEF PauseEnded
    <2>2. row'.next = row.next
        BY <1>5 DEF PauseEnded, Books, RecurringTypeOK, Row
    <2> QED
        BY <2>1, <2>2 DEF NoGaps, BilledBefore
<1> QED
    BY <1>1, <1>2, <1>3, <1>4, <1>5
       DEF Next, People, World, StartEdit, StartResume, StartPause, Read, SaveEdit,
           SaveResume, SavePause, ContractRenewed, NextDay, CloseOrReopen

-----------------------------------------------------------------------------
(* The schedule, its documents, the passes and the writes under way stay   *)
(* well typed; no pass takes more than MAX_CATCHUP_TICKS periods.          *)
THEOREM RecurringIsTyped == Spec => []RecurringTypeOK
<1>1. Books => RecurringTypeOK
    BY DEF Books
<1> QED
    BY <1>1, BooksAlways, PTL

(* A period is billed once, for any number of overlapping passes, any      *)
(* calendar and any edits (generate_for_schedule).                         *)
THEOREM BilledOnce == Spec => []OneDocumentPerPeriod
<1>1. Books => OneDocumentPerPeriod
    BY DEF Books, AtMostOnce, OneDocumentPerPeriod
<1> QED
    BY <1>1, BooksAlways, PTL

(* max_occurrences bounds the documents as long as no edit overwrote the   *)
(* count of runs.                                                          *)
THEOREM LimitIsKept == Spec => LimitKept
<1> DEFINE Within == ~hand.stale /\ row.max > 0 /\ docs' # docs => Sum(docs) < row.max
<1>1. ASSUME Books, [Next]_vars PROVE [Within]_vars
    <2>1. RecurringTypeOK /\ AtMostOnce /\ DueWhenTried /\ RunsCounted
        BY <1>1 DEF Books
    <2> SUFFICES ASSUME Next, ~hand.stale, row.max > 0, docs' # docs
                 PROVE  Sum(docs) < row.max
        BY <1>1
    <2>2. row.runs = Sum(docs)
        BY <2>1 DEF RunsCounted
    <2>3. ASSUME NEW on \in Today, NEW result, Generate(on, result) PROVE Sum(docs) < row.max
        BY <2>1, <2>2, <2>3, GenerateFacts
    <2>4. ASSUME NEW b \in Beats, NEW result \in Results, BeatGenerates(b, result)
          PROVE  Sum(docs) < row.max
        <3>1. beat[b].next <= beat[b].now /\ beat[b] \in Pass
            BY <2>1, <2>4 DEF BeatGenerates, DueWhenTried, RecurringTypeOK
        <3>2. beat[b].next \in Today
            BY <3>1, CalendarFacts DEF Pass
        <3> QED
            BY <2>3, <2>4, <3>2 DEF BeatGenerates
    <2>5. ASSUME NEW result \in Results, RunNow(result) PROVE Sum(docs) < row.max
        BY <2>1, <2>3, <2>5 DEF RunNow, RecurringTypeOK
    <2>6. CASE \E b \in Beats : Beat(b)
        BY <2>4, <2>6 DEF Beat, StartPass, LeaveLoop, SkipBilled, StopAtClosed, TryPeriod, BeatFails,
                          Refresh
    <2>7. CASE People
        BY <2>5, <2>7 DEF People, StartEdit, StartResume, StartPause, Read, SaveEdit, SaveResume,
                          SavePause, Write, PauseEnded, ContractRenewed
    <2>8. CASE World
        BY <2>8 DEF World, NextDay, CloseOrReopen
    <2> QED
        BY <2>6, <2>7, <2>8 DEF Next
<1>2. Spec => [][Within]_vars
    BY <1>1, BooksAlways, PTL DEF Spec
<1> QED
    BY <1>2 DEF LimitKept

(* In an orderly calendar no period is passed over; the monthly calendar   *)
(* of RunDates is not orderly.                                             *)
THEOREM NoPeriodSkipped ==
    ASSUME Orderly
    PROVE  Spec => []NothingSkipped
<1>1. Init => NoGaps
    <2> SUFFICES ASSUME Init PROVE NoGaps
        OBVIOUS
    <2>1. row.next \in Days
        BY InitBooks DEF Books, RecurringTypeOK, Row
    <2>2. PeriodOf(row.next) \in Nat /\ \A p \in Periods : p \in Nat
        BY <2>1, CalendarFacts
    <2>3. hand.first = PeriodOf(row.next) /\ \A b \in Beats : beat[b].at = "idle"
        BY DEF Init, IdlePass
    <2>4. Filled(docs, hand.first, row.next)
        BY <2>2, <2>3 DEF Filled
    <2> QED
        BY <2>3, <2>4 DEF NoGaps, BilledBefore
<1>2. Books /\ NoGaps /\ [Next]_vars => NoGaps'
    <2>1. NoGaps /\ UNCHANGED vars => NoGaps'
        BY DEF vars, NoGaps, BilledBefore
    <2> QED
        BY <2>1, NextLeavesNoGaps
<1>3. NoGaps => NothingSkipped
    BY DEF NoGaps, BilledBefore, Filled, NothingSkipped
<1> QED
    BY <1>1, <1>2, <1>3, BooksAlways, PTL DEF Spec

=============================================================================
