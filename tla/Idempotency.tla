----------------------------- MODULE Idempotency -----------------------------
(***************************************************************************)
(* The durable Idempotency-Key protocol of the API server                  *)
(* (backend/core/idempotency.py) with the nightly prune job                *)
(* (backend/core/tasks.py).                                                *)
(*                                                                         *)
(* A request that carries a key inserts an in-flight row under a unique    *)
(* constraint, runs the protected operation, and stores the answer in the  *)
(* row or releases it.  Every database statement that another request can  *)
(* see between two others is a step of its own: the failed INSERT, the     *)
(* locked look-up, the second INSERT, the commit of the operation, the     *)
(* write of the answer, the release.  A worker may die between any two.    *)
(***************************************************************************)
EXTENDS Naturals, Sequences

CONSTANTS
    Requests,      \* server-side request slots; a slot is reused once idle
    Keys,          \* (company, scope, key) triples
    Prints,        \* request fingerprints
    Blank,         \* the empty fingerprint: unreadable body, or a row made late
    Kind,          \* Kind[k]: what begin_record and prune see in the scope
    Style,         \* Style[k]: which settle code the endpoint of k uses
    StoreMayFail,  \* may the write of the answer raise after the commit?
    SlowKeys,      \* keys whose requests may outlive the 15 minute stale window
    Crashes,       \* may a worker die in the middle of a request?
    MaxEffects     \* bound: how often the operation of one key may commit

ASSUME ConstantsAssumption ==
    /\ Blank \notin Prints
    /\ Kind \in [Keys -> {"money", "complete", "plain"}]
    /\ Style \in [Keys -> {"keep", "wrap"}]
    /\ StoreMayFail \in BOOLEAN
    /\ SlowKeys \subseteq Keys
    /\ Crashes \in BOOLEAN
    /\ MaxEffects \in Nat

VARIABLES
    rows,       \* rows[k]: the IdempotencyRecord of k, or NoRow
    pc,         \* pc[r]: where request r is
    key,        \* key[r]: its key
    print,      \* print[r]: its fingerprint
    out,        \* out[r]: the outcome of its operation, then its answer
    effects,    \* effects[k]: fingerprints of the committed operations of k
    forgotten   \* forgotten[k]: a completed row of k has been pruned

vars == <<rows, pc, key, print, out, effects, forgotten>>

(* What an operation ends with.  "ok": committed, 2xx.  The others rolled  *)
(* back: a refusal that will not change, a transient 4xx, a server fault.  *)
Outcomes == {"ok", "refused", "transient", "fault"}

InFlight == "in_flight"

Answers == Outcomes \cup {"in_flight_409", "reused_422"}

(* Age of a row: 0 fresh, 1 past IN_FLIGHT_STALE_SECONDS, 2 past 24 hours, *)
(* 3 past the 30 days the prune job keeps completed rows.                  *)
Ages == 0 .. 3

Record == [answer : Outcomes \cup {InFlight}, hash : Prints \cup {Blank}, age : Ages]

NoRow == [answer |-> "none", hash |-> Blank, age |-> 0]

NewRow(f) == [answer |-> InFlight, hash |-> f, age |-> 0]

Steps == {"idle", "begin", "lookup", "insert", "build", "settle", "release", "answered"}

(* A request between its claim of the key and its last write to the row.  *)
Holding(r) == pc[r] \in {"build", "settle", "release"}

IsMoney(k) == Kind[k] # "plain"

(* Mutant: the fingerprint of a reused key is not compared.                *)
Conflict_Ignored(row, f) == FALSE

Conflict(row, f) == f # Blank /\ row.hash # Blank /\ row.hash # f

Complete(row) == row.answer \in Outcomes

(* Mutant: a stale money key is reclaimed like any other.                  *)
Reclaimable_MoneyToo(k) == rows[k].age >= 1

Reclaimable(k) == rows[k].age >= 1 /\ (~IsMoney(k) \/ Kind[k] = "complete")

-----------------------------------------------------------------------------
Init ==
    /\ rows = [k \in Keys |-> NoRow]
    /\ pc = [r \in Requests |-> "idle"]
    /\ key \in [Requests -> Keys]
    /\ print = [r \in Requests |-> Blank]
    /\ out = [r \in Requests |-> "fault"]
    /\ effects = [k \in Keys |-> <<>>]
    /\ forgotten = [k \in Keys |-> FALSE]

Goto(r, step) == pc' = [pc EXCEPT ![r] = step]

Answer(r, a) ==
    /\ Goto(r, "answered")
    /\ out' = [out EXCEPT ![r] = a]

(* A request with key k and fingerprint f arrives.                         *)
Submit(r, k, f) ==
    /\ pc[r] = "idle"
    /\ Goto(r, "begin")
    /\ key' = [key EXCEPT ![r] = k]
    /\ print' = [print EXCEPT ![r] = f]
    /\ UNCHANGED <<rows, out, effects, forgotten>>

(* Mutant: the INSERT overwrites the row that is there.                    *)
Begin_Upsert(r) ==
    /\ pc[r] = "begin"
    /\ rows' = [rows EXCEPT ![key[r]] = NewRow(print[r])]
    /\ Goto(r, "build")
    /\ UNCHANGED <<key, print, out, effects, forgotten>>

(* begin_record: INSERT the in-flight row; the unique constraint decides.  *)
Begin(r) ==
    /\ pc[r] = "begin"
    /\ \/ /\ rows[key[r]] = NoRow
          /\ rows' = [rows EXCEPT ![key[r]] = NewRow(print[r])]
          /\ Goto(r, "build")
       \/ /\ rows[key[r]] # NoRow
          /\ rows' = rows
          /\ Goto(r, "lookup")
    /\ UNCHANGED <<key, print, out, effects, forgotten>>

(* begin_record after the IntegrityError: SELECT FOR UPDATE and decide.    *)
Lookup(r) ==
    LET k == key[r] row == rows[key[r]] IN
    /\ pc[r] = "lookup"
    /\ \/ /\ row = NoRow
          /\ Goto(r, "insert")
          /\ UNCHANGED <<rows, out>>
       \/ /\ row # NoRow
          /\ Conflict(row, print[r])
          /\ Answer(r, "reused_422")
          /\ rows' = rows
       \/ /\ row # NoRow
          /\ ~Conflict(row, print[r])
          /\ Complete(row)
          /\ Answer(r, row.answer)
          /\ rows' = rows
       \/ /\ row # NoRow
          /\ ~Conflict(row, print[r])
          /\ ~Complete(row)
          /\ Reclaimable(k)
          /\ rows' = [rows EXCEPT ![k] = NewRow(print[r])]
          /\ Goto(r, "build")
          /\ out' = out
       \/ /\ row # NoRow
          /\ ~Conflict(row, print[r])
          /\ ~Complete(row)
          /\ ~Reclaimable(k)
          /\ Answer(r, "in_flight_409")
          /\ rows' = rows
    /\ UNCHANGED <<key, print, effects, forgotten>>

(* Mutant: the second INSERT trusts the look-up before it.                 *)
InsertAgain_Unchecked(r) ==
    /\ pc[r] = "insert"
    /\ rows' = [rows EXCEPT ![key[r]] = NewRow(print[r])]
    /\ Goto(r, "build")
    /\ UNCHANGED <<key, print, out, effects, forgotten>>

(* begin_record when the locked look-up found nothing: INSERT once more.   *)
InsertAgain(r) ==
    /\ pc[r] = "insert"
    /\ \/ /\ rows[key[r]] = NoRow
          /\ rows' = [rows EXCEPT ![key[r]] = NewRow(print[r])]
          /\ Goto(r, "build")
          /\ out' = out
       \/ /\ rows[key[r]] # NoRow
          /\ rows' = rows
          /\ Answer(r, "in_flight_409")
    /\ UNCHANGED <<key, print, effects, forgotten>>

(* Mutants: an unreadable body is posted; a completed document can be      *)
(* completed again.                                                        *)
Build_BlankBody(r, o) ==
    /\ pc[r] = "build"
    /\ o = "ok" => Len(effects[key[r]]) < MaxEffects
    /\ Goto(r, "settle")
    /\ out' = [out EXCEPT ![r] = o]
    /\ effects' = IF o = "ok" THEN [effects EXCEPT ![key[r]] = Append(@, print[r])] ELSE effects
    /\ UNCHANGED <<rows, key, print, forgotten>>
Build_NoStatusCheck(r, o) == (o = "ok" => print[r] # Blank) /\ Build_BlankBody(r, o)

(* The protected operation ends.  "ok" is the commit of its transaction.   *)
(* A request whose body cannot be read is refused; a *_complete operation  *)
(* finds the document already completed once it has committed.             *)
Build(r, o) ==
    LET k == key[r] IN
    /\ pc[r] = "build"
    /\ o = "ok" => /\ print[r] # Blank
                   /\ Kind[k] = "complete" => effects[k] = <<>>
                   /\ Len(effects[k]) < MaxEffects
    /\ Goto(r, "settle")
    /\ out' = [out EXCEPT ![r] = o]
    /\ effects' = IF o = "ok" THEN [effects EXCEPT ![k] = Append(@, print[r])] ELSE effects
    /\ UNCHANGED <<rows, key, print, forgotten>>

(* Which outcomes are stored for replay; the rest release the key.         *)
Stored(k) == IF Style[k] = "wrap" THEN {"ok", "refused"} ELSE {"ok"}

(* store_record writes the answer on whichever row has the key now, and    *)
(* makes one (with no fingerprint) when there is none.                     *)
StoreRecord(r) ==
    LET k == key[r] IN
    /\ pc[r] = "settle"
    /\ out[r] \in Stored(k)
    /\ rows' = [rows EXCEPT ![k] = IF @ = NoRow
                                   THEN [answer |-> out[r], hash |-> Blank, age |-> 0]
                                   ELSE [@ EXCEPT !.answer = out[r]]]
    /\ Goto(r, "answered")
    /\ UNCHANGED <<key, print, out, effects, forgotten>>

(* Mutant: every settle code releases the key when the write fails.        *)
StoreFails_Releases(r) ==
    /\ StoreMayFail
    /\ pc[r] = "settle"
    /\ out[r] \in Stored(key[r])
    /\ Goto(r, "release")
    /\ out' = [out EXCEPT ![r] = "fault"]
    /\ UNCHANGED <<rows, key, print, effects, forgotten>>

(* The write of the answer raises.  The views and IdempotentCreateMixin    *)
(* keep the key; the finally clause of wrap_idempotent releases it.        *)
StoreFails(r) ==
    /\ StoreMayFail
    /\ pc[r] = "settle"
    /\ out[r] \in Stored(key[r])
    /\ Goto(r, IF Style[key[r]] = "wrap" THEN "release" ELSE "answered")
    /\ out' = [out EXCEPT ![r] = "fault"]
    /\ UNCHANGED <<rows, key, print, effects, forgotten>>

(* Mutant: a failed operation forgets to release its key.                  *)
GiveUp_KeepsKey(r) ==
    /\ pc[r] = "settle"
    /\ out[r] \notin Stored(key[r])
    /\ Goto(r, "answered")
    /\ UNCHANGED <<rows, key, print, out, effects, forgotten>>

(* The operation did not succeed: the settle code turns to release_record. *)
GiveUp(r) ==
    /\ pc[r] = "settle"
    /\ out[r] \notin Stored(key[r])
    /\ Goto(r, "release")
    /\ UNCHANGED <<rows, key, print, out, effects, forgotten>>

(* release_record deletes the row of the key if it is in flight.           *)
ReleaseRecord(r) ==
    LET k == key[r] IN
    /\ pc[r] = "release"
    /\ rows' = [rows EXCEPT ![k] = IF @.answer = InFlight THEN NoRow ELSE @]
    /\ Goto(r, "answered")
    /\ UNCHANGED <<key, print, out, effects, forgotten>>

(* A slot that becomes idle carries nothing over to its next request.      *)
FreeSlot(r) ==
    /\ Goto(r, "idle")
    /\ print' = [print EXCEPT ![r] = Blank]
    /\ out' = [out EXCEPT ![r] = "fault"]
    /\ UNCHANGED <<rows, key, effects, forgotten>>

(* The answer leaves the server.                                           *)
Deliver(r) == pc[r] = "answered" /\ FreeSlot(r)

(* The worker dies (deploy, out of memory, killed by its supervisor).      *)
Crash(r) ==
    /\ Crashes
    /\ pc[r] \notin {"idle", "answered"}
    /\ FreeSlot(r)

(* Time passes for a row.  The web workers' own timeout (two minutes) is   *)
(* far below the stale window, so except for SlowKeys a row goes stale     *)
(* only when no request that claimed its key is still running.             *)
Tick(k) ==
    /\ rows[k] # NoRow
    /\ rows[k].age < 3
    /\ k \in SlowKeys \/ ~\E r \in Requests : key[r] = k /\ Holding(r)
    /\ rows' = [rows EXCEPT ![k].age = @ + 1]
    /\ UNCHANGED <<pc, key, print, out, effects, forgotten>>

(* prune_idempotency_records_task.                                         *)
PrunedDone(k) == Complete(rows[k]) /\ rows[k].age = 3

PrunedInFlight(k) == rows[k].answer = InFlight /\ rows[k].age >= 2 /\ ~IsMoney(k)

Prune ==
    /\ rows' = [k \in Keys |-> IF PrunedDone(k) \/ PrunedInFlight(k) THEN NoRow ELSE rows[k]]
    /\ forgotten' = [k \in Keys |-> forgotten[k] \/ PrunedDone(k)]
    /\ UNCHANGED <<pc, key, print, out, effects>>

Settle(r) == StoreRecord(r) \/ StoreFails(r) \/ GiveUp(r) \/ ReleaseRecord(r)

Claim(r) == Begin(r) \/ Lookup(r) \/ InsertAgain(r)

Next ==
    \/ \E r \in Requests :
          \/ \E k \in Keys, f \in Prints \cup {Blank} : Submit(r, k, f)
          \/ Claim(r)
          \/ \E o \in Outcomes : Build(r, o)
          \/ Settle(r)
          \/ Deliver(r)
          \/ Crash(r)
    \/ \E k \in Keys : Tick(k)
    \/ Prune

Spec == Init /\ [][Next]_vars

-----------------------------------------------------------------------------
TypeOK ==
    /\ rows \in [Keys -> Record \cup {NoRow}]
    /\ pc \in [Requests -> Steps]
    /\ key \in [Requests -> Keys]
    /\ print \in [Requests -> Prints \cup {Blank}]
    /\ out \in [Requests -> Answers]
    /\ effects \in [Keys -> Seq(Prints)]
    /\ forgotten \in [Keys -> BOOLEAN]

(***************************************************************************)
(* Properties.                                                             *)
(***************************************************************************)
Committed(k, f) == \E i \in 1 .. Len(effects[k]) : effects[k][i] = f

(* Keys whose money the claim protocol itself must protect: a money scope  *)
(* that is not *_complete, settled by code that cannot release the key     *)
(* after the commit.                                                       *)
Protected(k) == Kind[k] = "money" /\ (Style[k] = "keep" \/ ~StoreMayFail)

(* Keys that are reclaimed or pruned when stale belong to requests that    *)
(* the workers' timeout of two minutes ends long before that.              *)
StaleIsAbandoned == \A k \in SlowKeys : Kind[k] = "money"

(* At most one request works under a key at a time: the unique constraint, *)
(* the row lock and the stale window of begin_record together never let a  *)
(* second request past while the first is still running.                   *)
SingleOwner ==
    \A r, s \in Requests : Holding(r) /\ Holding(s) /\ key[r] = key[s] => r = s

(* However often a client sends a key, and wherever workers die, the money *)
(* operation of a protected key commits at most once until the prune job   *)
(* drops its completed row (begin_record, store_record, release_record).   *)
MoneyOnce ==
    \A k \in Keys : Protected(k) => Len(effects[k]) <= 1 \/ forgotten[k]

(* A success answer, first-hand or replayed, is only given for a body the  *)
(* server committed under that key: a reused key with another body never   *)
(* receives someone else's success (_fingerprints_conflict, replay_record).*)
TruthfulAnswer ==
    \A r \in Requests :
        pc[r] = "answered" /\ out[r] = "ok" /\ print[r] # Blank
            => Committed(key[r], print[r])

(* When the server turns a money request down as refused, nothing of that  *)
(* request has been posted under the key: the web client takes a new key   *)
(* after a refusal (isDefinitiveRejection in web/src/api/client.ts).       *)
RefusalIsFinal ==
    [][\A r \in Requests :
          /\ pc[r] # "answered" /\ pc'[r] = "answered" /\ out'[r] = "refused"
          /\ Protected(key[r]) /\ ~forgotten[key[r]]
          => effects[key[r]] = <<>>]_vars

(* Once a key has an answer every replay is that same answer: no late      *)
(* request overwrites a completed row (store_record updates by key only).  *)
ReplayStable ==
    [][\A k \in Keys :
          Complete(rows[k]) /\ rows'[k] # NoRow => rows'[k].answer = rows[k].answer]_vars

(* A *_complete key, which is money and is yet reclaimed when stale and    *)
(* released when its answer cannot be written, completes its document at   *)
(* most once, pruned or not: the document's own status is the guard.       *)
CompletedOnce == \A k \in Keys : Kind[k] = "complete" => Len(effects[k]) <= 1

(* While no worker dies and no write fails, every claimed key is settled:  *)
(* no path of the settle code leaves the row in flight.                    *)
KeySettles == \A k \in Keys : rows[k].answer = InFlight ~> rows[k].answer # InFlight

(* Server code that has started goes on: each request keeps taking steps.  *)
Fairness ==
    \A r \in Requests : WF_vars(Claim(r) \/ (\E o \in Outcomes : Build(r, o)) \/ Settle(r))

FairSpec == Spec /\ Fairness

=============================================================================
