-------------------------- MODULE IdempotencyProofs --------------------------
(***************************************************************************)
(* Theorems about the Idempotency-Key protocol, for every set of requests, *)
(* keys and fingerprints, every assignment of scopes and settle codes, and *)
(* with crashes, failing answer writes and slow requests all allowed.      *)
(***************************************************************************)
EXTENDS Idempotency, TLAPS

(* The row a claim inserts is a record; it is in flight.                   *)
LEMMA NewRowType ==
    ASSUME NEW f \in Prints \cup {Blank}
    PROVE  NewRow(f) \in Record /\ NewRow(f).answer = InFlight
BY DEF NewRow, Record, Ages, InFlight, Outcomes

(* Type correctness: one step per action.                                  *)
THEOREM TypeCorrect == Spec => []TypeOK
<1>1. Init => TypeOK
  BY DEF Init, TypeOK, NoRow, Record, Steps, Answers, Outcomes
<1>2. TypeOK /\ [Next]_vars => TypeOK'
  <2> SUFFICES ASSUME TypeOK, [Next]_vars PROVE TypeOK'
    OBVIOUS
  <2>0. ASSUME NEW r \in Requests
        PROVE  key[r] \in Keys /\ print[r] \in Prints \cup {Blank} /\ NewRow(print[r]) \in Record
    BY NewRowType DEF TypeOK
  <2> USE DEF TypeOK, Steps, Answers, Outcomes, Goto
  <2>1. ASSUME NEW r \in Requests, NEW k \in Keys, NEW f \in Prints \cup {Blank}, Submit(r, k, f)
        PROVE TypeOK'
    BY <2>1 DEF Submit
  <2>2. ASSUME NEW r \in Requests, Begin(r) PROVE TypeOK'
    <3>1. rows' \in [Keys -> Record \cup {NoRow}]
      BY <2>2, <2>0 DEF Begin
    <3>2. pc' \in [Requests -> Steps]
      BY <2>2 DEF Begin
    <3> QED BY <2>2, <3>1, <3>2 DEF Begin
  <2>3. ASSUME NEW r \in Requests, Lookup(r) PROVE TypeOK'
    <3>1. rows' \in [Keys -> Record \cup {NoRow}]
      BY <2>3, <2>0 DEF Lookup, Answer
    <3>2. pc' \in [Requests -> Steps] /\ out' \in [Requests -> Answers]
      BY <2>3 DEF Lookup, Answer, Complete
    <3> QED BY <2>3, <3>1, <3>2 DEF Lookup
  <2>4. ASSUME NEW r \in Requests, InsertAgain(r) PROVE TypeOK'
    <3>1. rows' \in [Keys -> Record \cup {NoRow}]
      BY <2>4, <2>0 DEF InsertAgain
    <3>2. pc' \in [Requests -> Steps] /\ out' \in [Requests -> Answers]
      BY <2>4 DEF InsertAgain, Answer
    <3> QED BY <2>4, <3>1, <3>2 DEF InsertAgain
  <2>5. ASSUME NEW r \in Requests, NEW o \in Outcomes, Build(r, o) PROVE TypeOK'
    <3>1. effects' \in [Keys -> Seq(Prints)]
      BY <2>5 DEF Build
    <3> QED BY <2>5, <3>1 DEF Build
  <2>6. ASSUME NEW r \in Requests, StoreRecord(r) PROVE TypeOK'
    <3> DEFINE late == [answer |-> out[r], hash |-> Blank, age |-> 0]
               kept == [rows[key[r]] EXCEPT !.answer = out[r]]
    <3>1. out[r] \in Outcomes /\ late \in Record
      BY <2>6 DEF StoreRecord, Stored, Record, Ages
    <3>2. rows[key[r]] # NoRow => kept \in Record
      BY <2>0, <3>1 DEF Record
    <3>3. rows' = [rows EXCEPT ![key[r]] = IF rows[key[r]] = NoRow THEN late ELSE kept]
      BY <2>6 DEF StoreRecord
    <3> HIDE DEF late, kept
    <3>4. rows' \in [Keys -> Record \cup {NoRow}]
      BY <2>0, <3>1, <3>2, <3>3
    <3> QED BY <2>6, <3>4 DEF StoreRecord
  <2>7. ASSUME NEW r \in Requests, StoreFails(r) PROVE TypeOK'
    BY <2>7 DEF StoreFails
  <2>8. ASSUME NEW r \in Requests, GiveUp(r) PROVE TypeOK'
    BY <2>8 DEF GiveUp
  <2>9. ASSUME NEW r \in Requests, ReleaseRecord(r) PROVE TypeOK'
    BY <2>9 DEF ReleaseRecord
  <2>10. ASSUME NEW r \in Requests, Deliver(r) \/ Crash(r) PROVE TypeOK'
    BY <2>10 DEF Deliver, Crash, FreeSlot
  <2>11. ASSUME NEW k \in Keys, Tick(k) PROVE TypeOK'
    <3>1. rows[k] \in Record
      BY <2>11 DEF Tick
    <3>2. rows[k].age \in 0 .. 3 /\ rows[k].age + 1 \in 0 .. 3
      BY <2>11, <3>1 DEF Tick, Record, Ages
    <3> DEFINE older == [rows[k] EXCEPT !.age = @ + 1]
    <3>3. older \in Record
      BY <3>1, <3>2 DEF Record, Ages
    <3>4. rows' = [rows EXCEPT ![k] = older]
      BY <2>11 DEF Tick
    <3> HIDE DEF older
    <3>5. rows' \in [Keys -> Record \cup {NoRow}]
      BY <3>3, <3>4
    <3> QED BY <2>11, <3>5 DEF Tick
  <2>12. CASE Prune
    BY <2>12 DEF Prune
  <2>13. CASE UNCHANGED vars
    BY <2>13 DEF vars
  <2> QED
    BY <2>1, <2>2, <2>3, <2>4, <2>5, <2>6, <2>7, <2>8, <2>9, <2>10, <2>11, <2>12, <2>13
       DEF Next, Claim, Settle
<1> QED
  BY <1>1, <1>2, PTL DEF Spec

-----------------------------------------------------------------------------
(* Every request that works under a protected key still owns its in-flight *)
(* row: nobody reclaims, prunes or completes it from under the request.    *)
OwnsRow ==
    \A r \in Requests : Holding(r) /\ Protected(key[r]) => rows[key[r]].answer = InFlight

(* And it is the only one.                                                 *)
OwnsAlone ==
    \A r, s \in Requests :
        Holding(r) /\ Holding(s) /\ key[r] = key[s] /\ Protected(key[r]) => r = s

NothingYet(k) == effects[k] = <<>> \/ forgotten[k]

(* Before the commit, and whenever the key is about to be released, the    *)
(* operation of the key has not committed.                                 *)
CleanUntilCommit ==
    \A r \in Requests :
        /\ Protected(key[r])
        /\ pc[r] \in {"build", "release"} \/ (pc[r] = "settle" /\ out[r] # "ok")
        => NothingYet(key[r])

(* Committed money keeps its row, and an answer other than success is only *)
(* stored when nothing was committed.                                      *)
MoneyKeepsRow ==
    \A k \in Keys :
        Protected(k) /\ rows[k].answer \notin {InFlight, "ok"} => NothingYet(k)

IInv == OwnsRow /\ OwnsAlone /\ CleanUntilCommit /\ MoneyKeepsRow /\ MoneyOnce

USE DEF IInv, OwnsRow, OwnsAlone, CleanUntilCommit, MoneyKeepsRow, MoneyOnce, NothingYet, Holding

(* Taking the key: every way begin_record hands out a row.                 *)
LEMMA ClaimKeepsIInv ==
    ASSUME TypeOK, IInv, NEW r \in Requests, Claim(r)
    PROVE  IInv'
<1>0. key[r] \in Keys /\ NewRow(print[r]).answer = InFlight
  BY NewRowType DEF TypeOK
<1>1. ASSUME ~Protected(key[r]) \/ rows[key[r]] = NoRow,
             rows' = [rows EXCEPT ![key[r]] = NewRow(print[r])],
             Goto(r, "build"), UNCHANGED <<key, out, effects, forgotten>>
      PROVE  IInv'
  <2>1. Protected(key[r]) => rows[key[r]].answer = "none"
    BY <1>1 DEF NoRow
  <2>2. \A k \in Keys : rows'[k].answer = IF k = key[r] THEN InFlight ELSE rows[k].answer
    BY <1>0, <1>1 DEF TypeOK
  <2>3. \A s \in Requests : pc'[s] = IF s = r THEN "build" ELSE pc[s]
    BY <1>1 DEF TypeOK, Goto
  <2>4. Protected(key[r]) => NothingYet(key[r]) /\ \A s \in Requests : key[s] = key[r] => ~Holding(s)
    BY <1>0, <2>1 DEF InFlight
  <2>5. \A s \in Requests : key[s] \in Keys
    BY DEF TypeOK
  <2>6. OwnsRow' /\ OwnsAlone'
    BY <1>1, <2>2, <2>3, <2>4, <2>5 DEF Protected
  <2>7. CleanUntilCommit'
    BY <1>1, <2>3, <2>4, <2>5 DEF Protected
  <2>8. MoneyKeepsRow' /\ MoneyOnce'
    BY <1>1, <2>2 DEF Protected
  <2> QED BY <2>6, <2>7, <2>8
<1>2. ASSUME NEW step \in {"lookup", "insert", "answered"}, pc[r] \in {"begin", "lookup", "insert"},
             Goto(r, step), UNCHANGED <<rows, key, effects, forgotten>>,
             \A s \in Requests \ {r} : out'[s] = out[s]
      PROVE  IInv'
  <2>1. \A s \in Requests : pc'[s] = IF s = r THEN step ELSE pc[s]
    BY <1>2 DEF TypeOK, Goto
  <2>2. OwnsRow' /\ OwnsAlone'
    BY <1>2, <2>1 DEF Protected
  <2>3. CleanUntilCommit'
    BY <1>2, <2>1 DEF Protected
  <2> QED BY <1>2, <2>2, <2>3 DEF Protected
<1>3. Reclaimable(key[r]) => ~Protected(key[r])
  BY DEF Reclaimable, IsMoney, Protected
<1>4. CASE Begin(r)
  BY <1>1, <1>2, <1>4 DEF Begin
<1>5. CASE Lookup(r)
  BY <1>1, <1>2, <1>3, <1>5 DEF Lookup, Answer, TypeOK
<1>6. CASE InsertAgain(r)
  BY <1>1, <1>2, <1>6 DEF InsertAgain, Answer, TypeOK
<1> QED BY <1>4, <1>5, <1>6 DEF Claim

(* The commit of the protected operation, or its failure.                  *)
LEMMA BuildKeepsIInv ==
    ASSUME TypeOK, IInv, NEW r \in Requests, NEW o \in Outcomes, Build(r, o)
    PROVE  IInv'
<1> DEFINE k == key[r]
<1>1. k \in Keys /\ \A s \in Requests : key[s] \in Keys
  BY DEF TypeOK
<1>2. Protected(k) => NothingYet(k) /\ rows[k].answer = InFlight
  BY DEF Build
<1>3. \A s \in Requests : /\ pc'[s] = IF s = r THEN "settle" ELSE pc[s]
                          /\ out'[s] = IF s = r THEN o ELSE out[s]
  BY DEF TypeOK, Build, Goto
<1>4. \A j \in Keys : j # k => effects'[j] = effects[j]
  BY DEF TypeOK, Build
<1>5. effects[k] = <<>> => Len(effects'[k]) <= 1
  BY <1>1 DEF TypeOK, Build
<1>6. o # "ok" => effects' = effects
  BY DEF Build
<1>7. OwnsRow' /\ OwnsAlone'
  BY <1>3 DEF Build, Protected
<1>8. CleanUntilCommit'
  <2>1. \A s \in Requests : s # r /\ Holding(s) /\ Protected(key[s]) => key[s] # k
    BY DEF Build
  <2> QED BY <1>1, <1>2, <1>3, <1>4, <1>6, <2>1 DEF Build, Protected
<1>9. MoneyKeepsRow'
  BY <1>1, <1>2, <1>4 DEF Build, Protected
<1>10. MoneyOnce'
  <2>1. ASSUME NEW j \in Keys, Protected(j) PROVE Len(effects'[j]) <= 1 \/ forgotten'[j]
    BY <1>1, <1>2, <1>4, <1>5, <2>1 DEF Build
  <2> QED BY <2>1 DEF Protected
<1> QED BY <1>7, <1>8, <1>9, <1>10

(* Storing the answer, failing to, or giving the key back.                 *)
LEMMA SettleKeepsIInv ==
    ASSUME TypeOK, IInv, NEW r \in Requests, Settle(r)
    PROVE  IInv'
<1> DEFINE k == key[r]
<1>1. k \in Keys /\ \A s \in Requests : key[s] \in Keys
  BY DEF TypeOK
<1>2. Holding(r)
  BY DEF Settle, StoreRecord, StoreFails, GiveUp, ReleaseRecord
<1>3. \A s \in Requests : s # r /\ Holding(s) /\ Protected(key[s]) => key[s] # k
  BY <1>2
<1>4. Protected(k) => rows[k].answer = InFlight
  BY <1>2
<1>5. UNCHANGED <<key, effects, forgotten>>
  BY DEF Settle, StoreRecord, StoreFails, GiveUp, ReleaseRecord
<1>6. \A j \in Keys \ {k} : rows'[j] = rows[j]
  BY DEF Settle, StoreRecord, StoreFails, GiveUp, ReleaseRecord, TypeOK
<1>7. \A s \in Requests \ {r} : pc'[s] = pc[s] /\ out'[s] = out[s]
  BY DEF Settle, StoreRecord, StoreFails, GiveUp, ReleaseRecord, TypeOK, Goto
<1>8. MoneyOnce'
  BY <1>5 DEF Protected
<1>9. OwnsAlone'
  BY <1>2, <1>5, <1>7 DEF Protected
<1>10. SUFFICES ASSUME Protected(k)
                PROVE  /\ pc'[r] \in {"answered", "release"}
                       /\ pc'[r] = "release" => rows'[k].answer = InFlight /\ NothingYet(k)
                       /\ rows'[k].answer \notin {InFlight, "ok"} => NothingYet(k)
  <2>1. OwnsRow'
    BY <1>1, <1>3, <1>5, <1>6, <1>7, <1>10 DEF Protected
  <2>2. CleanUntilCommit'
    BY <1>1, <1>3, <1>5, <1>7, <1>10 DEF Protected
  <2>3. MoneyKeepsRow'
    BY <1>1, <1>5, <1>6, <1>10 DEF Protected
  <2> QED BY <1>8, <1>9, <2>1, <2>2, <2>3
<1>11. CASE StoreRecord(r)
  <2>1. rows[k] # NoRow
    BY <1>4, <1>10 DEF NoRow, InFlight
  <2>2. rows[k] \in Record
    BY <1>1, <2>1 DEF TypeOK
  <2>3. rows' = [rows EXCEPT ![k] = [rows[k] EXCEPT !.answer = out[r]]]
    BY <1>11, <2>1 DEF StoreRecord
  <2>4. rows'[k].answer = out[r]
    BY <1>1, <2>2, <2>3 DEF TypeOK, Record
  <2>5. pc'[r] = "answered"
    BY <1>11 DEF StoreRecord, Goto, TypeOK
  <2>6. out[r] # "ok" => NothingYet(k)
    BY <1>10, <1>11 DEF StoreRecord
  <2> QED BY <2>4, <2>5, <2>6
<1>12. CASE StoreFails(r)
  BY <1>4, <1>10, <1>12 DEF StoreFails, Goto, TypeOK, Protected
<1>13. CASE GiveUp(r)
  <2>1. out[r] # "ok" /\ pc[r] = "settle" /\ rows' = rows /\ pc'[r] = "release"
    BY <1>13 DEF GiveUp, Stored, Goto, TypeOK
  <2> QED BY <1>4, <1>10, <2>1
<1>14. CASE ReleaseRecord(r)
  <2>1. NothingYet(k)
    BY <1>10, <1>14 DEF ReleaseRecord
  <2>2. pc'[r] = "answered"
    BY <1>14 DEF ReleaseRecord, Goto, TypeOK
  <2> QED BY <2>1, <2>2
<1> QED BY <1>11, <1>12, <1>13, <1>14 DEF Settle

(* Requests arriving, leaving or dying: none of them touches a row.        *)
LEMMA TrafficKeepsIInv ==
    ASSUME TypeOK, IInv, NEW r \in Requests,
           \/ \E k \in Keys, f \in Prints \cup {Blank} : Submit(r, k, f)
           \/ Deliver(r)
           \/ Crash(r)
    PROVE  IInv'
<1>1. pc'[r] \in {"idle", "begin"} /\ UNCHANGED <<rows, effects, forgotten>>
  BY DEF Submit, Deliver, Crash, FreeSlot, Goto, TypeOK
<1>2. \A s \in Requests \ {r} : pc'[s] = pc[s] /\ out'[s] = out[s] /\ key'[s] = key[s]
  BY DEF Submit, Deliver, Crash, FreeSlot, Goto, TypeOK
<1> QED BY <1>1, <1>2 DEF Protected

(* Time and the prune job: a protected row in flight is left alone, and a  *)
(* completed row that is dropped is recorded as forgotten.                 *)
LEMMA TimeKeepsIInv ==
    ASSUME TypeOK, IInv, Prune \/ \E k \in Keys : Tick(k)
    PROVE  IInv'
<1>1. UNCHANGED <<pc, key, out, effects>>
  BY DEF Prune, Tick
<1>2. CASE \E k \in Keys : Tick(k)
  <2>1. \A k \in Keys : rows'[k].answer = rows[k].answer
    <3>1. PICK k \in Keys : Tick(k)
      BY <1>2
    <3>2. rows[k] \in Record
      BY <3>1 DEF Tick, TypeOK
    <3> QED BY <3>1, <3>2 DEF Tick, TypeOK, Record
  <2>2. forgotten' = forgotten
    BY <1>2 DEF Tick
  <2>3. \A s \in Requests : key[s] \in Keys
    BY DEF TypeOK
  <2> QED BY <1>1, <2>1, <2>2, <2>3 DEF Protected
<1>3. CASE Prune
  <2>1. \A k \in Keys : forgotten[k] => forgotten'[k]
    BY <1>3 DEF Prune
  <2>2. \A k \in Keys : Protected(k) /\ rows[k].answer = InFlight => rows'[k] = rows[k]
    BY <1>3 DEF Prune, PrunedDone, PrunedInFlight, Complete, Outcomes, InFlight, Protected, IsMoney
  <2>3. \A k \in Keys : Protected(k) => rows'[k] = rows[k] \/ forgotten'[k]
    BY <1>3 DEF Prune, PrunedInFlight, Protected, IsMoney
  <2>4. \A s \in Requests : key[s] \in Keys
    BY DEF TypeOK
  <2>5. OwnsRow' /\ OwnsAlone'
    BY <1>1, <2>2, <2>4 DEF Protected
  <2>6. CleanUntilCommit'
    BY <1>1, <2>1, <2>4 DEF Protected
  <2>7. MoneyKeepsRow' /\ MoneyOnce'
    BY <1>1, <2>1, <2>3 DEF Protected
  <2> QED BY <2>5, <2>6, <2>7
<1> QED BY <1>2, <1>3

(* The inductive invariant holds in every reachable state.                 *)
THEOREM Inductive == Spec => []IInv
<1>1. Init => IInv
  BY DEF Init, NoRow
<1>2. TypeOK /\ IInv /\ [Next]_vars => IInv'
  <2>1. TypeOK /\ IInv /\ UNCHANGED vars => IInv'
    BY DEF vars, Protected
  <2> QED
    BY <2>1, ClaimKeepsIInv, BuildKeepsIInv, SettleKeepsIInv, TrafficKeepsIInv, TimeKeepsIInv
       DEF Next
<1> QED BY <1>1, <1>2, TypeCorrect, PTL DEF Spec

(* Money under a protected key is posted at most once until its completed  *)
(* row is pruned: for any number of clients, retries, crashes and failed   *)
(* answer writes, and however slow the requests are.                       *)
THEOREM MoneyIsPostedOnce == Spec => []MoneyOnce
<1>1. IInv => MoneyOnce
  OBVIOUS
<1> QED BY <1>1, Inductive, PTL

(* A refusal of a money request says that nothing was posted.              *)
THEOREM RefusalsAreFinal == Spec => RefusalIsFinal
<1>1. TypeOK /\ IInv /\ [Next]_vars =>
        [\A r \in Requests :
           /\ pc[r] # "answered" /\ pc'[r] = "answered" /\ out'[r] = "refused"
           /\ Protected(key[r]) /\ ~forgotten[key[r]]
           => effects[key[r]] = <<>>]_vars
  <2> SUFFICES ASSUME TypeOK, IInv, [Next]_vars, NEW r \in Requests,
                      pc[r] # "answered", pc'[r] = "answered", out'[r] = "refused",
                      Protected(key[r]), ~forgotten[key[r]]
               PROVE  effects[key[r]] = <<>>
    OBVIOUS
  <2>1. \E s \in Requests : Claim(s) \/ Settle(s)
    BY DEF Next, vars, Submit, Build, Deliver, Crash, FreeSlot, Goto, Tick, Prune, TypeOK
  <2>2. Claim(r) \/ Settle(r)
    BY <2>1 DEF Claim, Begin, Lookup, InsertAgain, Answer, Settle, StoreRecord, StoreFails,
                GiveUp, ReleaseRecord, Goto, TypeOK
  <2>3. CASE Claim(r)
    <3>1. rows[key[r]].answer = "refused"
      BY <2>3 DEF Claim, Begin, Lookup, InsertAgain, Answer, Goto, TypeOK
    <3> QED BY <3>1 DEF TypeOK, InFlight
  <2>4. CASE Settle(r)
    <3>1. out[r] = "refused" /\ pc[r] \in {"settle", "release"}
      BY <2>4 DEF Settle, StoreRecord, StoreFails, GiveUp, ReleaseRecord, Goto, TypeOK
    <3> QED BY <3>1
  <2> QED BY <2>2, <2>3, <2>4
<1> QED BY <1>1, TypeCorrect, Inductive, PTL DEF Spec, RefusalIsFinal

-----------------------------------------------------------------------------
(***************************************************************************)
(* All keys, not only the protected ones.  What begin_record and the prune *)
(* job take from a stale row they take from nobody, as long as a request   *)
(* for a key that can be taken does not outlive the stale window.          *)
(***************************************************************************)

(* A request at work has its own row: in flight, with its fingerprint, and *)
(* young if it could be taken away.                                        *)
HasRow(r) ==
    /\ rows[key[r]].answer = InFlight
    /\ rows[key[r]].hash = print[r]
    /\ key[r] \notin SlowKeys => rows[key[r]].age = 0

AllHaveRows == \A r \in Requests : Holding(r) => HasRow(r)

(* A success that waits to be stored was committed; one that is not stored *)
(* is turned into a fault before the key is released.                      *)
PendingTruth ==
    \A r \in Requests :
        /\ pc[r] = "settle" /\ out[r] = "ok" => print[r] # Blank /\ Committed(key[r], print[r])
        /\ pc[r] = "release" => out[r] # "ok"

(* A stored success names the body that was committed.                     *)
RowTruth(k) == rows[k].answer = "ok" => rows[k].hash # Blank /\ Committed(k, rows[k].hash)

StoredTruth == \A k \in Keys : RowTruth(k)

KInv == AllHaveRows /\ SingleOwner /\ PendingTruth /\ StoredTruth /\ TruthfulAnswer

(* What a step has to show, if it is about request r and its key only.     *)
LEMMA LocalStep ==
    ASSUME TypeOK, KInv, NEW r \in Requests,
           UNCHANGED <<key, print>>,
           \A s \in Requests \ {r} : pc'[s] = pc[s] /\ out'[s] = out[s],
           \A k \in Keys \ {key[r]} : rows'[k] = rows[k],
           \A k \in Keys, f \in Prints \cup {Blank} : Committed(k, f) => Committed(k, f)',
           Holding(r)' => HasRow(r)',
           \A s \in Requests : Holding(r)' \/ rows'[key[r]] # rows[key[r]] =>
              (s # r /\ key[s] = key[r] => ~Holding(s)),
           pc'[r] = "settle" /\ out'[r] = "ok" => print[r] # Blank /\ Committed(key[r], print[r])',
           pc'[r] = "release" => out'[r] # "ok",
           \A k \in Keys : k = key[r] => RowTruth(k)',
           pc'[r] = "answered" /\ out'[r] = "ok" /\ print[r] # Blank => Committed(key[r], print[r])'
    PROVE  KInv'
<1>1. \A s \in Requests : key[s] \in Keys /\ print[s] \in Prints \cup {Blank}
  BY DEF TypeOK
<1>2. AllHaveRows'
  <2> SUFFICES ASSUME NEW s \in Requests, Holding(s)' PROVE HasRow(s)'
    BY DEF AllHaveRows
  <2>1. CASE s = r
    BY <2>1
  <2>2. CASE s # r
    <3>1. Holding(s) /\ HasRow(s) /\ rows'[key[s]] = rows[key[s]]
      BY <1>1, <2>2 DEF KInv, AllHaveRows
    <3> QED BY <3>1 DEF HasRow
  <2> QED BY <2>1, <2>2
<1>3. SingleOwner'
  BY DEF KInv, SingleOwner
<1>4. PendingTruth'
  BY <1>1 DEF KInv, PendingTruth
<1>5. StoredTruth'
  <2> SUFFICES ASSUME NEW k \in Keys, k # key[r] PROVE RowTruth(k)'
    BY DEF StoredTruth
  <2>1. RowTruth(k) /\ rows'[k] = rows[k] /\ rows[k].hash \in Prints \cup {Blank}
    BY DEF KInv, StoredTruth, TypeOK, Record, NoRow
  <2> QED BY <2>1 DEF RowTruth
<1>6. TruthfulAnswer'
  BY <1>1 DEF KInv, TruthfulAnswer
<1> QED BY <1>2, <1>3, <1>4, <1>5, <1>6 DEF KInv

(* Nobody works under a key whose row is missing, complete or old enough   *)
(* to be taken.                                                            *)
LEMMA NobodyAtWork ==
    ASSUME StaleIsAbandoned, TypeOK, KInv, NEW k \in Keys,
           rows[k].answer # InFlight \/ Reclaimable(k) \/ PrunedInFlight(k)
    PROVE  \A s \in Requests : key[s] = k => ~Holding(s)
<1> SUFFICES ASSUME NEW s \in Requests, key[s] = k, Holding(s) PROVE FALSE
  OBVIOUS
<1>1. rows[k].answer = InFlight /\ (k \notin SlowKeys => rows[k].age = 0)
  BY DEF KInv, AllHaveRows, HasRow
<1>2. rows[k].age \in Nat
  <2>1. rows[k] \in Record
    BY <1>1 DEF TypeOK, NoRow, InFlight
  <2> QED BY <2>1 DEF Record, Ages
<1>3. Reclaimable(k) \/ PrunedInFlight(k)
  BY <1>1
<1>4. rows[k].age >= 1 /\ Kind[k] # "money"
  BY <1>2, <1>3 DEF Reclaimable, PrunedInFlight, IsMoney
<1> QED BY <1>1, <1>2, <1>4 DEF StaleIsAbandoned

(* A claim that succeeds finds nobody at work; one that is answered gets   *)
(* the stored answer only for the stored body.                             *)
LEMMA ClaimKeepsKInv ==
    ASSUME StaleIsAbandoned, TypeOK, KInv, NEW r \in Requests, Claim(r)
    PROVE  KInv'
<1> DEFINE k == key[r]
<1>0. /\ k \in Keys /\ print[r] \in Prints \cup {Blank} /\ pc[r] \in {"begin", "lookup", "insert"}
      /\ UNCHANGED <<key, print, effects>>
  BY DEF TypeOK, Claim, Begin, Lookup, InsertAgain
<1>1. \A j \in Keys, f \in Prints \cup {Blank} : Committed(j, f) => Committed(j, f)'
  BY <1>0 DEF Committed
<1>2. ASSUME rows[k] = NoRow \/ Reclaimable(k),
             rows' = [rows EXCEPT ![k] = NewRow(print[r])],
             Goto(r, "build"), out' = out
      PROVE  KInv'
  <2>1. rows'[k] = [answer |-> InFlight, hash |-> print[r], age |-> 0] /\ pc'[r] = "build"
    BY <1>0, <1>2 DEF TypeOK, Goto, NewRow
  <2>2. rows[k] = NoRow => rows[k].answer # InFlight
    BY DEF NoRow, InFlight
  <2>3. \A s \in Requests : key[s] = k => ~Holding(s)
    BY <1>0, <1>2, <2>2, NobodyAtWork
  <2>4. HasRow(r)' /\ RowTruth(k)'
    BY <1>0, <2>1 DEF HasRow, RowTruth, InFlight
  <2>5. /\ \A s \in Requests \ {r} : pc'[s] = pc[s] /\ out'[s] = out[s]
        /\ \A j \in Keys \ {k} : rows'[j] = rows[j]
    BY <1>0, <1>2 DEF TypeOK, Goto
  <2> HIDE DEF k
  <2> QED BY <1>0, <1>1, <2>1, <2>3, <2>4, <2>5, LocalStep DEF k
<1>3. ASSUME NEW step \in {"lookup", "insert", "answered"}, rows' = rows, Goto(r, step),
             \A s \in Requests \ {r} : out'[s] = out[s],
             step = "answered" /\ out'[r] = "ok" => /\ rows[k].answer = "ok"
                                                    /\ ~Conflict(rows[k], print[r])
      PROVE  KInv'
  <2>1. pc'[r] = step /\ \A s \in Requests \ {r} : pc'[s] = pc[s]
    BY <1>3 DEF TypeOK, Goto
  <2>2. RowTruth(k)
    BY <1>0 DEF KInv, StoredTruth
  <2>3. RowTruth(k)'
    BY <1>0, <1>3, <2>2 DEF RowTruth, Committed
  <2>4. step = "answered" /\ out'[r] = "ok" /\ print[r] # Blank => Committed(k, print[r])'
    BY <1>0, <1>1, <1>3, <2>2 DEF RowTruth, Conflict
  <2> HIDE DEF k
  <2> QED BY <1>0, <1>1, <1>3, <2>1, <2>3, <2>4, LocalStep DEF k
<1>4. CASE Begin(r)
  BY <1>2, <1>3, <1>4 DEF Begin
<1>5. CASE Lookup(r)
  <2>1. out[r] \in Answers
    BY DEF TypeOK
  <2> QED BY <1>2, <1>3, <1>5 DEF Lookup, Answer, TypeOK
<1>6. CASE InsertAgain(r)
  BY <1>2, <1>3, <1>6 DEF InsertAgain, Answer, TypeOK
<1> QED BY <1>4, <1>5, <1>6 DEF Claim

(* A commit is recorded under the body of the request that made it.        *)
LEMMA BuildKeepsKInv ==
    ASSUME TypeOK, KInv, NEW r \in Requests, NEW o \in Outcomes, Build(r, o)
    PROVE  KInv'
<1> DEFINE k == key[r]
<1>0. /\ k \in Keys /\ print[r] \in Prints \cup {Blank} /\ pc[r] = "build"
      /\ UNCHANGED <<rows, key, print>> /\ effects \in [Keys -> Seq(Prints)]
  BY DEF TypeOK, Build
<1>1. \A j \in Keys : j # k => effects'[j] = effects[j]
  BY <1>0 DEF Build
<1>2. o # "ok" => effects' = effects
  BY DEF Build
<1>3. ASSUME o = "ok"
      PROVE  /\ print[r] # Blank /\ Len(effects'[k]) = Len(effects[k]) + 1
             /\ effects'[k][Len(effects[k]) + 1] = print[r]
             /\ \A i \in 1 .. Len(effects[k]) : effects'[k][i] = effects[k][i]
  <2>1. print[r] # Blank /\ effects'[k] = Append(effects[k], print[r])
    BY <1>0, <1>3 DEF Build
  <2> QED BY <1>0, <2>1
<1>4. \A j \in Keys : \A f : j = k /\ Committed(j, f) => Committed(j, f)'
  <2>1. Len(effects[k]) \in Nat
    BY <1>0
  <2> QED BY <1>0, <1>2, <1>3, <2>1 DEF Committed
<1>5. \A j \in Keys, f \in Prints \cup {Blank} : Committed(j, f) => Committed(j, f)'
  <2> SUFFICES ASSUME NEW j \in Keys, NEW f \in Prints \cup {Blank}, Committed(j, f)
               PROVE  Committed(j, f)'
    OBVIOUS
  <2>1. CASE j # k
    BY <1>1, <2>1 DEF Committed
  <2>2. CASE j = k
    BY <1>4, <2>2
  <2> QED BY <2>1, <2>2
<1>6. o = "ok" => print[r] # Blank /\ Committed(k, print[r])'
  <2>1. Len(effects[k]) \in Nat
    BY <1>0
  <2> QED BY <1>0, <1>3, <2>1 DEF Committed
<1>7. /\ pc'[r] = "settle" /\ out'[r] = o
      /\ \A s \in Requests \ {r} : pc'[s] = pc[s] /\ out'[s] = out[s]
  BY DEF TypeOK, Build, Goto
<1>8. HasRow(r) /\ RowTruth(k) /\ \A s \in Requests : s # r /\ key[s] = k => ~Holding(s)
  BY <1>0 DEF KInv, AllHaveRows, StoredTruth, SingleOwner
<1>9. HasRow(r)' /\ RowTruth(k)'
  BY <1>0, <1>4, <1>8 DEF HasRow, RowTruth
<1> HIDE DEF k
<1> QED BY <1>0, <1>5, <1>6, <1>7, <1>8, <1>9, LocalStep DEF k

(* The owner writes its own answer into its own row, or gives it back.     *)
LEMMA SettleKeepsKInv ==
    ASSUME TypeOK, KInv, NEW r \in Requests, Settle(r)
    PROVE  KInv'
<1> DEFINE k == key[r]
<1>0. /\ k \in Keys /\ print[r] \in Prints \cup {Blank} /\ pc[r] \in {"settle", "release"}
      /\ UNCHANGED <<key, print, effects>>
  BY DEF TypeOK, Settle, StoreRecord, StoreFails, GiveUp, ReleaseRecord
<1>1. \A j \in Keys, f \in Prints \cup {Blank} : Committed(j, f) => Committed(j, f)'
  BY <1>0 DEF Committed
<1>2. HasRow(r) /\ RowTruth(k) /\ \A s \in Requests : s # r /\ key[s] = k => ~Holding(s)
  BY <1>0 DEF KInv, AllHaveRows, StoredTruth, SingleOwner
<1>3. rows[k] \in Record /\ rows[k].answer = InFlight /\ rows[k].hash = print[r] /\ rows[k] # NoRow
  BY <1>0, <1>2 DEF HasRow, TypeOK, NoRow, InFlight
<1>4. \A s \in Requests \ {r} : pc'[s] = pc[s] /\ out'[s] = out[s]
  BY DEF Settle, StoreRecord, StoreFails, GiveUp, ReleaseRecord, TypeOK, Goto
<1>5. \A j \in Keys \ {k} : rows'[j] = rows[j]
  BY DEF Settle, StoreRecord, StoreFails, GiveUp, ReleaseRecord, TypeOK
<1>6. CASE StoreRecord(r)
  <2>1. rows'[k] = [rows[k] EXCEPT !.answer = out[r]] /\ pc'[r] = "answered" /\ out' = out /\ pc[r] = "settle"
    BY <1>0, <1>3, <1>6 DEF StoreRecord, TypeOK, Goto
  <2>2. rows'[k].answer = out[r] /\ rows'[k].hash = print[r]
    BY <1>3, <2>1 DEF Record
  <2>3. out[r] = "ok" => print[r] # Blank /\ Committed(k, print[r])
    BY <1>0, <2>1 DEF KInv, PendingTruth
  <2>4. RowTruth(k)'
    BY <1>0, <1>1, <2>2, <2>3 DEF RowTruth
  <2>5. out'[r] = "ok" => Committed(k, print[r])'
    BY <1>0, <1>1, <2>1, <2>3
  <2> HIDE DEF k
  <2> QED BY <1>0, <1>1, <1>2, <1>4, <1>5, <2>1, <2>4, <2>5, LocalStep DEF k
<1>7. CASE StoreFails(r) \/ GiveUp(r)
  <2>1. rows' = rows /\ pc'[r] \in {"release", "answered"} /\ out'[r] # "ok"
    BY <1>0, <1>7 DEF StoreFails, GiveUp, Stored, TypeOK, Goto
  <2>2. HasRow(r)' /\ RowTruth(k)'
    BY <1>0, <1>1, <1>2, <1>3, <2>1 DEF HasRow, RowTruth, InFlight
  <2> HIDE DEF k
  <2> QED BY <1>0, <1>1, <1>2, <1>4, <1>5, <2>1, <2>2, LocalStep DEF k
<1>8. CASE ReleaseRecord(r)
  <2>1. rows'[k] = NoRow /\ pc'[r] = "answered" /\ out' = out /\ pc[r] = "release"
    BY <1>0, <1>3, <1>8 DEF ReleaseRecord, TypeOK, Goto
  <2>2. out'[r] # "ok"
    BY <2>1 DEF KInv, PendingTruth
  <2>3. RowTruth(k)'
    BY <1>0, <2>1 DEF RowTruth, NoRow
  <2> HIDE DEF k
  <2> QED BY <1>0, <1>1, <1>2, <1>4, <1>5, <2>1, <2>2, <2>3, LocalStep DEF k
<1> QED BY <1>6, <1>7, <1>8 DEF Settle

(* Requests that arrive, leave or die have no answer to give.              *)
LEMMA TrafficKeepsKInv ==
    ASSUME TypeOK, KInv, NEW r \in Requests,
           \/ \E k \in Keys, f \in Prints \cup {Blank} : Submit(r, k, f)
           \/ Deliver(r)
           \/ Crash(r)
    PROVE  KInv'
<1>1. pc'[r] \in {"idle", "begin"} /\ UNCHANGED <<rows, effects>>
  BY DEF Submit, Deliver, Crash, FreeSlot, Goto, TypeOK
<1>2. \A s \in Requests \ {r} :
         pc'[s] = pc[s] /\ out'[s] = out[s] /\ key'[s] = key[s] /\ print'[s] = print[s]
  BY DEF Submit, Deliver, Crash, FreeSlot, Goto, TypeOK
<1>3. \A k, f : Committed(k, f)' <=> Committed(k, f)
  BY <1>1 DEF Committed
<1>4. AllHaveRows' /\ SingleOwner'
  BY <1>1, <1>2 DEF KInv, AllHaveRows, SingleOwner, HasRow
<1>5. PendingTruth' /\ TruthfulAnswer'
  BY <1>1, <1>2, <1>3 DEF KInv, PendingTruth, TruthfulAnswer
<1>6. StoredTruth'
  BY <1>1, <1>3 DEF KInv, StoredTruth, RowTruth
<1> QED BY <1>4, <1>5, <1>6 DEF KInv

(* A row ages under a request only if it is never taken; what is pruned    *)
(* belongs to nobody.                                                      *)
LEMMA TimeKeepsKInv ==
    ASSUME StaleIsAbandoned, TypeOK, KInv, Prune \/ \E k \in Keys : Tick(k)
    PROVE  KInv'
<1>1. UNCHANGED <<pc, key, print, out, effects>>
  BY DEF Prune, Tick
<1>2. \A s \in Requests : key[s] \in Keys
  BY DEF TypeOK
<1>3. ASSUME NEW k \in Keys
      PROVE  \/ rows'[k] = NoRow /\ \A s \in Requests : key[s] = k => ~Holding(s)
             \/ /\ rows'[k].answer = rows[k].answer /\ rows'[k].hash = rows[k].hash
                /\ \/ rows'[k].age = rows[k].age
                   \/ k \in SlowKeys
                   \/ \A s \in Requests : key[s] = k => ~Holding(s)
  <2>1. CASE Prune
    <3>1. CASE PrunedDone(k) \/ PrunedInFlight(k)
      <4>1. rows[k].answer # InFlight \/ PrunedInFlight(k)
        BY <3>1 DEF PrunedDone, Complete, Outcomes, InFlight
      <4> QED BY <2>1, <3>1, <4>1, NobodyAtWork DEF Prune
    <3>2. CASE ~(PrunedDone(k) \/ PrunedInFlight(k))
      BY <2>1, <3>2 DEF Prune
    <3> QED BY <3>1, <3>2
  <2>2. ASSUME NEW j \in Keys, Tick(j)
        PROVE  /\ rows'[k].answer = rows[k].answer /\ rows'[k].hash = rows[k].hash
               /\ \/ rows'[k].age = rows[k].age
                  \/ k \in SlowKeys
                  \/ \A s \in Requests : key[s] = k => ~Holding(s)
    <3>1. rows[j] \in Record
      BY <2>2 DEF Tick, TypeOK
    <3> QED BY <2>2, <3>1 DEF Tick, TypeOK, Record
  <2> QED BY <2>1, <2>2
<1>4. AllHaveRows'
  BY <1>1, <1>2, <1>3 DEF KInv, AllHaveRows, HasRow
<1>5. SingleOwner' /\ PendingTruth' /\ TruthfulAnswer'
  BY <1>1 DEF KInv, SingleOwner, PendingTruth, TruthfulAnswer, Committed
<1>6. StoredTruth'
  <2> SUFFICES ASSUME NEW k \in Keys PROVE RowTruth(k)'
    BY DEF StoredTruth
  <2>1. RowTruth(k)
    BY DEF KInv, StoredTruth
  <2>2. NoRow.answer # "ok"
    BY DEF NoRow
  <2> QED BY <1>1, <1>3, <2>1, <2>2 DEF RowTruth, Committed
<1> QED BY <1>4, <1>5, <1>6 DEF KInv

(* Every request at work owns its row alone, and every success, stored or  *)
(* given, is one of a committed body.                                      *)
THEOREM OwnershipInductive == StaleIsAbandoned => (Spec => []KInv)
<1> SUFFICES ASSUME StaleIsAbandoned PROVE Spec => []KInv
  OBVIOUS
<1>1. Init => KInv
  BY DEF Init, KInv, AllHaveRows, SingleOwner, PendingTruth, StoredTruth, RowTruth, TruthfulAnswer, NoRow
<1>2. TypeOK /\ KInv /\ [Next]_vars => KInv'
  <2>1. TypeOK /\ KInv /\ UNCHANGED vars => KInv'
    BY DEF vars, KInv, AllHaveRows, HasRow, SingleOwner, PendingTruth, StoredTruth, RowTruth,
           TruthfulAnswer, Committed
  <2> QED
    BY <2>1, ClaimKeepsKInv, BuildKeepsKInv, SettleKeepsKInv, TrafficKeepsKInv, TimeKeepsKInv
       DEF Next
<1> QED BY <1>1, <1>2, TypeCorrect, PTL DEF Spec

(* Two requests never work under one key at a time.                        *)
THEOREM OneOwner == StaleIsAbandoned => (Spec => []SingleOwner)
<1>1. KInv => SingleOwner
  BY DEF KInv
<1> QED BY <1>1, OwnershipInductive, PTL

(* A success answer is only given for a body that was committed.           *)
THEOREM AnswersAreTrue == StaleIsAbandoned => (Spec => []TruthfulAnswer)
<1>1. KInv => TruthfulAnswer
  BY DEF KInv
<1> QED BY <1>1, OwnershipInductive, PTL

(* A completed row keeps its answer for as long as it exists.              *)
THEOREM ReplaysAreStable == StaleIsAbandoned => (Spec => ReplayStable)
<1> SUFFICES ASSUME StaleIsAbandoned PROVE Spec => ReplayStable
  OBVIOUS
<1>1. TypeOK /\ KInv /\ [Next]_vars =>
        [\A k \in Keys : Complete(rows[k]) /\ rows'[k] # NoRow => rows'[k].answer = rows[k].answer]_vars
  <2> SUFFICES ASSUME TypeOK, KInv, Next, NEW k \in Keys, Complete(rows[k]), rows'[k] # NoRow
               PROVE  rows'[k].answer = rows[k].answer
    OBVIOUS
  <2>1. rows[k].answer # InFlight /\ rows[k] # NoRow /\ rows[k] \in Record
    BY DEF Complete, Outcomes, InFlight, NoRow, TypeOK
  <2>2. ASSUME NEW r \in Requests, Settle(r) PROVE rows'[k].answer = rows[k].answer
    <3>1. Holding(r) => key[r] # k
      BY <2>1 DEF KInv, AllHaveRows, HasRow
    <3> QED BY <2>2, <3>1 DEF Settle, StoreRecord, StoreFails, GiveUp, ReleaseRecord, TypeOK
  <2>3. ASSUME NEW r \in Requests, Claim(r) PROVE rows'[k] = rows[k]
    BY <2>1, <2>3 DEF Claim, Begin, Lookup, InsertAgain, TypeOK
  <2>4. ASSUME NEW j \in Keys, Tick(j) PROVE rows'[k].answer = rows[k].answer
    <3>1. rows[j] \in Record
      BY <2>4 DEF Tick, TypeOK
    <3> QED BY <2>4, <3>1 DEF Tick, TypeOK, Record
  <2>5. CASE Prune
    BY <2>5 DEF Prune
  <2>6. ASSUME NEW r \in Requests,
               \/ \E j \in Keys, f \in Prints \cup {Blank} : Submit(r, j, f)
               \/ \E o \in Outcomes : Build(r, o)
               \/ Deliver(r) \/ Crash(r)
        PROVE  rows' = rows
    BY <2>6 DEF Submit, Build, Deliver, Crash, FreeSlot
  <2> QED BY <2>2, <2>3, <2>4, <2>5, <2>6 DEF Next
<1> QED BY <1>1, TypeCorrect, OwnershipInductive, PTL DEF Spec, ReplayStable

(* A document is completed once, though its key may be taken over while    *)
(* the first request still runs.                                           *)
THEOREM CompletesOnce == Spec => []CompletedOnce
<1>1. Init => CompletedOnce
  BY DEF Init, CompletedOnce
<1>2. TypeOK /\ CompletedOnce /\ [Next]_vars => CompletedOnce'
  <2> SUFFICES ASSUME TypeOK, CompletedOnce, [Next]_vars PROVE CompletedOnce'
    OBVIOUS
  <2>1. CASE effects' = effects
    BY <2>1 DEF CompletedOnce
  <2>2. ASSUME NEW r \in Requests, NEW o \in Outcomes, Build(r, o) PROVE CompletedOnce'
    <3> SUFFICES ASSUME NEW k \in Keys, Kind[k] = "complete", effects'[k] # effects[k]
                 PROVE  Len(effects'[k]) <= 1
      BY DEF CompletedOnce
    <3>1. k = key[r] /\ o = "ok" /\ effects'[k] = Append(effects[k], print[r]) /\ effects[k] = <<>>
      BY <2>2 DEF Build, TypeOK
    <3> QED BY <3>1
  <2> QED
    BY <2>1, <2>2 DEF Next, vars, Submit, Claim, Begin, Lookup, InsertAgain, Settle, StoreRecord,
       StoreFails, GiveUp, ReleaseRecord, Deliver, Crash, FreeSlot, Tick, Prune
<1> QED BY <1>1, <1>2, TypeCorrect, PTL DEF Spec

=============================================================================
