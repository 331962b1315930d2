------------------------ MODULE ReceiptOutboxProofs -------------------------
(***************************************************************************)
(* Theorems about the offline receipt outbox, for any number of tabs,      *)
(* receipts and requests, with lost answers, reloads, overtaking requests, *)
(* switches of company, dying workers and failing answer writes.  What the *)
(* server does with a key is taken from IdempotencyProofs: every step of   *)
(* the composed system is a step of the claim protocol or leaves it alone. *)
(* The two results are that the outbox implements ReceiptOnce, and that    *)
(* what it lists as needing attention is not posted while a single tab     *)
(* waits for its answers.                                                  *)
(***************************************************************************)
EXTENDS ReceiptOutbox, IdempotencyProofs, WellFoundedInduction

(* A set of naturals has a least member.                                   *)
LEMMA LeastOf ==
    ASSUME NEW T \in SUBSET Nat, T # {}
    PROVE  \E x \in T : \A y \in T : x <= y
<1>1. IsWellFoundedOn(OpToRel(<, Nat), Nat)
    BY NatLessThanWellFounded
<1>2. PICK x \in T : \A y \in T : ~(<<y, x>> \in OpToRel(<, Nat))
    BY <1>1, WFMin, Zenon
<1>3. \A y \in T : ~(y < x)
    BY <1>2 DEF OpToRel
<1> QED
    BY <1>3

-----------------------------------------------------------------------------
(* Picked: the rows at some positions of a sequence.                       *)

(* One step of its recursion.                                              *)
PickStep(s, positions, p, i) ==
    IF i = 0 THEN <<>>
    ELSE IF i \in positions THEN Append(p[i - 1], s[i]) ELSE p[i - 1]

(* q has the elements of s at these positions up to n, in their order.     *)
PickedUpTo(q, s, n, positions) ==
    /\ \A a \in 1 .. Len(q) : \E i \in 1 .. n : i \in positions /\ q[a] = s[i]
    /\ \A i \in 1 .. n : i \in positions => \E a \in 1 .. Len(q) : q[a] = s[i]
    /\ \A a, b \in 1 .. Len(q) :
          a < b => \E i, j \in 1 .. n : /\ i < j /\ i \in positions /\ j \in positions
                                        /\ q[a] = s[i] /\ q[b] = s[j]

(* The recursion has a solution.                                           *)
LEMMA PickedExists ==
    ASSUME NEW s, NEW positions, NEW n \in Nat
    PROVE  \E p : p = [i \in 0 .. n |-> PickStep(s, positions, p, i)]
<1> DEFINE T == {m \in Nat : ~\E p : p = [i \in 0 .. m |-> PickStep(s, positions, p, i)]}
<1>1. ASSUME T # {} PROVE FALSE
    <2>1. PICK m \in T : \A k \in T : m <= k
        <3> HIDE DEF T
        <3>1. T \in SUBSET Nat
            BY DEF T
        <3> QED
            BY <1>1, <3>1, LeastOf
    <2>2. CASE m = 0
        <3> DEFINE p == [i \in 0 .. 0 |-> <<>>]
        <3>1. p = [i \in 0 .. 0 |-> PickStep(s, positions, p, i)]
            BY DEF PickStep
        <3> QED
            BY <2>2, <3>1
    <2>3. CASE m # 0
        <3>1. m - 1 \in Nat /\ m - 1 \notin T
            BY <2>1, <2>3
        <3>2. PICK p : p = [i \in 0 .. (m - 1) |-> PickStep(s, positions, p, i)]
            BY <3>1
        <3> DEFINE q == [i \in 0 .. m |-> IF i < m THEN p[i] ELSE PickStep(s, positions, p, m)]
        <3>3. \A i \in 0 .. m : q[i] = PickStep(s, positions, q, i)
            <4>1. ASSUME NEW i \in 0 .. m PROVE q[i] = PickStep(s, positions, q, i)
                <5>1. i # 0 => i - 1 \in 0 .. m /\ i - 1 < m /\ q[i - 1] = p[i - 1]
                    OBVIOUS
                <5>2. PickStep(s, positions, q, i) = PickStep(s, positions, p, i)
                    BY <5>1 DEF PickStep
                <5>3. i < m => p[i] = PickStep(s, positions, p, i)
                    BY <3>2
                <5> QED
                    BY <5>2, <5>3
            <4> QED
                BY <4>1
        <3>4. q = [i \in 0 .. m |-> PickStep(s, positions, q, i)]
            <4>1. q = [i \in 0 .. m |-> q[i]]
                OBVIOUS
            <4> HIDE DEF q
            <4> QED
                BY <3>3, <4>1
        <3> QED
            BY <2>1, <3>4
    <2> QED
        BY <2>2, <2>3
<1> QED
    BY <1>1

(* Picked picks: nothing else, nothing less, and in order.                 *)
LEMMA PickedIs ==
    ASSUME NEW S, NEW s \in Seq(S), NEW positions
    PROVE  /\ Picked(s, positions) \in Seq(S)
           /\ PickedUpTo(Picked(s, positions), s, Len(s), positions)
<1> DEFINE p == CHOOSE p : p = [i \in 0 .. Len(s) |-> PickStep(s, positions, p, i)]
<1>1. Picked(s, positions) = p[Len(s)]
    BY DEF Picked, PickStep
<1>2. p = [i \in 0 .. Len(s) |-> PickStep(s, positions, p, i)]
    BY PickedExists, Len(s) \in Nat
<1> HIDE DEF p
<1>3. \A i \in 0 .. Len(s) : p[i] = PickStep(s, positions, p, i)
    BY <1>2
<1> DEFINE T == {n \in 0 .. Len(s) : ~(p[n] \in Seq(S) /\ PickedUpTo(p[n], s, n, positions))}
<1>4. ASSUME T # {} PROVE FALSE
    <2>1. PICK n \in T : \A k \in T : n <= k
        <3>1. T \in SUBSET Nat
            OBVIOUS
        <3> HIDE DEF T
        <3> QED
            BY <1>4, <3>1, LeastOf
    <2>2. p[n] = PickStep(s, positions, p, n)
        BY <1>3
    <2>3. CASE n = 0
        <3>1. p[n] = <<>>
            BY <2>2, <2>3 DEF PickStep
        <3>2. <<>> \in Seq(S) /\ Len(<<>>) = 0
            OBVIOUS
        <3>3. PickedUpTo(<<>>, s, n, positions)
            BY <2>3, <3>2 DEF PickedUpTo
        <3> QED
            BY <2>1, <3>1, <3>2, <3>3
    <2>4. CASE n # 0
        <3> DEFINE q == p[n - 1]
        <3>1. q \in Seq(S) /\ PickedUpTo(q, s, n - 1, positions)
            BY <2>1, <2>4
        <3> HIDE DEF q
        <3>2. CASE n \notin positions
            <4>1. p[n] = q
                BY <2>2, <2>4, <3>2 DEF PickStep, q
            <4>2. \A i \in 1 .. (n - 1) : i \in 1 .. n
                BY <2>4
            <4>3. \A i \in 1 .. n : i \in positions => i \in 1 .. (n - 1)
                BY <2>4, <3>2
            <4>4. PickedUpTo(q, s, n, positions)
                <5>1. \A a \in 1 .. Len(q) : \E i \in 1 .. n : i \in positions /\ q[a] = s[i]
                    BY <3>1, <4>2 DEF PickedUpTo
                <5>2. \A i \in 1 .. n : i \in positions => \E a \in 1 .. Len(q) : q[a] = s[i]
                    BY <3>1, <4>3 DEF PickedUpTo
                <5>3. \A a, b \in 1 .. Len(q) :
                          a < b => \E i, j \in 1 .. n : /\ i < j /\ i \in positions /\ j \in positions
                                                        /\ q[a] = s[i] /\ q[b] = s[j]
                    <6>1. ASSUME NEW a \in 1 .. Len(q), NEW b \in 1 .. Len(q), a < b
                          PROVE  \E i, j \in 1 .. n : /\ i < j /\ i \in positions /\ j \in positions
                                                      /\ q[a] = s[i] /\ q[b] = s[j]
                        <7>1. PICK i \in 1 .. (n - 1), j \in 1 .. (n - 1) :
                                  /\ i < j /\ i \in positions /\ j \in positions
                                  /\ q[a] = s[i] /\ q[b] = s[j]
                            BY <3>1, <6>1 DEF PickedUpTo
                        <7> QED
                            BY <4>2, <7>1
                    <6> QED
                        BY <6>1
                <5> QED
                    BY <5>1, <5>2, <5>3 DEF PickedUpTo
            <4> QED
                BY <2>1, <3>1, <4>1, <4>4
        <3>3. CASE n \in positions
            <4>1. p[n] = Append(q, s[n])
                BY <2>2, <2>4, <3>3 DEF PickStep, q
            <4>2. s[n] \in S
                BY <2>4
            <4> DEFINE w == Append(q, s[n])
            <4>3. /\ w \in Seq(S) /\ Len(w) = Len(q) + 1 /\ Len(q) \in Nat
                  /\ w[Len(q) + 1] = s[n]
                  /\ \A a \in 1 .. Len(q) : w[a] = q[a]
                BY <3>1, <4>2
            <4> HIDE DEF w
            <4>4. \A a \in 1 .. Len(w) : \E i \in 1 .. n : i \in positions /\ w[a] = s[i]
                <5>1. ASSUME NEW a \in 1 .. Len(w)
                      PROVE  \E i \in 1 .. n : i \in positions /\ w[a] = s[i]
                    <6>1. CASE a = Len(w)
                        BY <2>4, <3>3, <4>3, <6>1
                    <6>2. CASE a # Len(w)
                        <7>1. a \in 1 .. Len(q)
                            BY <4>3, <5>1, <6>2
                        <7>2. PICK i \in 1 .. (n - 1) : i \in positions /\ q[a] = s[i]
                            BY <3>1, <7>1 DEF PickedUpTo
                        <7> QED
                            BY <2>4, <4>3, <7>1, <7>2
                    <6> QED
                        BY <6>1, <6>2
                <5> QED
                    BY <5>1
            <4>5. \A i \in 1 .. n : i \in positions => \E a \in 1 .. Len(w) : w[a] = s[i]
                <5>1. ASSUME NEW i \in 1 .. n, i \in positions PROVE \E a \in 1 .. Len(w) : w[a] = s[i]
                    <6>1. CASE i = n
                        BY <4>3, <6>1
                    <6>2. CASE i # n
                        <7>1. PICK a \in 1 .. Len(q) : q[a] = s[i]
                            BY <2>4, <3>1, <5>1, <6>2 DEF PickedUpTo
                        <7> QED
                            BY <4>3, <7>1
                    <6> QED
                        BY <6>1, <6>2
                <5> QED
                    BY <5>1
            <4>6. ASSUME NEW a \in 1 .. Len(w), NEW b \in 1 .. Len(w), a < b
                  PROVE  \E i, j \in 1 .. n : /\ i < j /\ i \in positions /\ j \in positions
                                              /\ w[a] = s[i] /\ w[b] = s[j]
                <5>1. CASE b = Len(w)
                    <6>1. a \in 1 .. Len(q) /\ w[b] = s[n]
                        BY <4>3, <4>6, <5>1
                    <6>2. PICK i \in 1 .. (n - 1) : i \in positions /\ q[a] = s[i]
                        BY <3>1, <6>1 DEF PickedUpTo
                    <6> QED
                        BY <2>4, <3>3, <4>3, <6>1, <6>2
                <5>2. CASE b # Len(w)
                    <6>1. a \in 1 .. Len(q) /\ b \in 1 .. Len(q)
                        BY <4>3, <4>6, <5>2
                    <6>2. PICK i \in 1 .. (n - 1), j \in 1 .. (n - 1) :
                              /\ i < j /\ i \in positions /\ j \in positions
                              /\ q[a] = s[i] /\ q[b] = s[j]
                        BY <3>1, <4>6, <6>1 DEF PickedUpTo
                    <6> QED
                        BY <2>4, <4>3, <6>1, <6>2
                <5> QED
                    BY <5>1, <5>2
            <4>7. PickedUpTo(w, s, n, positions)
                BY <4>4, <4>5, <4>6 DEF PickedUpTo
            <4> QED
                BY <2>1, <4>1, <4>3, <4>7 DEF w
        <3> QED
            BY <3>2, <3>3
    <2> QED
        BY <2>3, <2>4
<1>5. Len(s) \in 0 .. Len(s)
    OBVIOUS
<1> QED
    BY <1>1, <1>4, <1>5

-----------------------------------------------------------------------------
(* The device.                                                             *)

Row == [id : Keys, status : {"queued", "conflict"}]

Ids(box) == {box[i].id : i \in 1 .. Len(box)}

Places == {"idle", "start", "loop", "dispatch", "wait", "saving", "keep", "remove", "refuse"}

WaitsAt(x) == x.at \in {"wait", "saving"}

(* A tab that works on a receipt knows its key, one that waits also its    *)
(* request.                                                                *)
TabStates ==
    {x \in [at : Places, rows : Seq(Keys), id : Keys \cup {NoKey}, req : Requests \cup {NoRequest}] :
        /\ x.at \in {"dispatch", "wait", "saving", "keep", "remove", "refuse"} => x.id \in Keys
        /\ WaitsAt(x) => x.req \in Requests}

DeviceTyped ==
    /\ outbox \in Seq(Row)
    /\ tab \in [Tabs -> TabStates]
    /\ shown \in [Tabs -> SUBSET Keys]
    /\ fresh \in SUBSET Keys
    /\ discarded \in SUBSET Keys

(* The tab x, at another place of the loop.                                *)
PutAt(x, place) == [at |-> place, rows |-> x.rows, id |-> x.id, req |-> x.req]

(* At a place where it waits for nobody such a tab is well formed.         *)
LEMMA PutAtType ==
    ASSUME NEW x \in TabStates, NEW s \in Places,
           s \notin {"wait", "saving"},
           s \in {"dispatch", "keep", "remove", "refuse"} => x.id \in Keys
    PROVE  /\ PutAt(x, s) \in TabStates
           /\ PutAt(x, s).at = s /\ ~WaitsAt(PutAt(x, s))
           /\ PutAt(x, s).id = x.id /\ PutAt(x, s).rows = x.rows
BY DEF TabStates, PutAt, WaitsAt

(* The tab a page load starts with.                                        *)
LEMMA IdleTabType == IdleTab \in TabStates /\ IdleTab.at = "idle" /\ ~WaitsAt(IdleTab)
BY DEF IdleTab, TabStates, WaitsAt, Places, NoKey

(* A move changes where one tab is, and nothing else of it.                *)
LEMMA MoveIs ==
    ASSUME DeviceTyped, NEW t \in Tabs, NEW s, Move(t, s)
    PROVE  tab' = [tab EXCEPT ![t] = PutAt(tab[t], s)]
<1>1. /\ tab[t] \in [at : Places, rows : Seq(Keys), id : Keys \cup {NoKey}, req : Requests \cup {NoRequest}]
      /\ tab \in [Tabs -> TabStates]
    BY DEF DeviceTyped, TabStates
<1>2. [tab[t] EXCEPT !.at = s] = PutAt(tab[t], s)
    BY <1>1 DEF PutAt
<1> DEFINE x == [tab[t] EXCEPT !.at = s]
<1>3. tab' = [tab EXCEPT ![t] = x]
    BY DEF Move
<1> HIDE DEF x
<1> QED
    BY <1>2, <1>3 DEF x

(* removeQueuedReceipt takes exactly the receipt out of the store.         *)
LEMMA WithoutIs ==
    ASSUME outbox \in Seq(Row), NEW k
    PROVE  /\ Without(k) \in Seq(Row)
           /\ Ids(Without(k)) = Ids(outbox) \ {k}
<1> DEFINE I == {i \in 1 .. Len(outbox) : outbox[i].id # k}
           q == Picked(outbox, I)
<1>1. q \in Seq(Row) /\ PickedUpTo(q, outbox, Len(outbox), I)
    <2> HIDE DEF I
    <2> QED
        BY PickedIs
<1>2. Without(k) = q
    BY DEF Without
<1> HIDE DEF q
<1>3. ASSUME NEW a \in 1 .. Len(q) PROVE q[a].id \in Ids(outbox) \ {k}
    <2>1. PICK i \in 1 .. Len(outbox) : i \in I /\ q[a] = outbox[i]
        BY <1>1, <1>3 DEF PickedUpTo
    <2> QED
        BY <2>1 DEF Ids
<1>4. ASSUME NEW i \in 1 .. Len(outbox), outbox[i].id # k PROVE outbox[i].id \in Ids(q)
    <2>1. PICK a \in 1 .. Len(q) : q[a] = outbox[i]
        BY <1>1, <1>4 DEF PickedUpTo
    <2> QED
        BY <2>1 DEF Ids
<1>5. Ids(q) \subseteq Ids(outbox) \ {k}
    BY <1>3 DEF Ids
<1>6. Ids(outbox) \ {k} \subseteq Ids(q)
    BY <1>4 DEF Ids
<1> QED
    BY <1>1, <1>2, <1>5, <1>6

(* updateQueued changes a status and no key.                               *)
LEMMA WithStatusIs ==
    ASSUME outbox \in Seq(Row), NEW k, NEW s \in {"queued", "conflict"}
    PROVE  /\ WithStatus(k, s) \in Seq(Row)
           /\ Len(WithStatus(k, s)) = Len(outbox)
           /\ \A i \in 1 .. Len(outbox) :
                 /\ WithStatus(k, s)[i].id = outbox[i].id
                 /\ WithStatus(k, s)[i].status = IF outbox[i].id = k THEN s ELSE outbox[i].status
           /\ Ids(WithStatus(k, s)) = Ids(outbox)
<1>1. \A i \in 1 .. Len(outbox) : outbox[i] \in Row
    OBVIOUS
<1>2. /\ WithStatus(k, s) \in Seq(Row)
      /\ Len(WithStatus(k, s)) = Len(outbox)
    BY <1>1 DEF WithStatus, Row
<1>3. ASSUME NEW i \in 1 .. Len(outbox)
      PROVE /\ WithStatus(k, s)[i].id = outbox[i].id
            /\ WithStatus(k, s)[i].status = IF outbox[i].id = k THEN s ELSE outbox[i].status
    BY <1>1, <1>3 DEF WithStatus, Row
<1> HIDE DEF WithStatus
<1> QED
    BY <1>2, <1>3 DEF Ids

(* The flush reads keys.                                                   *)
LEMMA QueuedIdsType ==
    ASSUME outbox \in Seq(Row)
    PROVE  QueuedIds \in Seq(Keys)
<1> DEFINE rest == Picked(outbox, {i \in 1 .. Len(outbox) : outbox[i].status = "queued"})
<1>1. rest \in Seq(Row)
    BY PickedIs
<1>2. QueuedIds = [i \in 1 .. Len(rest) |-> rest[i].id]
    BY DEF QueuedIds
<1> HIDE DEF rest
<1>3. \A i \in 1 .. Len(rest) : rest[i].id \in Keys
    <2>1. \A i \in 1 .. Len(rest) : rest[i] \in Row
        BY <1>1
    <2> QED
        BY <2>1 DEF Row
<1> QED
    BY <1>1, <1>2, <1>3

(* What the page lists as needing attention are keys.                      *)
LEMMA AttentionType ==
    ASSUME NEW box \in Seq(Row)
    PROVE  NeedsAttention(box) \in SUBSET Keys
<1>0. \A i \in 1 .. Len(box) : box[i] \in Row
    OBVIOUS
<1>1. \A i \in 1 .. Len(box) : box[i].id \in Keys
    BY <1>0 DEF Row
<1> QED
    BY <1>1 DEF NeedsAttention

(* queueReceipt leaves exactly one more receipt in the store.              *)
LEMMA QueueReceiptIs ==
    ASSUME DeviceTyped, NEW t \in Tabs, NEW k \in Keys, QueueReceipt(t, k)
    PROVE  /\ outbox' \in Seq(Row)
           /\ Ids(outbox') = Ids(outbox) \cup {k}
           /\ shown' \in [Tabs -> SUBSET Keys]
<1> DEFINE w == Without(k)
           row == [id |-> k, status |-> "queued"]
<1>1. w \in Seq(Row) /\ Ids(w) = Ids(outbox) \ {k}
    BY WithoutIs DEF DeviceTyped
<1>2. row \in Row /\ row.id = k
    BY DEF Row
<1>3. outbox' = Append(w, row)
    BY DEF QueueReceipt
<1> HIDE DEF w, row
<1>4. /\ outbox' \in Seq(Row) /\ Len(outbox') = Len(w) + 1 /\ Len(w) \in Nat
      /\ outbox'[Len(w) + 1] = row
      /\ \A i \in 1 .. Len(w) : outbox'[i] = w[i]
    BY <1>1, <1>2, <1>3
<1>5. Ids(outbox') = Ids(w) \cup {k}
    <2>1. ASSUME NEW i \in 1 .. Len(outbox') PROVE outbox'[i].id \in Ids(w) \cup {k}
        BY <1>2, <1>4, <2>1 DEF Ids
    <2>2. ASSUME NEW i \in 1 .. Len(w) PROVE w[i].id \in Ids(outbox')
        BY <1>4, <2>2 DEF Ids
    <2>3. k \in Ids(outbox')
        <3>1. Len(w) + 1 \in 1 .. Len(outbox') /\ outbox'[Len(w) + 1].id = k
            BY <1>2, <1>4
        <3> QED
            BY <3>1 DEF Ids
    <2> QED
        BY <2>1, <2>2, <2>3 DEF Ids
<1>6. NeedsAttention(outbox') \in SUBSET Keys
    BY <1>4, AttentionType
<1> QED
    BY <1>1, <1>4, <1>5, <1>6 DEF QueueReceipt, DeviceTyped

-----------------------------------------------------------------------------
(* The types of the device survive every step.                             *)

(* An assignment to one tab leaves the other tabs where they are.          *)
LEMMA TabGoes ==
    ASSUME DeviceTyped, NEW t \in Tabs, NEW x \in TabStates, tab' = [tab EXCEPT ![t] = x]
    PROVE  /\ tab' \in [Tabs -> TabStates]
           /\ tab'[t] = x
           /\ \A u \in Tabs : u # t => tab'[u] = tab[u]
BY DEF DeviceTyped

(* The end of a flush leaves the tab idle and the other tabs alone.        *)
LEMMA FinishedIs ==
    ASSUME DeviceTyped, NEW t \in Tabs, Finished(t)
    PROVE  /\ tab' \in [Tabs -> TabStates]
           /\ shown' \in [Tabs -> SUBSET Keys]
           /\ ~WaitsAt(tab'[t]) /\ tab'[t].at = "idle"
           /\ \A u \in Tabs : u # t => tab'[u] = tab[u]
<1>1. NeedsAttention(outbox) \in SUBSET Keys
    BY AttentionType DEF DeviceTyped
<1> QED
    BY <1>1, TabGoes, IdleTabType DEF Finished, DeviceTyped

(* A tab moves on to a place where it waits for nobody.                    *)
LEMMA MovedIs ==
    ASSUME DeviceTyped, NEW t \in Tabs, NEW s \in Places, Move(t, s),
           s \notin {"wait", "saving"},
           s \in {"dispatch", "keep", "remove", "refuse"} => tab[t].id \in Keys
    PROVE  /\ tab' \in [Tabs -> TabStates]
           /\ ~WaitsAt(tab'[t]) /\ tab'[t].at = s
           /\ tab'[t].id = tab[t].id /\ tab'[t].rows = tab[t].rows
           /\ \A u \in Tabs : u # t => tab'[u] = tab[u]
<1>1. tab[t] \in TabStates
    BY DEF DeviceTyped
<1>2. PutAt(tab[t], s) \in TabStates
    BY <1>1, PutAtType
<1>3. tab' = [tab EXCEPT ![t] = PutAt(tab[t], s)]
    BY MoveIs
<1>4. tab'[t] = PutAt(tab[t], s)
    BY <1>2, <1>3, TabGoes
<1>5. /\ tab' \in [Tabs -> TabStates]
      /\ \A u \in Tabs : u # t => tab'[u] = tab[u]
    BY <1>2, <1>3, TabGoes
<1>6. /\ ~WaitsAt(tab'[t]) /\ tab'[t].at = s
      /\ tab'[t].id = tab[t].id /\ tab'[t].rows = tab[t].rows
    BY <1>1, <1>4, PutAtType
<1> QED
    BY <1>5, <1>6

(* A tab that has a receipt in hand knows its key.                         *)
LEMMA InHand ==
    ASSUME DeviceTyped, NEW t \in Tabs
    PROVE  /\ tab[t].at \in {"dispatch", "wait", "saving", "keep", "remove", "refuse"} => tab[t].id \in Keys
           /\ WaitsAt(tab[t]) => tab[t].req \in Requests
           /\ tab[t].rows \in Seq(Keys) /\ tab[t].at \in Places
BY DEF DeviceTyped, TabStates

(* A tab sends a request and waits for it.                                 *)
LEMMA SendIs ==
    ASSUME DeviceTyped, NEW t \in Tabs, NEW r \in Requests, Dispatch(t, r), tab'[t].at = "wait"
    PROVE  /\ tab' \in [Tabs -> TabStates]
           /\ tab'[t].id = tab[t].id /\ tab'[t].req = r /\ tab'[t].rows = tab[t].rows
           /\ Submit(r, tab[t].id, Body[tab[t].id])
           /\ \A u \in Tabs : u # t => tab'[u] = tab[u]
<1> DEFINE x == [at |-> "wait", rows |-> tab[t].rows, id |-> tab[t].id, req |-> r]
<1>1. tab[t].at = "dispatch" /\ tab[t].id \in Keys
    BY InHand DEF Dispatch
<1>2. ~Move(t, "refuse")
    <2>1. SUFFICES ASSUME Move(t, "refuse") PROVE FALSE
        OBVIOUS
    <2>2. tab'[t].at = "refuse"
        BY <1>1, <2>1, MovedIs DEF Places
    <2> QED
        BY <2>2
<1>3. /\ Submit(r, tab[t].id, Body[tab[t].id])
      /\ tab' = [tab EXCEPT ![t] = [at |-> "wait", rows |-> @.rows, id |-> @.id, req |-> r]]
    BY <1>2 DEF Dispatch
<1>4. tab[t] \in [at : Places, rows : Seq(Keys), id : Keys \cup {NoKey}, req : Requests \cup {NoRequest}]
    BY DEF DeviceTyped, TabStates
<1>5. x \in TabStates /\ x.id = tab[t].id /\ x.req = r /\ x.rows = tab[t].rows
    BY <1>1, <1>4 DEF TabStates, Places, WaitsAt
<1>6. tab' = [tab EXCEPT ![t] = x]
    BY <1>3
<1> HIDE DEF x
<1> QED
    BY <1>3, <1>5, <1>6, TabGoes

(* One step per action.                                                    *)
LEMMA DeviceStep ==
    ASSUME DeviceTyped, OutboxNext
    PROVE  DeviceTyped'
<1>0. /\ outbox \in Seq(Row) /\ tab \in [Tabs -> TabStates] /\ shown \in [Tabs -> SUBSET Keys]
      /\ fresh \in SUBSET Keys /\ discarded \in SUBSET Keys
    BY DEF DeviceTyped
<1>1. ASSUME NEW t \in Tabs, StartFlush(t) PROVE DeviceTyped'
    <2> DEFINE x == [at |-> "loop", rows |-> QueuedIds, id |-> NoKey, req |-> NoRequest]
    <2>1. x \in TabStates
        BY <1>0, QueuedIdsType DEF TabStates, Places, WaitsAt
    <2>2. tab' = [tab EXCEPT ![t] = x]
        BY <1>1 DEF StartFlush
    <2> HIDE DEF x
    <2>3. tab' \in [Tabs -> TabStates]
        BY <2>1, <2>2, TabGoes
    <2> QED
        BY <1>0, <1>1, <2>3 DEF StartFlush, DeviceTyped
<1>2. ASSUME NEW t \in Tabs, SaveAnswered(t) PROVE DeviceTyped'
    <2>1. tab' \in [Tabs -> TabStates]
        BY <1>2, TabGoes, IdleTabType DEF SaveAnswered
    <2> QED
        BY <1>0, <1>2, <2>1 DEF SaveAnswered, DeviceTyped
<1>3. ASSUME NEW t \in Tabs, KeepUnanswered(t) PROVE DeviceTyped'
    <2>1. tab[t].id \in Keys /\ QueueReceipt(t, tab[t].id)
        BY <1>3, InHand DEF KeepUnanswered
    <2>2. outbox' \in Seq(Row) /\ shown' \in [Tabs -> SUBSET Keys]
        BY <2>1, QueueReceiptIs
    <2>3. tab' \in [Tabs -> TabStates]
        BY <1>3, TabGoes, IdleTabType DEF KeepUnanswered
    <2> QED
        BY <1>0, <1>3, <2>2, <2>3 DEF KeepUnanswered, DeviceTyped
<1>4. ASSUME NEW t \in Tabs, NextRow(t) PROVE DeviceTyped'
    <2>1. CASE Finished(t)
        <3>1. tab' \in [Tabs -> TabStates] /\ shown' \in [Tabs -> SUBSET Keys]
            BY <2>1, FinishedIs
        <3> QED
            BY <1>0, <1>4, <3>1 DEF NextRow, DeviceTyped
    <2>2. CASE ~Finished(t)
        <3> DEFINE x == [at |-> "dispatch", rows |-> Tail(tab[t].rows),
                         id |-> Head(tab[t].rows), req |-> tab[t].req]
        <3>1. /\ tab[t].rows # <<>> /\ tab' = [tab EXCEPT ![t] = x] /\ shown' = shown
            BY <1>4, <2>2 DEF NextRow
        <3>2. tab[t].rows \in Seq(Keys) /\ tab[t].req \in Requests \cup {NoRequest}
            BY <1>0 DEF TabStates
        <3>3. x \in TabStates
            BY <3>1, <3>2 DEF TabStates, Places, WaitsAt
        <3> HIDE DEF x
        <3>4. tab' \in [Tabs -> TabStates]
            BY <3>1, <3>3, TabGoes
        <3> QED
            BY <1>0, <1>4, <3>1, <3>4 DEF NextRow, DeviceTyped
    <2> QED
        BY <2>1, <2>2
<1>5. ASSUME NEW t \in Tabs, NEW r \in Requests, Dispatch(t, r) PROVE DeviceTyped'
    <2>1. CASE Move(t, "refuse")
        <3>1. tab' \in [Tabs -> TabStates]
            BY <1>5, <2>1, InHand, MovedIs DEF Dispatch, Places
        <3> QED
            BY <1>0, <1>5, <3>1 DEF Dispatch, DeviceTyped
    <2>2. CASE ~Move(t, "refuse")
        <3>1. tab'[t].at = "wait"
            BY <1>0, <1>5, <2>2 DEF Dispatch
        <3>2. tab' \in [Tabs -> TabStates]
            BY <1>5, <3>1, SendIs
        <3> QED
            BY <1>0, <1>5, <3>2 DEF Dispatch, DeviceTyped
    <2> QED
        BY <2>1, <2>2
<1>6. ASSUME NEW t \in Tabs, Receive(t) PROVE DeviceTyped'
    <2>1. CASE Finished(t)
        <3>1. tab' \in [Tabs -> TabStates] /\ shown' \in [Tabs -> SUBSET Keys]
            BY <2>1, FinishedIs
        <3> QED
            BY <1>0, <1>6, <3>1 DEF Receive, DeviceTyped
    <2>2. CASE ~Finished(t)
        <3>1. tab[t].id \in Keys
            BY <1>6, InHand DEF Receive
        <3>2. (Move(t, "remove") \/ Move(t, "refuse")) /\ shown' = shown
            BY <1>6, <2>2 DEF Receive
        <3>3. tab' \in [Tabs -> TabStates]
            BY <3>1, <3>2, MovedIs DEF Places
        <3> QED
            BY <1>0, <1>6, <3>2, <3>3 DEF Receive, DeviceTyped
    <2> QED
        BY <2>1, <2>2
<1>7. ASSUME NEW t \in Tabs, Remove(t) \/ Refuse(t) PROVE DeviceTyped'
    <2>1. Move(t, "loop")
        BY <1>7 DEF Remove, Refuse
    <2>2. tab' \in [Tabs -> TabStates]
        BY <2>1, MovedIs DEF Places
    <2>3. outbox' \in Seq(Row)
        BY <1>0, <1>7, WithoutIs, WithStatusIs DEF Remove, Refuse
    <2> QED
        BY <1>0, <1>7, <2>2, <2>3 DEF Remove, Refuse, DeviceTyped
<1>8. ASSUME NEW t \in Tabs, Unanswered(t)
      PROVE  tab' \in [Tabs -> TabStates] /\ shown' \in [Tabs -> SUBSET Keys]
    <2>1. CASE Finished(t)
        BY <2>1, FinishedIs
    <2>2. CASE tab[t].at = "saving" /\ Move(t, "keep") /\ shown' = shown
        BY <1>0, <2>2, InHand, MovedIs DEF Places
    <2> QED
        BY <1>8, <2>1, <2>2 DEF Unanswered
<1>9. ASSUME NEW t \in Tabs, LoseAnswer(t) PROVE DeviceTyped'
    BY <1>0, <1>8, <1>9 DEF LoseAnswer, DeviceTyped
<1>10. ASSUME NEW t \in Tabs, Reload(t) PROVE DeviceTyped'
    BY <1>0, <1>10, FinishedIs DEF Reload, DeviceTyped
<1>11. ASSUME NEW t \in Tabs, NEW k \in Keys, SaveOffline(t, k) PROVE DeviceTyped'
    <2>1. outbox' \in Seq(Row) /\ shown' \in [Tabs -> SUBSET Keys]
        BY <1>11, QueueReceiptIs DEF SaveOffline
    <2> QED
        BY <1>0, <1>11, <2>1 DEF SaveOffline, DeviceTyped
<1>12. ASSUME NEW t \in Tabs, NEW k \in Keys, NEW r \in Requests, SaveOnline(t, k, r)
       PROVE  DeviceTyped'
    <2> DEFINE x == [at |-> "saving", rows |-> <<>>, id |-> k, req |-> r]
    <2>1. x \in TabStates
        BY DEF TabStates, Places, WaitsAt
    <2>2. tab' = [tab EXCEPT ![t] = x]
        BY <1>12 DEF SaveOnline
    <2> HIDE DEF x
    <2>3. tab' \in [Tabs -> TabStates]
        BY <2>1, <2>2, TabGoes
    <2> QED
        BY <1>0, <1>12, <2>3 DEF SaveOnline, DeviceTyped
<1>13. ASSUME NEW t \in Tabs, NEW k \in Keys, RetryQueued(t, k) PROVE DeviceTyped'
    <2>1. outbox' \in Seq(Row)
        BY <1>0, <1>13, WithStatusIs DEF RetryQueued
    <2>2. tab' \in [Tabs -> TabStates]
        BY <1>0, <1>13, MovedIs DEF RetryQueued, Places
    <2> QED
        BY <1>0, <1>13, <2>1, <2>2 DEF RetryQueued, DeviceTyped
<1>14. ASSUME NEW t \in Tabs, NEW k \in Keys, Discard(t, k) PROVE DeviceTyped'
    <2>1. outbox' \in Seq(Row)
        BY <1>0, <1>14, WithoutIs DEF Discard
    <2>2. NeedsAttention(outbox') \in SUBSET Keys
        BY <2>1, AttentionType
    <2> QED
        BY <1>0, <1>14, <2>1, <2>2 DEF Discard, DeviceTyped
<1>15. ASSUME NEW r \in Requests, ServerStep(r) \/ Unheard(r) PROVE DeviceTyped'
    BY <1>0, <1>15 DEF ServerStep, Unheard, device, DeviceTyped
<1>16. ASSUME NEW r \in Requests, WorkerDies(r) PROVE DeviceTyped'
    BY <1>0, <1>8, <1>16 DEF WorkerDies, DeviceTyped
<1>17. CASE SwitchCompany
    BY <1>0, <1>17 DEF SwitchCompany, DeviceTyped
<1> QED
    BY <1>1, <1>2, <1>3, <1>4, <1>5, <1>6, <1>7, <1>9, <1>10, <1>11, <1>12, <1>13, <1>14,
       <1>15, <1>16, <1>17
       DEF OutboxNext, TabStep

(* The browser's state stays well typed: the stored rows, the place and    *)
(* the snapshot of the flush loop in every tab, what each tab shows, and a *)
(* tab that waits has a request and a receipt in hand.                     *)
THEOREM DeviceIsTyped == OutboxSpec => []DeviceTyped
<1>1. OutboxInit => DeviceTyped
    BY IdleTabType DEF OutboxInit, DeviceTyped
<1>2. DeviceTyped /\ [OutboxNext]_allVars => DeviceTyped'
    <2>1. DeviceTyped /\ UNCHANGED allVars => DeviceTyped'
        BY DEF allVars, device, DeviceTyped
    <2> QED
        BY <2>1, DeviceStep
<1> QED
    BY <1>1, <1>2, PTL DEF OutboxSpec

-----------------------------------------------------------------------------
(* The server of the composed system is the server of Idempotency.         *)

(* What one step can do to the server: a tab sends a receipt, a request    *)
(* runs, a slot becomes free, or nothing.                                  *)
Sends == \E r \in Requests, k \in Keys : Submit(r, k, Body[k])
Runs == \E r \in Requests : ServerStep(r)
Frees == \E r \in Requests : Deliver(r) \/ Crash(r)

(* Every step of the composed system does one of these to the server.      *)
LEMMA ServerKinds ==
    ASSUME DeviceTyped, OutboxNext
    PROVE  Sends \/ Runs \/ Frees \/ UNCHANGED vars
<1>1. ASSUME NEW t \in Tabs, NEW r \in Requests, Dispatch(t, r) PROVE Sends \/ UNCHANGED vars
    <2>1. tab[t].id \in Keys
        BY <1>1, InHand DEF Dispatch
    <2> QED
        BY <1>1, <2>1 DEF Dispatch, Sends
<1>2. ASSUME NEW t \in Tabs, SaveAnswered(t) \/ Receive(t) PROVE Frees
    <2>1. tab[t].req \in Requests
        BY <1>2, InHand DEF SaveAnswered, Receive, WaitsAt
    <2> QED
        BY <1>2, <2>1 DEF SaveAnswered, Receive, Frees
<1>3. ASSUME NEW t \in Tabs,
             StartFlush(t) \/ KeepUnanswered(t) \/ NextRow(t) \/ Remove(t) \/ Refuse(t)
                \/ LoseAnswer(t) \/ Reload(t)
      PROVE  UNCHANGED vars
    BY <1>3 DEF StartFlush, KeepUnanswered, NextRow, Remove, Refuse, LoseAnswer, Reload
<1>4. ASSUME NEW t \in Tabs, NEW k \in Keys, SaveOffline(t, k) \/ RetryQueued(t, k) \/ Discard(t, k)
      PROVE  UNCHANGED vars
    BY <1>4 DEF SaveOffline, RetryQueued, Discard
<1>5. ASSUME NEW t \in Tabs, NEW k \in Keys, NEW r \in Requests, SaveOnline(t, k, r) PROVE Sends
    BY <1>5 DEF SaveOnline, Sends
<1>6. ASSUME NEW r \in Requests, WorkerDies(r) \/ Unheard(r) PROVE Frees
    BY <1>6 DEF WorkerDies, Unheard, Frees
<1>7. SwitchCompany => UNCHANGED vars
    BY DEF SwitchCompany
<1> QED
    BY <1>1, <1>2, <1>3, <1>4, <1>5, <1>6, <1>7 DEF OutboxNext, TabStep, Runs

(* Every step is a step of the claim protocol or leaves it alone.  No time *)
(* passes, so no completed row is pruned.                                  *)
LEMMA ServerView ==
    ASSUME DeviceTyped, OutboxNext
    PROVE  [Next]_vars /\ forgotten' = forgotten
<1>0. \A k \in Keys : Body[k] \in Prints \cup {Blank}
    BY OutboxAssumption
<1>1. Sends => Next /\ forgotten' = forgotten
    BY <1>0 DEF Sends, Submit, Next
<1>2. Frees => Next /\ forgotten' = forgotten
    BY DEF Frees, Deliver, Crash, FreeSlot, Next
<1>3. ASSUME NEW r \in Requests, ServerStep(r) PROVE Next /\ forgotten' = forgotten
    <2>1. Claim(r) \/ (\E o \in Outcomes : Build(r, o)) \/ Settle(r)
        BY <1>3 DEF ServerStep
    <2>2. Next
        BY <2>1 DEF Next
    <2>3. Claim(r) => forgotten' = forgotten
        BY DEF Claim, Begin, Lookup, InsertAgain
    <2>4. ASSUME NEW o, Build(r, o) PROVE forgotten' = forgotten
        BY <2>4 DEF Build
    <2>5. Settle(r) => forgotten' = forgotten
        BY DEF Settle, StoreRecord, StoreFails, GiveUp, ReleaseRecord
    <2> QED
        BY <2>1, <2>2, <2>3, <2>4, <2>5
<1>4. UNCHANGED vars => forgotten' = forgotten
    BY DEF vars
<1> QED
    BY <1>1, <1>2, <1>3, <1>4, ServerKinds DEF Runs

(* The outbox runs on the real server: whatever the claim protocol         *)
(* guarantees to any client, it guarantees to the outbox.                  *)
THEOREM ServerIsIdempotency == OutboxSpec => Spec
<1>1. OutboxInit => Init
    BY DEF OutboxInit
<1>2. DeviceTyped /\ [OutboxNext]_allVars => [Next]_vars
    <2>1. UNCHANGED allVars => UNCHANGED vars
        BY DEF allVars
    <2> QED
        BY <2>1, ServerView
<1> QED
    BY <1>1, <1>2, DeviceIsTyped, PTL DEF OutboxSpec, Spec

(* Nothing is forgotten in the time the model covers.                      *)
Remembered == \A k \in Keys : ~forgotten[k]

(* No step of the outbox lets the server forget a key.                     *)
LEMMA NothingForgotten == OutboxSpec => []Remembered
<1>1. OutboxInit => Remembered
    BY DEF OutboxInit, Init, Remembered
<1>2. Remembered /\ DeviceTyped /\ [OutboxNext]_allVars => Remembered'
    <2>1. UNCHANGED allVars => forgotten' = forgotten
        BY DEF allVars, vars
    <2> QED
        BY <2>1, ServerView DEF Remembered
<1> QED
    BY <1>1, <1>2, DeviceIsTyped, PTL DEF OutboxSpec

-----------------------------------------------------------------------------
(* Tabs and their requests.  A tab that waits does so for a live request   *)
(* that carries the receipt the tab has in hand, and no two tabs wait for  *)
(* the same one.                                                           *)
HearsItsOwn(t) ==
    WaitsAt(tab[t]) => /\ pc[tab[t].req] # "idle"
                       /\ key[tab[t].req] = tab[t].id
                       /\ print[tab[t].req] = Body[tab[t].id]

OneListener ==
    \A t, u \in Tabs : WaitsAt(tab[t]) /\ WaitsAt(tab[u]) /\ tab[t].req = tab[u].req => t = u

Conversations == (\A t \in Tabs : HearsItsOwn(t)) /\ OneListener

(* A receipt about to leave the store has been posted.                     *)
RemovesPosted == \A t \in Tabs : tab[t].at = "remove" => effects[tab[t].id] # <<>>

(* Nobody begins to wait.                                                  *)
NoNewWait == \A t \in Tabs : WaitsAt(tab'[t]) => tab'[t] = tab[t]

(* What the operation, the claim and the settle code leave alone.          *)
LEMMA ServerRuns ==
    ASSUME TypeOK, NEW r \in Requests, ServerStep(r)
    PROVE  /\ key' = key /\ print' = print /\ tab' = tab
           /\ \A q \in Requests : pc[q] # "idle" => pc'[q] # "idle"
           /\ \A k \in Keys : effects[k] # <<>> => effects'[k] # <<>>
<1>0. /\ pc \in [Requests -> Steps] /\ effects \in [Keys -> Seq(Prints)] /\ tab' = tab
      /\ key[r] \in Keys
    BY DEF TypeOK, ServerStep, device
<1>1. CASE Claim(r)
    BY <1>0, <1>1 DEF Claim, Begin, Lookup, InsertAgain, Goto, Answer
<1>2. ASSUME NEW o \in Outcomes, Build(r, o)
      PROVE  /\ key' = key /\ print' = print
             /\ \A q \in Requests : pc[q] # "idle" => pc'[q] # "idle"
             /\ \A k \in Keys : effects[k] # <<>> => effects'[k] # <<>>
    <2>1. /\ key' = key /\ print' = print
          /\ \A q \in Requests : pc[q] # "idle" => pc'[q] # "idle"
        BY <1>0, <1>2 DEF Build, Goto
    <2>2. CASE o # "ok"
        BY <1>2, <2>1, <2>2 DEF Build
    <2>3. CASE o = "ok"
        <3>1. print[r] \in Prints
            BY <1>2, <2>3 DEF Build, TypeOK
        <3> DEFINE w == Append(effects[key[r]], print[r])
        <3>2. effects' = [effects EXCEPT ![key[r]] = w]
            BY <1>2, <2>3 DEF Build
        <3>3. w # <<>>
            <4>1. Len(w) = Len(effects[key[r]]) + 1 /\ Len(effects[key[r]]) \in Nat
                BY <1>0, <3>1
            <4>2. Len(<<>>) = 0
                OBVIOUS
            <4> HIDE DEF w
            <4> QED
                BY <4>1, <4>2
        <3> HIDE DEF w
        <3>4. \A k \in Keys : effects'[k] = IF k = key[r] THEN w ELSE effects[k]
            BY <1>0, <3>2
        <3> QED
            BY <2>1, <3>3, <3>4
    <2> QED
        BY <2>2, <2>3
<1>3. CASE Settle(r)
    BY <1>0, <1>3 DEF Settle, StoreRecord, StoreFails, GiveUp, ReleaseRecord, Goto
<1> QED
    BY <1>0, <1>1, <1>2, <1>3 DEF ServerStep

(* The server did nothing and nobody began to wait.                        *)
LEMMA QuietConversations ==
    ASSUME Conversations, NoNewWait, UNCHANGED vars
    PROVE  Conversations'
BY DEF Conversations, HearsItsOwn, OneListener, NoNewWait, vars

(* A request runs on; the tab that waits for it is still served by it.     *)
LEMMA RunningConversations ==
    ASSUME TypeOK, DeviceTyped, Conversations, NEW r \in Requests, ServerStep(r)
    PROVE  Conversations'
<1>1. \A t \in Tabs : WaitsAt(tab[t]) => tab[t].req \in Requests
    BY InHand
<1> QED
    BY <1>1, ServerRuns DEF Conversations, HearsItsOwn, OneListener

(* A slot nobody waits for any more is freed.                              *)
LEMMA FreedConversations ==
    ASSUME TypeOK, DeviceTyped, Conversations, NEW r \in Requests, FreeSlot(r), NoNewWait,
           \A t \in Tabs : WaitsAt(tab'[t]) => tab'[t].req # r
    PROVE  Conversations'
<1>1. \A q \in Requests : q # r => pc'[q] = pc[q] /\ print'[q] = print[q]
    BY DEF TypeOK, FreeSlot, Goto
<1>2. \A t \in Tabs : WaitsAt(tab[t]) => tab[t].req \in Requests
    BY InHand
<1> QED
    BY <1>1, <1>2 DEF Conversations, HearsItsOwn, OneListener, NoNewWait, FreeSlot

(* A tab sends a request.                                                  *)
LEMMA NewConversation ==
    ASSUME TypeOK, DeviceTyped, Conversations, NEW t \in Tabs, NEW r \in Requests, NEW k \in Keys,
           Submit(r, k, Body[k]), tab'[t].id = k, tab'[t].req = r,
           \A u \in Tabs : u # t => tab'[u] = tab[u]
    PROVE  Conversations'
<1>1. \A q \in Requests : q # r => pc'[q] = pc[q] /\ print'[q] = print[q] /\ key'[q] = key[q]
    BY DEF TypeOK, Submit, Goto
<1>2. pc[r] = "idle" /\ pc'[r] = "begin" /\ key'[r] = k /\ print'[r] = Body[k]
    BY DEF TypeOK, Submit, Goto
<1>3. \A u \in Tabs : WaitsAt(tab[u]) => tab[u].req \in Requests /\ tab[u].req # r
    BY <1>2, InHand DEF Conversations, HearsItsOwn
<1>4. \A u \in Tabs : HearsItsOwn(u)'
    BY <1>1, <1>2, <1>3 DEF Conversations, HearsItsOwn
<1>5. OneListener'
    BY <1>3 DEF Conversations, OneListener
<1> QED
    BY <1>4, <1>5 DEF Conversations

(* At the start nobody waits and nothing is being removed.                 *)
LEMMA ConversationsInit == OutboxInit => Conversations /\ RemovesPosted
BY DEF OutboxInit, Conversations, HearsItsOwn, OneListener, RemovesPosted, IdleTab, WaitsAt

(* One step per action.                                                    *)
LEMMA ConversationStep ==
    ASSUME TypeOK, DeviceTyped, Conversations, OutboxNext
    PROVE  Conversations'
<1>0. tab \in [Tabs -> TabStates]
    BY DEF DeviceTyped
<1>1. ASSUME NEW t \in Tabs, ~WaitsAt(tab'[t]), \A u \in Tabs : u # t => tab'[u] = tab[u]
      PROVE  NoNewWait
    BY <1>1 DEF NoNewWait
<1>2. tab' = tab => NoNewWait
    BY DEF NoNewWait
<1>3. ASSUME NEW t \in Tabs, Finished(t) PROVE NoNewWait /\ ~WaitsAt(tab'[t])
    BY <1>1, <1>3, FinishedIs
<1>4. ASSUME NEW t \in Tabs, tab' = [tab EXCEPT ![t] = IdleTab]
      PROVE  NoNewWait /\ ~WaitsAt(tab'[t])
    BY <1>1, <1>4, TabGoes, IdleTabType
<1>5. ASSUME NEW t \in Tabs, NEW s \in {"start", "loop", "keep", "remove", "refuse"}, Move(t, s),
             s \in {"keep", "remove", "refuse"} => tab[t].id \in Keys
      PROVE  NoNewWait /\ ~WaitsAt(tab'[t])
    <2>1. s \in Places
        BY DEF Places
    <2> QED
        BY <1>1, <1>5, <2>1, MovedIs
<1>6. ASSUME NEW t \in Tabs, Unanswered(t) PROVE NoNewWait /\ ~WaitsAt(tab'[t])
    BY <1>3, <1>5, <1>6, InHand DEF Unanswered
<1>7. ASSUME NEW t \in Tabs, WaitsAt(tab[t]), NoNewWait, ~WaitsAt(tab'[t]), FreeSlot(tab[t].req)
      PROVE  Conversations'
    <2>1. tab[t].req \in Requests
        BY <1>7, InHand
    <2>2. \A u \in Tabs : WaitsAt(tab'[u]) => tab'[u].req # tab[t].req
        BY <1>7 DEF NoNewWait, Conversations, OneListener
    <2> QED
        BY <1>7, <2>1, <2>2, FreedConversations
<1>8. ASSUME NEW t \in Tabs, StartFlush(t) PROVE Conversations'
    <2> DEFINE x == [at |-> "loop", rows |-> QueuedIds, id |-> NoKey, req |-> NoRequest]
    <2>1. x \in TabStates /\ ~WaitsAt(x)
        BY QueuedIdsType DEF DeviceTyped, TabStates, Places, WaitsAt
    <2>2. tab' = [tab EXCEPT ![t] = x]
        BY <1>8 DEF StartFlush
    <2> HIDE DEF x
    <2>3. NoNewWait
        BY <1>1, <2>1, <2>2, TabGoes
    <2> QED
        BY <1>8, <2>3, QuietConversations DEF StartFlush
<1>9. ASSUME NEW t \in Tabs, NextRow(t) PROVE Conversations'
    <2>1. CASE Finished(t)
        BY <1>3, <1>9, <2>1, QuietConversations DEF NextRow
    <2>2. CASE ~Finished(t)
        <3> DEFINE x == [at |-> "dispatch", rows |-> Tail(tab[t].rows),
                         id |-> Head(tab[t].rows), req |-> tab[t].req]
        <3>1. tab[t].rows # <<>> /\ tab' = [tab EXCEPT ![t] = x]
            BY <1>9, <2>2 DEF NextRow
        <3>2. x \in TabStates /\ ~WaitsAt(x)
            BY <1>0, <3>1 DEF TabStates, Places, WaitsAt
        <3> HIDE DEF x
        <3>3. NoNewWait
            BY <1>1, <3>1, <3>2, TabGoes
        <3> QED
            BY <1>9, <3>3, QuietConversations DEF NextRow
    <2> QED
        BY <2>1, <2>2
<1>10. ASSUME NEW t \in Tabs, KeepUnanswered(t) \/ Remove(t) \/ Refuse(t) \/ LoseAnswer(t) \/ Reload(t)
       PROVE  Conversations'
    <2>1. NoNewWait
        BY <1>3, <1>4, <1>5, <1>6, <1>10 DEF KeepUnanswered, Remove, Refuse, LoseAnswer, Reload
    <2>2. UNCHANGED vars
        BY <1>10 DEF KeepUnanswered, Remove, Refuse, LoseAnswer, Reload
    <2> QED
        BY <2>1, <2>2, QuietConversations
<1>11. ASSUME NEW t \in Tabs, NEW k \in Keys, SaveOffline(t, k) \/ RetryQueued(t, k) \/ Discard(t, k)
       PROVE  Conversations'
    <2>1. NoNewWait
        BY <1>2, <1>5, <1>11 DEF SaveOffline, RetryQueued, Discard
    <2>2. UNCHANGED vars
        BY <1>11 DEF SaveOffline, RetryQueued, Discard
    <2> QED
        BY <2>1, <2>2, QuietConversations
<1>12. ASSUME NEW t \in Tabs, NEW r \in Requests, Dispatch(t, r) PROVE Conversations'
    <2>1. CASE Move(t, "refuse")
        <3>1. tab[t].id \in Keys /\ tab[t].at = "dispatch"
            BY <1>12, InHand DEF Dispatch
        <3>2. tab'[t].at = "refuse"
            BY <2>1, <3>1, MovedIs DEF Places
        <3>3. UNCHANGED vars
            <4>1. ASSUME tab' = [tab EXCEPT ![t] = [at |-> "wait", rows |-> @.rows, id |-> @.id, req |-> r]]
                  PROVE  FALSE
                BY <1>0, <3>2, <4>1
            <4> QED
                BY <1>12, <4>1 DEF Dispatch
        <3> QED
            BY <1>5, <2>1, <3>1, <3>3, QuietConversations
    <2>2. CASE ~Move(t, "refuse")
        <3>1. tab'[t].at = "wait"
            BY <1>0, <1>12, <2>2 DEF Dispatch
        <3>2. tab[t].id \in Keys
            BY <1>12, InHand DEF Dispatch
        <3> QED
            BY <1>12, <3>1, <3>2, SendIs, NewConversation
    <2> QED
        BY <2>1, <2>2
<1>13. ASSUME NEW t \in Tabs, NEW k \in Keys, NEW r \in Requests, SaveOnline(t, k, r)
       PROVE  Conversations'
    <2> DEFINE x == [at |-> "saving", rows |-> <<>>, id |-> k, req |-> r]
    <2>1. x \in TabStates /\ x.id = k /\ x.req = r
        BY DEF TabStates, Places, WaitsAt
    <2>2. tab' = [tab EXCEPT ![t] = x]
        BY <1>13 DEF SaveOnline
    <2> HIDE DEF x
    <2>3. tab'[t] = x /\ \A u \in Tabs : u # t => tab'[u] = tab[u]
        BY <2>1, <2>2, TabGoes
    <2> QED
        BY <1>13, <2>1, <2>3, NewConversation DEF SaveOnline
<1>14. ASSUME NEW t \in Tabs, SaveAnswered(t) \/ Receive(t) PROVE Conversations'
    <2>1. WaitsAt(tab[t]) /\ FreeSlot(tab[t].req)
        BY <1>14 DEF SaveAnswered, Receive, Deliver, WaitsAt
    <2>2. NoNewWait /\ ~WaitsAt(tab'[t])
        BY <1>3, <1>4, <1>5, <1>14, InHand DEF SaveAnswered, Receive
    <2> QED
        BY <1>7, <2>1, <2>2
<1>15. ASSUME NEW r \in Requests, ServerStep(r) PROVE Conversations'
    BY <1>15, RunningConversations
<1>16. ASSUME NEW r \in Requests, FreeSlot(r), tab' = tab, \A t \in Tabs : ~Waiting(t, r)
       PROVE  Conversations'
    BY <1>2, <1>16, FreedConversations DEF Waiting, WaitsAt
<1>17. ASSUME NEW r \in Requests, Unheard(r) PROVE Conversations'
    BY <1>16, <1>17 DEF Unheard, Deliver, device
<1>18. ASSUME NEW r \in Requests, WorkerDies(r) PROVE Conversations'
    <2>1. FreeSlot(r)
        BY <1>18 DEF WorkerDies, Crash
    <2>2. CASE (\A t \in Tabs : ~Waiting(t, r)) /\ tab' = tab
        BY <1>16, <2>1, <2>2
    <2>3. ASSUME NEW t \in Tabs, Waiting(t, r), Unanswered(t) PROVE Conversations'
        BY <1>6, <1>7, <2>1, <2>3 DEF Waiting, WaitsAt
    <2> QED
        BY <1>18, <2>2, <2>3 DEF WorkerDies
<1>19. SwitchCompany => Conversations'
    BY <1>2, QuietConversations DEF SwitchCompany
<1> QED
    BY <1>8, <1>9, <1>10, <1>11, <1>12, <1>13, <1>14, <1>15, <1>17, <1>18, <1>19
       DEF OutboxNext, TabStep

(* A tab hears only the answer to its own receipt.                         *)
THEOREM TabsHearTheirOwn == OutboxSpec => []Conversations
<1>1. OutboxInit => Conversations
    BY ConversationsInit
<1>2. TypeOK /\ DeviceTyped /\ Conversations /\ [OutboxNext]_allVars => Conversations'
    <2>1. Conversations /\ UNCHANGED allVars => Conversations'
        BY DEF allVars, device, vars, Conversations, HearsItsOwn, OneListener
    <2> QED
        BY <2>1, ConversationStep
<1> QED
    BY <1>1, <1>2, DeviceIsTyped, ServerIsIdempotency, TypeCorrect, PTL DEF OutboxSpec

-----------------------------------------------------------------------------
(* The promise of ReceiptOnce.                                             *)

(* Receipts are money that the claim protocol protects: the scope is a     *)
(* money scope and the receipt view keeps the key when the write of the    *)
(* answer fails.                                                           *)
ReceiptsAreMoney == \A k \in Keys : Protected(k)

(* Only ServerStep posts, and only a success moves a tab to the removal of *)
(* its receipt.                                                            *)
LEMMA RemovalStep ==
    ASSUME TypeOK, DeviceTyped, Conversations, TruthfulAnswer, RemovesPosted, OutboxNext
    PROVE  RemovesPosted'
<1>0. tab \in [Tabs -> TabStates]
    BY DEF DeviceTyped
<1> DEFINE Grows == \A k \in Keys : effects[k] # <<>> => effects'[k] # <<>>
           Others == \A t \in Tabs : tab'[t].at = "remove" => tab'[t] = tab[t]
<1>1. ASSUME Grows, Others PROVE RemovesPosted'
    <2>1. ASSUME NEW t \in Tabs, tab'[t].at = "remove" PROVE effects'[tab'[t].id] # <<>>
        <3>1. tab'[t] = tab[t] /\ tab[t].at = "remove"
            BY <1>1, <2>1
        <3>2. tab[t].id \in Keys /\ effects[tab[t].id] # <<>>
            BY <3>1, InHand DEF RemovesPosted
        <3> QED
            BY <1>1, <3>1, <3>2
    <2> QED
        BY <2>1 DEF RemovesPosted
<1>2. ASSUME NEW t \in Tabs, tab'[t].at # "remove", \A u \in Tabs : u # t => tab'[u] = tab[u]
      PROVE  Others
    BY <1>2
<1>3. tab' = tab => Others
    OBVIOUS
<1>4. ASSUME NEW t \in Tabs, Finished(t) PROVE Others
    <2>1. tab'[t].at = "idle" /\ \A u \in Tabs : u # t => tab'[u] = tab[u]
        BY <1>4, FinishedIs
    <2> QED
        BY <1>2, <2>1
<1>5. ASSUME NEW t \in Tabs, tab' = [tab EXCEPT ![t] = IdleTab] PROVE Others
    <2>1. tab'[t].at = "idle" /\ \A u \in Tabs : u # t => tab'[u] = tab[u]
        BY <1>5, TabGoes, IdleTabType
    <2> QED
        BY <1>2, <2>1
<1>6. ASSUME NEW t \in Tabs, NEW s \in {"start", "loop", "keep", "refuse"}, Move(t, s),
             s \in {"keep", "refuse"} => tab[t].id \in Keys
      PROVE  Others
    <2>1. s \in Places
        BY DEF Places
    <2>2. tab'[t].at = s /\ \A u \in Tabs : u # t => tab'[u] = tab[u]
        BY <1>6, <2>1, MovedIs
    <2> QED
        BY <1>2, <2>2
<1>7. ASSUME NEW t \in Tabs, Unanswered(t) PROVE Others
    BY <1>4, <1>6, <1>7, InHand DEF Unanswered
<1>8. effects' = effects => Grows
    OBVIOUS
<1>9. ASSUME NEW t \in Tabs, NEW x, tab' = [tab EXCEPT ![t] = x], x.at # "remove" PROVE Others
    BY <1>0, <1>9
<1> HIDE DEF Grows, Others
<1>10. UNCHANGED vars => Grows
    BY <1>8 DEF vars
<1>11. ASSUME NEW t \in Tabs, StartFlush(t) PROVE RemovesPosted'
    <2> DEFINE x == [at |-> "loop", rows |-> QueuedIds, id |-> NoKey, req |-> NoRequest]
    <2>1. tab' = [tab EXCEPT ![t] = x] /\ x.at # "remove" /\ UNCHANGED vars
        BY <1>11 DEF StartFlush
    <2> HIDE DEF x
    <2> QED
        BY <1>1, <1>9, <1>10, <2>1
<1>12. ASSUME NEW t \in Tabs, NextRow(t) PROVE RemovesPosted'
    <2>1. CASE Finished(t)
        BY <1>1, <1>4, <1>10, <1>12, <2>1 DEF NextRow
    <2>2. CASE ~Finished(t)
        BY <1>1, <1>9, <1>10, <1>12, <2>2 DEF NextRow
    <2> QED
        BY <2>1, <2>2
<1>13. ASSUME NEW t \in Tabs, KeepUnanswered(t) \/ Remove(t) \/ Refuse(t) \/ LoseAnswer(t) \/ Reload(t)
       PROVE  RemovesPosted'
    <2>1. Others
        BY <1>4, <1>5, <1>6, <1>7, <1>13 DEF KeepUnanswered, Remove, Refuse, LoseAnswer, Reload
    <2> QED
        BY <1>1, <1>10, <1>13, <2>1 DEF KeepUnanswered, Remove, Refuse, LoseAnswer, Reload
<1>14. ASSUME NEW t \in Tabs, NEW k \in Keys, SaveOffline(t, k) \/ RetryQueued(t, k) \/ Discard(t, k)
       PROVE  RemovesPosted'
    <2>1. Others
        BY <1>3, <1>6, <1>14 DEF SaveOffline, RetryQueued, Discard
    <2> QED
        BY <1>1, <1>10, <1>14, <2>1 DEF SaveOffline, RetryQueued, Discard
<1>15. ASSUME NEW t \in Tabs, NEW r \in Requests, Dispatch(t, r) PROVE RemovesPosted'
    <2>1. Others
        <3>1. CASE Move(t, "refuse")
            BY <1>6, <1>15, <3>1, InHand DEF Dispatch
        <3>2. CASE ~Move(t, "refuse")
            BY <1>9, <1>15, <3>2 DEF Dispatch
        <3> QED
            BY <3>1, <3>2
    <2>2. Grows
        BY <1>8, <1>10, <1>15 DEF Dispatch, Submit
    <2> QED
        BY <1>1, <2>1, <2>2
<1>16. ASSUME NEW t \in Tabs, NEW k \in Keys, NEW r \in Requests, SaveOnline(t, k, r)
       PROVE  RemovesPosted'
    <2> DEFINE x == [at |-> "saving", rows |-> <<>>, id |-> k, req |-> r]
    <2>1. tab' = [tab EXCEPT ![t] = x] /\ x.at # "remove" /\ effects' = effects
        BY <1>16 DEF SaveOnline, Submit
    <2> HIDE DEF x
    <2> QED
        BY <1>1, <1>8, <1>9, <2>1
<1>17. ASSUME NEW t \in Tabs, SaveAnswered(t) PROVE RemovesPosted'
    BY <1>1, <1>5, <1>8, <1>17 DEF SaveAnswered, Deliver, FreeSlot
<1>18. ASSUME NEW t \in Tabs, Receive(t) PROVE RemovesPosted'
    <2> DEFINE r == tab[t].req
    <2>0. effects' = effects /\ pc[r] = "answered"
        BY <1>18 DEF Receive, Deliver, FreeSlot
    <2>1. CASE Finished(t) \/ Move(t, "refuse")
        BY <1>1, <1>4, <1>6, <1>8, <1>18, <2>0, <2>1, InHand DEF Receive
    <2>2. CASE out[r] = "ok" /\ Move(t, "remove")
        <3>1. /\ r \in Requests /\ tab[t].id \in Keys
              /\ key[r] = tab[t].id /\ print[r] = Body[tab[t].id]
            BY <1>18, InHand DEF Receive, Conversations, HearsItsOwn, WaitsAt
        <3>2. print[r] # Blank
            BY <3>1, OutboxAssumption, ConstantsAssumption
        <3>3. Committed(tab[t].id, print[r])
            BY <2>0, <2>2, <3>1, <3>2 DEF TruthfulAnswer
        <3>4. effects[tab[t].id] # <<>>
            <4>1. Len(<<>>) = 0
                OBVIOUS
            <4>2. ASSUME effects[tab[t].id] = <<>> PROVE FALSE
                <5>1. Len(effects[tab[t].id]) = 0
                    BY <4>1, <4>2
                <5> QED
                    BY <3>3, <5>1 DEF Committed
            <4> QED
                BY <4>2
        <3>5. tab'[t].id = tab[t].id /\ \A u \in Tabs : u # t => tab'[u] = tab[u]
            BY <2>2, <3>1, MovedIs DEF Places
        <3> QED
            BY <2>0, <3>4, <3>5 DEF RemovesPosted
    <2> QED
        BY <1>18, <2>1, <2>2 DEF Receive
<1>19. ASSUME NEW r \in Requests, ServerStep(r) PROVE RemovesPosted'
    <2>1. tab' = tab /\ Grows
        BY <1>19, ServerRuns DEF Grows
    <2> QED
        BY <1>1, <1>3, <2>1
<1>20. ASSUME NEW r \in Requests, WorkerDies(r) \/ Unheard(r) PROVE RemovesPosted'
    <2>1. Others
        BY <1>3, <1>7, <1>20 DEF WorkerDies, Unheard, device
    <2> QED
        BY <1>1, <1>8, <1>20, <2>1 DEF WorkerDies, Unheard, Crash, Deliver, FreeSlot
<1>21. SwitchCompany => RemovesPosted'
    BY <1>1, <1>3, <1>10 DEF SwitchCompany
<1> QED
    BY <1>11, <1>12, <1>13, <1>14, <1>15, <1>16, <1>17, <1>18, <1>19, <1>20, <1>21
       DEF OutboxNext, TabStep

(* A receipt is money, so its key is never taken over from a request that  *)
(* is merely slow (STALE_PROCESSING_AGE does not apply to it).             *)
LEMMA StaleMoney == ReceiptsAreMoney => StaleIsAbandoned
BY ConstantsAssumption DEF ReceiptsAreMoney, StaleIsAbandoned, Protected

(* Nothing leaves the store as sent that the server has not posted.        *)
THEOREM RemovalsArePosted == ReceiptsAreMoney => (OutboxSpec => []RemovesPosted)
<1> SUFFICES ASSUME ReceiptsAreMoney PROVE OutboxSpec => []RemovesPosted
    OBVIOUS
<1>1. OutboxInit => RemovesPosted
    BY ConversationsInit
<1>2. /\ TypeOK /\ DeviceTyped /\ Conversations /\ TruthfulAnswer /\ RemovesPosted
      /\ [OutboxNext]_allVars
      => RemovesPosted'
    <2>1. RemovesPosted /\ UNCHANGED allVars => RemovesPosted'
        BY DEF allVars, device, vars, RemovesPosted
    <2> QED
        BY <2>1, RemovalStep
<1>3. Spec => []TruthfulAnswer
    BY StaleMoney, AnswersAreTrue
<1> QED
    BY <1>1, <1>2, <1>3, DeviceIsTyped, TabsHearTheirOwn, ServerIsIdempotency, TypeCorrect, PTL
       DEF OutboxSpec

(* The steps of the abstract specification, in terms of the store and the  *)
(* server's commits.                                                       *)
LEMMA StutterOf ==
    ASSUME Ids(outbox') = Ids(outbox), effects' = effects, discarded' = discarded
    PROVE  UNCHANGED Promise!vars
BY DEF Promise!vars, Ids

(* A row is put into the store: it is kept, or it was there already.       *)
LEMMA KeepOf ==
    ASSUME NEW k \in Keys, Ids(outbox') = Ids(outbox) \cup {k},
           effects' = effects, discarded' = discarded
    PROVE  [Promise!Next]_(Promise!vars)
<1>1. CASE k \in Ids(outbox)
    BY <1>1, StutterOf
<1>2. CASE k \notin Ids(outbox)
    <2>1. Promise!Keep(k)
        BY <1>2 DEF Promise!Keep, Ids
    <2> QED
        BY <2>1 DEF Promise!Next
<1> QED
    BY <1>1, <1>2

(* The row of a posted receipt leaves the store: it is sent, or another    *)
(* tab had removed it already.                                             *)
LEMMA SentOf ==
    ASSUME NEW k \in Keys, Ids(outbox') = Ids(outbox) \ {k}, Len(effects[k]) = 1,
           effects' = effects, discarded' = discarded
    PROVE  [Promise!Next]_(Promise!vars)
<1>1. CASE k \notin Ids(outbox)
    BY <1>1, StutterOf
<1>2. CASE k \in Ids(outbox)
    <2>1. Promise!Sent(k)
        BY <1>2 DEF Promise!Sent, Ids
    <2> QED
        BY <2>1 DEF Promise!Next
<1> QED
    BY <1>1, <1>2

(* The server's first commit under a key posts the receipt.                *)
LEMMA PostOf ==
    ASSUME TypeOK, NEW k \in Keys, NEW f \in Prints, effects[k] = <<>>,
           effects' = [effects EXCEPT ![k] = Append(@, f)],
           outbox' = outbox, discarded' = discarded
    PROVE  [Promise!Next]_(Promise!vars)
<1>1. /\ Len(effects[k]) = 0 /\ Len(effects'[k]) = 1
      /\ \A l \in Keys : l # k => effects'[l] = effects[l]
    BY DEF TypeOK
<1> DEFINE before == [l \in Keys |-> Len(effects[l])]
           after == [l \in Keys |-> Len(effects'[l])]
<1>2. before[k] = 0 /\ after = [before EXCEPT ![k] = 1]
    <2>1. \A l \in Keys : after[l] = IF l = k THEN 1 ELSE before[l]
        BY <1>1
    <2>2. before[k] = 0
        BY <1>1
    <2>3. before = [l \in Keys |-> before[l]] /\ after = [l \in Keys |-> after[l]]
        OBVIOUS
    <2> HIDE DEF before, after
    <2> QED
        BY <2>1, <2>2, <2>3
<1>3. Promise!Post(k)
    BY <1>2 DEF Promise!Post
<1> QED
    BY <1>3 DEF Promise!Next

(* At most one commit, and not none, is exactly one.                       *)
LEMMA OneCommit ==
    ASSUME NEW e \in Seq(Prints), e # <<>>, Len(e) <= 1
    PROVE  Len(e) = 1
<1> DEFINE n == Len(e)
<1>1. n \in Nat /\ n # 0 /\ n <= 1
    OBVIOUS
<1> HIDE DEF n
<1>2. n = 1
    BY <1>1
<1> QED
    BY <1>2 DEF n

(* Every step of the outbox is a step of the promise or none.              *)
LEMMA PromiseStep ==
    ASSUME ReceiptsAreMoney, TypeOK, DeviceTyped, IInv, Remembered, RemovesPosted, OutboxNext
    PROVE  [Promise!Next]_(Promise!vars)
<1>0. outbox \in Seq(Row)
    BY DEF DeviceTyped
<1> DEFINE Goal == [Promise!Next]_(Promise!vars)
<1>1. ASSUME outbox' = outbox, effects' = effects, discarded' = discarded PROVE Goal
    BY <1>1, StutterOf
<1>2. ASSUME UNCHANGED vars PROVE effects' = effects
    BY <1>2 DEF vars
<1> HIDE DEF Goal
<1>3. ASSUME NEW t \in Tabs, KeepUnanswered(t) PROVE Goal
    <2>1. tab[t].id \in Keys /\ QueueReceipt(t, tab[t].id)
        BY <1>3, InHand DEF KeepUnanswered
    <2>2. Ids(outbox') = Ids(outbox) \cup {tab[t].id}
        BY <2>1, QueueReceiptIs
    <2> QED
        BY <1>2, <1>3, <2>1, <2>2, KeepOf DEF KeepUnanswered, Goal
<1>4. ASSUME NEW t \in Tabs, NEW k \in Keys, SaveOffline(t, k) PROVE Goal
    <2>1. Ids(outbox') = Ids(outbox) \cup {k}
        BY <1>4, QueueReceiptIs DEF SaveOffline
    <2> QED
        BY <1>2, <1>4, <2>1, KeepOf DEF SaveOffline, Goal
<1>5. ASSUME NEW t \in Tabs, Remove(t) PROVE Goal
    <2> DEFINE k == tab[t].id
    <2>1. k \in Keys /\ effects[k] # <<>>
        BY <1>5, InHand DEF Remove, RemovesPosted
    <2>2. Ids(outbox') = Ids(outbox) \ {k}
        BY <1>0, <1>5, WithoutIs DEF Remove
    <2>3. Len(effects[k]) <= 1
        BY <2>1 DEF ReceiptsAreMoney, Remembered, IInv, MoneyOnce
    <2>4. Len(effects[k]) = 1
        <3>1. effects[k] \in Seq(Prints)
            BY <2>1 DEF TypeOK
        <3> QED
            BY <2>1, <2>3, <3>1, OneCommit
    <2> HIDE DEF k
    <2> QED
        BY <1>2, <1>5, <2>1, <2>2, <2>4, SentOf DEF Remove, Goal
<1>6. ASSUME NEW t \in Tabs, Refuse(t) PROVE Goal
    <2>1. Ids(outbox') = Ids(outbox)
        BY <1>0, <1>6, WithStatusIs DEF Refuse
    <2> QED
        BY <1>2, <1>6, <2>1, StutterOf DEF Refuse, Goal
<1>7. ASSUME NEW t \in Tabs, NEW k \in Keys, RetryQueued(t, k) PROVE Goal
    <2>1. Ids(outbox') = Ids(outbox)
        BY <1>0, <1>7, WithStatusIs DEF RetryQueued
    <2> QED
        BY <1>2, <1>7, <2>1, StutterOf DEF RetryQueued, Goal
<1>8. ASSUME NEW t \in Tabs, NEW k \in Keys, Discard(t, k) PROVE Goal
    <2>1. Ids(outbox') = Ids(outbox) \ {k} /\ effects' = effects
        BY <1>0, <1>2, <1>8, WithoutIs DEF Discard
    <2>2. CASE InStore(k)
        <3>1. k \in Ids(outbox) /\ discarded' = discarded \cup {k}
            BY <1>8, <2>2 DEF InStore, Ids, Discard
        <3>2. Promise!Discard(k)
            BY <2>1, <3>1 DEF Promise!Discard, Ids
        <3> QED
            BY <3>2 DEF Goal, Promise!Next
    <2>3. CASE ~InStore(k)
        <3>1. k \notin Ids(outbox) /\ discarded' = discarded
            BY <1>8, <2>3 DEF InStore, Ids, Discard
        <3> QED
            BY <2>1, <3>1, StutterOf DEF Goal
    <2> QED
        BY <2>2, <2>3
<1>9. ASSUME NEW r \in Requests, ServerStep(r) PROVE Goal
    <2>0. outbox' = outbox /\ discarded' = discarded
        BY <1>9 DEF ServerStep, device
    <2>1. CASE Claim(r)
        BY <1>1, <2>0, <2>1 DEF Claim, Begin, Lookup, InsertAgain
    <2>2. ASSUME NEW o \in Outcomes, Build(r, o) PROVE Goal
        <3>1. CASE o # "ok"
            BY <1>1, <2>0, <2>2, <3>1 DEF Build
        <3>2. CASE o = "ok"
            <4>1. key[r] \in Keys /\ print[r] \in Prints
                BY <2>2, <3>2 DEF TypeOK, Build
            <4>2. effects[key[r]] = <<>>
                BY <2>2, <4>1 DEF Build, IInv, CleanUntilCommit, NothingYet, Remembered, ReceiptsAreMoney
            <4>3. effects' = [effects EXCEPT ![key[r]] = Append(@, print[r])]
                BY <2>2, <3>2 DEF Build
            <4> QED
                BY <2>0, <4>1, <4>2, <4>3, PostOf DEF Goal
        <3> QED
            BY <3>1, <3>2
    <2>3. CASE Settle(r)
        BY <1>1, <2>0, <2>3 DEF Settle, StoreRecord, StoreFails, GiveUp, ReleaseRecord
    <2> QED
        BY <1>9, <2>1, <2>2, <2>3 DEF ServerStep
<1>10. ASSUME NEW t \in Tabs, StartFlush(t) \/ NextRow(t) \/ LoseAnswer(t) \/ Reload(t) PROVE Goal
    BY <1>1, <1>2, <1>10 DEF StartFlush, NextRow, LoseAnswer, Reload
<1>11. ASSUME NEW t \in Tabs, SaveAnswered(t) \/ Receive(t) PROVE Goal
    BY <1>1, <1>11 DEF SaveAnswered, Receive, Deliver, FreeSlot
<1>12. ASSUME NEW t \in Tabs, NEW r \in Requests, Dispatch(t, r) PROVE Goal
    BY <1>1, <1>2, <1>12 DEF Dispatch, Submit
<1>13. ASSUME NEW t \in Tabs, NEW k \in Keys, NEW r \in Requests, SaveOnline(t, k, r) PROVE Goal
    BY <1>1, <1>13 DEF SaveOnline, Submit
<1>14. ASSUME NEW r \in Requests, WorkerDies(r) \/ Unheard(r) PROVE Goal
    BY <1>1, <1>14 DEF WorkerDies, Unheard, Crash, Deliver, FreeSlot, device
<1>15. SwitchCompany => Goal
    BY <1>1, <1>2 DEF SwitchCompany
<1>16. Goal
    BY <1>3, <1>4, <1>5, <1>6, <1>7, <1>8, <1>9, <1>10, <1>11, <1>12, <1>13, <1>14, <1>15
       DEF OutboxNext, TabStep
<1> QED
    BY <1>16 DEF Goal

(* The outbox keeps its promise to the cashier, for any number of tabs and *)
(* receipts: each is posted at most once, and leaves the device only when  *)
(* it has been posted or a person has thrown it away, whatever is lost,    *)
(* reloaded, overtaken, switched or killed.                                *)
THEOREM PromiseIsKept == ReceiptsAreMoney => (OutboxSpec => KeepsPromise)
<1> SUFFICES ASSUME ReceiptsAreMoney PROVE OutboxSpec => KeepsPromise
    OBVIOUS
<1>1. OutboxInit => Promise!Init
    BY DEF OutboxInit, Init, Promise!Init
<1>2. /\ TypeOK /\ DeviceTyped /\ IInv /\ Remembered /\ RemovesPosted
      /\ [OutboxNext]_allVars
      => [Promise!Next]_(Promise!vars)
    <2>1. UNCHANGED allVars => UNCHANGED Promise!vars
        BY DEF allVars, device, vars, Promise!vars
    <2> QED
        BY <2>1, PromiseStep
<1>3. OutboxSpec => []RemovesPosted
    BY RemovalsArePosted
<1> QED
    BY <1>1, <1>2, <1>3, DeviceIsTyped, NothingForgotten, ServerIsIdempotency, TypeCorrect, Inductive, PTL
       DEF OutboxSpec, KeepsPromise, Promise!Spec

-----------------------------------------------------------------------------
(* What "needs attention" means.  The conditions under which a person can  *)
(* rely on it: one tab with the receipts page open, which does not give up *)
(* on a request before the server has taken it up, and no switch of        *)
(* company in between.                                                     *)
Attended ==
    /\ \A t, u \in Tabs : t = u
    /\ ~Overtaking /\ ~Switches
    /\ ReceiptsAreMoney

(* The store: one row per key, and which keys are set aside.               *)
OneRowEach(box) == \A i, j \in 1 .. Len(box) : box[i].id = box[j].id => i = j

InConflict(box, k) == \E i \in 1 .. Len(box) : box[i].id = k /\ box[i].status = "conflict"

(* removeQueuedReceipt leaves one row per key and sets nothing aside.      *)
LEMMA WithoutStore ==
    ASSUME outbox \in Seq(Row), OneRowEach(outbox), NEW k
    PROVE  /\ OneRowEach(Without(k))
           /\ \A l : InConflict(Without(k), l) => InConflict(outbox, l)
<1> DEFINE I == {i \in 1 .. Len(outbox) : outbox[i].id # k}
           q == Picked(outbox, I)
<1>1. q \in Seq(Row) /\ PickedUpTo(q, outbox, Len(outbox), I)
    <2> HIDE DEF I
    <2> QED
        BY PickedIs
<1>2. Without(k) = q
    BY DEF Without
<1> HIDE DEF q, I
<1>3. ASSUME NEW a \in 1 .. Len(q), NEW b \in 1 .. Len(q), a < b PROVE q[a].id # q[b].id
    <2>1. PICK i \in 1 .. Len(outbox), j \in 1 .. Len(outbox) :
              i < j /\ q[a] = outbox[i] /\ q[b] = outbox[j]
        BY <1>1, <1>3, ZenonT(60) DEF PickedUpTo
    <2> QED
        BY <2>1 DEF OneRowEach
<1>4. OneRowEach(q)
    <2> SUFFICES ASSUME NEW a \in 1 .. Len(q), NEW b \in 1 .. Len(q), q[a].id = q[b].id
                 PROVE  a = b
        BY DEF OneRowEach
    <2>1. ~(a < b) /\ ~(b < a)
        BY <1>3
    <2> QED
        BY <2>1
<1>5. ASSUME NEW l, InConflict(q, l) PROVE InConflict(outbox, l)
    <2>1. PICK a \in 1 .. Len(q) : q[a].id = l /\ q[a].status = "conflict"
        BY <1>5 DEF InConflict
    <2>2. PICK i \in 1 .. Len(outbox) : q[a] = outbox[i]
        BY <1>1, <2>1 DEF PickedUpTo
    <2> QED
        BY <2>1, <2>2 DEF InConflict
<1> QED
    BY <1>2, <1>4, <1>5

(* updateQueued leaves one row per key and sets aside at most the receipt  *)
(* it was asked to.                                                        *)
LEMMA WithStatusStore ==
    ASSUME outbox \in Seq(Row), OneRowEach(outbox), NEW k, NEW s \in {"queued", "conflict"}
    PROVE  /\ OneRowEach(WithStatus(k, s))
           /\ \A l : InConflict(WithStatus(k, s), l) => InConflict(outbox, l) \/ (l = k /\ s = "conflict")
<1> DEFINE w == WithStatus(k, s)
<1>1. /\ Len(w) = Len(outbox)
      /\ \A i \in 1 .. Len(outbox) :
            /\ w[i].id = outbox[i].id
            /\ w[i].status = IF outbox[i].id = k THEN s ELSE outbox[i].status
    BY WithStatusIs
<1> HIDE DEF w
<1>2. OneRowEach(w)
    BY <1>1 DEF OneRowEach
<1>3. ASSUME NEW l, InConflict(w, l) PROVE InConflict(outbox, l) \/ (l = k /\ s = "conflict")
    BY <1>1, <1>3 DEF InConflict
<1> QED
    BY <1>2, <1>3 DEF w

(* queueReceipt leaves one row per key and sets nothing aside: the put     *)
(* replaces the row the key already had.                                   *)
LEMMA QueueReceiptStore ==
    ASSUME DeviceTyped, OneRowEach(outbox), NEW t \in Tabs, NEW k \in Keys, QueueReceipt(t, k)
    PROVE  /\ OneRowEach(outbox')
           /\ \A l : InConflict(outbox', l) => InConflict(outbox, l)
<1> DEFINE w == Without(k)
           row == [id |-> k, status |-> "queued"]
<1>1. w \in Seq(Row) /\ Ids(w) = Ids(outbox) \ {k}
    BY WithoutIs DEF DeviceTyped
<1>2. row \in Row /\ row.id = k /\ row.status = "queued"
    BY DEF Row
<1>3. OneRowEach(w) /\ \A l : InConflict(w, l) => InConflict(outbox, l)
    BY WithoutStore DEF DeviceTyped
<1>4. outbox' = Append(w, row)
    BY DEF QueueReceipt
<1> HIDE DEF w, row
<1>5. /\ Len(outbox') = Len(w) + 1 /\ Len(w) \in Nat
      /\ outbox'[Len(w) + 1] = row
      /\ \A i \in 1 .. Len(w) : outbox'[i] = w[i]
    BY <1>1, <1>2, <1>4
<1>6. \A i \in 1 .. Len(w) : w[i].id # k
    BY <1>1 DEF Ids
<1>7. OneRowEach(outbox')
    <2> SUFFICES ASSUME NEW i \in 1 .. Len(outbox'), NEW j \in 1 .. Len(outbox'),
                        outbox'[i].id = outbox'[j].id
                 PROVE  i = j
        BY DEF OneRowEach
    <2>1. CASE i \in 1 .. Len(w) /\ j \in 1 .. Len(w)
        BY <1>3, <1>5, <2>1 DEF OneRowEach
    <2>2. CASE i \notin 1 .. Len(w) \/ j \notin 1 .. Len(w)
        BY <1>2, <1>5, <1>6, <2>2
    <2> QED
        BY <2>1, <2>2
<1>8. ASSUME NEW l, InConflict(outbox', l) PROVE InConflict(outbox, l)
    <2>1. PICK i \in 1 .. Len(outbox') : outbox'[i].id = l /\ outbox'[i].status = "conflict"
        BY <1>8 DEF InConflict
    <2>2. i \in 1 .. Len(w)
        BY <1>2, <1>5, <2>1
    <2>3. InConflict(w, l)
        BY <1>5, <2>1, <2>2 DEF InConflict
    <2> QED
        BY <1>3, <2>3
<1> QED
    BY <1>7, <1>8

(* A snapshot of the queue has each key once and none that is set aside.   *)
CleanSnapshot(ids, box) ==
    \A a \in 1 .. Len(ids) :
        /\ ~InConflict(box, ids[a])
        /\ \A b \in 1 .. Len(ids) : ids[a] = ids[b] => a = b

(* The snapshot of listQueuedReceipts names no receipt twice and none that *)
(* is set aside.                                                           *)
LEMMA SnapshotIsClean ==
    ASSUME outbox \in Seq(Row), OneRowEach(outbox)
    PROVE  CleanSnapshot(QueuedIds, outbox)
<1> DEFINE I == {i \in 1 .. Len(outbox) : outbox[i].status = "queued"}
           rest == Picked(outbox, I)
<1>1. rest \in Seq(Row) /\ PickedUpTo(rest, outbox, Len(outbox), I)
    <2> HIDE DEF I
    <2> QED
        BY PickedIs
<1>2. QueuedIds = [a \in 1 .. Len(rest) |-> rest[a].id]
    BY DEF QueuedIds
<1> HIDE DEF rest
<1>3. Len(QueuedIds) = Len(rest) /\ \A a \in 1 .. Len(rest) : QueuedIds[a] = rest[a].id
    BY <1>1, <1>2
<1>4. ASSUME NEW a \in 1 .. Len(rest) PROVE ~InConflict(outbox, rest[a].id)
    <2>1. PICK i \in 1 .. Len(outbox) : i \in I /\ rest[a] = outbox[i]
        BY <1>1, <1>4 DEF PickedUpTo
    <2> QED
        BY <2>1 DEF InConflict, OneRowEach
<1>5. ASSUME NEW a \in 1 .. Len(rest), NEW b \in 1 .. Len(rest), a < b PROVE rest[a].id # rest[b].id
    <2>1. PICK i \in 1 .. Len(outbox), j \in 1 .. Len(outbox) :
              i < j /\ rest[a] = outbox[i] /\ rest[b] = outbox[j]
        BY <1>1, <1>5 DEF PickedUpTo
    <2> QED
        BY <2>1 DEF OneRowEach
<1>6. ASSUME NEW a \in 1 .. Len(rest), NEW b \in 1 .. Len(rest), rest[a].id = rest[b].id PROVE a = b
    <2>1. ~(a < b) /\ ~(b < a)
        BY <1>5, <1>6
    <2> QED
        BY <2>1
<1> QED
    BY <1>3, <1>4, <1>6 DEF CleanSnapshot

(* Without switches the browser and the server stay with their company.    *)
Home == server = "own" /\ local = "own"

(* Without a switch of company both stay where the session began.          *)
LEMMA StaysHome == ~Switches => (OutboxSpec => []Home)
<1> SUFFICES ASSUME ~Switches PROVE OutboxSpec => []Home
    OBVIOUS
<1>1. OutboxInit => Home
    BY DEF OutboxInit, Home
<1>2. Home /\ [OutboxNext]_allVars => Home'
    <2> SUFFICES ASSUME Home, [OutboxNext]_allVars PROVE server' = server /\ local' = local
        BY DEF Home
    <2>1. ASSUME NEW t \in Tabs, StartFlush(t) \/ TabStep(t) \/ LoseAnswer(t) \/ Reload(t)
          PROVE  server' = server /\ local' = local
        BY <2>1 DEF StartFlush, TabStep, LoseAnswer, Reload, SaveAnswered, KeepUnanswered, NextRow,
                    Dispatch, Receive, Remove, Refuse
    <2>2. ASSUME NEW t \in Tabs, NEW k \in Keys,
                 SaveOffline(t, k) \/ RetryQueued(t, k) \/ Discard(t, k)
                    \/ \E r \in Requests : SaveOnline(t, k, r)
          PROVE  server' = server /\ local' = local
        BY <2>2 DEF SaveOffline, RetryQueued, Discard, SaveOnline
    <2>3. ASSUME NEW r \in Requests, ServerStep(r) \/ WorkerDies(r) \/ Unheard(r)
          PROVE  server' = server /\ local' = local
        BY <2>3 DEF ServerStep, WorkerDies, Unheard, device
    <2>4. ~SwitchCompany
        BY DEF SwitchCompany
    <2>5. UNCHANGED allVars => server' = server /\ local' = local
        BY DEF allVars, device
    <2> QED
        BY <2>1, <2>2, <2>3, <2>4, <2>5 DEF OutboxNext
<1> QED
    BY <1>1, <1>2, PTL DEF OutboxSpec

(* A key always carries the same receipt, so no request of the outbox is   *)
(* told that its key was used for something else.                          *)
SameBody ==
    /\ \A r \in Requests : pc[r] # "idle" => print[r] = Body[key[r]]
    /\ \A k \in Keys : rows[k].hash \in {Body[k], Blank}

(* Every step preserves it: all attempts at a receipt send the stored      *)
(* payload.                                                                *)
LEMMA SameBodyStep ==
    ASSUME TypeOK, DeviceTyped, SameBody, OutboxNext
    PROVE  SameBody'
<1>0. /\ pc \in [Requests -> Steps] /\ key \in [Requests -> Keys] /\ rows \in [Keys -> Record \cup {NoRow}]
      /\ print \in [Requests -> Prints \cup {Blank}]
    BY DEF TypeOK
<1>1. ASSUME NEW r \in Requests, NEW k \in Keys, Submit(r, k, Body[k]) PROVE SameBody'
    BY <1>0, <1>1 DEF Submit, Goto, SameBody
<1>2. ASSUME NEW r \in Requests, Deliver(r) \/ Crash(r) PROVE SameBody'
    BY <1>0, <1>2 DEF Deliver, Crash, FreeSlot, Goto, SameBody
<1>3. ASSUME NEW r \in Requests, ServerStep(r) PROVE SameBody'
    <2> DEFINE k == key[r]
    <2>0. k \in Keys /\ key' = key /\ print' = print
        BY <1>0, <1>3, ServerRuns
    <2>1. \A q \in Requests : pc'[q] # "idle" => pc[q] # "idle"
        <3>1. CASE Claim(r)
            BY <1>0, <3>1 DEF Claim, Begin, Lookup, InsertAgain, Goto, Answer
        <3>2. ASSUME NEW o \in Outcomes, Build(r, o) PROVE \A q \in Requests : pc'[q] # "idle" => pc[q] # "idle"
            BY <1>0, <3>2 DEF Build, Goto
        <3>3. CASE Settle(r)
            BY <1>0, <3>3 DEF Settle, StoreRecord, StoreFails, GiveUp, ReleaseRecord, Goto
        <3> QED
            BY <1>3, <3>1, <3>2, <3>3 DEF ServerStep
    <2>2. \/ rows' = rows
          \/ rows' = [rows EXCEPT ![k] = NewRow(print[r])] /\ pc[r] # "idle"
          \/ rows' = [rows EXCEPT ![k] = NoRow]
          \/ rows' = [rows EXCEPT ![k] = [answer |-> out[r], hash |-> Blank, age |-> 0]]
          \/ rows[k] # NoRow /\ rows' = [rows EXCEPT ![k] = [rows[k] EXCEPT !.answer = out[r]]]
        <3>1. CASE Claim(r)
            BY <1>0, <3>1 DEF Claim, Begin, Lookup, InsertAgain
        <3>2. ASSUME NEW o \in Outcomes, Build(r, o) PROVE rows' = rows
            BY <3>2 DEF Build
        <3>3. CASE StoreRecord(r)
            <4>1. CASE rows[k] = NoRow
                BY <1>0, <3>3, <4>1 DEF StoreRecord
            <4>2. CASE rows[k] # NoRow
                BY <1>0, <3>3, <4>2 DEF StoreRecord
            <4> QED
                BY <4>1, <4>2
        <3>4. CASE ReleaseRecord(r)
            <4>1. CASE rows[k].answer = InFlight
                BY <1>0, <3>4, <4>1 DEF ReleaseRecord
            <4>2. CASE rows[k].answer # InFlight
                BY <1>0, <3>4, <4>2 DEF ReleaseRecord
            <4> QED
                BY <4>1, <4>2
        <3>5. CASE StoreFails(r) \/ GiveUp(r)
            BY <3>5 DEF StoreFails, GiveUp
        <3> QED
            BY <1>3, <3>1, <3>2, <3>3, <3>4, <3>5 DEF ServerStep, Settle
    <2>3. \A l \in Keys : rows'[l].hash \in {Body[l], Blank}
        <3>1. print[r] = Body[k] \/ pc[r] = "idle"
            BY DEF SameBody
        <3>2. NewRow(print[r]).hash = print[r] /\ NoRow.hash = Blank
              /\ [answer |-> out[r], hash |-> Blank, age |-> 0].hash = Blank
            BY DEF NewRow, NoRow
        <3>3. rows[k] # NoRow => [rows[k] EXCEPT !.answer = out[r]].hash = rows[k].hash
            BY <1>0, <2>0 DEF Record
        <3>4. ASSUME NEW x, rows' = [rows EXCEPT ![k] = x], x.hash \in {Body[k], Blank}
              PROVE  \A l \in Keys : rows'[l].hash \in {Body[l], Blank}
            BY <1>0, <2>0, <3>4 DEF SameBody
        <3>5. \A l \in Keys : rows[l].hash \in {Body[l], Blank}
            BY DEF SameBody
        <3> QED
            BY <2>0, <2>2, <3>1, <3>2, <3>3, <3>4, <3>5
    <2> QED
        BY <2>0, <2>1, <2>3 DEF SameBody
<1>4. UNCHANGED vars => SameBody'
    BY DEF vars, SameBody
<1> QED
    BY <1>1, <1>2, <1>3, <1>4, ServerKinds DEF Sends, Runs, Frees

(* A key never carries two different receipts.                             *)
LEMMA BodiesStay == OutboxSpec => []SameBody
<1>1. OutboxInit => SameBody
    BY DEF OutboxInit, Init, SameBody, NoRow
<1>2. TypeOK /\ DeviceTyped /\ SameBody /\ [OutboxNext]_allVars => SameBody'
    <2>1. SameBody /\ UNCHANGED allVars => SameBody'
        BY DEF allVars, vars, SameBody
    <2> QED
        BY <2>1, SameBodyStep
<1> QED
    BY <1>1, <1>2, DeviceIsTyped, ServerIsIdempotency, TypeCorrect, PTL DEF OutboxSpec

(* A request that has not claimed its key yet.                             *)
Early(r) == pc[r] \in {"begin", "lookup", "insert"}

(* The tab waits for it: nobody has given up on it.                        *)
EarlyIsHeard == \A r \in Requests : Early(r) => \E t \in Tabs : Waiting(t, r)

(* Every step preserves it: a request that has not claimed its key loses   *)
(* its listener only by being overtaken, which Attended excludes.          *)
LEMMA EarlyStep ==
    ASSUME Attended, TypeOK, DeviceTyped, EarlyIsHeard, OutboxNext
    PROVE  EarlyIsHeard'
<1>0. /\ pc \in [Requests -> Steps] /\ tab \in [Tabs -> TabStates]
      /\ ~Overtaking /\ \A t, u \in Tabs : t = u
    BY DEF TypeOK, DeviceTyped, Attended
<1>1. ASSUME NEW t \in Tabs, ~WaitsAt(tab[t]) \/ ~Early(tab[t].req), NEW r \in Requests PROVE ~Early(r)
    BY <1>0, <1>1 DEF EarlyIsHeard, Waiting, WaitsAt
<1>2. ASSUME NEW t \in Tabs, ~WaitsAt(tab[t]) \/ ~Early(tab[t].req), UNCHANGED vars PROVE EarlyIsHeard'
    BY <1>1, <1>2 DEF EarlyIsHeard, Early, vars
<1>3. ASSUME tab' = tab, \A r \in Requests : Early(r)' => Early(r) PROVE EarlyIsHeard'
    BY <1>3 DEF EarlyIsHeard, Waiting
<1>4. ASSUME NEW r \in Requests, FreeSlot(r) PROVE \A q \in Requests : Early(q)' => Early(q) /\ q # r
    BY <1>0, <1>4 DEF FreeSlot, Goto, Early
<1>5. ASSUME NEW t \in Tabs, NEW r \in Requests, Waiting(t, r), FreeSlot(r) PROVE EarlyIsHeard'
    <2>1. \A q \in Requests : ~Early(q)'
        BY <1>0, <1>4, <1>5 DEF EarlyIsHeard, Waiting
    <2> QED
        BY <2>1 DEF EarlyIsHeard
<1>6. ASSUME NEW t \in Tabs, NEW r \in Requests, NEW k, NEW f, ~WaitsAt(tab[t]), Submit(r, k, f),
             WaitsAt(tab'[t]), tab'[t].req = r
      PROVE  EarlyIsHeard'
    <2>1. \A q \in Requests : Early(q)' => Early(q) \/ q = r
        BY <1>0, <1>6 DEF Submit, Goto, Early
    <2>2. \A q \in Requests : Early(q)' => q = r
        BY <1>1, <1>6, <2>1
    <2> QED
        BY <1>6, <2>2 DEF EarlyIsHeard, Waiting, WaitsAt
<1>7. ASSUME NEW r \in Requests, ServerStep(r) PROVE EarlyIsHeard'
    <2>1. \A q \in Requests : Early(q)' => Early(q)
        <3>1. CASE Claim(r)
            BY <1>0, <3>1 DEF Claim, Begin, Lookup, InsertAgain, Goto, Answer, Early
        <3>2. ASSUME NEW o \in Outcomes, Build(r, o) PROVE \A q \in Requests : Early(q)' => Early(q)
            BY <1>0, <3>2 DEF Build, Goto, Early
        <3>3. CASE Settle(r)
            BY <1>0, <3>3 DEF Settle, StoreRecord, StoreFails, GiveUp, ReleaseRecord, Goto, Early
        <3> QED
            BY <1>7, <3>1, <3>2, <3>3 DEF ServerStep
    <2> QED
        BY <1>3, <1>7, <2>1, ServerRuns
<1>8. ASSUME NEW t \in Tabs, StartFlush(t) \/ KeepUnanswered(t) \/ NextRow(t) \/ Remove(t) \/ Refuse(t)
      PROVE  EarlyIsHeard'
    <2>1. UNCHANGED vars /\ ~WaitsAt(tab[t])
        BY <1>8 DEF StartFlush, KeepUnanswered, NextRow, Remove, Refuse, WaitsAt
    <2> QED
        BY <1>2, <2>1
<1>9. ASSUME NEW t \in Tabs, LoseAnswer(t) \/ Reload(t) PROVE EarlyIsHeard'
    <2>1. UNCHANGED vars /\ MayAbandon(t)
        BY <1>9 DEF LoseAnswer, Reload
    <2>2. ~WaitsAt(tab[t]) \/ ~Early(tab[t].req)
        BY <1>0, <2>1 DEF MayAbandon, WaitsAt, Early
    <2> QED
        BY <1>2, <2>1, <2>2
<1>10. ASSUME NEW t \in Tabs, NEW k \in Keys, SaveOffline(t, k) \/ RetryQueued(t, k) \/ Discard(t, k)
       PROVE  EarlyIsHeard'
    <2>1. UNCHANGED vars
        BY <1>10 DEF SaveOffline, RetryQueued, Discard
    <2>2. tab' = tab \/ tab[t].at = "idle"
        BY <1>10 DEF SaveOffline, RetryQueued, Discard
    <2>3. tab' = tab => EarlyIsHeard'
        BY <1>3, <2>1 DEF vars, Early
    <2> QED
        BY <1>2, <2>1, <2>2, <2>3 DEF WaitsAt
<1>11. ASSUME NEW t \in Tabs, NEW r \in Requests, Dispatch(t, r) PROVE EarlyIsHeard'
    <2>1. ~WaitsAt(tab[t])
        BY <1>11 DEF Dispatch, WaitsAt
    <2>2. CASE UNCHANGED vars
        BY <1>2, <2>1, <2>2
    <2>3. CASE ~UNCHANGED vars
        <3>1. tab'[t].at = "wait"
            BY <1>0, <1>11, <2>3 DEF Dispatch
        <3>2. WaitsAt(tab'[t]) /\ tab'[t].req = r /\ Submit(r, tab[t].id, Body[tab[t].id])
            BY <1>11, <3>1, SendIs DEF WaitsAt
        <3> QED
            BY <1>6, <2>1, <3>2
    <2> QED
        BY <2>2, <2>3
<1>12. ASSUME NEW t \in Tabs, NEW k \in Keys, NEW r \in Requests, SaveOnline(t, k, r)
       PROVE  EarlyIsHeard'
    <2>1. ~WaitsAt(tab[t]) /\ Submit(r, k, Body[k])
        BY <1>12 DEF SaveOnline, WaitsAt
    <2>2. WaitsAt(tab'[t]) /\ tab'[t].req = r
        BY <1>0, <1>12 DEF SaveOnline, WaitsAt
    <2> QED
        BY <1>6, <2>1, <2>2
<1>13. ASSUME NEW t \in Tabs, SaveAnswered(t) \/ Receive(t) PROVE EarlyIsHeard'
    <2>1. tab[t].req \in Requests /\ Waiting(t, tab[t].req) /\ FreeSlot(tab[t].req)
        BY <1>13, InHand DEF SaveAnswered, Receive, Deliver, WaitsAt, Waiting
    <2> QED
        BY <1>5, <2>1
<1>14. ASSUME NEW r \in Requests, WorkerDies(r) \/ Unheard(r) PROVE EarlyIsHeard'
    <2>1. FreeSlot(r)
        BY <1>14 DEF WorkerDies, Unheard, Crash, Deliver
    <2>2. tab' = tab \/ \E t \in Tabs : Waiting(t, r)
        BY <1>14 DEF WorkerDies, Unheard, device
    <2>3. tab' = tab => EarlyIsHeard'
        BY <1>3, <1>4, <2>1
    <2> QED
        BY <1>5, <2>1, <2>2, <2>3
<1>15. ~SwitchCompany
    BY DEF SwitchCompany, Attended
<1> QED
    BY <1>7, <1>8, <1>9, <1>10, <1>11, <1>12, <1>13, <1>14, <1>15 DEF OutboxNext, TabStep

(* The flush never works on a receipt that is set aside: its snapshot is   *)
(* clean and the receipt in hand is not in it any more.                    *)
Planned(x, box) ==
    /\ x.at \in {"dispatch", "wait"} => ~InConflict(box, x.id)
    /\ CleanSnapshot(x.rows, box)
    /\ x.at \in {"dispatch", "wait", "remove", "refuse"} =>
          \A a \in 1 .. Len(x.rows) : x.rows[a] # x.id

(* A gesture not made yet has left nothing behind.                         *)
FreshIsNew ==
    /\ fresh \cap Ids(outbox) = {}
    /\ \A t \in Tabs : tab[t].at \in {"saving", "keep"} => tab[t].id \notin fresh

StoreInv ==
    /\ OneRowEach(outbox)
    /\ FreshIsNew
    /\ \A t \in Tabs : Planned(tab[t], outbox)

(* Fewer receipts set aside, same tab.                                     *)
LEMMA PlannedLess ==
    ASSUME NEW x, NEW box, NEW less, Planned(x, box), \A l : InConflict(less, l) => InConflict(box, l)
    PROVE  Planned(x, less)
BY DEF Planned, CleanSnapshot

(* A tab without a snapshot has nothing planned.                           *)
LEMMA PlannedIdle ==
    ASSUME NEW box, NEW x, x.rows = <<>>, x.at \notin {"dispatch", "wait"} PROVE Planned(x, box)
BY DEF Planned, CleanSnapshot

(* The same snapshot at another place.                                     *)
LEMMA PlannedMove ==
    ASSUME NEW x, NEW y, NEW box, Planned(x, box), y.rows = x.rows, y.id = x.id,
           y.at \in {"wait", "remove", "refuse"} => x.at \in {"dispatch", "wait"},
           y.at # "dispatch"
    PROVE  Planned(y, box)
BY DEF Planned

(* The receipt in hand is set aside.                                       *)
LEMMA PlannedRefuse ==
    ASSUME NEW x, NEW y, NEW box, NEW more, Planned(x, box), x.at = "refuse",
           y.rows = x.rows, y.at = "loop",
           \A l : InConflict(more, l) => InConflict(box, l) \/ l = x.id
    PROVE  Planned(y, more)
BY DEF Planned, CleanSnapshot

(* The next row comes into hand.                                           *)
LEMMA PlannedNext ==
    ASSUME NEW x, NEW y, NEW box, Planned(x, box), x.rows \in Seq(Keys), x.rows # <<>>,
           y.at = "dispatch", y.rows = Tail(x.rows), y.id = Head(x.rows)
    PROVE  Planned(y, box)
<1> DEFINE s == x.rows
<1>1. /\ Len(s) \in Nat /\ Len(s) > 0 /\ Len(y.rows) = Len(s) - 1 /\ y.id = s[1]
      /\ \A a \in 1 .. Len(y.rows) : y.rows[a] = s[a + 1]
    OBVIOUS
<1>2. CleanSnapshot(s, box)
    BY DEF Planned
<1> HIDE DEF s
<1>3. CleanSnapshot(y.rows, box)
    <2>1. ASSUME NEW a \in 1 .. Len(y.rows)
          PROVE  /\ ~InConflict(box, y.rows[a])
                 /\ \A b \in 1 .. Len(y.rows) : y.rows[a] = y.rows[b] => a = b
        BY <1>1, <1>2, <2>1 DEF CleanSnapshot
    <2> QED
        BY <2>1 DEF CleanSnapshot
<1>4. ~InConflict(box, y.id)
    BY <1>1, <1>2 DEF CleanSnapshot
<1>5. \A a \in 1 .. Len(y.rows) : y.rows[a] # y.id
    <2>1. ASSUME NEW a \in 1 .. Len(y.rows) PROVE y.rows[a] # y.id
        <3>1. a + 1 \in 1 .. Len(s) /\ 1 \in 1 .. Len(s) /\ a + 1 # 1
            BY <1>1
        <3> QED
            BY <1>1, <1>2, <3>1 DEF CleanSnapshot
    <2> QED
        BY <2>1
<1> QED
    BY <1>3, <1>4, <1>5 DEF Planned

(* One step per action.                                                    *)
LEMMA StoreStep ==
    ASSUME Attended, DeviceTyped, Home, StoreInv, OutboxNext
    PROVE  StoreInv'
<1>0. /\ outbox \in Seq(Row) /\ tab \in [Tabs -> TabStates] /\ OneRowEach(outbox)
      /\ fresh \cap Ids(outbox) = {}
    BY DEF DeviceTyped, StoreInv, FreshIsNew
<1>1. ASSUME NEW t \in Tabs
      PROVE  /\ Planned(tab[t], outbox)
             /\ tab[t].at \in {"saving", "keep"} => tab[t].id \notin fresh
    BY <1>1 DEF StoreInv, FreshIsNew
<1> DEFINE Less == \A l : InConflict(outbox', l) => InConflict(outbox, l)
<1>2. ASSUME NEW t \in Tabs, OneRowEach(outbox'), Planned(tab'[t], outbox'),
             fresh' \cap Ids(outbox') = {},
             tab'[t].at \in {"saving", "keep"} => tab'[t].id \notin fresh'
      PROVE  StoreInv'
    <2>1. \A u \in Tabs : u = t
        BY DEF Attended
    <2> QED
        BY <1>2, <2>1 DEF StoreInv, FreshIsNew
<1>3. ASSUME NEW t \in Tabs, outbox' = outbox, fresh' = fresh, tab'[t].at = "idle", tab'[t].rows = <<>>
      PROVE  StoreInv'
    BY <1>0, <1>2, <1>3, PlannedIdle
<1>4. ASSUME NEW t \in Tabs, tab' = [tab EXCEPT ![t] = IdleTab]
      PROVE  tab'[t].at = "idle" /\ tab'[t].rows = <<>>
    BY <1>0, <1>4 DEF IdleTab
<1>5. ASSUME NEW t \in Tabs, Finished(t), outbox' = outbox, fresh' = fresh PROVE StoreInv'
    BY <1>3, <1>4, <1>5 DEF Finished
<1>6. ASSUME NEW t \in Tabs, NEW s \in {"keep", "remove", "refuse"}, Move(t, s), tab[t].id \in Keys,
             s = "keep" => tab[t].at = "saving",
             s # "keep" => tab[t].at \in {"dispatch", "wait"},
             outbox' = outbox, fresh' = fresh
      PROVE  StoreInv'
    <2>1. tab'[t].at = s /\ tab'[t].id = tab[t].id /\ tab'[t].rows = tab[t].rows
        BY <1>6, MovedIs DEF Places
    <2>2. Planned(tab'[t], outbox)
        BY <1>1, <1>6, <2>1, PlannedMove
    <2> QED
        BY <1>0, <1>1, <1>2, <1>6, <2>1, <2>2
<1>7. ASSUME NEW t \in Tabs, Unanswered(t), outbox' = outbox, fresh' = fresh PROVE StoreInv'
    <2>1. CASE Finished(t)
        BY <1>5, <1>7, <2>1
    <2>2. CASE tab[t].at = "saving" /\ Move(t, "keep")
        BY <1>6, <1>7, <2>2, InHand
    <2> QED
        BY <1>7, <2>1, <2>2 DEF Unanswered
<1>8. ASSUME outbox' = outbox, fresh' = fresh, tab' = tab PROVE StoreInv'
    BY <1>8 DEF StoreInv, FreshIsNew
<1>9. ASSUME NEW t \in Tabs, StartFlush(t) PROVE StoreInv'
    <2> DEFINE x == [at |-> "loop", rows |-> QueuedIds, id |-> NoKey, req |-> NoRequest]
    <2>1. tab' = [tab EXCEPT ![t] = x] /\ outbox' = outbox /\ fresh' = fresh
        BY <1>9 DEF StartFlush
    <2>2. x.at = "loop" /\ x.rows = QueuedIds
        OBVIOUS
    <2> HIDE DEF x
    <2>3. tab'[t] = x
        BY <1>0, <2>1
    <2>4. Planned(x, outbox)
        BY <1>0, <2>2, SnapshotIsClean DEF Planned
    <2> QED
        BY <1>0, <1>2, <2>1, <2>2, <2>3, <2>4
<1>10. ASSUME NEW t \in Tabs, KeepUnanswered(t) PROVE StoreInv'
    <2>1. tab[t].id \in Keys /\ QueueReceipt(t, tab[t].id) /\ tab[t].id \notin fresh /\ fresh' = fresh
        BY <1>1, <1>10, InHand DEF KeepUnanswered
    <2>2. OneRowEach(outbox') /\ Ids(outbox') = Ids(outbox) \cup {tab[t].id}
        BY <1>0, <2>1, QueueReceiptIs, QueueReceiptStore
    <2>3. tab'[t].at = "idle" /\ tab'[t].rows = <<>>
        BY <1>4, <1>10 DEF KeepUnanswered
    <2> QED
        BY <1>0, <1>2, <2>1, <2>2, <2>3, PlannedIdle
<1>11. ASSUME NEW t \in Tabs, NextRow(t) PROVE StoreInv'
    <2>0. outbox' = outbox /\ fresh' = fresh
        BY <1>11 DEF NextRow
    <2>1. CASE Finished(t)
        BY <1>5, <2>0, <2>1
    <2>2. CASE ~Finished(t)
        <3> DEFINE x == [at |-> "dispatch", rows |-> Tail(tab[t].rows),
                         id |-> Head(tab[t].rows), req |-> tab[t].req]
        <3>1. tab[t].rows # <<>> /\ tab' = [tab EXCEPT ![t] = x]
            BY <1>11, <2>2 DEF NextRow
        <3>2. x.at = "dispatch" /\ x.rows = Tail(tab[t].rows) /\ x.id = Head(tab[t].rows)
            OBVIOUS
        <3> HIDE DEF x
        <3>3. tab'[t] = x
            BY <1>0, <3>1
        <3>4. Planned(x, outbox)
            BY <1>1, <3>1, <3>2, InHand, PlannedNext
        <3> QED
            BY <1>0, <1>2, <2>0, <3>2, <3>3, <3>4
    <2> QED
        BY <2>1, <2>2
<1>12. ASSUME NEW t \in Tabs, NEW r \in Requests, Dispatch(t, r) PROVE StoreInv'
    <2>0. outbox' = outbox /\ fresh' = fresh /\ tab[t].at = "dispatch" /\ tab'[t].at = "wait"
        BY <1>0, <1>12 DEF Dispatch, Home
    <2>1. tab'[t].id = tab[t].id /\ tab'[t].rows = tab[t].rows
        BY <1>12, <2>0, SendIs
    <2>2. Planned(tab'[t], outbox)
        BY <1>1, <2>0, <2>1, PlannedMove
    <2> QED
        BY <1>0, <1>2, <2>0, <2>2
<1>13. ASSUME NEW t \in Tabs, Receive(t) PROVE StoreInv'
    <2>0. outbox' = outbox /\ fresh' = fresh /\ tab[t].at = "wait" /\ tab[t].id \in Keys
        BY <1>13, InHand DEF Receive
    <2>1. Finished(t) \/ Move(t, "remove") \/ Move(t, "refuse")
        BY <1>13 DEF Receive
    <2> QED
        BY <1>5, <1>6, <2>0, <2>1
<1>14. ASSUME NEW t \in Tabs, Remove(t) PROVE StoreInv'
    <2>1. OneRowEach(outbox') /\ Less /\ Ids(outbox') = Ids(outbox) \ {tab[t].id}
        BY <1>0, <1>14, WithoutIs, WithoutStore DEF Remove
    <2>2. tab'[t].at = "loop" /\ tab'[t].id = tab[t].id /\ tab'[t].rows = tab[t].rows /\ fresh' = fresh
        BY <1>14, MovedIs DEF Remove, Places
    <2>3. Planned(tab'[t], outbox)
        BY <1>1, <2>2, PlannedMove
    <2>4. Planned(tab'[t], outbox')
        BY <2>1, <2>3, PlannedLess
    <2> QED
        BY <1>0, <1>2, <2>1, <2>2, <2>4
<1>15. ASSUME NEW t \in Tabs, Refuse(t) PROVE StoreInv'
    <2>1. /\ OneRowEach(outbox') /\ Ids(outbox') = Ids(outbox)
          /\ \A l : InConflict(outbox', l) => InConflict(outbox, l) \/ l = tab[t].id
        BY <1>0, <1>15, WithStatusIs, WithStatusStore DEF Refuse
    <2>2. tab'[t].at = "loop" /\ tab'[t].rows = tab[t].rows /\ fresh' = fresh /\ tab[t].at = "refuse"
        BY <1>15, MovedIs DEF Refuse, Places
    <2>3. Planned(tab'[t], outbox')
        BY <1>1, <2>1, <2>2, PlannedRefuse
    <2> QED
        BY <1>0, <1>2, <2>1, <2>2, <2>3
<1>16. ASSUME NEW t \in Tabs, LoseAnswer(t) \/ Reload(t) PROVE StoreInv'
    BY <1>5, <1>7, <1>16 DEF LoseAnswer, Reload
<1>17. ASSUME NEW t \in Tabs, SaveAnswered(t) PROVE StoreInv'
    BY <1>3, <1>4, <1>17 DEF SaveAnswered
<1>18. ASSUME NEW t \in Tabs, NEW k \in Keys, SaveOffline(t, k) PROVE StoreInv'
    <2>1. /\ OneRowEach(outbox') /\ Less /\ Ids(outbox') = Ids(outbox) \cup {k}
          /\ tab' = tab /\ fresh' = fresh \ {k}
        BY <1>0, <1>18, QueueReceiptIs, QueueReceiptStore DEF SaveOffline
    <2>2. Planned(tab[t], outbox')
        BY <1>1, <2>1, PlannedLess
    <2> QED
        BY <1>0, <1>1, <1>2, <2>1, <2>2
<1>19. ASSUME NEW t \in Tabs, NEW k \in Keys, NEW r \in Requests, SaveOnline(t, k, r) PROVE StoreInv'
    <2> DEFINE x == [at |-> "saving", rows |-> <<>>, id |-> k, req |-> r]
    <2>1. tab' = [tab EXCEPT ![t] = x] /\ outbox' = outbox /\ fresh' = fresh \ {k}
        BY <1>19 DEF SaveOnline
    <2>2. x.at = "saving" /\ x.rows = <<>> /\ x.id = k
        OBVIOUS
    <2> HIDE DEF x
    <2>3. tab'[t] = x
        BY <1>0, <2>1
    <2> QED
        BY <1>0, <1>2, <2>1, <2>2, <2>3, PlannedIdle
<1>20. ASSUME NEW t \in Tabs, NEW k \in Keys, RetryQueued(t, k) PROVE StoreInv'
    <2>1. OneRowEach(outbox') /\ Less /\ Ids(outbox') = Ids(outbox) /\ fresh' = fresh
        <3>1. outbox' = WithStatus(k, "queued") /\ fresh' = fresh
            BY <1>20 DEF RetryQueued
        <3> QED
            BY <1>0, <3>1, WithStatusIs, WithStatusStore
    <2>2. CASE tab' = tab
        BY <1>0, <1>1, <1>2, <2>1, <2>2, PlannedLess
    <2>3. CASE Move(t, "start")
        <3>1. tab'[t].at = "start" /\ tab'[t].id = tab[t].id /\ tab'[t].rows = tab[t].rows
            BY <2>3, MovedIs DEF Places
        <3>2. Planned(tab'[t], outbox)
            BY <1>1, <3>1, PlannedMove
        <3> QED
            BY <1>0, <1>2, <2>1, <3>1, <3>2, PlannedLess
    <2> QED
        BY <1>20, <2>2, <2>3 DEF RetryQueued
<1>21. ASSUME NEW t \in Tabs, NEW k \in Keys, Discard(t, k) PROVE StoreInv'
    <2>1. /\ OneRowEach(outbox') /\ Less /\ Ids(outbox') = Ids(outbox) \ {k}
          /\ tab' = tab /\ fresh' = fresh
        BY <1>0, <1>21, WithoutIs, WithoutStore DEF Discard
    <2>2. Planned(tab[t], outbox')
        BY <1>1, <2>1, PlannedLess
    <2> QED
        BY <1>0, <1>1, <1>2, <2>1, <2>2
<1>22. ASSUME NEW r \in Requests, ServerStep(r) \/ Unheard(r) PROVE StoreInv'
    BY <1>8, <1>22 DEF ServerStep, Unheard, device
<1>23. ASSUME NEW r \in Requests, WorkerDies(r) PROVE StoreInv'
    BY <1>7, <1>8, <1>23 DEF WorkerDies
<1>24. ~SwitchCompany
    BY DEF SwitchCompany, Attended
<1> QED
    BY <1>9, <1>10, <1>11, <1>12, <1>13, <1>14, <1>15, <1>16, <1>17, <1>18, <1>19, <1>20, <1>21,
       <1>22, <1>23, <1>24
       DEF OutboxNext, TabStep

(* Nothing has been posted under the key, and no request of it can post.   *)
Untouched(k) ==
    /\ effects[k] = <<>>
    /\ \A r \in Requests : key[r] = k => ~Early(r) /\ pc[r] # "build"

(* That can only change when the receipt is sent again.                    *)
LEMMA UntouchedStays ==
    ASSUME TypeOK, NEW k \in Keys, Untouched(k),
           \/ UNCHANGED vars
           \/ \E r \in Requests : FreeSlot(r) \/ ServerStep(r)
           \/ \E r \in Requests, l \in Keys : l # k /\ Submit(r, l, Body[l])
    PROVE  Untouched(k)'
<1>0. pc \in [Requests -> Steps] /\ key \in [Requests -> Keys] /\ effects \in [Keys -> Seq(Prints)]
    BY DEF TypeOK
<1>1. CASE UNCHANGED vars
    BY <1>1 DEF vars, Untouched, Early
<1>2. ASSUME NEW r \in Requests, FreeSlot(r) PROVE Untouched(k)'
    BY <1>0, <1>2 DEF FreeSlot, Goto, Untouched, Early
<1>3. ASSUME NEW r \in Requests, NEW l \in Keys, l # k, Submit(r, l, Body[l]) PROVE Untouched(k)'
    BY <1>0, <1>3 DEF Submit, Goto, Untouched, Early
<1>4. ASSUME NEW r \in Requests, Claim(r) PROVE Untouched(k)'
    BY <1>0, <1>4 DEF Claim, Begin, Lookup, InsertAgain, Goto, Answer, Untouched, Early
<1>5. ASSUME NEW r \in Requests, NEW o \in Outcomes, Build(r, o) PROVE Untouched(k)'
    <2>1. key[r] # k
        BY <1>5 DEF Build, Untouched
    <2>2. effects'[k] = effects[k]
        BY <1>0, <1>5, <2>1 DEF Build
    <2>3. \A q \in Requests : key'[q] = k => ~Early(q)' /\ pc'[q] # "build"
        BY <1>0, <1>5 DEF Build, Goto, Untouched, Early
    <2> QED
        BY <2>2, <2>3 DEF Untouched
<1>6. ASSUME NEW r \in Requests, Settle(r) PROVE Untouched(k)'
    BY <1>0, <1>6 DEF Settle, StoreRecord, StoreFails, GiveUp, ReleaseRecord, Goto, Untouched, Early
<1> QED
    BY <1>1, <1>2, <1>3, <1>4, <1>5, <1>6 DEF ServerStep

(* A refusal means what it says: when the server refuses a receipt, for    *)
(* the first time or from a stored answer, nothing is posted under its key *)
(* and nobody else is about to.                                            *)
LEMMA RefusalIsTrue ==
    ASSUME ReceiptsAreMoney, TypeOK, IInv, Remembered, SameBody,
           NEW r \in Requests, ServerStep(r),
           pc[r] # "answered", pc'[r] = "answered", out'[r] \in Refusals,
           \A q \in Requests : Early(q)' => q = r
    PROVE  Untouched(key[r])'
<1> DEFINE k == key[r]
<1>0. /\ pc \in [Requests -> Steps] /\ out \in [Requests -> Answers]
      /\ rows \in [Keys -> Record \cup {NoRow}] /\ k \in Keys /\ Protected(k) /\ ~forgotten[k]
      /\ print[r] = Body[k] \/ pc[r] = "idle"
    BY DEF TypeOK, ReceiptsAreMoney, Remembered, SameBody
<1>1. /\ effects' = effects
      /\ effects[k] = <<>>
      /\ \A q \in Requests : q # r /\ key[q] = k => ~Holding(q)
      /\ \A q \in Requests : q # r => pc'[q] = pc[q]
      /\ key' = key
    <2>1. CASE Begin(r)
        BY <1>0, <2>1 DEF Begin, Goto
    <2>2. CASE Lookup(r)
        <3>1. ~Conflict(rows[k], print[r])
            BY <1>0, <2>2 DEF Lookup, Conflict, SameBody
        <3>2. Complete(rows[k]) /\ out'[r] = rows[k].answer /\ rows[k].answer # "ok"
            <4>1. out'[r] # "in_flight_409" /\ out'[r] # "ok"
                BY DEF Refusals
            <4> QED
                BY <1>0, <2>2, <3>1, <4>1 DEF Lookup, Answer, Goto
        <3>3. rows[k].answer # InFlight
            BY <3>2 DEF Complete, Outcomes, InFlight
        <3>4. effects[k] = <<>>
            BY <1>0, <3>2, <3>3 DEF IInv, MoneyKeepsRow, NothingYet, Complete
        <3>5. \A q \in Requests : key[q] = k => ~Holding(q)
            BY <1>0, <3>3 DEF IInv, OwnsRow
        <3>6. effects' = effects /\ key' = key /\ \A q \in Requests : q # r => pc'[q] = pc[q]
            BY <1>0, <2>2 DEF Lookup, Answer, Goto
        <3> QED
            BY <3>4, <3>5, <3>6
    <2>3. CASE InsertAgain(r)
        BY <1>0, <2>3 DEF InsertAgain, Goto, Answer, Refusals
    <2>4. ASSUME NEW o \in Outcomes, Build(r, o) PROVE FALSE
        BY <1>0, <2>4 DEF Build, Goto
    <2>5. CASE Settle(r)
        <3>1. Holding(r) /\ pc'[r] = "answered" /\ out'[r] # "fault" /\ out'[r] # "ok"
            BY <1>0, <2>5 DEF Settle, StoreRecord, StoreFails, GiveUp, ReleaseRecord, Holding, Refusals
        <3>2. \A q \in Requests : q # r /\ key[q] = k => ~Holding(q)
            BY <1>0, <3>1 DEF IInv, OwnsAlone
        <3>3. ~StoreFails(r)
            BY <1>0, <3>1 DEF StoreFails
        <3>4. pc[r] = "release" \/ (pc[r] = "settle" /\ out[r] # "ok")
            BY <2>5, <3>1, <3>3 DEF Settle, StoreRecord, GiveUp, ReleaseRecord
        <3>5. effects[k] = <<>>
            BY <1>0, <3>4 DEF IInv, CleanUntilCommit, NothingYet
        <3>6. effects' = effects /\ key' = key /\ \A q \in Requests : q # r => pc'[q] = pc[q]
            BY <1>0, <2>5 DEF Settle, StoreRecord, StoreFails, GiveUp, ReleaseRecord, Goto
        <3> QED
            BY <3>2, <3>5, <3>6
    <2> QED
        BY <2>1, <2>2, <2>3, <2>4, <2>5 DEF ServerStep, Claim
<1>2. \A q \in Requests : key'[q] = k => ~Early(q)' /\ pc'[q] # "build"
    BY <1>1 DEF Early, Holding
<1> QED
    BY <1>1, <1>2 DEF Untouched

(* The tab has been refused, or is about to hear it.                       *)
Refused(t) ==
    \/ tab[t].at = "refuse"
    \/ WaitsAt(tab[t]) /\ pc[tab[t].req] = "answered" /\ out[tab[t].req] \in Refusals

(* What is set aside, or about to be, is untouched.                        *)
AttentionInv ==
    /\ \A k \in Keys : InConflict(outbox, k) => Untouched(k)
    /\ \A t \in Tabs : Refused(t) => Untouched(tab[t].id)

(* A request that runs is not answered yet, and runs alone.                *)
LEMMA RunsAlone ==
    ASSUME TypeOK, NEW r \in Requests, ServerStep(r)
    PROVE  /\ pc[r] # "answered" /\ key' = key
           /\ \A q \in Requests : q # r => pc'[q] = pc[q] /\ out'[q] = out[q]
<1>0. pc \in [Requests -> Steps] /\ out \in [Requests -> Answers]
    BY DEF TypeOK
<1>1. CASE Claim(r)
    BY <1>0, <1>1 DEF Claim, Begin, Lookup, InsertAgain, Goto, Answer
<1>2. ASSUME NEW o \in Outcomes, Build(r, o)
      PROVE  /\ pc[r] # "answered" /\ key' = key
             /\ \A q \in Requests : q # r => pc'[q] = pc[q] /\ out'[q] = out[q]
    BY <1>0, <1>2 DEF Build, Goto
<1>3. CASE Settle(r)
    BY <1>0, <1>3 DEF Settle, StoreRecord, StoreFails, GiveUp, ReleaseRecord, Goto
<1> QED
    BY <1>1, <1>2, <1>3 DEF ServerStep

(* Every step preserves it: a row is set aside only on a refusal, and a    *)
(* refusal is true of a key nobody has touched.                            *)
LEMMA AttentionStep ==
    ASSUME Attended, TypeOK, DeviceTyped, Conversations, IInv, Remembered, SameBody, Home,
           EarlyIsHeard, EarlyIsHeard', StoreInv, AttentionInv, OutboxNext
    PROVE  AttentionInv'
<1>0. /\ outbox \in Seq(Row) /\ tab \in [Tabs -> TabStates] /\ OneRowEach(outbox)
      /\ pc \in [Requests -> Steps] /\ out \in [Requests -> Answers] /\ ReceiptsAreMoney
    BY DEF DeviceTyped, StoreInv, TypeOK, Attended
<1>1. ASSUME NEW t \in Tabs, \A k \in Keys : InConflict(outbox', k) => Untouched(k)',
             Refused(t)' => Untouched(tab[t].id)'
      PROVE  AttentionInv'
    <2>1. \A u \in Tabs : u = t
        BY DEF Attended
    <2>2. \A u \in Tabs : Refused(u)' => Untouched(tab[u].id)'
        BY <1>1, <2>1
    <2> QED
        BY <1>1, <2>2 DEF AttentionInv
<1> DEFINE Less == \A l : InConflict(outbox', l) => InConflict(outbox, l)
           Calm == UNCHANGED vars \/ \E r \in Requests : FreeSlot(r) \/ ServerStep(r)
<1>2. ASSUME Calm, NEW k \in Keys, Untouched(k) PROVE Untouched(k)'
    BY <1>2, UntouchedStays
<1>3. ASSUME Less, Calm PROVE \A k \in Keys : InConflict(outbox', k) => Untouched(k)'
    <2>1. ASSUME NEW k \in Keys, InConflict(outbox', k) PROVE Untouched(k)'
        <3>1. Untouched(k)
            BY <1>3, <2>1 DEF AttentionInv
        <3> QED
            BY <1>2, <1>3, <3>1
    <2> QED
        BY <2>1
<1>4. outbox' = outbox => Less
    OBVIOUS
<1> HIDE DEF Less, Calm
<1>5. ASSUME NEW t \in Tabs, Less, Calm, tab'[t].at \in {"idle", "start", "loop", "dispatch", "keep", "remove"}
      PROVE  AttentionInv'
    <2>1. ~Refused(t)'
        BY <1>5 DEF Refused, WaitsAt
    <2> QED
        BY <1>1, <1>3, <1>5, <2>1
<1>6. ASSUME NEW t \in Tabs, Less, Calm, Refused(t)' => Refused(t), tab'[t].id = tab[t].id
      PROVE  AttentionInv'
    <2>1. ASSUME Refused(t)' PROVE Untouched(tab[t].id)'
        <3>1. Refused(t)
            BY <1>6, <2>1
        <3>2. tab[t].id \in Keys
            BY <3>1, InHand DEF Refused, WaitsAt
        <3>3. Untouched(tab[t].id)
            BY <3>1 DEF AttentionInv
        <3>4. \A k \in Keys : Untouched(k) => Untouched(k)'
            BY <1>2, <1>6
        <3>5. PICK k \in Keys : k = tab[t].id
            BY <3>2
        <3>6. Untouched(k)'
            BY <3>3, <3>4, <3>5
        <3>7. tab'[t].id = k
            BY <1>6, <3>5
        <3> QED
            BY <3>6, <3>7 DEF Untouched, Early
    <2> QED
        BY <1>1, <1>3, <1>6, <2>1
<1>7. UNCHANGED vars => Calm
    BY DEF Calm
<1>8. ASSUME NEW r \in Requests, Deliver(r) \/ Crash(r) PROVE Calm
    BY <1>8 DEF Calm, Deliver, Crash
<1>9. ASSUME NEW t \in Tabs, tab' = [tab EXCEPT ![t] = IdleTab] PROVE tab'[t].at = "idle"
    BY <1>0, <1>9 DEF IdleTab
<1>10. ASSUME NEW t \in Tabs, Unanswered(t) PROVE tab'[t].at \in {"idle", "keep"}
    <2>1. CASE Finished(t)
        BY <1>9, <2>1 DEF Finished
    <2>2. CASE tab[t].at = "saving" /\ Move(t, "keep")
        BY <2>2, InHand, MovedIs DEF Places
    <2> QED
        BY <1>10, <2>1, <2>2 DEF Unanswered
<1>11. ASSUME NEW t \in Tabs, StartFlush(t) \/ NextRow(t) \/ LoseAnswer(t) \/ Reload(t) PROVE AttentionInv'
    <2>1. UNCHANGED vars /\ outbox' = outbox
        BY <1>11 DEF StartFlush, NextRow, LoseAnswer, Reload
    <2>2. StartFlush(t) => tab'[t].at = "loop"
        BY <1>0 DEF StartFlush
    <2>3. NextRow(t) => tab'[t].at \in {"idle", "dispatch"}
        BY <1>0, <1>9 DEF NextRow, Finished
    <2>4. LoseAnswer(t) \/ Reload(t) => tab'[t].at \in {"idle", "keep"}
        BY <1>9, <1>10 DEF LoseAnswer, Reload, Finished
    <2> QED
        BY <1>4, <1>5, <1>7, <1>11, <2>1, <2>2, <2>3, <2>4
<1>12. ASSUME NEW t \in Tabs, KeepUnanswered(t) PROVE AttentionInv'
    <2>1. tab[t].id \in Keys /\ QueueReceipt(t, tab[t].id) /\ UNCHANGED vars
        BY <1>12, InHand DEF KeepUnanswered
    <2>2. Less
        BY <1>0, <2>1, QueueReceiptStore DEF Less
    <2>3. tab'[t].at = "idle"
        BY <1>9, <1>12 DEF KeepUnanswered
    <2> QED
        BY <1>5, <1>7, <2>1, <2>2, <2>3
<1>13. ASSUME NEW t \in Tabs, Remove(t) PROVE AttentionInv'
    <2>1. Less /\ UNCHANGED vars
        BY <1>0, <1>13, WithoutStore DEF Remove, Less
    <2>2. tab'[t].at = "loop"
        BY <1>13, MovedIs DEF Remove, Places
    <2> QED
        BY <1>5, <1>7, <2>1, <2>2
<1>14. ASSUME NEW t \in Tabs, Refuse(t) PROVE AttentionInv'
    <2>1. UNCHANGED vars /\ \A l : InConflict(outbox', l) => InConflict(outbox, l) \/ l = tab[t].id
        BY <1>0, <1>14, WithStatusStore DEF Refuse
    <2>2. tab'[t].at = "loop"
        BY <1>14, MovedIs DEF Refuse, Places
    <2>3. Untouched(tab[t].id)
        BY <1>14 DEF Refuse, AttentionInv, Refused
    <2>4. \A k \in Keys : InConflict(outbox', k) => Untouched(k)
        BY <2>1, <2>3 DEF AttentionInv
    <2>5. \A k \in Keys : InConflict(outbox', k) => Untouched(k)'
        BY <1>2, <1>7, <2>1, <2>4
    <2>6. ~Refused(t)'
        BY <2>2 DEF Refused, WaitsAt
    <2> QED
        BY <1>1, <2>5, <2>6
<1>15. ASSUME NEW t \in Tabs, NEW k \in Keys, SaveOffline(t, k) \/ RetryQueued(t, k) \/ Discard(t, k)
       PROVE  AttentionInv'
    <2>1. UNCHANGED vars
        BY <1>15 DEF SaveOffline, RetryQueued, Discard
    <2>2. Less
        <3>1. SaveOffline(t, k) => Less
            BY <1>0, QueueReceiptStore DEF SaveOffline, Less
        <3>2. Discard(t, k) => Less
            BY <1>0, WithoutStore DEF Discard, Less
        <3>3. ASSUME RetryQueued(t, k) PROVE Less
            <4>1. outbox' = WithStatus(k, "queued")
                BY <3>3 DEF RetryQueued
            <4>2. \A l : InConflict(WithStatus(k, "queued"), l) => InConflict(outbox, l) \/ (l = k /\ "queued" = "conflict")
                BY <1>0, WithStatusStore
            <4> QED
                BY <4>1, <4>2 DEF Less
        <3> QED
            BY <1>15, <3>1, <3>2, <3>3
    <2>3. tab' = tab \/ tab'[t].at = "start"
        BY <1>15, MovedIs DEF SaveOffline, RetryQueued, Discard, Places
    <2>4. CASE tab' = tab
        <3>1. Refused(t)' => Refused(t)
            BY <2>1, <2>4 DEF Refused, vars
        <3> QED
            BY <1>6, <1>7, <2>1, <2>2, <2>4, <3>1
    <2> QED
        BY <1>5, <1>7, <2>1, <2>2, <2>3, <2>4
<1>16. ASSUME NEW t \in Tabs, NEW r \in Requests, NEW k \in Keys, Submit(r, k, Body[k]),
              outbox' = outbox, ~InConflict(outbox, k), WaitsAt(tab'[t]), tab'[t].req = r
       PROVE  AttentionInv'
    <2>1. ASSUME NEW l \in Keys, InConflict(outbox', l) PROVE Untouched(l)'
        <3>1. l # k /\ Untouched(l)
            BY <1>16, <2>1 DEF AttentionInv
        <3> QED
            BY <1>16, <3>1, UntouchedStays
    <2>2. pc'[r] = "begin"
        BY <1>0, <1>16 DEF Submit, Goto
    <2>3. ~Refused(t)'
        BY <1>16, <2>2 DEF Refused, WaitsAt
    <2> QED
        BY <1>1, <2>1, <2>3
<1>17. ASSUME NEW t \in Tabs, NEW r \in Requests, Dispatch(t, r) PROVE AttentionInv'
    <2>1. /\ tab[t].at = "dispatch" /\ tab'[t].at = "wait" /\ outbox' = outbox /\ tab[t].id \in Keys
        BY <1>0, <1>17, InHand DEF Dispatch, Home
    <2>2. tab'[t].req = r /\ Submit(r, tab[t].id, Body[tab[t].id])
        BY <1>17, <2>1, SendIs
    <2>3. ~InConflict(outbox, tab[t].id)
        BY <2>1 DEF StoreInv, Planned
    <2> QED
        BY <1>16, <2>1, <2>2, <2>3 DEF WaitsAt
<1>18. ASSUME NEW t \in Tabs, NEW k \in Keys, NEW r \in Requests, SaveOnline(t, k, r)
       PROVE  AttentionInv'
    <2>1. Submit(r, k, Body[k]) /\ outbox' = outbox
        BY <1>18 DEF SaveOnline
    <2>2. WaitsAt(tab'[t]) /\ tab'[t].req = r
        BY <1>0, <1>18 DEF SaveOnline, WaitsAt
    <2>3. ~InConflict(outbox, k)
        BY <1>18 DEF SaveOnline, StoreInv, FreshIsNew, Ids, InConflict
    <2> QED
        BY <1>16, <2>1, <2>2, <2>3
<1>19. ASSUME NEW t \in Tabs, SaveAnswered(t) \/ Receive(t) PROVE AttentionInv'
    <2>1. /\ tab[t].req \in Requests /\ Deliver(tab[t].req) /\ outbox' = outbox
          /\ pc[tab[t].req] = "answered" /\ WaitsAt(tab[t]) /\ tab[t].id \in Keys
        BY <1>19, InHand DEF SaveAnswered, Receive, WaitsAt, Deliver
    <2>2. Calm /\ Less
        BY <1>4, <1>8, <2>1
    <2>3. CASE out[tab[t].req] \in Refusals /\ Move(t, "refuse")
        <3>1. Refused(t)
            BY <2>1, <2>3 DEF Refused
        <3>2. tab'[t].id = tab[t].id
            BY <2>1, <2>3, MovedIs DEF Places
        <3> QED
            BY <1>6, <2>2, <3>1, <3>2
    <2>4. CASE ~(out[tab[t].req] \in Refusals /\ Move(t, "refuse"))
        <3>1. SaveAnswered(t) => tab'[t].at = "idle"
            BY <1>9 DEF SaveAnswered
        <3>2. Receive(t) => Move(t, "remove") \/ Finished(t)
            BY <2>4 DEF Receive
        <3>3. Receive(t) => tab'[t].at \in {"idle", "remove"}
            BY <1>9, <2>1, <3>2, MovedIs DEF Finished, Places
        <3> QED
            BY <1>5, <1>19, <2>2, <3>1, <3>3
    <2> QED
        BY <2>3, <2>4
<1>20. ASSUME NEW t \in Tabs, NEW r \in Requests, ServerStep(r) PROVE AttentionInv'
    <2>1. /\ tab' = tab /\ outbox' = outbox
          /\ pc[r] # "answered" /\ key' = key
          /\ \A q \in Requests : q # r => pc'[q] = pc[q] /\ out'[q] = out[q]
        BY <1>20, RunsAlone DEF ServerStep, device
    <2>2. Calm /\ Less
        BY <1>4, <1>20, <2>1 DEF Calm
    <2>3. CASE Refused(t)' => Refused(t)
        BY <1>6, <2>1, <2>2, <2>3
    <2>4. CASE Refused(t)' /\ ~Refused(t)
        <3>1. /\ WaitsAt(tab[t]) /\ pc'[tab[t].req] = "answered" /\ out'[tab[t].req] \in Refusals
              /\ tab[t].req \in Requests
            BY <2>1, <2>4, InHand DEF Refused
        <3>2. tab[t].req = r
            BY <2>1, <2>4, <3>1 DEF Refused
        <3>3. key[r] = tab[t].id
            BY <3>1, <3>2 DEF Conversations, HearsItsOwn
        <3>4. \A q \in Requests : Early(q)' => q = r
            BY <2>1, <3>2 DEF EarlyIsHeard, Waiting, Attended
        <3>5. Untouched(key[r])'
            BY <1>0, <1>20, <2>1, <3>1, <3>2, <3>4, RefusalIsTrue
        <3>6. key[r]' = tab'[t].id
            BY <2>1, <3>3
        <3>7. Untouched(tab[t].id)'
            BY <3>5, <3>6 DEF Untouched, Early
        <3> QED
            BY <1>1, <1>3, <2>2, <3>7
    <2> QED
        BY <2>3, <2>4
<1>21. ASSUME NEW t \in Tabs, NEW r \in Requests, WorkerDies(r) \/ Unheard(r) PROVE AttentionInv'
    <2>1. FreeSlot(r) /\ Calm /\ outbox' = outbox
        BY <1>8, <1>21 DEF WorkerDies, Unheard, Crash, Deliver, device
    <2>2. CASE tab' = tab /\ ~Waiting(t, r)
        <3>1. \A q \in Requests : q # r => pc'[q] = pc[q] /\ out'[q] = out[q]
            BY <1>0, <2>1 DEF FreeSlot, Goto
        <3>2. WaitsAt(tab[t]) => tab[t].req \in Requests /\ tab[t].req # r
            BY <2>2, InHand DEF Waiting, WaitsAt
        <3>3. Refused(t)' => Refused(t)
            BY <2>2, <3>1, <3>2 DEF Refused
        <3> QED
            BY <1>4, <1>6, <2>1, <2>2, <3>3
    <2>3. CASE \E u \in Tabs : Unanswered(u)
        <3>1. PICK u \in Tabs : Unanswered(u)
            BY <2>3
        <3> QED
            BY <1>4, <1>5, <1>10, <2>1, <3>1
    <2> QED
        BY <1>21, <2>2, <2>3 DEF WorkerDies, Unheard, device
<1>22. ~SwitchCompany
    BY DEF SwitchCompany, Attended
<1>23. ASSUME NEW t \in Tabs PROVE AttentionInv'
    BY <1>11, <1>12, <1>13, <1>14, <1>15, <1>17, <1>18, <1>19, <1>20, <1>21, <1>22, <1>23
       DEF OutboxNext, TabStep
<1>24. CASE Tabs = {}
    <2>1. PICK r \in Requests : ServerStep(r) \/ WorkerDies(r) \/ Unheard(r)
        BY <1>22, <1>24 DEF OutboxNext
    <2>2. Calm /\ outbox' = outbox
        BY <1>8, <1>24, <2>1 DEF ServerStep, WorkerDies, Unheard, device, Calm
    <2> QED
        BY <1>3, <1>4, <1>24, <2>2 DEF AttentionInv
<1> QED
    BY <1>23, <1>24

(* No request is given up on before the server has taken it up.            *)
LEMMA EarlyStays == Attended => (OutboxSpec => []EarlyIsHeard)
<1> SUFFICES ASSUME Attended PROVE OutboxSpec => []EarlyIsHeard
    OBVIOUS
<1>1. OutboxInit => EarlyIsHeard
    BY DEF OutboxInit, Init, EarlyIsHeard, Early
<1>2. TypeOK /\ DeviceTyped /\ EarlyIsHeard /\ [OutboxNext]_allVars => EarlyIsHeard'
    <2>1. EarlyIsHeard /\ UNCHANGED allVars => EarlyIsHeard'
        BY DEF allVars, device, vars, EarlyIsHeard, Early, Waiting
    <2> QED
        BY <2>1, EarlyStep
<1> QED
    BY <1>1, <1>2, DeviceIsTyped, ServerIsIdempotency, TypeCorrect, PTL DEF OutboxSpec

(* The store and the plans of the tab stay consistent with each other.     *)
LEMMA StoreStays == Attended => (OutboxSpec => []StoreInv)
<1> SUFFICES ASSUME Attended PROVE OutboxSpec => []StoreInv
    OBVIOUS
<1>1. OutboxInit => StoreInv
    <2> SUFFICES ASSUME OutboxInit PROVE StoreInv
        OBVIOUS
    <2>1. outbox = <<>> /\ Len(outbox) = 0 /\ \A t \in Tabs : tab[t] = IdleTab
        BY DEF OutboxInit
    <2>2. IdleTab.rows = <<>> /\ IdleTab.at = "idle"
        BY DEF IdleTab
    <2>3. \A t \in Tabs : Planned(tab[t], outbox)
        BY <2>1, <2>2, PlannedIdle
    <2> QED
        BY <2>1, <2>2, <2>3 DEF StoreInv, OneRowEach, FreshIsNew, Ids
<1>2. DeviceTyped /\ Home /\ StoreInv /\ [OutboxNext]_allVars => StoreInv'
    <2>1. StoreInv /\ UNCHANGED allVars => StoreInv'
        BY DEF allVars, device, StoreInv, FreshIsNew
    <2> QED
        BY <2>1, StoreStep
<1>3. OutboxSpec => []Home
    BY StaysHome DEF Attended
<1> QED
    BY <1>1, <1>2, <1>3, DeviceIsTyped, PTL DEF OutboxSpec

(* "Needs attention" can be trusted: a receipt listed there has not been   *)
(* posted, so a person may discard it or enter it again.  For any number   *)
(* of receipts and requests, with lost answers, reloads, dying workers and *)
(* failing answer writes.                                                  *)
(* TLC refutes it with a second tab, with overtaking, and with a switch of *)
(* company, so none of these conditions of Attended can be dropped.        *)
THEOREM AttentionIsHonest == Attended => (OutboxSpec => []AttentionMeansUnposted)
<1> SUFFICES ASSUME Attended PROVE OutboxSpec => []AttentionMeansUnposted
    OBVIOUS
<1>1. OutboxInit => AttentionInv
    <2> SUFFICES ASSUME OutboxInit PROVE AttentionInv
        OBVIOUS
    <2>1. outbox = <<>> /\ Len(outbox) = 0 /\ \A t \in Tabs : tab[t] = IdleTab
        BY DEF OutboxInit
    <2> QED
        BY <2>1 DEF AttentionInv, InConflict, Refused, IdleTab, WaitsAt
<1>2. /\ TypeOK /\ DeviceTyped /\ Conversations /\ IInv /\ Remembered /\ SameBody /\ Home
      /\ EarlyIsHeard /\ EarlyIsHeard' /\ StoreInv /\ AttentionInv /\ [OutboxNext]_allVars
      => AttentionInv'
    <2>1. AttentionInv /\ UNCHANGED allVars => AttentionInv'
        BY DEF allVars, device, vars, AttentionInv, Refused, Untouched, Early
    <2> QED
        BY <2>1, AttentionStep
<1>3. DeviceTyped /\ AttentionInv => AttentionMeansUnposted
    <2> SUFFICES ASSUME DeviceTyped, AttentionInv, NEW i \in 1 .. Len(outbox),
                        outbox[i].status = "conflict"
                 PROVE  effects[outbox[i].id] = <<>>
        BY DEF AttentionMeansUnposted
    <2>1. outbox[i] \in Row
        BY DEF DeviceTyped
    <2>2. outbox[i].id \in Keys /\ InConflict(outbox, outbox[i].id)
        BY <2>1 DEF Row, InConflict
    <2> QED
        BY <2>2 DEF AttentionInv, Untouched
<1>4. (OutboxSpec => []Home) /\ (OutboxSpec => []EarlyIsHeard) /\ (OutboxSpec => []StoreInv)
    BY StaysHome, EarlyStays, StoreStays DEF Attended
<1> QED
    BY <1>1, <1>2, <1>3, <1>4, DeviceIsTyped, TabsHearTheirOwn, NothingForgotten, BodiesStay,
       ServerIsIdempotency, TypeCorrect, Inductive, PTL
       DEF OutboxSpec

=============================================================================
