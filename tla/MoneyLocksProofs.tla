-------------------------- MODULE MoneyLocksProofs --------------------------
(***************************************************************************)
(* MoneyLocks implements MoneyLedger: for any number of receipts, invoices *)
(* and concurrent calls, every commit is one atomic step of the ledger and *)
(* leaves it sound.                                                        *)
(*                                                                         *)
(* The argument is rely and guarantee.  While a call has locked a receipt  *)
(* or an invoice, the others may lower its allocations (reverse_allocation *)
(* locks the allocation only) but change nothing else of it; so what the   *)
(* call read under its locks errs on the safe side when it commits.        *)
(***************************************************************************)
EXTENDS MoneyLocks, SumsProofs, TLAPS

(* What an allocation, a refund or a credit note may amount to.            *)
Amounts == UNION ({0 .. Cash[r] : r \in Receipts} \cup {0 .. Bill[i] : i \in Invoices})

Ops == {"none", "allocate", "bulk", "clear", "void", "reverse", "cancel", "refund", "unrefund", "credit"}

Spending == {"allocate", "bulk", "clear"}

Steps == {"idle", "receipt", "check", "insert", "next", "clear", "void", "erase", "reverse",
          "cancel", "refund", "unrefund", "credit", "peel", "commit"}

Grid == [Receipts -> [Invoices -> Amounts]]
Writes == [Receipts -> [Invoices -> Amounts \cup {None}]]

CallType ==
    [op : Ops, pc : Steps, r : Receipts \cup {None}, i : Invoices \cup {None},
     x : Nat, take : Nat, rest : Nat, need : SUBSET Rows, plan : Seq(Invoices),
     writes : Writes]

LocksTyped ==
    /\ posted \in [Receipts -> BOOLEAN] /\ open \in [Invoices -> BOOLEAN]
    /\ refunds \in [Receipts -> Amounts] /\ credit \in [Invoices -> Amounts]
    /\ live \in Grid
    /\ owner \in [Rows -> Txns \cup {None}]
    /\ txn \in [Txns -> CallType]

-----------------------------------------------------------------------------
Column(M, i) == [r \in Receipts |-> M[r][i]]

Uses(t, r) == refunds[r] + Sum(Seen(t)[r])
Covers(t, i) == credit[i] + Sum(Column(Seen(t), i))

Mine(t, row) == owner[row] = t
Coming(t, row) == Mine(t, row) \/ row \in txn[t].need

(* A call writes only allocations it has locked, and raises one only under *)
(* the locks of a posted receipt and an open invoice.                      *)
WritesLocked(t) ==
    \A r \in Receipts, i \in Invoices :
        LET w == txn[t].writes[r][i] IN
        w # None => /\ Mine(t, <<r, i>>)
                    /\ w > live[r][i] => Mine(t, r) /\ Mine(t, i) /\ posted[r] /\ open[i]

(* The ledger would be within its limits if the call committed its writes. *)
WritesFit(t) ==
    /\ \A r \in Receipts : Uses(t, r) <= Cash[r]
    /\ \A i \in Invoices : Covers(t, i) <= Bill[i]

(* allocate_receipt, wherever it is called from.                           *)
AllocationOK(t) ==
    LET c == txn[t] IN
    /\ c.pc \in {"receipt", "check", "insert"} => c.r \in Receipts /\ c.i \in Invoices
    /\ c.pc = "receipt" => Coming(t, c.i)
    /\ c.pc = "check" => Mine(t, c.i) /\ Coming(t, c.r)
    /\ c.pc = "insert" => /\ Mine(t, c.i) /\ Mine(t, c.r) /\ Coming(t, <<c.r, c.i>>)
                          /\ open[c.i] /\ posted[c.r]
                          /\ Uses(t, c.r) + c.take <= Cash[c.r]
                          /\ Covers(t, c.i) + c.take <= Bill[c.i]

(* allocate_receipt, its bulk form and the clearing of a cheque.           *)
SpendingOK(t) ==
    LET c == txn[t] IN
    c.op \in Spending =>
        /\ c.r \in Receipts
        /\ c.pc \in {"receipt", "check", "insert", "next", "clear", "commit"}
        /\ \A q \in Receipts, i \in Invoices : c.writes[q][i] # None => q = c.r
        /\ c.op = "clear" => Coming(t, c.r)
        /\ c.pc = "clear" => c.op = "clear" /\ c.writes = NoWrites

VoidOK(t) ==
    LET c == txn[t] IN
    c.op = "void" =>
        /\ c.r \in Receipts /\ c.pc \in {"void", "erase", "commit"} /\ Coming(t, c.r)
        /\ c.pc # "commit" => c.writes = NoWrites
        /\ c.pc # "void" => Mine(t, c.r) /\ refunds[c.r] = 0
        /\ c.pc = "erase" => \A j \in Invoices : live[c.r][j] > 0 => Coming(t, <<c.r, j>>)
        /\ c.pc = "commit" => /\ \A j \in Invoices : Seen(t)[c.r][j] = 0
                              /\ \A q \in Receipts \ {c.r}, j \in Invoices : c.writes[q][j] = None

ReverseOK(t) ==
    LET c == txn[t] IN
    c.op = "reverse" =>
        /\ c.r \in Receipts /\ c.i \in Invoices /\ c.pc \in {"reverse", "commit"}
        /\ c.pc = "reverse" => c.writes = NoWrites /\ Coming(t, <<c.r, c.i>>)
        /\ \A q \in Receipts, j \in Invoices : c.writes[q][j] # None => q = c.r /\ j = c.i /\ c.writes[q][j] = 0

(* The calls that are checked once, under one lock.                        *)
DecisionOK(t) ==
    LET c == txn[t] IN
    /\ c.op \in {"refund", "unrefund"} =>
          /\ c.r \in Receipts /\ c.pc \in {c.op, "commit"} /\ c.writes = NoWrites /\ Coming(t, c.r)
          /\ c.pc = "commit" => Mine(t, c.r) /\ posted[c.r]
    /\ c.op = "refund" /\ c.pc = "commit" => Uses(t, c.r) + c.x <= Cash[c.r]
    /\ c.op = "unrefund" /\ c.pc = "commit" => c.x <= refunds[c.r]
    /\ c.op = "cancel" =>
          /\ c.i \in Invoices /\ c.pc \in {"cancel", "commit"} /\ c.writes = NoWrites /\ Coming(t, c.i)
          /\ c.pc = "commit" => Mine(t, c.i) /\ credit[c.i] = 0 /\ \A r \in Receipts : live[r][c.i] = 0

(* complete_credit_note: rest is what is still to be peeled off.           *)
CreditOK(t) ==
    LET c == txn[t] IN
    c.op = "credit" =>
        /\ c.i \in Invoices /\ c.pc \in {"credit", "peel", "receipt", "check", "insert", "commit"}
        /\ c.pc = "credit" => c.writes = NoWrites /\ Coming(t, c.i)
        /\ c.pc # "credit" => Mine(t, c.i) /\ open[c.i] /\ credit[c.i] + c.x <= Bill[c.i]
        /\ \A q \in Receipts, j \in Invoices : c.writes[q][j] # None => j = c.i /\ c.writes[q][j] <= live[q][j]
        /\ c.pc = "peel" =>
              /\ Covers(t, c.i) + c.x <= Bill[c.i] + c.rest
              /\ c.rest > 0 => \A q \in Receipts : /\ live[q][c.i] > 0 => Coming(t, <<q, c.i>>)
                                                   /\ c.writes[q][c.i] \in {None, 0}
        /\ c.pc \in {"receipt", "check", "insert"} =>
              /\ Mine(t, <<c.r, c.i>>) /\ c.writes[c.r][c.i] = 0 /\ c.take <= live[c.r][c.i]
              /\ c.rest = 0 /\ Covers(t, c.i) + c.x + c.take <= Bill[c.i]
        /\ c.pc = "commit" => Covers(t, c.i) + c.x <= Bill[c.i]

CallOK(t) ==
    /\ WritesLocked(t) /\ WritesFit(t)
    /\ AllocationOK(t) /\ SpendingOK(t) /\ VoidOK(t) /\ ReverseOK(t) /\ DecisionOK(t) /\ CreditOK(t)
    /\ txn[t].op = "none" => txn[t] = Idle
    /\ txn[t].pc = "idle" => txn[t].op = "none"

IInv == LocksTyped /\ LedgerSound /\ \A t \in Txns : CallOK(t)

-----------------------------------------------------------------------------
(* Amounts are an initial segment of the naturals.                         *)
LEMMA AmountFacts ==
    /\ Amounts \subseteq Nat
    /\ \A r \in Receipts : Cash[r] \in Nat /\ 0 .. Cash[r] \subseteq Amounts
    /\ \A i \in Invoices : Bill[i] \in Nat /\ 0 .. Bill[i] \subseteq Amounts
    /\ \A a \in Amounts : \A b \in Nat : b <= a => b \in Amounts
    /\ Receipts # {} \/ Invoices # {} => 0 \in Amounts
    /\ None \notin Amounts
<1>1. /\ \A r \in Receipts : Cash[r] \in Nat /\ 0 .. Cash[r] \subseteq Amounts
      /\ \A i \in Invoices : Bill[i] \in Nat /\ 0 .. Bill[i] \subseteq Amounts
  BY LocksAssumption DEF Amounts
<1>2. ASSUME NEW a \in Amounts
      PROVE  (\E r \in Receipts : a \in 0 .. Cash[r]) \/ (\E i \in Invoices : a \in 0 .. Bill[i])
  BY DEF Amounts
<1>3. ASSUME NEW a \in Amounts
      PROVE  a \in Nat /\ \A b \in Nat : b <= a => b \in Amounts
  <2>1. CASE \E r \in Receipts : a \in 0 .. Cash[r]
    BY <1>1, <2>1
  <2>2. CASE \E i \in Invoices : a \in 0 .. Bill[i]
    BY <1>1, <2>2
  <2> QED BY <1>2, <2>1, <2>2
<1>4. Receipts # {} \/ Invoices # {} => 0 \in Amounts
  BY <1>1
<1> QED BY <1>1, <1>3, <1>4, LocksAssumption

(* Allocations add up.                                                     *)
LEMMA SumFacts ==
    \A D \in {Receipts, Invoices} :
        /\ Sum([d \in D |-> 0]) = 0
        /\ \A f \in [D -> Amounts] :
              /\ Sum(f) \in Nat
              /\ \A d \in D : f[d] <= Sum(f)
              /\ \A d \in D, v \in Amounts : Sum([f EXCEPT ![d] = v]) = Sum(f) - f[d] + v
              /\ \A g \in [D -> Amounts] : (\A d \in D : g[d] <= f[d]) => Sum(g) <= Sum(f)
<1>1. \A D \in {Receipts, Invoices} : IsFiniteSet(D)
  BY LocksAssumption
<1>2. Amounts \subseteq Nat
  BY AmountFacts
<1>3. \A D \in {Receipts, Invoices} : AddsUp(D, Amounts)
  BY <1>1, <1>2, NaturalSums
<1> QED BY <1>3 DEF AddsUp

LEMMA RowSum ==
    ASSUME NEW f \in [Invoices -> Amounts]
    PROVE  /\ Sum(f) \in Nat
           /\ \A i \in Invoices : f[i] <= Sum(f)
           /\ \A i \in Invoices, v \in Amounts : Sum([f EXCEPT ![i] = v]) = Sum(f) - f[i] + v
           /\ \A g \in [Invoices -> Amounts] : (\A i \in Invoices : g[i] <= f[i]) => Sum(g) <= Sum(f)
BY SumFacts

LEMMA ColumnSum ==
    ASSUME NEW f \in [Receipts -> Amounts]
    PROVE  /\ Sum(f) \in Nat
           /\ \A r \in Receipts : f[r] <= Sum(f)
           /\ \A r \in Receipts, v \in Amounts : Sum([f EXCEPT ![r] = v]) = Sum(f) - f[r] + v
           /\ \A g \in [Receipts -> Amounts] : (\A r \in Receipts : g[r] <= f[r]) => Sum(g) <= Sum(f)
BY SumFacts

LEMMA ZeroSums ==
    Sum([i \in Invoices |-> 0]) = 0 /\ Sum([r \in Receipts |-> 0]) = 0
BY SumFacts

(* Sums over the rows and columns of a table of allocations.               *)
LEMMA GridSums ==
    ASSUME NEW M \in Grid
    PROVE  /\ \A r \in Receipts : M[r] \in [Invoices -> Amounts] /\ Sum(M[r]) \in Nat
           /\ \A i \in Invoices : Column(M, i) \in [Receipts -> Amounts] /\ Sum(Column(M, i)) \in Nat
           /\ \A r \in Receipts, i \in Invoices :
                 /\ M[r][i] \in Nat /\ M[r][i] <= Sum(M[r]) /\ M[r][i] <= Sum(Column(M, i))
                 /\ Column(M, i)[r] = M[r][i]
<1>1. /\ \A r \in Receipts : M[r] \in [Invoices -> Amounts]
      /\ \A i \in Invoices : Column(M, i) \in [Receipts -> Amounts]
      /\ \A r \in Receipts, i \in Invoices : Column(M, i)[r] = M[r][i] /\ M[r][i] \in Amounts
  BY DEF Grid, Column
<1>2. \A r \in Receipts : Sum(M[r]) \in Nat /\ \A i \in Invoices : M[r][i] <= Sum(M[r])
  BY <1>1, RowSum
<1>3. \A i \in Invoices : Sum(Column(M, i)) \in Nat /\ \A r \in Receipts : Column(M, i)[r] <= Sum(Column(M, i))
  BY <1>1, ColumnSum
<1> QED BY <1>1, <1>2, <1>3, AmountFacts

(* A table with lower entries has lower sums.                              *)
LEMMA GridLower ==
    ASSUME NEW M \in Grid, NEW N \in Grid
    PROVE  /\ \A r \in Receipts : (\A i \in Invoices : N[r][i] <= M[r][i]) => Sum(N[r]) <= Sum(M[r])
           /\ \A i \in Invoices : (\A r \in Receipts : N[r][i] <= M[r][i]) => Sum(Column(N, i)) <= Sum(Column(M, i))
<1>1. ASSUME NEW r \in Receipts, \A i \in Invoices : N[r][i] <= M[r][i] PROVE Sum(N[r]) <= Sum(M[r])
  BY <1>1, GridSums, RowSum
<1>2. ASSUME NEW i \in Invoices, \A r \in Receipts : N[r][i] <= M[r][i] PROVE Sum(Column(N, i)) <= Sum(Column(M, i))
  <2>1. \A r \in Receipts : Column(N, i)[r] <= Column(M, i)[r]
    BY <1>2, GridSums
  <2> QED BY <2>1, GridSums, ColumnSum
<1> QED BY <1>1, <1>2

(* One entry of the table is changed.                                      *)
LEMMA GridChange ==
    ASSUME NEW M \in Grid, NEW N \in Grid, NEW r \in Receipts, NEW i \in Invoices, NEW v \in Amounts,
           N[r][i] = v,
           \A q \in Receipts, j \in Invoices : <<q, j>> # <<r, i>> => N[q][j] = M[q][j]
    PROVE  /\ Sum(N[r]) = Sum(M[r]) - M[r][i] + v
           /\ Sum(Column(N, i)) = Sum(Column(M, i)) - M[r][i] + v
           /\ \A q \in Receipts \ {r} : N[q] = M[q]
           /\ \A j \in Invoices \ {i} : Column(N, j) = Column(M, j)
<1>1. N[r] = [M[r] EXCEPT ![i] = v]
  BY DEF Grid
<1>2. Column(N, i) = [Column(M, i) EXCEPT ![r] = v]
  BY DEF Grid, Column
<1>3. Sum(N[r]) = Sum(M[r]) - M[r][i] + v
  <2> DEFINE f == M[r]
  <2>1. f \in [Invoices -> Amounts]
    BY GridSums
  <2> HIDE DEF f
  <2>2. Sum([f EXCEPT ![i] = v]) = Sum(f) - f[i] + v
    BY <2>1, RowSum
  <2> QED BY <1>1, <2>2 DEF f
<1>4. Sum(Column(N, i)) = Sum(Column(M, i)) - Column(M, i)[r] + v
  <2> DEFINE f == Column(M, i)
  <2>1. f \in [Receipts -> Amounts]
    BY GridSums
  <2> HIDE DEF f
  <2>2. Sum([f EXCEPT ![r] = v]) = Sum(f) - f[r] + v
    BY <2>1, ColumnSum
  <2> QED BY <1>2, <2>2 DEF f
<1>5. \A q \in Receipts \ {r} : N[q] = M[q]
  <2> TAKE q \in Receipts \ {r}
  <2>1. N[q] \in [Invoices -> Amounts] /\ M[q] \in [Invoices -> Amounts]
    BY DEF Grid
  <2>2. \A j \in Invoices : N[q][j] = M[q][j]
    OBVIOUS
  <2> QED BY <2>1, <2>2
<1>6. \A j \in Invoices \ {i} : Column(N, j) = Column(M, j)
  BY DEF Grid, Column
<1> QED BY <1>3, <1>4, <1>5, <1>6, GridSums

(* What a call sees is a table.                                            *)
LEMMA SeenTyped ==
    ASSUME live \in Grid, NEW w \in Writes
    PROVE  /\ Merged(w) \in Grid
           /\ \A r \in Receipts, i \in Invoices :
                 Merged(w)[r][i] = IF w[r][i] = None THEN live[r][i] ELSE w[r][i]
BY DEF Merged, Grid, Writes

LEMMA NoWritesTyped ==
    /\ NoWrites \in Writes
    /\ \A r \in Receipts, i \in Invoices : NoWrites[r][i] = None
BY DEF NoWrites, Writes

LEMMA NoWritesMerged ==
    ASSUME live \in Grid PROVE Merged(NoWrites) = live
BY DEF Merged, NoWrites, Grid

LEMMA IdleTyped == Idle \in CallType
BY NoWritesTyped DEF Idle, CallType, Ops, Steps

LEMMA SoundMeans ==
    LedgerSound <=>
        /\ \A r \in Receipts : refunds[r] + Sum(live[r]) <= Cash[r]
        /\ \A i \in Invoices : credit[i] + Sum(Column(live, i)) <= Bill[i]
        /\ \A r \in Receipts, i \in Invoices : live[r][i] > 0 => posted[r] /\ open[i]
BY DEF LedgerSound, Ledger!Sound, Ledger!Spent, Ledger!Taken, Column

LEMMA SoundMeansNext ==
    LedgerSound' <=>
        /\ \A r \in Receipts : refunds'[r] + Sum(live'[r]) <= Cash[r]
        /\ \A i \in Invoices : credit'[i] + Sum(Column(live', i)) <= Bill[i]
        /\ \A r \in Receipts, i \in Invoices : live'[r][i] > 0 => posted'[r] /\ open'[i]
BY DEF LedgerSound, Ledger!Sound, Ledger!Spent, Ledger!Taken, Column

(* Numbers and rows of a call.                                             *)
CallFacts(t) ==
    /\ txn[t].writes \in Writes /\ Seen(t) \in Grid
    /\ txn[t].x \in Nat /\ txn[t].take \in Nat /\ txn[t].rest \in Nat
    /\ \A r \in Receipts, i \in Invoices :
          /\ Seen(t)[r][i] \in Nat /\ live[r][i] \in Nat
          /\ Seen(t)[r][i] = IF txn[t].writes[r][i] = None THEN live[r][i] ELSE txn[t].writes[r][i]
    /\ \A r \in Receipts : Uses(t, r) \in Nat /\ refunds[r] \in Nat
    /\ \A i \in Invoices : Covers(t, i) \in Nat /\ credit[i] \in Nat

LEMMA Limits ==
    /\ \A r \in Receipts : r \in Rows /\ Cash[r] \in Nat
    /\ \A i \in Invoices : i \in Rows /\ Bill[i] \in Nat
    /\ \A r \in Receipts, i \in Invoices : <<r, i>> \in Rows /\ <<r, i>> # r /\ <<r, i>> # i /\ r # i
    /\ None \notin Txns /\ None \notin Nat
BY LocksAssumption DEF Rows, Slots

LEMMA CallTyped == LocksTyped => \A t \in Txns : CallFacts(t)
<1> SUFFICES ASSUME LocksTyped, NEW t \in Txns PROVE CallFacts(t)
  OBVIOUS
<1>1. /\ txn[t].writes \in Writes /\ txn[t].x \in Nat /\ txn[t].take \in Nat /\ txn[t].rest \in Nat
      /\ live \in Grid /\ refunds \in [Receipts -> Amounts] /\ credit \in [Invoices -> Amounts]
  BY DEF LocksTyped, CallType
<1>2. /\ Seen(t) \in Grid
      /\ \A r \in Receipts, i \in Invoices :
            Seen(t)[r][i] = IF txn[t].writes[r][i] = None THEN live[r][i] ELSE txn[t].writes[r][i]
  BY <1>1, SeenTyped DEF Seen
<1>3. \A r \in Receipts, i \in Invoices : Seen(t)[r][i] \in Nat /\ live[r][i] \in Nat
  BY <1>1, <1>2, GridSums
<1>4. /\ \A r \in Receipts : refunds[r] \in Nat /\ Cash[r] \in Nat /\ Sum(Seen(t)[r]) \in Nat
      /\ \A i \in Invoices : credit[i] \in Nat /\ Bill[i] \in Nat /\ Sum(Column(Seen(t), i)) \in Nat
  BY <1>1, <1>2, AmountFacts, GridSums
<1>5. /\ \A r \in Receipts : Uses(t, r) \in Nat
      /\ \A i \in Invoices : Covers(t, i) \in Nat
  BY <1>4 DEF Uses, Covers
<1> QED BY <1>1, <1>2, <1>3, <1>4, <1>5 DEF CallFacts

LEMMA CallTypedNext == LocksTyped' => \A t \in Txns : CallFacts(t)'
<1>1. LocksTyped' => (\A t \in Txns : CallFacts(t))'
  BY CallTyped, PTL
<1> QED BY <1>1

(* What a call may rely on while others commit: for rows it has locked     *)
(* nothing changes but allocations that get smaller.                       *)
Rely(u) ==
    /\ \A row \in Rows : owner[row] = u => owner'[row] = u
    /\ \A r \in Receipts : owner[r] = u =>
          /\ posted'[r] = posted[r] /\ refunds'[r] = refunds[r]
          /\ \A i \in Invoices : live'[r][i] <= live[r][i]
    /\ \A i \in Invoices : owner[i] = u =>
          /\ open'[i] = open[i] /\ credit'[i] = credit[i]
          /\ \A r \in Receipts : live'[r][i] <= live[r][i]
    /\ \A r \in Receipts, i \in Invoices : owner[<<r, i>>] = u => live'[r][i] = live[r][i]

LEMMA RelyKeepsCall ==
    ASSUME LocksTyped, LocksTyped', LedgerSound', NEW u \in Txns, CallOK(u), txn'[u] = txn[u], Rely(u)
    PROVE  CallOK(u)'
<1> DEFINE w == txn[u].writes
           M == Seen(u)
           N == Seen(u)'
<1>1. CallFacts(u) /\ CallFacts(u)'
  BY CallTyped, CallTypedNext
<1>2. /\ M \in Grid /\ N \in Grid /\ live' \in Grid
      /\ \A r \in Receipts, i \in Invoices :
            /\ M[r][i] \in Nat /\ live[r][i] \in Nat /\ N[r][i] \in Nat /\ live'[r][i] \in Nat
            /\ M[r][i] = IF w[r][i] = None THEN live[r][i] ELSE w[r][i]
            /\ N[r][i] = IF w[r][i] = None THEN live'[r][i] ELSE w[r][i]
  BY <1>1 DEF CallFacts, LocksTyped
<1>3. /\ \A r \in Receipts : Uses(u, r) = refunds[r] + Sum(M[r]) /\ Uses(u, r)' = refunds'[r] + Sum(N[r])
      /\ \A i \in Invoices : Covers(u, i) = credit[i] + Sum(Column(M, i)) /\ Covers(u, i)' = credit'[i] + Sum(Column(N, i))
  BY DEF Uses, Covers, Column
<1> HIDE DEF M, N
<1>4. \A r \in Receipts : Sum(M[r]) \in Nat /\ Sum(N[r]) \in Nat /\ Sum(live'[r]) \in Nat
  BY <1>2, GridSums
<1>5. \A i \in Invoices : Sum(Column(M, i)) \in Nat /\ Sum(Column(N, i)) \in Nat /\ Sum(Column(live', i)) \in Nat
  BY <1>2, GridSums
<1>6. ASSUME NEW r \in Receipts, owner[r] = u PROVE Uses(u, r)' <= Uses(u, r)
  <2>1. \A i \in Invoices : N[r][i] <= M[r][i]
    BY <1>2, <1>6 DEF Rely
  <2>2. Sum(N[r]) <= Sum(M[r])
    BY <1>2, <2>1, GridLower
  <2> QED BY <1>1, <1>3, <1>4, <1>6, <2>2 DEF Rely, CallFacts
<1>7. ASSUME NEW i \in Invoices, owner[i] = u PROVE Covers(u, i)' <= Covers(u, i)
  <2>1. \A r \in Receipts : N[r][i] <= M[r][i]
    BY <1>2, <1>7 DEF Rely
  <2>2. Sum(Column(N, i)) <= Sum(Column(M, i))
    BY <1>2, <2>1, GridLower
  <2> QED BY <1>1, <1>3, <1>5, <1>7, <2>2 DEF Rely, CallFacts
<1>w. ASSUME NEW r \in Receipts, NEW i \in Invoices, w[r][i] # None
      PROVE  /\ owner[<<r, i>>] = u /\ live'[r][i] = live[r][i] /\ w[r][i] \in Nat
             /\ w[r][i] > live[r][i] => owner[r] = u /\ owner[i] = u
  BY <1>2, <1>w DEF CallOK, WritesLocked, Mine, Rely
<1>8. WritesLocked(u)'
  BY <1>2, Limits DEF WritesLocked, CallOK, Mine, Rely
<1>9. WritesFit(u)'
  <2>1. ASSUME NEW r \in Receipts PROVE Uses(u, r)' <= Cash[r]
    <3>1. CASE owner[r] = u
      BY <1>1, <1>6, <2>1, <3>1, Limits DEF CallOK, WritesFit, CallFacts
    <3>2. CASE owner[r] # u
      <4>1. ASSUME NEW i \in Invoices PROVE N[r][i] <= live'[r][i]
        <5>1. CASE w[r][i] = None
          BY <1>2, <5>1
        <5>2. CASE w[r][i] # None
          <6>1. N[r][i] = w[r][i] /\ live'[r][i] = live[r][i] /\ ~(w[r][i] > live[r][i])
            BY <1>2, <1>w, <3>2, <5>2
          <6> QED BY <1>2, <6>1
        <5> QED BY <5>1, <5>2
      <4>2. Sum(N[r]) <= Sum(live'[r])
        BY <1>2, <4>1, GridLower
      <4>3. refunds'[r] + Sum(live'[r]) <= Cash[r]
        BY SoundMeansNext
      <4> QED BY <1>1, <1>3, <1>4, <4>2, <4>3, Limits DEF CallFacts
    <3> QED BY <3>1, <3>2
  <2>2. ASSUME NEW i \in Invoices PROVE Covers(u, i)' <= Bill[i]
    <3>1. CASE owner[i] = u
      BY <1>1, <1>7, <2>2, <3>1, Limits DEF CallOK, WritesFit, CallFacts
    <3>2. CASE owner[i] # u
      <4>1. ASSUME NEW r \in Receipts PROVE N[r][i] <= live'[r][i]
        <5>1. CASE w[r][i] = None
          BY <1>2, <5>1
        <5>2. CASE w[r][i] # None
          <6>1. N[r][i] = w[r][i] /\ live'[r][i] = live[r][i] /\ ~(w[r][i] > live[r][i])
            BY <1>2, <1>w, <3>2, <5>2
          <6> QED BY <1>2, <6>1
        <5> QED BY <5>1, <5>2
      <4>2. Sum(Column(N, i)) <= Sum(Column(live', i))
        BY <1>2, <4>1, GridLower
      <4>3. credit'[i] + Sum(Column(live', i)) <= Bill[i]
        BY SoundMeansNext
      <4> QED BY <1>1, <1>3, <1>5, <4>2, <4>3, Limits DEF CallFacts
    <3> QED BY <3>1, <3>2
  <2> QED BY <2>1, <2>2 DEF WritesFit
<1>10. \A row \in Rows : /\ Mine(u, row) => Mine(u, row)'
                         /\ Coming(u, row) => Coming(u, row)'
  BY DEF Mine, Coming, Rely
<1>11. AllocationOK(u)'
  <2> DEFINE c == txn[u]
  <2>1. ASSUME c.pc = "insert"
        PROVE  /\ Uses(u, c.r)' + c.take <= Cash[c.r]
               /\ Covers(u, c.i)' + c.take <= Bill[c.i]
               /\ open'[c.i] /\ posted'[c.r]
    <3>1. /\ c.r \in Receipts /\ c.i \in Invoices /\ owner[c.r] = u /\ owner[c.i] = u
          /\ open[c.i] /\ posted[c.r]
          /\ Uses(u, c.r) + c.take <= Cash[c.r] /\ Covers(u, c.i) + c.take <= Bill[c.i]
      BY <2>1 DEF CallOK, AllocationOK, Mine
    <3>2. Uses(u, c.r)' <= Uses(u, c.r) /\ Covers(u, c.i)' <= Covers(u, c.i)
      BY <1>6, <1>7, <3>1
    <3>3. /\ Uses(u, c.r)' \in Nat /\ Uses(u, c.r) \in Nat /\ Covers(u, c.i)' \in Nat
          /\ Covers(u, c.i) \in Nat /\ c.take \in Nat /\ Cash[c.r] \in Nat /\ Bill[c.i] \in Nat
      BY <1>1, <3>1, Limits DEF CallFacts
    <3>4. open'[c.i] /\ posted'[c.r]
      BY <3>1 DEF Rely
    <3> QED BY <3>1, <3>2, <3>3, <3>4
  <2> QED BY <1>10, <2>1, Limits DEF CallOK, AllocationOK
<1>12. SpendingOK(u)'
  BY <1>10, Limits DEF CallOK, SpendingOK
<1>13. VoidOK(u)'
  <2> DEFINE c == txn[u]
  <2> SUFFICES ASSUME c.op = "void" PROVE VoidOK(u)'
    BY DEF VoidOK
  <2>0. /\ c.r \in Receipts /\ c.pc \in {"void", "erase", "commit"} /\ Coming(u, c.r)
        /\ c.pc # "void" => Mine(u, c.r) /\ refunds[c.r] = 0
    BY DEF CallOK, VoidOK
  <2>1. c.pc # "void" => Mine(u, c.r)' /\ refunds'[c.r] = 0
    BY <1>10, <2>0, Limits DEF Rely, Mine
  <2>2. c.pc = "erase" => \A j \in Invoices : live'[c.r][j] > 0 => Coming(u, <<c.r, j>>)'
    BY <1>2, <1>10, <2>0, Limits DEF CallOK, VoidOK, Rely, Mine
  <2>3. c.pc = "commit" => \A j \in Invoices : N[c.r][j] = 0
    BY <1>2, <2>0 DEF CallOK, VoidOK, Rely, Mine, M
  <2> QED BY <1>10, <2>0, <2>1, <2>2, <2>3, Limits DEF CallOK, VoidOK, N
<1>14. ReverseOK(u)'
  BY <1>10, Limits DEF CallOK, ReverseOK
<1>15. DecisionOK(u)'
  <2> DEFINE c == txn[u]
  <2>1. ASSUME c.op \in {"refund", "unrefund"}
        PROVE  /\ Coming(u, c.r)'
               /\ c.pc = "commit" => Mine(u, c.r)' /\ posted'[c.r] /\ Uses(u, c.r)' <= Uses(u, c.r) /\ refunds'[c.r] = refunds[c.r]
    <3>1. c.r \in Receipts /\ Coming(u, c.r) /\ (c.pc = "commit" => Mine(u, c.r) /\ posted[c.r])
      BY <2>1 DEF CallOK, DecisionOK
    <3> QED BY <1>6, <1>10, <3>1, Limits DEF Rely, Mine
  <2>2. ASSUME c.op = "refund", c.pc = "commit" PROVE Uses(u, c.r)' + c.x <= Cash[c.r]
    <3>1. c.r \in Receipts /\ Uses(u, c.r) + c.x <= Cash[c.r]
      BY <2>2 DEF CallOK, DecisionOK
    <3> QED BY <1>1, <2>1, <2>2, <3>1, Limits DEF CallFacts
  <2>3. ASSUME c.op = "cancel"
        PROVE  /\ Coming(u, c.i)'
               /\ c.pc = "commit" => Mine(u, c.i)' /\ credit'[c.i] = 0 /\ \A r \in Receipts : live'[r][c.i] = 0
    <3>1. c.i \in Invoices /\ Coming(u, c.i)
          /\ (c.pc = "commit" => Mine(u, c.i) /\ credit[c.i] = 0 /\ \A r \in Receipts : live[r][c.i] = 0)
      BY <2>3 DEF CallOK, DecisionOK
    <3> QED BY <1>2, <1>10, <3>1, Limits DEF Rely, Mine
  <2> QED BY <2>1, <2>2, <2>3 DEF CallOK, DecisionOK
<1>16. CreditOK(u)'
  <2> DEFINE c == txn[u]
  <2> SUFFICES ASSUME c.op = "credit" PROVE CreditOK(u)'
    BY DEF CreditOK
  <2>0. /\ c.i \in Invoices /\ c.pc \in {"credit", "peel", "receipt", "check", "insert", "commit"}
        /\ c.pc # "credit" => Mine(u, c.i) /\ open[c.i] /\ credit[c.i] + c.x <= Bill[c.i]
    BY DEF CallOK, CreditOK
  <2>1. c.pc # "credit" =>
          /\ Mine(u, c.i)' /\ open'[c.i] /\ credit'[c.i] + c.x <= Bill[c.i]
          /\ Covers(u, c.i)' <= Covers(u, c.i)
          /\ \A q \in Receipts : live'[q][c.i] <= live[q][c.i]
    <3> SUFFICES ASSUME c.pc # "credit"
                 PROVE  /\ Mine(u, c.i)' /\ open'[c.i] /\ credit'[c.i] + c.x <= Bill[c.i]
                        /\ Covers(u, c.i)' <= Covers(u, c.i)
                        /\ \A q \in Receipts : live'[q][c.i] <= live[q][c.i]
      OBVIOUS
    <3>1. c.i \in Invoices /\ c.i \in Rows /\ Mine(u, c.i) /\ owner[c.i] = u
      BY <2>0, Limits DEF Mine
    <3>2. Mine(u, c.i)' /\ Covers(u, c.i)' <= Covers(u, c.i)
      BY <1>7, <1>10, <3>1
    <3>3. open'[c.i] /\ credit'[c.i] + c.x <= Bill[c.i]
      BY <2>0, <3>1 DEF Rely
    <3>4. \A q \in Receipts : live'[q][c.i] <= live[q][c.i]
      BY <3>1 DEF Rely
    <3> QED BY <3>2, <3>3, <3>4
  <2>2. ASSUME NEW q \in Receipts, NEW j \in Invoices, c.writes[q][j] # None
        PROVE  j = c.i /\ c.writes[q][j] <= live'[q][j]
    <3>1. j = c.i /\ c.writes[q][j] <= live[q][j]
      BY <2>2 DEF CallOK, CreditOK
    <3>2. live'[q][j] = live[q][j]
      BY <1>w, <2>2
    <3> QED BY <3>1, <3>2
  <2>3. /\ Covers(u, c.i) \in Nat /\ Covers(u, c.i)' \in Nat /\ c.x \in Nat /\ c.rest \in Nat
        /\ c.take \in Nat /\ Bill[c.i] \in Nat
    BY <1>1, <2>0, Limits DEF CallFacts
  <2>4. ASSUME c.pc = "peel"
        PROVE  /\ Covers(u, c.i)' + c.x <= Bill[c.i] + c.rest
               /\ c.rest > 0 => \A q \in Receipts : /\ live'[q][c.i] > 0 => Coming(u, <<q, c.i>>)'
                                                    /\ c.writes[q][c.i] \in {None, 0}
    <3>1. /\ Covers(u, c.i) + c.x <= Bill[c.i] + c.rest
          /\ c.rest > 0 => \A q \in Receipts : /\ live[q][c.i] > 0 => Coming(u, <<q, c.i>>)
                                               /\ c.writes[q][c.i] \in {None, 0}
      BY <2>4 DEF CallOK, CreditOK
    <3> QED BY <1>2, <1>10, <2>0, <2>1, <2>3, <2>4, <3>1, Limits
  <2>5. ASSUME c.pc \in {"receipt", "check", "insert"}
        PROVE  /\ Mine(u, <<c.r, c.i>>)' /\ c.take <= live'[c.r][c.i]
               /\ Covers(u, c.i)' + c.x + c.take <= Bill[c.i]
    <3>1. /\ c.r \in Receipts /\ Mine(u, <<c.r, c.i>>) /\ c.take <= live[c.r][c.i]
          /\ Covers(u, c.i) + c.x + c.take <= Bill[c.i]
      BY <2>5 DEF CallOK, CreditOK, AllocationOK
    <3>2. live'[c.r][c.i] = live[c.r][c.i] /\ Mine(u, <<c.r, c.i>>)'
      BY <2>0, <3>1, Limits DEF Rely, Mine
    <3> QED BY <2>0, <2>1, <2>3, <2>5, <3>1, <3>2
  <2>6. c.pc = "commit" => Covers(u, c.i)' + c.x <= Bill[c.i]
    <3>1. c.pc = "commit" => Covers(u, c.i) + c.x <= Bill[c.i]
      BY DEF CallOK, CreditOK
    <3> QED BY <2>1, <2>3, <3>1
  <2>7. c.pc = "credit" => Coming(u, c.i)'
    BY <1>10, <2>0, Limits DEF CallOK, CreditOK
  <2> QED BY <2>0, <2>1, <2>2, <2>4, <2>5, <2>6, <2>7 DEF CallOK, CreditOK
<1> QED BY <1>8, <1>9, <1>11, <1>12, <1>13, <1>14, <1>15, <1>16 DEF CallOK

-----------------------------------------------------------------------------
(* Which call is at which step.                                            *)
LEMMA OpAtStep ==
    ASSUME LocksTyped, NEW t \in Txns, CallOK(t)
    PROVE  LET c == txn[t] IN
           /\ c.pc \in {"receipt", "check", "insert"} => c.op \in Spending \cup {"credit"}
           /\ c.pc = "next" => c.op \in Spending
           /\ c.pc \in {"clear", "void", "reverse", "cancel", "refund", "unrefund", "credit"} => c.op = c.pc
           /\ c.pc = "erase" => c.op = "void"
           /\ c.pc = "peel" => c.op = "credit"
           /\ c.pc = "commit" => c.op # "none"
<1>1. txn[t].op \in Ops
  BY DEF LocksTyped, CallType
<1>2. txn[t].op = "none" => txn[t].pc = "idle"
  BY DEF CallOK, Idle
<1> QED BY <1>1, <1>2
        DEF Ops, Spending, CallOK, AllocationOK, SpendingOK, VoidOK, ReverseOK, DecisionOK, CreditOK

(* Steps of t that leave the ledger alone and the locks of others too.     *)
LEMMA PrivateStep ==
    ASSUME IInv, NEW t \in Txns, UNCHANGED ledger,
           NEW d \in CallType, txn' = [txn EXCEPT ![t] = d],
           owner' \in [Rows -> Txns \cup {None}],
           \A row \in Rows : owner[row] \in Txns \ {t} => owner'[row] = owner[row],
           LocksTyped' /\ LedgerSound' => CallOK(t)'
    PROVE  IInv'
<1>1. LocksTyped'
  BY DEF IInv, LocksTyped, ledger
<1>2. LedgerSound'
  BY SoundMeans, SoundMeansNext DEF IInv, ledger, Column
<1>3. ASSUME NEW u \in Txns \ {t} PROVE CallOK(u)'
  <2>1. Rely(u)
    <3>1. \A r \in Receipts, i \in Invoices : live[r][i] \in Nat
      BY GridSums DEF IInv, LocksTyped
    <3> QED BY <3>1 DEF Rely, ledger
  <2>2. txn'[u] = txn[u]
    BY DEF IInv, LocksTyped
  <2> QED BY <1>1, <1>2, <2>1, <2>2, RelyKeepsCall DEF IInv
<1> QED BY <1>1, <1>2, <1>3 DEF IInv

(* A call that keeps its writes and its locks keeps what it would commit.  *)
LEMMA SameWrites ==
    ASSUME NEW t \in Txns, UNCHANGED ledger, txn'[t].writes = txn[t].writes
    PROVE  /\ Seen(t)' = Seen(t)
           /\ \A r \in Receipts : Uses(t, r)' = Uses(t, r)
           /\ \A i \in Invoices : Covers(t, i)' = Covers(t, i)
           /\ WritesFit(t) => WritesFit(t)'
           /\ WritesLocked(t) /\ (\A row \in Rows : owner[row] = t => owner'[row] = t) => WritesLocked(t)'
<1>1. Seen(t)' = Seen(t)
  BY DEF Seen, Merged, ledger
<1>2. /\ \A r \in Receipts : Uses(t, r)' = Uses(t, r)
      /\ \A i \in Invoices : Covers(t, i)' = Covers(t, i)
  BY <1>1 DEF Uses, Covers, Column, ledger
<1>3. WritesFit(t) => WritesFit(t)'
  BY <1>2 DEF WritesFit
<1>4. WritesLocked(t) /\ (\A row \in Rows : owner[row] = t => owner'[row] = t) => WritesLocked(t)'
  BY Limits DEF WritesLocked, Mine, ledger
<1> QED BY <1>1, <1>2, <1>3, <1>4

(* A call without writes.                                                  *)
LEMMA CleanCall ==
    ASSUME LocksTyped', LedgerSound', NEW t \in Txns, txn'[t].writes = NoWrites
    PROVE  WritesLocked(t)' /\ WritesFit(t)' /\ Seen(t)' = live'
<1>1. Seen(t)' = live'
  BY DEF Seen, Merged, NoWrites, LocksTyped, Grid
<1>2. WritesLocked(t)'
  BY NoWritesTyped DEF WritesLocked
<1>3. WritesFit(t)'
  BY <1>1, SoundMeansNext DEF WritesFit, Uses, Covers, Column
<1> QED BY <1>1, <1>2, <1>3

LEMMA IdleCall ==
    ASSUME LocksTyped', LedgerSound', NEW t \in Txns, txn'[t] = Idle
    PROVE  CallOK(t)'
<1>1. txn'[t].op = "none" /\ txn'[t].pc = "idle" /\ txn'[t].writes = NoWrites
  BY DEF Idle
<1>2. WritesLocked(t)' /\ WritesFit(t)'
  BY <1>1, CleanCall
<1> QED BY <1>1, <1>2
        DEF CallOK, AllocationOK, SpendingOK, Spending, VoidOK, ReverseOK, DecisionOK, CreditOK

LEMMA FreedTyped ==
    ASSUME LocksTyped, NEW t \in Txns
    PROVE  /\ Freed(t) \in [Rows -> Txns \cup {None}]
           /\ \A row \in Rows : owner[row] # t => Freed(t)[row] = owner[row]
BY DEF Freed, LocksTyped

LEMMA RollbackKeeps ==
    ASSUME IInv, NEW t \in Txns, Rollback(t)
    PROVE  IInv'
<1>1. txn'[t] = Idle
  BY DEF Rollback, IInv, LocksTyped
<1>2. LocksTyped' /\ LedgerSound' => CallOK(t)'
  BY <1>1, IdleCall
<1>3. /\ owner' \in [Rows -> Txns \cup {None}]
      /\ \A row \in Rows : owner[row] \in Txns \ {t} => owner'[row] = owner[row]
  BY FreedTyped DEF Rollback, IInv
<1> QED BY <1>2, <1>3, PrivateStep, IdleTyped DEF Rollback

(* The database grants a lock.                                             *)
LEMMA LockKeeps ==
    ASSUME IInv, NEW t \in Txns, NEW row \in Rows, Lock(t, row)
    PROVE  IInv'
<1> DEFINE c == txn[t]
           d == [c EXCEPT !.need = c.need \ {row}]
<1>0. CallOK(t) /\ LocksTyped /\ c \in CallType
  BY DEF IInv, LocksTyped
<1>1. txn' = [txn EXCEPT ![t] = d] /\ d \in CallType
  BY <1>0 DEF Lock, LocksTyped, CallType
<1>2. txn'[t] = d
  BY <1>0, <1>1 DEF LocksTyped
<1>3. /\ d.op = c.op /\ d.pc = c.pc /\ d.r = c.r /\ d.i = c.i /\ d.x = c.x /\ d.take = c.take
      /\ d.rest = c.rest /\ d.writes = c.writes /\ d.need = c.need \ {row}
  BY <1>0 DEF CallType
<1>4. /\ owner' \in [Rows -> Txns \cup {None}] /\ owner'[row] = t
      /\ \A x \in Rows : owner[x] \in Txns \ {t} => owner'[x] = owner[x]
      /\ \A x \in Rows : owner[x] = t => owner'[x] = t
  BY <1>0, Limits DEF Lock, LocksTyped
<1> HIDE DEF d
<1>5. \A x \in Rows : (Mine(t, x) => Mine(t, x)') /\ (Coming(t, x) => Coming(t, x)')
  BY <1>2, <1>3, <1>4 DEF Mine, Coming
<1>6. /\ UNCHANGED ledger
      /\ Seen(t)' = Seen(t) /\ WritesFit(t)' /\ WritesLocked(t)'
      /\ \A r \in Receipts : Uses(t, r)' = Uses(t, r)
      /\ \A i \in Invoices : Covers(t, i)' = Covers(t, i)
  BY <1>0, <1>2, <1>3, <1>4, SameWrites DEF Lock, CallOK
<1>7. AllocationOK(t)'
  BY <1>0, <1>2, <1>3, <1>5, <1>6, Limits DEF CallOK, AllocationOK, ledger
<1>8. SpendingOK(t)'
  BY <1>0, <1>2, <1>3, <1>5, Limits DEF CallOK, SpendingOK
<1>9. VoidOK(t)'
  BY <1>0, <1>2, <1>3, <1>5, <1>6, Limits DEF CallOK, VoidOK, ledger
<1>10. ReverseOK(t)'
  BY <1>0, <1>2, <1>3, <1>5, <1>6, Limits DEF CallOK, ReverseOK, ledger
<1>11. DecisionOK(t)'
  BY <1>0, <1>2, <1>3, <1>5, <1>6, Limits DEF CallOK, DecisionOK, ledger
<1>12. CreditOK(t)'
  BY <1>0, <1>2, <1>3, <1>5, <1>6, Limits DEF CallOK, CreditOK, AllocationOK, ledger
<1>13. c.op # "none" /\ c.pc # "idle"
  BY <1>0 DEF CallOK, Idle, Lock
<1>14. CallOK(t)'
  BY <1>2, <1>3, <1>6, <1>7, <1>8, <1>9, <1>10, <1>11, <1>12, <1>13 DEF CallOK
<1> QED BY <1>1, <1>4, <1>6, <1>14, PrivateStep


(* A call that starts has written nothing and waits for its first lock.    *)
StartsWell(d) ==
    /\ d.writes = NoWrites
    /\ \/ d.op = "allocate" /\ d.pc = "receipt" /\ d.r \in Receipts /\ d.i \in Invoices /\ d.i \in d.need
       \/ d.op = "bulk" /\ d.pc = "next" /\ d.r \in Receipts
       \/ d.op \in {"clear", "void", "refund", "unrefund"} /\ d.pc = d.op /\ d.r \in Receipts /\ d.r \in d.need
       \/ d.op = "reverse" /\ d.pc = "reverse" /\ d.r \in Receipts /\ d.i \in Invoices /\ <<d.r, d.i>> \in d.need
       \/ d.op \in {"cancel", "credit"} /\ d.pc = d.op /\ d.i \in Invoices /\ d.i \in d.need

LEMMA StartKeeps ==
    ASSUME IInv, NEW t \in Txns, NEW d \in CallType, StartsWell(d), Start(t, d)
    PROVE  IInv'
<1>1. txn' = [txn EXCEPT ![t] = d] /\ txn'[t] = d /\ UNCHANGED <<ledger, owner>>
  BY DEF Start, IInv, LocksTyped
<1>2. ASSUME LocksTyped', LedgerSound' PROVE CallOK(t)'
  <2>1. WritesLocked(t)' /\ WritesFit(t)'
    BY <1>1, <1>2, CleanCall DEF StartsWell
  <2>2. \A row \in d.need : Coming(t, row)'
    BY <1>1 DEF Coming
  <2>3. \A q \in Receipts, j \in Invoices : d.writes[q][j] = None
    BY NoWritesTyped DEF StartsWell
  <2>4. d.op # "none" /\ d.pc # "idle"
    BY DEF StartsWell
  <2>5. AllocationOK(t)' /\ SpendingOK(t)'
    BY <1>1, <2>2, <2>3 DEF StartsWell, AllocationOK, SpendingOK, Spending
  <2>6. VoidOK(t)' /\ ReverseOK(t)' /\ DecisionOK(t)'
    BY <1>1, <2>2, <2>3 DEF StartsWell, VoidOK, ReverseOK, DecisionOK
  <2>7. CreditOK(t)'
    BY <1>1, <2>2, <2>3 DEF StartsWell, CreditOK
  <2> QED BY <1>1, <2>1, <2>4, <2>5, <2>6, <2>7 DEF CallOK
<1>3. owner' \in [Rows -> Txns \cup {None}] /\ \A row \in Rows : owner[row] \in Txns \ {t} => owner'[row] = owner[row]
  BY <1>1 DEF IInv, LocksTyped
<1> QED BY <1>1, <1>2, <1>3, PrivateStep

LEMMA CallIsTyped ==
    ASSUME NEW op \in Ops, NEW r \in Receipts \cup {None}, NEW i \in Invoices \cup {None}, NEW x \in Nat,
           NEW need \in SUBSET Rows, NEW step \in Steps
    PROVE  LET d == Call(op, r, i, x, need, step) IN
           /\ d \in CallType
           /\ d.op = op /\ d.r = r /\ d.i = i /\ d.need = need /\ d.pc = step /\ d.writes = NoWrites
<1>1. Call(op, r, i, x, need, step) =
        [op |-> op, pc |-> step, r |-> r, i |-> i, x |-> x, take |-> x, rest |-> 0,
         need |-> need, plan |-> <<>>, writes |-> NoWrites]
  BY DEF Call
<1>2. <<>> \in Seq(Invoices)
  OBVIOUS
<1> QED BY <1>1, <1>2, NoWritesTyped DEF CallType

LEMMA BeginKeeps ==
    ASSUME IInv, NEW t \in Txns, Begin(t)
    PROVE  IInv'
<1>0. /\ \A r \in Receipts : r \in Rows /\ Cash[r] \in Nat
      /\ \A i \in Invoices : i \in Rows /\ Bill[i] \in Nat
      /\ \A r \in Receipts, i \in Invoices : <<r, i>> \in Rows
      /\ Oldest \in Seq(Invoices) /\ LocksTyped
  BY Limits, LocksAssumption DEF IInv
<1>1. ASSUME NEW r \in Receipts, NEW i \in Invoices, NEW x \in 1 .. Cash[r], BeginAllocate(t, r, i, x)
      PROVE  IInv'
  <2> DEFINE d == Call("allocate", r, i, x, {i}, "receipt")
  <2>1. /\ "allocate" \in Ops /\ "receipt" \in Steps /\ x \in Nat /\ {i} \in SUBSET Rows
        /\ r \in Receipts \cup {None} /\ i \in Invoices \cup {None}
    BY <1>0 DEF Ops, Steps
  <2>2. /\ d \in CallType /\ d.op = "allocate" /\ d.r = r /\ d.i = i /\ d.need = {i}
        /\ d.pc = "receipt" /\ d.writes = NoWrites
    BY <2>1, CallIsTyped
  <2>3. Start(t, d)
    BY <1>1 DEF BeginAllocate
  <2> HIDE DEF d
  <2>4. StartsWell(d)
    BY <2>2 DEF StartsWell
  <2> QED BY <2>2, <2>3, <2>4, StartKeeps
<1>2. ASSUME NEW r \in Receipts, BeginBulk(t, r) PROVE IInv'
  <2> DEFINE e == Call("bulk", r, None, 0, {}, "next")
             d == [e EXCEPT !.plan = Oldest, !.rest = Available(t, r)]
  <2>0. /\ "bulk" \in Ops /\ "next" \in Steps /\ 0 \in Nat /\ {} \in SUBSET Rows
        /\ r \in Receipts \cup {None} /\ None \in Invoices \cup {None}
    BY <1>0 DEF Ops, Steps
  <2>1. e \in CallType /\ e.op = "bulk" /\ e.r = r /\ e.pc = "next" /\ e.writes = NoWrites
    BY <2>0, CallIsTyped
  <2>2. Available(t, r) \in Nat
    <3>1. Sum(Seen(t)[r]) \in Nat /\ refunds[r] \in Nat /\ Cash[r] \in Nat
      BY <1>0, CallTyped, GridSums DEF CallFacts
    <3> QED BY <3>1 DEF Available, Minus
  <2> HIDE DEF e
  <2>3. d \in CallType /\ d.op = "bulk" /\ d.r = r /\ d.pc = "next" /\ d.writes = NoWrites
    BY <1>0, <2>1, <2>2 DEF CallType
  <2>4. Start(t, d) /\ StartsWell(d)
    BY <1>2, <2>3 DEF BeginBulk, StartsWell, e
  <2> QED BY <2>3, <2>4, StartKeeps
<1>3. ASSUME NEW r \in Receipts, NEW plan \in Seq(Invoices), BeginClear(t, r, plan) PROVE IInv'
  <2> DEFINE e == Call("clear", r, None, 0, {r}, "clear")
             d == [e EXCEPT !.plan = plan]
  <2>0. /\ "clear" \in Ops /\ "clear" \in Steps /\ 0 \in Nat /\ {r} \in SUBSET Rows
        /\ r \in Receipts \cup {None} /\ None \in Invoices \cup {None}
    BY <1>0 DEF Ops, Steps
  <2>1. e \in CallType /\ e.op = "clear" /\ e.r = r /\ e.pc = "clear" /\ e.writes = NoWrites /\ e.need = {r}
    BY <2>0, CallIsTyped, SMTT(30)
  <2> HIDE DEF e
  <2>2. d \in CallType /\ d.op = "clear" /\ d.r = r /\ d.pc = "clear" /\ d.writes = NoWrites /\ d.need = {r}
    BY <2>1 DEF CallType
  <2>3. Start(t, d) /\ StartsWell(d)
    BY <1>3, <2>2 DEF BeginClear, StartsWell, e
  <2> QED BY <2>2, <2>3, StartKeeps
<1>4. ASSUME NEW r \in Receipts, BeginVoid(t, r) PROVE IInv'
  <2> DEFINE d == Call("void", r, None, 0, {r}, "void")
  <2>1. /\ "void" \in Ops /\ "void" \in Steps /\ 0 \in Nat /\ {r} \in SUBSET Rows
        /\ r \in Receipts \cup {None} /\ None \in Invoices \cup {None}
    BY <1>0 DEF Ops, Steps
  <2>2. /\ d \in CallType /\ d.op = "void" /\ d.r = r /\ d.i = None /\ d.need = {r}
        /\ d.pc = "void" /\ d.writes = NoWrites
    BY <2>1, CallIsTyped
  <2>3. Start(t, d)
    BY <1>4 DEF BeginVoid
  <2> HIDE DEF d
  <2>4. StartsWell(d)
    BY <2>2 DEF StartsWell
  <2> QED BY <2>2, <2>3, <2>4, StartKeeps
<1>5. ASSUME NEW r \in Receipts, NEW i \in Invoices, BeginReverse(t, r, i) PROVE IInv'
  <2> DEFINE d == Call("reverse", r, i, 0, {<<r, i>>}, "reverse")
  <2>1. /\ "reverse" \in Ops /\ "reverse" \in Steps /\ 0 \in Nat /\ {<<r, i>>} \in SUBSET Rows
        /\ r \in Receipts \cup {None} /\ i \in Invoices \cup {None}
    BY <1>0 DEF Ops, Steps
  <2>2. /\ d \in CallType /\ d.op = "reverse" /\ d.r = r /\ d.i = i /\ d.need = {<<r, i>>}
        /\ d.pc = "reverse" /\ d.writes = NoWrites
    BY <2>1, CallIsTyped
  <2>3. Start(t, d)
    BY <1>5 DEF BeginReverse
  <2> HIDE DEF d
  <2>4. StartsWell(d)
    BY <2>2 DEF StartsWell
  <2> QED BY <2>2, <2>3, <2>4, StartKeeps
<1>6. ASSUME NEW i \in Invoices, BeginCancel(t, i) PROVE IInv'
  <2> DEFINE d == Call("cancel", None, i, 0, {i}, "cancel")
  <2>1. /\ "cancel" \in Ops /\ "cancel" \in Steps /\ 0 \in Nat /\ {i} \in SUBSET Rows
        /\ None \in Receipts \cup {None} /\ i \in Invoices \cup {None}
    BY <1>0 DEF Ops, Steps
  <2>2. /\ d \in CallType /\ d.op = "cancel" /\ d.r = None /\ d.i = i /\ d.need = {i}
        /\ d.pc = "cancel" /\ d.writes = NoWrites
    BY <2>1, CallIsTyped
  <2>3. Start(t, d)
    BY <1>6 DEF BeginCancel
  <2> HIDE DEF d
  <2>4. StartsWell(d)
    BY <2>2 DEF StartsWell
  <2> QED BY <2>2, <2>3, <2>4, StartKeeps
<1>7. ASSUME NEW r \in Receipts, NEW x \in 1 .. Cash[r], BeginRefund(t, r, x) PROVE IInv'
  <2> DEFINE d == Call("refund", r, None, x, {r}, "refund")
  <2>1. /\ "refund" \in Ops /\ "refund" \in Steps /\ x \in Nat /\ {r} \in SUBSET Rows
        /\ r \in Receipts \cup {None} /\ None \in Invoices \cup {None}
    BY <1>0 DEF Ops, Steps
  <2>2. /\ d \in CallType /\ d.op = "refund" /\ d.r = r /\ d.i = None /\ d.need = {r}
        /\ d.pc = "refund" /\ d.writes = NoWrites
    BY <2>1, CallIsTyped
  <2>3. Start(t, d)
    BY <1>7 DEF BeginRefund
  <2> HIDE DEF d
  <2>4. StartsWell(d)
    BY <2>2 DEF StartsWell
  <2> QED BY <2>2, <2>3, <2>4, StartKeeps
<1>8. ASSUME NEW r \in Receipts, NEW x \in 1 .. Cash[r], BeginUnrefund(t, r, x) PROVE IInv'
  <2> DEFINE d == Call("unrefund", r, None, x, {r}, "unrefund")
  <2>1. /\ "unrefund" \in Ops /\ "unrefund" \in Steps /\ x \in Nat /\ {r} \in SUBSET Rows
        /\ r \in Receipts \cup {None} /\ None \in Invoices \cup {None}
    BY <1>0 DEF Ops, Steps
  <2>2. /\ d \in CallType /\ d.op = "unrefund" /\ d.r = r /\ d.i = None /\ d.need = {r}
        /\ d.pc = "unrefund" /\ d.writes = NoWrites
    BY <2>1, CallIsTyped
  <2>3. Start(t, d)
    BY <1>8 DEF BeginUnrefund
  <2> HIDE DEF d
  <2>4. StartsWell(d)
    BY <2>2 DEF StartsWell
  <2> QED BY <2>2, <2>3, <2>4, StartKeeps
<1>9. ASSUME NEW i \in Invoices, NEW x \in 1 .. Bill[i], BeginCredit(t, i, x) PROVE IInv'
  <2> DEFINE d == Call("credit", None, i, x, {i}, "credit")
  <2>1. /\ "credit" \in Ops /\ "credit" \in Steps /\ x \in Nat /\ {i} \in SUBSET Rows
        /\ None \in Receipts \cup {None} /\ i \in Invoices \cup {None}
    BY <1>0 DEF Ops, Steps
  <2>2. /\ d \in CallType /\ d.op = "credit" /\ d.r = None /\ d.i = i /\ d.need = {i}
        /\ d.pc = "credit" /\ d.writes = NoWrites
    BY <2>1, CallIsTyped
  <2>3. Start(t, d)
    BY <1>9 DEF BeginCredit
  <2> HIDE DEF d
  <2>4. StartsWell(d)
    BY <2>2 DEF StartsWell
  <2> QED BY <2>2, <2>3, <2>4, StartKeeps
<1>10. \A i \in Invoices : <<i>> \in Seq(Invoices)
  OBVIOUS
<1> QED BY <1>0, <1>1, <1>2, <1>3, <1>4, <1>5, <1>6, <1>7, <1>8, <1>9, <1>10 DEF Begin


(* A step of t that writes nothing and keeps its locks.                    *)
LEMMA QuietStep ==
    ASSUME IInv, NEW t \in Txns, NEW d \in CallType, txn' = [txn EXCEPT ![t] = d],
           UNCHANGED <<ledger, owner>>,
           d.writes = txn[t].writes, d.op = txn[t].op, d.op # "none", d.pc # "idle",
           AllocationOK(t)', SpendingOK(t)', VoidOK(t)', ReverseOK(t)', DecisionOK(t)', CreditOK(t)'
    PROVE  IInv'
<1>1. txn'[t] = d /\ CallOK(t)
  BY DEF IInv, LocksTyped
<1>2. WritesFit(t)' /\ WritesLocked(t)'
  BY <1>1, SameWrites DEF CallOK
<1>3. CallOK(t)'
  BY <1>1, <1>2 DEF CallOK
<1>4. owner' \in [Rows -> Txns \cup {None}] /\ \A row \in Rows : owner[row] \in Txns \ {t} => owner'[row] = owner[row]
  BY DEF IInv, LocksTyped
<1> QED BY <1>3, <1>4, PrivateStep

(* What such a step leaves as it was.                                      *)
LEMMA QuietFacts ==
    ASSUME IInv, NEW t \in Txns, UNCHANGED <<ledger, owner>>, txn'[t].writes = txn[t].writes
    PROVE  /\ \A row : Mine(t, row)' <=> Mine(t, row)
           /\ \A row : Mine(t, row) => Coming(t, row)'
           /\ Seen(t)' = Seen(t)
           /\ \A r \in Receipts : Uses(t, r)' = Uses(t, r)
           /\ \A i \in Invoices : Covers(t, i)' = Covers(t, i)
<1>1. (\A row : Mine(t, row)' <=> Mine(t, row)) /\ (\A row : Mine(t, row) => Coming(t, row)')
  BY DEF Mine, Coming
<1> QED BY <1>1, SameWrites

(* A call that waits for rows before its next step is still a call.        *)
LEMMA WaitingCall ==
    ASSUME NEW c \in CallType, NEW p \in Steps, NEW need \in SUBSET Rows
    PROVE  [c EXCEPT !.pc = p, !.need = need] \in CallType
BY DEF CallType

LEMMA LockReceiptKeeps ==
    ASSUME IInv, NEW t \in Txns, LockReceipt(t)
    PROVE  IInv'
<1> DEFINE c == txn[t]
           d == [c EXCEPT !.pc = "check", !.need = {c.r}]
<1>0. CallOK(t) /\ LocksTyped /\ c \in CallType /\ c.pc = "receipt" /\ c.need = {}
  BY DEF IInv, LocksTyped, LockReceipt, Ready, At
<1>1. c.r \in Receipts /\ c.i \in Invoices /\ Mine(t, c.i)
  BY <1>0 DEF CallOK, AllocationOK, Coming
<1>2. txn' = [txn EXCEPT ![t] = d] /\ d \in CallType
  <2>1. txn' = [txn EXCEPT ![t] = d]
    BY DEF LockReceipt, LockThen
  <2>2. "check" \in Steps
    BY DEF Steps
  <2>3. {c.r} \in SUBSET Rows
    BY <1>1, Limits
  <2> QED BY <1>0, <2>1, <2>2, <2>3, WaitingCall
<1>3. txn'[t] = d
  BY <1>0, <1>2 DEF LocksTyped
<1>4. /\ d.op = c.op /\ d.pc = "check" /\ d.r = c.r /\ d.i = c.i /\ d.x = c.x /\ d.take = c.take
      /\ d.rest = c.rest /\ d.writes = c.writes /\ d.need = {c.r}
  BY <1>0 DEF CallType
<1> HIDE DEF d
<1>5. UNCHANGED <<ledger, owner>>
  BY DEF LockReceipt
<1>6. /\ c.op \in Spending \cup {"credit"} /\ Coming(t, c.r)'
      /\ \A row : Mine(t, row)' <=> Mine(t, row)
      /\ \A row : Mine(t, row) => Coming(t, row)'
      /\ \A i \in Invoices : Covers(t, i)' = Covers(t, i)
  BY <1>0, <1>3, <1>4, <1>5, OpAtStep, QuietFacts DEF Coming
<1>7. AllocationOK(t)'
  BY <1>1, <1>3, <1>4, <1>6 DEF AllocationOK
<1>8. SpendingOK(t)'
  BY <1>0, <1>3, <1>4, <1>6 DEF CallOK, SpendingOK
<1>9. VoidOK(t)' /\ ReverseOK(t)' /\ DecisionOK(t)'
  BY <1>3, <1>4, <1>6 DEF VoidOK, ReverseOK, DecisionOK, Spending
<1>10. CreditOK(t)'
  BY <1>0, <1>3, <1>4, <1>5, <1>6 DEF CallOK, CreditOK, ledger
<1>11. c.op # "none"
  BY <1>6 DEF Spending
<1> QED BY <1>2, <1>4, <1>5, <1>7, <1>8, <1>9, <1>10, <1>11, QuietStep


(* What a call sees as unspent or unsettled.                               *)
LEMMA Room ==
    ASSUME LocksTyped, NEW t \in Txns, WritesFit(t)
    PROVE  /\ \A r \in Receipts : Available(t, r) \in Nat /\ Uses(t, r) + Available(t, r) = Cash[r]
           /\ \A i \in Invoices : Outstanding(t, i) \in Nat /\ Covers(t, i) + Outstanding(t, i) = Bill[i]
<1>1. CallFacts(t)
  BY CallTyped
<1>2. /\ \A r \in Receipts : Uses(t, r) <= Cash[r] /\ Uses(t, r) \in Nat /\ Cash[r] \in Nat
      /\ \A i \in Invoices : Covers(t, i) <= Bill[i] /\ Covers(t, i) \in Nat /\ Bill[i] \in Nat
  BY <1>1, Limits DEF WritesFit, CallFacts
<1>3. /\ \A r \in Receipts : Available(t, r) = Minus(Cash[r], Uses(t, r))
      /\ \A i \in Invoices : Outstanding(t, i) = Minus(Bill[i], Covers(t, i))
  BY DEF Available, Outstanding, Uses, Covers, Column
<1> QED BY <1>2, <1>3 DEF Minus

LEMMA CheckKeeps ==
    ASSUME IInv, NEW t \in Txns, Check(t)
    PROVE  IInv'
<1> DEFINE c == txn[t]
           d == [c EXCEPT !.pc = "insert", !.need = {<<c.r, c.i>>}]
<1>0. CallOK(t) /\ LocksTyped /\ c \in CallType /\ c.pc = "check" /\ c.need = {}
  BY DEF IInv, LocksTyped, Check, Ready, At
<1>1. c.r \in Receipts /\ c.i \in Invoices /\ Mine(t, c.i) /\ Mine(t, c.r)
  BY <1>0 DEF CallOK, AllocationOK, Coming
<1>2. txn' = [txn EXCEPT ![t] = d] /\ d \in CallType
  <2>1. txn' = [txn EXCEPT ![t] = d]
    BY DEF Check, LockThen
  <2>2. "insert" \in Steps
    BY DEF Steps
  <2>3. {<<c.r, c.i>>} \in SUBSET Rows
    BY <1>1, Limits
  <2> QED BY <1>0, <2>1, <2>2, <2>3, WaitingCall
<1>3. txn'[t] = d
  BY <1>0, <1>2 DEF LocksTyped
<1>4. /\ d.op = c.op /\ d.pc = "insert" /\ d.r = c.r /\ d.i = c.i /\ d.x = c.x /\ d.take = c.take
      /\ d.rest = c.rest /\ d.writes = c.writes /\ d.need = {<<c.r, c.i>>}
  BY <1>0 DEF CallType
<1> HIDE DEF d
<1>5. UNCHANGED <<ledger, owner>>
  BY DEF Check
<1>6. /\ c.op \in Spending \cup {"credit"} /\ Coming(t, <<c.r, c.i>>)'
      /\ \A row : Mine(t, row)' <=> Mine(t, row)
      /\ \A row : Mine(t, row) => Coming(t, row)'
      /\ \A r \in Receipts : Uses(t, r)' = Uses(t, r)
      /\ \A i \in Invoices : Covers(t, i)' = Covers(t, i)
  BY <1>0, <1>3, <1>4, <1>5, OpAtStep, QuietFacts DEF Coming
<1>7. /\ Uses(t, c.r) + c.take <= Cash[c.r] /\ Covers(t, c.i) + c.take <= Bill[c.i]
      /\ open[c.i] /\ posted[c.r]
  <2>1. /\ c.take <= Available(t, c.r) /\ c.take <= Outstanding(t, c.i)
        /\ open[c.i] /\ posted[c.r]
    BY DEF Check, Acceptable
  <2>2. /\ Available(t, c.r) \in Nat /\ Uses(t, c.r) + Available(t, c.r) = Cash[c.r]
        /\ Outstanding(t, c.i) \in Nat /\ Covers(t, c.i) + Outstanding(t, c.i) = Bill[c.i]
        /\ Uses(t, c.r) \in Nat /\ Covers(t, c.i) \in Nat /\ c.take \in Nat
    BY <1>0, <1>1, Room, CallTyped DEF CallOK, CallFacts
  <2> QED BY <2>1, <2>2
<1>8. AllocationOK(t)'
  BY <1>1, <1>3, <1>4, <1>5, <1>6, <1>7 DEF AllocationOK, ledger
<1>9. SpendingOK(t)'
  BY <1>0, <1>1, <1>3, <1>4, <1>6 DEF CallOK, SpendingOK
<1>10. VoidOK(t)' /\ ReverseOK(t)' /\ DecisionOK(t)'
  BY <1>3, <1>4, <1>6 DEF VoidOK, ReverseOK, DecisionOK, Spending
<1>11. CreditOK(t)'
  BY <1>0, <1>3, <1>4, <1>5, <1>6 DEF CallOK, CreditOK, ledger
<1>12. c.op # "none"
  BY <1>6 DEF Spending
<1> QED BY <1>2, <1>4, <1>5, <1>8, <1>9, <1>10, <1>11, <1>12, QuietStep

(* A refused allocation ends the call, or the clearing of the cheque goes  *)
(* on without it.                                                          *)
LEMMA RefuseKeeps ==
    ASSUME IInv, NEW t \in Txns, Refuse(t)
    PROVE  IInv'
<1>1. CASE txn[t].op # "clear"
  BY <1>1, RollbackKeeps DEF Refuse
<1>2. CASE txn[t].op = "clear"
  <2> DEFINE c == txn[t]
             d == [c EXCEPT !.pc = "commit", !.writes = NoWrites]
  <2>0. CallOK(t) /\ LocksTyped /\ c \in CallType /\ c.pc = "check" /\ c.need = {}
    BY DEF IInv, LocksTyped, Refuse, Ready, At
  <2>1. c.r \in Receipts /\ c.r \in Rows
    BY <2>0, Limits DEF CallOK, AllocationOK
  <2>2. txn' = [txn EXCEPT ![t] = d] /\ d \in CallType
    BY <1>2, <2>0, NoWritesTyped DEF Refuse, LocksTyped, CallType, Steps
  <2>3. txn'[t] = d
    BY <2>0, <2>2 DEF LocksTyped
  <2>4. d.op = "clear" /\ d.pc = "commit" /\ d.r = c.r /\ d.writes = NoWrites
    BY <1>2, <2>0 DEF CallType
  <2> HIDE DEF d
  <2>5. owner' = [Freed(t) EXCEPT ![c.r] = t] /\ UNCHANGED ledger
    BY <1>2 DEF Refuse
  <2>6. Mine(t, c.r)
    BY <2>0 DEF CallOK, AllocationOK, Coming
  <2>7. /\ owner' \in [Rows -> Txns \cup {None}] /\ owner'[c.r] = t
        /\ \A row \in Rows : owner[row] \in Txns \ {t} => owner'[row] = owner[row]
    BY <2>0, <2>1, <2>5, <2>6, FreedTyped DEF Mine
  <2>8. ASSUME LocksTyped', LedgerSound' PROVE CallOK(t)'
    <3>1. WritesLocked(t)' /\ WritesFit(t)'
      BY <2>3, <2>4, <2>8, CleanCall
    <3>2. Coming(t, c.r)'
      BY <2>3, <2>4, <2>7 DEF Coming, Mine
    <3>3. SpendingOK(t)'
      BY <2>1, <2>3, <2>4, <3>2, NoWritesTyped DEF SpendingOK
    <3>4. AllocationOK(t)' /\ VoidOK(t)' /\ ReverseOK(t)' /\ DecisionOK(t)' /\ CreditOK(t)'
      BY <2>3, <2>4 DEF AllocationOK, VoidOK, ReverseOK, DecisionOK, CreditOK
    <3> QED BY <2>3, <2>4, <3>1, <3>3, <3>4 DEF CallOK
  <2> QED BY <2>2, <2>5, <2>7, <2>8, PrivateStep
<1> QED BY <1>1, <1>2

LEMMA ClearKeeps ==
    ASSUME IInv, NEW t \in Txns, Clear(t)
    PROVE  IInv'
<1> DEFINE c == txn[t]
           step == IF posted[c.r] THEN "next" ELSE "commit"
           rest == IF posted[c.r] THEN Available(t, c.r) ELSE c.rest
           d == [c EXCEPT !.pc = step, !.rest = rest]
<1>0. CallOK(t) /\ LocksTyped /\ c \in CallType /\ c.pc = "clear" /\ c.need = {} /\ c.op = "clear"
  <2>1. CallOK(t) /\ LocksTyped /\ c \in CallType /\ c.pc = "clear" /\ c.need = {}
    BY DEF IInv, LocksTyped, Clear, Ready, At
  <2> QED BY <2>1, OpAtStep
<1>1. c.r \in Receipts /\ Mine(t, c.r)
  BY <1>0 DEF CallOK, SpendingOK, Spending, Coming
<1>a. rest \in Nat /\ step \in {"next", "commit"}
  BY <1>0, <1>1, Room DEF CallOK, CallType
<1>2. txn' = [txn EXCEPT ![t] = d] /\ d \in CallType
  <2>1. d \in CallType
    BY <1>0, <1>a DEF CallType, Steps
  <2>2. CASE posted[c.r]
    <3>1. txn' = [txn EXCEPT ![t].pc = step, ![t].rest = rest]
      BY <2>2 DEF Clear
    <3> HIDE DEF step, rest
    <3> QED BY <1>0, <2>1, <3>1 DEF LocksTyped
  <2>3. CASE ~posted[c.r]
    <3>1. txn' = [txn EXCEPT ![t] = [c EXCEPT !.pc = "commit"]]
      BY <1>0, <2>3 DEF Clear, Goto, LocksTyped
    <3>2. [c EXCEPT !.pc = "commit"] = [c EXCEPT !.pc = "commit", !.rest = c.rest]
      BY <1>0 DEF CallType
    <3>3. step = "commit" /\ rest = c.rest
      BY <2>3
    <3> HIDE DEF step, rest
    <3> QED BY <2>1, <3>1, <3>2, <3>3
  <2> QED BY <2>1, <2>2, <2>3
<1>3. txn'[t] = d
  BY <1>0, <1>2 DEF LocksTyped
<1>4. d.op = "clear" /\ d.pc = step /\ d.r = c.r /\ d.writes = c.writes
  BY <1>0 DEF CallType
<1> HIDE DEF d, step, rest
<1>5. UNCHANGED <<ledger, owner>>
  BY DEF Clear
<1>6. Coming(t, c.r)'
  BY <1>1, <1>3, <1>4, <1>5, QuietFacts
<1>7. SpendingOK(t)'
  BY <1>0, <1>1, <1>a, <1>3, <1>4, <1>6 DEF CallOK, SpendingOK, Spending
<1>8. AllocationOK(t)' /\ VoidOK(t)' /\ ReverseOK(t)' /\ DecisionOK(t)' /\ CreditOK(t)'
  BY <1>3, <1>4, <1>a DEF AllocationOK, VoidOK, ReverseOK, DecisionOK, CreditOK
<1> QED BY <1>0, <1>2, <1>4, <1>5, <1>7, <1>8, <1>a, QuietStep


(* Only the program counter moves.                                         *)
LEMMA GotoFields ==
    ASSUME IInv, NEW t \in Txns, NEW step \in Steps, Goto(t, step)
    PROVE  /\ txn'[t] \in CallType /\ txn' = [txn EXCEPT ![t] = txn'[t]]
           /\ txn'[t].pc = step /\ txn'[t].op = txn[t].op /\ txn'[t].r = txn[t].r /\ txn'[t].i = txn[t].i
           /\ txn'[t].x = txn[t].x /\ txn'[t].take = txn[t].take /\ txn'[t].rest = txn[t].rest
           /\ txn'[t].need = txn[t].need /\ txn'[t].writes = txn[t].writes
<1>1. txn \in [Txns -> CallType] /\ txn[t] \in CallType
  BY DEF IInv, LocksTyped
<1>2. txn' = [txn EXCEPT ![t] = [txn[t] EXCEPT !.pc = step]]
  BY <1>1 DEF Goto
<1>3. txn'[t] = [txn[t] EXCEPT !.pc = step]
  BY <1>1, <1>2
<1> QED BY <1>1, <1>2, <1>3 DEF CallType

(* Calls that spend a receipt.                                             *)
LEMMA NextBillKeeps ==
    ASSUME IInv, NEW t \in Txns, NextBill(t)
    PROVE  IInv'
<1> DEFINE c == txn[t]
           d == txn'[t]
<1>0. CallOK(t) /\ LocksTyped /\ c \in CallType /\ c.pc = "next" /\ c.need = {} /\ c.op \in Spending
  <2>1. CallOK(t) /\ LocksTyped /\ c \in CallType /\ c.pc = "next" /\ c.need = {}
    BY DEF IInv, LocksTyped, NextBill, Ready, At
  <2> QED BY <2>1, OpAtStep
<1>1. UNCHANGED <<ledger, owner>>
  BY DEF NextBill
<1>2. SUFFICES /\ d \in CallType /\ txn' = [txn EXCEPT ![t] = d]
               /\ d.op = c.op /\ d.r = c.r /\ d.writes = c.writes
               /\ \/ d.pc \in {"next", "commit"}
                  \/ d.pc = "receipt" /\ d.i \in Invoices /\ d.i \in d.need
  <2>1. c.r \in Receipts /\ (c.op = "clear" => Mine(t, c.r))
    BY <1>0 DEF CallOK, SpendingOK, Coming
  <2>2. c.op = "clear" => Coming(t, c.r)'
    BY <1>1, <1>2, <2>1 DEF Coming, Mine
  <2>3. SpendingOK(t)'
    BY <1>0, <1>2, <2>1, <2>2 DEF CallOK, SpendingOK
  <2>4. AllocationOK(t)'
    BY <1>2, <2>1 DEF AllocationOK, Coming
  <2>5. VoidOK(t)' /\ ReverseOK(t)' /\ DecisionOK(t)' /\ CreditOK(t)'
    BY <1>0, <1>2 DEF VoidOK, ReverseOK, DecisionOK, CreditOK, Spending
  <2>6. d.op # "none" /\ d.pc # "idle"
    BY <1>0, <1>2 DEF Spending
  <2> QED BY <1>1, <1>2, <2>3, <2>4, <2>5, <2>6, QuietStep
<1>3. CASE c.plan = <<>> \/ c.rest = 0
  <2>1. Goto(t, "commit") /\ "commit" \in Steps
    BY <1>3 DEF NextBill, Steps
  <2> QED BY <2>1, GotoFields
<1>4. CASE ~(c.plan = <<>> \/ c.rest = 0)
  <2> DEFINE i == Head(c.plan)
             take == IF open[i] THEN Lesser(c.rest, Outstanding(t, i)) ELSE 0
  <2>1. c.plan \in Seq(Invoices) /\ c.plan # <<>> /\ c.rest \in Nat
    BY <1>0, <1>4 DEF CallType
  <2>2. i \in Invoices /\ Tail(c.plan) \in Seq(Invoices)
    BY <2>1
  <2>3. i \in Rows /\ Outstanding(t, i) \in Nat
    BY <1>0, <2>2, Limits, Room DEF CallOK
  <2>4. take \in Nat
    BY <2>1, <2>3 DEF Lesser
  <2>5. txn' = IF take = 0 THEN [txn EXCEPT ![t].plan = Tail(@)]
               ELSE [txn EXCEPT ![t].plan = Tail(@), ![t].i = i, ![t].take = take,
                                ![t].need = {i}, ![t].pc = "receipt"]
    BY <1>4 DEF NextBill
  <2> HIDE DEF take, i
  <2>6. CASE take = 0
    <3> DEFINE e == [c EXCEPT !.plan = Tail(c.plan)]
    <3>1. txn' = [txn EXCEPT ![t] = e]
      BY <1>0, <2>5, <2>6 DEF LocksTyped
    <3>2. d = e
      BY <1>0, <3>1 DEF LocksTyped
    <3>3. e \in CallType /\ e.op = c.op /\ e.r = c.r /\ e.writes = c.writes /\ e.pc = "next"
      BY <1>0, <2>2 DEF CallType
    <3> QED BY <3>1, <3>2, <3>3
  <2>7. CASE take # 0
    <3> DEFINE e == [c EXCEPT !.plan = Tail(c.plan), !.i = i, !.take = take, !.need = {i}, !.pc = "receipt"]
    <3>1. txn' = [txn EXCEPT ![t] = e]
      BY <1>0, <2>5, <2>7 DEF LocksTyped
    <3>2. d = e
      BY <1>0, <3>1 DEF LocksTyped
    <3>3. /\ e \in CallType /\ e.op = c.op /\ e.r = c.r /\ e.writes = c.writes
          /\ e.pc = "receipt" /\ e.i = i /\ e.need = {i}
      BY <1>0, <2>2, <2>3, <2>4 DEF CallType, Steps
    <3> QED BY <2>2, <3>1, <3>2, <3>3
  <2> QED BY <2>6, <2>7
<1> QED BY <1>3, <1>4


(* A call whose rules are checked once: it goes on to commit, or is rolled *)
(* back.                                                                   *)

LEMMA DecidedKeeps ==
    ASSUME IInv, NEW t \in Txns, Ready(t, txn[t].op), txn[t].op \in {"cancel", "refund", "unrefund"},
           Goto(t, "commit"), UNCHANGED <<ledger, owner>>,
           txn[t].op = "refund" => posted[txn[t].r] /\ txn[t].x <= Available(t, txn[t].r),
           txn[t].op = "unrefund" => posted[txn[t].r] /\ txn[t].x <= refunds[txn[t].r],
           txn[t].op = "cancel" => credit[txn[t].i] = 0 /\ \A r \in Receipts : live[r][txn[t].i] = 0
    PROVE  IInv'
<1> DEFINE c == txn[t]
           d == txn'[t]
<1>0. CallOK(t) /\ LocksTyped /\ c \in CallType /\ c.need = {} /\ c.pc = c.op
  BY DEF IInv, LocksTyped, Ready, At
<1>1. /\ d \in CallType /\ txn' = [txn EXCEPT ![t] = d]
      /\ d.pc = "commit" /\ d.op = c.op /\ d.r = c.r /\ d.i = c.i /\ d.x = c.x /\ d.writes = c.writes
  <2>1. "commit" \in Steps
    BY DEF Steps
  <2> QED BY <2>1, GotoFields
<1> HIDE DEF d
<1>2. c.op \in {"refund", "unrefund"} => c.r \in Receipts /\ Mine(t, c.r) /\ c.writes = NoWrites
  BY <1>0 DEF CallOK, DecisionOK, Coming
<1>3. c.op = "cancel" => c.i \in Invoices /\ Mine(t, c.i) /\ c.writes = NoWrites
  BY <1>0 DEF CallOK, DecisionOK, Coming
<1>4. /\ \A row : Mine(t, row)' <=> Mine(t, row)
      /\ \A row : Mine(t, row) => Coming(t, row)'
      /\ \A r \in Receipts : Uses(t, r)' = Uses(t, r)
  BY <1>1, QuietFacts DEF d
<1>5. c.op = "refund" => Uses(t, c.r) + c.x <= Cash[c.r]
  <2> SUFFICES ASSUME c.op = "refund" PROVE Uses(t, c.r) + c.x <= Cash[c.r]
    OBVIOUS
  <2>1. c.x <= Available(t, c.r) /\ c.r \in Receipts
    BY <1>2
  <2>2. /\ Available(t, c.r) \in Nat /\ Uses(t, c.r) + Available(t, c.r) = Cash[c.r]
        /\ Uses(t, c.r) \in Nat /\ c.x \in Nat
    BY <1>0, <2>1, Room, CallTyped DEF CallOK, CallFacts
  <2> QED BY <2>1, <2>2
<1>6. DecisionOK(t)'
  <2>1. CASE c.op = "refund"
    BY <1>1, <1>2, <1>4, <1>5, <2>1 DEF DecisionOK, ledger, d
  <2>2. CASE c.op = "unrefund"
    BY <1>1, <1>2, <1>4, <2>2 DEF DecisionOK, ledger, d
  <2>3. CASE c.op = "cancel"
    BY <1>1, <1>3, <1>4, <2>3 DEF DecisionOK, ledger, d
  <2> QED BY <2>1, <2>2, <2>3
<1>7. AllocationOK(t)' /\ SpendingOK(t)' /\ VoidOK(t)' /\ ReverseOK(t)' /\ CreditOK(t)'
  BY <1>1 DEF AllocationOK, SpendingOK, Spending, VoidOK, ReverseOK, CreditOK, d
<1>8. d.op # "none" /\ d.pc # "idle"
  BY <1>1
<1> QED BY <1>1, <1>6, <1>7, <1>8, QuietStep DEF d

LEMMA DecisionsKeep ==
    ASSUME IInv, NEW t \in Txns, CancelInvoice(t) \/ RefundAdvance(t) \/ VoidAdvanceRefund(t)
    PROVE  IInv'
<1>0. CallOK(t) /\ LocksTyped
  BY DEF IInv
<1>1. CASE CancelInvoice(t)
  <2>1. Decide(t, "cancel", open[txn[t].i] /\ credit[txn[t].i] = 0 /\ \A r \in Receipts : live[r][txn[t].i] = 0)
    BY <1>1 DEF CancelInvoice
  <2>2. Ready(t, "cancel") /\ txn[t].op = "cancel"
    BY <1>0, <2>1, OpAtStep DEF Decide, Ready, At
  <2> QED BY <2>1, <2>2, RollbackKeeps, DecidedKeeps DEF Decide
<1>2. CASE RefundAdvance(t)
  <2>1. Decide(t, "refund", posted[txn[t].r] /\ txn[t].x <= Available(t, txn[t].r))
    BY <1>2 DEF RefundAdvance
  <2>2. Ready(t, "refund") /\ txn[t].op = "refund"
    BY <1>0, <2>1, OpAtStep DEF Decide, Ready, At
  <2> QED BY <2>1, <2>2, RollbackKeeps, DecidedKeeps DEF Decide
<1>3. CASE VoidAdvanceRefund(t)
  <2>1. Decide(t, "unrefund", posted[txn[t].r] /\ txn[t].x <= refunds[txn[t].r])
    BY <1>3 DEF VoidAdvanceRefund
  <2>2. Ready(t, "unrefund") /\ txn[t].op = "unrefund"
    BY <1>0, <2>1, OpAtStep DEF Decide, Ready, At
  <2> QED BY <2>1, <2>2, RollbackKeeps, DecidedKeeps DEF Decide
<1> QED BY <1>1, <1>2, <1>3


(* void_receipt locks the live allocations of a receipt it holds.          *)
LEMMA VoidKeeps ==
    ASSUME IInv, NEW t \in Txns, Void(t)
    PROVE  IInv'
<1> DEFINE c == txn[t]
           slots == {<<c.r, i>> : i \in {j \in Invoices : live[c.r][j] > 0}}
           d == [c EXCEPT !.pc = "erase", !.need = slots]
<1>0. CallOK(t) /\ LocksTyped /\ c \in CallType /\ c.pc = "void" /\ c.need = {} /\ c.op = "void"
  <2>1. CallOK(t) /\ LocksTyped /\ c \in CallType /\ c.pc = "void" /\ c.need = {}
    BY DEF IInv, LocksTyped, Void, Ready, At
  <2> QED BY <2>1, OpAtStep
<1>1. c.r \in Receipts /\ Mine(t, c.r) /\ c.writes = NoWrites
  BY <1>0 DEF CallOK, VoidOK, Coming
<1>2. CASE ~(posted[c.r] /\ refunds[c.r] = 0)
  BY <1>2, RollbackKeeps DEF Void
<1>3. CASE posted[c.r] /\ refunds[c.r] = 0
  <2>1. slots \in SUBSET Rows
    BY <1>1, Limits
  <2>2. LockThen(t, slots, "erase") /\ UNCHANGED <<ledger, owner>>
    BY <1>3 DEF Void
  <2>3. \A j \in Invoices : live[c.r][j] > 0 => <<c.r, j>> \in slots
    OBVIOUS
  <2> HIDE DEF slots
  <2>4. txn' = [txn EXCEPT ![t] = d]
    BY <1>0, <2>2 DEF LockThen, LocksTyped
  <2>5. txn'[t] = d
    BY <1>0, <2>4 DEF LocksTyped
  <2>6. /\ d \in CallType /\ d.op = "void" /\ d.pc = "erase" /\ d.r = c.r /\ d.writes = c.writes
        /\ d.need = slots
    BY <1>0, <2>1 DEF CallType, Steps
  <2> HIDE DEF d
  <2>7. /\ Mine(t, c.r)' /\ Coming(t, c.r)'
        /\ \A j \in Invoices : live[c.r][j] > 0 => Coming(t, <<c.r, j>>)'
    BY <1>1, <2>2, <2>3, <2>5, <2>6 DEF Mine, Coming
  <2>8. VoidOK(t)'
    BY <1>1, <1>3, <2>2, <2>5, <2>6, <2>7 DEF VoidOK, ledger
  <2>9. AllocationOK(t)' /\ SpendingOK(t)' /\ ReverseOK(t)' /\ DecisionOK(t)' /\ CreditOK(t)'
    BY <2>5, <2>6 DEF AllocationOK, SpendingOK, Spending, ReverseOK, DecisionOK, CreditOK
  <2>10. d.op # "none" /\ d.pc # "idle"
    BY <2>6
  <2> QED BY <1>0, <2>2, <2>4, <2>6, <2>8, <2>9, <2>10, QuietStep
<1> QED BY <1>2, <1>3

(* A step of t that writes and keeps its locks.                            *)
LEMMA WriteStep ==
    ASSUME IInv, NEW t \in Txns, NEW d \in CallType, txn' = [txn EXCEPT ![t] = d],
           UNCHANGED <<ledger, owner>>, d.op # "none", d.pc # "idle",
           WritesLocked(t)', LocksTyped' => WritesFit(t)',
           AllocationOK(t)', SpendingOK(t)', VoidOK(t)', ReverseOK(t)', DecisionOK(t)', CreditOK(t)'
    PROVE  IInv'
<1>1. txn'[t] = d
  BY DEF IInv, LocksTyped
<1>2. LocksTyped' => CallOK(t)'
  BY <1>1 DEF CallOK
<1>3. owner' \in [Rows -> Txns \cup {None}] /\ \A row \in Rows : owner[row] \in Txns \ {t} => owner'[row] = owner[row]
  BY DEF IInv, LocksTyped
<1> QED BY <1>2, <1>3, PrivateStep

(* Writes that lower allocations fit whenever the ledger is sound.         *)
LEMMA LowerWritesFit ==
    ASSUME IInv, NEW t \in Txns, LocksTyped', UNCHANGED ledger,
           \A q \in Receipts, j \in Invoices : Seen(t)'[q][j] <= live[q][j]
    PROVE  WritesFit(t)'
<1>1. /\ CallFacts(t)' /\ Seen(t)' \in Grid /\ live \in Grid
      /\ \A r \in Receipts : refunds[r] \in Nat /\ Cash[r] \in Nat
      /\ \A i \in Invoices : credit[i] \in Nat /\ Bill[i] \in Nat
  BY CallTypedNext, CallTyped, Limits DEF CallFacts, IInv, LocksTyped
<1> DEFINE N == Seen(t)'
<1>2. /\ \A r \in Receipts : Uses(t, r)' = refunds[r] + Sum(N[r])
      /\ \A i \in Invoices : Covers(t, i)' = credit[i] + Sum(Column(N, i))
  BY DEF Uses, Covers, Column, ledger
<1>3. /\ \A r \in Receipts : refunds[r] + Sum(live[r]) <= Cash[r]
      /\ \A i \in Invoices : credit[i] + Sum(Column(live, i)) <= Bill[i]
  BY SoundMeans DEF IInv
<1> HIDE DEF N
<1>4. N \in Grid /\ \A q \in Receipts, j \in Invoices : N[q][j] <= live[q][j]
  BY <1>1 DEF N
<1>5. /\ \A r \in Receipts : Sum(N[r]) <= Sum(live[r]) /\ Sum(N[r]) \in Nat /\ Sum(live[r]) \in Nat
      /\ \A i \in Invoices : /\ Sum(Column(N, i)) <= Sum(Column(live, i))
                             /\ Sum(Column(N, i)) \in Nat /\ Sum(Column(live, i)) \in Nat
  BY <1>1, <1>4, GridLower, GridSums
<1>6. /\ \A r \in Receipts : refunds[r] + Sum(N[r]) <= Cash[r]
      /\ \A i \in Invoices : credit[i] + Sum(Column(N, i)) <= Bill[i]
  BY <1>1, <1>3, <1>5
<1> QED BY <1>2, <1>6 DEF WritesFit

(* void_receipt reverses what it has locked, which is all there is.        *)
LEMMA EraseKeeps ==
    ASSUME IInv, NEW t \in Txns, Erase(t)
    PROVE  IInv'
<1> DEFINE c == txn[t]
           w == [c.writes EXCEPT ![c.r] = Erased(t)]
           d == [c EXCEPT !.pc = "commit", !.writes = w]
<1>0. CallOK(t) /\ LocksTyped /\ c \in CallType /\ c.pc = "erase" /\ c.need = {} /\ c.op = "void"
  <2>1. CallOK(t) /\ LocksTyped /\ c \in CallType /\ c.pc = "erase" /\ c.need = {}
    BY DEF IInv, LocksTyped, Erase, Ready, At
  <2> QED BY <2>1, OpAtStep
<1>1. /\ c.r \in Receipts /\ Mine(t, c.r) /\ refunds[c.r] = 0 /\ c.writes = NoWrites
      /\ \A j \in Invoices : live[c.r][j] > 0 => Mine(t, <<c.r, j>>)
  BY <1>0 DEF CallOK, VoidOK, Coming
<1>2. Erased(t) \in [Invoices -> Amounts \cup {None}]
  <2>1. Invoices # {} => 0 \in Amounts
    BY AmountFacts
  <2> QED BY <2>1 DEF Erased
<1>3. w \in Writes /\ w[c.r] = Erased(t) /\ \A q \in Receipts \ {c.r} : w[q] = NoWrites[q]
  BY <1>1, <1>2, NoWritesTyped DEF Writes
<1>4. \A q \in Receipts, j \in Invoices :
        w[q][j] = IF q = c.r /\ Mine(t, <<c.r, j>>) THEN 0 ELSE None
  BY <1>3, NoWritesTyped DEF Erased, Mine
<1>5. UNCHANGED <<ledger, owner>>
  BY DEF Erase
<1> HIDE DEF w
<1>6. txn' = [txn EXCEPT ![t] = d]
  BY <1>0 DEF Erase, LocksTyped, w
<1>7. txn'[t] = d
  BY <1>0, <1>6 DEF LocksTyped
<1>8. d \in CallType /\ d.op = "void" /\ d.pc = "commit" /\ d.r = c.r /\ d.writes = w
  BY <1>0, <1>3 DEF CallType, Steps
<1> HIDE DEF d
<1>9. /\ Mine(t, c.r)' /\ Coming(t, c.r)'
      /\ \A j \in Invoices : Mine(t, <<c.r, j>>) => Mine(t, <<c.r, j>>)'
  BY <1>1, <1>5, <1>7, <1>8 DEF Mine, Coming
<1>10. live \in Grid /\ \A q \in Receipts, j \in Invoices : live[q][j] \in Nat
  BY <1>0, GridSums DEF LocksTyped
<1>11. \A q \in Receipts, j \in Invoices : Seen(t)'[q][j] = IF w[q][j] = None THEN live[q][j] ELSE w[q][j]
  BY <1>5, <1>7, <1>8 DEF Seen, Merged, ledger
<1>a. None # 0
  BY LocksAssumption
<1>12. /\ \A j \in Invoices : Seen(t)'[c.r][j] = 0
       /\ \A q \in Receipts, j \in Invoices : Seen(t)'[q][j] <= live[q][j]
  <2>1. ASSUME NEW q \in Receipts, NEW j \in Invoices
        PROVE  /\ Seen(t)'[q][j] <= live[q][j]
               /\ q = c.r => Seen(t)'[q][j] = 0
    <3>1. CASE q = c.r /\ Mine(t, <<c.r, j>>)
      <4>1. w[q][j] = 0
        BY <1>4, <3>1
      <4>2. Seen(t)'[q][j] = 0
        BY <1>11, <1>a, <4>1
      <4> QED BY <1>10, <4>2
    <3>2. CASE ~(q = c.r /\ Mine(t, <<c.r, j>>))
      <4>1. Seen(t)'[q][j] = live[q][j]
        BY <1>4, <1>11, <3>2
      <4> QED BY <1>1, <1>10, <3>2, <4>1
    <3> QED BY <3>1, <3>2
  <2> QED BY <1>1, <2>1
<1>13. WritesLocked(t)'
  <2>1. ASSUME NEW q \in Receipts, NEW j \in Invoices, w[q][j] # None
        PROVE  owner'[<<q, j>>] = t /\ ~(w[q][j] > live'[q][j])
    <3>1. q = c.r /\ owner[<<q, j>>] = t /\ w[q][j] = 0
      BY <1>4, <2>1 DEF Mine
    <3> QED BY <1>5, <1>10, <3>1 DEF ledger
  <2> QED BY <1>7, <1>8, <2>1 DEF WritesLocked, Mine
<1>14. VoidOK(t)'
  BY <1>1, <1>4, <1>5, <1>7, <1>8, <1>9, <1>12 DEF VoidOK, ledger
<1>15. AllocationOK(t)' /\ SpendingOK(t)' /\ ReverseOK(t)' /\ DecisionOK(t)' /\ CreditOK(t)'
  BY <1>7, <1>8 DEF AllocationOK, SpendingOK, Spending, ReverseOK, DecisionOK, CreditOK
<1>16. LocksTyped' => WritesFit(t)'
  BY <1>5, <1>12, LowerWritesFit
<1>17. d.op # "none" /\ d.pc # "idle"
  BY <1>8
<1> QED BY <1>5, <1>6, <1>8, <1>13, <1>14, <1>15, <1>16, <1>17, WriteStep


(* A call writes one allocation.                                           *)
LEMMA OneWrite ==
    ASSUME IInv, NEW t \in Txns, NEW r \in Receipts, NEW i \in Invoices, NEW v \in Amounts,
           UNCHANGED ledger, txn'[t].writes \in Writes, txn'[t].writes[r][i] = v,
           \A q \in Receipts, j \in Invoices :
              <<q, j>> # <<r, i>> => txn'[t].writes[q][j] = txn[t].writes[q][j]
    PROVE  /\ Uses(t, r)' = Uses(t, r) - Seen(t)[r][i] + v
           /\ Covers(t, i)' = Covers(t, i) - Seen(t)[r][i] + v
           /\ \A q \in Receipts \ {r} : Uses(t, q)' = Uses(t, q)
           /\ \A j \in Invoices \ {i} : Covers(t, j)' = Covers(t, j)
<1> DEFINE w == txn[t].writes
           x == txn'[t].writes
           M == Seen(t)
           N == Merged(x)
<1>1. LocksTyped /\ CallFacts(t) /\ w \in Writes /\ live \in Grid /\ M \in Grid
  BY CallTyped DEF IInv, LocksTyped, CallFacts
<1>3. /\ x \in Writes /\ x[r][i] = v
      /\ \A q \in Receipts, j \in Invoices : <<q, j>> # <<r, i>> => x[q][j] = w[q][j]
  OBVIOUS
<1>4. Seen(t)' = N
  BY DEF Seen, Merged, ledger
<1> HIDE DEF x
<1>5. /\ N \in Grid
      /\ \A q \in Receipts, j \in Invoices : N[q][j] = IF x[q][j] = None THEN live[q][j] ELSE x[q][j]
  BY <1>1, <1>3, SeenTyped
<1>6. \A q \in Receipts, j \in Invoices : M[q][j] = IF w[q][j] = None THEN live[q][j] ELSE w[q][j]
  BY <1>1 DEF CallFacts
<1> HIDE DEF N, M, w
<1>7. N[r][i] = v /\ \A q \in Receipts, j \in Invoices : <<q, j>> # <<r, i>> => N[q][j] = M[q][j]
  BY <1>3, <1>5, <1>6, AmountFacts
<1>8. /\ Sum(N[r]) = Sum(M[r]) - M[r][i] + v
      /\ Sum(Column(N, i)) = Sum(Column(M, i)) - M[r][i] + v
      /\ \A q \in Receipts \ {r} : N[q] = M[q]
      /\ \A j \in Invoices \ {i} : Column(N, j) = Column(M, j)
  BY <1>1, <1>5, <1>7, GridChange
<1>9. /\ \A q \in Receipts : Uses(t, q) = refunds[q] + Sum(M[q]) /\ Uses(t, q)' = refunds[q] + Sum(N[q])
      /\ \A j \in Invoices : /\ Covers(t, j) = credit[j] + Sum(Column(M, j))
                             /\ Covers(t, j)' = credit[j] + Sum(Column(N, j))
  BY <1>4 DEF Uses, Covers, Column, ledger, M
<1>10. /\ refunds[r] \in Nat /\ credit[i] \in Nat /\ v \in Nat /\ M[r][i] \in Nat
       /\ Sum(M[r]) \in Nat /\ Sum(Column(M, i)) \in Nat
  BY <1>1, GridSums, AmountFacts DEF CallFacts
<1>11. /\ Uses(t, r)' = Uses(t, r) - M[r][i] + v
       /\ Covers(t, i)' = Covers(t, i) - M[r][i] + v
  BY <1>8, <1>9, <1>10
<1>12. /\ \A q \in Receipts \ {r} : Uses(t, q)' = Uses(t, q)
       /\ \A j \in Invoices \ {i} : Covers(t, j)' = Covers(t, j)
  BY <1>8, <1>9
<1> QED BY <1>11, <1>12 DEF M

(* reverse_allocation.                                                     *)
LEMMA ReverseKeeps ==
    ASSUME IInv, NEW t \in Txns, Reverse(t)
    PROVE  IInv'
<1> DEFINE c == txn[t]
           w == [c.writes EXCEPT ![c.r][c.i] = 0]
           d == [c EXCEPT !.pc = "commit", !.writes = w]
<1>0. CallOK(t) /\ LocksTyped /\ c \in CallType /\ c.pc = "reverse" /\ c.need = {} /\ c.op = "reverse"
  <2>1. CallOK(t) /\ LocksTyped /\ c \in CallType /\ c.pc = "reverse" /\ c.need = {}
    BY DEF IInv, LocksTyped, Reverse, Ready, At
  <2> QED BY <2>1, OpAtStep
<1>1. c.r \in Receipts /\ c.i \in Invoices /\ c.writes = NoWrites /\ Mine(t, <<c.r, c.i>>)
  BY <1>0 DEF CallOK, ReverseOK, Coming
<1>2. UNCHANGED <<ledger, owner>> /\ 0 \in Amounts
  BY <1>1, AmountFacts DEF Reverse
<1>3. /\ w \in Writes /\ w[c.r][c.i] = 0
      /\ \A q \in Receipts, j \in Invoices : <<q, j>> # <<c.r, c.i>> => w[q][j] = c.writes[q][j]
  <2>1. c.writes \in Writes /\ c.writes[c.r] \in [Invoices -> Amounts \cup {None}]
    BY <1>0, <1>1 DEF CallType, Writes
  <2> QED BY <1>1, <1>2, <2>1 DEF Writes
<1> HIDE DEF w
<1>4. txn' = [txn EXCEPT ![t] = d]
  BY <1>0 DEF Reverse, LocksTyped, w
<1>5. txn'[t] = d
  BY <1>0, <1>4 DEF LocksTyped
<1>6. d \in CallType /\ d.op = "reverse" /\ d.pc = "commit" /\ d.r = c.r /\ d.i = c.i /\ d.writes = w
  BY <1>0, <1>3 DEF CallType, Steps
<1> HIDE DEF d
<1>7. w[c.r][c.i] = 0 /\ \A q \in Receipts, j \in Invoices : <<q, j>> # <<c.r, c.i>> => w[q][j] = None
  BY <1>1, <1>3, NoWritesTyped
<1>8. \A q \in Receipts, j \in Invoices : w[q][j] # None => q = c.r /\ j = c.i /\ w[q][j] = 0
  BY <1>7
<1>9. /\ \A q \in Receipts, j \in Invoices : live[q][j] \in Nat
      /\ \A q \in Receipts, j \in Invoices : Seen(t)'[q][j] = IF w[q][j] = None THEN live[q][j] ELSE w[q][j]
  BY <1>0, <1>2, <1>5, <1>6, GridSums DEF Seen, Merged, ledger, LocksTyped
<1>10. \A q \in Receipts, j \in Invoices : Seen(t)'[q][j] <= live[q][j]
  BY <1>8, <1>9
<1>11. LocksTyped' => WritesFit(t)'
  BY <1>2, <1>10, LowerWritesFit
<1>12. WritesLocked(t)'
  <2>1. ASSUME NEW q \in Receipts, NEW j \in Invoices, w[q][j] # None
        PROVE  owner'[<<q, j>>] = t /\ ~(w[q][j] > live'[q][j])
    BY <1>1, <1>2, <1>8, <1>9, <2>1 DEF Mine, ledger
  <2> QED BY <1>5, <1>6, <2>1 DEF WritesLocked, Mine
<1>13. ReverseOK(t)'
  BY <1>1, <1>5, <1>6, <1>8 DEF ReverseOK
<1>14. AllocationOK(t)' /\ SpendingOK(t)' /\ VoidOK(t)' /\ DecisionOK(t)' /\ CreditOK(t)'
  BY <1>5, <1>6 DEF AllocationOK, SpendingOK, Spending, VoidOK, DecisionOK, CreditOK
<1>15. d.op # "none" /\ d.pc # "idle"
  BY <1>6
<1> QED BY <1>2, <1>4, <1>6, <1>11, <1>12, <1>13, <1>14, <1>15, WriteStep


(* An allocation is inserted under the locks of its receipt, its invoice   *)
(* and its slot.                                                           *)
LEMMA InsertKeeps ==
    ASSUME IInv, NEW t \in Txns, Insert(t)
    PROVE  IInv'
<1> DEFINE c == txn[t]
           w == [c.writes EXCEPT ![c.r][c.i] = c.take]
           rest == Minus(c.rest, c.take)
           step == CASE c.op = "allocate" -> "commit" [] c.op = "credit" -> "peel" [] OTHER -> "next"
           d == [c EXCEPT !.writes = w, !.rest = rest, !.pc = step]
<1>0. /\ CallOK(t) /\ LocksTyped /\ c \in CallType /\ c.pc = "insert" /\ c.need = {}
      /\ c.op \in Spending \cup {"credit"}
  <2>1. CallOK(t) /\ LocksTyped /\ c \in CallType /\ c.pc = "insert" /\ c.need = {}
    BY DEF IInv, LocksTyped, Insert, Ready, At
  <2> QED BY <2>1, OpAtStep
<1>1. /\ c.r \in Receipts /\ c.i \in Invoices /\ Mine(t, c.r) /\ Mine(t, c.i) /\ Mine(t, <<c.r, c.i>>)
      /\ open[c.i] /\ posted[c.r]
      /\ Uses(t, c.r) + c.take <= Cash[c.r] /\ Covers(t, c.i) + c.take <= Bill[c.i]
  BY <1>0 DEF CallOK, AllocationOK, Coming
<1>f. CallFacts(t) /\ WritesFit(t)
  BY <1>0, CallTyped DEF CallOK
<1>2. CASE Seen(t)[c.r][c.i] > 0
  BY <1>2, RollbackKeeps DEF Insert
<1>3. CASE ~(Seen(t)[c.r][c.i] > 0)
  <2>1. /\ Seen(t)[c.r][c.i] = 0 /\ Uses(t, c.r) \in Nat /\ Covers(t, c.i) \in Nat
        /\ Cash[c.r] \in Nat /\ Bill[c.i] \in Nat /\ c.take \in Nat /\ c.rest \in Nat /\ c.x \in Nat
    BY <1>1, <1>3, <1>f, Limits DEF CallFacts
  <2>2. c.take \in Amounts /\ rest \in Nat /\ (c.rest = 0 => rest = 0)
    <3>1. c.take \in 0 .. Cash[c.r]
      BY <1>1, <2>1
    <3> QED BY <1>1, <2>1, <3>1, AmountFacts DEF Minus
  <2>3. /\ txn' = [txn EXCEPT ![t].writes[c.r][c.i] = c.take, ![t].rest = Minus(@, c.take), ![t].pc = step]
        /\ UNCHANGED <<ledger, owner>>
    BY <1>3 DEF Insert
  <2>4. step \in Steps /\ step # "idle"
        /\ (c.op = "allocate" => step = "commit") /\ (c.op = "credit" => step = "peel")
        /\ (c.op \in {"bulk", "clear"} => step = "next")
    BY DEF Steps
  <2> HIDE DEF step
  <2>5. txn' = [txn EXCEPT ![t] = d]
    BY <1>0, <2>3 DEF LocksTyped
  <2>6. txn'[t] = d
    BY <1>0, <2>5 DEF LocksTyped
  <2>7. /\ w \in Writes /\ w[c.r][c.i] = c.take
        /\ \A q \in Receipts, j \in Invoices : <<q, j>> # <<c.r, c.i>> => w[q][j] = c.writes[q][j]
    <3>1. c.writes \in Writes /\ c.writes[c.r] \in [Invoices -> Amounts \cup {None}]
      BY <1>0, <1>1 DEF CallType, Writes
    <3> QED BY <1>1, <2>2, <3>1 DEF Writes
  <2> HIDE DEF w, rest
  <2>8. /\ d \in CallType /\ d.op = c.op /\ d.pc = step /\ d.r = c.r /\ d.i = c.i /\ d.x = c.x
        /\ d.rest = rest /\ d.writes = w /\ d.need = {}
    BY <1>0, <2>2, <2>4, <2>7 DEF CallType
  <2> HIDE DEF d
  <2>p. PICK r \in Receipts, i \in Invoices, v \in Amounts : r = c.r /\ i = c.i /\ v = c.take
    BY <1>1, <2>2
  <2>10. /\ w[r][i] = v
         /\ \A q \in Receipts, j \in Invoices : <<q, j>> # <<r, i>> => w[q][j] = c.writes[q][j]
         /\ Uses(t, r)' = Uses(t, r) - Seen(t)[r][i] + v
         /\ Covers(t, i)' = Covers(t, i) - Seen(t)[r][i] + v
         /\ \A q \in Receipts \ {r} : Uses(t, q)' = Uses(t, q)
         /\ \A j \in Invoices \ {i} : Covers(t, j)' = Covers(t, j)
    <3>1. /\ txn'[t].writes = w /\ w \in Writes /\ w[r][i] = v /\ UNCHANGED ledger
          /\ \A q \in Receipts, j \in Invoices : <<q, j>> # <<r, i>> => w[q][j] = c.writes[q][j]
      BY <2>3, <2>6, <2>7, <2>8, <2>p
    <3> QED BY <3>1, OneWrite
  <2>11. Uses(t, r)' = Uses(t, r) + v /\ Covers(t, i)' = Covers(t, i) + v
    <3>1. Seen(t)[r][i] = 0 /\ Uses(t, r) \in Nat /\ Covers(t, i) \in Nat /\ v \in Nat
      BY <2>1, <2>p
    <3> QED BY <2>10, <3>1
  <2>12. WritesFit(t)'
    <3>1. /\ Uses(t, r)' <= Cash[r] /\ Covers(t, i)' <= Bill[i]
      BY <1>1, <2>11, <2>p
    <3>2. \A q \in Receipts : Uses(t, q)' <= Cash[q]
      BY <1>f, <2>10, <3>1 DEF WritesFit
    <3>3. \A j \in Invoices : Covers(t, j)' <= Bill[j]
      BY <1>f, <2>10, <3>1 DEF WritesFit
    <3> QED BY <3>2, <3>3 DEF WritesFit
  <2>13. WritesLocked(t)'
    <3>1. ASSUME NEW q \in Receipts, NEW j \in Invoices, w[q][j] # None
          PROVE  /\ owner'[<<q, j>>] = t
                 /\ w[q][j] > live'[q][j] => owner'[q] = t /\ owner'[j] = t /\ posted'[q] /\ open'[j]
      <4>1. CASE <<q, j>> = <<r, i>>
        <5>1. q = r /\ j = i
          BY <4>1
        <5> QED BY <1>1, <2>3, <2>p, <5>1 DEF Mine, ledger
      <4>2. CASE <<q, j>> # <<r, i>>
        <5>1. w[q][j] = c.writes[q][j]
          BY <2>10, <4>2
        <5> QED BY <1>0, <2>3, <3>1, <5>1 DEF CallOK, WritesLocked, Mine, ledger
      <4> QED BY <4>1, <4>2
    <3> QED BY <2>6, <2>8, <3>1 DEF WritesLocked, Mine
  <2>14. \A row : Mine(t, row)' <=> Mine(t, row)
    BY <2>3 DEF Mine
  <2>15. AllocationOK(t)'
    BY <1>0, <2>4, <2>6, <2>8 DEF AllocationOK, Spending
  <2>16. SpendingOK(t)'
    <3> SUFFICES ASSUME c.op \in Spending PROVE SpendingOK(t)'
      BY <2>6, <2>8 DEF SpendingOK
    <3>1. step \in {"commit", "next"}
      BY <2>4 DEF Spending
    <3>2. \A q \in Receipts, j \in Invoices : w[q][j] # None => q = r
      <4>1. \A q \in Receipts, j \in Invoices : c.writes[q][j] # None => q = r
        BY <1>0, <2>p DEF CallOK, SpendingOK
      <4> QED BY <2>10, <4>1
    <3>3. Coming(t, r)'
      BY <1>1, <2>14, <2>p DEF Coming
    <3> QED BY <2>6, <2>8, <2>p, <3>1, <3>2, <3>3 DEF SpendingOK
  <2>17. CreditOK(t)'
    <3> SUFFICES ASSUME c.op = "credit" PROVE CreditOK(t)'
      BY <2>6, <2>8 DEF CreditOK
    <3>1. /\ credit[i] + c.x <= Bill[i] /\ c.writes[r][i] = 0 /\ v <= live[r][i]
          /\ c.rest = 0 /\ Covers(t, i) + c.x + v <= Bill[i]
          /\ \A q \in Receipts, j \in Invoices : c.writes[q][j] # None => j = i /\ c.writes[q][j] <= live[q][j]
      BY <1>0, <2>p DEF CallOK, CreditOK
    <3>2. \A q \in Receipts, j \in Invoices : w[q][j] # None => j = i /\ w[q][j] <= live[q][j]
      <4> TAKE q \in Receipts, j \in Invoices
      <4>1. CASE <<q, j>> = <<r, i>>
        <5>1. q = r /\ j = i
          BY <4>1
        <5> QED BY <2>10, <3>1, <5>1
      <4>2. CASE <<q, j>> # <<r, i>>
        BY <2>10, <3>1, <4>2
      <4> QED BY <4>1, <4>2
    <3>3. rest = 0 /\ Covers(t, i)' + c.x <= Bill[i] + 0
      <4>1. Covers(t, i) \in Nat /\ c.x \in Nat /\ v \in Nat /\ Bill[i] \in Nat
        BY <2>1, <2>p
      <4> QED BY <2>2, <2>11, <3>1, <4>1
    <3>4. open[i] /\ Mine(t, i)' /\ step = "peel"
      BY <1>1, <2>4, <2>14, <2>p
    <3>5. /\ txn'[t].pc = "peel" /\ txn'[t].i = i /\ txn'[t].x = c.x /\ txn'[t].rest = 0
          /\ txn'[t].writes = w
      BY <2>6, <2>8, <2>p, <3>3, <3>4
    <3>6. open'[i] /\ credit'[i] + c.x <= Bill[i] /\ live' = live
      BY <2>3, <3>1, <3>4 DEF ledger
    <3>7. ~(0 > 0)
      OBVIOUS
    <3> HIDE DEF c
    <3> QED BY <3>2, <3>3, <3>4, <3>5, <3>6, <3>7 DEF CreditOK
  <2>18. VoidOK(t)' /\ ReverseOK(t)' /\ DecisionOK(t)'
    BY <1>0, <2>6, <2>8 DEF VoidOK, ReverseOK, DecisionOK, Spending
  <2>19. d.op # "none" /\ d.pc # "idle"
    BY <1>0, <2>4, <2>8 DEF Spending
  <2> QED BY <2>3, <2>5, <2>8, <2>12, <2>13, <2>15, <2>16, <2>17, <2>18, <2>19, WriteStep
<1> QED BY <1>2, <1>3


(* complete_credit_note under the lock of its invoice.                     *)
LEMMA CompleteCreditNoteKeeps ==
    ASSUME IInv, NEW t \in Txns, NEW confirmed \in BOOLEAN, CompleteCreditNote(t, confirmed)
    PROVE  IInv'
<1> DEFINE c == txn[t]
           over == Minus(c.x, Outstanding(t, c.i))
           slots == {<<r, c.i>> : r \in {q \in Receipts : live[q][c.i] > 0}}
           step == IF over = 0 THEN "commit" ELSE "peel"
           need == IF over = 0 THEN {} ELSE slots
           d == [c EXCEPT !.pc = step, !.rest = over, !.need = need]
           rule == open[c.i] /\ c.x <= Bill[c.i] - credit[c.i] /\ (over = 0 \/ confirmed)
<1>0. CallOK(t) /\ LocksTyped /\ c \in CallType /\ c.pc = "credit" /\ c.need = {} /\ c.op = "credit"
  <2>1. CallOK(t) /\ LocksTyped /\ c \in CallType /\ c.pc = "credit" /\ c.need = {}
    BY DEF IInv, LocksTyped, CompleteCreditNote, Ready, At
  <2> QED BY <2>1, OpAtStep
<1>1. c.i \in Invoices /\ Mine(t, c.i) /\ c.writes = NoWrites
  BY <1>0 DEF CallOK, CreditOK, Coming
<1>2. CASE ~rule
  BY <1>2, RollbackKeeps DEF CompleteCreditNote
<1>3. CASE rule
  <2>p. PICK i \in Invoices : i = c.i
    BY <1>1
  <2>1. /\ Outstanding(t, i) \in Nat /\ Covers(t, i) + Outstanding(t, i) = Bill[i]
        /\ Covers(t, i) \in Nat /\ Bill[i] \in Nat /\ credit[i] \in Nat /\ c.x \in Nat
    BY <1>0, Room, CallTyped, Limits DEF CallOK, CallFacts
  <2>2. over \in Nat /\ Covers(t, i) + c.x <= Bill[i] + over
    BY <2>1, <2>p DEF Minus
  <2>3. /\ txn' = [txn EXCEPT ![t].pc = step, ![t].rest = over, ![t].need = need]
        /\ UNCHANGED <<ledger, owner>>
    BY <1>3 DEF CompleteCreditNote
  <2>4. /\ need \in SUBSET Rows /\ step \in {"commit", "peel"} /\ (over = 0 <=> step = "commit")
        /\ (step = "peel" => \A q \in Receipts : live[q][i] > 0 => <<q, i>> \in need)
    BY <1>1, <2>p, Limits
  <2>5. credit[i] + c.x <= Bill[i] /\ open[i]
    BY <1>3, <2>1, <2>p
  <2> HIDE DEF over, need, step
  <2>6. txn' = [txn EXCEPT ![t] = d]
    BY <1>0, <2>3 DEF LocksTyped
  <2>7. txn'[t] = d
    BY <1>0, <2>6 DEF LocksTyped
  <2>8. /\ d \in CallType /\ d.op = "credit" /\ d.pc = step /\ d.i = i /\ d.x = c.x /\ d.rest = over
        /\ d.need = need /\ d.writes = NoWrites
    BY <1>0, <1>1, <2>2, <2>4, <2>p DEF CallType, Steps
  <2> HIDE DEF d
  <2>9. /\ Mine(t, i)' /\ Covers(t, i)' = Covers(t, i)
        /\ (step = "peel" => \A q \in Receipts : live[q][i] > 0 => Coming(t, <<q, i>>)')
    BY <1>1, <2>3, <2>4, <2>7, <2>8, <2>p, QuietFacts DEF Coming
  <2>10. CreditOK(t)'
    <3>1. /\ \A q \in Receipts, j \in Invoices : NoWrites[q][j] = None
          /\ open'[i] /\ credit'[i] + c.x <= Bill[i] /\ live' = live
      BY <2>3, <2>5, NoWritesTyped DEF ledger
    <3>2. /\ txn'[t].op = "credit" /\ txn'[t].pc = step /\ txn'[t].i = i /\ txn'[t].x = c.x
          /\ txn'[t].rest = over /\ txn'[t].writes = NoWrites
      BY <2>7, <2>8
    <3>3. /\ step = "commit" => Covers(t, i)' + c.x <= Bill[i]
          /\ Covers(t, i)' + c.x <= Bill[i] + over
      BY <2>1, <2>2, <2>4, <2>9
    <3> HIDE DEF c
    <3> QED BY <2>4, <2>9, <3>1, <3>2, <3>3 DEF CreditOK
  <2>11. AllocationOK(t)' /\ SpendingOK(t)' /\ VoidOK(t)' /\ ReverseOK(t)' /\ DecisionOK(t)'
    BY <2>4, <2>7, <2>8 DEF AllocationOK, SpendingOK, Spending, VoidOK, ReverseOK, DecisionOK
  <2>12. d.op # "none" /\ d.pc # "idle" /\ d.op = c.op /\ d.writes = c.writes
    BY <1>0, <1>1, <2>4, <2>8
  <2> QED BY <2>3, <2>6, <2>8, <2>10, <2>11, <2>12, QuietStep
<1> QED BY <1>2, <1>3

(* One allocation is peeled off.                                           *)
LEMMA PeelKeeps ==
    ASSUME IInv, NEW t \in Txns, NEW r \in Receipts, Peel(t, r)
    PROVE  IInv'
<1> DEFINE c == txn[t]
           amount == live[r][c.i]
           w == [c.writes EXCEPT ![r][c.i] = 0]
           rest == Minus(c.rest, amount)
           take == Minus(amount, c.rest)
           step == IF amount > c.rest THEN "receipt" ELSE "peel"
           d == [c EXCEPT !.writes = w, !.rest = rest, !.r = r, !.take = take, !.pc = step]
<1>0. CallOK(t) /\ LocksTyped /\ c \in CallType /\ c.pc = "peel" /\ c.need = {} /\ c.op = "credit"
  <2>1. CallOK(t) /\ LocksTyped /\ c \in CallType /\ c.pc = "peel" /\ c.need = {}
    BY DEF IInv, LocksTyped, Peel, Ready, At
  <2> QED BY <2>1, OpAtStep
<1>1. /\ c.i \in Invoices /\ Mine(t, c.i) /\ open[c.i] /\ credit[c.i] + c.x <= Bill[c.i]
      /\ \A q \in Receipts, j \in Invoices : c.writes[q][j] # None => j = c.i /\ c.writes[q][j] <= live[q][j]
      /\ Covers(t, c.i) + c.x <= Bill[c.i] + c.rest
      /\ c.rest > 0 => \A q \in Receipts : /\ live[q][c.i] > 0 => Mine(t, <<q, c.i>>)
                                           /\ c.writes[q][c.i] \in {None, 0}
  BY <1>0 DEF CallOK, CreditOK, Coming
<1>p. PICK i \in Invoices : i = c.i
  BY <1>1
<1>2. /\ Mine(t, <<r, i>>) /\ c.writes[r][i] = None /\ amount > 0 /\ c.rest > 0
      /\ UNCHANGED <<ledger, owner>>
      /\ txn' = [txn EXCEPT ![t].writes[r][c.i] = 0, ![t].rest = rest, ![t].r = r, ![t].take = take, ![t].pc = step]
  BY <1>p DEF Peel, Mine
<1>3. /\ amount \in Nat /\ c.rest \in Nat /\ c.x \in Nat /\ Covers(t, i) \in Nat /\ Bill[i] \in Nat
      /\ \A q \in Receipts, j \in Invoices : live[q][j] \in Nat
      /\ Seen(t)[r][i] = amount /\ 0 \in Amounts /\ WritesFit(t)
      /\ Uses(t, r) \in Nat /\ Cash[r] \in Nat
  BY <1>0, <1>1, <1>2, <1>p, CallTyped, Limits, AmountFacts DEF CallFacts, CallOK
<1>4. /\ rest \in Nat /\ take \in Nat
      /\ step = "receipt" => rest = 0 /\ take + c.rest = amount
      /\ step = "peel" => rest + amount = c.rest
      /\ step \in {"receipt", "peel"}
  BY <1>3 DEF Minus
<1>5. /\ w \in Writes /\ w[r][i] = 0
      /\ \A q \in Receipts, j \in Invoices : <<q, j>> # <<r, i>> => w[q][j] = c.writes[q][j]
  <2>1. c.writes \in Writes /\ c.writes[r] \in [Invoices -> Amounts \cup {None}]
    BY <1>0, <1>1 DEF CallType, Writes
  <2> QED BY <1>1, <1>3, <1>p, <2>1 DEF Writes
<1>6. txn' = [txn EXCEPT ![t] = d]
  BY <1>0, <1>2 DEF LocksTyped
<1>7. txn'[t] = d
  BY <1>0, <1>6 DEF LocksTyped
<1> HIDE DEF w, rest, take, step
<1>8. /\ d \in CallType /\ d.op = "credit" /\ d.pc = step /\ d.r = r /\ d.i = i /\ d.x = c.x
      /\ d.take = take /\ d.rest = rest /\ d.need = {} /\ d.writes = w
  BY <1>0, <1>4, <1>5, <1>p DEF CallType, Steps
<1> HIDE DEF d
<1>9. /\ Covers(t, i)' = Covers(t, i) - amount /\ Uses(t, r)' = Uses(t, r) - amount
      /\ \A q \in Receipts \ {r} : Uses(t, q)' = Uses(t, q)
      /\ \A j \in Invoices \ {i} : Covers(t, j)' = Covers(t, j)
  <2>1. /\ txn'[t].writes = w /\ UNCHANGED ledger
    BY <1>2, <1>7, <1>8
  <2>2. /\ Uses(t, r)' = Uses(t, r) - Seen(t)[r][i] + 0
        /\ Covers(t, i)' = Covers(t, i) - Seen(t)[r][i] + 0
        /\ \A q \in Receipts \ {r} : Uses(t, q)' = Uses(t, q)
        /\ \A j \in Invoices \ {i} : Covers(t, j)' = Covers(t, j)
    BY <1>3, <1>5, <2>1, OneWrite
  <2> QED BY <1>3, <2>2
<1>10. WritesFit(t)'
  <2>1. Uses(t, r)' <= Cash[r] /\ Covers(t, i)' <= Bill[i]
    <3>1. Uses(t, r) <= Cash[r] /\ Covers(t, i) <= Bill[i]
      BY <1>3 DEF WritesFit
    <3> QED BY <1>3, <1>9, <3>1
  <2>2. (\A q \in Receipts : Uses(t, q)' <= Cash[q]) /\ (\A j \in Invoices : Covers(t, j)' <= Bill[j])
    BY <1>3, <1>9, <2>1 DEF WritesFit
  <2> QED BY <2>2 DEF WritesFit
<1>11. ASSUME NEW q \in Receipts, NEW j \in Invoices, w[q][j] # None
       PROVE  j = i /\ owner'[<<q, j>>] = t /\ w[q][j] <= live'[q][j] /\ ~(w[q][j] > live'[q][j])
  <2>1. CASE <<q, j>> = <<r, i>>
    <3>1. q = r /\ j = i
      BY <2>1
    <3> QED BY <1>2, <1>3, <1>5, <3>1 DEF Mine, ledger
  <2>2. CASE <<q, j>> # <<r, i>>
    <3>1. w[q][j] = c.writes[q][j]
      BY <1>5, <2>2
    <3>2. owner[<<q, j>>] = t /\ w[q][j] <= live[q][j] /\ j = i
      BY <1>0, <1>1, <1>11, <1>p, <3>1 DEF CallOK, WritesLocked, Mine
    <3>3. w[q][j] \in Nat
      <4>1. w[q] \in [Invoices -> Amounts \cup {None}]
        BY <1>5 DEF Writes
      <4> QED BY <1>11, <4>1, AmountFacts
    <3> QED BY <1>2, <1>3, <3>2, <3>3 DEF ledger
  <2> QED BY <2>1, <2>2
<1>12. WritesLocked(t)'
  BY <1>7, <1>8, <1>11 DEF WritesLocked, Mine
<1>13. \A row : Mine(t, row)' <=> Mine(t, row)
  BY <1>2 DEF Mine
<1>14. CreditOK(t)'
  <2>1. /\ txn'[t].pc = step /\ txn'[t].r = r /\ txn'[t].i = i /\ txn'[t].x = c.x
        /\ txn'[t].take = take /\ txn'[t].rest = rest /\ txn'[t].writes = w
    BY <1>7, <1>8
  <2>2. Mine(t, i)' /\ open'[i] /\ credit'[i] + c.x <= Bill[i] /\ live' = live
    BY <1>1, <1>2, <1>13, <1>p DEF ledger
  <2>3. step = "peel" =>
          /\ Covers(t, i)' + c.x <= Bill[i] + rest
          /\ \A q \in Receipts : (live[q][i] > 0 => Coming(t, <<q, i>>)') /\ w[q][i] \in {None, 0}
    <3>1. step = "peel" => Covers(t, i)' + c.x <= Bill[i] + rest
      BY <1>1, <1>3, <1>4, <1>9, <1>p
    <3>2. \A q \in Receipts : live[q][i] > 0 => Coming(t, <<q, i>>)'
      BY <1>1, <1>2, <1>13, <1>p DEF Coming
    <3>3. \A q \in Receipts : w[q][i] \in {None, 0}
      BY <1>1, <1>2, <1>5, <1>p
    <3> QED BY <3>1, <3>2, <3>3
  <2>4. step = "receipt" =>
          /\ Mine(t, <<r, i>>)' /\ w[r][i] = 0 /\ take <= live[r][i]
          /\ rest = 0 /\ Covers(t, i)' + c.x + take <= Bill[i]
    <3> SUFFICES ASSUME step = "receipt"
                 PROVE  /\ Mine(t, <<r, i>>)' /\ w[r][i] = 0 /\ take <= live[r][i]
                        /\ rest = 0 /\ Covers(t, i)' + c.x + take <= Bill[i]
      OBVIOUS
    <3>1. Mine(t, <<r, i>>)'
      BY <1>1, <1>2, <1>13, <1>p
    <3>2. w[r][i] = 0 /\ take <= live[r][i]
      <4>1. amount = live[r][i]
        BY <1>p
      <4>2. take + c.rest = amount /\ amount \in Nat /\ c.rest \in Nat /\ take \in Nat /\ live[r][i] \in Nat
        BY <1>1, <1>3, <1>4
      <4> QED BY <1>5, <4>1, <4>2
    <3>3. rest = 0 /\ Covers(t, i)' + c.x + take <= Bill[i]
      BY <1>1, <1>3, <1>4, <1>9, <1>p
    <3> QED BY <3>1, <3>2, <3>3
  <2> HIDE DEF c
  <2> QED BY <1>4, <1>11, <2>1, <2>2, <2>3, <2>4 DEF CreditOK
<1>15. AllocationOK(t)'
  BY <1>1, <1>4, <1>7, <1>8, <1>13, <1>p DEF AllocationOK, Coming
<1>16. SpendingOK(t)' /\ VoidOK(t)' /\ ReverseOK(t)' /\ DecisionOK(t)'
  BY <1>7, <1>8 DEF SpendingOK, Spending, VoidOK, ReverseOK, DecisionOK
<1>17. d.op # "none" /\ d.pc # "idle"
  BY <1>4, <1>8
<1> QED BY <1>2, <1>6, <1>8, <1>10, <1>12, <1>14, <1>15, <1>16, <1>17, WriteStep


(* Enough is peeled off, or everything.                                    *)
LEMMA PeeledKeeps ==
    ASSUME IInv, NEW t \in Txns, Peeled(t)
    PROVE  IInv'
<1> DEFINE c == txn[t]
           d == txn'[t]
<1>0. CallOK(t) /\ LocksTyped /\ c \in CallType /\ c.pc = "peel" /\ c.need = {} /\ c.op = "credit"
  <2>1. CallOK(t) /\ LocksTyped /\ c \in CallType /\ c.pc = "peel" /\ c.need = {}
    BY DEF IInv, LocksTyped, Peeled, Ready, At
  <2> QED BY <2>1, OpAtStep
<1>1. /\ c.i \in Invoices /\ Mine(t, c.i) /\ open[c.i] /\ credit[c.i] + c.x <= Bill[c.i]
      /\ \A q \in Receipts, j \in Invoices : c.writes[q][j] # None => j = c.i /\ c.writes[q][j] <= live[q][j]
      /\ Covers(t, c.i) + c.x <= Bill[c.i] + c.rest
      /\ c.rest > 0 => \A q \in Receipts : /\ live[q][c.i] > 0 => Mine(t, <<q, c.i>>)
                                           /\ c.writes[q][c.i] \in {None, 0}
  BY <1>0 DEF CallOK, CreditOK, Coming
<1>p. PICK i \in Invoices : i = c.i
  BY <1>1
<1>2. /\ Goto(t, "commit") /\ UNCHANGED <<ledger, owner>>
      /\ \/ c.rest = 0
         \/ \A r \in Receipts : owner[<<r, i>>] = t => c.writes[r][i] # None \/ live[r][i] = 0
  BY <1>p DEF Peeled
<1>3. /\ d \in CallType /\ txn' = [txn EXCEPT ![t] = d]
      /\ d.pc = "commit" /\ d.op = c.op /\ d.i = i /\ d.x = c.x /\ d.writes = c.writes
  <2>1. "commit" \in Steps
    BY DEF Steps
  <2> QED BY <1>2, <1>p, <2>1, GotoFields
<1>f. /\ CallFacts(t) /\ Bill[i] \in Nat /\ Covers(t, i) \in Nat /\ credit[i] \in Nat
      /\ c.x \in Nat /\ c.rest \in Nat
  BY <1>0, CallTyped, Limits DEF CallFacts
<1>4. Covers(t, i) + c.x <= Bill[i]
  <2>1. CASE c.rest = 0
    BY <1>1, <1>f, <1>p, <2>1
  <2>2. CASE c.rest # 0
    <3>1. ASSUME NEW q \in Receipts PROVE Seen(t)[q][i] = 0
      <4>1. /\ live[q][i] \in Nat
            /\ Seen(t)[q][i] = IF c.writes[q][i] = None THEN live[q][i] ELSE c.writes[q][i]
        BY <1>f DEF CallFacts
      <4>2. c.rest > 0
        BY <1>f, <2>2
      <4>3. /\ live[q][i] > 0 => owner[<<q, i>>] = t
            /\ c.writes[q][i] \in {None, 0}
            /\ owner[<<q, i>>] = t => c.writes[q][i] # None \/ live[q][i] = 0
        BY <1>1, <1>2, <1>p, <2>2, <4>2 DEF Mine
      <4>4. CASE c.writes[q][i] = None
        BY <4>1, <4>3, <4>4
      <4>5. CASE c.writes[q][i] # None
        BY <4>1, <4>3, <4>5
      <4> QED BY <4>4, <4>5
    <3>2. Column(Seen(t), i) = [r \in Receipts |-> 0]
      BY <3>1 DEF Column
    <3>3. Covers(t, i) = credit[i]
      BY <1>f, <3>2, ZeroSums DEF Covers
    <3> QED BY <1>1, <1>p, <3>3
  <2> QED BY <2>1, <2>2
<1>5. Mine(t, i)' /\ Covers(t, i)' = Covers(t, i)
  BY <1>1, <1>2, <1>3, <1>p, QuietFacts
<1>6. CreditOK(t)'
  <2>1. open'[i] /\ credit'[i] + c.x <= Bill[i] /\ live' = live
    BY <1>1, <1>2, <1>p DEF ledger
  <2>2. \A q \in Receipts, j \in Invoices : d.writes[q][j] # None => j = i /\ d.writes[q][j] <= live[q][j]
    BY <1>1, <1>3, <1>p
  <2>3. Covers(t, i)' + c.x <= Bill[i]
    BY <1>4, <1>5
  <2> HIDE DEF c
  <2> QED BY <1>3, <1>5, <2>1, <2>2, <2>3 DEF CreditOK
<1>7. AllocationOK(t)' /\ SpendingOK(t)' /\ VoidOK(t)' /\ ReverseOK(t)' /\ DecisionOK(t)'
  BY <1>0, <1>3 DEF AllocationOK, SpendingOK, Spending, VoidOK, ReverseOK, DecisionOK
<1>8. d.op # "none" /\ d.pc # "idle"
  BY <1>0, <1>3
<1> QED BY <1>2, <1>3, <1>6, <1>7, <1>8, QuietStep


-----------------------------------------------------------------------------
(* The commit.  What each call has shown about itself before it commits:   *)
(* r and i stand for its receipt and its invoice, M for what it has seen.  *)
CommitOf(t, r, i, M) ==
    LET c == txn[t] IN
    /\ live' = M /\ owner' = Freed(t) /\ txn' = [txn EXCEPT ![t] = Idle]
    /\ \/ /\ c.op \in Spending \cup {"reverse"}
          /\ r \in Receipts /\ \A q \in Receipts \ {r} : M[q] = live[q]
          /\ UNCHANGED <<posted, refunds, open, credit>>
       \/ /\ c.op = "void"
          /\ r \in Receipts /\ Mine(t, r) /\ refunds[r] = 0
          /\ M[r] = [j \in Invoices |-> 0] /\ \A q \in Receipts \ {r} : M[q] = live[q]
          /\ posted' = [posted EXCEPT ![r] = FALSE]
          /\ UNCHANGED <<refunds, open, credit>>
       \/ /\ c.op \in {"refund", "unrefund"}
          /\ r \in Receipts /\ Mine(t, r) /\ posted[r] /\ M = live
          /\ refunds' = [refunds EXCEPT ![r] = refunds'[r]]
          /\ refunds'[r] \in Nat /\ refunds'[r] + Sum(M[r]) <= Cash[r]
          /\ UNCHANGED <<posted, open, credit>>
       \/ /\ c.op = "cancel"
          /\ i \in Invoices /\ Mine(t, i) /\ M = live
          /\ credit[i] = 0 /\ \A q \in Receipts : live[q][i] = 0
          /\ open' = [open EXCEPT ![i] = FALSE]
          /\ UNCHANGED <<posted, refunds, credit>>
       \/ /\ c.op = "credit"
          /\ i \in Invoices /\ Mine(t, i) /\ open[i]
          /\ \A q \in Receipts : /\ M[q] = [live[q] EXCEPT ![i] = M[q][i]]
                                 /\ M[q][i] <= live[q][i]
          /\ credit' = [credit EXCEPT ![i] = credit'[i]]
          /\ credit'[i] \in Nat /\ credit'[i] + Sum(Column(M, i)) <= Bill[i]
          /\ UNCHANGED <<posted, refunds, open>>

(* A row of the table that the call has not written.                       *)
LEMMA UntouchedRow ==
    ASSUME LocksTyped, NEW t \in Txns, NEW q \in Receipts, \A j \in Invoices : txn[t].writes[q][j] = None
    PROVE  Seen(t)[q] = live[q]
<1>1. CallFacts(t) /\ live \in Grid
  BY CallTyped DEF LocksTyped
<1>2. Seen(t)[q] \in [Invoices -> Amounts] /\ live[q] \in [Invoices -> Amounts]
  BY <1>1 DEF CallFacts, Grid
<1>3. \A j \in Invoices : Seen(t)[q][j] = live[q][j]
  BY <1>1 DEF CallFacts
<1> QED BY <1>2, <1>3

LEMMA UnwrittenSeen ==
    ASSUME LocksTyped, NEW t \in Txns, txn[t].writes = NoWrites
    PROVE  Seen(t) = live
BY NoWritesMerged DEF Seen, LocksTyped

LEMMA CommitShape ==
    ASSUME IInv, NEW t \in Txns, Commit(t)
    PROVE  CommitOf(t, txn[t].r, txn[t].i, Seen(t))
<1> DEFINE c == txn[t]
           r == c.r
           i == c.i
           M == Seen(t)
<1>0. CallOK(t) /\ LocksTyped /\ c \in CallType /\ c.pc = "commit" /\ c.need = {} /\ c.op # "none"
  <2>1. CallOK(t) /\ LocksTyped /\ c \in CallType /\ c.pc = "commit" /\ c.need = {}
    BY DEF IInv, LocksTyped, Commit, Ready, At
  <2> QED BY <2>1, OpAtStep
<1>f. CallFacts(t)
  BY <1>0, CallTyped
<1>1. /\ live' = M /\ owner' = Freed(t) /\ txn' = [txn EXCEPT ![t] = Idle]
      /\ posted' = IF c.op = "void" THEN [posted EXCEPT ![r] = FALSE] ELSE posted
      /\ refunds' = IF c.op = "refund" THEN [refunds EXCEPT ![r] = @ + c.x]
                    ELSE IF c.op = "unrefund" THEN [refunds EXCEPT ![r] = @ - c.x]
                    ELSE refunds
      /\ open' = IF c.op = "cancel" THEN [open EXCEPT ![i] = FALSE] ELSE open
      /\ credit' = IF c.op = "credit" THEN [credit EXCEPT ![i] = @ + c.x] ELSE credit
  BY DEF Commit, Seen
<1>2. c.op \in Spending \cup {"reverse", "void", "refund", "unrefund", "cancel", "credit"}
  BY <1>0 DEF CallType, Ops, Spending
<1>3. CASE c.op \in Spending \cup {"reverse"}
  <2>1. r \in Receipts /\ \A q \in Receipts, j \in Invoices : c.writes[q][j] # None => q = r
    BY <1>0, <1>3 DEF CallOK, SpendingOK, ReverseOK
  <2>2. \A q \in Receipts \ {r} : M[q] = live[q]
    BY <1>0, <2>1, UntouchedRow
  <2>3. UNCHANGED <<posted, refunds, open, credit>>
    BY <1>1, <1>3 DEF Spending
  <2> QED BY <1>1, <1>3, <2>1, <2>2, <2>3 DEF CommitOf
<1>4. CASE c.op = "void"
  <2>1. /\ r \in Receipts /\ Mine(t, r) /\ refunds[r] = 0
        /\ \A j \in Invoices : M[r][j] = 0
        /\ \A q \in Receipts \ {r}, j \in Invoices : c.writes[q][j] = None
    BY <1>0, <1>4 DEF CallOK, VoidOK
  <2>2. \A q \in Receipts \ {r} : M[q] = live[q]
    BY <1>0, <2>1, UntouchedRow
  <2>3. M[r] = [j \in Invoices |-> 0]
    <3>1. M[r] \in [Invoices -> Amounts]
      BY <1>f, <2>1 DEF CallFacts, Grid
    <3> QED BY <2>1, <3>1
  <2>4. posted' = [posted EXCEPT ![r] = FALSE] /\ UNCHANGED <<refunds, open, credit>>
    BY <1>1, <1>4
  <2> QED BY <1>1, <1>4, <2>1, <2>2, <2>3, <2>4 DEF CommitOf
<1>5. CASE c.op \in {"refund", "unrefund"}
  <2>1. r \in Receipts /\ Mine(t, r) /\ posted[r] /\ c.writes = NoWrites
    BY <1>0, <1>5 DEF CallOK, DecisionOK
  <2>2. M = live
    BY <1>0, <2>1, UnwrittenSeen
  <2>3. /\ refunds[r] \in Nat /\ c.x \in Nat /\ Sum(M[r]) \in Nat /\ Cash[r] \in Nat
        /\ refunds[r] + Sum(M[r]) <= Cash[r] /\ refunds \in [Receipts -> Amounts]
    BY <1>0, <1>f, <2>1, Limits, GridSums DEF CallFacts, CallOK, WritesFit, Uses, LocksTyped
  <2>4. UNCHANGED <<posted, open, credit>>
    BY <1>1, <1>5
  <2>5. CASE c.op = "refund"
    <3>1. refunds[r] + Sum(M[r]) + c.x <= Cash[r]
      BY <1>0, <2>5 DEF CallOK, DecisionOK, Uses
    <3>2. refunds' = [refunds EXCEPT ![r] = refunds[r] + c.x] /\ refunds'[r] = refunds[r] + c.x
      BY <1>1, <2>1, <2>3, <2>5
    <3> HIDE DEF M
    <3>3. refunds'[r] \in Nat /\ refunds'[r] + Sum(M[r]) <= Cash[r]
      BY <2>3, <3>1, <3>2
    <3> QED BY <1>1, <2>1, <2>2, <2>4, <2>5, <3>2, <3>3 DEF CommitOf, M
  <2>6. CASE c.op = "unrefund"
    <3>1. c.x <= refunds[r]
      BY <1>0, <2>6 DEF CallOK, DecisionOK
    <3>2. refunds' = [refunds EXCEPT ![r] = refunds[r] - c.x] /\ refunds'[r] = refunds[r] - c.x
      BY <1>1, <2>1, <2>3, <2>6
    <3> HIDE DEF M
    <3>3. refunds'[r] \in Nat /\ refunds'[r] + Sum(M[r]) <= Cash[r]
      BY <2>3, <3>1, <3>2
    <3> QED BY <1>1, <2>1, <2>2, <2>4, <2>6, <3>2, <3>3 DEF CommitOf, M
  <2> QED BY <1>5, <2>5, <2>6
<1>6. CASE c.op = "cancel"
  <2>1. /\ i \in Invoices /\ Mine(t, i) /\ c.writes = NoWrites
        /\ credit[i] = 0 /\ \A q \in Receipts : live[q][i] = 0
    BY <1>0, <1>6 DEF CallOK, DecisionOK
  <2>2. M = live
    BY <1>0, <2>1, UnwrittenSeen
  <2>3. open' = [open EXCEPT ![i] = FALSE] /\ UNCHANGED <<posted, refunds, credit>>
    BY <1>1, <1>6
  <2> QED BY <1>1, <1>6, <2>1, <2>2, <2>3 DEF CommitOf
<1>7. CASE c.op = "credit"
  <2>1. /\ i \in Invoices /\ Mine(t, i) /\ open[i]
        /\ \A q \in Receipts, j \in Invoices : c.writes[q][j] # None => j = i /\ c.writes[q][j] <= live[q][j]
        /\ Covers(t, i) + c.x <= Bill[i]
    BY <1>0, <1>7 DEF CallOK, CreditOK
  <2>2. \A q \in Receipts : M[q] = [live[q] EXCEPT ![i] = M[q][i]] /\ M[q][i] <= live[q][i]
    <3> TAKE q \in Receipts
    <3>1. M[q] \in [Invoices -> Amounts] /\ live[q] \in [Invoices -> Amounts]
      BY <1>0, <1>f DEF CallFacts, LocksTyped, Grid
    <3>2. /\ \A j \in Invoices : M[q][j] = IF c.writes[q][j] = None THEN live[q][j] ELSE c.writes[q][j]
          /\ live[q][i] \in Nat
      BY <1>f, <2>1 DEF CallFacts
    <3> HIDE DEF M
    <3>3. \A j \in Invoices \ {i} : M[q][j] = live[q][j]
      BY <2>1, <3>2
    <3>4. M[q][i] <= live[q][i]
      BY <2>1, <3>2
    <3> QED BY <2>1, <3>1, <3>3, <3>4
  <2>3. /\ credit[i] \in Nat /\ c.x \in Nat /\ Sum(Column(M, i)) \in Nat /\ Bill[i] \in Nat
        /\ credit[i] + Sum(Column(M, i)) + c.x <= Bill[i] /\ credit \in [Invoices -> Amounts]
    BY <1>0, <1>f, <2>1, Limits, GridSums DEF CallFacts, Covers, LocksTyped
  <2>4. credit' = [credit EXCEPT ![i] = credit[i] + c.x] /\ credit'[i] = credit[i] + c.x
    BY <1>1, <1>7, <2>1, <2>3
  <2>5. UNCHANGED <<posted, refunds, open>>
    BY <1>1, <1>7
  <2> HIDE DEF M
  <2>6. credit'[i] \in Nat /\ credit'[i] + Sum(Column(M, i)) <= Bill[i]
    BY <2>3, <2>4
  <2> QED BY <1>1, <1>7, <2>1, <2>2, <2>4, <2>5, <2>6 DEF CommitOf, M
<1> QED BY <1>2, <1>3, <1>4, <1>5, <1>6, <1>7


(* Facts of every commit, whatever the call.                               *)
LEMMA CommitFacts ==
    ASSUME IInv, NEW t \in Txns, Commit(t)
    PROVE  \E r \in Receipts \cup {None}, i \in Invoices \cup {None}, M \in Grid :
              /\ CommitOf(t, r, i, M)
              /\ \A q \in Receipts, j \in Invoices :
                    /\ M[q][j] \in Nat /\ live[q][j] \in Nat
                    /\ M[q][j] # live[q][j] => Mine(t, <<q, j>>)
                    /\ M[q][j] > live[q][j] => Mine(t, q) /\ Mine(t, j) /\ posted[q] /\ open[j]
              /\ \A q \in Receipts : refunds[q] + Sum(M[q]) <= Cash[q]
              /\ \A j \in Invoices : credit[j] + Sum(Column(M, j)) <= Bill[j]
<1> DEFINE c == txn[t]
           M == Seen(t)
<1>1. CallOK(t) /\ LocksTyped /\ c \in CallType
  BY DEF IInv, LocksTyped
<1>2. CallFacts(t) /\ M \in Grid /\ c.r \in Receipts \cup {None} /\ c.i \in Invoices \cup {None}
  BY <1>1, CallTyped DEF CallFacts, CallType
<1>3. ASSUME NEW q \in Receipts, NEW j \in Invoices
      PROVE  /\ M[q][j] \in Nat /\ live[q][j] \in Nat
             /\ M[q][j] # live[q][j] => Mine(t, <<q, j>>)
             /\ M[q][j] > live[q][j] => Mine(t, q) /\ Mine(t, j) /\ posted[q] /\ open[j]
  <2>1. /\ M[q][j] \in Nat /\ live[q][j] \in Nat
        /\ M[q][j] = IF c.writes[q][j] = None THEN live[q][j] ELSE c.writes[q][j]
    BY <1>2 DEF CallFacts
  <2>2. c.writes[q][j] # None =>
          /\ Mine(t, <<q, j>>)
          /\ c.writes[q][j] > live[q][j] => Mine(t, q) /\ Mine(t, j) /\ posted[q] /\ open[j]
    BY <1>1 DEF CallOK, WritesLocked
  <2> HIDE DEF M
  <2>3. CASE c.writes[q][j] = None
    BY <2>1, <2>3
  <2>4. CASE c.writes[q][j] # None
    BY <2>1, <2>2, <2>4
  <2> QED BY <2>3, <2>4
<1>4. /\ \A q \in Receipts : refunds[q] + Sum(M[q]) <= Cash[q]
      /\ \A j \in Invoices : credit[j] + Sum(Column(M, j)) <= Bill[j]
  BY <1>1 DEF CallOK, WritesFit, Uses, Covers
<1>5. CommitOf(t, c.r, c.i, M)
  BY CommitShape
<1> QED BY <1>2, <1>3, <1>4, <1>5

LEMMA CommitKeeps ==
    ASSUME IInv, NEW t \in Txns, Commit(t)
    PROVE  /\ IInv'
           /\ Ledger!LedgerNext \/ UNCHANGED ledger
<1>1. PICK r \in Receipts \cup {None}, i \in Invoices \cup {None}, M \in Grid :
              /\ CommitOf(t, r, i, M)
              /\ \A q \in Receipts, j \in Invoices :
                    /\ M[q][j] \in Nat /\ live[q][j] \in Nat
                    /\ M[q][j] # live[q][j] => Mine(t, <<q, j>>)
                    /\ M[q][j] > live[q][j] => Mine(t, q) /\ Mine(t, j) /\ posted[q] /\ open[j]
              /\ \A q \in Receipts : refunds[q] + Sum(M[q]) <= Cash[q]
              /\ \A j \in Invoices : credit[j] + Sum(Column(M, j)) <= Bill[j]
  BY CommitFacts
<1> DEFINE op == txn[t].op
<1>2. /\ LocksTyped /\ LedgerSound /\ live \in Grid
      /\ posted \in [Receipts -> BOOLEAN] /\ open \in [Invoices -> BOOLEAN]
      /\ refunds \in [Receipts -> Amounts] /\ credit \in [Invoices -> Amounts]
  BY DEF IInv, LocksTyped
<1>3. /\ live' = M /\ owner' = Freed(t) /\ txn' = [txn EXCEPT ![t] = Idle]
  BY <1>1 DEF CommitOf
<1>n. /\ \A q \in Receipts : Sum(M[q]) \in Nat /\ Cash[q] \in Nat /\ refunds[q] \in Nat
      /\ \A j \in Invoices : Sum(Column(M, j)) \in Nat /\ Bill[j] \in Nat /\ credit[j] \in Nat
  BY <1>1, <1>2, GridSums, AmountFacts
<1>4. ASSUME op \in Spending \cup {"reverse"}
      PROVE  /\ r \in Receipts /\ (\A q \in Receipts \ {r} : M[q] = live[q])
             /\ UNCHANGED <<posted, refunds, open, credit>>
  BY <1>1, <1>4 DEF CommitOf, Spending
<1>5. ASSUME op = "void"
      PROVE  /\ r \in Receipts /\ Mine(t, r) /\ refunds[r] = 0
             /\ M[r] = [j \in Invoices |-> 0] /\ \A q \in Receipts \ {r} : M[q] = live[q]
             /\ posted' = [posted EXCEPT ![r] = FALSE]
             /\ UNCHANGED <<refunds, open, credit>>
  BY <1>1, <1>5 DEF CommitOf, Spending
<1>6. ASSUME op \in {"refund", "unrefund"}
      PROVE  /\ r \in Receipts /\ Mine(t, r) /\ posted[r] /\ M = live
             /\ refunds' = [refunds EXCEPT ![r] = refunds'[r]]
             /\ refunds'[r] \in Nat /\ refunds'[r] + Sum(M[r]) <= Cash[r]
             /\ UNCHANGED <<posted, open, credit>>
  BY <1>1, <1>6 DEF CommitOf, Spending
<1>7. ASSUME op = "cancel"
      PROVE  /\ i \in Invoices /\ Mine(t, i) /\ M = live
             /\ credit[i] = 0 /\ \A q \in Receipts : live[q][i] = 0
             /\ open' = [open EXCEPT ![i] = FALSE]
             /\ UNCHANGED <<posted, refunds, credit>>
  BY <1>1, <1>7 DEF CommitOf, Spending
<1>8. ASSUME op = "credit"
      PROVE  /\ i \in Invoices /\ Mine(t, i) /\ open[i]
             /\ \A q \in Receipts : M[q] = [live[q] EXCEPT ![i] = M[q][i]] /\ M[q][i] <= live[q][i]
             /\ credit' = [credit EXCEPT ![i] = credit'[i]]
             /\ credit'[i] \in Nat /\ credit'[i] + Sum(Column(M, i)) <= Bill[i]
             /\ UNCHANGED <<posted, refunds, open>>
  BY <1>1, <1>8 DEF CommitOf, Spending
<1>9. op \in Spending \cup {"reverse", "void", "refund", "unrefund", "cancel", "credit"}
  BY <1>1 DEF CommitOf
<1> HIDE DEF op
(* Types.                                                                  *)
<1>10. refunds' \in [Receipts -> Amounts] /\ \A q \in Receipts : refunds'[q] + Sum(M[q]) <= Cash[q]
  <2>1. CASE op \in {"refund", "unrefund"}
    <3>1. refunds'[r] \in Amounts
      <4>1. refunds'[r] \in 0 .. Cash[r]
        BY <1>6, <1>n, <2>1
      <4> QED BY <1>6, <2>1, <4>1, AmountFacts
    <3>2. refunds' \in [Receipts -> Amounts] /\ \A q \in Receipts \ {r} : refunds'[q] = refunds[q]
      BY <1>2, <1>6, <2>1, <3>1
    <3> QED BY <1>1, <1>6, <2>1, <3>2
  <2>2. CASE op \notin {"refund", "unrefund"}
    <3>1. refunds' = refunds
      BY <1>4, <1>5, <1>7, <1>8, <1>9, <2>2
    <3> QED BY <1>1, <1>2, <3>1
  <2> QED BY <2>1, <2>2
<1>11. credit' \in [Invoices -> Amounts] /\ \A j \in Invoices : credit'[j] + Sum(Column(M, j)) <= Bill[j]
  <2>1. CASE op = "credit"
    <3>1. credit'[i] \in Amounts
      <4>1. credit'[i] \in 0 .. Bill[i]
        BY <1>8, <1>n, <2>1
      <4> QED BY <1>8, <2>1, <4>1, AmountFacts
    <3>2. credit' \in [Invoices -> Amounts] /\ \A j \in Invoices \ {i} : credit'[j] = credit[j]
      BY <1>2, <1>8, <2>1, <3>1
    <3> QED BY <1>1, <1>8, <2>1, <3>2
  <2>2. CASE op # "credit"
    <3>1. credit' = credit
      BY <1>4, <1>5, <1>6, <1>7, <1>9, <2>2
    <3> QED BY <1>1, <1>2, <3>1
  <2> QED BY <2>1, <2>2
<1>12. /\ posted' \in [Receipts -> BOOLEAN]
       /\ \A q \in Receipts : posted'[q] = posted[q] \/ (op = "void" /\ q = r)
  <2>1. CASE op = "void"
    BY <1>2, <1>5, <2>1
  <2>2. CASE op # "void"
    <3>1. posted' = posted
      BY <1>4, <1>6, <1>7, <1>8, <1>9, <2>2
    <3> QED BY <1>2, <3>1
  <2> QED BY <2>1, <2>2
<1>13. /\ open' \in [Invoices -> BOOLEAN]
       /\ \A j \in Invoices : open'[j] = open[j] \/ (op = "cancel" /\ j = i)
  <2>1. CASE op = "cancel"
    BY <1>2, <1>7, <2>1
  <2>2. CASE op # "cancel"
    <3>1. open' = open
      BY <1>4, <1>5, <1>6, <1>8, <1>9, <2>2
    <3> QED BY <1>2, <3>1
  <2> QED BY <2>1, <2>2
<1>14. LocksTyped'
  <2>1. owner' \in [Rows -> Txns \cup {None}]
    BY <1>2, <1>3, FreedTyped
  <2>2. txn' \in [Txns -> CallType] /\ live' \in Grid
    BY <1>2, <1>3, IdleTyped DEF LocksTyped
  <2> QED BY <1>10, <1>11, <1>12, <1>13, <2>1, <2>2 DEF LocksTyped
(* Soundness.                                                              *)
<1>15. LedgerSound'
  <2>1. ASSUME NEW q \in Receipts, NEW j \in Invoices, M[q][j] > 0 PROVE posted'[q] /\ open'[j]
    <3>1. posted[q] /\ open[j]
      <4>1. CASE live[q][j] > 0
        BY <1>2, <4>1, SoundMeans
      <4>2. CASE ~(live[q][j] > 0)
        <5>0. M[q][j] \in Nat /\ live[q][j] \in Nat
          BY <1>1
        <5>1. M[q][j] > live[q][j]
          BY <2>1, <4>2, <5>0
        <5> QED BY <1>1, <5>1
      <4> QED BY <4>1, <4>2
    <3>2. ~(op = "void" /\ q = r)
      BY <1>5, <2>1
    <3>3. ~(op = "cancel" /\ j = i)
      BY <1>7, <2>1
    <3> QED BY <1>12, <1>13, <3>1, <3>2, <3>3
  <2> QED BY <1>3, <1>10, <1>11, <2>1, SoundMeansNext
(* The others.                                                             *)
<1>16. ASSUME NEW u \in Txns \ {t} PROVE CallOK(u)'
  <2>1. Rely(u)
    <3>1. \A row \in Rows : owner[row] = u => owner'[row] = u
      BY <1>2, <1>3, FreedTyped
    <3>2. ASSUME NEW q \in Receipts, owner[q] = u
          PROVE  /\ posted'[q] = posted[q] /\ refunds'[q] = refunds[q]
                 /\ \A j \in Invoices : live'[q][j] <= live[q][j]
      <4>1. ~(op = "void" /\ q = r) /\ ~(op \in {"refund", "unrefund"} /\ q = r)
        BY <1>5, <1>6, <3>2 DEF Mine
      <4>2. refunds'[q] = refunds[q]
        <5>1. CASE op \in {"refund", "unrefund"}
          BY <1>2, <1>6, <4>1, <5>1
        <5>2. CASE op \notin {"refund", "unrefund"}
          BY <1>4, <1>5, <1>7, <1>8, <1>9, <5>2
        <5> QED BY <5>1, <5>2
      <4>3. \A j \in Invoices : M[q][j] <= live[q][j]
        <5> TAKE j \in Invoices
        <5>1. M[q][j] \in Nat /\ live[q][j] \in Nat /\ ~(M[q][j] > live[q][j])
          BY <1>1, <3>2 DEF Mine
        <5> QED BY <5>1
      <4> QED BY <1>3, <1>12, <4>1, <4>2, <4>3
    <3>3. ASSUME NEW j \in Invoices, owner[j] = u
          PROVE  /\ open'[j] = open[j] /\ credit'[j] = credit[j]
                 /\ \A q \in Receipts : live'[q][j] <= live[q][j]
      <4>1. ~(op = "cancel" /\ j = i) /\ ~(op = "credit" /\ j = i)
        BY <1>7, <1>8, <3>3 DEF Mine
      <4>2. credit'[j] = credit[j]
        <5>1. CASE op = "credit"
          BY <1>2, <1>8, <4>1, <5>1
        <5>2. CASE op # "credit"
          BY <1>4, <1>5, <1>6, <1>7, <1>9, <5>2
        <5> QED BY <5>1, <5>2
      <4>3. \A q \in Receipts : M[q][j] <= live[q][j]
        <5> TAKE q \in Receipts
        <5>1. M[q][j] \in Nat /\ live[q][j] \in Nat /\ ~(M[q][j] > live[q][j])
          BY <1>1, <3>3 DEF Mine
        <5> QED BY <5>1
      <4> QED BY <1>3, <1>13, <4>1, <4>2, <4>3
    <3>4. \A q \in Receipts, j \in Invoices : owner[<<q, j>>] = u => live'[q][j] = live[q][j]
      BY <1>1, <1>3 DEF Mine
    <3> QED BY <3>1, <3>2, <3>3, <3>4 DEF Rely
  <2>2. txn'[u] = txn[u] /\ CallOK(u)
    BY <1>2, <1>3 DEF LocksTyped, IInv
  <2> QED BY <1>2, <1>14, <1>15, <2>1, <2>2, RelyKeepsCall
<1>17. CallOK(t)'
  <2>1. txn'[t] = Idle
    BY <1>2, <1>3 DEF LocksTyped
  <2> QED BY <1>14, <1>15, <2>1, IdleCall
<1>18. IInv'
  BY <1>14, <1>15, <1>16, <1>17 DEF IInv
(* The step of the ledger.                                                 *)
<1>19. Ledger!Sound'
  BY <1>15 DEF LedgerSound
<1>20. CASE op \in Spending \cup {"reverse"}
  <2>1. CASE M = live
    BY <1>3, <1>4, <1>18, <1>20, <2>1 DEF ledger
  <2>2. CASE M # live
    <3>1. M[r] # live[r]
      BY <1>2, <1>4, <1>20, <2>2 DEF Grid
    <3>2. PICK j \in Invoices : M[r][j] # live[r][j]
      BY <1>2, <1>4, <1>20, <3>1 DEF Grid
    <3>3. posted[r]
      <4>1. CASE live[r][j] > 0
        BY <1>2, <1>4, <1>20, <4>1, SoundMeans
      <4>2. CASE ~(live[r][j] > 0)
        <5>1. r \in Receipts /\ M[r][j] \in Nat /\ live[r][j] \in Nat
          BY <1>1, <1>4, <1>20
        <5>2. M[r][j] > live[r][j]
          BY <3>2, <4>2, <5>1
        <5> QED BY <1>1, <5>1, <5>2
      <4> QED BY <4>1, <4>2
    <3>4. live' = [live EXCEPT ![r] = live'[r]]
      BY <1>2, <1>3, <1>4, <1>20 DEF Grid
    <3>5. Ledger!Apply(r)
      BY <1>4, <1>20, <3>3, <3>4 DEF Ledger!Apply
    <3> QED BY <1>4, <1>18, <1>19, <1>20, <3>5 DEF Ledger!LedgerNext
  <2> QED BY <1>18, <2>1, <2>2
<1>21. CASE op = "void"
  <2>1. live' = [live EXCEPT ![r] = [j \in Invoices |-> 0]]
    BY <1>2, <1>3, <1>5, <1>21 DEF Grid
  <2>2. Ledger!Void(r)
    BY <1>5, <1>21, <2>1 DEF Ledger!Void
  <2> QED BY <1>5, <1>18, <1>19, <1>21, <2>2 DEF Ledger!LedgerNext
<1>22. CASE op \in {"refund", "unrefund"}
  <2>1. Ledger!GiveBack(r)
    BY <1>3, <1>6, <1>22 DEF Ledger!GiveBack
  <2> QED BY <1>6, <1>18, <1>19, <1>22, <2>1 DEF Ledger!LedgerNext
<1>23. CASE op = "cancel"
  <2>1. [q \in Receipts |-> live[q][i]] = [q \in Receipts |-> 0]
    BY <1>7, <1>23
  <2>2. Ledger!Taken(i) = 0
    BY <1>7, <1>23, <2>1, ZeroSums DEF Ledger!Taken
  <2>3. Ledger!Cancel(i)
    BY <1>3, <1>7, <1>23, <2>2 DEF Ledger!Cancel
  <2> QED BY <1>7, <1>18, <1>19, <1>23, <2>3 DEF Ledger!LedgerNext
<1>24. CASE op = "credit"
  <2>1. Ledger!Credit(i)
    BY <1>3, <1>8, <1>24 DEF Ledger!Credit
  <2> QED BY <1>8, <1>18, <1>19, <1>24, <2>1 DEF Ledger!LedgerNext
<1> QED BY <1>9, <1>18, <1>20, <1>21, <1>22, <1>23, <1>24


-----------------------------------------------------------------------------
LEMMA InitHolds == Init => IInv
<1> SUFFICES ASSUME Init PROVE IInv
  OBVIOUS
<1>1. LocksTyped
  <2>1. Receipts # {} \/ Invoices # {} => 0 \in Amounts
    BY AmountFacts
  <2>2. /\ posted \in [Receipts -> BOOLEAN] /\ open \in [Invoices -> BOOLEAN]
        /\ refunds \in [Receipts -> Amounts] /\ credit \in [Invoices -> Amounts]
    BY <2>1 DEF Init
  <2>3. live \in Grid
    BY <2>1 DEF Init, Grid
  <2>4. owner \in [Rows -> Txns \cup {None}] /\ txn \in [Txns -> CallType]
    BY IdleTyped DEF Init
  <2> QED BY <2>2, <2>3, <2>4 DEF LocksTyped
<1>2. LedgerSound
  <2>1. \A r \in Receipts : refunds[r] + Sum(live[r]) <= Cash[r]
    <3> TAKE r \in Receipts
    <3>1. refunds[r] = 0 /\ live[r] = [i \in Invoices |-> 0]
      BY DEF Init
    <3> QED BY <3>1, ZeroSums, Limits
  <2>2. \A i \in Invoices : credit[i] + Sum(Column(live, i)) <= Bill[i]
    <3> TAKE i \in Invoices
    <3>1. credit[i] = 0 /\ Column(live, i) = [r \in Receipts |-> 0]
      BY DEF Init, Column
    <3> QED BY <3>1, ZeroSums, Limits
  <2>3. \A r \in Receipts, i \in Invoices : live[r][i] = 0
    BY DEF Init
  <2> QED BY <2>1, <2>2, <2>3, SoundMeans
<1>3. ASSUME NEW t \in Txns PROVE CallOK(t)
  <2>1. txn[t] = Idle
    BY DEF Init
  <2>2. Idle.op = "none" /\ Idle.pc = "idle" /\ Idle.writes = NoWrites
    BY DEF Idle
  <2>3. Seen(t) = live
    BY <1>1, <2>1, <2>2, UnwrittenSeen
  <2>4. WritesFit(t)
    BY <1>2, <2>3, SoundMeans DEF WritesFit, Uses, Covers
  <2>5. WritesLocked(t)
    BY <2>1, <2>2, NoWritesTyped DEF WritesLocked
  <2> QED BY <2>1, <2>2, <2>4, <2>5
          DEF CallOK, AllocationOK, SpendingOK, Spending, VoidOK, ReverseOK, DecisionOK, CreditOK
<1> QED BY <1>1, <1>2, <1>3 DEF IInv

(* Every step keeps the invariant, and is a step of the ledger or leaves   *)
(* it alone.                                                               *)
LEMMA StepHolds ==
    ASSUME IInv, [Next]_vars
    PROVE  IInv' /\ (Ledger!LedgerNext \/ UNCHANGED ledger)
<1>1. ASSUME NEW t \in Txns, Begin(t) PROVE IInv' /\ UNCHANGED ledger
  <2>1. IInv'
    BY <1>1, BeginKeeps
  <2>2. UNCHANGED ledger
    BY <1>1 DEF Begin, BeginBulk, BeginClear, BeginVoid, BeginReverse, BeginAllocate, BeginRefund,
                BeginUnrefund, BeginCancel, BeginCredit, Start
  <2> QED BY <2>1, <2>2
<1>2. ASSUME NEW t \in Txns, Abort(t) PROVE IInv' /\ UNCHANGED ledger
  BY <1>2, RollbackKeeps DEF Abort, Rollback
<1>3. ASSUME NEW t \in Txns, Work(t) PROVE IInv' /\ (Ledger!LedgerNext \/ UNCHANGED ledger)
  <2>1. CASE Commit(t)
    BY <2>1, CommitKeeps
  <2>2. CASE \E row \in Rows : Lock(t, row)
    BY <2>2, LockKeeps DEF Lock
  <2>3. CASE LockReceipt(t)
    BY <2>3, LockReceiptKeeps DEF LockReceipt
  <2>4. CASE Check(t)
    BY <2>4, CheckKeeps DEF Check
  <2>5. CASE Refuse(t)
    BY <2>5, RefuseKeeps DEF Refuse, Rollback
  <2>6. CASE Insert(t)
    BY <2>6, InsertKeeps DEF Insert, Rollback
  <2>7. CASE Clear(t)
    BY <2>7, ClearKeeps DEF Clear
  <2>8. CASE NextBill(t)
    BY <2>8, NextBillKeeps DEF NextBill
  <2>9. CASE Void(t)
    BY <2>9, VoidKeeps DEF Void, Rollback
  <2>10. CASE Erase(t)
    BY <2>10, EraseKeeps DEF Erase
  <2>11. CASE Reverse(t)
    BY <2>11, ReverseKeeps DEF Reverse
  <2>12. CASE CancelInvoice(t) \/ RefundAdvance(t) \/ VoidAdvanceRefund(t)
    <3>1. IInv'
      BY <2>12, DecisionsKeep
    <3>2. UNCHANGED ledger
      BY <2>12 DEF CancelInvoice, RefundAdvance, VoidAdvanceRefund, Decide, Rollback
    <3> QED BY <3>1, <3>2
  <2>13. CASE \E c \in BOOLEAN : CompleteCreditNote(t, c)
    BY <2>13, CompleteCreditNoteKeeps DEF CompleteCreditNote, Rollback
  <2>14. CASE \E r \in Receipts : Peel(t, r)
    BY <2>14, PeelKeeps DEF Peel
  <2>15. CASE Peeled(t)
    BY <2>15, PeeledKeeps DEF Peeled
  <2> QED BY <1>3, <2>1, <2>2, <2>3, <2>4, <2>5, <2>6, <2>7, <2>8, <2>9, <2>10, <2>11, <2>12,
             <2>13, <2>14, <2>15 DEF Work
<1>4. CASE UNCHANGED vars
  <2>1. /\ UNCHANGED <<posted, refunds, live, open, credit, owner, txn>>
    BY <1>4 DEF vars, ledger
  <2>2. LocksTyped'
    BY <2>1 DEF IInv, LocksTyped
  <2>3. LedgerSound'
    BY <2>1, SoundMeans, SoundMeansNext DEF IInv, Column
  <2>4. ASSUME NEW u \in Txns PROVE CallOK(u)'
    <3>1. Rely(u)
      <4>1. \A r \in Receipts, i \in Invoices : live[r][i] \in Nat
        BY GridSums DEF IInv, LocksTyped
      <4> QED BY <2>1, <4>1 DEF Rely
    <3> QED BY <2>1, <2>2, <2>3, <3>1, RelyKeepsCall DEF IInv
  <2> QED BY <2>1, <2>2, <2>3, <2>4 DEF IInv, ledger
<1> QED BY <1>1, <1>2, <1>3, <1>4 DEF Next

(* The inductive invariant: types, the soundness of the ledger, and what   *)
(* every call in progress has established under the locks it holds.        *)
THEOREM LocksInductive == Spec => []IInv
<1>1. Init => IInv
  BY InitHolds
<1>2. IInv /\ [Next]_vars => IInv'
  BY StepHolds
<1> QED BY <1>1, <1>2, PTL DEF Spec

(* For any number of receipts, invoices and concurrent service calls, no   *)
(* receipt is spent beyond its cash, no invoice is settled beyond its      *)
(* amount and nothing voided or cancelled carries an allocation, although  *)
(* reverse_allocation locks neither the receipt nor the invoice.           *)
THEOREM NoDoubleSpending == Spec => []LedgerSound
<1>1. IInv => LedgerSound
  BY DEF IInv
<1> QED BY <1>1, LocksInductive, PTL

(* Every service call of payments/services.py takes effect in one atomic   *)
(* step of MoneyLedger, or not at all, however its statements interleave   *)
(* with those of other calls.                                              *)
THEOREM CallsAreAtomic == Spec => Atomic
<1>1. Init => Ledger!LedgerInit
  BY DEF Init, Ledger!LedgerInit
<1>2. IInv /\ [Next]_vars => [Ledger!LedgerNext]_(Ledger!ledger)
  BY StepHolds DEF ledger, Ledger!ledger
<1> QED BY <1>1, <1>2, LocksInductive, PTL DEF Spec, Atomic, Ledger!LedgerSpec


=============================================================================
