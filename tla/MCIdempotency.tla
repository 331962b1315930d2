--------------------------- MODULE MCIdempotency ---------------------------
(* An instance of Idempotency: a receipt key, which is never reclaimed, and *)
(* the key of a document's completion, which is.                           *)
EXTENDS Idempotency, TLC

CONSTANTS receipt, completion, r1, r2, r3, f1, f2

KindOf == receipt :> "money" @@ completion :> "complete"
StyleOf == receipt :> "keep" @@ completion :> "wrap"

ASSUME OnlyReceiptsAreSlow == StaleIsAbandoned

(* Keys have nothing in common: one of them at a time is enough.           *)
OneKey == \A r, s \in Requests : key[r] = key[s]

Symmetric == Permutations(Requests) \cup Permutations(Prints)

=============================================================================
