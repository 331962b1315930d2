----------------------------- MODULE MCGateway -----------------------------
(* Instances of Gateway.                                                   *)
EXTENDS Gateway, TLC

CONSTANTS p1, p2, h1, w1, w2

TwoPayments == p1 :> 2 @@ p2 :> 1
OnePayment == p1 :> 2

Symmetric == Permutations(Handlers) \cup Permutations(Workers)

=============================================================================
