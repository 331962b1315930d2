----------------------------- MODULE MCGodowns ------------------------------
(* Instances of Godowns.                                                   *)
EXTENDS Godowns, TLC

CONSTANTS o1, o2, shop, branch, road, k1, t1, t2, Rows

TwoAndOne == [o \in Orders |-> IF o = o1 THEN 2 ELSE 1]
Shelf == [w \in Godowns |-> IF w = shop THEN 3 ELSE 0]

(* At most Rows documents; stock brought in or taken out counts double.    *)
Made(docs) == Cardinality({d \in DOMAIN docs : docs[d].status # "NONE"})
FewDocuments ==
    Made(challan) + Made(invoice) + Made(transfer) + (IF adjusted = Opening THEN 0 ELSE 2) <= Rows

=============================================================================
