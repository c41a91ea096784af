------------------------- MODULE MCReorderPipeline --------------------------
(***************************************************************************)
(* Instances of ReorderPipeline for TLC.                                   *)
(***************************************************************************)
EXTENDS ReorderPipeline, TLC

CONSTANTS skuA, skuB, d1, d2

TwoSkus == {skuA, skuB}
ThreeKeys == {[sku |-> skuA, quantity |-> 1], [sku |-> skuA, quantity |-> 2],
              [sku |-> skuB, quantity |-> 1]}
TwoDeliveries == {d1, d2}
NoClients == {}

\* The two deliveries are interchangeable.
DeliverySymmetry == Permutations(TwoDeliveries)
=============================================================================
