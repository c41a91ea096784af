--------------------------- MODULE MCInvoiceScans ---------------------------
(***************************************************************************)
(* Instances of InvoiceScans for TLC.                                      *)
(***************************************************************************)
EXTENDS InvoiceScans

CONSTANTS skuA, skuB, skuNew, r1, r2, s1

Codes == {skuA, skuB, skuNew}
Unknown == {skuNew}
TwoRequests == {r1, r2}
OneScan == {s1}

L(c, q) == [sku |-> c, quantity |-> q]

\* Two SKUs in either order; one SKU twice, with a line that fails in between; a
\* SKU nobody knows; a line that fails alone.
SomeInvoices ==
    {<<L(skuA, 1), L(skuB, 1)>>, <<L(skuB, 1), L(skuA, 1)>>, <<L(skuA, 1), L(skuB, 0), L(skuA, 1)>>,
     <<L(skuNew, 1), L(skuB, 0)>>, <<L(skuB, 0)>>}
Withdrawals == {-1}
OneInvoice == {<<L(skuA, 1)>>}
=============================================================================
