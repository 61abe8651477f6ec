--------------------------- MODULE MCPurchaseFlow ---------------------------
(***************************************************************************)
(* Instances of PurchaseFlow for TLC.                                      *)
(***************************************************************************)
EXTENDS PurchaseFlow, TLC

\* A refused quantity, the boundary and one above it.
MCQuantity == {0, 2}

=============================================================================
