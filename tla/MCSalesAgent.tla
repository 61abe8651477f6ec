---------------------------- MODULE MCSalesAgent ----------------------------
(***************************************************************************)
(* SalesAgent for TLC: an order and its confirmation, each delivered up to *)
(* twice.                                                                  *)
(***************************************************************************)
EXTENDS SalesAgent, TLC

CONSTANTS orders, confirms

MCSays ==
    (orders :> [kind |-> "order", quantity |-> Unstated])
    @@ (confirms :> [kind |-> "confirm", quantity |-> Unstated])
MCMaxPosts == (orders :> 2) @@ (confirms :> 2)

=============================================================================
