---------------------------- MODULE MCDashboard ----------------------------
(***************************************************************************)
(* Dashboard for TLC: the unfiltered table has two pages, a filtered one   *)
(* has one.                                                                *)
(***************************************************************************)
EXTENDS Dashboard, TLC

CONSTANTS all, some
MCPagesOf == (all :> 2) @@ (some :> 1)

=============================================================================
