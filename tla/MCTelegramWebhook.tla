------------------------- MODULE MCTelegramWebhook -------------------------
(***************************************************************************)
(* TelegramWebhook for TLC: an update that is delivered twice while its    *)
(* acknowledgement may get lost, one that competes for the permits, and    *)
(* one that carries no text.                                               *)
(***************************************************************************)
EXTENDS TelegramWebhook, TLC

CONSTANTS u1, u2, u3
MCMaxPosts == (u1 :> 2) @@ (u2 :> 1) @@ (u3 :> 1)

=============================================================================
