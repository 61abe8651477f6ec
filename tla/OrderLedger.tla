----------------------------- MODULE OrderLedger -----------------------------
(***************************************************************************)
(* What the purchase flow promises about orders and stock, without turns,  *)
(* awaits, requests or faults: an order is offered once, by a reply; it    *)
(* may be taken up while it is the newest one open; stock is deducted for  *)
(* a taken order only, once per taker, and never after the taker has been  *)
(* told how it ended.                                                      *)
(*                                                                         *)
(* It does not promise that an order has one taker, or that every offer    *)
(* can be confirmed: the code does neither.                                *)
(***************************************************************************)
EXTENDS Naturals, Sequences

CONSTANTS
    Turn,       \* the turns of a conversation
    Order,      \* the orders that may be offered
    None        \* no order

VARIABLES
    offered,    \* the orders offered so far
    open,       \* those that a "yes" finds, the newest last
    taken,      \* the order each turn has taken up
    ledger,     \* the deductions, oldest first
    told        \* what the customer was told at the end of each turn

vars == <<offered, open, taken, ledger, told>>

Init ==
    /\ offered = {}
    /\ open = <<>>
    /\ taken = [t \in Turn |-> None]
    /\ ledger = <<>>
    /\ told = [t \in Turn |-> "nothing"]

Deducted(t) == \E i \in DOMAIN ledger : ledger[i].by = t

\* A "yes" takes up the newest open order, which stays open for now.
Take(t) ==
    /\ told[t] = "nothing" /\ taken[t] = None
    /\ open # <<>>
    /\ taken' = [taken EXCEPT ![t] = open[Len(open)]]
    /\ UNCHANGED <<offered, open, ledger, told>>

\* The stock of a taken order is deducted, sooner or later or never.
Deduct(t) ==
    /\ told[t] = "nothing" /\ taken[t] # None
    /\ ~Deducted(t)
    /\ ledger' = Append(ledger, [by |-> t, order |-> taken[t]])
    /\ UNCHANGED <<offered, open, taken, told>>

\* The newest open order is dropped: resolved, declined or superseded.
Drop(t) ==
    /\ told[t] = "nothing"
    /\ open # <<>>
    /\ open' = SubSeq(open, 1, Len(open) - 1)
    /\ UNCHANGED <<offered, taken, ledger, told>>

\* The turn's order is offered, and open unless that could not be recorded.
Offer(t) ==
    /\ taken[t] = None
    /\ \E o \in Order \ offered :
          /\ o.from = t
          /\ offered' = offered \cup {o}
          /\ open' \in {open, Append(open, o)}

\* The turn ends and its customer learns, truthfully, whether it deducted.
Reply(t) ==
    /\ told[t] = "nothing"
    /\ told' = [told EXCEPT ![t] = IF Deducted(t) THEN "completed" ELSE "not completed"]
    /\ Offer(t) \/ UNCHANGED <<offered, open>>
    /\ UNCHANGED <<taken, ledger>>

Next == \E t \in Turn : Take(t) \/ Deduct(t) \/ Drop(t) \/ Reply(t)

Spec == Init /\ [][Next]_vars

=============================================================================
