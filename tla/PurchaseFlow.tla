---------------------------- MODULE PurchaseFlow ----------------------------
(***************************************************************************)
(* The confirmation-gated purchase flow of one conversation:               *)
(* backend/app/agents/purchase.py inside the turn pipeline of              *)
(* agents/graph.py (classify, gather, purchase, compose, persist).         *)
(*                                                                         *)
(* A turn is one asyncio task.  Database calls are synchronous, so the     *)
(* code between two awaits is one action; turns interleave at the awaits   *)
(* (gather, the stock re-check, the stock-out, the catalog lookup, the     *)
(* reply composition).  Inventra, on the other end of the stock-out        *)
(* request, is part of the model: a request may land before, at or after   *)
(* the moment the client gives up on it.                                   *)
(***************************************************************************)
EXTENDS Naturals, Integers, Sequences, FiniteSets

CONSTANTS
    Turn,           \* the inbound messages of the conversation
    Product,        \* the products the catalog search may resolve to
    Quantity,       \* the quantities a customer may state
    Unstated,       \* an order message without a quantity
    None,           \* no pending purchase
    MaxInFlight,    \* turns running at once (a semaphore of 5 in the code)
    Faults          \* the environment faults this instance may meet

ASSUME QuantityAssumption == Quantity \subseteq Int
ASSUME UnstatedAssumption == Unstated \notin Int
ASSUME InFlightAssumption == MaxInFlight \in Nat \ {0}
ASSUME FaultsAssumption ==
    Faults \subseteq
        {"gather", "load", "clear", "stockout", "compose", "persist", "crash"}

(***************************************************************************)
(* A pending purchase as stored in content_metadata, with the turn that    *)
(* offered it, and the message kinds in the order purchase() tests them.   *)
(***************************************************************************)
PendingPurchase == [from : Turn, product : Product, quantity : Nat \ {0}]
Movement == [by : Turn, order : PendingPurchase]
ASSUME NoneAssumption == None \notin PendingPurchase

Message ==
    [kind : {"confirm", "decline", "unclear_order", "other"}, quantity : {Unstated}]
    \cup [kind : {"order"}, quantity : Quantity \cup {Unstated}]

\* The outcomes of a turn; why it skipped or failed an order is left out.
PurchaseStatus ==
    {"not_requested", "pending_confirmation", "cancelled_by_customer",
     "skipped", "completed", "failed"}

Awaiting == {"gather", "lookup", "recheck", "stockout", "compose"}

VARIABLES
    pc,         \* where each turn is suspended
    msg,        \* its customer message
    seen,       \* the pending purchase it loaded (phase 2 and 3)
    offer,      \* the pending purchase in its state when persist runs
    status,     \* its purchase_status
    request,    \* its stock-out request, as Inventra sees it
    movements,  \* Inventra's stock-out movements, oldest first
    markers,    \* persisted agent messages that hold a marker, oldest first
    mishaps     \* history: turns that overlapped, clears that failed, stock-outs
                \* that raised and crashes so far

turnVars == <<pc, msg, seen, offer, status>>
vars == <<pc, msg, seen, offer, status, request, movements, markers, mishaps>>

Active == {t \in Turn : pc[t] \in Awaiting}

Init ==
    /\ pc = [t \in Turn |-> "idle"]
    /\ msg = [t \in Turn |-> [kind |-> "other", quantity |-> Unstated]]
    /\ seen = [t \in Turn |-> None]
    /\ offer = [t \in Turn |-> None]
    /\ status = [t \in Turn |-> "not_requested"]
    /\ request = [t \in Turn |-> "none"]
    /\ movements = <<>>
    /\ markers = <<>>
    /\ mishaps = {}

-----------------------------------------------------------------------------
(***************************************************************************)
(* The pending-purchase store.                                             *)
(***************************************************************************)

\* The marker of the newest agent message that has one.
Newest == IF markers = <<>> THEN None ELSE markers[Len(markers)]

\* load_pending_purchase: any database error reads as "nothing pending".
CanLoad(p) == p = Newest \/ (p = None /\ "load" \in Faults)

\* Mutant: the oldest marker goes.
ClearOldest ==
    /\ markers' = IF markers = <<>> THEN <<>> ELSE Tail(markers)
    /\ UNCHANGED mishaps

\* clear_pending_purchase removes the newest marker, whichever purchase it
\* belongs to; a database error is swallowed and leaves the marker in place.
ClearNewest ==
    \/ /\ markers' = IF markers = <<>> THEN <<>>
                     ELSE SubSeq(markers, 1, Len(markers) - 1)
       /\ UNCHANGED mishaps
    \/ /\ "clear" \in Faults
       /\ mishaps' = mishaps \cup {"clear"}
       /\ UNCHANGED markers

\* The purchase node returns and the composer is awaited.
Return(t, s) ==
    /\ status' = [status EXCEPT ![t] = s]
    /\ pc' = [pc EXCEPT ![t] = "compose"]

\* The node returns a ToolError under tool_errors, which AgentState declares
\* as ToolFailure: validation fails at the next node and the turn is over.
ReturnToolError(t) ==
    /\ status' = [status EXCEPT ![t] = "failed"]
    /\ pc' = [pc EXCEPT ![t] = "aborted"]

Resume(t, place, kind) ==
    /\ pc[t] = place
    /\ msg[t].kind = kind

-----------------------------------------------------------------------------
\* A message gets past the semaphore; its turn classifies it and gathers.
Receive(t, m) ==
    /\ pc[t] = "idle"
    /\ Cardinality(Active) < MaxInFlight
    /\ pc' = [pc EXCEPT ![t] = "gather"]
    /\ msg' = [msg EXCEPT ![t] = m]
    /\ mishaps' = IF Active = {} THEN mishaps ELSE mishaps \cup {"overlap"}
    /\ UNCHANGED <<seen, offer, status, request, movements, markers>>

\* gather_context raises: the message is too long to be a search parameter, or
\* names product 0 (see SearchLadder).  The turn is over before its order is read.
GatherRaises(t) ==
    /\ "gather" \in Faults
    /\ pc[t] = "gather"
    /\ pc' = [pc EXCEPT ![t] = "aborted"]
    /\ UNCHANGED <<msg, seen, offer, status, request, movements, markers, mishaps>>

\* A message that neither confirms, declines nor orders: the node is a no-op.
PassThrough(t) ==
    /\ Resume(t, "gather", "other")
    /\ Return(t, status[t])
    /\ UNCHANGED <<msg, seen, offer, request, movements, markers, mishaps>>

\* Phase 2 or 3 with nothing pending: the node is a no-op.
NothingPending(t) ==
    /\ pc[t] = "gather"
    /\ msg[t].kind \in {"confirm", "decline"}
    /\ CanLoad(None)
    /\ Return(t, status[t])
    /\ UNCHANGED <<msg, seen, offer, request, movements, markers, mishaps>>

\* Mutant: any reply to an offer counts as a "yes".
ConfirmOnAnyReply(t) ==
    /\ pc[t] = "gather"
    /\ Newest # None
    /\ seen' = [seen EXCEPT ![t] = Newest]
    /\ pc' = [pc EXCEPT ![t] = "recheck"]
    /\ UNCHANGED <<msg, offer, status, request, movements, markers, mishaps>>

\* Phase 2: the pending purchase is loaded and the stock re-check awaited.
Confirm(t) ==
    /\ Resume(t, "gather", "confirm")
    /\ Newest # None
    /\ seen' = [seen EXCEPT ![t] = Newest]
    /\ pc' = [pc EXCEPT ![t] = "recheck"]
    /\ UNCHANGED <<msg, offer, status, request, movements, markers, mishaps>>

\* Phase 3: load and clear in one piece, no await between them.
Decline(t) ==
    /\ Resume(t, "gather", "decline")
    /\ Newest # None
    /\ seen' = [seen EXCEPT ![t] = Newest]
    /\ ClearNewest
    /\ Return(t, "cancelled_by_customer")
    /\ UNCHANGED <<msg, offer, request, movements>>

\* The quantity an order stands for: one unit when none was stated.
Ordered(t) == IF msg[t].quantity = Unstated THEN 1 ELSE msg[t].quantity

\* Phase 1 refuses an order without a product term or with quantity <= 0 ...
RefuseOrder(t) ==
    /\ pc[t] = "gather"
    /\ \/ msg[t].kind = "unclear_order"
       \/ msg[t].kind = "order" /\ Ordered(t) <= 0
    /\ Return(t, "skipped")
    /\ UNCHANGED <<msg, seen, offer, request, movements, markers, mishaps>>

\* Mutant: the quantity is looked up unchecked.
LookUpUnchecked(t) ==
    /\ Resume(t, "gather", "order")
    /\ pc' = [pc EXCEPT ![t] = "lookup"]
    /\ UNCHANGED <<msg, seen, offer, status, request, movements, markers, mishaps>>

\* ... and otherwise awaits the catalog search and the stock check.
LookUp(t) ==
    /\ Resume(t, "gather", "order")
    /\ Ordered(t) > 0
    /\ pc' = [pc EXCEPT ![t] = "lookup"]
    /\ UNCHANGED <<msg, seen, offer, status, request, movements, markers, mishaps>>

\* Mutant: the older marker stays beside the new one.
OfferBesideOlder(t, p) ==
    /\ pc[t] = "lookup"
    /\ offer' = [offer EXCEPT ![t] =
                    [from |-> t, product |-> p, quantity |-> Ordered(t)]]
    /\ Return(t, "pending_confirmation")
    /\ UNCHANGED <<msg, seen, request, movements, markers, mishaps>>

\* Phase 1 offers the order: the older marker goes, the new one is only in
\* the turn's state until persist writes it.
Offer(t, p) ==
    /\ pc[t] = "lookup"
    /\ ClearNewest
    /\ offer' = [offer EXCEPT ![t] =
                    [from |-> t, product |-> p, quantity |-> Ordered(t)]]
    /\ Return(t, "pending_confirmation")
    /\ UNCHANGED <<msg, seen, request, movements>>

\* Mutant: the older marker is cleared before the new order is known to be good.
CannotOfferClears(t) ==
    /\ pc[t] = "lookup"
    /\ ClearNewest
    /\ Return(t, "skipped")
    /\ UNCHANGED <<msg, seen, offer, request, movements>>

\* The product is not in the catalog, or there is not enough of it.
CannotOffer(t) ==
    /\ pc[t] = "lookup"
    /\ Return(t, "skipped")
    /\ UNCHANGED <<msg, seen, offer, request, movements, markers, mishaps>>

LookUpFails(t) ==
    /\ pc[t] = "lookup"
    /\ ReturnToolError(t)
    /\ UNCHANGED <<msg, seen, offer, request, movements, markers, mishaps>>

\* The re-check says there is enough: the single stock-out request goes out.
SendStockOut(t) ==
    /\ pc[t] = "recheck"
    /\ pc' = [pc EXCEPT ![t] = "stockout"]
    /\ request' = [request EXCEPT ![t] = "sent"]
    /\ UNCHANGED <<msg, seen, offer, status, movements, markers, mishaps>>

\* The re-check says there is not enough, or fails: nothing is sent and the
\* pending purchase is consumed.
AbandonOrder(t) ==
    /\ pc[t] = "recheck"
    /\ ClearNewest
    /\ \E s \in {"skipped", "failed"} : Return(t, s)
    /\ UNCHANGED <<msg, seen, offer, request, movements>>

\* Inventra, any time after the request was sent: it deducts, or refuses.
InventraDeducts(t) ==
    /\ request[t] = "sent"
    /\ request' = [request EXCEPT ![t] = "applied"]
    /\ movements' = Append(movements, [by |-> t, order |-> seen[t]])
    /\ UNCHANGED <<turnVars, markers, mishaps>>

InventraRefuses(t) ==
    /\ request[t] = "sent"
    /\ request' = [request EXCEPT ![t] = "refused"]
    /\ UNCHANGED <<turnVars, movements, markers, mishaps>>

\* Mutant: the marker outlives the purchase it led to.
StockOutKeepsMarker(t) ==
    /\ pc[t] = "stockout"
    /\ request[t] = "applied"
    /\ Return(t, "completed")
    /\ UNCHANGED <<msg, seen, offer, request, movements, markers, mishaps>>

StockOutSucceeds(t) ==
    /\ pc[t] = "stockout"
    /\ request[t] = "applied"
    /\ ClearNewest
    /\ Return(t, "completed")
    /\ UNCHANGED <<msg, seen, offer, request, movements>>

\* Mutants: the stock-out is retried like a read; its failure is told to the
\* customer as if nothing could have happened; a lost answer is waited for.
StockOutRetries(t) ==
    /\ pc[t] = "stockout"
    /\ request' = [request EXCEPT ![t] = "sent"]
    /\ UNCHANGED <<turnVars, movements, markers, mishaps>>

StockOutFailureIsTold(t) ==
    /\ pc[t] = "stockout"
    /\ ClearNewest
    /\ Return(t, "failed")
    /\ UNCHANGED <<msg, seen, offer, request, movements>>

StockOutWithoutTimeout(t) ==
    /\ pc[t] = "stockout"
    /\ request[t] = "refused"
    /\ ReturnToolError(t)
    /\ ClearNewest
    /\ UNCHANGED <<msg, seen, offer, request, movements>>

\* The client raises: a timeout or a broken connection, whatever Inventra did
\* or will do with the request, a malformed answer to it, or a refusal.
StockOutFails(t) ==
    /\ pc[t] = "stockout"
    /\ ReturnToolError(t)
    /\ ClearNewest
    /\ UNCHANGED <<msg, seen, offer, request, movements>>

\* Something other than a ToolError raises around the stock-out: its parameters are
\* refused before it is sent, or Inventra's answer cannot be decoded.  Nothing
\* catches it; the turn is over and the marker stays.
StockOutRaises(t) ==
    /\ "stockout" \in Faults
    /\ pc[t] \in {"recheck", "stockout"}
    /\ request[t] # "sent"
    /\ pc' = [pc EXCEPT ![t] = "aborted"]
    /\ mishaps' = mishaps \cup {"stockout"}
    /\ UNCHANGED <<msg, seen, offer, status, request, movements, markers>>

\* The reply is composed, then persist_turn writes the agent message in one
\* transaction; its failure is swallowed and the reply goes out all the same.
Finish(t) ==
    /\ pc[t] = "compose"
    /\ pc' = [pc EXCEPT ![t] = "done"]
    /\ \/ markers' = IF offer[t] = None THEN markers
                     ELSE Append(markers, offer[t])
       \/ "persist" \in Faults /\ UNCHANGED markers
    /\ UNCHANGED <<msg, seen, offer, status, request, movements, mishaps>>

\* A provider's answer trips the gateway over something other than an LLMError
\* (a text part that is null): compose_reply raises and the turn is over.
ComposeRaises(t) ==
    /\ "compose" \in Faults
    /\ pc[t] = "compose"
    /\ pc' = [pc EXCEPT ![t] = "aborted"]
    /\ UNCHANGED <<msg, seen, offer, status, request, movements, markers, mishaps>>

\* The process stops: every turn in flight is lost; rows and requests stay.
Crash ==
    /\ "crash" \in Faults
    /\ Active # {}
    /\ pc' = [t \in Turn |-> IF t \in Active THEN "aborted" ELSE pc[t]]
    /\ mishaps' = mishaps \cup {"crash"}
    /\ UNCHANGED <<msg, seen, offer, status, request, movements, markers>>

-----------------------------------------------------------------------------
\* The steps of a turn once it runs: none waits on another turn.
Step(t) ==
    \/ GatherRaises(t)
    \/ PassThrough(t)
    \/ NothingPending(t)
    \/ Confirm(t)
    \/ Decline(t)
    \/ RefuseOrder(t)
    \/ LookUp(t)
    \/ \E p \in Product : Offer(t, p)
    \/ CannotOffer(t)
    \/ LookUpFails(t)
    \/ SendStockOut(t)
    \/ AbandonOrder(t)
    \/ StockOutSucceeds(t)
    \/ StockOutFails(t)
    \/ StockOutRaises(t)
    \/ Finish(t)
    \/ ComposeRaises(t)

Inventra(t) == InventraDeducts(t) \/ InventraRefuses(t)

Next ==
    \/ \E t \in Turn :
          \/ \E m \in Message : Receive(t, m)
          \/ Step(t)
          \/ Inventra(t)
    \/ Crash

\* Every await of a turn is bounded by a client timeout, so a running turn
\* always moves on; nothing obliges Inventra to answer or a customer to write.
Fairness == \A t \in Turn : WF_vars(Step(t))

Spec == Init /\ [][Next]_vars /\ Fairness

-----------------------------------------------------------------------------
TypeOK ==
    /\ pc \in [Turn -> Awaiting \cup {"idle", "done", "aborted"}]
    /\ msg \in [Turn -> Message]
    /\ seen \in [Turn -> PendingPurchase \cup {None}]
    /\ offer \in [Turn -> PendingPurchase \cup {None}]
    /\ status \in [Turn -> PurchaseStatus]
    /\ request \in [Turn -> {"none", "sent", "applied", "refused"}]
    /\ movements \in Seq(Movement)
    /\ markers \in Seq(PendingPurchase)
    /\ mishaps \subseteq {"overlap", "clear", "stockout", "crash"}

Moved(t) == \E i \in DOMAIN movements : movements[i].by = t

\* No order request ever deducts (purchase.py, "an order request NEVER
\* deducts stock"): whatever Inventra deducted was offered by an earlier,
\* finished turn to a customer who had asked for that quantity, and it is
\* exactly the purchase a later, confirming turn had loaded.
ConfirmationGated ==
    \A i \in DOMAIN movements :
        LET t == movements[i].by
            order == movements[i].order
        IN  /\ msg[t].kind = "confirm" /\ seen[t] = order
            /\ msg[order.from].kind = "order" /\ pc[order.from] = "done"
            /\ offer[order.from] = order
            /\ order.quantity = Ordered(order.from)

\* One turn deducts at most once, whatever times out and however late a
\* request lands (purchase.py, "a timeout can never double-deduct").
SingleDeductionPerTurn ==
    \A i, j \in DOMAIN movements : movements[i].by = movements[j].by => i = j

\* A turn that gets as far as composing a reply tells the truth for good: it
\* says "completed" exactly when its stock-out landed, and no request of it
\* can land after a reply that says otherwise.
TruthfulReply ==
    \A t \in Turn : pc[t] \in {"compose", "done"} =>
        /\ status[t] = "completed" <=> Moved(t)
        /\ request[t] # "sent"

\* While turns have not overlapped, no clear has failed, no stock-out has raised
\* past its handler and the process has not crashed, a pending purchase is taken
\* up by one turn at most: once it is confirmed, declined or abandoned no later
\* "yes" finds it again.
SerialResolvedOnce ==
    mishaps = {} =>
        \A t, u \in Turn : seen[t] # None /\ seen[t] = seen[u] => t = u

\* Under the same conditions there is one marker at most, so the order a
\* confirmation resolves is always the newest one offered.
SerialOneMarker == mishaps = {} => Len(markers) <= 1

\* A pending purchase survives every turn that does not resolve or supersede it:
\* a marker goes only when an order makes a new offer, or when the turn that had
\* loaded this very purchase is done with it; failed lookups, refused orders and
\* small talk leave the markers alone.  Only where turns have overlapped may a
\* confirmation clear another purchase than its own, whichever is the newest by
\* then (purchase.py:323-358).
PendingSurvives ==
    [][Len(markers') < Len(markers) =>
          \E t \in Turn :
              /\ pc[t] \in {"gather", "lookup", "recheck", "stockout"}
              /\ pc'[t] \in {"compose", "aborted"}
              /\ msg[t].kind = "order" => offer'[t] # None
              /\ msg[t].kind # "order" =>
                    /\ seen'[t] # None
                    /\ markers = Append(markers', seen'[t]) \/ "overlap" \in mishaps]_vars

\* Every turn that gets past the semaphore ends and frees its slot.
TurnEnds ==
    \A t \in Turn : pc[t] = "gather" ~> pc[t] \in {"done", "aborted"}

-----------------------------------------------------------------------------
(***************************************************************************)
(* The abstract promise, as seen through this module's variables: an order *)
(* counts as offered once its turn is done, as open while it has a marker, *)
(* as taken once a confirming turn has loaded it, and a customer is told   *)
(* how a turn ended when it is done.                                       *)
(***************************************************************************)
Orderable ==
    [from : Turn, product : Product, quantity : {q \in Quantity \cup {1} : q > 0}]
OffersMade == {offer[t] : t \in {u \in Turn : pc[u] = "done" /\ offer[u] # None}}
Taken == [t \in Turn |-> IF msg[t].kind = "confirm" THEN seen[t] ELSE None]
Told ==
    [t \in Turn |-> IF pc[t] # "done" THEN "nothing"
                    ELSE IF status[t] = "completed" THEN "completed" ELSE "not completed"]

Ledger == INSTANCE OrderLedger
    WITH Order <- Orderable, offered <- OffersMade, open <- markers,
         taken <- Taken, ledger <- movements, told <- Told

\* Whatever overlaps, fails, lands late or crashes, the flow keeps the ledger:
\* every step of it is a step of OrderLedger or leaves the ledger as it is.
KeepsLedger == Ledger!Spec

-----------------------------------------------------------------------------
(***************************************************************************)
(* What the module's documentation says and its code does not do.          *)
(***************************************************************************)

\* "stock-out EXACTLY ONCE" per confirmed purchase (purchase.py, phase 2).
\* Two confirmations in flight together both load the marker before either
\* clears it.
ExactlyOnce ==
    \A i, j \in DOMAIN movements : movements[i].order = movements[j].order => i = j

\* "failures are recorded as structured state" (purchase.py): with no crash
\* no turn is cut short.  A ToolError from the stock-out or the lookup is put
\* where AgentState wants a ToolFailure, and takes the turn down with it.
FailureIsState == \A t \in Turn : pc[t] # "aborted"

=============================================================================
