----------------------------- MODULE SalesAgent -----------------------------
(***************************************************************************)
(* One conversation from its Telegram updates to Inventra's ledger:        *)
(* TelegramWebhook, whose turns are PurchaseFlow's.  The webhook's permit  *)
(* carries the turn; the turn's rows and its pending-purchase marker are   *)
(* one commit of persist_turn; a turn that raises frees the permit; and a  *)
(* crash stops both.                                                       *)
(***************************************************************************)
EXTENDS Integers, Sequences, FiniteSets

CONSTANTS
    Update,         \* the conversation's text messages
    Says,           \* what each of them says to the purchase flow
    Slot, NoUpdate, MaxPosts, MaxRetries, ChannelFaults,    \* TelegramWebhook's
    Product, Quantity, Unstated, None, TurnFaults           \* PurchaseFlow's

VARIABLES
    acked, posts, queue, slot, rows, runs, replies, suffered,
    pc, msg, seen, offer, status, request, movements, markers, mishaps,
    turn            \* the turn each permit carries

channel == <<acked, posts, queue, slot, rows, runs, replies, suffered>>
flow == <<pc, msg, seen, offer, status, request, movements, markers, mishaps>>
vars == <<channel, flow, turn>>

\* The n-th agent run for an update.
Turn == UNION {{u} \X (1..MaxPosts[u]) : u \in Update}

W == INSTANCE TelegramWebhook
     WITH Ignored <- {}, Faults <- ChannelFaults, mishaps <- suffered
P == INSTANCE PurchaseFlow
     WITH MaxInFlight <- Cardinality(Slot), Faults <- TurnFaults

ASSUME SaysAssumption == Says \in [Update -> P!Message]
ASSUME PermitAssumption == IsFiniteSet(Slot) /\ Slot # {} /\ NoUpdate \notin Update
ASSUME BoundsAssumption == MaxPosts \in [Update -> Nat] /\ MaxRetries \in Nat
ASSUME OrderAssumption == Quantity \subseteq Int /\ Unstated \notin Int
ASSUME NoneAssumption == None \notin Turn \cup P!PendingPurchase
\* A turn may raise, and a record may be refused, whatever else is ruled out.
ASSUME FaultsAssumption ==
    /\ "turn" \in ChannelFaults
    /\ ChannelFaults \subseteq {"ack", "identity", "turn", "persist", "send", "crash"}
    /\ "persist" \in TurnFaults
    /\ TurnFaults \subseteq
            {"gather", "load", "clear", "stockout", "compose", "persist", "crash"}

Init == W!Init /\ P!Init /\ turn = [s \in Slot |-> None]

-----------------------------------------------------------------------------
\* run_agent_turn is entered: a new turn with the update's message.
StartTurn(s) ==
    /\ W!StartTurn(s)
    /\ LET u == Head(queue)
           t == <<u, runs'[u]>>
       IN  /\ P!Receive(t, Says[u])
           /\ turn' = [turn EXCEPT ![s] = t]

\* The rest of phase 1, and the delivery of a reply, leave the turns alone.
Channel(s) ==
    /\ W!SkipDuplicate(s) \/ W!IdentityFails(s) \/ W!Deliver(s)
    /\ UNCHANGED <<flow, turn>>

\* The turn gets from one await to the next ...
Await(s) ==
    /\ turn[s] # None
    /\ P!Step(turn[s])
    /\ pc'[turn[s]] \in P!Awaiting
    /\ UNCHANGED <<channel, turn>>

\* Mutant: the exception gets past the semaphore's release.
TurnRaisesHolding(s) ==
    /\ turn[s] # None
    /\ P!Step(turn[s])
    /\ pc'[turn[s]] = "aborted"
    /\ UNCHANGED <<channel, turn>>

\* ... or raises out of run_turn ...
TurnRaises(s) ==
    /\ turn[s] # None
    /\ P!Step(turn[s])
    /\ pc'[turn[s]] = "aborted"
    /\ W!TurnFails(s)
    /\ turn' = [turn EXCEPT ![s] = None]

\* Mutant: the marker and the update id are two commits.
PersistApart(s) ==
    /\ turn[s] # None
    /\ P!Finish(turn[s])
    /\ W!Persist(s)
    /\ turn' = [turn EXCEPT ![s] = None]

\* ... or composes a reply and persists: the agent message with its marker and
\* the customer message with its update id are written together or not at all.
Persist(s) ==
    /\ turn[s] # None
    /\ P!Finish(turn[s])
    /\ W!Persist(s)
    /\ offer[turn[s]] # None => (markers' # markers <=> rows' # rows)
    /\ turn' = [turn EXCEPT ![s] = None]

\* Telegram, and Inventra on the other end of a stock-out.
Environment ==
    \/ (\E u \in Update : W!Post(u)) /\ UNCHANGED <<flow, turn>>
    \/ (\E t \in Turn : P!Inventra(t)) /\ UNCHANGED <<channel, turn>>

\* Mutant: a turn outlives its process.
CrashOrphans ==
    /\ W!Crash
    /\ UNCHANGED flow
    /\ turn' = [s \in Slot |-> None]

\* The process stops, whether a turn is running or not.
Crash ==
    /\ W!Crash
    /\ IF P!Active = {} THEN UNCHANGED flow ELSE P!Crash
    /\ turn' = [s \in Slot |-> None]

Work(s) == Await(s) \/ TurnRaises(s) \/ Persist(s)

Next ==
    \/ \E s \in Slot : StartTurn(s) \/ Channel(s) \/ Work(s)
    \/ Environment
    \/ Crash

\* Only the awaits are assumed to end: that a turn does, and its permit is freed,
\* is for the two models to show.
Fairness == \A s \in Slot : /\ WF_vars(StartTurn(s) \/ Channel(s))
                            /\ WF_vars(Work(s))

Spec == Init /\ [][Next]_vars /\ Fairness

-----------------------------------------------------------------------------
\* A permit carries a running turn of its update, and every running turn has one.
TypeOK ==
    /\ W!TypeOK /\ P!TypeOK
    /\ turn \in [Slot -> Turn \cup {None}]
    /\ \A s \in Slot : turn[s] # None <=> slot[s].at = "turn"
    /\ \A s \in Slot : turn[s] # None => turn[s][1] = slot[s].update
    /\ \A t \in Turn : Cardinality({s \in Slot : turn[s] = t})
                        = IF t \in P!Active THEN 1 ELSE 0

\* One message of the conversation orders, at most.
OneOrder == \E o \in Update : \A u \in Update : Says[u].kind = "order" => u = o

\* However often Telegram delivers a "yes", and whatever its turns run into, it
\* buys what was ordered once: a second turn for it finds the marker gone or its
\* row there.  Only a twin in flight, a crash between the stock-out and the clear
\* (purchase.py:431-461), a stock-out that raised past its handler or a clear that
\* failed make it deduct twice.  (Of several orders offered in overlapping turns
\* the clear may take the wrong marker.)
BoughtOnce ==
    OneOrder /\ mishaps \cap {"clear", "stockout"} = {} =>
        \A i, j \in DOMAIN movements :
            i # j /\ movements[i].by[1] = movements[j].by[1] =>
                suffered[movements[i].by[1]] \cap {"twin", "crash"} # {}

\* The offer of the conversation's only order, once the customer has been sent it,
\* can be taken up: its marker stands until a turn loads it for a "yes" or a "no".
\* A twin's offer replaces the marker and is then refused with its row
\* (persist.py:176, purchase.py:552), and a record that fails loses it; nothing else
\* does, not even a crash.  (With several orders a later offer replaces it, and a
\* confirmation of another one in flight may clear it, as PendingSurvives says.)
OfferStands ==
    OneOrder =>
        \A t \in Turn :
            /\ pc[t] = "done" /\ offer[t] # None
            /\ replies[t[1]] > 0
            /\ suffered[t[1]] \cap {"twin", "persist"} = {}
            => \/ \E i \in DOMAIN markers : markers[i] = offer[t]
               \/ \E u \in Turn : seen[u] = offer[t]

\* The webhook's model holds with real turns in the place of its assumptions: every
\* step is one of its steps, and that the work on a permit ends, which it takes for
\* granted, follows from the single awaits of a turn ending (telegram.py:72-90).
WebhookKeepsItsWord == W!Spec

=============================================================================
