-------------------------- MODULE SalesAgent_proofs --------------------------
(***************************************************************************)
(* The conversation from its updates to Inventra's ledger keeps what both  *)
(* of its models promise, and what they promise together, for any number   *)
(* of updates, deliveries and permits and any faults.  The theorems about  *)
(* TelegramWebhook and PurchaseFlow carry over: every step of a            *)
(* conversation is a step, or a stutter, of each.                          *)
(***************************************************************************)
EXTENDS SalesAgent, FiniteSetTheorems, SequenceTheorems, TLAPS

Webhook == INSTANCE TelegramWebhook_proofs
           WITH Ignored <- {}, Faults <- ChannelFaults, mishaps <- suffered
Purchase == INSTANCE PurchaseFlow_proofs
            WITH MaxInFlight <- Cardinality(Slot), Faults <- TurnFaults

-----------------------------------------------------------------------------
(***************************************************************************)
(* Both models, with the theorems proved of them.                          *)
(***************************************************************************)

\* SalesAgent's instance of the webhook and the proved one are the same module.
LEMMA WebhookSame ==
    /\ W!Init <=> Webhook!Init
    /\ [W!Next]_channel <=> [Webhook!Next]_Webhook!vars
<1>1. W!Init <=> Webhook!Init
  BY DEF W!Init, Webhook!Init, W!Free, Webhook!Free
<1>2. ASSUME NEW u \in Update PROVE W!Post(u) <=> Webhook!Post(u)
  BY DEF W!Post, Webhook!Post
<1>3. ASSUME NEW s \in Slot PROVE W!Take(s) <=> Webhook!Take(s)
  BY DEF W!Take, Webhook!Take, W!StartTurn, Webhook!StartTurn, W!SkipDuplicate,
     Webhook!SkipDuplicate, W!IdentityFails, Webhook!IdentityFails, W!Admit,
     Webhook!Admit, W!Free, Webhook!Free, W!Suffer, Webhook!Suffer, W!Running, Webhook!Running
<1>4. ASSUME NEW s \in Slot PROVE W!Work(s) <=> Webhook!Work(s)
  BY DEF W!Work, Webhook!Work, W!TurnFails, Webhook!TurnFails, W!Persist, Webhook!Persist,
     W!Free, Webhook!Free, W!Suffer, Webhook!Suffer
<1>5. ASSUME NEW s \in Slot PROVE W!Deliver(s) <=> Webhook!Deliver(s)
  BY DEF W!Deliver, Webhook!Deliver, W!Delivered, Webhook!Delivered, W!SendFails,
     Webhook!SendFails, W!SendRefused, Webhook!SendRefused,
     W!Free, Webhook!Free, W!Suffer, Webhook!Suffer
<1>6. W!Crash <=> Webhook!Crash
  BY DEF W!Crash, Webhook!Crash, W!Free, Webhook!Free, W!Queued, Webhook!Queued, W!Running, Webhook!Running
<1>7. W!Next <=> Webhook!Next
  BY <1>2, <1>3, <1>4, <1>5, <1>6 DEF W!Next, Webhook!Next
<1> QED  BY <1>1, <1>7 DEF channel, Webhook!vars

\* So are its instances of the purchase flow.
LEMMA PurchaseSame ==
    /\ P!Init <=> Purchase!Init
    /\ [P!Next]_flow <=> [Purchase!Next]_Purchase!vars
<1>1. P!Init <=> Purchase!Init
  BY DEF P!Init, Purchase!Init
<1>2. ASSUME NEW t \in Turn PROVE P!Step(t) <=> Purchase!Step(t)
  <2>1. /\ P!GatherRaises(t) <=> Purchase!GatherRaises(t)
        /\ P!ComposeRaises(t) <=> Purchase!ComposeRaises(t)
        /\ P!StockOutRaises(t) <=> Purchase!StockOutRaises(t)
        /\ P!Finish(t) <=> Purchase!Finish(t)
        /\ P!SendStockOut(t) <=> Purchase!SendStockOut(t)
    BY DEF P!GatherRaises, Purchase!GatherRaises, P!ComposeRaises, Purchase!ComposeRaises,
           P!Finish, Purchase!Finish, P!SendStockOut, Purchase!SendStockOut,
           P!StockOutRaises, Purchase!StockOutRaises
  <2>2. /\ P!PassThrough(t) <=> Purchase!PassThrough(t)
        /\ P!NothingPending(t) <=> Purchase!NothingPending(t)
        /\ P!Confirm(t) <=> Purchase!Confirm(t)
        /\ P!RefuseOrder(t) <=> Purchase!RefuseOrder(t)
        /\ P!LookUp(t) <=> Purchase!LookUp(t)
        /\ P!CannotOffer(t) <=> Purchase!CannotOffer(t)
        /\ P!LookUpFails(t) <=> Purchase!LookUpFails(t)
    BY DEF P!PassThrough, Purchase!PassThrough, P!NothingPending, Purchase!NothingPending,
           P!Confirm, Purchase!Confirm, P!RefuseOrder, Purchase!RefuseOrder, P!LookUp,
           Purchase!LookUp, P!CannotOffer, Purchase!CannotOffer, P!LookUpFails,
           Purchase!LookUpFails, P!Resume, Purchase!Resume, P!Return, Purchase!Return,
           P!CanLoad, Purchase!CanLoad, P!Newest, Purchase!Newest, P!Ordered,
           Purchase!Ordered, P!ReturnToolError, Purchase!ReturnToolError
  <2>3. P!ClearNewest <=> Purchase!ClearNewest
    BY DEF P!ClearNewest, Purchase!ClearNewest
  <2>4. /\ P!Decline(t) <=> Purchase!Decline(t)
        /\ \A p \in Product : P!Offer(t, p) <=> Purchase!Offer(t, p)
        /\ P!AbandonOrder(t) <=> Purchase!AbandonOrder(t)
        /\ P!StockOutSucceeds(t) <=> Purchase!StockOutSucceeds(t)
        /\ P!StockOutFails(t) <=> Purchase!StockOutFails(t)
    BY <2>3 DEF P!Decline, Purchase!Decline, P!Offer, Purchase!Offer, P!AbandonOrder,
           Purchase!AbandonOrder, P!StockOutSucceeds, Purchase!StockOutSucceeds,
           P!StockOutFails, Purchase!StockOutFails, P!Resume, Purchase!Resume,
           P!Return, Purchase!Return, P!Newest, Purchase!Newest, P!Ordered,
           Purchase!Ordered, P!ReturnToolError, Purchase!ReturnToolError
  <2> QED  BY <2>1, <2>2, <2>4 DEF P!Step, Purchase!Step
<1>3. ASSUME NEW t \in Turn PROVE P!Inventra(t) <=> Purchase!Inventra(t)
  BY DEF P!Inventra, Purchase!Inventra, P!InventraDeducts, Purchase!InventraDeducts,
         P!InventraRefuses, Purchase!InventraRefuses, P!turnVars, Purchase!turnVars
<1>4. ASSUME NEW t \in Turn, NEW m PROVE P!Receive(t, m) <=> Purchase!Receive(t, m)
  <2>1. P!Active = Purchase!Active
    BY DEF P!Active, Purchase!Active, P!Awaiting, Purchase!Awaiting
  <2>2. P!Cardinality(P!Active) = Purchase!Cardinality(Purchase!Active)
    BY <2>1 DEF P!Cardinality, Purchase!Cardinality
  <2> QED  BY <2>1, <2>2 DEF P!Receive, Purchase!Receive
<1>5. P!Crash <=> Purchase!Crash
  BY DEF P!Crash, Purchase!Crash, P!Active, Purchase!Active, P!Awaiting, Purchase!Awaiting
<1>6. P!Message = Purchase!Message
  BY DEF P!Message, Purchase!Message
<1>7. ASSUME NEW t \in Turn
      PROVE  (\E m \in P!Message : P!Receive(t, m)) <=> \E m \in Purchase!Message : Purchase!Receive(t, m)
  BY <1>4, <1>6
<1>8. P!Next <=> Purchase!Next
  BY <1>2, <1>3, <1>5, <1>7 DEF P!Next, Purchase!Next
<1> QED  BY <1>1, <1>8 DEF flow, Purchase!vars

\* The constants meet what both models assume of theirs.
LEMMA Assumptions ==
    /\ Webhook!IgnoredAssumption /\ Webhook!SlotAssumption
    /\ Webhook!BoundsAssumption /\ Webhook!FaultsAssumption
    /\ Purchase!QuantityAssumption /\ Purchase!UnstatedAssumption
    /\ Purchase!InFlightAssumption /\ Purchase!FaultsAssumption
    /\ Purchase!NoneAssumption
<1>1. Cardinality(Slot) \in Nat /\ Cardinality(Slot) # 0
  BY PermitAssumption, FS_CardinalityType, FS_EmptySet
<1>2. P!PendingPurchase = Purchase!PendingPurchase
  BY DEF P!PendingPurchase, Purchase!PendingPurchase
<1> QED
  BY <1>1, <1>2, PermitAssumption, BoundsAssumption, OrderAssumption, NoneAssumption,
     FaultsAssumption
  DEF Webhook!IgnoredAssumption, Webhook!SlotAssumption, Webhook!BoundsAssumption,
      Webhook!FaultsAssumption, Purchase!QuantityAssumption, Purchase!UnstatedAssumption,
      Purchase!InFlightAssumption, Purchase!FaultsAssumption, Purchase!NoneAssumption

\* The webhook's invariant, as its own proof has it.
LEMMA WebhookKeeps ==
    /\ W!Init => Webhook!IInv
    /\ Webhook!IInv /\ [W!Next]_channel => Webhook!IInv'
<1>1. Webhook!Init => Webhook!IInv
  BY Assumptions, Webhook!InitIInv
<1>2. Webhook!IInv /\ [Webhook!Next]_Webhook!vars => Webhook!IInv'
  BY Assumptions, Webhook!StepIInv
<1> QED  BY <1>1, <1>2, WebhookSame

\* ... and what covers the copies of its replies.
LEMMA WebhookCovers ==
    /\ W!Init => Webhook!CopiesInv
    /\ Webhook!IInv /\ Webhook!CopiesInv /\ [W!Next]_channel => Webhook!CopiesInv'
<1>1. Webhook!Init => Webhook!CopiesInv
  BY Assumptions, Webhook!InitCopies
<1>2. Webhook!IInv /\ Webhook!CopiesInv /\ [Webhook!Next]_Webhook!vars => Webhook!CopiesInv'
  BY Assumptions, Webhook!StepCopies
<1> QED  BY <1>1, <1>2, WebhookSame

\* And the purchase flow's.
LEMMA PurchaseKeeps ==
    /\ P!Init => Purchase!IInv
    /\ Purchase!IInv /\ [P!Next]_flow => Purchase!IInv'
<1>1. Purchase!Init => Purchase!IInv
  BY Assumptions, Purchase!InitIInv
<1>2. Purchase!IInv /\ [Purchase!Next]_Purchase!vars => Purchase!IInv'
  BY Assumptions, Purchase!StepIInv
<1> QED  BY <1>1, <1>2, PurchaseSame

-----------------------------------------------------------------------------
(***************************************************************************)
(* The inductive invariant: both models' and what ties them together, in   *)
(* named parts.                                                            *)
(***************************************************************************)

\* A permit in a turn carries a turn of its update, which no other one carries,
\* and the turns that run are those.
TurnsInv ==
    /\ turn \in [Slot -> Turn \cup {None}]
    /\ \A s \in Slot : turn[s] # None <=> slot[s].at = "turn"
    /\ \A s \in Slot : turn[s] # None => turn[s][1] = slot[s].update
    /\ \A s, r \in Slot : turn[s] # None /\ turn[s] = turn[r] => s = r
    /\ \A t \in Turn : pc[t] \in P!Awaiting <=> \E s \in Slot : turn[s] = t

\* What a turn was started with is what its update says.
SaidInv == \A t \in Turn : pc[t] # "idle" => msg[t] = Says[t[1]]

Places(q, u) == {i \in DOMAIN q : q[i] = u}

\* Every run, and every task in line, is for a delivery of its own.
CountInv ==
    \A u \in Update :
        /\ runs[u] + Cardinality(Places(queue, u)) <= posts[u]
        /\ posts[u] <= MaxPosts[u]

\* Without a twin one permit works on an update, and as long as its turn runs
\* the update has no row.
TwinInv ==
    \A u \in Update : "twin" \notin suffered[u] =>
        /\ \A s, r \in Slot : slot[s].update = u /\ slot[r].update = u => s = r
        /\ \A s \in Slot : turn[s] # None /\ turn[s][1] = u => rows[u] = 0

\* One order message makes one marker, with its row, and whoever has loaded a
\* purchase has loaded this one.
OneInv ==
    OneOrder =>
        /\ Len(markers) <= 1
        /\ \A t \in Turn : seen[t] # None => \A i \in 1..Len(markers) : markers[i] = seen[t]
        /\ \A u \in Update : Says[u].kind = "order" /\ rows[u] = 0 =>
              markers = <<>> /\ \A t \in Turn : seen[t] = None

\* Whoever loaded it and is past its stock-out has taken it away for good, so
\* another turn for the same update does not load it again.
SpentInv ==
    OneOrder /\ mishaps \cap {"clear", "stockout"} = {} =>
        /\ \A t \in Turn :
              /\ seen[t] # None /\ pc[t] \notin {"recheck", "stockout"}
              /\ "crash" \notin suffered[t[1]]
              => markers = <<>>
        /\ \A t, v \in Turn :
              /\ t[1] = v[1] /\ seen[t] # None /\ seen[v] # None
              /\ suffered[t[1]] \cap {"twin", "crash"} = {}
              => t = v

\* OfferStands, of every finished turn, whether its reply got through or not.
StandInv ==
    OneOrder =>
        \A t \in Turn :
            /\ pc[t] = "done" /\ offer[t] # None
            /\ suffered[t[1]] \cap {"twin", "persist"} = {}
            => \/ \E i \in 1..Len(markers) : markers[i] = offer[t]
               \/ \E u \in Turn : seen[u] = offer[t]

IInv ==
    /\ Webhook!IInv /\ Purchase!IInv
    /\ TurnsInv /\ SaidInv /\ CountInv /\ TwinInv
    /\ OneInv /\ SpentInv /\ StandInv

-----------------------------------------------------------------------------
(***************************************************************************)
(* How often an update is in line.                                         *)
(***************************************************************************)

\* Finitely often.
LEMMA PlacesFinite ==
    ASSUME NEW q \in Seq(Update), NEW u
    PROVE  IsFiniteSet(Places(q, u)) /\ Cardinality(Places(q, u)) \in Nat
<1>1. IsFiniteSet(1..Len(q))
  BY FS_Interval
<1>2. Places(q, u) \in SUBSET (1..Len(q))
  BY DEF Places
<1> QED  BY <1>1, <1>2, FS_Subset, FS_CardinalityType

\* A delivery puts its update in line once more, and no other.
LEMMA AppendPlaces ==
    ASSUME NEW q \in Seq(Update), NEW v \in Update, NEW u
    PROVE  Cardinality(Places(Append(q, v), u))
            = Cardinality(Places(q, u)) + (IF u = v THEN 1 ELSE 0)
<1> DEFINE n == Len(q) + 1
<1>1. /\ DOMAIN q = 1..Len(q) /\ Len(q) \in Nat
      /\ DOMAIN Append(q, v) = 1..n
      /\ Append(q, v)[n] = v
      /\ \A i \in 1..Len(q) : Append(q, v)[i] = q[i]
  OBVIOUS
<1>2. IsFiniteSet(Places(q, u)) /\ Cardinality(Places(q, u)) \in Nat
  BY PlacesFinite
<1>3. n \notin Places(q, u)
  BY <1>1 DEF Places
<1>4. CASE u = v
  <2>1. Places(Append(q, v), u) = Places(q, u) \cup {n}
    BY <1>1, <1>4 DEF Places
  <2> QED  BY <1>2, <1>3, <1>4, <2>1, FS_AddElement
<1>5. CASE u # v
  <2>1. Places(Append(q, v), u) = Places(q, u)
    BY <1>1, <1>5 DEF Places
  <2> QED  BY <1>2, <1>5, <2>1
<1> QED  BY <1>4, <1>5

\* A permit takes the first in line, and no other.
LEMMA TailPlaces ==
    ASSUME NEW q \in Seq(Update), q # <<>>, NEW u
    PROVE  /\ Head(q) \in Update /\ Tail(q) \in Seq(Update)
           /\ Cardinality(Places(Tail(q), u)) + (IF u = Head(q) THEN 1 ELSE 0)
                <= Cardinality(Places(q, u))
<1> DEFINE rest == Places(q, u) \ {1}
           f == [i \in Places(Tail(q), u) |-> i + 1]
<1>1. /\ DOMAIN q = 1..Len(q) /\ Len(q) \in Nat \ {0}
      /\ Head(q) = q[1] /\ Head(q) \in Update /\ Tail(q) \in Seq(Update)
      /\ DOMAIN Tail(q) = 1..(Len(q) - 1)
      /\ \A i \in 1..(Len(q) - 1) : Tail(q)[i] = q[i + 1]
  OBVIOUS
<1>2. /\ IsFiniteSet(Places(q, u)) /\ Cardinality(Places(q, u)) \in Nat
      /\ IsFiniteSet(Places(Tail(q), u)) /\ Cardinality(Places(Tail(q), u)) \in Nat
  BY <1>1, PlacesFinite
<1>3. /\ IsFiniteSet(rest)
      /\ Cardinality(rest) = IF u = Head(q) THEN Cardinality(Places(q, u)) - 1
                             ELSE Cardinality(Places(q, u))
  <2>1. 1 \in Places(q, u) <=> u = Head(q)
    BY <1>1 DEF Places
  <2> QED  BY <1>2, <2>1, FS_RemoveElement
<1>4. f \in Injection(Places(Tail(q), u), rest)
  <2>1. ASSUME NEW i \in Places(Tail(q), u) PROVE i \in Nat /\ i + 1 \in rest
    BY <1>1 DEF Places
  <2>2. f \in [Places(Tail(q), u) -> rest]
    BY <2>1
  <2>3. ASSUME NEW i \in Places(Tail(q), u), NEW j \in Places(Tail(q), u), f[i] = f[j]
        PROVE  i = j
    BY <2>1, <2>3
  <2> QED  BY <2>2, <2>3 DEF Injection, IsInjective
<1>5. Cardinality(Places(Tail(q), u)) <= Cardinality(rest)
  <2> HIDE DEF rest, f
  <2> QED  BY <1>3, <1>4, FS_Injection
<1> QED  BY <1>1, <1>2, <1>3, <1>5

-----------------------------------------------------------------------------
(***************************************************************************)
(* What the steps of a turn do to the flow's variables.                    *)
(***************************************************************************)

\* A step of a running turn leaves the others alone; it offers at most once, and
\* loads at most once, what is then the newest marker.
LEMMA TurnStep ==
    ASSUME Purchase!IInv, NEW t \in Turn, P!Step(t)
    PROVE  /\ pc[t] \in P!Awaiting /\ msg' = msg
           /\ \A v \in Turn : v # t =>
                 pc'[v] = pc[v] /\ seen'[v] = seen[v] /\ offer'[v] = offer[v]
           /\ mishaps \subseteq mishaps'
           /\ offer'[t] # offer[t] => offer[t] = None /\ offer'[t] # None
           /\ seen'[t] # seen[t] => /\ seen[t] = None /\ pc[t] = "gather" /\ markers # <<>>
                                    /\ seen'[t] = markers[Len(markers)]
<1> USE DEF P!Awaiting, P!Return, P!ReturnToolError, P!Resume, P!Newest, P!ClearNewest
<1>1. /\ pc \in [Turn -> P!Awaiting \cup {"idle", "done", "aborted"}]
      /\ seen \in [Turn -> P!PendingPurchase \cup {None}]
      /\ offer \in [Turn -> P!PendingPurchase \cup {None}]
  BY DEF Purchase!IInv, Purchase!TypeOK, Purchase!Awaiting, Purchase!PendingPurchase,
         P!PendingPurchase
<1>2. pc[t] \in {"gather", "lookup"} => seen[t] = None /\ offer[t] = None
  BY DEF Purchase!IInv, Purchase!PlaceInv
<1>3. CASE \/ P!GatherRaises(t) \/ P!PassThrough(t) \/ P!NothingPending(t)
           \/ P!RefuseOrder(t) \/ P!LookUp(t) \/ P!CannotOffer(t) \/ P!LookUpFails(t)
           \/ P!SendStockOut(t) \/ P!StockOutRaises(t) \/ P!Finish(t) \/ P!ComposeRaises(t)
  BY <1>1, <1>2, <1>3
  DEF P!GatherRaises, P!PassThrough, P!NothingPending, P!RefuseOrder, P!LookUp,
      P!CannotOffer, P!LookUpFails, P!SendStockOut, P!StockOutRaises, P!Finish,
      P!ComposeRaises
<1>4. CASE P!Confirm(t) \/ P!Decline(t)
  BY <1>1, <1>2, <1>4 DEF P!Confirm, P!Decline
<1>5. CASE \E p \in Product : P!Offer(t, p)
  BY <1>1, <1>2, <1>5, NoneAssumption DEF P!Offer
<1>6. CASE P!AbandonOrder(t) \/ P!StockOutSucceeds(t) \/ P!StockOutFails(t)
  BY <1>1, <1>2, <1>6 DEF P!AbandonOrder, P!StockOutSucceeds, P!StockOutFails
<1> QED  BY <1>3, <1>4, <1>5, <1>6 DEF P!Step

Dropped == IF markers = <<>> THEN <<>> ELSE SubSeq(markers, 1, Len(markers) - 1)

\* Unless it persists, a turn leaves the markers alone or drops the newest one,
\* having loaded a marker or made an offer.  One that has loaded a marker and gets
\* past its stock-out drops the newest, unless the clear fails or it has raised.
LEMMA MarkerStep ==
    ASSUME Purchase!IInv, NEW t \in Turn, P!Step(t), pc'[t] # "done"
    PROVE  /\ \/ markers' = markers
              \/ markers' = Dropped /\ (seen'[t] # None \/ offer'[t] # None)
           /\ \/ seen'[t] = None
              \/ pc[t] \notin {"gather", "recheck", "stockout"}
              \/ pc'[t] \in {"recheck", "stockout"}
              \/ markers' = Dropped
              \/ mishaps' \cap {"clear", "stockout"} # {}
<1> USE DEF P!Awaiting, P!Return, P!ReturnToolError, P!Resume, P!Newest, P!ClearNewest, Dropped
<1>1. /\ pc \in [Turn -> P!Awaiting \cup {"idle", "done", "aborted"}]
      /\ seen \in [Turn -> P!PendingPurchase \cup {None}]
      /\ offer \in [Turn -> P!PendingPurchase \cup {None}]
  BY DEF Purchase!IInv, Purchase!TypeOK, Purchase!Awaiting, Purchase!PendingPurchase,
         P!PendingPurchase
<1>2. /\ pc[t] \in {"gather", "lookup"} => seen[t] = None /\ offer[t] = None
      /\ pc[t] \in {"recheck", "stockout"} => seen[t] # None
  BY DEF Purchase!IInv, Purchase!PlaceInv, Purchase!RequestInv
<1>3. CASE P!GatherRaises(t) \/ P!LookUp(t) \/ P!SendStockOut(t) \/ P!ComposeRaises(t)
  BY <1>1, <1>2, <1>3 DEF P!GatherRaises, P!LookUp, P!SendStockOut, P!ComposeRaises
<1>10. CASE P!StockOutRaises(t)
  BY <1>10 DEF P!StockOutRaises
<1>9. CASE \/ P!PassThrough(t) \/ P!NothingPending(t) \/ P!RefuseOrder(t)
           \/ P!CannotOffer(t) \/ P!LookUpFails(t)
  <2>1. pc[t] \in {"gather", "lookup"} /\ seen' = seen /\ markers' = markers
    BY <1>9 DEF P!PassThrough, P!NothingPending, P!RefuseOrder, P!CannotOffer, P!LookUpFails
  <2> QED  BY <1>2, <2>1
<1>4. CASE P!Confirm(t)
  BY <1>1, <1>2, <1>4 DEF P!Confirm
<1>5. CASE P!Decline(t)
  BY <1>1, <1>2, <1>5 DEF P!Decline
<1>6. CASE \E p \in Product : P!Offer(t, p)
  <2>1. PICK p \in Product : P!Offer(t, p)
    BY <1>6
  <2>2. [from |-> t, product |-> p, quantity |-> P!Ordered(t)] \in P!PendingPurchase
    <3>1. pc[t] = "lookup"
      BY <2>1 DEF P!Offer
    <3> QED
      BY <3>1, Assumptions, Purchase!OrderedIsPending
      DEF P!PendingPurchase, Purchase!PendingPurchase, P!Ordered, Purchase!Ordered
  <2> QED  BY <1>1, <1>2, <2>1, <2>2, NoneAssumption DEF P!Offer
<1>7. CASE P!AbandonOrder(t) \/ P!StockOutSucceeds(t) \/ P!StockOutFails(t)
  BY <1>1, <1>2, <1>7 DEF P!AbandonOrder, P!StockOutSucceeds, P!StockOutFails
<1>8. ~P!Finish(t)
  BY <1>1 DEF P!Finish
<1> QED  BY <1>3, <1>4, <1>5, <1>6, <1>7, <1>8, <1>9, <1>10 DEF P!Step

-----------------------------------------------------------------------------
(***************************************************************************)
(* Every step is one of both models'.                                      *)
(***************************************************************************)

\* What the models' type invariants say of the variables.
LEMMA Types ==
    ASSUME IInv
    PROVE  /\ queue \in Seq(Update)
           /\ \A u \in Update : /\ posts[u] \in Nat /\ runs[u] \in Nat /\ rows[u] \in Nat
                                /\ rows[u] <= 1
           /\ posts \in [Update -> Nat] /\ runs \in [Update -> Nat] /\ rows \in [Update -> Nat]
           /\ suffered \in [Update -> SUBSET Webhook!Mishap]
           /\ slot \in [Slot -> Webhook!SlotState]
           /\ \A s \in Slot : slot[s].at # "free" => slot[s].update \in Update
           /\ pc \in [Turn -> P!Awaiting \cup {"idle", "done", "aborted"}]
           /\ msg \in [Turn -> P!Message]
           /\ seen \in [Turn -> P!PendingPurchase \cup {None}]
           /\ offer \in [Turn -> P!PendingPurchase \cup {None}]
           /\ markers \in Seq(P!PendingPurchase)
<1>1. /\ Webhook!TypeOK /\ Webhook!SlotInv /\ Webhook!RecordInv /\ Purchase!TypeOK
  BY DEF IInv, Webhook!IInv, Purchase!IInv
<1>2. /\ queue \in Seq(Update) /\ suffered \in [Update -> SUBSET Webhook!Mishap]
      /\ posts \in [Update -> Nat] /\ runs \in [Update -> Nat] /\ rows \in [Update -> Nat]
      /\ slot \in [Slot -> Webhook!SlotState]
      /\ \A u \in Update : rows[u] <= 1
  BY <1>1 DEF Webhook!TypeOK, Webhook!RecordInv
<1>3. \A s \in Slot : slot[s].at # "free" => slot[s].update \in Update
  BY <1>1 DEF Webhook!SlotInv
<1>4. /\ pc \in [Turn -> P!Awaiting \cup {"idle", "done", "aborted"}]
      /\ msg \in [Turn -> P!Message]
      /\ seen \in [Turn -> P!PendingPurchase \cup {None}]
      /\ offer \in [Turn -> P!PendingPurchase \cup {None}]
      /\ markers \in Seq(P!PendingPurchase)
  BY <1>1 DEF Purchase!TypeOK, Purchase!Awaiting, P!Awaiting, Purchase!Message, P!Message,
              Purchase!PendingPurchase, P!PendingPurchase
<1> QED  BY <1>2, <1>3, <1>4

\* A turn is a delivery of its update, by number.
LEMMA Turns ==
    /\ \A u \in Update : \A n \in 1..MaxPosts[u] : <<u, n>> \in Turn
    /\ \A t \in Turn : t[1] \in Update /\ t # None
<1>1. ASSUME NEW u \in Update, NEW n \in 1..MaxPosts[u] PROVE <<u, n>> \in Turn
  <2> DEFINE run == <<u, n>>
             ofU == {u} \X (1..MaxPosts[u])
  <2>1. run \in ofU /\ ofU \in {{v} \X (1..MaxPosts[v]) : v \in Update}
    OBVIOUS
  <2> HIDE DEF run, ofU
  <2>2. run \in Turn
    BY <2>1 DEF Turn
  <2> QED  BY <2>2 DEF run
<1>2. ASSUME NEW t \in Turn PROVE t[1] \in Update /\ t # None
  BY NoneAssumption DEF Turn
<1> QED  BY <1>1, <1>2

\* The update at the head of the line gets a turn that has not been run.
LEMMA Starts ==
    ASSUME IInv, NEW s \in Slot, StartTurn(s)
    PROVE  \E u \in Update, t \in Turn :
              /\ queue # <<>> /\ u = Head(queue) /\ queue' = Tail(queue) /\ t[1] = u
              /\ slot[s].at = "free" /\ rows[u] = 0
              /\ slot' = [slot EXCEPT ![s] = [at |-> "turn", update |-> u, retries |-> 0]]
              /\ runs' = [runs EXCEPT ![u] = @ + 1]
              /\ suffered' = IF W!Running(u) THEN [suffered EXCEPT ![u] = @ \cup {"twin"}]
                             ELSE suffered
              /\ P!Receive(t, Says[u])
              /\ turn' = [turn EXCEPT ![s] = t]
              /\ UNCHANGED <<posts, rows, replies>>
<1> DEFINE u == Head(queue)
           t == <<u, runs'[u]>>
<1>1. /\ slot[s] = W!Free /\ queue # <<>> /\ queue' = Tail(queue)
      /\ UNCHANGED <<acked, posts, rows, replies>>
      /\ rows[u] = 0
      /\ slot' = [slot EXCEPT ![s] = [at |-> "turn", update |-> u, retries |-> 0]]
      /\ runs' = [runs EXCEPT ![u] = @ + 1]
      /\ suffered' = IF W!Running(u) THEN [suffered EXCEPT ![u] = @ \cup {"twin"}]
                     ELSE suffered
      /\ P!Receive(t, Says[u])
      /\ turn' = [turn EXCEPT ![s] = t]
  BY DEF StartTurn, W!StartTurn, W!Admit, W!Suffer
<1>2. /\ u \in Update
      /\ Cardinality(Places(Tail(queue), u)) + 1 <= Cardinality(Places(queue, u))
      /\ Cardinality(Places(Tail(queue), u)) \in Nat
      /\ Cardinality(Places(queue, u)) \in Nat
  BY <1>1, Types, TailPlaces, PlacesFinite
<1>3. runs'[u] \in 1..MaxPosts[u]
  <2>1. runs[u] + Cardinality(Places(queue, u)) <= posts[u] /\ posts[u] <= MaxPosts[u]
    BY <1>2 DEF IInv, CountInv
  <2>2. runs[u] \in Nat /\ posts[u] \in Nat /\ MaxPosts[u] \in Nat /\ runs'[u] = runs[u] + 1
    BY <1>1, <1>2, Types, BoundsAssumption
  <2> QED  BY <1>2, <2>1, <2>2
<1>4. t \in Turn /\ t[1] = u
  BY <1>2, <1>3, Turns
<1>5. slot[s].at = "free"
  BY <1>1 DEF W!Free
<1> HIDE DEF t, u
<1> QED  BY <1>1, <1>2, <1>4, <1>5 DEF u

\* The turn that a step of a permit's work belongs to.
LEMMA Works ==
    ASSUME IInv, NEW s \in Slot, Await(s) \/ TurnRaises(s) \/ Persist(s)
    PROVE  /\ turn[s] \in Turn /\ turn[s] # None /\ P!Step(turn[s])
           /\ slot[s].at = "turn" /\ slot[s].update = turn[s][1] /\ turn[s][1] \in Update
<1>1. turn[s] # None /\ turn[s] \in Turn
  BY DEF IInv, TurnsInv, Await, TurnRaises, Persist
<1>2. P!Step(turn[s])
  <2>1. P!Finish(turn[s]) => P!Step(turn[s])
    BY DEF P!Step
  <2> QED  BY <2>1 DEF Await, TurnRaises, Persist
<1> QED  BY <1>1, <1>2, Turns DEF IInv, TurnsInv

\* A conversation does what the webhook and the purchase flow can do.
LEMMA StepIsBoth ==
    ASSUME IInv, [Next]_vars
    PROVE  [W!Next]_channel /\ [P!Next]_flow
<1>1. ASSUME NEW s \in Slot, StartTurn(s) PROVE W!Next /\ P!Next
  <2>1. W!Take(s)
    BY <1>1 DEF StartTurn, W!Take
  <2>2. PICK u \in Update, t \in Turn : P!Receive(t, Says[u])
    BY <1>1, Starts
  <2>3. Says[u] \in P!Message
    BY SaysAssumption
  <2> QED  BY <2>1, <2>2, <2>3 DEF W!Next, P!Next
<1>2. ASSUME NEW s \in Slot, Channel(s) PROVE W!Next /\ UNCHANGED flow
  BY <1>2 DEF Channel, W!Next, W!Take
<1>3. ASSUME NEW s \in Slot, Work(s) PROVE [W!Next]_channel /\ P!Next
  <2>1. turn[s] \in Turn /\ P!Step(turn[s])
    BY <1>3, Works DEF Work
  <2>2. P!Next
    BY <2>1 DEF P!Next
  <2>3. [W!Next]_channel
    BY <1>3 DEF Work, Await, TurnRaises, Persist, W!Next, W!Work
  <2> QED  BY <2>2, <2>3
<1>4. CASE Environment
  <2>1. CASE (\E u \in Update : W!Post(u)) /\ UNCHANGED <<flow, turn>>
    BY <2>1 DEF W!Next
  <2>2. CASE (\E t \in Turn : P!Inventra(t)) /\ UNCHANGED <<channel, turn>>
    BY <2>2 DEF P!Next
  <2> QED  BY <1>4, <2>1, <2>2 DEF Environment
<1>5. CASE Crash
  BY <1>5 DEF Crash, W!Next, P!Next
<1>6. CASE UNCHANGED vars
  BY <1>6 DEF vars, channel, flow
<1> QED  BY <1>1, <1>2, <1>3, <1>4, <1>5, <1>6 DEF Next

-----------------------------------------------------------------------------
(***************************************************************************)
(* Every step keeps what ties the models together.                         *)
(***************************************************************************)

Ties == TurnsInv /\ SaidInv /\ CountInv /\ TwinInv /\ OneInv /\ SpentInv /\ StandInv

\* The place of a turn says what it has loaded and offered.
LEMMA PlaceFacts ==
    ASSUME IInv, NEW t \in Turn
    PROVE  /\ pc[t] \in {"idle", "gather", "lookup"} => seen[t] = None /\ offer[t] = None
           /\ offer[t] # None => msg[t].kind = "order" /\ offer[t].from = t
           /\ seen[t] # None => /\ seen[t].from \in Turn /\ seen[t] \in P!PendingPurchase
                                /\ offer[seen[t].from] = seen[t]
                                /\ msg[seen[t].from].kind = "order"
                                /\ pc[seen[t].from] = "done"
  BY DEF IInv, Purchase!IInv, Purchase!PlaceInv, Purchase!OfferInv, Purchase!Offered,
         Purchase!PendingPurchase, P!PendingPurchase

\* There are no turns yet, and nothing is in line.
LEMMA InitIInv == Init => IInv
<1> SUFFICES ASSUME Init PROVE IInv
  OBVIOUS
<1>1. Webhook!IInv /\ Purchase!IInv
  BY WebhookKeeps, PurchaseKeeps DEF Init
<1>2. /\ turn = [s \in Slot |-> None] /\ queue = <<>> /\ markers = <<>>
      /\ \A s \in Slot : slot[s].at = "free" /\ slot[s].update = NoUpdate
      /\ \A u \in Update : posts[u] = 0 /\ runs[u] = 0
      /\ \A t \in Turn : pc[t] = "idle" /\ seen[t] = None
  BY DEF Init, W!Init, P!Init, W!Free
<1>3. TurnsInv /\ SaidInv /\ TwinInv
  BY <1>2, PermitAssumption, Turns DEF TurnsInv, SaidInv, TwinInv, P!Awaiting
<1>4. CountInv
  <2>1. ASSUME NEW u \in Update
        PROVE  runs[u] + Cardinality(Places(queue, u)) <= posts[u] /\ posts[u] <= MaxPosts[u]
    <3>1. Places(queue, u) = {}
      BY <1>2 DEF Places
    <3>2. Cardinality(Places(queue, u)) = 0
      BY <3>1, FS_EmptySet
    <3>3. MaxPosts[u] \in Nat /\ posts[u] = 0 /\ runs[u] = 0
      BY <1>2, BoundsAssumption
    <3> QED  BY <3>2, <3>3
  <2> QED  BY <2>1 DEF CountInv
<1>5. OneInv /\ SpentInv /\ StandInv
  BY <1>2 DEF OneInv, SpentInv, StandInv
<1> QED  BY <1>1, <1>3, <1>4, <1>5 DEF IInv

\* A turn starts on a free permit, of an update without a row.
LEMMA StartTurnKeeps ==
    ASSUME IInv, NEW s \in Slot, StartTurn(s)
    PROVE  Ties'
<1>1. PICK u \in Update, t \in Turn :
          /\ queue # <<>> /\ u = Head(queue) /\ queue' = Tail(queue) /\ t[1] = u
          /\ slot[s].at = "free" /\ rows[u] = 0
          /\ slot' = [slot EXCEPT ![s] = [at |-> "turn", update |-> u, retries |-> 0]]
          /\ runs' = [runs EXCEPT ![u] = @ + 1]
          /\ suffered' = IF W!Running(u) THEN [suffered EXCEPT ![u] = @ \cup {"twin"}]
                         ELSE suffered
          /\ P!Receive(t, Says[u])
          /\ turn' = [turn EXCEPT ![s] = t]
          /\ UNCHANGED <<posts, rows, replies>>
  BY Starts
<1>2. /\ pc[t] = "idle" /\ pc' = [pc EXCEPT ![t] = "gather"]
      /\ msg' = [msg EXCEPT ![t] = Says[u]] /\ mishaps \subseteq mishaps'
      /\ UNCHANGED <<seen, offer, markers>>
  BY <1>1 DEF P!Receive
<1>3. /\ slot \in [Slot -> Webhook!SlotState] /\ turn \in [Slot -> Turn \cup {None}]
      /\ pc \in [Turn -> P!Awaiting \cup {"idle", "done", "aborted"}]
      /\ msg \in [Turn -> P!Message] /\ runs \in [Update -> Nat]
      /\ suffered \in [Update -> SUBSET Webhook!Mishap]
      /\ \A v \in Turn : v # None /\ v[1] \in Update
  BY Types, Turns DEF IInv, TurnsInv
<1>4. \A v \in Update : suffered[v] \subseteq suffered'[v]
  BY <1>1, <1>3
<1>5. TurnsInv'
  <2>1. turn[s] = None /\ \A r \in Slot : turn[r] # t
    BY <1>1, <1>2 DEF IInv, TurnsInv, P!Awaiting
  <2> QED  BY <1>1, <1>2, <1>3, <2>1 DEF IInv, TurnsInv, P!Awaiting
<1>6. SaidInv'
  BY <1>1, <1>2, <1>3 DEF IInv, SaidInv
<1>7. CountInv'
  <2> SUFFICES ASSUME NEW v \in Update
               PROVE  /\ runs'[v] + Cardinality(Places(queue', v)) <= posts'[v]
                      /\ posts'[v] <= MaxPosts[v]
    BY DEF CountInv
  <2>1. /\ Cardinality(Places(Tail(queue), v)) + (IF v = u THEN 1 ELSE 0)
            <= Cardinality(Places(queue, v))
        /\ Cardinality(Places(Tail(queue), v)) \in Nat
        /\ Cardinality(Places(queue, v)) \in Nat
    BY <1>1, Types, TailPlaces, PlacesFinite
  <2>2. /\ runs[v] + Cardinality(Places(queue, v)) <= posts[v] /\ posts[v] <= MaxPosts[v]
        /\ runs[v] \in Nat /\ posts[v] \in Nat /\ MaxPosts[v] \in Nat
    BY Types, BoundsAssumption DEF IInv, CountInv
  <2>3. runs'[v] = runs[v] + (IF v = u THEN 1 ELSE 0) /\ posts'[v] = posts[v]
    BY <1>1, <1>3
  <2> QED  BY <1>1, <2>1, <2>2, <2>3
<1>8. TwinInv'
  <2> SUFFICES ASSUME NEW v \in Update, "twin" \notin suffered'[v]
               PROVE  /\ \A q, r \in Slot : slot'[q].update = v /\ slot'[r].update = v => q = r
                      /\ \A r \in Slot : turn'[r] # None /\ turn'[r][1] = v => rows'[v] = 0
    BY DEF TwinInv
  <2>1. "twin" \notin suffered[v]
    BY <1>4
  <2>2. v = u => ~W!Running(u)
    BY <1>1, <1>3
  <2>3. v = u => \A r \in Slot : slot[r].update # u
    BY <2>2 DEF W!Running
  <2>4. \A r \in Slot : slot'[r] = IF r = s THEN [at |-> "turn", update |-> u, retries |-> 0]
                                   ELSE slot[r]
    BY <1>1, <1>3
  <2>5. \A r \in Slot : turn'[r] = IF r = s THEN t ELSE turn[r]
    BY <1>1, <1>3
  <2>6. \A r \in Slot : r # s /\ turn[r] # None /\ turn[r][1] = v => rows[v] = 0
    BY <2>1 DEF IInv, TwinInv
  <2> QED  BY <1>1, <2>1, <2>3, <2>4, <2>5, <2>6 DEF IInv, TwinInv
<1>9. OneInv'
  BY <1>1, <1>2 DEF IInv, OneInv
<1>10. seen[t] = None /\ offer[t] = None
  BY <1>2, PlaceFacts
<1>11. SpentInv'
  BY <1>2, <1>3, <1>4, <1>10 DEF IInv, SpentInv
<1>12. StandInv'
  <2>1. \A v \in Turn : pc'[v] = "done" => pc[v] = "done"
    BY <1>2, <1>3
  <2>2. \A v \in Turn : suffered'[v[1]] \cap {"twin", "persist"} = {}
                          => suffered[v[1]] \cap {"twin", "persist"} = {}
    BY <1>3, <1>4
  <2> QED  BY <1>2, <2>1, <2>2 DEF IInv, StandInv
<1> QED  BY <1>5, <1>6, <1>7, <1>8, <1>9, <1>11, <1>12 DEF Ties

\* A step outside the turns takes nothing back: permits are freed, mishaps pile up.
LEMMA OutsideKeeps ==
    ASSUME IInv, UNCHANGED <<flow, turn, rows>>,
           \A u \in Update : suffered[u] \subseteq suffered'[u],
           \A s \in Slot : /\ slot'[s].update \in {slot[s].update, NoUpdate}
                           /\ slot'[s].at = "turn" <=> slot[s].at = "turn"
                           /\ slot[s].at = "turn" => slot'[s].update = slot[s].update
    PROVE  TurnsInv' /\ SaidInv' /\ TwinInv' /\ OneInv' /\ SpentInv' /\ StandInv'
<1> USE DEF IInv
<1>1. UNCHANGED <<pc, msg, seen, offer, markers, mishaps, turn, rows>>
  BY DEF flow
<1>2. \A t \in Turn : t[1] \in Update
  BY Turns
<1>3. TurnsInv' /\ SaidInv'
  BY <1>1 DEF TurnsInv, SaidInv
<1>4. TwinInv'
  BY <1>1, PermitAssumption DEF TwinInv
<1>5. OneInv'
  BY <1>1 DEF OneInv
<1>6. SpentInv'
  <2>1. \A t \in Turn : suffered[t[1]] \subseteq suffered'[t[1]]
    BY <1>2
  <2> QED  BY <1>1, <2>1 DEF SpentInv
<1>7. StandInv'
  <2>1. \A t \in Turn : suffered[t[1]] \subseteq suffered'[t[1]]
    BY <1>2
  <2>2. \A t \in Turn : suffered'[t[1]] \cap {"twin", "persist"} = {}
                          => suffered[t[1]] \cap {"twin", "persist"} = {}
    BY <2>1
  <2> QED  BY <1>1, <2>2 DEF StandInv
<1> QED  BY <1>3, <1>4, <1>5, <1>6, <1>7

\* Taking an update out of line makes room for its run.
LEMMA CountKept ==
    ASSUME IInv, UNCHANGED <<posts, runs>>,
           \/ queue' = queue
           \/ queue' = <<>>
           \/ queue # <<>> /\ queue' = Tail(queue)
    PROVE  CountInv'
<1> SUFFICES ASSUME NEW u \in Update
             PROVE  runs[u] + Cardinality(Places(queue', u)) <= posts[u] /\ posts[u] <= MaxPosts[u]
  BY DEF CountInv
<1>1. /\ runs[u] + Cardinality(Places(queue, u)) <= posts[u] /\ posts[u] <= MaxPosts[u]
      /\ Cardinality(Places(queue, u)) \in Nat /\ runs[u] \in Nat /\ posts[u] \in Nat
  BY Types, PlacesFinite DEF IInv, CountInv
<1>2. /\ Cardinality(Places(queue', u)) \in Nat
      /\ Cardinality(Places(queue', u)) <= Cardinality(Places(queue, u))
  <2>1. CASE queue' = queue
    BY <1>1, <2>1
  <2>2. CASE queue' = <<>>
    <3>1. Places(queue', u) = {}
      BY <2>2 DEF Places
    <3> QED  BY <1>1, <3>1, FS_EmptySet
  <2>3. CASE queue # <<>> /\ queue' = Tail(queue)
    <3>1. /\ Tail(queue) \in Seq(Update)
          /\ Cardinality(Places(Tail(queue), u)) + (IF u = Head(queue) THEN 1 ELSE 0)
                <= Cardinality(Places(queue, u))
      BY <2>3, Types, TailPlaces
    <3>2. Cardinality(Places(Tail(queue), u)) \in Nat
      BY <3>1, PlacesFinite
    <3> QED  BY <1>1, <2>3, <3>1, <3>2
  <2> QED  BY <2>1, <2>2, <2>3
<1> QED  BY <1>1, <1>2

\* The rest of phase 1, and a delivery.
LEMMA ChannelKeeps ==
    ASSUME IInv, NEW s \in Slot, Channel(s)
    PROVE  Ties'
<1>1. /\ slot \in [Slot -> Webhook!SlotState] /\ suffered \in [Update -> SUBSET Webhook!Mishap]
      /\ slot[s].at # "free" => slot[s].update \in Update
  BY Types
<1>2. UNCHANGED <<flow, turn>>
  BY DEF Channel
<1>3. CASE W!SkipDuplicate(s) \/ W!IdentityFails(s)
  <2>1. /\ queue # <<>> /\ queue' = Tail(queue) /\ UNCHANGED <<posts, rows, slot, runs>>
        /\ \A u \in Update : suffered[u] \subseteq suffered'[u]
    BY <1>1, <1>3 DEF W!SkipDuplicate, W!IdentityFails, W!Admit, W!Suffer
  <2> QED  BY <1>2, <2>1, OutsideKeeps, CountKept DEF Ties
<1>4. CASE W!Deliver(s)
  <2>1. slot[s].at = "deliver" /\ UNCHANGED <<posts, queue, rows, runs>>
    BY <1>4 DEF W!Deliver, W!Delivered, W!SendFails, W!SendRefused
  <2>2. \A u \in Update : suffered[u] \subseteq suffered'[u]
    BY <1>1, <1>4 DEF W!Deliver, W!Delivered, W!SendFails, W!SendRefused, W!Suffer
  <2>3. \/ slot' = [slot EXCEPT ![s] = W!Free]
        \/ slot' = [slot EXCEPT ![s] = [slot[s] EXCEPT !.retries = @ - 1]]
    BY <1>4 DEF W!Deliver, W!Delivered, W!SendFails, W!SendRefused
  <2>4. \A r \in Slot : /\ slot'[r].update \in {slot[r].update, NoUpdate}
                        /\ slot'[r].at = "turn" <=> slot[r].at = "turn"
                        /\ slot[r].at = "turn" => slot'[r].update = slot[r].update
    BY <1>1, <2>1, <2>3 DEF W!Free, Webhook!SlotState
  <2> QED  BY <1>2, <2>1, <2>2, <2>4, OutsideKeeps, CountKept DEF Ties
<1> QED  BY <1>3, <1>4 DEF Channel

\* Telegram delivers an update (again).
LEMMA PostKeeps ==
    ASSUME IInv, NEW v \in Update, W!Post(v), UNCHANGED <<flow, turn>>
    PROVE  Ties'
<1>1. /\ posts[v] < MaxPosts[v] /\ posts' = [posts EXCEPT ![v] = @ + 1]
      /\ queue' = Append(queue, v)
      /\ UNCHANGED <<slot, rows, runs, suffered>>
  BY DEF W!Post
<1>2. CountInv'
  <2> SUFFICES ASSUME NEW u \in Update
               PROVE  /\ runs'[u] + Cardinality(Places(queue', u)) <= posts'[u]
                      /\ posts'[u] <= MaxPosts[u]
    BY DEF CountInv
  <2>1. /\ Cardinality(Places(queue', u))
              = Cardinality(Places(queue, u)) + (IF u = v THEN 1 ELSE 0)
        /\ Cardinality(Places(queue, u)) \in Nat
    BY <1>1, Types, AppendPlaces, PlacesFinite
  <2>2. posts'[u] = posts[u] + (IF u = v THEN 1 ELSE 0)
    BY <1>1, Types
  <2>3. /\ runs[u] + Cardinality(Places(queue, u)) <= posts[u] /\ posts[u] <= MaxPosts[u]
        /\ runs[u] \in Nat /\ posts[u] \in Nat /\ MaxPosts[u] \in Nat
    BY Types, BoundsAssumption DEF IInv, CountInv
  <2> QED  BY <1>1, <2>1, <2>2, <2>3
<1>3. TurnsInv' /\ SaidInv' /\ TwinInv' /\ OneInv' /\ SpentInv' /\ StandInv'
  BY <1>1, OutsideKeeps
<1> QED  BY <1>2, <1>3 DEF Ties

\* What Inventra does with a request is no turn's step.
LEMMA InventraKeeps ==
    ASSUME IInv, NEW t \in Turn, P!Inventra(t), UNCHANGED <<channel, turn>>
    PROVE  Ties'
<1>1. UNCHANGED <<pc, msg, seen, offer, markers, mishaps, turn, rows, runs, posts, queue,
                  slot, suffered>>
  BY DEF P!Inventra, P!InventraDeducts, P!InventraRefuses, P!turnVars, channel
<1> QED
  BY <1>1 DEF IInv, Ties, TurnsInv, SaidInv, CountInv, Places, TwinInv, OneInv, SpentInv, StandInv

\* Neither does a step that does nothing.
LEMMA StutterKeeps ==
    ASSUME IInv, UNCHANGED vars
    PROVE  Ties'
<1>1. UNCHANGED <<flow, turn, rows, runs, posts, queue, slot, suffered>>
  BY DEF vars, channel
<1>2. CountInv'
  BY <1>1, CountKept
<1>3. TurnsInv' /\ SaidInv' /\ TwinInv' /\ OneInv' /\ SpentInv' /\ StandInv'
  BY <1>1, OutsideKeeps
<1> QED  BY <1>2, <1>3 DEF Ties

\* A crash ends every turn, and whoever had one has suffered it.
LEMMA CrashKeeps ==
    ASSUME IInv, Crash
    PROVE  Ties'
<1> USE DEF IInv
<1>1. /\ queue' = <<>> /\ slot' = [s \in Slot |-> W!Free] /\ turn' = [s \in Slot |-> None]
      /\ UNCHANGED <<posts, rows, runs>>
      /\ suffered' = [u \in Update |-> IF W!Queued(u) \/ W!Running(u)
                                       THEN suffered[u] \cup {"crash"} ELSE suffered[u]]
  BY DEF Crash, W!Crash
<1>2. /\ UNCHANGED <<msg, seen, offer, markers>>
      /\ mishaps \subseteq mishaps'
      /\ pc \in [Turn -> P!Awaiting \cup {"idle", "done", "aborted"}]
      /\ \A t \in Turn : pc'[t] = IF pc[t] \in P!Awaiting THEN "aborted" ELSE pc[t]
  <2>1. pc \in [Turn -> P!Awaiting \cup {"idle", "done", "aborted"}]
    BY Types
  <2>2. CASE P!Active = {} /\ UNCHANGED flow
    BY <2>1, <2>2 DEF flow, P!Active
  <2>3. CASE P!Crash
    BY <2>1, <2>3 DEF P!Crash, P!Active
  <2> QED  BY <2>1, <2>2, <2>3 DEF Crash
<1>3. \A u \in Update : suffered[u] \subseteq suffered'[u]
  BY <1>1
<1>4. \A t \in Turn : t[1] \in Update /\ t # None
  BY Turns
<1>5. TurnsInv' /\ SaidInv'
  BY <1>1, <1>2, <1>4 DEF TurnsInv, SaidInv, W!Free, P!Awaiting
<1>6. CountInv'
  BY <1>1, CountKept
<1>7. TwinInv'
  BY <1>1, <1>4, PermitAssumption DEF TwinInv, W!Free
<1>8. OneInv'
  BY <1>1, <1>2 DEF OneInv
<1>9. \A t \in Turn : pc[t] \in P!Awaiting => "crash" \in suffered'[t[1]]
  <2> SUFFICES ASSUME NEW t \in Turn, pc[t] \in P!Awaiting PROVE "crash" \in suffered'[t[1]]
    OBVIOUS
  <2>1. PICK s \in Slot : turn[s] = t
    BY DEF TurnsInv
  <2>2. W!Running(t[1])
    BY <1>4, <2>1 DEF TurnsInv, W!Running
  <2> QED  BY <1>1, <1>4, <2>2
<1>10. \A t \in Turn : suffered[t[1]] \subseteq suffered'[t[1]]
  BY <1>3, <1>4
<1>11. SpentInv'
  <2>1. \A t \in Turn : "crash" \notin suffered'[t[1]] => pc'[t] = pc[t]
    BY <1>2, <1>9
  <2> QED  BY <1>2, <1>10, <2>1 DEF SpentInv
<1>12. StandInv'
  <2>1. \A t \in Turn : pc'[t] = "done" => pc[t] = "done"
    BY <1>2
  <2>2. \A t \in Turn : suffered'[t[1]] \cap {"twin", "persist"} = {}
                          => suffered[t[1]] \cap {"twin", "persist"} = {}
    BY <1>10
  <2> QED  BY <1>2, <2>1, <2>2 DEF StandInv
<1> QED  BY <1>5, <1>6, <1>7, <1>8, <1>11, <1>12 DEF Ties

\* With the newest of at most one marker gone none is left.
LEMMA DroppedFacts ==
    ASSUME NEW q \in Seq(P!PendingPurchase), q # <<>>
    PROVE  LET rest == SubSeq(q, 1, Len(q) - 1)
           IN  Len(rest) <= Len(q) /\ (Len(q) <= 1 => rest = <<>>)
<1> DEFINE k == Len(q) - 1
<1>1. Len(q) \in Nat \ {0} /\ k \in 0..Len(q) /\ \A i \in 1..k : q[i] \in P!PendingPurchase
  OBVIOUS
<1>2. SubSeq(q, 1, k) \in Seq(P!PendingPurchase) /\ Len(SubSeq(q, 1, k)) = k
  <2> HIDE DEF k
  <2> QED  BY <1>1, SubSeqProperties
<1>3. Len(q) <= 1 => SubSeq(q, 1, k) = <<>>
  BY <1>1, <1>2
<1> QED  BY <1>1, <1>2, <1>3

\* A running turn belongs to one permit; without a twin, it is alone with its update.
LEMMA Alone ==
    ASSUME IInv, NEW s \in Slot, turn[s] \in Turn, turn[s] # None,
           NEW v \in Turn, v # turn[s], v[1] = turn[s][1], "twin" \notin suffered[v[1]]
    PROVE  pc[v] \notin P!Awaiting
<1> SUFFICES ASSUME pc[v] \in P!Awaiting PROVE FALSE
  OBVIOUS
<1>1. PICK r \in Slot : turn[r] = v
  BY DEF IInv, TurnsInv
<1>2. slot[r].update = v[1] /\ slot[s].update = v[1]
  BY <1>1, Turns DEF IInv, TurnsInv
<1>3. r = s
  BY <1>2, Turns DEF IInv, TwinInv
<1> QED  BY <1>1, <1>3

\* There is one order message, if there is one.
LEMMA OnlyOrder ==
    ASSUME OneOrder, NEW u \in Update, Says[u].kind = "order",
           NEW v \in Update, Says[v].kind = "order"
    PROVE  u = v
  BY DEF OneOrder

\* A sequence of at most one element has one place, if it has one.
LEMMA OnlyPlace ==
    ASSUME NEW n \in Nat, n <= 1, NEW i \in 1..n
    PROVE  i = 1 /\ n = 1
  OBVIOUS

\* A step of a turn that does not persist: the webhook's rows stay.
LEMMA RunKeepsMarkers ==
    ASSUME IInv, NEW s \in Slot, turn[s] \in Turn, turn[s] # None,
           P!Step(turn[s]), pc'[turn[s]] # "done",
           Purchase!IInv', rows' = rows,
           \A u \in Update : suffered[u] \subseteq suffered'[u]
    PROVE  OneInv' /\ SpentInv' /\ StandInv'
<1> DEFINE t == turn[s]
<1> USE DEF IInv
<1>1. /\ pc[t] \in P!Awaiting /\ msg' = msg
      /\ \A v \in Turn : v # t =>
            pc'[v] = pc[v] /\ seen'[v] = seen[v] /\ offer'[v] = offer[v]
      /\ mishaps \subseteq mishaps'
      /\ offer'[t] # offer[t] => offer[t] = None /\ offer'[t] # None
      /\ seen'[t] # seen[t] => /\ seen[t] = None /\ pc[t] = "gather" /\ markers # <<>>
                               /\ seen'[t] = markers[Len(markers)]
  BY TurnStep
<1>2. /\ \/ markers' = markers
         \/ markers' = Dropped /\ (seen'[t] # None \/ offer'[t] # None)
      /\ \/ seen'[t] = None
         \/ pc[t] \notin {"gather", "recheck", "stockout"}
         \/ pc'[t] \in {"recheck", "stockout"}
         \/ markers' = Dropped
         \/ mishaps' \cap {"clear", "stockout"} # {}
  BY MarkerStep
<1>3. /\ markers \in Seq(P!PendingPurchase)
      /\ \A v \in Turn : v[1] \in Update /\ v # None
  BY Types, Turns
<1>4. /\ Len(Dropped) <= Len(markers)
      /\ Len(markers) <= 1 => Dropped = <<>>
  <2>1. CASE markers = <<>>
    BY <2>1 DEF Dropped
  <2>2. CASE markers # <<>>
    BY <1>3, <2>2, DroppedFacts DEF Dropped
  <2> QED  BY <2>1, <2>2
<1>5. OneInv'
  <2> SUFFICES ASSUME OneOrder
               PROVE  /\ Len(markers') <= 1
                      /\ \A v \in Turn : seen'[v] # None =>
                            \A i \in 1..Len(markers') : markers'[i] = seen'[v]
                      /\ \A u \in Update : Says[u].kind = "order" /\ rows[u] = 0 =>
                            markers' = <<>> /\ \A v \in Turn : seen'[v] = None
    BY DEF OneInv
  <2>1. Len(markers) <= 1 /\ Len(markers) \in Nat /\ Dropped = <<>>
    BY <1>3, <1>4 DEF OneInv
  <2>2. Len(markers') <= 1
    BY <1>2, <2>1
  <2>3. ASSUME NEW v \in Turn, seen'[v] # None, NEW i \in 1..Len(markers')
        PROVE  markers'[i] = seen'[v]
    <3>1. markers' = markers /\ i = 1 /\ Len(markers) = 1
      <4>1. markers' # <<>>
        BY <2>3
      <4>2. markers' = markers
        BY <1>2, <2>1, <4>1
      <4>3. i \in 1..Len(markers)
        BY <2>3, <4>2
      <4>4. i = 1 /\ Len(markers) = 1
        BY <2>1, <4>3, OnlyPlace
      <4> QED  BY <4>2, <4>4
    <3> QED  BY <1>1, <2>3, <3>1 DEF OneInv
  <2>4. ASSUME NEW u \in Update, Says[u].kind = "order", rows[u] = 0
        PROVE  markers' = <<>> /\ \A v \in Turn : seen'[v] = None
    BY <1>1, <1>2, <2>1, <2>4 DEF OneInv
  <2> QED  BY <2>2, <2>3, <2>4
<1>6. SpentInv'
  <2> SUFFICES ASSUME OneOrder, mishaps' \cap {"clear", "stockout"} = {}
               PROVE  /\ \A v \in Turn :
                            /\ seen'[v] # None /\ pc'[v] \notin {"recheck", "stockout"}
                            /\ "crash" \notin suffered'[v[1]]
                            => markers' = <<>>
                      /\ \A v, w \in Turn :
                            /\ v[1] = w[1] /\ seen'[v] # None /\ seen'[w] # None
                            /\ suffered'[v[1]] \cap {"twin", "crash"} = {}
                            => v = w
    BY DEF SpentInv
  <2>1. mishaps \cap {"clear", "stockout"} = {} /\ Len(markers) <= 1 /\ Dropped = <<>>
    BY <1>1, <1>4 DEF OneInv
  <2>2. \A v \in Turn : suffered[v[1]] \subseteq suffered'[v[1]]
    BY <1>3
  <2>3. ASSUME NEW v \in Turn, seen'[v] # None, pc'[v] \notin {"recheck", "stockout"},
               "crash" \notin suffered'[v[1]]
        PROVE  markers' = <<>>
    <3>1. CASE v # t
      BY <1>1, <1>2, <2>1, <2>2, <2>3, <3>1 DEF SpentInv
    <3>2. CASE v = t /\ pc[t] \in {"gather", "recheck", "stockout"}
      BY <1>2, <2>1, <2>3, <3>2
    <3>3. CASE v = t /\ pc[t] \notin {"gather", "recheck", "stockout"}
      BY <1>1, <1>2, <2>1, <2>2, <2>3, <3>3 DEF SpentInv
    <3> QED  BY <3>1, <3>2, <3>3
  <2>4. ASSUME NEW v \in Turn, v # t, v[1] = t[1], seen[v] # None,
               suffered'[v[1]] \cap {"twin", "crash"} = {}
        PROVE  seen'[t] = None
    <3>1. suffered[v[1]] \cap {"twin", "crash"} = {}
      BY <2>2, <2>4
    <3>2. pc[v] \notin {"recheck", "stockout"}
      BY <2>4, <3>1, Alone DEF P!Awaiting
    <3>3. markers = <<>>
      BY <2>1, <2>4, <3>1, <3>2 DEF SpentInv
    <3>4. seen[t] = None
      BY <2>1, <2>4, <3>1 DEF SpentInv
    <3> QED  BY <1>1, <3>3, <3>4
  <2>5. ASSUME NEW v \in Turn, NEW w \in Turn, v[1] = w[1], seen'[v] # None, seen'[w] # None,
               suffered'[v[1]] \cap {"twin", "crash"} = {}
        PROVE  v = w
    <3>1. suffered[v[1]] \cap {"twin", "crash"} = {}
      BY <2>2, <2>5
    <3>2. CASE v # t /\ w # t
      BY <1>1, <2>1, <2>5, <3>1, <3>2 DEF SpentInv
    <3> QED  BY <1>1, <2>4, <2>5, <3>2
  <2> QED  BY <2>3, <2>5
<1>7. StandInv'
  <2> SUFFICES ASSUME OneOrder, NEW v \in Turn, pc'[v] = "done", offer'[v] # None,
                      suffered'[v[1]] \cap {"twin", "persist"} = {}
               PROVE  \/ \E i \in 1..Len(markers') : markers'[i] = offer'[v]
                      \/ \E u \in Turn : seen'[u] = offer'[v]
    BY DEF StandInv
  <2>1. v # t /\ pc[v] = "done" /\ offer'[v] = offer[v]
    BY <1>1
  <2>2. suffered[v[1]] \cap {"twin", "persist"} = {}
    BY <1>3
  <2>3. CASE \E u \in Turn : seen[u] = offer[v]
    BY <1>1, <2>1, <2>3
  <2>4. CASE \E i \in 1..Len(markers) : markers[i] = offer[v]
    <3>1. CASE markers' = markers
      BY <2>1, <2>4, <3>1
    <3>2. CASE markers' = Dropped /\ offer'[t] # None
      <4>1. msg[t].kind = "order" /\ msg[v].kind = "order"
        BY <1>1, <2>1, <3>2 DEF Purchase!IInv, Purchase!OfferInv
      <4>2. Says[t[1]].kind = "order" /\ Says[v[1]].kind = "order"
        BY <1>1, <2>1, <4>1 DEF SaidInv, P!Awaiting
      <4>3. t[1] = v[1]
        BY <1>3, <4>2, OnlyOrder
      <4>4. rows[t[1]] = 0
        BY <1>3, <2>2, <4>3 DEF TwinInv
      <4>5. markers = <<>>
        BY <1>3, <4>2, <4>4 DEF OneInv
      <4> QED  BY <2>4, <4>5
    <3>3. CASE markers' = Dropped /\ seen'[t] # None
      <4>1. Len(markers) = 1 /\ markers[1] = offer[v]
        <5>1. Len(markers) \in Nat /\ Len(markers) <= 1
          BY <1>3 DEF OneInv
        <5>2. PICK i \in 1..Len(markers) : markers[i] = offer[v]
          BY <2>4
        <5>3. i = 1 /\ Len(markers) = 1
          BY <5>1, <5>2, OnlyPlace
        <5> QED  BY <5>2, <5>3
      <4>2. seen'[t] = markers[1]
        BY <1>1, <3>3, <4>1 DEF OneInv
      <4> QED  BY <2>1, <4>1, <4>2
    <3> QED  BY <1>2, <3>1, <3>2, <3>3
  <2> QED  BY <2>1, <2>2, <2>3, <2>4 DEF StandInv
<1> QED  BY <1>5, <1>6, <1>7

\* A turn that goes on keeps its permit, one that ends gives it back.
LEMMA TurnsKept ==
    ASSUME IInv, NEW s \in Slot, turn[s] \in Turn, turn[s] # None, P!Step(turn[s]),
           \/ turn' = turn /\ slot' = slot /\ pc'[turn[s]] \in P!Awaiting
           \/ /\ turn' = [turn EXCEPT ![s] = None] /\ pc'[turn[s]] \notin P!Awaiting
              /\ \A r \in Slot : r # s => slot'[r] = slot[r]
              /\ slot'[s].at # "turn"
    PROVE  TurnsInv' /\ SaidInv'
<1> DEFINE t == turn[s]
<1>1. /\ pc[t] \in P!Awaiting /\ msg' = msg
      /\ \A v \in Turn : v # t => pc'[v] = pc[v]
  BY TurnStep DEF IInv
<1>2. turn \in [Slot -> Turn \cup {None}] /\ \A v \in Turn : v # None
  BY Turns DEF IInv, TurnsInv
<1>3. TurnsInv'
  <2>1. CASE turn' = turn /\ slot' = slot /\ pc'[t] \in P!Awaiting
    BY <1>1, <1>2, <2>1 DEF IInv, TurnsInv
  <2>2. CASE /\ turn' = [turn EXCEPT ![s] = None] /\ pc'[t] \notin P!Awaiting
             /\ \A r \in Slot : r # s => slot'[r] = slot[r]
             /\ slot'[s].at # "turn"
    <3>1. \A r \in Slot : turn'[r] = IF r = s THEN None ELSE turn[r]
      BY <1>2, <2>2
    <3>2. turn' \in [Slot -> Turn \cup {None}]
      BY <1>2, <2>2
    <3>3. ASSUME NEW v \in Turn
          PROVE  pc'[v] \in P!Awaiting <=> \E r \in Slot : turn'[r] = v
      <4>1. CASE v = t
        BY <1>2, <2>2, <3>1, <4>1 DEF IInv, TurnsInv
      <4>2. CASE v # t
        <5>1. (\E r \in Slot : turn'[r] = v) <=> \E r \in Slot : turn[r] = v
          BY <1>2, <3>1, <4>2
        <5> QED  BY <1>1, <4>2, <5>1 DEF IInv, TurnsInv
      <4> QED  BY <4>1, <4>2
    <3> QED  BY <2>2, <3>1, <3>2, <3>3 DEF IInv, TurnsInv
  <2> QED  BY <2>1, <2>2
<1>4. SaidInv'
  <2>1. \A v \in Turn : pc'[v] # "idle" => pc[v] # "idle"
    BY <1>1 DEF P!Awaiting
  <2> QED  BY <1>1, <2>1 DEF IInv, SaidInv
<1> QED  BY <1>3, <1>4

\* From one await to the next.
LEMMA AwaitKeeps ==
    ASSUME IInv, Purchase!IInv', NEW s \in Slot, Await(s)
    PROVE  Ties'
<1>1. /\ turn[s] \in Turn /\ turn[s] # None /\ P!Step(turn[s])
      /\ pc'[turn[s]] \in P!Awaiting
      /\ UNCHANGED <<turn, slot, rows, runs, posts, queue, suffered>>
  BY Works DEF Await, channel
<1>2. TurnsInv' /\ SaidInv'
  BY <1>1, TurnsKept
<1>3. CountInv'
  BY <1>1, CountKept
<1>4. TwinInv'
  BY <1>1 DEF IInv, TwinInv
<1>5. OneInv' /\ SpentInv' /\ StandInv'
  BY <1>1, RunKeepsMarkers DEF P!Awaiting
<1> QED  BY <1>2, <1>3, <1>4, <1>5 DEF Ties

\* An exception out of run_turn.
LEMMA TurnRaisesKeeps ==
    ASSUME IInv, Purchase!IInv', NEW s \in Slot, TurnRaises(s)
    PROVE  Ties'
<1>1. /\ turn[s] \in Turn /\ turn[s] # None /\ P!Step(turn[s])
      /\ pc'[turn[s]] = "aborted" /\ turn' = [turn EXCEPT ![s] = None]
      /\ slot' = [slot EXCEPT ![s] = W!Free]
      /\ UNCHANGED <<rows, runs, posts, queue>>
  BY Works DEF TurnRaises, W!TurnFails
<1>2. /\ slot \in [Slot -> Webhook!SlotState]
      /\ suffered \in [Update -> SUBSET Webhook!Mishap]
      /\ turn \in [Slot -> Turn \cup {None}]
  BY Types DEF IInv, TurnsInv
<1>3. \A u \in Update : suffered[u] \subseteq suffered'[u]
  BY <1>2 DEF TurnRaises, W!TurnFails, W!Suffer
<1>4. /\ slot'[s].at = "free" /\ slot'[s].update = NoUpdate
      /\ \A r \in Slot : r # s => slot'[r] = slot[r]
  BY <1>1, <1>2 DEF W!Free
<1>5. TurnsInv' /\ SaidInv'
  BY <1>1, <1>4, TurnsKept DEF P!Awaiting
<1>6. CountInv'
  BY <1>1, CountKept
<1>7. TwinInv'
  BY <1>1, <1>2, <1>3, <1>4, PermitAssumption DEF IInv, TwinInv
<1>8. OneInv' /\ SpentInv' /\ StandInv'
  BY <1>1, <1>3, RunKeepsMarkers
<1> QED  BY <1>5, <1>6, <1>7, <1>8 DEF Ties

\* A turn's end: its record, with its marker, and its reply on the way.
LEMMA PersistKeeps ==
    ASSUME IInv, Purchase!IInv', NEW s \in Slot, Persist(s)
    PROVE  Ties'
<1> DEFINE t == turn[s]
           u == t[1]
<1>1. /\ t \in Turn /\ t # None /\ P!Step(t) /\ P!Finish(t) /\ W!Persist(s)
      /\ turn' = [turn EXCEPT ![s] = None]
      /\ offer[t] # None => (markers' # markers <=> rows' # rows)
      /\ slot[s].at = "turn" /\ slot[s].update = u /\ u \in Update
  BY Works DEF Persist
<1>2. /\ slot \in [Slot -> Webhook!SlotState]
      /\ suffered \in [Update -> SUBSET Webhook!Mishap]
      /\ turn \in [Slot -> Turn \cup {None}]
      /\ pc \in [Turn -> P!Awaiting \cup {"idle", "done", "aborted"}]
      /\ rows \in [Update -> Nat]
      /\ markers \in Seq(P!PendingPurchase)
      /\ offer \in [Turn -> P!PendingPurchase \cup {None}]
      /\ \A v \in Turn : v[1] \in Update /\ v # None
  BY Types, Turns DEF IInv, TurnsInv
<1>3. /\ pc[t] = "compose" /\ pc' = [pc EXCEPT ![t] = "done"]
      /\ \/ markers' = IF offer[t] = None THEN markers ELSE Append(markers, offer[t])
         \/ UNCHANGED markers
      /\ UNCHANGED <<msg, seen, offer, mishaps>>
  BY <1>1 DEF P!Finish
<1>4. /\ \/ /\ rows' = (IF rows[u] = 0 THEN [rows EXCEPT ![u] = @ + 1] ELSE rows)
            /\ UNCHANGED suffered
         \/ suffered' = [suffered EXCEPT ![u] = @ \cup {"persist"}] /\ UNCHANGED rows
      /\ slot' = [slot EXCEPT ![s].at = "deliver", ![s].retries = MaxRetries]
      /\ UNCHANGED <<posts, queue, runs>>
  BY <1>1 DEF W!Persist, W!Suffer
<1>5. \A v \in Update : suffered[v] \subseteq suffered'[v]
  BY <1>2, <1>4
<1>6. /\ slot'[s].at = "deliver" /\ slot'[s].update = u
      /\ \A r \in Slot : r # s => slot'[r] = slot[r]
  BY <1>1, <1>2, <1>4 DEF Webhook!SlotState
<1>7. TurnsInv' /\ SaidInv'
  BY <1>1, <1>2, <1>3, <1>6, TurnsKept DEF P!Awaiting
<1>8. CountInv'
  BY <1>4, CountKept
<1>9. \A r \in Slot : turn'[r] = IF r = s THEN None ELSE turn[r]
  BY <1>1, <1>2
<1>10. TwinInv'
  <2> SUFFICES ASSUME NEW v \in Update, "twin" \notin suffered'[v]
               PROVE  /\ \A q, r \in Slot : slot'[q].update = v /\ slot'[r].update = v => q = r
                      /\ \A r \in Slot : turn'[r] # None /\ turn'[r][1] = v => rows'[v] = 0
    BY DEF TwinInv
  <2>1. /\ "twin" \notin suffered[v]
        /\ \A q, r \in Slot : slot[q].update = v /\ slot[r].update = v => q = r
        /\ \A r \in Slot : turn[r] # None /\ turn[r][1] = v => rows[v] = 0
    BY <1>5 DEF IInv, TwinInv
  <2>2. \A r \in Slot : slot'[r].update = slot[r].update
    BY <1>1, <1>6
  <2>3. ASSUME NEW r \in Slot, turn'[r] # None, turn'[r][1] = v PROVE rows'[v] = 0
    <3>1. r # s /\ turn[r] # None /\ turn[r][1] = v /\ slot[r].update = v
      BY <1>9, <2>3 DEF IInv, TurnsInv
    <3>2. u # v
      BY <1>1, <2>1, <3>1
    <3> QED  BY <1>2, <1>4, <2>1, <3>1, <3>2
  <2> QED  BY <2>1, <2>2, <2>3
<1>11. CASE offer[t] = None \/ rows' = rows
  <2>1. markers' = markers
    BY <1>1, <1>3, <1>11
  <2>2. \A v \in Update : rows'[v] = 0 => rows[v] = 0
    BY <1>2, <1>4
  <2>3. OneInv'
    BY <1>3, <2>1, <2>2 DEF IInv, OneInv
  <2>4. SpentInv'
    <3>1. \A v \in Turn : pc'[v] \notin {"recheck", "stockout"}
                            <=> pc[v] \notin {"recheck", "stockout"}
      BY <1>2, <1>3
    <3>2. \A v \in Turn : suffered[v[1]] \subseteq suffered'[v[1]]
      BY <1>2, <1>5
    <3> QED  BY <1>3, <2>1, <3>1, <3>2 DEF IInv, SpentInv
  <2>5. StandInv'
    <3>1. \A v \in Turn : pc'[v] = "done" => pc[v] = "done" \/ v = t
      BY <1>2, <1>3
    <3>2. \A v \in Turn : suffered'[v[1]] \cap {"twin", "persist"} = {}
                            => suffered[v[1]] \cap {"twin", "persist"} = {}
      BY <1>2, <1>5
    <3>3. ASSUME offer[t] # None, suffered'[u] \cap {"twin", "persist"} = {} PROVE FALSE
      <4>1. rows[u] = 0
        BY <1>1, <3>2, <3>3 DEF IInv, TwinInv
      <4>2. rows' = [rows EXCEPT ![u] = @ + 1]
        BY <1>1, <1>2, <1>4, <3>3, <4>1
      <4> QED  BY <1>1, <1>2, <1>11, <3>3, <4>1, <4>2
    <3> QED  BY <1>3, <2>1, <3>1, <3>2, <3>3 DEF IInv, StandInv
  <2> QED  BY <1>7, <1>8, <1>10, <2>3, <2>4, <2>5 DEF Ties
<1>12. CASE offer[t] # None /\ rows' # rows
  <2>1. markers' = Append(markers, offer[t])
    BY <1>1, <1>3, <1>12
  <2>2. rows[u] = 0 /\ rows' = [rows EXCEPT ![u] = @ + 1] /\ suffered' = suffered
    BY <1>4, <1>12
  <2>3. Says[u].kind = "order"
    BY <1>1, <1>3, <1>12, PlaceFacts DEF IInv, SaidInv
  <2>4. /\ markers' \in Seq(P!PendingPurchase) /\ Len(markers') = Len(markers) + 1
        /\ Len(markers) \in Nat
        /\ \A i \in 1..Len(markers) : markers'[i] = markers[i]
        /\ markers'[Len(markers) + 1] = offer[t]
    BY <1>1, <1>2, <1>12, <2>1
  <2>5. ASSUME OneOrder
        PROVE  /\ markers = <<>> /\ \A v \in Turn : seen[v] = None
               /\ \A v \in Update : Says[v].kind = "order" => v = u
    BY <1>1, <2>2, <2>3, <2>5, OnlyOrder DEF IInv, OneInv
  <2>6. OneInv'
    <3>1. rows'[u] # 0
      BY <1>1, <1>2, <2>2
    <3> QED  BY <1>3, <2>4, <2>5, <3>1 DEF OneInv
  <2>7. SpentInv'
    BY <1>3, <2>5 DEF SpentInv
  <2>8. StandInv'
    <3> SUFFICES ASSUME OneOrder, NEW v \in Turn, pc'[v] = "done", offer[v] # None,
                        suffered[v[1]] \cap {"twin", "persist"} = {}
                 PROVE  \/ \E i \in 1..Len(markers') : markers'[i] = offer[v]
                        \/ \E w \in Turn : seen[w] = offer[v]
      BY <1>3, <2>2 DEF StandInv
    <3>1. CASE v = t
      BY <2>4, <3>1
    <3>2. v # t => pc[v] = "done"
      BY <1>2, <1>3
    <3>3. ASSUME v # t PROVE FALSE
      BY <2>5, <3>2, <3>3 DEF IInv, StandInv
    <3> QED  BY <3>1, <3>3
  <2> QED  BY <1>7, <1>8, <1>10, <2>6, <2>7, <2>8 DEF Ties
<1> QED  BY <1>11, <1>12

-----------------------------------------------------------------------------
(***************************************************************************)
(* The theorems.                                                           *)
(***************************************************************************)

\* Every step keeps the invariant.
LEMMA StepIInv == IInv /\ [Next]_vars => IInv'
<1> SUFFICES ASSUME IInv, [Next]_vars PROVE IInv'
  OBVIOUS
<1>1. Webhook!IInv' /\ Purchase!IInv'
  BY StepIsBoth, WebhookKeeps, PurchaseKeeps DEF IInv
<1>2. Ties'
  <2>1. ASSUME NEW s \in Slot, StartTurn(s) \/ Channel(s) \/ Work(s) PROVE Ties'
    BY <1>1, <2>1, StartTurnKeeps, ChannelKeeps, AwaitKeeps, TurnRaisesKeeps, PersistKeeps
    DEF Work
  <2>2. CASE Environment
    BY <2>2, PostKeeps, InventraKeeps DEF Environment
  <2>3. CASE Crash
    BY <2>3, CrashKeeps
  <2>4. CASE UNCHANGED vars
    BY <2>4, StutterKeeps
  <2> QED  BY <2>1, <2>2, <2>3, <2>4 DEF Next
<1> QED  BY <1>1, <1>2 DEF IInv, Ties

\* It holds in every state of every run.
LEMMA InvariantKept == Spec => []IInv
  BY InitIInv, StepIInv, PTL DEF Spec

\* The safety part of WebhookKeepsItsWord, and its like for the purchase flow: a
\* conversation does only what each of the two models allows.
THEOREM KeepsBothWords ==
    Spec => /\ W!Init /\ [][W!Next]_channel
            /\ P!Init /\ [][P!Next]_flow
<1>1. Init => W!Init /\ P!Init
  BY DEF Init
<1> QED  BY <1>1, StepIsBoth, InvariantKept, PTL DEF Spec

\* What is proved of the two models holds of the conversation: the history is
\* true, a rerun has a cause, a clean update is handled once and a turn's reply
\* comes no more often than its retries allow ...
THEOREM ChannelPromises ==
    Spec => [](/\ Webhook!RecordedOnce /\ Webhook!RerunHasCause
               /\ Webhook!HandledExactlyOnce /\ Webhook!RepliesBounded)
<1>1. IInv => Webhook!RecordedOnce /\ Webhook!RerunHasCause /\ Webhook!HandledExactlyOnce
  BY Assumptions, Webhook!InvRecords, Webhook!InvCauses, Webhook!InvHandles DEF IInv
<1>2. IInv /\ Webhook!CopiesInv => Webhook!RepliesBounded
  BY Assumptions, Webhook!InvBoundsReplies DEF IInv
<1>3. IInv /\ Webhook!CopiesInv /\ [Next]_vars => (Webhook!CopiesInv)'
  BY StepIsBoth, WebhookCovers DEF IInv
<1>4. Init => Webhook!CopiesInv
  BY WebhookCovers DEF Init
<1> QED  BY <1>1, <1>2, <1>3, <1>4, InvariantKept, PTL DEF Spec

\* ... and nothing is deducted that was not offered and confirmed, one turn
\* deducts once, and replies are truthful.
THEOREM PurchasePromises ==
    Spec => [](/\ Purchase!ConfirmationGated /\ Purchase!SingleDeductionPerTurn
               /\ Purchase!TruthfulReply)
<1>1. IInv => /\ Purchase!ConfirmationGated /\ Purchase!SingleDeductionPerTurn
              /\ Purchase!TruthfulReply
  BY Assumptions, Purchase!InvConfirms, Purchase!InvDeductsOnce, Purchase!InvIsTruthful DEF IInv
<1> QED  BY <1>1, InvariantKept, PTL

\* Every variable keeps its type, and every running turn its permit.
THEOREM TypeCorrect == Spec => []TypeOK
<1>1. IInv => TypeOK
  <2> SUFFICES ASSUME IInv PROVE TypeOK
    OBVIOUS
  <2>1. W!TypeOK
    BY DEF IInv, Webhook!IInv, Webhook!TypeOK, W!TypeOK, Webhook!SlotState, W!SlotState,
           Webhook!Mishap, W!Mishap
  <2>2. P!TypeOK
    BY DEF IInv, Purchase!IInv, Purchase!TypeOK, P!TypeOK, Purchase!Awaiting, P!Awaiting,
           Purchase!Message, P!Message, Purchase!PendingPurchase, P!PendingPurchase,
           Purchase!PurchaseStatus, P!PurchaseStatus, Purchase!Movement, P!Movement
  <2>3. ASSUME NEW t \in Turn
        PROVE  Cardinality({s \in Slot : turn[s] = t}) = IF t \in P!Active THEN 1 ELSE 0
    <3>1. t \in P!Active <=> \E s \in Slot : turn[s] = t
      BY DEF IInv, TurnsInv, P!Active
    <3>2. CASE t \in P!Active
      <4>1. PICK s \in Slot : turn[s] = t
        BY <3>1, <3>2
      <4>2. {r \in Slot : turn[r] = t} = {s}
        BY <4>1, Turns DEF IInv, TurnsInv
      <4> QED  BY <3>2, <4>2, FS_Singleton
    <3>3. CASE t \notin P!Active
      <4>1. {r \in Slot : turn[r] = t} = {}
        BY <3>1, <3>3
      <4> QED  BY <3>3, <4>1, FS_EmptySet
    <3> QED  BY <3>2, <3>3
  <2> QED  BY <2>1, <2>2, <2>3 DEF IInv, TurnsInv, TypeOK
<1> QED  BY <1>1, InvariantKept, PTL

\* One order is bought once, however often its "yes" is delivered and whatever
\* fails to be recorded or lands late: as long as no clear has failed and no stock-out
\* raised past its handler, only a twin in flight, or a crash, makes a second turn for
\* the same message deduct again.
THEOREM OrderIsBoughtOnce == Spec => []BoughtOnce
<1>1. IInv => BoughtOnce
  <2> SUFFICES ASSUME IInv, OneOrder, mishaps \cap {"clear", "stockout"} = {},
                      NEW i \in 1..Len(movements), NEW j \in 1..Len(movements),
                      i # j, movements[i].by[1] = movements[j].by[1],
                      suffered[movements[i].by[1]] \cap {"twin", "crash"} = {}
               PROVE  FALSE
    <3>1. DOMAIN movements = 1..Len(movements)
      BY DEF IInv, Purchase!IInv, Purchase!TypeOK
    <3> QED  BY <3>1 DEF BoughtOnce
  <2>1. /\ movements[i].by \in Turn /\ movements[j].by \in Turn
        /\ request[movements[i].by] = "applied" /\ request[movements[j].by] = "applied"
        /\ movements[i].by = movements[j].by => i = j
    <3>1. movements \in Seq(Purchase!Movement) /\ Purchase!MovementInv
      BY DEF IInv, Purchase!IInv, Purchase!TypeOK
    <3>2. movements[i] \in Purchase!Movement /\ movements[j] \in Purchase!Movement
      BY <3>1
    <3>3. movements[i].by \in Turn /\ movements[j].by \in Turn
      BY <3>2 DEF Purchase!Movement
    <3> QED  BY <3>1, <3>3 DEF Purchase!MovementInv
  <2>2. seen[movements[i].by] # None /\ seen[movements[j].by] # None
    BY <2>1 DEF IInv, Purchase!IInv, Purchase!RequestInv
  <2>3. movements[i].by = movements[j].by
    BY <2>1, <2>2 DEF IInv, SpentInv
  <2> QED  BY <2>1, <2>3
<1> QED  BY <1>1, InvariantKept, PTL

\* The offer of the conversation's only order stands, once it is recorded, until a
\* turn loads it.
THEOREM OffersStand == Spec => []OfferStands
<1>1. IInv => OfferStands
  <2> SUFFICES ASSUME IInv PROVE OfferStands
    OBVIOUS
  <2>1. DOMAIN markers = 1..Len(markers)
    BY Types
  <2> QED  BY <2>1 DEF IInv, StandInv, OfferStands
<1> QED  BY <1>1, InvariantKept, PTL

=============================================================================
