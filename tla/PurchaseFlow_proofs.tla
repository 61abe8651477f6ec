------------------------ MODULE PurchaseFlow_proofs -------------------------
(***************************************************************************)
(* The safety properties of PurchaseFlow for any number of turns, any      *)
(* catalog, any quantities, any semaphore width and any faults.            *)
(***************************************************************************)
EXTENDS PurchaseFlow, SequenceTheorems, TLAPS

-----------------------------------------------------------------------------
(***************************************************************************)
(* The inductive invariant, in named parts.                                *)
(***************************************************************************)

\* The purchases that finished order turns have offered.
Offered ==
    {o \in PendingPurchase :
        /\ pc[o.from] = "done"
        /\ msg[o.from].kind = "order"
        /\ offer[o.from] = o
        /\ o.quantity = Ordered(o.from)}

\* What the place a turn is suspended at says of its own variables.
PlaceInv ==
    \A t \in Turn :
        /\ pc[t] \in {"idle", "gather", "lookup"} =>
              seen[t] = None /\ offer[t] = None /\ status[t] = "not_requested"
        /\ pc[t] \in {"idle", "gather", "lookup", "recheck"} => request[t] = "none"
        /\ pc[t] = "lookup" => msg[t].kind = "order" /\ Ordered(t) > 0
        /\ pc[t] = "recheck" =>
              msg[t].kind = "confirm" /\ seen[t] # None /\ status[t] = "not_requested"
        /\ pc[t] = "stockout" => request[t] # "none"
        /\ pc[t] \in {"compose", "done"} =>
              /\ status[t] = "completed" <=> request[t] = "applied"
              /\ request[t] # "sent"

\* A request belongs to a confirming turn and to the order it loaded.
RequestInv ==
    \A t \in Turn : request[t] # "none" => msg[t].kind = "confirm" /\ seen[t] # None

\* Inventra's movements are the applied requests, one each.
MovementInv ==
    /\ \A i \in 1..Len(movements) :
          /\ request[movements[i].by] = "applied"
          /\ movements[i].order = seen[movements[i].by]
    /\ \A i, j \in 1..Len(movements) : movements[i].by = movements[j].by => i = j
    /\ \A t \in Turn : request[t] = "applied" =>
          \E i \in 1..Len(movements) : movements[i].by = t

\* Everything a turn can load, or has loaded, was offered by a finished turn.
OfferInv ==
    /\ \A t \in Turn : offer[t] # None =>
          offer[t].from = t /\ msg[t].kind = "order" /\ offer[t].quantity = Ordered(t)
    /\ \A i \in 1..Len(markers) : markers[i] \in Offered
    /\ \A t \in Turn : seen[t] # None => seen[t] \in Offered

\* Without a mishap one turn runs at a time, there is one marker at most and
\* none while a new one waits to be persisted, and a marker is gone as soon
\* as the turn that loaded it is past its stock-out.
SerialInv ==
    mishaps = {} =>
        /\ \A t, u \in Turn : pc[t] \in Awaiting /\ pc[u] \in Awaiting => t = u
        /\ Len(markers) <= 1
        /\ \A t \in Turn : pc[t] = "compose" /\ offer[t] # None => markers = <<>>
        /\ \A t \in Turn : seen[t] # None /\ pc[t] \notin {"recheck", "stockout"} =>
              \A i \in 1..Len(markers) : markers[i] # seen[t]
        /\ \A t, u \in Turn : seen[t] # None /\ seen[t] = seen[u] => t = u

IInv ==
    /\ TypeOK
    /\ PlaceInv
    /\ RequestInv
    /\ MovementInv
    /\ OfferInv
    /\ SerialInv

-----------------------------------------------------------------------------
\* What the two assignments to markers keep: their type, and every element
\* has been there before, or is the one appended.
LEMMA ClearFacts ==
    ASSUME TypeOK, ClearNewest
    PROVE  /\ markers' \in Seq(PendingPurchase)
           /\ Len(markers') <= Len(markers)
           /\ \A i \in 1..Len(markers') : i \in 1..Len(markers) /\ markers'[i] = markers[i]
           /\ mishaps' \subseteq {"overlap", "clear", "stockout", "crash"}
           /\ mishaps \subseteq mishaps'
           /\ mishaps' = {} /\ Len(markers) <= 1 => markers' = <<>>
<1> DEFINE k == Len(markers) - 1
<1>0. markers \in Seq(PendingPurchase) /\ mishaps \subseteq {"overlap", "clear", "stockout", "crash"}
  BY DEF TypeOK
<1>1. CASE markers # <<>> /\ markers' = SubSeq(markers, 1, k) /\ UNCHANGED mishaps
  <2>1. Len(markers) \in Nat \ {0} /\ k \in 0..Len(markers)
    BY <1>0, <1>1
  <2>2. /\ SubSeq(markers, 1, k) \in Seq(PendingPurchase)
        /\ Len(SubSeq(markers, 1, k)) = k
        /\ \A i \in 1..k : SubSeq(markers, 1, k)[i] = markers[i]
    <3>1. \A i \in 1..k : markers[i] \in PendingPurchase
      BY <1>0, <2>1
    <3> HIDE DEF k
    <3> QED  BY <2>1, <3>1, SubSeqProperties
  <2>3. ASSUME Len(markers) <= 1 PROVE markers' = <<>>
    BY <1>1, <2>1, <2>2, <2>3
  <2> QED  BY <1>0, <1>1, <2>1, <2>2, <2>3
<1>2. CASE markers = <<>> /\ markers' = <<>> /\ UNCHANGED mishaps
  BY <1>0, <1>2
<1>3. CASE mishaps' = mishaps \cup {"clear"} /\ UNCHANGED markers
  BY <1>0, <1>3
<1> QED  BY <1>1, <1>2, <1>3 DEF ClearNewest

\* Before the first message nothing is pending, offered or requested.
LEMMA InitIInv == Init => IInv
<1> SUFFICES ASSUME Init PROVE IInv
  OBVIOUS
<1>1. TypeOK
  BY NoneAssumption DEF Init, TypeOK, Message, PurchaseStatus
<1>2. PlaceInv /\ RequestInv /\ MovementInv /\ OfferInv
  BY DEF Init, PlaceInv, RequestInv, MovementInv, OfferInv
<1>3. SerialInv
  BY DEF Init, SerialInv, Awaiting
<1> QED  BY <1>1, <1>2, <1>3 DEF IInv

\* A message that gather_context rejects ends its turn before anything else.
LEMMA GatherRaisesStep ==
    ASSUME NEW t \in Turn, IInv, GatherRaises(t)
    PROVE  IInv'
<1> USE DEF IInv
<1>1. TypeOK'
  BY NoneAssumption DEF GatherRaises, TypeOK, Awaiting, PurchaseStatus
<1>2. PlaceInv'
  BY NoneAssumption DEF GatherRaises, TypeOK, PlaceInv, Ordered, Awaiting, RequestInv
<1>3. RequestInv'
  BY NoneAssumption DEF GatherRaises, TypeOK, RequestInv, PlaceInv
<1>4. MovementInv'
  BY NoneAssumption DEF GatherRaises, TypeOK, MovementInv, RequestInv, PlaceInv
<1>5. OfferInv'
  <2>1. Offered \subseteq Offered'
    BY DEF GatherRaises, Awaiting, TypeOK, PlaceInv, Offered, Ordered, PendingPurchase
  <2>3. \A u \in Turn : offer'[u] # None =>
            offer'[u].from = u /\ msg'[u].kind = "order" /\ offer'[u].quantity = Ordered(u)'
    BY DEF GatherRaises, Awaiting, TypeOK, PlaceInv, OfferInv, Ordered
  <2>4. \A i \in 1..Len(markers') : markers'[i] \in Offered'
    BY <2>1 DEF GatherRaises, Awaiting, TypeOK, OfferInv
  <2>5. \A u \in Turn : seen'[u] # None => seen'[u] \in Offered'
    BY <2>1 DEF GatherRaises, Awaiting, TypeOK, OfferInv
  <2> QED  BY <2>3, <2>4, <2>5 DEF OfferInv, Ordered
<1>6. SerialInv'
  BY NoneAssumption DEF GatherRaises, TypeOK, SerialInv, Offered, Ordered, Awaiting, OfferInv, PlaceInv
<1> QED  BY <1>1, <1>2, <1>3, <1>4, <1>5, <1>6

\* Small talk leaves offers, markers and movements as they are.
LEMMA PassThroughStep ==
    ASSUME NEW t \in Turn, IInv, PassThrough(t)
    PROVE  IInv'
<1> USE DEF IInv
<1>1. TypeOK'
  BY NoneAssumption DEF PassThrough, Resume, Return, TypeOK, Awaiting, PurchaseStatus
<1>2. PlaceInv'
  BY NoneAssumption DEF PassThrough, Resume, Return, TypeOK, PlaceInv, Ordered, Awaiting, RequestInv
<1>3. RequestInv'
  BY NoneAssumption DEF PassThrough, Resume, Return, TypeOK, RequestInv, PlaceInv
<1>4. MovementInv'
  BY NoneAssumption DEF PassThrough, Resume, Return, TypeOK, MovementInv, RequestInv, PlaceInv
<1>5. OfferInv'
  <2>1. Offered \subseteq Offered'
    BY DEF PassThrough, Resume, Return, TypeOK, PlaceInv, Offered, Ordered, PendingPurchase
  <2>3. \A u \in Turn : offer'[u] # None =>
            offer'[u].from = u /\ msg'[u].kind = "order" /\ offer'[u].quantity = Ordered(u)'
    BY DEF PassThrough, Resume, Return, TypeOK, PlaceInv, OfferInv, Ordered
  <2>4. \A i \in 1..Len(markers') : markers'[i] \in Offered'
    BY <2>1 DEF PassThrough, Resume, Return, TypeOK, OfferInv
  <2>5. \A u \in Turn : seen'[u] # None => seen'[u] \in Offered'
    BY <2>1 DEF PassThrough, Resume, Return, TypeOK, OfferInv
  <2> QED  BY <2>3, <2>4, <2>5 DEF OfferInv, Ordered
<1>6. SerialInv'
  BY NoneAssumption DEF PassThrough, Resume, Return, TypeOK, SerialInv, Offered, Ordered, Awaiting, OfferInv, PlaceInv, Active
<1> QED  BY <1>1, <1>2, <1>3, <1>4, <1>5, <1>6

\* A "yes" or "no" that finds no marker changes the turn's place only.
LEMMA NothingPendingStep ==
    ASSUME NEW t \in Turn, IInv, NothingPending(t)
    PROVE  IInv'
<1> USE DEF IInv
<1>1. TypeOK'
  BY NoneAssumption DEF NothingPending, Return, TypeOK, Awaiting, PurchaseStatus
<1>2. PlaceInv'
  BY NoneAssumption DEF NothingPending, Return, TypeOK, PlaceInv, Ordered, Awaiting, RequestInv
<1>3. RequestInv'
  BY NoneAssumption DEF NothingPending, Return, TypeOK, RequestInv, PlaceInv
<1>4. MovementInv'
  BY NoneAssumption DEF NothingPending, Return, TypeOK, MovementInv, RequestInv, PlaceInv
<1>5. OfferInv'
  <2>1. Offered \subseteq Offered'
    BY DEF NothingPending, Return, TypeOK, PlaceInv, Offered, Ordered, PendingPurchase
  <2>3. \A u \in Turn : offer'[u] # None =>
            offer'[u].from = u /\ msg'[u].kind = "order" /\ offer'[u].quantity = Ordered(u)'
    BY DEF NothingPending, Return, TypeOK, PlaceInv, OfferInv, Ordered
  <2>4. \A i \in 1..Len(markers') : markers'[i] \in Offered'
    BY <2>1 DEF NothingPending, Return, TypeOK, OfferInv
  <2>5. \A u \in Turn : seen'[u] # None => seen'[u] \in Offered'
    BY <2>1 DEF NothingPending, Return, TypeOK, OfferInv
  <2> QED  BY <2>3, <2>4, <2>5 DEF OfferInv, Ordered
<1>6. SerialInv'
  BY NoneAssumption DEF NothingPending, Return, TypeOK, SerialInv, Offered, Ordered, Awaiting, OfferInv, PlaceInv, Active
<1> QED  BY <1>1, <1>2, <1>3, <1>4, <1>5, <1>6

\* What Confirm loads is a marker, so a finished turn offered it; alone, no other
\* turn has loaded it before.
LEMMA ConfirmStep ==
    ASSUME NEW t \in Turn, IInv, Confirm(t)
    PROVE  IInv'
<1> USE DEF IInv
<1>0. Newest \in PendingPurchase \cup {None}
  BY DEF TypeOK, Newest
<1>1. TypeOK'
  BY <1>0 DEF Confirm, Resume, TypeOK, Awaiting
<1>2. PlaceInv'
  BY NoneAssumption DEF Confirm, Resume, Newest, TypeOK, PlaceInv, Ordered, Awaiting, RequestInv
<1>3. RequestInv'
  BY NoneAssumption DEF Confirm, Resume, Newest, TypeOK, RequestInv, PlaceInv
<1>4. MovementInv'
  BY NoneAssumption DEF Confirm, Resume, Newest, TypeOK, MovementInv, RequestInv, PlaceInv
<1>5. OfferInv'
  <2>1. Offered \subseteq Offered'
    BY DEF Confirm, Resume, Newest, TypeOK, PlaceInv, Offered, Ordered, PendingPurchase
  <2>3. \A u \in Turn : offer'[u] # None =>
            offer'[u].from = u /\ msg'[u].kind = "order" /\ offer'[u].quantity = Ordered(u)'
    BY DEF Confirm, Resume, Newest, TypeOK, PlaceInv, OfferInv, Ordered
  <2>4. \A i \in 1..Len(markers') : markers'[i] \in Offered'
    BY <2>1 DEF Confirm, Resume, Newest, TypeOK, OfferInv
  <2>5. \A u \in Turn : seen'[u] # None => seen'[u] \in Offered'
    BY <2>1 DEF Confirm, Resume, Newest, TypeOK, OfferInv
  <2> QED  BY <2>3, <2>4, <2>5 DEF OfferInv, Ordered
<1>6. SerialInv'
  BY NoneAssumption DEF Confirm, Resume, Newest, TypeOK, SerialInv, Offered, Ordered, Awaiting, OfferInv, PlaceInv, Active
<1> QED  BY <1>1, <1>2, <1>3, <1>4, <1>5, <1>6

\* Decline loads and clears in one step: what is left of the markers was there
\* before, and without a mishap none is left.
LEMMA DeclineStep ==
    ASSUME NEW t \in Turn, IInv, Decline(t)
    PROVE  IInv'
<1> USE DEF IInv
<1>0. Newest \in PendingPurchase \cup {None}
  BY DEF TypeOK, Newest
<1>1. TypeOK'
  BY <1>0, ClearFacts DEF Decline, Resume, Return, TypeOK, Awaiting, PurchaseStatus
<1>2. PlaceInv'
  BY ClearFacts, NoneAssumption DEF Decline, Resume, Return, Newest, TypeOK, PlaceInv, Ordered, Awaiting, RequestInv
<1>3. RequestInv'
  BY ClearFacts, NoneAssumption DEF Decline, Resume, Return, Newest, TypeOK, RequestInv, PlaceInv
<1>4. MovementInv'
  BY ClearFacts, NoneAssumption DEF Decline, Resume, Return, Newest, TypeOK, MovementInv, RequestInv, PlaceInv
<1>5. OfferInv'
  <2>1. Offered \subseteq Offered'
    BY DEF Decline, Resume, Return, Newest, TypeOK, PlaceInv, Offered, Ordered, PendingPurchase
  <2>3. \A u \in Turn : offer'[u] # None =>
            offer'[u].from = u /\ msg'[u].kind = "order" /\ offer'[u].quantity = Ordered(u)'
    BY DEF Decline, Resume, Return, Newest, TypeOK, PlaceInv, OfferInv, Ordered
  <2>4. \A i \in 1..Len(markers') : markers'[i] \in Offered'
    BY ClearFacts, <2>1 DEF Decline, Resume, Return, Newest, TypeOK, OfferInv
  <2>5. \A u \in Turn : seen'[u] # None => seen'[u] \in Offered'
    BY <2>1 DEF Decline, Resume, Return, Newest, TypeOK, OfferInv
  <2> QED  BY <2>3, <2>4, <2>5 DEF OfferInv, Ordered
<1>6. SerialInv'
  BY ClearFacts, NoneAssumption DEF Decline, Resume, Return, Newest, TypeOK, SerialInv, Offered, Ordered, Awaiting, OfferInv, PlaceInv, Active
<1> QED  BY <1>1, <1>2, <1>3, <1>4, <1>5, <1>6

\* A refused order offers nothing and keeps the markers.
LEMMA RefuseOrderStep ==
    ASSUME NEW t \in Turn, IInv, RefuseOrder(t)
    PROVE  IInv'
<1> USE DEF IInv
<1>1. TypeOK'
  BY NoneAssumption DEF RefuseOrder, Return, TypeOK, Awaiting, PurchaseStatus
<1>2. PlaceInv'
  BY NoneAssumption DEF RefuseOrder, Return, TypeOK, PlaceInv, Ordered, Awaiting, RequestInv
<1>3. RequestInv'
  BY NoneAssumption DEF RefuseOrder, Return, TypeOK, RequestInv, PlaceInv
<1>4. MovementInv'
  BY NoneAssumption DEF RefuseOrder, Return, TypeOK, MovementInv, RequestInv, PlaceInv
<1>5. OfferInv'
  <2>1. Offered \subseteq Offered'
    BY DEF RefuseOrder, Return, TypeOK, PlaceInv, Offered, Ordered, PendingPurchase
  <2>3. \A u \in Turn : offer'[u] # None =>
            offer'[u].from = u /\ msg'[u].kind = "order" /\ offer'[u].quantity = Ordered(u)'
    BY DEF RefuseOrder, Return, TypeOK, PlaceInv, OfferInv, Ordered
  <2>4. \A i \in 1..Len(markers') : markers'[i] \in Offered'
    BY <2>1 DEF RefuseOrder, Return, TypeOK, OfferInv
  <2>5. \A u \in Turn : seen'[u] # None => seen'[u] \in Offered'
    BY <2>1 DEF RefuseOrder, Return, TypeOK, OfferInv
  <2> QED  BY <2>3, <2>4, <2>5 DEF OfferInv, Ordered
<1>6. SerialInv'
  BY NoneAssumption DEF RefuseOrder, Return, TypeOK, SerialInv, Offered, Ordered, Awaiting, OfferInv, PlaceInv, Active
<1> QED  BY <1>1, <1>2, <1>3, <1>4, <1>5, <1>6

\* Only an order with a positive quantity gets to the catalog.
LEMMA LookUpStep ==
    ASSUME NEW t \in Turn, IInv, LookUp(t)
    PROVE  IInv'
<1> USE DEF IInv
<1>1. TypeOK'
  BY NoneAssumption DEF LookUp, Resume, TypeOK, Awaiting, PurchaseStatus
<1>2. PlaceInv'
  BY NoneAssumption DEF LookUp, Resume, TypeOK, PlaceInv, Ordered, Awaiting, RequestInv
<1>3. RequestInv'
  BY NoneAssumption DEF LookUp, Resume, TypeOK, RequestInv, PlaceInv
<1>4. MovementInv'
  BY NoneAssumption DEF LookUp, Resume, TypeOK, MovementInv, RequestInv, PlaceInv
<1>5. OfferInv'
  <2>1. Offered \subseteq Offered'
    BY DEF LookUp, Resume, TypeOK, PlaceInv, Offered, Ordered, PendingPurchase
  <2>3. \A u \in Turn : offer'[u] # None =>
            offer'[u].from = u /\ msg'[u].kind = "order" /\ offer'[u].quantity = Ordered(u)'
    BY DEF LookUp, Resume, TypeOK, PlaceInv, OfferInv, Ordered
  <2>4. \A i \in 1..Len(markers') : markers'[i] \in Offered'
    BY <2>1 DEF LookUp, Resume, TypeOK, OfferInv
  <2>5. \A u \in Turn : seen'[u] # None => seen'[u] \in Offered'
    BY <2>1 DEF LookUp, Resume, TypeOK, OfferInv
  <2> QED  BY <2>3, <2>4, <2>5 DEF OfferInv, Ordered
<1>6. SerialInv'
  BY NoneAssumption DEF LookUp, Resume, TypeOK, SerialInv, Offered, Ordered, Awaiting, OfferInv, PlaceInv, Active
<1> QED  BY <1>1, <1>2, <1>3, <1>4, <1>5, <1>6

\* What phase 1 offers is a pending purchase: a positive quantity.
LEMMA OrderedIsPending ==
    ASSUME NEW t \in Turn, NEW p \in Product, IInv, pc[t] = "lookup"
    PROVE  [from |-> t, product |-> p, quantity |-> Ordered(t)] \in PendingPurchase
<1>1. msg[t].quantity \in Quantity \cup {Unstated}
  BY DEF IInv, TypeOK, Message
<1>2. Ordered(t) \in Int
  <2>1. CASE msg[t].quantity = Unstated
    BY <2>1 DEF Ordered
  <2>2. CASE msg[t].quantity \in Quantity /\ msg[t].quantity # Unstated
    BY <2>2, QuantityAssumption DEF Ordered
  <2> QED  BY <1>1, <2>1, <2>2
<1>3. Ordered(t) > 0
  BY DEF IInv, PlaceInv
<1> QED  BY <1>2, <1>3 DEF PendingPurchase

\* An offer belongs to its own turn and is as large as the customer asked; it is
\* no marker yet.
LEMMA OfferStep ==
    ASSUME NEW t \in Turn, NEW p \in Product, IInv, Offer(t, p)
    PROVE  IInv'
<1> USE DEF IInv
<1>0. [from |-> t, product |-> p, quantity |-> Ordered(t)] \in PendingPurchase
  BY OrderedIsPending DEF Offer
<1>1. TypeOK'
  BY <1>0, ClearFacts DEF Offer, Return, TypeOK, Awaiting, PurchaseStatus
<1>2. PlaceInv'
  BY ClearFacts, NoneAssumption DEF Offer, Return, TypeOK, PlaceInv, Ordered, Awaiting, RequestInv
<1>3. RequestInv'
  BY ClearFacts, NoneAssumption DEF Offer, Return, TypeOK, RequestInv, PlaceInv
<1>4. MovementInv'
  BY ClearFacts, NoneAssumption DEF Offer, Return, TypeOK, MovementInv, RequestInv, PlaceInv
<1>5. OfferInv'
  <2>1. Offered \subseteq Offered'
    BY DEF Offer, Return, TypeOK, PlaceInv, Offered, Ordered, PendingPurchase
  <2>3. \A u \in Turn : offer'[u] # None =>
            offer'[u].from = u /\ msg'[u].kind = "order" /\ offer'[u].quantity = Ordered(u)'
    BY DEF Offer, Return, TypeOK, PlaceInv, OfferInv, Ordered
  <2>4. \A i \in 1..Len(markers') : markers'[i] \in Offered'
    BY ClearFacts, <2>1 DEF Offer, Return, TypeOK, OfferInv
  <2>5. \A u \in Turn : seen'[u] # None => seen'[u] \in Offered'
    BY <2>1 DEF Offer, Return, TypeOK, OfferInv
  <2> QED  BY <2>3, <2>4, <2>5 DEF OfferInv, Ordered
<1>6. SerialInv'
  BY ClearFacts, NoneAssumption DEF Offer, Return, TypeOK, SerialInv, Offered, Ordered, Awaiting, OfferInv, PlaceInv, Active
<1> QED  BY <1>1, <1>2, <1>3, <1>4, <1>5, <1>6

\* An order that cannot be met offers nothing and keeps the markers.
LEMMA CannotOfferStep ==
    ASSUME NEW t \in Turn, IInv, CannotOffer(t)
    PROVE  IInv'
<1> USE DEF IInv
<1>1. TypeOK'
  BY NoneAssumption DEF CannotOffer, Return, TypeOK, Awaiting, PurchaseStatus
<1>2. PlaceInv'
  BY NoneAssumption DEF CannotOffer, Return, TypeOK, PlaceInv, Ordered, Awaiting, RequestInv
<1>3. RequestInv'
  BY NoneAssumption DEF CannotOffer, Return, TypeOK, RequestInv, PlaceInv
<1>4. MovementInv'
  BY NoneAssumption DEF CannotOffer, Return, TypeOK, MovementInv, RequestInv, PlaceInv
<1>5. OfferInv'
  <2>1. Offered \subseteq Offered'
    BY DEF CannotOffer, Return, TypeOK, PlaceInv, Offered, Ordered, PendingPurchase
  <2>3. \A u \in Turn : offer'[u] # None =>
            offer'[u].from = u /\ msg'[u].kind = "order" /\ offer'[u].quantity = Ordered(u)'
    BY DEF CannotOffer, Return, TypeOK, PlaceInv, OfferInv, Ordered
  <2>4. \A i \in 1..Len(markers') : markers'[i] \in Offered'
    BY <2>1 DEF CannotOffer, Return, TypeOK, OfferInv
  <2>5. \A u \in Turn : seen'[u] # None => seen'[u] \in Offered'
    BY <2>1 DEF CannotOffer, Return, TypeOK, OfferInv
  <2> QED  BY <2>3, <2>4, <2>5 DEF OfferInv, Ordered
<1>6. SerialInv'
  BY NoneAssumption DEF CannotOffer, Return, TypeOK, SerialInv, Offered, Ordered, Awaiting, OfferInv, PlaceInv, Active
<1> QED  BY <1>1, <1>2, <1>3, <1>4, <1>5, <1>6

\* A failing lookup ends the turn and keeps the markers.
LEMMA LookUpFailsStep ==
    ASSUME NEW t \in Turn, IInv, LookUpFails(t)
    PROVE  IInv'
<1> USE DEF IInv
<1>1. TypeOK'
  BY NoneAssumption DEF LookUpFails, ReturnToolError, TypeOK, Awaiting, PurchaseStatus
<1>2. PlaceInv'
  BY NoneAssumption DEF LookUpFails, ReturnToolError, TypeOK, PlaceInv, Ordered, Awaiting, RequestInv
<1>3. RequestInv'
  BY NoneAssumption DEF LookUpFails, ReturnToolError, TypeOK, RequestInv, PlaceInv
<1>4. MovementInv'
  BY NoneAssumption DEF LookUpFails, ReturnToolError, TypeOK, MovementInv, RequestInv, PlaceInv
<1>5. OfferInv'
  <2>1. Offered \subseteq Offered'
    BY DEF LookUpFails, ReturnToolError, TypeOK, PlaceInv, Offered, Ordered, PendingPurchase
  <2>3. \A u \in Turn : offer'[u] # None =>
            offer'[u].from = u /\ msg'[u].kind = "order" /\ offer'[u].quantity = Ordered(u)'
    BY DEF LookUpFails, ReturnToolError, TypeOK, PlaceInv, OfferInv, Ordered
  <2>4. \A i \in 1..Len(markers') : markers'[i] \in Offered'
    BY <2>1 DEF LookUpFails, ReturnToolError, TypeOK, OfferInv
  <2>5. \A u \in Turn : seen'[u] # None => seen'[u] \in Offered'
    BY <2>1 DEF LookUpFails, ReturnToolError, TypeOK, OfferInv
  <2> QED  BY <2>3, <2>4, <2>5 DEF OfferInv, Ordered
<1>6. SerialInv'
  BY NoneAssumption DEF LookUpFails, ReturnToolError, TypeOK, SerialInv, Offered, Ordered, Awaiting, OfferInv, PlaceInv, Active
<1> QED  BY <1>1, <1>2, <1>3, <1>4, <1>5, <1>6

\* The one request of a turn goes out while it holds a loaded purchase.
LEMMA SendStockOutStep ==
    ASSUME NEW t \in Turn, IInv, SendStockOut(t)
    PROVE  IInv'
<1> USE DEF IInv
<1>1. TypeOK'
  BY NoneAssumption DEF SendStockOut, TypeOK, Awaiting, PurchaseStatus
<1>2. PlaceInv'
  BY NoneAssumption DEF SendStockOut, TypeOK, PlaceInv, Ordered, Awaiting, RequestInv
<1>3. RequestInv'
  BY NoneAssumption DEF SendStockOut, TypeOK, RequestInv, PlaceInv
<1>4. MovementInv'
  BY NoneAssumption DEF SendStockOut, TypeOK, MovementInv, RequestInv, PlaceInv
<1>5. OfferInv'
  <2>1. Offered \subseteq Offered'
    BY DEF SendStockOut, TypeOK, PlaceInv, Offered, Ordered, PendingPurchase
  <2>3. \A u \in Turn : offer'[u] # None =>
            offer'[u].from = u /\ msg'[u].kind = "order" /\ offer'[u].quantity = Ordered(u)'
    BY DEF SendStockOut, TypeOK, PlaceInv, OfferInv, Ordered
  <2>4. \A i \in 1..Len(markers') : markers'[i] \in Offered'
    BY <2>1 DEF SendStockOut, TypeOK, OfferInv
  <2>5. \A u \in Turn : seen'[u] # None => seen'[u] \in Offered'
    BY <2>1 DEF SendStockOut, TypeOK, OfferInv
  <2> QED  BY <2>3, <2>4, <2>5 DEF OfferInv, Ordered
<1>6. SerialInv'
  BY NoneAssumption DEF SendStockOut, TypeOK, SerialInv, Offered, Ordered, Awaiting, OfferInv, PlaceInv, Active
<1> QED  BY <1>1, <1>2, <1>3, <1>4, <1>5, <1>6

\* An abandoned purchase never had a request, so its turn may well reply.
LEMMA AbandonOrderStep ==
    ASSUME NEW t \in Turn, IInv, AbandonOrder(t)
    PROVE  IInv'
<1> USE DEF IInv
<1>1. TypeOK'
  BY ClearFacts, NoneAssumption DEF AbandonOrder, Return, TypeOK, Awaiting, PurchaseStatus
<1>2. PlaceInv'
  BY ClearFacts, NoneAssumption DEF AbandonOrder, Return, TypeOK, PlaceInv, Ordered, Awaiting, RequestInv
<1>3. RequestInv'
  BY ClearFacts, NoneAssumption DEF AbandonOrder, Return, TypeOK, RequestInv, PlaceInv
<1>4. MovementInv'
  BY ClearFacts, NoneAssumption DEF AbandonOrder, Return, TypeOK, MovementInv, RequestInv, PlaceInv
<1>5. OfferInv'
  <2>1. Offered \subseteq Offered'
    BY DEF AbandonOrder, Return, TypeOK, PlaceInv, Offered, Ordered, PendingPurchase
  <2>3. \A u \in Turn : offer'[u] # None =>
            offer'[u].from = u /\ msg'[u].kind = "order" /\ offer'[u].quantity = Ordered(u)'
    BY DEF AbandonOrder, Return, TypeOK, PlaceInv, OfferInv, Ordered
  <2>4. \A i \in 1..Len(markers') : markers'[i] \in Offered'
    BY ClearFacts, <2>1 DEF AbandonOrder, Return, TypeOK, OfferInv
  <2>5. \A u \in Turn : seen'[u] # None => seen'[u] \in Offered'
    BY <2>1 DEF AbandonOrder, Return, TypeOK, OfferInv
  <2> QED  BY <2>3, <2>4, <2>5 DEF OfferInv, Ordered
<1>6. SerialInv'
  BY ClearFacts, NoneAssumption DEF AbandonOrder, Return, TypeOK, SerialInv, Offered, Ordered, Awaiting, OfferInv, PlaceInv, Active
<1> QED  BY <1>1, <1>2, <1>3, <1>4, <1>5, <1>6

\* A turn replies "completed" once its request was applied.
LEMMA StockOutSucceedsStep ==
    ASSUME NEW t \in Turn, IInv, StockOutSucceeds(t)
    PROVE  IInv'
<1> USE DEF IInv
<1>1. TypeOK'
  BY ClearFacts, NoneAssumption DEF StockOutSucceeds, Return, TypeOK, Awaiting, PurchaseStatus
<1>2. PlaceInv'
  BY ClearFacts, NoneAssumption DEF StockOutSucceeds, Return, TypeOK, PlaceInv, Ordered, Awaiting, RequestInv
<1>3. RequestInv'
  BY ClearFacts, NoneAssumption DEF StockOutSucceeds, Return, TypeOK, RequestInv, PlaceInv
<1>4. MovementInv'
  BY ClearFacts, NoneAssumption DEF StockOutSucceeds, Return, TypeOK, MovementInv, RequestInv, PlaceInv
<1>5. OfferInv'
  <2>1. Offered \subseteq Offered'
    BY DEF StockOutSucceeds, Return, TypeOK, PlaceInv, Offered, Ordered, PendingPurchase
  <2>3. \A u \in Turn : offer'[u] # None =>
            offer'[u].from = u /\ msg'[u].kind = "order" /\ offer'[u].quantity = Ordered(u)'
    BY DEF StockOutSucceeds, Return, TypeOK, PlaceInv, OfferInv, Ordered
  <2>4. \A i \in 1..Len(markers') : markers'[i] \in Offered'
    BY ClearFacts, <2>1 DEF StockOutSucceeds, Return, TypeOK, OfferInv
  <2>5. \A u \in Turn : seen'[u] # None => seen'[u] \in Offered'
    BY <2>1 DEF StockOutSucceeds, Return, TypeOK, OfferInv
  <2> QED  BY <2>3, <2>4, <2>5 DEF OfferInv, Ordered
<1>6. SerialInv'
  BY ClearFacts, NoneAssumption DEF StockOutSucceeds, Return, TypeOK, SerialInv, Offered, Ordered, Awaiting, OfferInv, PlaceInv, Active
<1> QED  BY <1>1, <1>2, <1>3, <1>4, <1>5, <1>6

\* A failing stock-out ends the turn without a reply, its request still open.
LEMMA StockOutFailsStep ==
    ASSUME NEW t \in Turn, IInv, StockOutFails(t)
    PROVE  IInv'
<1> USE DEF IInv
<1>1. TypeOK'
  BY ClearFacts, NoneAssumption DEF StockOutFails, ReturnToolError, TypeOK, Awaiting, PurchaseStatus
<1>2. PlaceInv'
  BY ClearFacts, NoneAssumption DEF StockOutFails, ReturnToolError, TypeOK, PlaceInv, Ordered, Awaiting, RequestInv
<1>3. RequestInv'
  BY ClearFacts, NoneAssumption DEF StockOutFails, ReturnToolError, TypeOK, RequestInv, PlaceInv
<1>4. MovementInv'
  BY ClearFacts, NoneAssumption DEF StockOutFails, ReturnToolError, TypeOK, MovementInv, RequestInv, PlaceInv
<1>5. OfferInv'
  <2>1. Offered \subseteq Offered'
    BY DEF StockOutFails, ReturnToolError, TypeOK, PlaceInv, Offered, Ordered, PendingPurchase
  <2>3. \A u \in Turn : offer'[u] # None =>
            offer'[u].from = u /\ msg'[u].kind = "order" /\ offer'[u].quantity = Ordered(u)'
    BY DEF StockOutFails, ReturnToolError, TypeOK, PlaceInv, OfferInv, Ordered
  <2>4. \A i \in 1..Len(markers') : markers'[i] \in Offered'
    BY ClearFacts, <2>1 DEF StockOutFails, ReturnToolError, TypeOK, OfferInv
  <2>5. \A u \in Turn : seen'[u] # None => seen'[u] \in Offered'
    BY <2>1 DEF StockOutFails, ReturnToolError, TypeOK, OfferInv
  <2> QED  BY <2>3, <2>4, <2>5 DEF OfferInv, Ordered
<1>6. SerialInv'
  BY ClearFacts, NoneAssumption DEF StockOutFails, ReturnToolError, TypeOK, SerialInv, Offered, Ordered, Awaiting, OfferInv, PlaceInv, Active
<1> QED  BY <1>1, <1>2, <1>3, <1>4, <1>5, <1>6

\* Persisting makes the turn's own offer the newest marker; alone, the only one.
LEMMA FinishStep ==
    ASSUME NEW t \in Turn, IInv, Finish(t)
    PROVE  IInv'
<1> USE DEF IInv
<1>0. \/ markers' = markers
      \/ /\ offer[t] # None
         /\ markers' \in Seq(PendingPurchase)
         /\ Len(markers') = Len(markers) + 1
         /\ \A i \in 1..Len(markers') : i \in 1..Len(markers) \/ i = Len(markers')
         /\ \A i \in 1..Len(markers) : markers'[i] = markers[i]
         /\ markers'[Len(markers')] = offer[t]
  <2>1. CASE offer[t] # None /\ markers' = Append(markers, offer[t])
    <3>1. markers \in Seq(PendingPurchase) /\ offer[t] \in PendingPurchase
      BY <2>1 DEF TypeOK
    <3> QED  BY <2>1, <3>1, AppendProperties
  <2>2. CASE markers' = markers
    BY <2>2
  <2> QED  BY <2>1, <2>2 DEF Finish
<1>1. TypeOK'
  BY <1>0 DEF Finish, TypeOK
<1>2. PlaceInv'
  BY NoneAssumption DEF Finish, TypeOK, PlaceInv, Ordered, Awaiting, RequestInv
<1>3. RequestInv'
  BY NoneAssumption DEF Finish, TypeOK, RequestInv, PlaceInv
<1>4. MovementInv'
  BY NoneAssumption DEF Finish, TypeOK, MovementInv, RequestInv, PlaceInv
<1>5. OfferInv'
  <2>1. Offered \subseteq Offered'
    BY DEF Finish, TypeOK, PlaceInv, Offered, Ordered, PendingPurchase
  <2>2. offer[t] # None => offer[t] \in Offered'
    BY DEF Finish, TypeOK, OfferInv, Offered, Ordered
  <2>3. \A u \in Turn : offer'[u] # None =>
            offer'[u].from = u /\ msg'[u].kind = "order" /\ offer'[u].quantity = Ordered(u)'
    BY DEF Finish, TypeOK, PlaceInv, OfferInv, Ordered
  <2>4. \A i \in 1..Len(markers') : markers'[i] \in Offered'
    BY <1>0, <2>1, <2>2 DEF TypeOK, OfferInv
  <2>5. \A u \in Turn : seen'[u] # None => seen'[u] \in Offered'
    BY <2>1 DEF Finish, TypeOK, OfferInv
  <2> QED  BY <2>3, <2>4, <2>5 DEF OfferInv, Ordered
<1>6. SerialInv'
  BY <1>0, NoneAssumption DEF Finish, TypeOK, SerialInv, Offered, Ordered, Awaiting, OfferInv, PlaceInv, PendingPurchase
<1> QED  BY <1>1, <1>2, <1>3, <1>4, <1>5, <1>6

\* A deduction turns an open request into the one movement of its turn.
LEMMA InventraDeductsStep ==
    ASSUME NEW t \in Turn, IInv, InventraDeducts(t)
    PROVE  IInv'
<1> USE DEF IInv
<1>0. [by |-> t, order |-> seen[t]] \in Movement
  BY DEF InventraDeducts, TypeOK, RequestInv, Movement
<1>1. TypeOK'
  BY <1>0, AppendProperties DEF InventraDeducts, turnVars, TypeOK
<1>2. PlaceInv'
  BY NoneAssumption DEF InventraDeducts, turnVars, TypeOK, PlaceInv, Ordered, Awaiting, RequestInv
<1>3. RequestInv'
  BY NoneAssumption DEF InventraDeducts, turnVars, TypeOK, RequestInv, PlaceInv
<1>4. MovementInv'
  BY NoneAssumption DEF InventraDeducts, turnVars, TypeOK, MovementInv, RequestInv, PlaceInv
<1>5. OfferInv'
  <2>1. Offered \subseteq Offered'
    BY DEF InventraDeducts, turnVars, TypeOK, PlaceInv, Offered, Ordered, PendingPurchase
  <2>3. \A u \in Turn : offer'[u] # None =>
            offer'[u].from = u /\ msg'[u].kind = "order" /\ offer'[u].quantity = Ordered(u)'
    BY DEF InventraDeducts, turnVars, TypeOK, PlaceInv, OfferInv, Ordered
  <2>4. \A i \in 1..Len(markers') : markers'[i] \in Offered'
    BY <2>1 DEF InventraDeducts, turnVars, TypeOK, OfferInv
  <2>5. \A u \in Turn : seen'[u] # None => seen'[u] \in Offered'
    BY <2>1 DEF InventraDeducts, turnVars, TypeOK, OfferInv
  <2> QED  BY <2>3, <2>4, <2>5 DEF OfferInv, Ordered
<1>6. SerialInv'
  BY NoneAssumption DEF InventraDeducts, turnVars, TypeOK, SerialInv, Offered, Ordered, Awaiting, OfferInv, PlaceInv, Active
<1> QED  BY <1>1, <1>2, <1>3, <1>4, <1>5, <1>6

\* A refusal closes an open request without a movement.
LEMMA InventraRefusesStep ==
    ASSUME NEW t \in Turn, IInv, InventraRefuses(t)
    PROVE  IInv'
<1> USE DEF IInv
<1>1. TypeOK'
  BY NoneAssumption DEF InventraRefuses, turnVars, TypeOK, Awaiting, PurchaseStatus
<1>2. PlaceInv'
  BY NoneAssumption DEF InventraRefuses, turnVars, TypeOK, PlaceInv, Ordered, Awaiting, RequestInv
<1>3. RequestInv'
  BY NoneAssumption DEF InventraRefuses, turnVars, TypeOK, RequestInv, PlaceInv
<1>4. MovementInv'
  BY NoneAssumption DEF InventraRefuses, turnVars, TypeOK, MovementInv, RequestInv, PlaceInv
<1>5. OfferInv'
  <2>1. Offered \subseteq Offered'
    BY DEF InventraRefuses, turnVars, TypeOK, PlaceInv, Offered, Ordered, PendingPurchase
  <2>3. \A u \in Turn : offer'[u] # None =>
            offer'[u].from = u /\ msg'[u].kind = "order" /\ offer'[u].quantity = Ordered(u)'
    BY DEF InventraRefuses, turnVars, TypeOK, PlaceInv, OfferInv, Ordered
  <2>4. \A i \in 1..Len(markers') : markers'[i] \in Offered'
    BY <2>1 DEF InventraRefuses, turnVars, TypeOK, OfferInv
  <2>5. \A u \in Turn : seen'[u] # None => seen'[u] \in Offered'
    BY <2>1 DEF InventraRefuses, turnVars, TypeOK, OfferInv
  <2> QED  BY <2>3, <2>4, <2>5 DEF OfferInv, Ordered
<1>6. SerialInv'
  BY NoneAssumption DEF InventraRefuses, turnVars, TypeOK, SerialInv, Offered, Ordered, Awaiting, OfferInv, PlaceInv, Active
<1> QED  BY <1>1, <1>2, <1>3, <1>4, <1>5, <1>6

\* A turn starts with a clean state; if another one is running that is recorded.
LEMMA ReceiveStep ==
    ASSUME NEW t \in Turn, NEW m \in Message, IInv, Receive(t, m)
    PROVE  IInv'
<1> USE DEF IInv
<1>1. TypeOK'
  BY NoneAssumption DEF Receive, TypeOK, Awaiting, Message
<1>2. PlaceInv'
  BY NoneAssumption DEF Receive, TypeOK, PlaceInv, Ordered, Awaiting, RequestInv
<1>3. RequestInv'
  BY NoneAssumption DEF Receive, TypeOK, RequestInv, PlaceInv
<1>4. MovementInv'
  BY NoneAssumption DEF Receive, TypeOK, MovementInv, RequestInv, PlaceInv
<1>5. OfferInv'
  <2>1. Offered \subseteq Offered'
    BY DEF Receive, TypeOK, PlaceInv, Offered, Ordered, PendingPurchase
  <2>3. \A u \in Turn : offer'[u] # None =>
            offer'[u].from = u /\ msg'[u].kind = "order" /\ offer'[u].quantity = Ordered(u)'
    BY DEF Receive, TypeOK, PlaceInv, OfferInv, Ordered
  <2>4. \A i \in 1..Len(markers') : markers'[i] \in Offered'
    BY <2>1 DEF Receive, TypeOK, OfferInv
  <2>5. \A u \in Turn : seen'[u] # None => seen'[u] \in Offered'
    BY <2>1 DEF Receive, TypeOK, OfferInv
  <2> QED  BY <2>3, <2>4, <2>5 DEF OfferInv, Ordered
<1>6. SerialInv'
  BY NoneAssumption DEF Receive, TypeOK, SerialInv, Offered, Ordered, Awaiting, OfferInv, PlaceInv, Active
<1> QED  BY <1>1, <1>2, <1>3, <1>4, <1>5, <1>6

\* A composer that raises ends the turn and leaves everything else alone.
LEMMA ComposeRaisesStep ==
    ASSUME NEW t \in Turn, IInv, ComposeRaises(t)
    PROVE  IInv'
<1> USE DEF IInv
<1>1. TypeOK'
  BY NoneAssumption DEF ComposeRaises, TypeOK, Awaiting, PurchaseStatus
<1>2. PlaceInv'
  BY NoneAssumption DEF ComposeRaises, TypeOK, PlaceInv, Ordered, Awaiting, RequestInv
<1>3. RequestInv'
  BY NoneAssumption DEF ComposeRaises, TypeOK, RequestInv, PlaceInv
<1>4. MovementInv'
  BY NoneAssumption DEF ComposeRaises, TypeOK, MovementInv, RequestInv, PlaceInv
<1>5. OfferInv'
  <2>1. Offered \subseteq Offered'
    BY DEF ComposeRaises, Awaiting, TypeOK, PlaceInv, Offered, Ordered, PendingPurchase
  <2>3. \A u \in Turn : offer'[u] # None =>
            offer'[u].from = u /\ msg'[u].kind = "order" /\ offer'[u].quantity = Ordered(u)'
    BY DEF ComposeRaises, Awaiting, TypeOK, PlaceInv, OfferInv, Ordered
  <2>4. \A i \in 1..Len(markers') : markers'[i] \in Offered'
    BY <2>1 DEF ComposeRaises, Awaiting, TypeOK, OfferInv
  <2>5. \A u \in Turn : seen'[u] # None => seen'[u] \in Offered'
    BY <2>1 DEF ComposeRaises, Awaiting, TypeOK, OfferInv
  <2> QED  BY <2>3, <2>4, <2>5 DEF OfferInv, Ordered
<1>6. SerialInv'
  BY NoneAssumption DEF ComposeRaises, TypeOK, SerialInv, Offered, Ordered, Awaiting, OfferInv, PlaceInv
<1> QED  BY <1>1, <1>2, <1>3, <1>4, <1>5, <1>6

\* A stock-out that raises past its handler ends the turn; the marker stays.
LEMMA StockOutRaisesStep ==
    ASSUME NEW t \in Turn, IInv, StockOutRaises(t)
    PROVE  IInv'
<1> USE DEF IInv
<1>1. TypeOK'
  BY NoneAssumption DEF StockOutRaises, TypeOK, Awaiting, PurchaseStatus
<1>2. PlaceInv'
  BY NoneAssumption DEF StockOutRaises, TypeOK, PlaceInv, Ordered, Awaiting, RequestInv
<1>3. RequestInv'
  BY NoneAssumption DEF StockOutRaises, TypeOK, RequestInv, PlaceInv
<1>4. MovementInv'
  BY NoneAssumption DEF StockOutRaises, TypeOK, MovementInv, RequestInv, PlaceInv
<1>5. OfferInv'
  <2>1. Offered \subseteq Offered'
    BY DEF StockOutRaises, Awaiting, TypeOK, PlaceInv, Offered, Ordered, PendingPurchase
  <2>3. \A u \in Turn : offer'[u] # None =>
            offer'[u].from = u /\ msg'[u].kind = "order" /\ offer'[u].quantity = Ordered(u)'
    BY DEF StockOutRaises, Awaiting, TypeOK, PlaceInv, OfferInv, Ordered
  <2>4. \A i \in 1..Len(markers') : markers'[i] \in Offered'
    BY <2>1 DEF StockOutRaises, Awaiting, TypeOK, OfferInv
  <2>5. \A u \in Turn : seen'[u] # None => seen'[u] \in Offered'
    BY <2>1 DEF StockOutRaises, Awaiting, TypeOK, OfferInv
  <2> QED  BY <2>3, <2>4, <2>5 DEF OfferInv, Ordered
<1>6. SerialInv'
  BY NoneAssumption DEF StockOutRaises, TypeOK, SerialInv, Offered, Ordered, Awaiting, OfferInv, PlaceInv
<1> QED  BY <1>1, <1>2, <1>3, <1>4, <1>5, <1>6

\* A crash ends every running turn; markers and open requests stay.
LEMMA CrashStep ==
    ASSUME IInv, Crash
    PROVE  IInv'
<1> USE DEF IInv
<1>1. TypeOK'
  BY NoneAssumption DEF Crash, TypeOK, Awaiting, PurchaseStatus
<1>2. PlaceInv'
  BY NoneAssumption DEF Crash, TypeOK, PlaceInv, Ordered, Awaiting, RequestInv
<1>3. RequestInv'
  BY NoneAssumption DEF Crash, TypeOK, RequestInv, PlaceInv
<1>4. MovementInv'
  BY NoneAssumption DEF Crash, TypeOK, MovementInv, RequestInv, PlaceInv
<1>5. OfferInv'
  <2>1. Offered \subseteq Offered'
    BY DEF Crash, Active, Awaiting, TypeOK, PlaceInv, Offered, Ordered, PendingPurchase
  <2>3. \A u \in Turn : offer'[u] # None =>
            offer'[u].from = u /\ msg'[u].kind = "order" /\ offer'[u].quantity = Ordered(u)'
    BY DEF Crash, Active, Awaiting, TypeOK, PlaceInv, OfferInv, Ordered
  <2>4. \A i \in 1..Len(markers') : markers'[i] \in Offered'
    BY <2>1 DEF Crash, Active, Awaiting, TypeOK, OfferInv
  <2>5. \A u \in Turn : seen'[u] # None => seen'[u] \in Offered'
    BY <2>1 DEF Crash, Active, Awaiting, TypeOK, OfferInv
  <2> QED  BY <2>3, <2>4, <2>5 DEF OfferInv, Ordered
<1>6. SerialInv'
  BY NoneAssumption DEF Crash, TypeOK, SerialInv, Offered, Ordered, Awaiting, OfferInv, PlaceInv, Active
<1> QED  BY <1>1, <1>2, <1>3, <1>4, <1>5, <1>6

\* Every step of the flow keeps the inductive invariant.
LEMMA StepIInv == IInv /\ [Next]_vars => IInv'
<1> SUFFICES ASSUME IInv, [Next]_vars PROVE IInv'
  OBVIOUS
<1>1. ASSUME NEW t \in Turn, Step(t) PROVE IInv'
  BY <1>1, GatherRaisesStep, PassThroughStep, NothingPendingStep, ConfirmStep, DeclineStep,
     RefuseOrderStep, LookUpStep, OfferStep, CannotOfferStep, LookUpFailsStep,
     SendStockOutStep, AbandonOrderStep, StockOutSucceedsStep,
     StockOutFailsStep, StockOutRaisesStep, FinishStep, ComposeRaisesStep DEF Step
<1>2. ASSUME NEW t \in Turn, Inventra(t) PROVE IInv'
  BY <1>2, InventraDeductsStep, InventraRefusesStep DEF Inventra
<1>3. ASSUME NEW t \in Turn, NEW m \in Message, Receive(t, m) PROVE IInv'
  BY <1>3, ReceiveStep
<1>4. CASE Crash
  BY <1>4, CrashStep
<1>5. CASE UNCHANGED vars
  BY <1>5 DEF vars, IInv, TypeOK, PlaceInv, RequestInv, MovementInv, OfferInv,
              SerialInv, Offered, Ordered
<1> QED  BY <1>1, <1>2, <1>3, <1>4, <1>5 DEF Next

\* The invariant holds in every reachable state.
THEOREM Invariance == Spec => []IInv
  BY InitIInv, StepIInv, PTL DEF Spec

-----------------------------------------------------------------------------
\* Every variable keeps its type.
THEOREM TypeCorrect == Spec => []TypeOK
<1>1. IInv => TypeOK
  BY DEF IInv
<1> QED  BY <1>1, Invariance, PTL

\* The invariant implies that every movement was offered and confirmed.
LEMMA InvConfirms == IInv => ConfirmationGated
<1> SUFFICES ASSUME IInv, NEW i \in DOMAIN movements
             PROVE  LET t == movements[i].by
                        order == movements[i].order
                    IN  /\ msg[t].kind = "confirm" /\ seen[t] = order
                        /\ msg[order.from].kind = "order" /\ pc[order.from] = "done"
                        /\ offer[order.from] = order
                        /\ order.quantity = Ordered(order.from)
  BY DEF ConfirmationGated
<1>1. /\ i \in 1..Len(movements)
      /\ movements[i].by \in Turn
  <2>1. i \in 1..Len(movements) /\ movements[i] \in Movement
    BY DEF IInv, TypeOK
  <2> QED  BY <2>1 DEF Movement
<1>2. /\ request[movements[i].by] = "applied"
      /\ movements[i].order = seen[movements[i].by]
  BY <1>1 DEF IInv, MovementInv
<1>3. msg[movements[i].by].kind = "confirm" /\ movements[i].order \in Offered
  BY <1>1, <1>2 DEF IInv, RequestInv, OfferInv
<1> QED  BY <1>2, <1>3 DEF Offered

\* Whatever Inventra deducted was offered by a finished order turn and is the
\* purchase a confirming turn had loaded: an order request never deducts.
THEOREM DeductionsAreConfirmed == Spec => []ConfirmationGated
  BY InvConfirms, Invariance, PTL

\* It implies that a turn deducts once.
LEMMA InvDeductsOnce == IInv => SingleDeductionPerTurn
  BY DEF IInv, TypeOK, MovementInv, SingleDeductionPerTurn

\* One turn deducts at most once, however its request times out or lands.
THEOREM OneDeductionPerTurn == Spec => []SingleDeductionPerTurn
  BY InvDeductsOnce, Invariance, PTL

\* It implies that replies are truthful.
LEMMA InvIsTruthful == IInv => TruthfulReply
<1> SUFFICES ASSUME IInv PROVE TruthfulReply
  OBVIOUS
<1>1. \A t \in Turn : Moved(t) <=> request[t] = "applied"
  BY DEF IInv, TypeOK, MovementInv, Moved
<1> QED  BY <1>1 DEF IInv, PlaceInv, TruthfulReply

\* A turn that composes a reply says "completed" exactly when it deducted, and
\* has no request left that could land later.
THEOREM RepliesAreTruthful == Spec => []TruthfulReply
  BY InvIsTruthful, Invariance, PTL

\* Without overlap, failed clear, raising stock-out or crash a pending purchase is taken up once.
THEOREM ResolvedOnce == Spec => []SerialResolvedOnce
<1>1. IInv => SerialResolvedOnce
  BY DEF IInv, SerialInv, SerialResolvedOnce
<1> QED  BY <1>1, Invariance, PTL

\* Without overlap, failed clear, raising stock-out or crash no marker survives beneath another.
THEOREM OneMarker == Spec => []SerialOneMarker
<1>1. IInv => SerialOneMarker
  BY DEF IInv, SerialInv, SerialOneMarker
<1> QED  BY <1>1, Invariance, PTL

\* The promise of the module's documentation, under the conditions it needs:
\* without overlap, failed clear, raising stock-out or crash an order is deducted
\* at most once.
THEOREM SerialExactlyOnce == Spec => [](mishaps = {} => ExactlyOnce)
<1>1. IInv => (mishaps = {} => ExactlyOnce)
  <2> SUFFICES ASSUME IInv, mishaps = {},
                      NEW i \in 1..Len(movements), NEW j \in 1..Len(movements),
                      movements[i].order = movements[j].order
               PROVE  i = j
    BY DEF IInv, TypeOK, ExactlyOnce
  <2> DEFINE t == movements[i].by
             u == movements[j].by
  <2>1. t \in Turn /\ u \in Turn
    <3>1. movements[i] \in Movement /\ movements[j] \in Movement
      BY DEF IInv, TypeOK
    <3> QED  BY <3>1 DEF Movement
  <2>2. /\ seen[t] = movements[i].order
        /\ seen[u] = movements[j].order
        /\ seen[t] # None
    BY <2>1 DEF IInv, MovementInv, RequestInv
  <2>3. t = u
    BY <2>1, <2>2 DEF IInv, SerialInv
  <2> QED  BY <2>3 DEF IInv, MovementInv
<1> QED  BY <1>1, Invariance, PTL

-----------------------------------------------------------------------------
(***************************************************************************)
(* Which marker a turn removes needs one more invariant: as long as no two *)
(* turns have overlapped, whatever else has failed or crashed, a confirming *)
(* turn still has the marker it loaded in front of it.                     *)
(***************************************************************************)
AloneInv ==
    "overlap" \notin mishaps =>
        /\ \A t, u \in Turn : pc[t] \in Awaiting /\ pc[u] \in Awaiting => t = u
        /\ \A t \in Turn : pc[t] \in {"recheck", "stockout"} =>
              markers # <<>> /\ seen[t] = markers[Len(markers)]

\* A step of a turn moves this turn only, to its re-check from the load of the
\* newest marker and to its stock-out from the re-check.
LEMMA StepMoves ==
    ASSUME TypeOK, NEW t \in Turn, Step(t)
    PROVE  /\ pc[t] \in Awaiting
           /\ \A u \in Turn \ {t} : pc'[u] = pc[u]
           /\ mishaps \subseteq mishaps'
           /\ pc'[t] = "recheck" => Confirm(t)
           /\ pc'[t] = "stockout" => SendStockOut(t)
<1>1. CASE Decline(t) \/ (\E p \in Product : Offer(t, p)) \/ AbandonOrder(t)
           \/ StockOutSucceeds(t) \/ StockOutFails(t)
  BY <1>1, ClearFacts DEF TypeOK, Decline, Offer, AbandonOrder, StockOutSucceeds,
     StockOutFails, Resume, Return, ReturnToolError, Awaiting
<1>2. CASE Confirm(t) \/ SendStockOut(t) \/ StockOutRaises(t) \/ Finish(t) \/ ComposeRaises(t)
  BY <1>2 DEF TypeOK, Confirm, SendStockOut, StockOutRaises, Finish, ComposeRaises,
     Resume, Awaiting
<1>3. CASE \/ GatherRaises(t) \/ PassThrough(t) \/ NothingPending(t) \/ RefuseOrder(t)
           \/ LookUp(t) \/ CannotOffer(t) \/ LookUpFails(t)
  BY <1>3 DEF TypeOK, GatherRaises, PassThrough, NothingPending, RefuseOrder, LookUp,
     CannotOffer, LookUpFails, Resume, Return, ReturnToolError, Awaiting
<1> QED  BY <1>1, <1>2, <1>3 DEF Step

\* A turn that runs alone keeps it: nobody else touches the markers.
LEMMA StepAloneInv == IInv /\ AloneInv /\ [Next]_vars => AloneInv'
<1> DEFINE Alone ==
        /\ \A t, u \in Turn : pc'[t] \in Awaiting /\ pc'[u] \in Awaiting => t = u
        /\ \A t \in Turn : pc'[t] \in {"recheck", "stockout"} =>
              markers' # <<>> /\ seen'[t] = markers'[Len(markers')]
<1> SUFFICES ASSUME IInv, AloneInv, [Next]_vars, "overlap" \notin mishaps'
             PROVE  Alone
  BY DEF AloneInv
<1>0. TypeOK
  BY DEF IInv
<1>1. ASSUME NEW t \in Turn, Step(t)
      PROVE  Alone
  <2>1. /\ pc[t] \in Awaiting
        /\ \A u \in Turn \ {t} : pc'[u] = pc[u]
        /\ "overlap" \notin mishaps
        /\ pc'[t] = "recheck" => Confirm(t)
        /\ pc'[t] = "stockout" => SendStockOut(t)
    BY <1>0, <1>1, StepMoves
  <2>2. \A u \in Turn \ {t} : pc'[u] \notin Awaiting
    BY <2>1 DEF AloneInv
  <2>3. CASE Confirm(t)
    BY <1>0, <2>2, <2>3 DEF Confirm, Newest, TypeOK, Awaiting
  <2>4. CASE SendStockOut(t)
    BY <1>0, <2>1, <2>2, <2>4 DEF SendStockOut, AloneInv, TypeOK, Awaiting
  <2>5. CASE ~Confirm(t) /\ ~SendStockOut(t)
    BY <2>1, <2>2, <2>5 DEF Awaiting
  <2> QED  BY <2>3, <2>4, <2>5
<1>2. ASSUME NEW t \in Turn, Inventra(t) PROVE Alone
  BY <1>2 DEF Inventra, InventraDeducts, InventraRefuses, turnVars, AloneInv
<1>3. ASSUME NEW t \in Turn, NEW m \in Message, Receive(t, m) PROVE Alone
  <2>1. Active = {} /\ "overlap" \notin mishaps
    BY <1>3 DEF Receive
  <2>2. \A u \in Turn : pc[u] \notin Awaiting
    BY <2>1 DEF Active
  <2> QED  BY <1>0, <1>3, <2>2 DEF Receive, TypeOK, Awaiting
<1>4. CASE Crash
  <2>1. \A u \in Turn : pc'[u] \notin Awaiting
    BY <1>4 DEF Crash, Active, Awaiting
  <2> QED  BY <2>1 DEF Awaiting
<1>5. CASE UNCHANGED vars
  BY <1>5 DEF vars, AloneInv
<1> QED  BY <1>1, <1>2, <1>3, <1>4, <1>5 DEF Next

\* Without its last element a sequence is what the last element was appended to.
LEMMA LastAppended ==
    ASSUME NEW S, NEW s \in Seq(S), s # <<>>
    PROVE  s = Append(SubSeq(s, 1, Len(s) - 1), s[Len(s)])
<1> DEFINE n == Len(s)
           front == SubSeq(s, 1, n - 1)
<1>1. n \in Nat \ {0}
  BY EmptySeq, LenProperties
<1>2. front \in Seq(S) /\ Len(front) = n - 1 /\ \A i \in 1..n - 1 : front[i] = s[i]
  <2>1. \A i \in 1..n - 1 : s[i] \in S
    BY <1>1
  <2>2. n - 1 \in 1 - 1..n
    BY <1>1
  <2> HIDE DEF n
  <2> QED  BY <1>1, <2>1, <2>2, SubSeqProperties
<1>3. s[n] \in S
  BY <1>1
<1>4. /\ Append(front, s[n]) \in Seq(S)
      /\ Len(Append(front, s[n])) = n
      /\ \A i \in 1..n : Append(front, s[n])[i] = s[i]
  <2> HIDE DEF n, front
  <2> QED  BY <1>1, <1>2, <1>3, AppendProperties
<1> HIDE DEF front
<1> QED  BY <1>4, SeqEqual DEF n

\* A marker only goes when its turn resolves or supersedes a purchase (failed
\* lookups, refused orders, small talk, persisting and crashing keep it), and
\* unless turns have overlapped it is the one that turn had loaded.
THEOREM MarkersSurvive == Spec => PendingSurvives
<1> DEFINE Consumed ==
        \E t \in Turn :
              /\ pc[t] \in {"gather", "lookup", "recheck", "stockout"}
              /\ pc'[t] \in {"compose", "aborted"}
              /\ msg[t].kind = "order" => offer'[t] # None
              /\ msg[t].kind # "order" =>
                    /\ seen'[t] # None
                    /\ markers = Append(markers', seen'[t]) \/ "overlap" \in mishaps
<1>1. ASSUME IInv, AloneInv, [Next]_vars
      PROVE  [Len(markers') < Len(markers) => Consumed]_vars
  <2> USE <1>1
  <2> SUFFICES ASSUME Next, Len(markers') < Len(markers) PROVE Consumed
    BY DEF vars
  <2>0. markers' # markers /\ Len(markers) \in Nat
    BY DEF IInv, TypeOK
  <2>1. ASSUME NEW t \in Turn, Step(t) PROVE Consumed
    <3>0. ASSUME ClearNewest PROVE markers = Append(markers', Newest)
      <4>1. markers # <<>> /\ markers' = SubSeq(markers, 1, Len(markers) - 1)
        BY <2>0, <3>0 DEF ClearNewest
      <4> QED  BY <4>1, LastAppended DEF Newest, IInv, TypeOK
    <3>1. CASE Decline(t)
      BY <2>1, <3>0, <3>1, NoneAssumption DEF Decline, Resume, Return, IInv, TypeOK
    <3>2. ASSUME NEW p \in Product, Offer(t, p) PROVE Consumed
      <4>1. [from |-> t, product |-> p, quantity |-> Ordered(t)] # None
        BY <3>2, OrderedIsPending, NoneAssumption DEF Offer
      <4> QED  BY <3>2, <4>1 DEF Offer, Return, IInv, TypeOK, PlaceInv
    <3>7. ASSUME pc[t] \in {"recheck", "stockout"}, "overlap" \notin mishaps
          PROVE  seen[t] = Newest
      BY <3>7 DEF AloneInv, Newest
    <3>3. CASE AbandonOrder(t)
      BY <3>0, <3>3, <3>7 DEF AbandonOrder, Return, IInv, TypeOK, PlaceInv
    <3>4. CASE StockOutSucceeds(t)
      BY <3>0, <3>4, <3>7 DEF StockOutSucceeds, Return, IInv, TypeOK, PlaceInv, RequestInv
    <3>5. CASE StockOutFails(t)
      BY <3>0, <3>5, <3>7 DEF StockOutFails, ReturnToolError, IInv, TypeOK, PlaceInv, RequestInv
    <3>6. CASE Finish(t)
      <4>1. offer[t] # None /\ markers' = Append(markers, offer[t])
        BY <2>0, <3>6 DEF Finish
      <4>2. markers \in Seq(PendingPurchase) /\ offer[t] \in PendingPurchase
        BY <4>1 DEF IInv, TypeOK
      <4> QED  BY <2>0, <4>1, <4>2, AppendProperties
    <3> QED
      BY <2>0, <2>1, <3>1, <3>2, <3>3, <3>4, <3>5, <3>6
         DEF Step, GatherRaises, PassThrough, NothingPending, Confirm, RefuseOrder, LookUp,
             CannotOffer, LookUpFails, SendStockOut, StockOutRaises, ComposeRaises
  <2>2. CASE \E t \in Turn : Inventra(t) \/ \E m \in Message : Receive(t, m)
    BY <2>0, <2>2 DEF Inventra, InventraDeducts, InventraRefuses, Receive
  <2>3. CASE Crash
    BY <2>0, <2>3 DEF Crash
  <2> QED  BY <2>1, <2>2, <2>3 DEF Next
<1>2. Init => AloneInv
  BY DEF Init, AloneInv, Awaiting
<1> QED  BY <1>1, <1>2, Invariance, StepAloneInv, PTL DEF Spec, PendingSurvives

-----------------------------------------------------------------------------
(***************************************************************************)
(* The refinement: PurchaseFlow implements OrderLedger under its mapping.  *)
(* First, what a step must touch for the mapped variables to change.       *)
(***************************************************************************)

\* As long as no turn becomes done, and no finished one changes its offer, the
\* same orders count as offered.
LEMMA OffersKept ==
    ASSUME TypeOK, TypeOK',
           \A t \in Turn : pc'[t] = "done" <=> pc[t] = "done",
           \A t \in Turn : pc[t] = "done" => offer'[t] = offer[t]
    PROVE  OffersMade' = OffersMade
BY DEF OffersMade

\* What a turn has taken up depends on its message and what it has loaded.
LEMMA TakenKept ==
    ASSUME \A t \in Turn :
               \/ msg'[t].kind = msg[t].kind /\ seen'[t] = seen[t]
               \/ msg'[t].kind # "confirm" /\ msg[t].kind # "confirm"
               \/ seen'[t] = None /\ seen[t] = None
    PROVE  Taken' = Taken
<1>1. \A t \in Turn : Taken'[t] = Taken[t]
  BY DEF Taken
<1> QED  BY <1>1 DEF Taken

\* What a customer was told depends on the finished turns and their outcomes.
LEMMA ToldKept ==
    ASSUME \A t \in Turn : pc'[t] = "done" <=> pc[t] = "done",
           \A t \in Turn : pc[t] = "done" => status'[t] = status[t]
    PROVE  Told' = Told
<1>1. \A t \in Turn : Told'[t] = Told[t]
  BY DEF Told
<1> QED  BY <1>1 DEF Told

\* Clearing the newest marker drops the newest open order, or nothing.
LEMMA ClearDrops ==
    ASSUME IInv, NEW t \in Turn, pc[t] # "done", ClearNewest,
           OffersMade' = OffersMade, Taken' = Taken, Told' = Told, movements' = movements
    PROVE  Ledger!Drop(t) \/ UNCHANGED Ledger!vars
<1>1. Told[t] = "nothing"
  BY DEF Told
<1>2. CASE markers # <<>> /\ markers' = SubSeq(markers, 1, Len(markers) - 1)
  BY <1>1, <1>2 DEF Ledger!Drop
<1>3. CASE markers' = markers
  BY <1>3 DEF Ledger!vars
<1> QED  BY <1>2, <1>3 DEF ClearNewest

\* Nothing is offered, open, taken, deducted or told before the first message.
LEMMA InitLedger == Init => Ledger!Init
<1> SUFFICES ASSUME Init PROVE Ledger!Init
  OBVIOUS
<1>1. OffersMade = {}
  BY DEF Init, OffersMade
<1>2. Taken = [t \in Turn |-> None]
  BY DEF Init, Taken
<1>3. Told = [t \in Turn |-> "nothing"]
  BY DEF Init, Told
<1> QED  BY <1>1, <1>2, <1>3 DEF Init, Ledger!Init

-----------------------------------------------------------------------------
(***************************************************************************)
(* The steps that leave the ledger as it is.                               *)
(***************************************************************************)

\* A turn that moves on without finishing, and a process that stops, change
\* nothing the ledger shows.
LEMMA SilentTurnStep ==
    ASSUME IInv, IInv', NEW t \in Turn,
           \/ GatherRaises(t) \/ PassThrough(t) \/ NothingPending(t)
           \/ RefuseOrder(t) \/ LookUp(t) \/ CannotOffer(t) \/ LookUpFails(t)
           \/ SendStockOut(t) \/ StockOutRaises(t) \/ ComposeRaises(t)
    PROVE  UNCHANGED Ledger!vars
<1>1. /\ pc[t] # "done"
      /\ \E p \in {"aborted", "compose", "lookup", "stockout"} : pc' = [pc EXCEPT ![t] = p]
  BY DEF GatherRaises, PassThrough, NothingPending, RefuseOrder, LookUp, CannotOffer,
         LookUpFails, SendStockOut, StockOutRaises, ComposeRaises, Resume, Return, ReturnToolError
<1>2. \/ UNCHANGED status
      \/ \E s \in PurchaseStatus : status' = [status EXCEPT ![t] = s]
  BY DEF GatherRaises, PassThrough, NothingPending, RefuseOrder, LookUp, CannotOffer,
         LookUpFails, SendStockOut, StockOutRaises, ComposeRaises, Return, ReturnToolError,
         IInv, TypeOK, PurchaseStatus
<1>3. UNCHANGED <<msg, seen, offer, movements, markers>>
  BY DEF GatherRaises, PassThrough, NothingPending, RefuseOrder, LookUp, CannotOffer,
         LookUpFails, SendStockOut, StockOutRaises, ComposeRaises
<1>4. OffersMade' = OffersMade
  BY <1>1, <1>3, OffersKept DEF IInv, TypeOK
<1>5. Taken' = Taken
  BY <1>3, TakenKept
<1>6. Told' = Told
  BY <1>1, <1>2, ToldKept DEF IInv, TypeOK
<1> QED  BY <1>3, <1>4, <1>5, <1>6 DEF Ledger!vars

\* Neither does a refusal, a new message or a crash.
LEMMA SilentOtherStep ==
    ASSUME IInv, IInv',
           \/ \E t \in Turn : InventraRefuses(t) \/ \E m \in Message : Receive(t, m)
           \/ Crash
    PROVE  UNCHANGED Ledger!vars
<1>1. UNCHANGED <<seen, offer, status, movements, markers>>
  BY DEF InventraRefuses, turnVars, Receive, Crash
<1>2. /\ \A t \in Turn : pc'[t] = "done" <=> pc[t] = "done"
      /\ \A t \in Turn : msg'[t] = msg[t] \/ seen[t] = None
  <2>1. CASE \E t \in Turn : InventraRefuses(t)
    BY <2>1 DEF InventraRefuses, turnVars
  <2>2. ASSUME NEW t \in Turn, NEW m \in Message, Receive(t, m)
        PROVE  <1>2!1 /\ <1>2!2
    <3>1. pc[t] = "idle" /\ seen[t] = None
      BY <2>2 DEF Receive, IInv, PlaceInv
    <3>2. pc' = [pc EXCEPT ![t] = "gather"] /\ msg' = [msg EXCEPT ![t] = m]
      BY <2>2 DEF Receive
    <3> QED  BY <3>1, <3>2 DEF IInv, TypeOK
  <2>3. CASE Crash
    <3>1. pc' = [t \in Turn |-> IF t \in Active THEN "aborted" ELSE pc[t]] /\ msg' = msg
      BY <2>3 DEF Crash
    <3>2. \A t \in Active : pc[t] # "done"
      BY DEF Active, Awaiting
    <3> QED  BY <3>1, <3>2
  <2> QED  BY <2>1, <2>2, <2>3
<1>4. OffersMade' = OffersMade
  BY <1>1, <1>2, OffersKept DEF IInv
<1>5. Taken' = Taken
  BY <1>1, <1>2, TakenKept
<1>6. Told' = Told
  BY <1>1, <1>2, ToldKept
<1> QED  BY <1>1, <1>4, <1>5, <1>6 DEF Ledger!vars

-----------------------------------------------------------------------------
(***************************************************************************)
(* The steps of the ledger.                                                *)
(***************************************************************************)

\* A confirming turn takes up the newest marker.
LEMMA ConfirmTakes ==
    ASSUME IInv, IInv', NEW t \in Turn, Confirm(t)
    PROVE  Ledger!Take(t)
<1>1. pc[t] = "gather" /\ seen[t] = None /\ msg[t].kind = "confirm"
  BY DEF Confirm, Resume, IInv, PlaceInv
<1>2. Told[t] = "nothing" /\ Taken[t] = None
  BY <1>1 DEF Told, Taken
<1>3. markers # <<>> /\ Newest = markers[Len(markers)]
  BY DEF Confirm, Newest
<1>4. Taken' = [Taken EXCEPT ![t] = markers[Len(markers)]]
  BY <1>1, <1>3 DEF Confirm, Taken, IInv, TypeOK
<1>5. OffersMade' = OffersMade
  BY <1>1, OffersKept DEF Confirm, IInv, TypeOK
<1>6. Told' = Told
  BY <1>1, ToldKept DEF Confirm, IInv, TypeOK
<1> QED  BY <1>2, <1>3, <1>4, <1>5, <1>6 DEF Ledger!Take, Confirm

\* A turn that declines, supersedes, abandons or resolves drops one marker.
LEMMA ClearingStep ==
    ASSUME IInv, IInv', NEW t \in Turn,
           \/ Decline(t) \/ AbandonOrder(t) \/ StockOutSucceeds(t) \/ StockOutFails(t)
           \/ \E p \in Product : Offer(t, p)
    PROVE  Ledger!Drop(t) \/ UNCHANGED Ledger!vars
<1>1. /\ pc[t] # "done" /\ ClearNewest
      /\ \E p \in {"aborted", "compose"} : pc' = [pc EXCEPT ![t] = p]
      /\ \E s \in PurchaseStatus : status' = [status EXCEPT ![t] = s]
      /\ UNCHANGED <<msg, movements>>
  BY DEF Decline, AbandonOrder, StockOutSucceeds, StockOutFails, Offer, Resume, Return,
         ReturnToolError, PurchaseStatus
<1>2. UNCHANGED offer \/ \E o : offer' = [offer EXCEPT ![t] = o]
  BY DEF Decline, AbandonOrder, StockOutSucceeds, StockOutFails, Offer
<1>3. UNCHANGED seen \/ (msg[t].kind = "decline" /\ \E o : seen' = [seen EXCEPT ![t] = o])
  BY DEF Decline, AbandonOrder, StockOutSucceeds, StockOutFails, Offer, Resume
<1>4. OffersMade' = OffersMade
  BY <1>1, <1>2, OffersKept DEF IInv, TypeOK
<1>5. Taken' = Taken
  BY <1>1, <1>3, TakenKept DEF IInv, TypeOK
<1>6. Told' = Told
  BY <1>1, ToldKept DEF IInv, TypeOK
<1> QED  BY <1>1, <1>4, <1>5, <1>6, ClearDrops

\* Inventra deducts what a confirming turn took, once, and only while that turn
\* has told its customer nothing.
LEMMA InventraDeductsOnce ==
    ASSUME IInv, IInv', NEW t \in Turn, InventraDeducts(t)
    PROVE  Ledger!Deduct(t)
<1>1. request[t] = "sent" /\ msg[t].kind = "confirm" /\ seen[t] # None
  BY DEF InventraDeducts, IInv, RequestInv
<1>2. pc[t] # "done"
  BY <1>1 DEF IInv, PlaceInv
<1>3. Told[t] = "nothing" /\ Taken[t] = seen[t] /\ Taken[t] # None
  BY <1>1, <1>2 DEF Told, Taken
<1>4. ~Ledger!Deducted(t)
  <2>1. ASSUME NEW i \in 1..Len(movements) PROVE movements[i].by # t
    BY <1>1 DEF IInv, MovementInv
  <2>2. DOMAIN movements = 1..Len(movements)
    BY DEF IInv, TypeOK
  <2> QED  BY <2>1, <2>2 DEF Ledger!Deducted
<1>5. movements' = Append(movements, [by |-> t, order |-> Taken[t]])
  BY <1>3 DEF InventraDeducts
<1>6. UNCHANGED <<OffersMade, markers, Taken, Told>>
  <2>1. UNCHANGED <<pc, msg, seen, offer, status, markers>>
    BY DEF InventraDeducts, turnVars
  <2>2. OffersMade' = OffersMade
    BY <2>1, OffersKept DEF IInv
  <2>3. Taken' = Taken
    BY <2>1, TakenKept
  <2>4. Told' = Told
    BY <2>1, ToldKept
  <2> QED  BY <2>1, <2>2, <2>3, <2>4
<1> QED  BY <1>3, <1>4, <1>5, <1>6 DEF Ledger!Deduct

\* What a turn offers is an order a customer can have stated.
LEMMA OfferIsOrderable ==
    ASSUME IInv, NEW t \in Turn, offer[t] # None
    PROVE  offer[t] \in Orderable
<1>1. offer[t] \in PendingPurchase /\ offer[t].quantity = Ordered(t)
  BY DEF IInv, TypeOK, OfferInv
<1>2. Ordered(t) \in Quantity \cup {1}
  BY DEF Ordered, IInv, TypeOK, Message
<1> QED  BY <1>1, <1>2 DEF Orderable, PendingPurchase

\* A turn that finishes tells its customer whether it deducted; its offer, if it
\* has one, is new.
LEMMA FinishReplies ==
    ASSUME IInv, IInv', NEW t \in Turn, Finish(t)
    PROVE  Ledger!Reply(t)
<1> DEFINE said == IF Ledger!Deducted(t) THEN "completed" ELSE "not completed"
<1>1. /\ pc[t] = "compose" /\ pc' = [pc EXCEPT ![t] = "done"]
      /\ UNCHANGED <<msg, seen, offer, status, movements>>
  BY DEF Finish
<1>2. Told[t] = "nothing"
  BY <1>1 DEF Told
<1>3. status[t] = "completed" <=> Ledger!Deducted(t)
  <2>1. status[t] = "completed" <=> request[t] = "applied"
    BY <1>1 DEF IInv, PlaceInv
  <2>2. request[t] = "applied" <=> \E i \in 1..Len(movements) : movements[i].by = t
    BY DEF IInv, MovementInv
  <2>3. DOMAIN movements = 1..Len(movements)
    BY DEF IInv, TypeOK
  <2> QED  BY <2>1, <2>2, <2>3 DEF Ledger!Deducted
<1>4. Told' = [Told EXCEPT ![t] = said]
  BY <1>1, <1>3 DEF Told, IInv, TypeOK
<1>5. Taken' = Taken
  BY <1>1, TakenKept
<1>6. Ledger!Offer(t) \/ UNCHANGED <<OffersMade, markers>>
  <2>1. CASE offer[t] = None
    <3>1. OffersMade' = OffersMade
      BY <1>1, <2>1 DEF OffersMade, IInv, TypeOK
    <3> QED  BY <2>1, <3>1 DEF Finish
  <2>2. CASE offer[t] # None
    <3>1. offer[t] \in Orderable /\ offer[t].from = t /\ msg[t].kind = "order"
      BY <2>2, OfferIsOrderable DEF IInv, OfferInv
    <3>2. offer[t] \notin OffersMade
      BY <1>1, <3>1 DEF OffersMade, IInv, OfferInv
    <3>3. OffersMade' = OffersMade \cup {offer[t]}
      BY <1>1, <2>2 DEF OffersMade, IInv, TypeOK
    <3>4. markers' \in {markers, Append(markers, offer[t])}
      BY <2>2 DEF Finish
    <3>5. Taken[t] = None
      BY <3>1 DEF Taken
    <3> QED  BY <3>1, <3>2, <3>3, <3>4, <3>5 DEF Ledger!Offer
  <2> QED  BY <2>1, <2>2
<1> QED  BY <1>1, <1>2, <1>4, <1>5, <1>6 DEF Ledger!Reply

-----------------------------------------------------------------------------
\* Every step of the flow is one step of the ledger or none.
LEMMA StepKeepsLedger == IInv /\ IInv' /\ [Next]_vars => [Ledger!Next]_(Ledger!vars)
<1> SUFFICES ASSUME IInv, IInv', [Next]_vars
             PROVE  Ledger!Next \/ UNCHANGED Ledger!vars
  OBVIOUS
<1>1. ASSUME NEW t \in Turn, Step(t) PROVE Ledger!Next \/ UNCHANGED Ledger!vars
  <2>1. CASE Confirm(t)
    BY <2>1, ConfirmTakes DEF Ledger!Next
  <2>2. CASE Finish(t)
    BY <2>2, FinishReplies DEF Ledger!Next
  <2>3. CASE \/ Decline(t) \/ AbandonOrder(t) \/ StockOutSucceeds(t) \/ StockOutFails(t)
             \/ \E p \in Product : Offer(t, p)
    BY <2>3, ClearingStep DEF Ledger!Next
  <2>4. CASE \/ GatherRaises(t) \/ PassThrough(t) \/ NothingPending(t)
             \/ RefuseOrder(t) \/ LookUp(t) \/ CannotOffer(t) \/ LookUpFails(t)
             \/ SendStockOut(t) \/ StockOutRaises(t) \/ ComposeRaises(t)
    BY <2>4, SilentTurnStep
  <2> QED  BY <1>1, <2>1, <2>2, <2>3, <2>4 DEF Step
<1>2. CASE \E t \in Turn : InventraDeducts(t)
  BY <1>2, InventraDeductsOnce DEF Ledger!Next
<1>3. CASE \/ \E t \in Turn : InventraRefuses(t) \/ \E m \in Message : Receive(t, m)
           \/ Crash
  BY <1>3, SilentOtherStep
<1>4. CASE UNCHANGED vars
  BY <1>4 DEF vars, Ledger!vars, OffersMade, Taken, Told
<1> QED  BY <1>1, <1>2, <1>3, <1>4 DEF Next, Inventra

\* The purchase flow implements OrderLedger, whatever overlaps, fails, lands
\* late or crashes.
THEOREM LedgerIsKept == Spec => KeepsLedger
<1>1. Init => Ledger!Init
  BY InitLedger
<1>2. IInv /\ IInv' /\ [Next]_vars => [Ledger!Next]_(Ledger!vars)
  BY StepKeepsLedger
<1> QED  BY <1>1, <1>2, Invariance, PTL DEF Spec, KeepsLedger, Ledger!Spec

=============================================================================
