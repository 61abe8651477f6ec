------------------------ MODULE InventraCache_proofs ------------------------
(***************************************************************************)
(* The staleness bound of InventraCache and the condition under which its  *)
(* invalidation keeps its promise, for any keys, readers, buyers and TTLs. *)
(***************************************************************************)
EXTENDS InventraCache, TLAPS

-----------------------------------------------------------------------------
\* A version that has not been replaced has no age.
CurrentInv == \A v \in Version : v >= version => age[v] = 0

\* An answer in hand is at most as old as the time it has been in hand; what
\* an entry has left to live and the age of its version share one budget.
AgeInv ==
    /\ \A k \in Key : cache[k].ttl > 0 =>
          age[cache[k].version] + cache[k].ttl <= Life(cache[k].version) + MaxLag
    /\ \A r \in Reader : read[r].at = "answered" => age[read[r].got] <= read[r].lag
    /\ BoundedStaleness

\* Versions a history variable holds have existed.
OrderInv ==
    /\ promised <= version
    /\ \A b \in Buyer : buy[b].made <= version
    /\ \A r \in Reader : read[r].floor <= promised

\* Without a mishap no answer in hand predates a deduction that is not fully
\* invalidated yet, and such a deduction's older entries are among its victims
\* as soon as their family has been scanned.
FreshInv ==
    mishaps = {} =>
        /\ \A k \in Key : cache[k].ttl > 0 => cache[k].version >= promised
        /\ \A r \in Reader : read[r].at = "answered" =>
              /\ read[r].got >= promised
              /\ \A b \in Buyer : read[r].got >= buy[b].made
        /\ \A b \in Buyer, k \in Key :
              \/ cache[k].ttl = 0
              \/ cache[k].version >= buy[b].made
              \/ k \in buy[b].victims
              \/ buy[b].at = "deducted"
              \/ buy[b].at = "scanning" /\ k \in ListKey
        /\ NoLaterReadStale

IdleInv == \A b \in Buyer : buy[b].at = "idle" => buy[b].made = 0

IInv == TypeOK /\ CurrentInv /\ AgeInv /\ OrderInv /\ FreshInv /\ IdleInv

-----------------------------------------------------------------------------
\* An entry's life is positive and no longer than the TTL.
LEMMA LifeFacts ==
    /\ \A v \in Version : Life(v) \in 1..Ttl
    /\ Ttl \in Nat /\ MaxLag \in Nat /\ LastVersion \in Nat
    /\ Version \subseteq Nat /\ 0 \in Version
BY TtlAssumption, LagAssumption, VersionAssumption DEF Life, Version

\* The numbers behind the records are natural numbers.
LEMMA Numbers ==
    ASSUME TypeOK
    PROVE  /\ version \in Nat /\ promised \in Nat
           /\ \A v \in Version : v \in Nat /\ Life(v) \in Nat /\ age[v] \in Nat
           /\ \A k \in Key : /\ cache[k].version \in Version /\ cache[k].version \in Nat
                             /\ cache[k].ttl \in Nat
           /\ \A r \in Reader : /\ read[r].got \in Version /\ read[r].got \in Nat
                                /\ read[r].floor \in Nat
                                /\ read[r].lag \in Nat /\ read[r].lag <= MaxLag
           /\ \A b \in Buyer : buy[b].made \in Version /\ buy[b].made \in Nat
<1> USE LifeFacts
<1>1. /\ version \in Nat /\ promised \in Nat
      /\ \A v \in Version : v \in Nat /\ Life(v) \in Nat /\ age[v] \in Nat
  BY DEF TypeOK
<1>2. \A k \in Key : /\ cache[k].version \in Version /\ cache[k].version \in Nat
                     /\ cache[k].ttl \in Nat
  <2> TAKE k \in Key
  <2>1. cache[k] \in Entry
    BY DEF TypeOK
  <2>2. cache[k].version \in Version /\ cache[k].ttl \in 0..Ttl
    BY <2>1 DEF Entry
  <2> QED  BY <2>2, TtlAssumption DEF Version
<1>3. \A r \in Reader : /\ read[r].got \in Version /\ read[r].got \in Nat
                        /\ read[r].floor \in Nat
                        /\ read[r].lag \in Nat /\ read[r].lag <= MaxLag
  <2> TAKE r \in Reader
  <2>1. read[r] \in ReadState
    BY DEF TypeOK
  <2>2. read[r].got \in Version /\ read[r].floor \in Version /\ read[r].lag \in 0..MaxLag
    BY <2>1 DEF ReadState
  <2> QED  BY <2>2, LagAssumption DEF Version
<1>4. \A b \in Buyer : buy[b].made \in Version /\ buy[b].made \in Nat
  BY DEF TypeOK, BuyState
<1> QED  BY <1>1, <1>2, <1>3, <1>4

\* One reader or one buyer moves: it is enough to type its new state.
LEMMA ReadTyped ==
    ASSUME NEW r \in Reader, TypeOK, UNCHANGED <<version, age, cache, buy, promised, mishaps>>,
           read' = [read EXCEPT ![r] = read'[r]], read'[r] \in ReadState
    PROVE  TypeOK'
BY DEF TypeOK

\* The victims of an invalidation are keys.
LEMMA BuyTyped ==
    ASSUME NEW b \in Buyer, buy \in [Buyer -> BuyState],
           buy' = [buy EXCEPT ![b] = buy'[b]], buy'[b] \in BuyState
    PROVE  buy' \in [Buyer -> BuyState]
OBVIOUS

\* The cache starts empty and nothing has been promised.
LEMMA InitIInv == Init => IInv
<1> SUFFICES ASSUME Init PROVE IInv
  OBVIOUS
<1> USE LifeFacts DEF Init, IdleRead, IdleBuy, Miss
<1>1. TypeOK
  BY KeyAssumption DEF TypeOK, Entry, ReadState, BuyState
<1>2. CurrentInv /\ AgeInv /\ OrderInv
  BY DEF CurrentInv, AgeInv, OrderInv, BoundedStaleness
<1>3. FreshInv /\ IdleInv
  BY DEF FreshInv, IdleInv, NoLaterReadStale
<1> QED  BY <1>1, <1>2, <1>3 DEF IInv

\* A hit hands on what the entry holds; its age is bounded by the life it has
\* used up.
LEMMA HitStep ==
    ASSUME NEW r \in Reader, NEW k \in Key, IInv, Hit(r, k)
    PROVE  IInv'
<1> USE LifeFacts DEF IInv
<1>1. TypeOK'
  <2>1. read[r] \in ReadState /\ read' = [read EXCEPT ![r] = read'[r]]
    BY DEF Hit, IdleRead, TypeOK
  <2>2. cache[k].version \in Version /\ promised \in Version
    BY Numbers DEF TypeOK
  <2>3. read'[r] = [at |-> "served", key |-> DetailKey, got |-> cache[k].version,
                    lag |-> 0, floor |-> promised]
    BY DEF Hit, IdleRead, TypeOK
  <2>4. read'[r] \in ReadState
    BY <2>2, <2>3, KeyAssumption DEF ReadState
  <2> QED  BY <2>1, <2>4, ReadTyped DEF Hit
<1>2. CurrentInv'
  BY DEF Hit, IdleRead, TypeOK, CurrentInv, Version
<1>3. AgeInv'
  BY DEF Hit, IdleRead, TypeOK, AgeInv, CurrentInv, BoundedStaleness, Entry, ReadState
<1>4. OrderInv'
  BY DEF Hit, IdleRead, TypeOK, OrderInv, IdleInv, Version, ReadState, BuyState
<1>5. FreshInv'
  BY DEF Hit, IdleRead, TypeOK, FreshInv, OrderInv, IdleInv, NoLaterReadStale, Entry, ListKey, ReadState, BuyState
<1>6. IdleInv'
  BY DEF Hit, IdleRead, TypeOK, IdleInv
<1> QED  BY <1>1, <1>2, <1>3, <1>4, <1>5, <1>6

\* A read that goes to Inventra holds nothing yet.
LEMMA MissOrErrorStep ==
    ASSUME NEW r \in Reader, NEW k \in Key, IInv, MissOrError(r, k)
    PROVE  IInv'
<1> USE LifeFacts DEF IInv
<1>1. TypeOK'
  <2>1. read[r] \in ReadState /\ read' = [read EXCEPT ![r] = read'[r]]
    BY DEF MissOrError, IdleRead, TypeOK
  <2>2. read'[r] = [at |-> "asking", key |-> k, got |-> 0, lag |-> 0,
                    floor |-> promised]
    BY DEF MissOrError, IdleRead, TypeOK
  <2>3. read'[r] \in ReadState
    BY <2>2 DEF ReadState, TypeOK
  <2> QED  BY <2>1, <2>3, ReadTyped DEF MissOrError
<1>2. CurrentInv'
  BY DEF MissOrError, IdleRead, TypeOK, CurrentInv, Version
<1>3. AgeInv'
  BY DEF MissOrError, IdleRead, TypeOK, AgeInv, CurrentInv, BoundedStaleness, Entry, ReadState
<1>4. OrderInv'
  BY DEF MissOrError, IdleRead, TypeOK, OrderInv, IdleInv, Version, ReadState, BuyState
<1>5. FreshInv'
  BY DEF MissOrError, IdleRead, TypeOK, FreshInv, OrderInv, IdleInv, NoLaterReadStale, Entry, ListKey, ReadState, BuyState
<1>6. IdleInv'
  BY DEF MissOrError, IdleRead, TypeOK, IdleInv
<1> QED  BY <1>1, <1>2, <1>3, <1>4, <1>5, <1>6

\* An answer is the current version, which has no age.
LEMMA AnswerStep ==
    ASSUME NEW r \in Reader, IInv, Answer(r)
    PROVE  IInv'
<1> USE LifeFacts DEF IInv
<1>1. TypeOK'
  <2>1. read[r] \in ReadState /\ read' = [read EXCEPT ![r] = read'[r]]
    BY DEF Answer, TypeOK
  <2>2. read'[r] \in ReadState
    BY <2>1, KeyAssumption DEF Answer, TypeOK, ReadState, Entry
  <2> QED  BY <2>1, <2>2, ReadTyped DEF Answer
<1>2. CurrentInv'
  BY DEF Answer, TypeOK, CurrentInv, Version
<1>3. AgeInv'
  BY DEF Answer, TypeOK, AgeInv, CurrentInv, BoundedStaleness, Entry, ReadState
<1>4. OrderInv'
  BY DEF Answer, TypeOK, OrderInv, IdleInv, Version, ReadState, BuyState
<1>5. FreshInv'
  BY DEF Answer, TypeOK, FreshInv, OrderInv, IdleInv, NoLaterReadStale, Entry, ListKey, ReadState, BuyState
<1>6. IdleInv'
  BY DEF Answer, TypeOK, IdleInv
<1> QED  BY <1>1, <1>2, <1>3, <1>4, <1>5, <1>6

\* A failing fetch leaves the cache alone.
LEMMA FetchFailsStep ==
    ASSUME NEW r \in Reader, IInv, FetchFails(r)
    PROVE  IInv'
<1> USE LifeFacts DEF IInv
<1>1. TypeOK'
  <2>1. IdleRead \in ReadState
    BY KeyAssumption DEF IdleRead, ReadState
  <2> QED  BY <2>1 DEF FetchFails, TypeOK
<1>2. CurrentInv'
  BY DEF FetchFails, IdleRead, TypeOK, CurrentInv, Version
<1>3. AgeInv'
  BY DEF FetchFails, IdleRead, TypeOK, AgeInv, CurrentInv, BoundedStaleness, Entry, ReadState
<1>4. OrderInv'
  BY DEF FetchFails, IdleRead, TypeOK, OrderInv, IdleInv, Version, ReadState, BuyState
<1>5. FreshInv'
  BY DEF FetchFails, IdleRead, TypeOK, FreshInv, OrderInv, IdleInv, NoLaterReadStale, Entry, ListKey, ReadState, BuyState
<1>6. IdleInv'
  BY DEF FetchFails, IdleRead, TypeOK, IdleInv
<1> QED  BY <1>1, <1>2, <1>3, <1>4, <1>5, <1>6

\* What is stored is at most one client lag old, and no older than what had been
\* promised when it was fetched, or a race is on record.
LEMMA StoreStep ==
    ASSUME NEW r \in Reader, IInv, Store(r)
    PROVE  IInv'
<1> USE LifeFacts DEF IInv
<1>1. TypeOK'
  <2>1. read[r] \in ReadState /\ read' = [read EXCEPT ![r] = read'[r]]
    BY DEF Store, TypeOK
  <2>2. read'[r] \in ReadState
    BY <2>1, KeyAssumption DEF Store, TypeOK, ReadState
  <2>7. read[r].got \in Version
    BY Numbers
  <2>8. Life(read[r].got) \in 0..Ttl
    <3>1. Life(read[r].got) \in 1..Ttl
      BY <2>7
    <3> QED  BY <3>1
  <2>3. [version |-> read[r].got, ttl |-> Life(read[r].got)] \in Entry
    BY <2>7, <2>8 DEF Entry
  <2>4. cache' \in [Key -> Entry]
    BY <2>1, <2>3 DEF Store, TypeOK, ReadState
  <2>5. read' \in [Reader -> ReadState]
    BY <2>1, <2>2 DEF TypeOK
  <2> QED  BY <2>4, <2>5 DEF Store, TypeOK
<1>2. CurrentInv'
  BY DEF Store, TypeOK, CurrentInv, Version
<1>3. AgeInv'
  <2>1. /\ read[r] \in ReadState /\ read[r].at = "answered"
        /\ age[read[r].got] <= read[r].lag
    BY DEF Store, TypeOK, AgeInv
  <2>7. /\ age[read[r].got] \in Nat /\ Life(read[r].got) \in Nat
        /\ read[r].lag \in Nat /\ read[r].lag <= MaxLag
    BY Numbers
  <2>2. age[read[r].got] + Life(read[r].got) <= Life(read[r].got) + MaxLag
    BY <2>1, <2>7
  <2>3. \A k \in Key : cache'[k].ttl > 0 =>
          age[cache'[k].version] + cache'[k].ttl <= Life(cache'[k].version) + MaxLag
    BY <2>1, <2>2 DEF Store, TypeOK, AgeInv, ReadState
  <2>4. \A x \in Reader : read'[x].at = "answered" => age[read'[x].got] <= read'[x].lag
    BY DEF Store, TypeOK, AgeInv
  <2>5. age[read[r].got] <= Life(read[r].got) + MaxLag
    BY <2>1, <2>7
  <2>6. \A x \in Reader : read'[x].at = "served" =>
          age[read'[x].got] <= Life(read'[x].got) + MaxLag
    BY <2>1, <2>5 DEF Store, TypeOK, AgeInv, BoundedStaleness, ReadState
  <2> QED  BY <2>3, <2>4, <2>6 DEF Store, AgeInv, BoundedStaleness
<1>4. OrderInv'
  BY DEF Store, TypeOK, OrderInv, IdleInv, Version, ReadState, BuyState
<1>5. FreshInv'
  <2> SUFFICES ASSUME mishaps = {} PROVE FreshInv'
    BY DEF Store, FreshInv
  <2>1. /\ read[r] \in ReadState /\ read[r].at = "answered"
        /\ read[r].got >= promised /\ read[r].floor <= promised
        /\ \A b \in Buyer : read[r].got >= buy[b].made
    BY DEF Store, TypeOK, FreshInv, OrderInv
  <2>2. \A k \in Key : \/ cache'[k] = cache[k]
                        \/ cache'[k].version = read[r].got
    BY DEF Store, TypeOK
  <2>3. \A k \in Key : cache'[k].ttl > 0 => cache'[k].version >= promised
    BY <2>1, <2>2 DEF FreshInv
  <2>4. \A b \in Buyer, k \in Key :
              \/ cache'[k].ttl = 0
              \/ cache'[k].version >= buy[b].made
              \/ k \in buy[b].victims
              \/ buy[b].at = "deducted"
              \/ buy[b].at = "scanning" /\ k \in ListKey
    BY <2>1, <2>2 DEF FreshInv
  <2>5. read[r].got >= read[r].floor
    BY <2>1, Numbers
  <2>6. \A x \in Reader : read'[x].at = "served" => read'[x].got >= read'[x].floor
    BY <2>1, <2>5 DEF Store, TypeOK, FreshInv, NoLaterReadStale, ReadState
  <2>7. \A x \in Reader : read'[x].at = "answered" => read'[x] = read[x]
    BY DEF Store, TypeOK
  <2> QED  BY <2>3, <2>4, <2>6, <2>7 DEF Store, FreshInv, NoLaterReadStale
<1>6. IdleInv'
  BY DEF Store, TypeOK, IdleInv
<1> QED  BY <1>1, <1>2, <1>3, <1>4, <1>5, <1>6

\* The caller is done with the answer.
LEMMA ForgetStep ==
    ASSUME NEW r \in Reader, IInv, Forget(r)
    PROVE  IInv'
<1> USE LifeFacts DEF IInv
<1>1. TypeOK'
  <2>1. IdleRead \in ReadState
    BY KeyAssumption DEF IdleRead, ReadState
  <2> QED  BY <2>1 DEF Forget, TypeOK
<1>2. CurrentInv'
  BY DEF Forget, IdleRead, TypeOK, CurrentInv, Version
<1>3. AgeInv'
  BY DEF Forget, IdleRead, TypeOK, AgeInv, CurrentInv, BoundedStaleness, Entry, ReadState
<1>4. OrderInv'
  BY DEF Forget, IdleRead, TypeOK, OrderInv, IdleInv, Version, ReadState, BuyState
<1>5. FreshInv'
  BY DEF Forget, IdleRead, TypeOK, FreshInv, OrderInv, IdleInv, NoLaterReadStale, Entry, ListKey, ReadState, BuyState
<1>6. IdleInv'
  BY DEF Forget, IdleRead, TypeOK, IdleInv
<1> QED  BY <1>1, <1>2, <1>3, <1>4, <1>5, <1>6

\* A deduction makes a new current version; a read that holds the old one is
\* on record as a race.
LEMMA DeductStep ==
    ASSUME NEW b \in Buyer, IInv, Deduct(b)
    PROVE  IInv'
<1> USE LifeFacts DEF IInv
<1>1. TypeOK'
  <2>1. buy[b] \in BuyState /\ buy' = [buy EXCEPT ![b] = buy'[b]]
    BY DEF Deduct, TypeOK
  <2>2. version + 1 \in Version
    BY DEF Deduct, TypeOK, Version
  <2>3. buy'[b] = [buy[b] EXCEPT !.at = "deducted", !.made = version + 1]
    BY DEF Deduct, TypeOK
  <2>4. buy'[b] \in BuyState
    BY <2>1, <2>2, <2>3 DEF BuyState
  <2>5. buy' \in [Buyer -> BuyState]
    BY <2>1, <2>4, BuyTyped DEF TypeOK
  <2> QED  BY <2>2, <2>5 DEF Deduct, TypeOK
<1>2. CurrentInv'
  BY DEF Deduct, Racing, TypeOK, CurrentInv, Version
<1>3. AgeInv'
  BY DEF Deduct, Racing, TypeOK, AgeInv, CurrentInv, BoundedStaleness, Entry, ReadState
<1>4. OrderInv'
  BY DEF Deduct, Racing, TypeOK, OrderInv, IdleInv, Version, ReadState, BuyState
<1>5. FreshInv'
  BY DEF Deduct, Racing, TypeOK, FreshInv, OrderInv, IdleInv, NoLaterReadStale, Entry, ListKey, ReadState, BuyState
<1>6. IdleInv'
  BY DEF Deduct, Racing, TypeOK, IdleInv
<1> QED  BY <1>1, <1>2, <1>3, <1>4, <1>5, <1>6

\* A lost answer invalidates nothing and promises nothing.
LEMMA AnswerLostStep ==
    ASSUME NEW b \in Buyer, IInv, AnswerLost(b)
    PROVE  IInv'
<1> USE LifeFacts DEF IInv
<1>1. TypeOK'
  <2>1. IdleBuy \in BuyState
    BY DEF IdleBuy, BuyState
  <2> QED  BY <2>1 DEF AnswerLost, TypeOK
<1>2. CurrentInv'
  BY DEF AnswerLost, IdleBuy, TypeOK, CurrentInv, Version
<1>3. AgeInv'
  BY DEF AnswerLost, IdleBuy, TypeOK, AgeInv, CurrentInv, BoundedStaleness, Entry, ReadState
<1>4. OrderInv'
  BY DEF AnswerLost, IdleBuy, TypeOK, OrderInv, IdleInv, Version, ReadState, BuyState
<1>5. FreshInv'
  <2>1. \A c \in Buyer : buy'[c] = buy[c] \/ buy'[c].made = 0
    BY DEF AnswerLost, TypeOK, IdleBuy
  <2>2. \A k \in Key : cache[k].version \in Nat
    BY DEF TypeOK, Entry
  <2>3. \A x \in Reader : read[x].got \in Nat
    BY DEF TypeOK, ReadState
  <2> QED  BY <2>1, <2>2, <2>3 DEF AnswerLost, FreshInv, NoLaterReadStale
<1>6. IdleInv'
  BY DEF AnswerLost, IdleBuy, TypeOK, IdleInv
<1> QED  BY <1>1, <1>2, <1>3, <1>4, <1>5, <1>6

\* Up to the scan, older inventory entries are among the victims.
LEMMA ScanInventoryStep ==
    ASSUME NEW b \in Buyer, IInv, ScanInventory(b)
    PROVE  IInv'
<1> USE LifeFacts DEF IInv
<1>1. TypeOK'
  <2>1. buy[b] \in BuyState /\ buy' = [buy EXCEPT ![b] = buy'[b]]
    BY DEF ScanInventory, Present, TypeOK
  <2>2. buy'[b] \in BuyState
    BY <2>1, KeyAssumption DEF ScanInventory, Present, TypeOK, BuyState, ListKey, Version
  <2> QED  BY <2>1, <2>2, BuyTyped DEF ScanInventory, Present, TypeOK, Version
<1>2. CurrentInv'
  BY DEF ScanInventory, Present, TypeOK, CurrentInv, Version
<1>3. AgeInv'
  BY DEF ScanInventory, Present, TypeOK, AgeInv, CurrentInv, BoundedStaleness, Entry, ReadState
<1>4. OrderInv'
  BY DEF ScanInventory, Present, TypeOK, OrderInv, IdleInv, Version, ReadState, BuyState
<1>5. FreshInv'
  BY KeyAssumption DEF ScanInventory, Present, TypeOK, FreshInv, OrderInv, IdleInv, NoLaterReadStale, Entry, ListKey, ReadState, BuyState
<1>6. IdleInv'
  BY DEF ScanInventory, Present, TypeOK, IdleInv
<1> QED  BY <1>1, <1>2, <1>3, <1>4, <1>5, <1>6

\* Up to the scan, older list entries are among the victims.
LEMMA ScanListsStep ==
    ASSUME NEW b \in Buyer, IInv, ScanLists(b)
    PROVE  IInv'
<1> USE LifeFacts DEF IInv
<1>1. TypeOK'
  <2>1. buy[b] \in BuyState /\ buy' = [buy EXCEPT ![b] = buy'[b]]
    BY DEF ScanLists, Present, TypeOK
  <2>2. buy'[b] \in BuyState
    BY <2>1, KeyAssumption DEF ScanLists, Present, TypeOK, BuyState, ListKey, Version
  <2> QED  BY <2>1, <2>2, BuyTyped DEF ScanLists, Present, TypeOK, Version
<1>2. CurrentInv'
  BY DEF ScanLists, Present, TypeOK, CurrentInv, Version
<1>3. AgeInv'
  BY DEF ScanLists, Present, TypeOK, AgeInv, CurrentInv, BoundedStaleness, Entry, ReadState
<1>4. OrderInv'
  BY DEF ScanLists, Present, TypeOK, OrderInv, IdleInv, Version, ReadState, BuyState
<1>5. FreshInv'
  BY KeyAssumption DEF ScanLists, Present, TypeOK, FreshInv, OrderInv, IdleInv, NoLaterReadStale, Entry, ListKey, ReadState, BuyState
<1>6. IdleInv'
  BY DEF ScanLists, Present, TypeOK, IdleInv
<1> QED  BY <1>1, <1>2, <1>3, <1>4, <1>5, <1>6

\* After the DELETE no entry is older than what is now promised, or there has been
\* a mishap.
LEMMA DeleteStep ==
    ASSUME NEW b \in Buyer, IInv, Delete(b)
    PROVE  IInv'
<1> USE LifeFacts DEF IInv
<1>1. TypeOK'
  <2>1. buy[b] \in BuyState /\ buy' = [buy EXCEPT ![b] = IdleBuy]
    BY DEF Delete, TypeOK
  <2>2. IdleBuy \in BuyState /\ Miss \in Entry
    BY DEF IdleBuy, BuyState, Miss, Entry
  <2>3. promised' \in Version
    BY <2>1 DEF Delete, TypeOK, BuyState
  <2> QED  BY <2>1, <2>2, <2>3 DEF Delete, TypeOK
<1>2. CurrentInv'
  BY DEF Delete, IdleBuy, Miss, TypeOK, CurrentInv, Version
<1>3. AgeInv'
  BY DEF Delete, IdleBuy, Miss, TypeOK, AgeInv, CurrentInv, BoundedStaleness, Entry, ReadState
<1>4. OrderInv'
  <2>1. promised' \in Nat /\ promised <= promised' /\ promised' <= version
    BY DEF Delete, TypeOK, BuyState, OrderInv
  <2>2. \A c \in Buyer : buy'[c].made <= version
    BY DEF Delete, IdleBuy, TypeOK, BuyState, OrderInv
  <2>3. \A r \in Reader : read[r].floor <= promised'
    BY <2>1, Numbers DEF OrderInv
  <2> QED  BY <2>1, <2>2, <2>3 DEF Delete, OrderInv
<1>5. FreshInv'
  <2> SUFFICES ASSUME mishaps = {} PROVE FreshInv'
    BY DEF Delete, FreshInv
  <2>1. buy[b] \in BuyState /\ buy[b].at = "deleting"
    BY DEF Delete, TypeOK
  <2>2. \A k \in Key : cache'[k].ttl > 0 => cache'[k] = cache[k] /\ k \notin buy[b].victims
    BY DEF Delete, Miss
  <2>3. \A k \in Key : cache'[k].ttl > 0 => cache[k].version >= buy[b].made
    BY <2>1, <2>2 DEF FreshInv, TypeOK, Entry
  <2>4. \A k \in Key : cache'[k].ttl > 0 => cache'[k].version >= promised'
    BY <2>2, <2>3 DEF Delete, FreshInv
  <2>5. \A x \in Reader : read[x].at = "answered" =>
              read[x].got >= promised' /\ \A c \in Buyer : read[x].got >= buy[c].made
    BY DEF Delete, FreshInv
  <2>6. \A c \in Buyer : buy'[c] = buy[c] \/ buy'[c].made = 0
    BY DEF Delete, TypeOK, IdleBuy
  <2>7. \A k \in Key : cache'[k].ttl = 0 \/ (cache'[k] = cache[k] /\ cache[k].ttl > 0)
    <3> TAKE k \in Key
    <3>1. cache[k].ttl \in Nat
      BY Numbers
    <3>2. cache'[k] = Miss \/ cache'[k] = cache[k]
      BY DEF Delete
    <3> QED  BY <3>1, <3>2 DEF Miss
  <2>8. \A c \in Buyer, k \in Key :
              \/ cache'[k].ttl = 0
              \/ cache'[k].version >= buy'[c].made
              \/ k \in buy'[c].victims
              \/ buy'[c].at = "deducted"
              \/ buy'[c].at = "scanning" /\ k \in ListKey
    <3> SUFFICES ASSUME NEW c \in Buyer, NEW k \in Key, cache'[k].ttl # 0
                 PROVE  \/ cache'[k].version >= buy'[c].made
                        \/ k \in buy'[c].victims
                        \/ buy'[c].at = "deducted"
                        \/ buy'[c].at = "scanning" /\ k \in ListKey
      OBVIOUS
    <3>1. cache'[k] = cache[k] /\ cache[k].ttl > 0 /\ cache[k].ttl # 0
      BY <2>7, Numbers
    <3>2. CASE buy'[c] = buy[c]
      BY <3>1, <3>2 DEF FreshInv
    <3>3. CASE buy'[c].made = 0
      BY <3>1, <3>3, Numbers
    <3> QED  BY <2>6, <3>2, <3>3
  <2>9. \A x \in Reader : read[x].at = "answered" =>
              \A c \in Buyer : read[x].got >= buy'[c].made
    BY <2>5, <2>6, Numbers
  <2> QED  BY <2>4, <2>5, <2>8, <2>9 DEF Delete, FreshInv, NoLaterReadStale
<1>6. IdleInv'
  BY DEF Delete, IdleBuy, Miss, TypeOK, IdleInv
<1> QED  BY <1>1, <1>2, <1>3, <1>4, <1>5, <1>6

\* An invalidation that is given up is on record.
LEMMA InvalidationFailsStep ==
    ASSUME NEW b \in Buyer, IInv, InvalidationFails(b)
    PROVE  IInv'
<1> USE LifeFacts DEF IInv
<1>1. TypeOK'
  <2>1. buy[b] \in BuyState /\ buy' = [buy EXCEPT ![b] = IdleBuy]
    BY DEF InvalidationFails, TypeOK
  <2>2. IdleBuy \in BuyState
    BY DEF IdleBuy, BuyState
  <2>3. promised' \in Version
    BY <2>1 DEF InvalidationFails, TypeOK, BuyState
  <2> QED  BY <2>1, <2>2, <2>3 DEF InvalidationFails, TypeOK
<1>2. CurrentInv'
  BY DEF InvalidationFails, IdleBuy, TypeOK, CurrentInv, Version
<1>3. AgeInv'
  BY DEF InvalidationFails, IdleBuy, TypeOK, AgeInv, CurrentInv, BoundedStaleness, Entry, ReadState
<1>4. OrderInv'
  <2>1. promised' \in Nat /\ promised <= promised' /\ promised' <= version
    BY DEF InvalidationFails, TypeOK, BuyState, OrderInv
  <2>2. \A c \in Buyer : buy'[c].made <= version
    BY DEF InvalidationFails, IdleBuy, TypeOK, BuyState, OrderInv
  <2>3. \A r \in Reader : read[r].floor <= promised'
    BY <2>1, Numbers DEF OrderInv
  <2> QED  BY <2>1, <2>2, <2>3 DEF InvalidationFails, OrderInv
<1>5. FreshInv'
  BY DEF InvalidationFails, IdleBuy, TypeOK, FreshInv, OrderInv, IdleInv, NoLaterReadStale, Entry, ListKey, ReadState, BuyState
<1>6. IdleInv'
  BY DEF InvalidationFails, IdleBuy, TypeOK, IdleInv
<1> QED  BY <1>1, <1>2, <1>3, <1>4, <1>5, <1>6

\* Inventra's own changes promise nothing.
LEMMA ExternalChangeStep ==
    ASSUME IInv, ExternalChange
    PROVE  IInv'
<1> USE LifeFacts DEF IInv
<1>1. TypeOK'
  BY DEF ExternalChange, TypeOK, Version
<1>2. CurrentInv'
  BY DEF ExternalChange, TypeOK, CurrentInv, Version
<1>3. AgeInv'
  BY DEF ExternalChange, TypeOK, AgeInv, CurrentInv, BoundedStaleness, Entry, ReadState
<1>4. OrderInv'
  BY DEF ExternalChange, TypeOK, OrderInv, IdleInv, Version, ReadState, BuyState
<1>5. FreshInv'
  BY DEF ExternalChange, TypeOK, FreshInv, OrderInv, IdleInv, NoLaterReadStale, Entry, ListKey, ReadState, BuyState
<1>6. IdleInv'
  BY DEF ExternalChange, TypeOK, IdleInv
<1> QED  BY <1>1, <1>2, <1>3, <1>4, <1>5, <1>6

\* A tick ages a version by as much as it takes from the entries that hold it.
LEMMA TickStep ==
    ASSUME IInv, Tick
    PROVE  IInv'
<1> USE LifeFacts DEF IInv
<1>1. TypeOK'
  <2>1. age' \in [Version -> 0..(Ttl + MaxLag + 1)]
    BY DEF Tick, TypeOK
  <2>2. \A k \in Key : cache'[k] \in Entry
    BY DEF Tick, TypeOK, Entry, Miss
  <2>3. \A r \in Reader : read'[r] \in ReadState
    BY DEF Tick, TypeOK, ReadState
  <2> QED  BY <2>1, <2>2, <2>3 DEF Tick, TypeOK
<1>2. CurrentInv'
  BY DEF Tick, Miss, TypeOK, CurrentInv, Version
<1>3. AgeInv'
  BY DEF Tick, Miss, TypeOK, AgeInv, CurrentInv, BoundedStaleness, Entry, ReadState
<1>4. OrderInv'
  BY DEF Tick, Miss, TypeOK, OrderInv, IdleInv, Version, ReadState, BuyState
<1>5. FreshInv'
  BY DEF Tick, Miss, TypeOK, FreshInv, OrderInv, IdleInv, NoLaterReadStale, Entry, ListKey, ReadState, BuyState
<1>6. IdleInv'
  BY DEF Tick, Miss, TypeOK, IdleInv
<1> QED  BY <1>1, <1>2, <1>3, <1>4, <1>5, <1>6

\* Every step of the cache, its users and Inventra keeps the invariant.
LEMMA StepIInv == IInv /\ [Next]_vars => IInv'
<1> SUFFICES ASSUME IInv, [Next]_vars PROVE IInv'
  OBVIOUS
<1>1. CASE Next
  BY <1>1, HitStep, MissOrErrorStep, AnswerStep, FetchFailsStep, StoreStep,
     ForgetStep, DeductStep, AnswerLostStep, ScanInventoryStep, ScanListsStep,
     DeleteStep, InvalidationFailsStep, ExternalChangeStep, TickStep DEF Next
<1>2. CASE UNCHANGED vars
  BY <1>2 DEF vars, IInv, TypeOK, CurrentInv, AgeInv, BoundedStaleness, OrderInv,
              FreshInv, NoLaterReadStale, IdleInv
<1> QED  BY <1>1, <1>2

\* The invariant holds in every reachable state.
THEOREM Invariance == Spec => []IInv
  BY InitIInv, StepIInv, PTL DEF Spec

-----------------------------------------------------------------------------
\* Every variable keeps its type; a live entry never outlives the product TTL.
THEOREM TypeCorrect == Spec => []TypeOK
<1>1. IInv => TypeOK
  BY DEF IInv
<1> QED  BY <1>1, Invariance, PTL

\* No read serves data that stopped being true more than its TTL and one
\* client lag ago, whatever races, fails or is never invalidated.
THEOREM StalenessIsBounded == Spec => []BoundedStaleness
<1>1. IInv => BoundedStaleness
  BY DEF IInv, AgeInv
<1> QED  BY <1>1, Invariance, PTL

\* Without a racing read or a failed invalidation, no read that begins after
\* an invalidation serves data from before its deduction.
THEOREM InvalidationKeepsPromise == Spec => []FreshUnlessMishap
<1>1. IInv => FreshUnlessMishap
  BY DEF IInv, FreshInv, FreshUnlessMishap
<1> QED  BY <1>1, Invariance, PTL

=============================================================================
