--------------------------- MODULE InventraCache ----------------------------
(***************************************************************************)
(* The Redis cache-aside layer in front of Inventra for what it shows of   *)
(* one product: integrations/cache.py (read_through and                    *)
(* invalidate_product_stock) under the read tools and stock_out_product.   *)
(*                                                                         *)
(* Inventra's data is a version number.  Reads and deductions are asyncio  *)
(* tasks that interleave at every Redis or HTTP await.  Time passes in     *)
(* ticks; an entry carries the ticks it has left.                          *)
(***************************************************************************)
EXTENDS Naturals, FiniteSets

CONSTANTS
    Key,            \* the cache keys whose entries embed the product's stock
    DetailKey,      \* ... of them the product-detail key,
    InventoryKey,   \* ... and those of the family inv:v1:inventory:*
    Reader,         \* concurrent reads
    Buyer,          \* concurrent stock-outs
    LastVersion,    \* bound: Inventra changes at most this often
    EmptyVersion,   \* versions in which list and inventory reads come up empty
    Ttl,            \* cache_ttl_products_seconds, in ticks
    NegativeTtl,    \* cache_ttl_negative_seconds, in ticks
    MaxLag,         \* ticks from Inventra's answer to the end of the SET
    Faults          \* the mishaps this instance may meet

ASSUME KeyAssumption == DetailKey \in Key /\ InventoryKey \subseteq Key \ {DetailKey}
ASSUME TtlAssumption == Ttl \in Nat \ {0} /\ NegativeTtl \in 1..Ttl
ASSUME LagAssumption == MaxLag \in Nat
ASSUME VersionAssumption == LastVersion \in Nat /\ EmptyVersion \subseteq 0..LastVersion
ASSUME FaultsAssumption == Faults \subseteq {"redis", "lost", "external"}

Version == 0..LastVersion
ListKey == Key \ (InventoryKey \cup {DetailKey})
Miss == [version |-> 0, ttl |-> 0]
Entry == [version : Version, ttl : 0..Ttl]
ReadState == [at : {"idle", "asking", "answered", "served"}, key : Key,
              got : Version, lag : 0..MaxLag, floor : Version]
BuyState == [at : {"idle", "deducted", "scanning", "deleting"}, made : Version,
             victims : SUBSET Key]

VARIABLES
    version,    \* Inventra's current version
    age,        \* ticks since each version stopped being current
    cache,      \* the entry under each key; ttl 0 is a miss
    read,       \* each reader: place, key, version in hand, ticks since the answer,
                \* and (history) what had been promised as it began
    buy,        \* each buyer: place, the version its deduction made, the victims
    promised,   \* history: the newest version some finished invalidation is for
    mishaps     \* history: what went wrong with invalidations so far

vars == <<version, age, cache, read, buy, promised, mishaps>>
IdleRead == [at |-> "idle", key |-> DetailKey, got |-> 0, lag |-> 0, floor |-> 0]
IdleBuy == [at |-> "idle", made |-> 0, victims |-> {}]

Init ==
    /\ version = 0
    /\ age = [v \in Version |-> 0]
    /\ cache = [k \in Key |-> Miss]
    /\ read = [r \in Reader |-> IdleRead]
    /\ buy = [b \in Buyer |-> IdleBuy]
    /\ promised = 0
    /\ mishaps = {}

-----------------------------------------------------------------------------
(***************************************************************************)
(* read_through                                                            *)
(***************************************************************************)

\* Mutant: a hit renews the entry's TTL.
HitRenews(r, k) ==
    /\ read[r].at = "idle"
    /\ cache[k].ttl > 0
    /\ cache' = [cache EXCEPT ![k].ttl = Ttl]
    /\ read' = [read EXCEPT ![r] = [IdleRead EXCEPT !.at = "served",
                                       !.got = cache[k].version, !.floor = promised]]
    /\ UNCHANGED <<version, age, buy, promised, mishaps>>

\* GET hits: the entry is served as it is, its TTL untouched.
Hit(r, k) ==
    /\ read[r].at = "idle"
    /\ cache[k].ttl > 0
    /\ read' = [read EXCEPT ![r] = [IdleRead EXCEPT !.at = "served",
                                       !.got = cache[k].version, !.floor = promised]]
    /\ UNCHANGED <<version, age, cache, buy, promised, mishaps>>

\* GET misses, or Redis fails, which reads as a miss: Inventra is asked.
MissOrError(r, k) ==
    /\ read[r].at = "idle"
    /\ cache[k].ttl = 0 \/ "redis" \in Faults
    /\ read' = [read EXCEPT ![r] = [IdleRead EXCEPT !.at = "asking", !.key = k,
                                       !.floor = promised]]
    /\ UNCHANGED <<version, age, cache, buy, promised, mishaps>>

\* Inventra answers with what it has now (a detail read of an absent product
\* is an error instead: 404).  A retried GET is answered again.
Answer(r) ==
    /\ read[r].at \in {"asking", "answered"}
    /\ ~(read[r].key = DetailKey /\ version \in EmptyVersion)
    /\ read' = [read EXCEPT ![r].at = "answered", ![r].got = version, ![r].lag = 0]
    /\ UNCHANGED <<version, age, cache, buy, promised, mishaps>>

\* The fetch raises: the error propagates and nothing is written.
FetchFails(r) ==
    /\ read[r].at \in {"asking", "answered"}
    /\ read' = [read EXCEPT ![r] = IdleRead]
    /\ UNCHANGED <<version, age, cache, buy, promised, mishaps>>

\* Mutant: the TTL set is one tick longer than the longest one configured.
LifeTooLong(v) == Ttl + 1

\* How long an entry for version v lives: an empty result only briefly.
Life(v) == IF v \in EmptyVersion THEN NegativeTtl ELSE Ttl

\* SET with the TTL; a failing Redis leaves the old entry.  The answer is
\* served either way.
Store(r) ==
    /\ read[r].at = "answered"
    /\ read' = [read EXCEPT ![r].at = "served", ![r].key = DetailKey, ![r].lag = 0]
    /\ \/ cache' = [cache EXCEPT ![read[r].key] =
                       [version |-> read[r].got, ttl |-> Life(read[r].got)]]
       \/ "redis" \in Faults /\ UNCHANGED cache
    /\ UNCHANGED <<version, age, buy, promised, mishaps>>

Forget(r) ==
    /\ read[r].at = "served"
    /\ read' = [read EXCEPT ![r] = IdleRead]
    /\ UNCHANGED <<version, age, cache, buy, promised, mishaps>>

-----------------------------------------------------------------------------
(***************************************************************************)
(* stock_out_product and invalidate_product_stock                          *)
(***************************************************************************)

\* A read that holds an answer Inventra is about to outdate.
Racing == \E r \in Reader : read[r].at = "answered"

\* Inventra applies the deduction.
Deduct(b) ==
    /\ buy[b].at = "idle"
    /\ version < LastVersion
    /\ version' = version + 1
    /\ buy' = [buy EXCEPT ![b].at = "deducted", ![b].made = version + 1]
    /\ mishaps' = IF Racing THEN mishaps \cup {"race"} ELSE mishaps
    /\ UNCHANGED <<age, cache, read, promised>>

\* Its answer is lost: a ToolError, and nothing is invalidated.
AnswerLost(b) ==
    /\ "lost" \in Faults
    /\ buy[b].at = "deducted"
    /\ buy' = [buy EXCEPT ![b] = IdleBuy]
    /\ UNCHANGED <<version, age, cache, read, promised, mishaps>>

Present(S) == {k \in S : cache[k].ttl > 0}

\* Two KEYS scans, one per family; the detail key is a victim in any case.
ScanInventory(b) ==
    /\ buy[b].at = "deducted"
    /\ buy' = [buy EXCEPT ![b].at = "scanning",
                          ![b].victims = {DetailKey} \cup Present(InventoryKey)]
    /\ UNCHANGED <<version, age, cache, read, promised, mishaps>>

\* Mutant: the list family is forgotten.
ScanNoLists(b) ==
    /\ buy[b].at = "scanning"
    /\ buy' = [buy EXCEPT ![b].at = "deleting"]
    /\ UNCHANGED <<version, age, cache, read, promised, mishaps>>

ScanLists(b) ==
    /\ buy[b].at = "scanning"
    /\ buy' = [buy EXCEPT ![b].at = "deleting",
                          ![b].victims = @ \cup Present(ListKey)]
    /\ UNCHANGED <<version, age, cache, read, promised, mishaps>>

\* One DELETE of all victims ends the invalidation.
Delete(b) ==
    /\ buy[b].at = "deleting"
    /\ cache' = [k \in Key |-> IF k \in buy[b].victims THEN Miss ELSE cache[k]]
    /\ promised' = IF buy[b].made > promised THEN buy[b].made ELSE promised
    /\ buy' = [buy EXCEPT ![b] = IdleBuy]
    /\ UNCHANGED <<version, age, read, mishaps>>

\* Any of the three commands fails: the invalidation is given up, silently.
InvalidationFails(b) ==
    /\ "redis" \in Faults
    /\ buy[b].at \in {"deducted", "scanning", "deleting"}
    /\ buy' = [buy EXCEPT ![b] = IdleBuy]
    /\ promised' = IF buy[b].made > promised THEN buy[b].made ELSE promised
    /\ mishaps' = mishaps \cup {"redis"}
    /\ UNCHANGED <<version, age, cache, read>>

-----------------------------------------------------------------------------
\* Inventra changes on its own: another channel sells, an operator restocks.
ExternalChange ==
    /\ "external" \in Faults
    /\ version < LastVersion
    /\ version' = version + 1
    /\ UNCHANGED <<age, cache, read, buy, promised, mishaps>>

\* Time passes, unless an answered read has used up its client timeouts.
\* The age of a version is counted as far as the staleness bound reaches.
Tick ==
    /\ \A r \in Reader : read[r].at = "answered" => read[r].lag < MaxLag
    /\ \A r \in Reader : read[r].at # "served"
    /\ age' = [v \in Version |-> IF v < version /\ age[v] <= Ttl + MaxLag
                                 THEN age[v] + 1 ELSE age[v]]
    /\ cache' = [k \in Key |-> IF cache[k].ttl <= 1 THEN Miss
                               ELSE [cache[k] EXCEPT !.ttl = @ - 1]]
    /\ read' = [r \in Reader |-> IF read[r].at = "answered"
                                 THEN [read[r] EXCEPT !.lag = @ + 1] ELSE read[r]]
    /\ UNCHANGED <<version, buy, promised, mishaps>>

Next ==
    \/ \E r \in Reader :
          \/ \E k \in Key : Hit(r, k) \/ MissOrError(r, k)
          \/ Answer(r) \/ FetchFails(r) \/ Store(r) \/ Forget(r)
    \/ \E b \in Buyer :
          \/ Deduct(b) \/ AnswerLost(b) \/ ScanInventory(b) \/ ScanLists(b)
          \/ Delete(b) \/ InvalidationFails(b)
    \/ ExternalChange
    \/ Tick

Spec == Init /\ [][Next]_vars

-----------------------------------------------------------------------------
TypeOK ==
    /\ version \in Version
    /\ age \in [Version -> 0..(Ttl + MaxLag + 1)]
    /\ cache \in [Key -> Entry]
    /\ read \in [Reader -> ReadState]
    /\ buy \in [Buyer -> BuyState]
    /\ promised \in Version
    /\ mishaps \subseteq {"race", "redis"}

\* Whatever races, fails or is never invalidated, no read serves data that
\* stopped being true more than a TTL and one client lag ago; an empty result
\* not more than the short negative TTL and one lag ago (settings.py, "so a
\* temporary not found never becomes a long-lived stale state").
BoundedStaleness ==
    \A r \in Reader :
        read[r].at = "served" => age[read[r].got] <= Life(read[r].got) + MaxLag

\* stock_out_product: "so no later read serves stale stock".  A read that
\* begins after a deduction's invalidation sees that deduction.
NoLaterReadStale ==
    \A r \in Reader : read[r].at = "served" => read[r].got >= read[r].floor

\* That promise holds as long as no read was holding an older answer when a
\* deduction landed and no invalidation failed, whatever changes Inventra
\* otherwise and however many deductions are never invalidated at all.
FreshUnlessMishap == mishaps = {} => NoLaterReadStale

=============================================================================
