# A formal model of the e-commerce sales agent

TLA+ models, TLC runs and TLAPS proofs for the Telegram sales agent in this
repository: a customer writes to a bot, a LangGraph turn answers, and a
confirmed order deducts stock in Inventra, an external shop system.  Paths below
are relative to `backend/app/` unless they start with `frontend/`.

- [1. The system](#1-the-system)
- [2. What is modelled where](#2-what-is-modelled-where)
- [3. Runs](#3-runs)
- [4. Fairness](#4-fairness)
- [5. Proofs](#5-proofs)
- [6. Where code and documentation disagree](#6-where-code-and-documentation-disagree)
- [7. What is not modelled](#7-what-is-not-modelled)
- [8. Plan](#8-plan)

## 1. The system

| Component | State | Operations | Correct when |
|---|---|---|---|
| Webhook and turn pipeline: `api/routes/telegram.py`, `api/services/telegram_service.py` | background tasks, a semaphore of 5, rows in Postgres | acknowledge and schedule, resolve identity, skip duplicates, run the turn, deliver | an update is answered by one turn, recorded once, replied to; no task is stuck |
| Bot API client: `integrations/telegram/client.py` | retries of one call | `sendMessage` with retries | extra copies of a reply are bounded |
| Agent graph: `agents/graph.py`, `state.py` | `AgentState` of one turn | classify, gather, purchase, compose, persist, in this order | a turn ends; failures are state, not exceptions |
| Purchase node: `agents/purchase.py` | the pending-purchase marker in `content_metadata` of an agent message | offer, confirm (re-check, stock-out), decline | no deduction without confirmation, none twice, no false "completed" |
| Persistence: `agents/persist.py`, `models/` | run, customer and agent message rows | one transaction per turn, never raises | one record per update (partial unique index) |
| Inventra client and tools: `integrations/inventra/`, `tools/inventra/` | retries of one read | reads with retries; one stock-out, never retried | at most one request per stock-out |
| Inventra cache: `integrations/cache.py` | Redis entries with TTLs | `read_through`, `invalidate_product_stock` | staleness bounded by the TTL; no stale stock after a deduction |
| LLM gateway: `integrations/llm/`, `agents/compose.py` | the chain of providers, retries of one call | Gemini, then Nemotron, then a template | bounded time, honest attribution, always a reply |
| DNS fallback: `db/dns_fallback.py`, `db/session.py` | addresses in memory and in a file | system resolver, last known good, DNS over HTTPS | outages tolerated; old addresses expire |
| Search ladder: `agents/gather.py`, `classify.py` | none beyond the turn | classify; the intent's reads, a fruitless search retried with other terms and categories | "nothing found" was found out, failures are told, calls are bounded |
| Admin API: `api/routes/admin.py`, `inventra_admin.py`, `api/admin_deps.py` | none (signed tokens that expire) | login, paged reads, proxied Inventra reads | every request is checked; an answer is to the page asked for |
| Dashboard: `frontend/src/` | token, view, selected conversation; page, filter, answer, spinner and error of each mounted component | log in and out, navigate, select, page, filter, retry | what is shown belongs to what is selected; failures show; spinners stop |

**How they interact.**  The route acknowledges an update at once and starts an
asyncio task, which waits for the semaphore, resolves the identity in a short
database session, runs the graph and sends `draft_response`.  The purchase node
talks to Inventra through the tools (and through the cache, when there is one)
and to Postgres through the injected `Database`.  A turn leaves its pending
purchase to the next turn in the database: the purchase node returns it in its
state, `persist_turn` writes it two nodes later, and a later turn's purchase node
loads and clears it.

**What is hard.**  One process, one event loop: tasks interleave at awaits, and
database calls are synchronous, so everything between two awaits is atomic with
respect to other turns.  Hard are turns of one conversation that overlap (the
semaphore admits five), a stock-out that times out but lands, what is cleared or
cached before the step that may still fail, redelivered updates, and crashes
after the acknowledgement.  `PROJECT.json` lists each hazard at its line with
the properties that would catch it.

## 2. What is modelled where

| Module | Models | Actors |
|---|---|---|
| `PurchaseFlow` | the turns of one conversation through the purchase node, with marker store, persistence and Inventra's stock-out | turns, Inventra |
| `InventraCache` | `read_through` and `invalidate_product_stock` for the keys that show one product | readers, buyers, Inventra, time |
| `TelegramWebhook` | updates from delivery to reply | Telegram, tasks, permits |
| `LlmGateway` | one reply through both providers | one turn |
| `DnsFallback` | address resolution across outages and restarts | one resolver, time |
| `SearchLadder` | one turn's reads of the catalogue: classification, the planned reads, the ladder, each read's retries | one turn, the cache, Inventra |
| `SalesAgent` | `TelegramWebhook` and `PurchaseFlow` composed: one conversation from its updates to Inventra's ledger | as theirs |
| `OrderLedger` | the abstract promise of the purchase flow, which `PurchaseFlow` implements | takers of orders |
| `Dashboard` | one browser tab: session, views, and the requests in flight | an administrator, the admin API |

`MCPurchaseFlow`, `MCTelegramWebhook`, `MCSearchLadder`, `MCSalesAgent` and
`MCDashboard` give constants that a configuration cannot write.
The proofs of a module are in the one named after it with `_proofs`; those of the
refinement of `OrderLedger` are at the end of `PurchaseFlow_proofs`.
Definitions marked "Mutant" in a module are broken variants of the definition
that follows; no specification uses them.  Each replaces that definition to show
that a property notices (`mutants` in `PROJECT.json`).

**PurchaseFlow.**  `pc[t]` is the await a turn is suspended at: `gather`
(everything up to the purchase node), `lookup` (catalog search and stock check of
phase 1), `recheck` and `stockout` (phase 2), `compose`; then `done`, or
`aborted` if the turn raised.  One action is the code from one await to the next:

- `Confirm` is `purchase()` from its entry to the re-check, `SendStockOut` or
  `AbandonOrder` from there, `StockOutSucceeds` or `StockOutFails` the end.
- `Offer` clears the newest marker and returns the new pending purchase in the
  turn's state (`offer`); only `Finish`, which is `persist_turn`, makes it a
  marker.
- `ClearNewest` is `clear_pending_purchase`: it removes the marker of the newest
  message that has one, whichever purchase that is, and may fail silently.
- `request[t]` is the stock-out as Inventra sees it.  `InventraDeducts` may
  happen while the client still waits, or after it gave up.
- `GatherRaises` and `ComposeRaises` are the two nodes around the purchase node
  dying of what they do not catch (section 6).
- `StockOutRaises` is what `purchase()` does not catch around the stock-out: notes
  over their limit, or an answer that cannot be decoded (`httpx.DecodingError` is
  neither a timeout nor a transport error).  The marker stays.
- `ReturnToolError` sends the turn to `aborted`: a `ToolError` under
  `tool_errors` fails the validation of `AgentState` (section 6).

The regular expressions are reduced to the five kinds of message they tell
apart, in the order `purchase()` tests them.  Whether there is enough stock is a
free choice at each check: nothing that is claimed depends on the amount.
The reasons within `skipped_*` and `failed_*` are left out.

**OrderLedger.**  Orders, takers and deductions, without turns, awaits, requests,
persistence or faults.  `PurchaseFlow` ends with the mapping: an order is offered
once its turn is done, open while it has a marker, taken once a confirming turn has
loaded it, and a customer is told how a turn ended when it is done.  `KeepsLedger`
says that every step of the flow is a step of the ledger or leaves it alone.  The
ledger promises that a deduction has a taker, that a taker found its order as the
newest open one, that it deducts once at most and never after it was told how it
ended.  It does not promise one taker per order, because the code does not.

**SearchLadder.**  A message is what the heuristics read out of it: its
product-bearing words, whether anything else (framing phrases, stop words,
punctuation) surrounds them, its last number, and whether it or its term is too
long for a search parameter.  `Plan` is what `gather_context` sets out to read for
an intent, `todo` what is left of it.  A lookup is known by the category it is
for, although every lookup reads the same list of all categories; `LadderBounded`
exempts the lookups where it says that nothing is asked twice.  `CacheHit`, `Request` and `Retry` are the ways
a read goes on; `Ends` is what the node does with the answer: climb (`Climb`), go on
to a category's products or a product's details (`Found`), or stop.  `Fails` is
where a failing category lookup differs from every other failure.  The alias tables
are constants, assumed to be idempotent as they are in the code; with them the
branch for literal aliases (`agents/gather.py:360-365`) is never reached, because
the term has been canonicalised before, and the ladder has no rung for it.  The
reference `Exhausted` is written without the ladder: as the set of questions a
message suggests, with its notable words by rank.  Which keyword occurs in which
text is left open: every set of matching rules is tried.  `None` is a value of its
own, which is all that `NoneAssumption` says.

**SalesAgent.**  The variables of both models and `turn`, the turn each permit
carries; the n-th agent run for update `u` is the turn `<<u, n>>`.  `StartTurn` is
both models' start, `TurnRaises` any step of the flow that aborts the turn with the
webhook's `TurnFails`, `Persist` is `Finish` with the webhook's `Persist`, coupled:
marker and rows are one commit, so the twin that the unique index refuses loses its
marker too.  Everything else moves one of the two.

**InventraCache.**  Inventra's data is a version number, so that an answer can
be compared with what was current when.  `read` and `buy` hold one reader's and
one buyer's place between awaits.  `Ttl`, `NegativeTtl` and `MaxLag` are in ticks;
`MaxLag` stands for the client timeouts between Inventra's answer and the end of
the SET.  `EmptyVersion` are the versions in which list reads come up empty.
`age`, `floor`, `promised` and `mishaps` are history variables.

**TelegramWebhook.**  `queue` are the tasks waiting at the semaphore in order of
arrival, `slot` its permits.  `StartTurn`, `SkipDuplicate` and `IdentityFails` are
phase 1 of `process_inbound_message`, which has no await; `Persist` and
`TurnFails` end `run_turn`; the rest is delivery.  The turn is opaque here:
`SalesAgent` puts `PurchaseFlow` in its place.  `runs`, `replies` and `mishaps` are history variables.

**LlmGateway.**  `at` is the provider whose loop runs; `left` and `backoff` are
its local variables, `codes` the gateway's.  `Start` is `build_default_gateway`,
including its three cases of a Gemini key: set, empty, absent; and a Nemotron key
beside an empty base URL, which raises.

**DnsFallback.**  An address is its age since a resolver vouched for it; the
file has one expiry for all its addresses, as `_persist` writes it.  `vouched` is
history: how long ago a resolver gave this process an address.

**Dashboard.**  A click and the effects of the render it causes are one action,
and so is an answer with the `then`, `catch` and `finally` behind it: the browser
runs other events only between them.  `ui[c]` is what `useState` holds in the
three places that load: the conversation list, the thread and the Inventra view
that is mounted.  `Request` is any `load`; `newest` is the thread's signal that is
not aborted (for the others it is history).  `Mount` drops what was in flight for
the components that unmount, because their answers reach nobody; nothing else
drops a request, because nothing cancels one.  The five Inventra views differ in
their controls only: products and movements page and filter, inventory filters,
overview refreshes, categories do neither.  What the filters can be set to is one
constant.  The page count of a table is a constant of its filter, so
`PagerStaysInRange` does not speak of a catalog that shrinks while it is browsed.

## 3. Runs

| Run | Question | Bounds |
|---|---|---|
| `purchase_flow` | all properties of `PurchaseFlow`, every fault on, and that it implements `OrderLedger` | 3 turns, 2 at a time, 1 product, quantities 0, 2 and unstated |
| `purchase_exactly_once` | is one confirmed purchase deducted once? (no) | as above, no faults |
| `purchase_failed_turn` | are failures recorded as state? (no) | as above, no faults |
| `inventra_cache` | all properties of `InventraCache`, every fault on | 1 reader, 2 buyers, 3 keys, 3 versions, TTL 2, negative TTL 1, lag 1 |
| `cache_stale` | does invalidation end staleness? (no) | 1 reader, 1 buyer, 2 stock versions, no faults |
| `telegram_webhook` | all properties of `TelegramWebhook`, every fault on | 3 updates (one ignored, one delivered twice), 2 permits, 1 retry |
| `webhook_agent_runs_once` | does the duplicate check keep the agent from running twice? (no) | only the acknowledgement may be lost |
| `llm_gateway` | all properties of `LlmGateway` | 2 retries, timeout 2, pause 1, all key configurations |
| `search_ladder` | all properties of `SearchLadder` | up to 3 of 5 words, 2 categories, 1 retry |
| `sales_agent` | all properties of `SalesAgent` | an order and a "yes", each delivered up to twice, 2 permits, no send retries; acknowledgements lost, turns that raise, crashes |
| `dns_fallback` | the properties of `DnsFallback` | 1 host, TTL 3, ages up to 6 |
| `dashboard` | all properties of `Dashboard` | 2 sessions, 2 conversations, 2 filters with 2 and 1 pages, 3 kinds of Inventra view, 3 requests in flight |

**Why the bounds are enough.**  In `PurchaseFlow` two turns may overlap and a
third supplies the order they confirm, or comes before or after them; that is
enough for two markers, for a confirmation racing another one, a decline or a new
order, and for a late landing.  The safety properties are proved for any number.
One reader of `InventraCache` reads again and again, so one is enough for a race
against either of two buyers, whose invalidations overlap; three keys stand for
the three ways an entry falls to an invalidation (named, first scan, second
scan).  The proofs lift these bounds too.  Two permits and a twin in
`TelegramWebhook` cover waiting, overlap and reuse of a permit.  In `LlmGateway`
the two providers are all there are, and the retry count is the configured one.
In `DnsFallback` a TTL of 3 leaves room for a restart in the middle of an entry's
life, and ages are counted to twice that.  In `Dashboard` three requests are the
list's and two of the thread, or three of one component, so that a late answer
meets a newer one that has or has not been answered; the second session meets
what the first left; the two views left out have the controls of those kept, or
fewer.  In `SearchLadder` three words are one more than the ladder and the
aliases look at, the five are a plural with a literal form, two categories, a name
and a word too short for a search; all nine reads of the longest ladder occur.  In
`SalesAgent` two deliveries of each message give a twin of the order, a twin of the
confirmation and a redelivery after a crash; the database's own failures (`clear`,
`persist` of the webhook) are left to `PurchaseFlow` and `TelegramWebhook`, to keep
liveness within reach.  `PurchaseFlow`, `TelegramWebhook`, `LlmGateway`,
`SearchLadder` and `SalesAgent` end (every message handled, a reply given), so their
runs do not check for deadlock; the other three do.

`TruthfulReply` needs a word: it holds although a stock-out may land after the
client gave up, because a turn whose stock-out fails raises and sends no reply at
all.  If the turn reported that failure the way its documentation intends, its
"nothing was confirmed" could become untrue; the mutant `StockOutFailureIsTold`
is that variant.

`BoughtOnce` and `OfferStands` relate three mechanisms that know nothing of each
other: the duplicate check, the marker and the unique index.  Each exception that
the run can meet is needed: without it there is a counterexample (a twin of the
confirmation, a crash between stock-out and clear; a twin of the order, whose offer
replaces the first and is then refused).  `OfferStands` speaks of the conversation's
only order: with several, a later offer replaces it, and a confirmation of another
order that overlaps may clear it instead of its own.  `PendingSurvives` says which
marker a turn removes: without overlap the one it loaded or supersedes.
`WebhookKeepsItsWord` is the other half of the composition: `TelegramWebhook` assumes that the work on a permit ends
(`WF_vars(Work(s))`); with real turns that follows from each single await ending.

The properties `Serial...` and `FreshUnlessMishap` are conditional on history
variables.  The conditions are the weakest under which the runs and the proofs
hold: turns that overlap, a clear that fails, a stock-out that raises past its
handler and a crash are exactly what the code does not guard against.

## 4. Fairness

A turn's steps are weakly fair (`PurchaseFlow`, `TelegramWebhook`,
`LlmGateway`, `SalesAgent`): every await is an HTTP call with an httpx timeout, a sleep, or a
Redis call, and asyncio resumes whatever is ready.  httpx's timeouts are per read,
so this assumes servers that end their responses.  A free permit is handed to the
first waiter (`asyncio.Semaphore` is first in, first out), which is weak fairness
of `Take`.  `SearchLadder` states no fairness: `LadderBounded` bounds its steps.  In
`Dashboard` the newest request of each component and the login are
answered eventually: a browser settles every fetch, with a network error if need
be.  Nothing is assumed of the environment: Inventra need not answer,
Telegram need not deliver, customers need not write.

## 5. Proofs

The proof modules follow the same argument: an inductive invariant `IInv` in
named parts, one lemma per action that it is kept, and each property from it.
They assume what the modules assume of their constants and nothing else, so they
hold for any number of turns, products, updates, keys, readers, words and requests,
for any TTL and any set of faults.  Two are about a process with one database host
(`DnsFallback`).  Every safety invariant that a passing run checks
is a theorem, and so are the action properties.

`PurchaseFlow_proofs`: `ConfirmationGated` is not inductive, because it says
nothing of what a turn may load next.  `OfferInv` closes the circle: every marker
and everything a turn has loaded is the offer of a finished order turn.
`MovementInv` ties Inventra's movements to requests one to one, `RequestInv` ties
requests to confirming turns, `PlaceInv` says what each suspension point implies.
`SerialInv` adds what holds while nothing overlaps, above all that no marker exists
while a new offer waits to be persisted.  `SerialExactlyOnce` is the
documentation's exactly-once promise under the condition it needs.  `PendingSurvives`
needs to know which marker is the newest when a turn clears: `AloneInv`, under the one
condition that no turns have overlapped, keeps the marker that a confirming turn
loaded at the end of the list until the turn is done with it.

Its last part proves the refinement: on top of that invariant, the initial state maps
to the ledger's and every action to a ledger step or a stutter (`Confirm` to `Take`,
`InventraDeducts` to `Deduct`, every clear to `Drop`, `Finish` to `Reply`, a crash to
nothing).  That `Deduct` finds nothing told yet is where a late landing matters:
`PlaceInv` and `RequestInv` show that the taker can no longer reply.

`TelegramWebhook_proofs`: the history's promise (`RecordInv`) is kept by itself once
it also covers the replies still under way.  `CauseInv` carries the duplicate check:
without a cause for a second turn, an update's first one has its row or still runs,
so a redelivery is skipped or is a twin.  `CleanInv` follows an update nothing went
wrong with along its way (`OnItsWay`): in line, or with one permit, or recorded and
answered, never in two of these places.  For `RepliesBounded` a turn still under way
counts for the copies it may yet send: `CopiesDue(u)` is the set of pairs of a permit
and a copy that its turn has left, and what was sent together with its size stays
within the bound (`Covered`); a lost answer moves a copy from the set to the chat, and
a turn that ends, dies or crashes only drops some.

`InventraCache_proofs`: for staleness, what an entry has left to live and the age
of its version share one budget of `Life + MaxLag` (`AgeInv`).  For freshness
(`FreshInv`), each entry older than an unfinished deduction is already among its
victims or in a family not yet scanned.

`LlmGateway_proofs`: `StageInv` says which providers have failed by the time the
reply is where it is, `AttemptInv` that each attempt but a loop's last uses up a
retry; `HonestAttribution` follows as a reply is settled.  For `ReplyIsBounded`
(`TimeInv`) the time spent is at most what the attempts and pauses so far may cost,
provider by provider.  The doubling pauses add up in a recursive function, of which
the library's induction rules could say nothing here; that it is defined, steps and
grows is proved by a least counterexample instead (`LeastOf`, from `WFMin`).

`DnsFallback_proofs`: the file is never ahead of memory, an entry's time to live and
its address's age add up to the TTL at least, and what memory has dropped since it
read the file is outdated there too (`Behind`), so a refusal means that the file has
no recent address either (`RefusedInv`).  That it means the same of what a resolver
gave this process (`VouchedInv`) holds for one host only: with more, loading the file
for one puts an older address of another over a fresher one whose write failed
(`db/dns_fallback.py:168-170`).  For `StaleOnlyWhileLoading` the sum
must be the TTL at most, which a single expiry for the whole file gives only to a
process with one host.  Both theorems assume it.

`Dashboard_proofs`: a load in flight belongs to this session, and the newest one of
the thread or of a view asks for what is selected now (`LoadOK`); there is one newest
load per component, none once it has been answered, and no other at all unless loads
overlapped (`HistOK`).  One lemma each says what mounting, requesting and answering
do; the clicks are instances of them.  `PagerStaysInRange` needs that a table which
neither spins nor failed shows the page count of its own filter.

`SearchLadder_proofs`, first part: what the operators return, for a message of any
length.  `Longest` picks a word that none comes before (again by a least
counterexample), so at most two words are significant and every notable word is one of
them (`SignificantIs`: a third would have two ahead of it); the ladder's terms and
categories are different, one to four and up to two (`TermsAre`, `AliasesAre`);
`PlanIs` and `PlanReaches` say what is planned.  Second part: `OnceInv` keeps what was
asked and what is still to be asked apart, which for the searches of a category needs
that one is made only after its lookup, and for the details of a product that they
come last.  `ProgressInv` is the heart of `HonestAnswer`: as long as nothing is found,
every planned question is still to be asked, came back empty, or is a lookup that
failed or whose search did.  A turn that runs out of questions has asked them all.
For `LadderBounded` the reads made, all different as long as a lookup counts for its
category, are mapped into the nine that there are.

`SalesAgent_proofs` uses the proofs of both models as they stand: `WebhookSame` and
`PurchaseSame` show that the composition's instances are the proved modules,
`Assumptions` that its constants are what they assume, and `StepIsBoth` that every
step is a step of each or a stutter (`KeepsBothWords`), so both invariants hold of a
conversation, and with them the promises of both (`ChannelPromises`,
`PurchasePromises`).  That a turn started for an update is one of `Turn` needs a
count: every run and every task in line is for a delivery of its own (`CountInv`).
`BoughtOnce` rests on what neither model can say alone.  The only marker of the only
order is written with its row, once, and is what any turn has loaded (`OneInv`); without a twin the turns of an update
come one after another (`TwinInv`); and one that loaded the marker and is past its
stock-out has cleared it for good (`SpentInv`), so its successor finds nothing.
`OfferStands` follows the marker from the commit with its row (`StandInv`): whoever
clears it had loaded it, and no other turn can make the offer again.

Only model-checked: the liveness properties (`TurnEnds`, `EveryTaskEnds`,
`ComposeEnds`, `SpinnersStop`, and the fairness in `WebhookKeepsItsWord`), which are
beyond this prover.

## 6. Where code and documentation disagree

Each has a run with a counterexample and an entry under `findings`.

1. *Exactly once* (`agents/purchase.py:14`): two confirmations in flight deduct
   twice, since the marker is cleared only after the stock-out.
2. *Failures as structured state* (`agents/purchase.py:32`): the failure branches
   put an exception where the state wants a `ToolFailure`; the turn dies without
   reply or record, after the marker was cleared.
3. *No later read serves stale stock* (`tools/inventra/purchase.py:45`): a racing
   cache fill brings the old stock back for up to a TTL.
4. *A retried update is skipped before running the agent twice*
   (`api/services/telegram_service.py:13`): not while the first turn runs.

More are in the models without a run of their own:

- *Raise a typed LLMError on failure* (`integrations/llm/base.py:26`): a null text
  part or an odd token count raises something else (`Unforeseen` of `LlmGateway`),
  and the turn ends without the deterministic reply.
- `Start` of `LlmGateway` raises when `GEMINI_API_KEY` is absent, where
  `build_default_gateway` promises to degrade (`integrations/llm/__init__.py:88`),
  and when a Nemotron key comes with an empty base URL (`nemotron.py:60`).
- *Message thread of the selected conversation* (`frontend/README.md:11`): the
  answer for an earlier selection may arrive last, and stays
  (`frontend/src/MessageThread.tsx:21`).  The tables race in the same way;
  `SerialShowsSelection` says what remains true.
- An address loaded from the file is used by that look however old it is, although
  cached addresses "live for 10 minutes" (`db/dns_fallback.py:49`);
  `StaleOnlyWhileLoading` bounds the exception.
- *Never exceptions and never silent empty results* (`agents/gather.py:7`): a message
  of more than 200 characters, product number 0 in a question for movements, or a
  superscript digit raises out of the node (`Refuse` of `SearchLadder`), and a failing
  category lookup becomes "nothing found" (`Fails`).  The docstring of
  `_category_id_for_name` means the latter; `state.py:11` excludes it.
- *A manual replay would be skipped by the duplicate check anyway*
  (`api/services/telegram_service.py:126`): only if the turn reached
  `persist_turn`.  A turn that died left no row, and its replay runs; after a crash
  between stock-out and clear it deducts again, which `BoughtOnce` has to except.
- *Failures are recorded as structured state* (`agents/purchase.py:32`) once more: what
  raises around the stock-out and is no `ToolError` meets no handler at all, and leaves
  the marker behind (`StockOutRaises` of `PurchaseFlow`).
- The Spanish rule "historial de stock" (`agents/classify.py:52`) is out of reach:
  the message contains "stock", and the English rule for `inventory_check` is tried
  first.

## 7. What is not modelled

- The wording of messages, prompts and replies, the regular expressions, pricing
  and the schemas of payloads.
- Several server processes: the documented deployment runs one uvicorn worker
  (`backend/README.md`), and the argument that database calls are atomic rests on
  it.
- The keyword tables of the classification, of which only the order of the rules is
  modelled; password hashing and the `runs` endpoint of the admin API; the operator
  script, which rewrites an environment file once and shares no state with the service.
- An answer of Inventra against its contract, such as a positive `total` with an
  empty product list (`agents/gather.py:389`).
- Several conversations in `PurchaseFlow`: markers are per conversation and turns
  of different ones share only the semaphore, which `TelegramWebhook` models.
- Several database hosts in `DnsFallback`'s run: the process resolves one.  With
  more, the single expiry in the file would also renew the others' addresses, and
  loading it may put an older address of another host over a fresher one.

## 8. Plan

1. Done: all modules of section 2, and the proofs of section 5.
2. Left: several conversations sharing the permits of one process in `SalesAgent`.
