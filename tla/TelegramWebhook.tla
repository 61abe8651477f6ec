--------------------------- MODULE TelegramWebhook ---------------------------
(***************************************************************************)
(* From a Telegram update to the reply: the webhook route                  *)
(* (api/routes/telegram.py), the turn pipeline behind it                   *)
(* (api/services/telegram_service.py) and the Bot API client's retries.    *)
(*                                                                         *)
(* The route acknowledges at once and leaves the work to a background      *)
(* task; the tasks queue up at one semaphore.  Database calls are          *)
(* synchronous, so a task gets from the semaphore to the first await of    *)
(* its agent turn, and from the end of its turn to the first sendMessage,  *)
(* in one step each.  The turn itself is PurchaseFlow's business: here it  *)
(* either reaches persist_turn or raises.                                  *)
(***************************************************************************)
EXTENDS Naturals, Sequences, FiniteSets

CONSTANTS
    Update,         \* Telegram updates
    Ignored,        \* ... those extract_inbound drops: edits, groups, no text
    Slot,           \* the permits of _TURN_SEMAPHORE (5 in the code)
    NoUpdate,       \* what a free slot works on
    MaxPosts,       \* bound: how often Telegram delivers each update at most
    MaxRetries,     \* the Bot API client's max_retries
    Faults          \* the environment faults this instance may meet

ASSUME IgnoredAssumption == Ignored \subseteq Update
ASSUME SlotAssumption == Slot # {} /\ NoUpdate \notin Update
ASSUME BoundsAssumption == MaxPosts \in [Update -> Nat] /\ MaxRetries \in Nat
ASSUME FaultsAssumption ==
    Faults \subseteq {"ack", "identity", "turn", "persist", "send", "crash"}

VARIABLES
    acked,      \* updates Telegram holds a 200 for
    posts,      \* deliveries of each update so far
    queue,      \* tasks waiting for the semaphore, first come first served
    slot,       \* what each permit is used for
    rows,       \* turns persisted for each update (run, customer and agent row)
    runs,       \* history: agent turns started for each update
    replies,    \* history: copies of its reply that reached the chat
    mishaps     \* history: what went wrong with each update

vars == <<acked, posts, queue, slot, rows, runs, replies, mishaps>>

Free == [at |-> "free", update |-> NoUpdate, retries |-> 0]
SlotState == [at : {"free", "turn", "deliver"}, update : Update \cup {NoUpdate},
              retries : 0..MaxRetries]
Mishap == {"twin", "identity", "turn", "persist", "send", "crash"}

Queued(u) == \E i \in DOMAIN queue : queue[i] = u
Running(u) == \E s \in Slot : slot[s].update = u

Init ==
    /\ acked = {}
    /\ posts = [u \in Update |-> 0]
    /\ queue = <<>>
    /\ slot = [s \in Slot |-> Free]
    /\ rows = [u \in Update |-> 0]
    /\ runs = [u \in Update |-> 0]
    /\ replies = [u \in Update |-> 0]
    /\ mishaps = [u \in Update |-> {}]

Suffer(u, m) == mishaps' = [mishaps EXCEPT ![u] = @ \cup {m}]

-----------------------------------------------------------------------------
\* telegram_webhook: an update Telegram has no 200 for is delivered (again);
\* its task is scheduled and it is acknowledged.  The 200 may get lost.
Post(u) ==
    /\ u \notin acked
    /\ posts[u] < MaxPosts[u]
    /\ posts' = [posts EXCEPT ![u] = @ + 1]
    /\ queue' = IF u \in Ignored THEN queue ELSE Append(queue, u)
    /\ \/ acked' = acked \cup {u}
       \/ "ack" \in Faults /\ UNCHANGED acked
    /\ UNCHANGED <<slot, rows, runs, replies, mishaps>>

\* The first task in line gets a free permit.
Admit(s) ==
    /\ slot[s] = Free
    /\ queue # <<>>
    /\ queue' = Tail(queue)
    /\ UNCHANGED <<acked, posts, rows, replies>>

\* Mutant: the duplicate check is dropped.
StartTurnUnchecked(s) ==
    /\ Admit(s)
    /\ LET u == Head(queue) IN
        /\ slot' = [slot EXCEPT ![s] = [at |-> "turn", update |-> u, retries |-> 0]]
        /\ runs' = [runs EXCEPT ![u] = @ + 1]
        /\ IF Running(u) THEN Suffer(u, "twin") ELSE UNCHANGED mishaps

\* Phase 1 finds no row for the update and the agent turn starts.
StartTurn(s) ==
    /\ Admit(s)
    /\ LET u == Head(queue) IN
        /\ rows[u] = 0
        /\ slot' = [slot EXCEPT ![s] = [at |-> "turn", update |-> u, retries |-> 0]]
        /\ runs' = [runs EXCEPT ![u] = @ + 1]
        /\ IF Running(u) THEN Suffer(u, "twin") ELSE UNCHANGED mishaps

\* Phase 1 finds the update's row: rolled back, nothing to do.
SkipDuplicate(s) ==
    /\ Admit(s)
    /\ rows[Head(queue)] > 0
    /\ UNCHANGED <<slot, runs, mishaps>>

\* A database error in phase 1 is logged and the update dropped.
IdentityFails(s) ==
    /\ "identity" \in Faults
    /\ Admit(s)
    /\ Suffer(Head(queue), "identity")
    /\ UNCHANGED <<slot, runs>>

\* Mutant: a turn that raises keeps its permit.
TurnFailsHolding(s) ==
    /\ "turn" \in Faults
    /\ slot[s].at = "turn"
    /\ Suffer(slot[s].update, "turn")
    /\ slot' = [slot EXCEPT ![s].at = "free"]
    /\ UNCHANGED <<acked, posts, queue, rows, runs, replies>>

\* run_turn raises before it persists anything: logged and dropped.
TurnFails(s) ==
    /\ "turn" \in Faults
    /\ slot[s].at = "turn"
    /\ Suffer(slot[s].update, "turn")
    /\ slot' = [slot EXCEPT ![s] = Free]
    /\ UNCHANGED <<acked, posts, queue, rows, runs, replies>>

\* Mutants: no unique index; one retry too many.
PersistUnindexed(s) ==
    /\ slot[s].at = "turn"
    /\ LET u == slot[s].update IN rows' = [rows EXCEPT ![u] = @ + 1]
    /\ slot' = [slot EXCEPT ![s].at = "deliver", ![s].retries = MaxRetries]
    /\ UNCHANGED <<acked, posts, queue, runs, replies, mishaps>>

PersistExtraRetry(s) ==
    /\ slot[s].at = "turn"
    /\ LET u == slot[s].update IN rows' = [rows EXCEPT ![u] = 1]
    /\ slot' = [slot EXCEPT ![s].at = "deliver", ![s].retries = MaxRetries + 1]
    /\ UNCHANGED <<acked, posts, queue, runs, replies, mishaps>>

\* persist_turn commits the turn's three rows at once, unless the unique index
\* on the update id refuses them or the database fails; either is swallowed
\* and the reply is delivered all the same.
Persist(s) ==
    /\ slot[s].at = "turn"
    /\ LET u == slot[s].update IN
        \/ /\ rows' = IF rows[u] = 0 THEN [rows EXCEPT ![u] = @ + 1] ELSE rows
           /\ UNCHANGED mishaps
        \/ /\ "persist" \in Faults
           /\ Suffer(u, "persist")
           /\ UNCHANGED rows
    /\ slot' = [slot EXCEPT ![s].at = "deliver", ![s].retries = MaxRetries]
    /\ UNCHANGED <<acked, posts, queue, runs, replies>>

\* sendMessage is answered with a success.
Delivered(s) ==
    /\ slot[s].at = "deliver"
    /\ replies' = [replies EXCEPT ![slot[s].update] = @ + 1]
    /\ slot' = [slot EXCEPT ![s] = Free]
    /\ UNCHANGED <<acked, posts, queue, rows, runs, mishaps>>

\* Mutant: a delivery that fails takes the turn's rows back with it.
SendFailureRollsBack(s) ==
    /\ slot[s].at = "deliver"
    /\ Suffer(slot[s].update, "send")
    /\ rows' = [rows EXCEPT ![slot[s].update] = 0]
    /\ slot' = [slot EXCEPT ![s] = Free]
    /\ UNCHANGED <<acked, posts, queue, runs, replies>>

\* It times out, breaks off or gets a retryable status; the chat may have got
\* the message all the same.  It is sent again while retries are left.
SendFails(s) ==
    /\ "send" \in Faults
    /\ slot[s].at = "deliver"
    /\ Suffer(slot[s].update, "send")
    /\ \/ replies' = [replies EXCEPT ![slot[s].update] = @ + 1]
       \/ UNCHANGED replies
    /\ slot' = [slot EXCEPT ![s] = IF slot[s].retries > 0
                                   THEN [slot[s] EXCEPT !.retries = @ - 1] ELSE Free]
    /\ UNCHANGED <<acked, posts, queue, rows, runs>>

\* Telegram refuses it for good: bad token, unknown chat, malformed answer.
SendRefused(s) ==
    /\ "send" \in Faults
    /\ slot[s].at = "deliver"
    /\ Suffer(slot[s].update, "send")
    /\ slot' = [slot EXCEPT ![s] = Free]
    /\ UNCHANGED <<acked, posts, queue, rows, runs, replies>>

\* The process stops, or shuts down without waiting for its tasks.
Crash ==
    /\ "crash" \in Faults
    /\ queue # <<>> \/ \E s \in Slot : slot[s] # Free
    /\ mishaps' = [u \in Update |-> IF Queued(u) \/ Running(u)
                                    THEN mishaps[u] \cup {"crash"} ELSE mishaps[u]]
    /\ queue' = <<>>
    /\ slot' = [s \in Slot |-> Free]
    /\ UNCHANGED <<acked, posts, rows, runs, replies>>

-----------------------------------------------------------------------------
Take(s) == StartTurn(s) \/ SkipDuplicate(s) \/ IdentityFails(s)
Work(s) == TurnFails(s) \/ Persist(s)
Deliver(s) == Delivered(s) \/ SendFails(s) \/ SendRefused(s)

Next ==
    \/ \E u \in Update : Post(u)
    \/ \E s \in Slot : Take(s) \/ Work(s) \/ Deliver(s)
    \/ Crash

\* A permit that is free is handed on, and every await of a turn and of a
\* delivery is bounded by a client timeout.  Telegram owes nothing.
Fairness == \A s \in Slot : WF_vars(Take(s)) /\ WF_vars(Work(s)) /\ WF_vars(Deliver(s))

Spec == Init /\ [][Next]_vars /\ Fairness

-----------------------------------------------------------------------------
TypeOK ==
    /\ acked \subseteq Update
    /\ posts \in [Update -> Nat]
    /\ queue \in Seq(Update)
    /\ slot \in [Slot -> SlotState]
    /\ rows \in [Update -> Nat]
    /\ runs \in [Update -> Nat]
    /\ replies \in [Update -> Nat]
    /\ mishaps \in [Update -> SUBSET Mishap]

\* The work on an update is over for now.
Settled(u) == posts[u] > 0 /\ ~Queued(u) /\ ~Running(u)

\* However often Telegram delivers it, an update that meets no fault and no
\* twin of itself in flight is answered by one agent turn, recorded once and
\* replied to once.
HandledExactlyOnce ==
    \A u \in Update \ Ignored : Settled(u) /\ mishaps[u] = {} =>
        runs[u] = 1 /\ rows[u] = 1 /\ replies[u] = 1

\* A second turn for an update has a reason: the first one was still running,
\* or died before its rows were written.  A failed delivery is none: a reply
\* that could not be delivered is not worked out again.
RerunHasCause ==
    \A u \in Update : runs[u] > 1 =>
        mishaps[u] \cap {"twin", "turn", "persist", "crash"} # {}

\* The partial unique index keeps the dashboard's history free of doubles, twins
\* in flight or not; and what a customer has been told is in the history, unless
\* writing it failed.
RecordedOnce ==
    \A u \in Update :
        /\ rows[u] <= 1
        /\ replies[u] > 0 /\ "persist" \notin mishaps[u] => rows[u] = 1

\* Retried deliveries cost the customer at most max_retries extra copies per turn.
RepliesBounded == \A u \in Update : replies[u] <= runs[u] * (MaxRetries + 1)

\* No update starves at the semaphore and none holds its permit for ever.
EveryTaskEnds == \A u \in Update : Queued(u) \/ Running(u) ~> ~Queued(u) /\ ~Running(u)

-----------------------------------------------------------------------------
(***************************************************************************)
(* What the service's documentation says and its code does not do.         *)
(***************************************************************************)

\* "a retried update is detected and skipped before running the agent twice"
\* (telegram_service.py).  The row that gives a duplicate away is written at
\* the end of the turn; a retry that arrives before it runs a second one.
AgentRunsOnce == \A u \in Update : runs[u] <= 1

=============================================================================
