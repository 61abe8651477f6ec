----------------------- MODULE TelegramWebhook_proofs -----------------------
(***************************************************************************)
(* The safety properties of TelegramWebhook for any number of updates and  *)
(* permits, any bounds on deliveries and retries, and any faults.          *)
(***************************************************************************)
EXTENDS TelegramWebhook, SequenceTheorems, FiniteSetTheorems, FunctionTheorems, TLAPS

-----------------------------------------------------------------------------
(***************************************************************************)
(* The inductive invariant, in named parts.                                *)
(***************************************************************************)

\* A permit in use works on an update, a free one on nothing.
SlotInv ==
    \A s \in Slot : IF slot[s].at = "free" THEN slot[s] = Free
                    ELSE slot[s].update \in Update

At(s, place, u) == slot[s].at = place /\ slot[s].update = u

\* A reply under way, or delivered, has its record unless writing it failed.
RecordInv ==
    \A u \in Update :
        /\ rows[u] <= 1
        /\ replies[u] > 0 /\ "persist" \notin mishaps[u] => rows[u] = 1
        /\ \A s \in Slot : At(s, "deliver", u) /\ "persist" \notin mishaps[u] => rows[u] = 1

Cause == {"twin", "turn", "persist", "crash"}

\* Without a cause for a second turn, an update's first one has its row or still
\* runs: a redelivery is skipped, or is a twin.
CauseInv ==
    \A u \in Update : mishaps[u] \cap Cause = {} =>
        /\ runs[u] <= 1
        /\ runs[u] > 0 /\ rows[u] = 0 => \E s \in Slot : At(s, "turn", u)

\* An update nothing went wrong with is at one place of its way at a time.
OnItsWay(u) ==
    /\ \A s, r \in Slot : slot[s].update = u /\ slot[r].update = u => s = r
    /\ runs[u] <= 1
    /\ runs[u] = 0 => ~Running(u) /\ rows[u] = 0 /\ replies[u] = 0
    /\ \A s \in Slot : At(s, "turn", u) => rows[u] = 0 /\ replies[u] = 0
    /\ \A s \in Slot : At(s, "deliver", u) => rows[u] = 1 /\ replies[u] = 0
    /\ runs[u] = 1 /\ ~Running(u) => rows[u] = 1 /\ replies[u] = 1
    /\ u \notin Ignored /\ posts[u] > 0 => Queued(u) \/ runs[u] = 1

CleanInv == \A u \in Update : mishaps[u] = {} => OnItsWay(u)

IInv ==
    /\ TypeOK
    /\ SlotInv
    /\ RecordInv
    /\ CauseInv
    /\ CleanInv

-----------------------------------------------------------------------------
\* The queue gains its new update and keeps the others.
LEMMA AppendQueues ==
    ASSUME NEW q \in Seq(Update), NEW u \in Update, NEW v,
           v = u \/ \E i \in DOMAIN q : q[i] = v
    PROVE  \E i \in DOMAIN Append(q, u) : Append(q, u)[i] = v
<1>1. /\ Append(q, u) \in Seq(Update)
      /\ DOMAIN Append(q, u) = 1..(Len(q) + 1)
      /\ DOMAIN q = 1..Len(q) /\ Len(q) \in Nat
      /\ Append(q, u)[Len(q) + 1] = u
      /\ \A i \in 1..Len(q) : Append(q, u)[i] = q[i]
  OBVIOUS
<1> QED  BY <1>1

\* It loses its head only.
LEMMA TailQueues ==
    ASSUME NEW q \in Seq(Update), q # <<>>
    PROVE  /\ Tail(q) \in Seq(Update)
           /\ Head(q) \in Update
           /\ \A v : (\E i \in DOMAIN q : q[i] = v) /\ v # Head(q)
                     => \E i \in DOMAIN Tail(q) : Tail(q)[i] = v
           /\ \E i \in DOMAIN q : q[i] = Head(q)
<1>1. /\ DOMAIN q = 1..Len(q) /\ Len(q) \in Nat \ {0}
      /\ Head(q) = q[1]
      /\ Tail(q) \in Seq(Update)
      /\ DOMAIN Tail(q) = 1..(Len(q) - 1)
      /\ \A i \in 1..(Len(q) - 1) : Tail(q)[i] = q[i + 1]
  OBVIOUS
<1>2. ASSUME NEW v, NEW i \in DOMAIN q, q[i] = v, v # Head(q)
      PROVE  \E j \in DOMAIN Tail(q) : Tail(q)[j] = v
  <2>1. i - 1 \in 1..(Len(q) - 1) /\ Tail(q)[i - 1] = q[i]
    BY <1>1, <1>2
  <2> QED  BY <1>1, <1>2, <2>1
<1> QED  BY <1>1, <1>2

\* Nothing has been delivered yet.
LEMMA InitIInv == Init => IInv
<1> SUFFICES ASSUME Init PROVE IInv
  OBVIOUS
<1>1. \A s \in Slot : slot[s] = Free /\ slot[s].at = "free" /\ slot[s].update = NoUpdate
  BY DEF Init, Free
<1>2. TypeOK
  <2>1. Free \in SlotState
    BY BoundsAssumption DEF Free, SlotState
  <2> QED  BY <2>1 DEF Init, TypeOK
<1>3. \A u \in Update : ~Running(u)
  BY <1>1, SlotAssumption DEF Running
<1> QED
  BY <1>1, <1>2, <1>3, SlotAssumption
  DEF IInv, Init, SlotInv, RecordInv, CauseInv, CleanInv, OnItsWay, At

\* A step that leaves the variables alone leaves the invariant alone.
LEMMA StutterIInv == IInv /\ UNCHANGED vars => IInv'
  BY DEF IInv, vars, TypeOK, SlotInv, RecordInv, CauseInv, CleanInv, OnItsWay, At,
         Running, Queued

-----------------------------------------------------------------------------
(***************************************************************************)
(* Every step keeps it.                                                    *)
(***************************************************************************)

\* A delivery puts the update in line, where it stays until a permit is free.
LEMMA PostKeeps ==
    ASSUME IInv, NEW u \in Update, Post(u)
    PROVE  IInv'
<1>1. /\ UNCHANGED <<slot, rows, runs, replies, mishaps>>
      /\ posts' = [posts EXCEPT ![u] = @ + 1]
      /\ queue' = IF u \in Ignored THEN queue ELSE Append(queue, u)
      /\ acked' \subseteq acked \cup {u}
  BY DEF Post
<1>2. TypeOK'
  BY <1>1 DEF IInv, TypeOK
<1>3. SlotInv' /\ RecordInv' /\ CauseInv'
  BY <1>1 DEF IInv, SlotInv, RecordInv, CauseInv, At
<1>4. queue \in Seq(Update)
  BY DEF IInv, TypeOK
<1>5. /\ \A v \in Update : Queued(v) => Queued(v)'
      /\ u \notin Ignored => Queued(u)'
  <2>1. CASE u \in Ignored
    BY <1>1, <2>1 DEF Queued
  <2>2. CASE u \notin Ignored
    <3>1. queue' = Append(queue, u)
      BY <1>1, <2>2
    <3>2. \A v \in Update : v = u \/ (\E i \in DOMAIN queue : queue[i] = v)
              => \E i \in DOMAIN Append(queue, u) : Append(queue, u)[i] = v
      BY <1>4, AppendQueues
    <3> QED  BY <3>1, <3>2 DEF Queued
  <2> QED  BY <2>1, <2>2
<1>6. \A v \in Update : v # u => posts'[v] = posts[v]
  BY <1>1 DEF IInv, TypeOK
<1>7. CleanInv'
  BY <1>1, <1>5, <1>6 DEF IInv, CleanInv, OnItsWay, At, Running
<1> QED  BY <1>2, <1>3, <1>7 DEF IInv

\* Taking the head of the line leaves the others in it.
LEMMA AdmitQueue ==
    ASSUME IInv, NEW s \in Slot, Admit(s)
    PROVE  /\ Head(queue) \in Update
           /\ queue' \in Seq(Update)
           /\ \A v \in Update : Queued(v) /\ v # Head(queue) => Queued(v)'
           /\ Queued(Head(queue))
           /\ UNCHANGED <<acked, posts, rows, replies>>
           /\ slot[s].at = "free" /\ slot[s].update = NoUpdate
<1>1. queue \in Seq(Update) /\ queue # <<>> /\ queue' = Tail(queue)
  BY DEF Admit, IInv, TypeOK
<1>2. slot[s].at = "free" /\ slot[s].update = NoUpdate
  BY DEF Admit, Free
<1> QED  BY <1>1, <1>2, TailQueues DEF Queued, Admit

\* A turn that starts is its update's first, or has a cause.
LEMMA StartTurnKeeps ==
    ASSUME IInv, NEW s \in Slot, StartTurn(s)
    PROVE  IInv'
<1>1. PICK u \in Update :
      /\ u = Head(queue) /\ queue' \in Seq(Update)
      /\ \A v \in Update : Queued(v) /\ v # u => Queued(v)'
      /\ UNCHANGED <<acked, posts, rows, replies>>
      /\ slot[s].at = "free" /\ slot[s].update = NoUpdate
  BY AdmitQueue DEF StartTurn
<1>2. /\ rows[u] = 0
      /\ slot' = [slot EXCEPT ![s] = [at |-> "turn", update |-> u, retries |-> 0]]
      /\ runs' = [runs EXCEPT ![u] = @ + 1]
      /\ mishaps' = IF Running(u) THEN [mishaps EXCEPT ![u] = @ \cup {"twin"}] ELSE mishaps
  BY <1>1 DEF StartTurn, Suffer
<1>3. TypeOK
  BY DEF IInv
<1>4. TypeOK'
  <2>1. [at |-> "turn", update |-> u, retries |-> 0] \in SlotState
    BY <1>1, BoundsAssumption DEF SlotState
  <2> QED  BY <1>1, <1>2, <1>3, <2>1 DEF TypeOK, Mishap
<1>5. /\ slot'[s].at = "turn" /\ slot'[s].update = u
      /\ \A r \in Slot : r # s => slot'[r] = slot[r]
  BY <1>2, <1>3 DEF TypeOK
<1>6. /\ runs'[u] = runs[u] + 1 /\ runs[u] \in Nat
      /\ \A v \in Update : v # u => runs'[v] = runs[v] /\ mishaps'[v] = mishaps[v]
      /\ mishaps[u] \subseteq mishaps'[u]
      /\ Running(u) => "twin" \in mishaps'[u]
      /\ ~Running(u) => mishaps'[u] = mishaps[u]
      /\ "persist" \in mishaps'[u] <=> "persist" \in mishaps[u]
  BY <1>1, <1>2, <1>3 DEF TypeOK
<1>7. SlotInv'
  BY <1>1, <1>5 DEF IInv, SlotInv, Free
<1>8. RecordInv'
  BY <1>1, <1>5, <1>6 DEF IInv, RecordInv, At
<1>9. \A v \in Update : v # u =>
          \A r \in Slot : /\ slot'[r].update = v <=> slot[r].update = v
                          /\ slot[r].update = v => slot'[r] = slot[r]
  BY <1>1, <1>5, SlotAssumption
<1>10. ~Running(u) /\ mishaps[u] \cap Cause = {} => runs[u] = 0
  BY <1>1, <1>2, <1>6 DEF IInv, CauseInv, At, Running
<1>11. CauseInv'
  <2>1. ASSUME mishaps'[u] \cap Cause = {}
        PROVE  runs'[u] <= 1 /\ At(s, "turn", u)'
    BY <1>5, <1>6, <1>10, <2>1 DEF Cause, At
  <2>2. ASSUME NEW v \in Update, v # u, mishaps'[v] \cap Cause = {}
        PROVE  /\ runs'[v] <= 1
               /\ runs'[v] > 0 /\ rows'[v] = 0 => \E r \in Slot : At(r, "turn", v)'
    BY <1>1, <1>6, <1>9, <2>2 DEF IInv, CauseInv, At
  <2> QED  BY <2>1, <2>2 DEF CauseInv
<1>12. CleanInv'
  <2>1. ASSUME mishaps'[u] = {}  PROVE OnItsWay(u)'
    <3>1. ~Running(u) /\ mishaps[u] = {} /\ runs[u] = 0
      BY <1>6, <1>10, <2>1
    <3>2. OnItsWay(u)
      BY <1>1, <3>1 DEF IInv, CleanInv
    <3>3. \A r \in Slot : slot'[r].update = u => r = s
      BY <1>5, <3>1 DEF Running
    <3>4. rows'[u] = 0 /\ replies'[u] = 0 /\ runs'[u] = 1
      BY <1>1, <1>6, <3>1, <3>2 DEF OnItsWay
    <3>5. Running(u)'
      BY <1>5 DEF Running
    <3> QED  BY <1>5, <3>3, <3>4, <3>5 DEF OnItsWay, At
  <2>2. ASSUME NEW v \in Update, v # u, mishaps'[v] = {}  PROVE OnItsWay(v)'
    BY <1>1, <1>6, <1>9, <2>2 DEF IInv, CleanInv, OnItsWay, At, Running
  <2> QED  BY <2>1, <2>2 DEF CleanInv
<1> QED  BY <1>4, <1>7, <1>8, <1>11, <1>12 DEF IInv

\* A skipped duplicate leaves everything but the line as it was.
LEMMA SkipDuplicateKeeps ==
    ASSUME IInv, NEW s \in Slot, SkipDuplicate(s)
    PROVE  IInv'
<1>1. PICK u \in Update :
      /\ u = Head(queue) /\ queue' \in Seq(Update)
      /\ \A v \in Update : Queued(v) /\ v # u => Queued(v)'
      /\ UNCHANGED <<acked, posts, rows, replies>>
  BY AdmitQueue DEF SkipDuplicate
<1>2. rows[u] > 0 /\ UNCHANGED <<slot, runs, mishaps>>
  BY <1>1 DEF SkipDuplicate
<1>3. TypeOK'
  BY <1>1, <1>2 DEF IInv, TypeOK
<1>6. SlotInv' /\ RecordInv'
  BY <1>1, <1>2 DEF IInv, SlotInv, RecordInv, At
<1>7. CauseInv'
  BY <1>1, <1>2 DEF IInv, CauseInv, At
<1>4. mishaps[u] = {} => runs[u] = 1
  <2>1. runs[u] \in Nat /\ rows[u] # 0
    BY <1>2 DEF IInv, TypeOK
  <2>2. mishaps[u] = {} => runs[u] <= 1 /\ (runs[u] = 0 => rows[u] = 0)
    BY DEF IInv, CleanInv, OnItsWay
  <2> QED  BY <2>1, <2>2
<1>5. CleanInv'
  BY <1>1, <1>2, <1>4 DEF IInv, CleanInv, OnItsWay, At, Running
<1> QED  BY <1>3, <1>5, <1>6, <1>7 DEF IInv

\* An update that is dropped in phase 1 has met its mishap.
LEMMA IdentityFailsKeeps ==
    ASSUME IInv, NEW s \in Slot, IdentityFails(s)
    PROVE  IInv'
<1>1. PICK u \in Update :
      /\ u = Head(queue) /\ queue' \in Seq(Update)
      /\ \A v \in Update : Queued(v) /\ v # u => Queued(v)'
      /\ UNCHANGED <<acked, posts, rows, replies>>
  BY AdmitQueue DEF IdentityFails
<1>2. UNCHANGED <<slot, runs>> /\ mishaps' = [mishaps EXCEPT ![u] = @ \cup {"identity"}]
  BY <1>1 DEF IdentityFails, Suffer
<1>3. /\ "identity" \in mishaps'[u] /\ mishaps'[u] \cap Cause = mishaps[u] \cap Cause
      /\ "persist" \in mishaps'[u] <=> "persist" \in mishaps[u]
      /\ \A v \in Update : v # u => mishaps'[v] = mishaps[v]
  BY <1>1, <1>2 DEF IInv, TypeOK, Cause
<1>4. TypeOK'
  BY <1>1, <1>2 DEF IInv, TypeOK, Mishap
<1>5. SlotInv' /\ RecordInv'
  BY <1>1, <1>2, <1>3 DEF IInv, SlotInv, RecordInv, At
<1>6. CauseInv'
  BY <1>1, <1>2, <1>3 DEF IInv, CauseInv, At
<1>7. CleanInv'
  BY <1>1, <1>2, <1>3 DEF IInv, CleanInv, OnItsWay, At, Running
<1> QED  BY <1>4, <1>5, <1>6, <1>7 DEF IInv

\* A permit in use works on one update.
LEMMA WorkedOn ==
    ASSUME IInv, NEW s \in Slot, slot[s].at # "free"
    PROVE  \E u \in Update : slot[s].update = u
BY DEF IInv, SlotInv

\* A permit that is given back is free, and the others work on.
LEMMA GiveBack ==
    ASSUME IInv, NEW s \in Slot, NEW u \in Update, slot[s].update = u,
           slot' = [slot EXCEPT ![s] = Free]
    PROVE  /\ slot' \in [Slot -> SlotState]
           /\ SlotInv'
           /\ slot'[s].at = "free" /\ slot'[s].update = NoUpdate
           /\ \A r \in Slot : r # s => slot'[r] = slot[r]
           /\ \A v \in Update : v # u =>
                  \A r \in Slot : /\ slot'[r].update = v <=> slot[r].update = v
                                  /\ slot[r].update = v => slot'[r] = slot[r]
<1>1. Free \in SlotState /\ Free.at = "free" /\ Free.update = NoUpdate
  BY BoundsAssumption DEF Free, SlotState
<1>2. slot \in [Slot -> SlotState]
  BY DEF IInv, TypeOK
<1>3. slot' \in [Slot -> SlotState]
  BY <1>1, <1>2
<1>4. slot'[s] = Free /\ \A r \in Slot : r # s => slot'[r] = slot[r]
  BY <1>2
<1>5. SlotInv'
  BY <1>1, <1>4 DEF IInv, SlotInv
<1> QED  BY <1>1, <1>3, <1>4, <1>5, SlotAssumption

\* The update of a turn that raises has met its mishap, a cause for another.
LEMMA TurnFailsKeeps ==
    ASSUME IInv, NEW s \in Slot, TurnFails(s)
    PROVE  IInv'
<1>1. PICK u \in Update : slot[s].update = u
  BY WorkedOn DEF TurnFails
<1>2. /\ slot' = [slot EXCEPT ![s] = Free]
      /\ UNCHANGED <<acked, posts, queue, rows, runs, replies>>
      /\ mishaps' = [mishaps EXCEPT ![u] = @ \cup {"turn"}]
  BY <1>1 DEF TurnFails, Suffer
<1>3. /\ slot' \in [Slot -> SlotState] /\ SlotInv'
      /\ slot'[s].at = "free" /\ slot'[s].update = NoUpdate
      /\ \A r \in Slot : r # s => slot'[r] = slot[r]
      /\ \A v \in Update : v # u =>
             \A r \in Slot : /\ slot'[r].update = v <=> slot[r].update = v
                             /\ slot[r].update = v => slot'[r] = slot[r]
  BY <1>1, <1>2, GiveBack
<1>4. /\ "turn" \in mishaps'[u]
      /\ "persist" \in mishaps'[u] <=> "persist" \in mishaps[u]
      /\ \A v \in Update : v # u => mishaps'[v] = mishaps[v]
  BY <1>1, <1>2 DEF IInv, TypeOK
<1>5. TypeOK'
  BY <1>2, <1>3 DEF IInv, TypeOK, Mishap
<1>6. RecordInv'
  BY <1>2, <1>3, <1>4 DEF IInv, RecordInv, At
<1>7. CauseInv'
  BY <1>2, <1>3, <1>4 DEF IInv, CauseInv, At, Cause
<1>8. CleanInv'
  BY <1>2, <1>3, <1>4 DEF IInv, CleanInv, OnItsWay, At, Running, Queued
<1> QED  BY <1>3, <1>5, <1>6, <1>7, <1>8 DEF IInv

\* A turn that ends has its row, unless the database failed.
LEMMA PersistKeeps ==
    ASSUME IInv, NEW s \in Slot, Persist(s)
    PROVE  IInv'
<1>1. PICK u \in Update : slot[s].update = u
  BY WorkedOn DEF Persist
<1>2. slot[s].at = "turn" /\ UNCHANGED <<acked, posts, queue, runs, replies>>
  BY DEF Persist
<1>3. \/ /\ rows' = IF rows[u] = 0 THEN [rows EXCEPT ![u] = @ + 1] ELSE rows
         /\ UNCHANGED mishaps
      \/ /\ mishaps' = [mishaps EXCEPT ![u] = @ \cup {"persist"}]
         /\ UNCHANGED rows
  BY <1>1 DEF Persist, Suffer
<1>4. TypeOK
  BY DEF IInv
<1>5. /\ slot'[s] = [at |-> "deliver", update |-> u, retries |-> MaxRetries]
      /\ \A r \in Slot : r # s => slot'[r] = slot[r]
  <2>1. slot[s] \in SlotState /\ slot \in [Slot -> SlotState]
    BY <1>4 DEF TypeOK
  <2>2. slot' = [slot EXCEPT ![s].at = "deliver", ![s].retries = MaxRetries]
    BY DEF Persist
  <2> QED  BY <1>1, <2>1, <2>2 DEF SlotState
<1>6. slot' \in [Slot -> SlotState]
  <2>1. [at |-> "deliver", update |-> u, retries |-> MaxRetries] \in SlotState
    BY BoundsAssumption DEF SlotState
  <2>2. slot' = [slot EXCEPT ![s] = slot'[s]]
    BY <1>4 DEF TypeOK, Persist
  <2> QED  BY <1>4, <1>5, <2>1, <2>2 DEF TypeOK
<1>7. /\ slot'[s].at = "deliver"
      /\ \A r \in Slot : slot'[r].update = slot[r].update
      /\ \A v \in Update : v # u =>
             \A r \in Slot : /\ slot'[r].update = v <=> slot[r].update = v
                             /\ slot[r].update = v => slot'[r] = slot[r]
  BY <1>1, <1>5
<1>8. /\ \A v \in Update : v # u => rows'[v] = rows[v] /\ mishaps'[v] = mishaps[v]
      /\ mishaps[u] \subseteq mishaps'[u]
      /\ rows[u] \in Nat /\ rows[u] <= 1
      /\ "persist" \notin mishaps'[u] => rows'[u] = 1 /\ mishaps'[u] = mishaps[u]
      /\ rows'[u] <= 1
      /\ rows[u] = 1 => rows'[u] = 1
  <2>1. rows[u] \in Nat /\ rows[u] <= 1
    BY <1>4 DEF TypeOK, IInv, RecordInv
  <2>2. CASE /\ rows' = IF rows[u] = 0 THEN [rows EXCEPT ![u] = @ + 1] ELSE rows
             /\ UNCHANGED mishaps
    BY <1>4, <2>1, <2>2 DEF TypeOK
  <2>3. CASE mishaps' = [mishaps EXCEPT ![u] = @ \cup {"persist"}] /\ UNCHANGED rows
    BY <1>4, <2>1, <2>3 DEF TypeOK
  <2> QED  BY <1>3, <2>2, <2>3
<1>9. TypeOK'
  <2>1. rows' = rows \/ rows' = [rows EXCEPT ![u] = rows[u] + 1]
    BY <1>3
  <2>3. rows' \in [Update -> Nat]
    <3>1. rows \in [Update -> Nat] /\ rows[u] + 1 \in Nat
      BY <1>4 DEF TypeOK
    <3> QED  BY <2>1, <3>1
  <2>2. mishaps' \in [Update -> SUBSET Mishap]
    BY <1>3, <1>4 DEF TypeOK, Mishap
  <2> QED  BY <1>2, <1>4, <1>6, <2>3, <2>2 DEF TypeOK
<1>10. SlotInv'
  BY <1>5 DEF IInv, SlotInv
<1>11. RecordInv'
  <2>1. /\ rows'[u] <= 1
        /\ replies'[u] > 0 /\ "persist" \notin mishaps'[u] => rows'[u] = 1
        /\ \A r \in Slot : At(r, "deliver", u)' /\ "persist" \notin mishaps'[u] => rows'[u] = 1
    BY <1>8
  <2>2. ASSUME NEW v \in Update, v # u
        PROVE  /\ rows'[v] <= 1
               /\ replies'[v] > 0 /\ "persist" \notin mishaps'[v] => rows'[v] = 1
               /\ \A r \in Slot : At(r, "deliver", v)' /\ "persist" \notin mishaps'[v]
                                  => rows'[v] = 1
    BY <1>2, <1>7, <1>8, <2>2 DEF IInv, RecordInv, At
  <2> QED  BY <2>1, <2>2 DEF RecordInv
<1>12. CauseInv'
  <2>1. ASSUME mishaps'[u] \cap Cause = {}
        PROVE  runs'[u] <= 1 /\ rows'[u] # 0
    <3>1. mishaps[u] \cap Cause = {} /\ rows'[u] = 1
      BY <1>8, <2>1 DEF Cause
    <3> QED  BY <1>2, <3>1 DEF IInv, CauseInv
  <2>2. ASSUME NEW v \in Update, v # u, mishaps'[v] \cap Cause = {}
        PROVE  /\ runs'[v] <= 1
               /\ runs'[v] > 0 /\ rows'[v] = 0 => \E r \in Slot : At(r, "turn", v)'
    BY <1>2, <1>7, <1>8, <2>2 DEF IInv, CauseInv, At
  <2> QED  BY <2>1, <2>2 DEF CauseInv
<1>13. CleanInv'
  <2>1. ASSUME mishaps'[u] = {}  PROVE OnItsWay(u)'
    <3>1. mishaps[u] = {} /\ rows'[u] = 1
      BY <1>8, <2>1
    <3>2. OnItsWay(u)
      BY <3>1 DEF IInv, CleanInv
    <3>3. runs[u] # 0 /\ replies[u] = 0 /\ \A r \in Slot : slot[r].update = u => r = s
      BY <1>1, <1>2, <3>2 DEF OnItsWay, At, Running
    <3>4. /\ \A r \in Slot : slot'[r].update = u <=> r = s
          /\ runs'[u] <= 1 /\ runs'[u] # 0 /\ replies'[u] = 0
      BY <1>1, <1>2, <1>7, <3>2, <3>3 DEF OnItsWay
    <3>5. runs'[u] = 1 /\ Running(u)'
      <4>1. runs'[u] \in Nat
        BY <1>9 DEF TypeOK
      <4> QED  BY <3>4, <4>1 DEF Running
    <3> QED  BY <1>7, <3>1, <3>4, <3>5 DEF OnItsWay, At
  <2>2. ASSUME NEW v \in Update, v # u, mishaps'[v] = {}  PROVE OnItsWay(v)'
    BY <1>2, <1>7, <1>8, <2>2 DEF IInv, CleanInv, OnItsWay, At, Running, Queued
  <2> QED  BY <2>1, <2>2 DEF CleanInv
<1> QED  BY <1>9, <1>10, <1>11, <1>12, <1>13 DEF IInv

\* What a step of delivery does to the update it works on, as far as it matters.
LEMMA DeliverKeeps ==
    ASSUME IInv, NEW s \in Slot, slot[s].at = "deliver",
           NEW u \in Update, slot[s].update = u,
           UNCHANGED <<acked, posts, queue, rows, runs>>,
           slot' \in [Slot -> SlotState],
           slot'[s] = Free \/ (slot'[s].at = "deliver" /\ slot'[s].update = u),
           \A r \in Slot : r # s => slot'[r] = slot[r],
           replies' = replies \/ replies' = [replies EXCEPT ![u] = @ + 1],
           \/ mishaps' = [mishaps EXCEPT ![u] = @ \cup {"send"}]
           \/ mishaps' = mishaps /\ slot'[s] = Free /\ replies'[u] = replies[u] + 1
    PROVE  IInv'
<1>1. TypeOK
  BY DEF IInv
<1>2. TypeOK'
  <2>1. replies' \in [Update -> Nat]
    <3>1. replies \in [Update -> Nat] /\ replies[u] + 1 \in Nat
      BY <1>1 DEF TypeOK
    <3>2. replies' = replies \/ replies' = [replies EXCEPT ![u] = replies[u] + 1]
      OBVIOUS
    <3> QED  BY <3>1, <3>2
  <2>2. mishaps' \in [Update -> SUBSET Mishap]
    <3>1. mishaps \in [Update -> SUBSET Mishap] /\ mishaps[u] \cup {"send"} \in SUBSET Mishap
      BY <1>1 DEF TypeOK, Mishap
    <3>2. mishaps' = mishaps \/ mishaps' = [mishaps EXCEPT ![u] = mishaps[u] \cup {"send"}]
      OBVIOUS
    <3> QED  BY <3>1, <3>2
  <2> QED  BY <1>1, <2>1, <2>2 DEF TypeOK
<1>3. /\ \A v \in Update : v # u => replies'[v] = replies[v] /\ mishaps'[v] = mishaps[v]
      /\ mishaps[u] \subseteq mishaps'[u]
      /\ "persist" \in mishaps'[u] <=> "persist" \in mishaps[u]
      /\ mishaps'[u] \cap Cause = mishaps[u] \cap Cause
      /\ mishaps'[u] = {} => /\ mishaps[u] = {}
                             /\ slot'[s] = Free /\ replies'[u] = replies[u] + 1
  <2>1. \A v \in Update : v # u => replies'[v] = replies[v] /\ mishaps'[v] = mishaps[v]
    BY <1>1 DEF TypeOK
  <2>2. CASE mishaps' = [mishaps EXCEPT ![u] = @ \cup {"send"}]
    BY <1>1, <2>1, <2>2 DEF TypeOK, Cause
  <2>3. CASE mishaps' = mishaps /\ slot'[s] = Free /\ replies'[u] = replies[u] + 1
    BY <2>1, <2>3
  <2> QED  BY <2>2, <2>3
<1>4. \A v \in Update : v # u =>
          \A r \in Slot : /\ slot'[r].update = v <=> slot[r].update = v
                          /\ slot[r].update = v => slot'[r] = slot[r]
  BY SlotAssumption DEF Free
<1>5. SlotInv'
  BY DEF IInv, SlotInv, Free
<1>6. "persist" \notin mishaps[u] => rows[u] = 1
  BY DEF IInv, RecordInv, At
<1>7. RecordInv'
  <2>1. /\ rows'[u] <= 1
        /\ replies'[u] > 0 /\ "persist" \notin mishaps'[u] => rows'[u] = 1
        /\ \A r \in Slot : At(r, "deliver", u)' /\ "persist" \notin mishaps'[u] => rows'[u] = 1
    BY <1>3, <1>6 DEF IInv, RecordInv
  <2>2. ASSUME NEW v \in Update, v # u
        PROVE  /\ rows'[v] <= 1
               /\ replies'[v] > 0 /\ "persist" \notin mishaps'[v] => rows'[v] = 1
               /\ \A r \in Slot : At(r, "deliver", v)' /\ "persist" \notin mishaps'[v]
                                  => rows'[v] = 1
    BY <1>3, <1>4, <2>2 DEF IInv, RecordInv, At
  <2> QED  BY <2>1, <2>2 DEF RecordInv
<1>8. CauseInv'
  <2>1. ASSUME mishaps'[u] \cap Cause = {}
        PROVE  runs'[u] <= 1 /\ rows'[u] # 0
    BY <1>3, <1>6, <2>1 DEF IInv, CauseInv, Cause
  <2>2. ASSUME NEW v \in Update, v # u, mishaps'[v] \cap Cause = {}
        PROVE  /\ runs'[v] <= 1
               /\ runs'[v] > 0 /\ rows'[v] = 0 => \E r \in Slot : At(r, "turn", v)'
    BY <1>3, <1>4, <2>2 DEF IInv, CauseInv, At
  <2> QED  BY <2>1, <2>2 DEF CauseInv
<1>9. CleanInv'
  <2>1. ASSUME mishaps'[u] = {}  PROVE OnItsWay(u)'
    <3>1. mishaps[u] = {} /\ slot'[s] = Free /\ replies'[u] = replies[u] + 1
      BY <1>3, <2>1
    <3>2. OnItsWay(u)
      BY <3>1 DEF IInv, CleanInv
    <3>3. /\ runs[u] # 0 /\ runs[u] <= 1 /\ replies[u] = 0 /\ rows[u] = 1
          /\ \A r \in Slot : slot[r].update = u => r = s
      BY <3>2 DEF OnItsWay, At, Running
    <3>4. runs'[u] = 1 /\ replies'[u] = 1 /\ rows'[u] = 1
      <4>1. runs[u] \in Nat
        BY <1>1 DEF TypeOK
      <4> QED  BY <3>1, <3>3, <4>1
    <3>5. \A r \in Slot : slot'[r].update # u
      BY <3>1, <3>3, SlotAssumption DEF Free
    <3> QED  BY <3>4, <3>5 DEF OnItsWay, At
  <2>2. ASSUME NEW v \in Update, v # u, mishaps'[v] = {}  PROVE OnItsWay(v)'
    BY <1>3, <1>4, <2>2 DEF IInv, CleanInv, OnItsWay, At, Running, Queued
  <2> QED  BY <2>1, <2>2 DEF CleanInv
<1> QED  BY <1>2, <1>5, <1>7, <1>8, <1>9 DEF IInv

\* A reply that reaches the chat ends its update's way.
LEMMA DeliveredKeeps ==
    ASSUME IInv, NEW s \in Slot, Delivered(s)
    PROVE  IInv'
<1>1. PICK u \in Update : slot[s].update = u
  BY WorkedOn DEF Delivered
<1>2. /\ slot[s].at = "deliver" /\ slot' = [slot EXCEPT ![s] = Free]
      /\ replies' = [replies EXCEPT ![u] = @ + 1]
      /\ UNCHANGED <<acked, posts, queue, rows, runs, mishaps>>
  BY <1>1 DEF Delivered
<1>3. /\ slot' \in [Slot -> SlotState]
      /\ slot'[s] = Free /\ slot'[s].at = "free"
      /\ \A r \in Slot : r # s => slot'[r] = slot[r]
  BY <1>1, <1>2, GiveBack DEF IInv, TypeOK
<1>4. replies'[u] = replies[u] + 1
  BY <1>2 DEF IInv, TypeOK
<1> QED  BY <1>1, <1>2, <1>3, <1>4, DeliverKeeps

\* A delivery that is refused is over.
LEMMA SendRefusedKeeps ==
    ASSUME IInv, NEW s \in Slot, SendRefused(s)
    PROVE  IInv'
<1>1. PICK u \in Update : slot[s].update = u
  BY WorkedOn DEF SendRefused
<1>2. /\ slot[s].at = "deliver" /\ slot' = [slot EXCEPT ![s] = Free]
      /\ mishaps' = [mishaps EXCEPT ![u] = @ \cup {"send"}]
      /\ UNCHANGED <<acked, posts, queue, rows, runs, replies>>
  BY <1>1 DEF SendRefused, Suffer
<1>3. /\ slot' \in [Slot -> SlotState]
      /\ slot'[s] = Free /\ slot'[s].at = "free"
      /\ \A r \in Slot : r # s => slot'[r] = slot[r]
  BY <1>1, <1>2, GiveBack DEF IInv, TypeOK
<1> QED  BY <1>1, <1>2, <1>3, DeliverKeeps

\* One that fails is tried again, or is over.
LEMMA SendFailsKeeps ==
    ASSUME IInv, NEW s \in Slot, SendFails(s)
    PROVE  IInv'
<1>1. PICK u \in Update : slot[s].update = u
  BY WorkedOn DEF SendFails
<1>2. /\ slot[s].at = "deliver"
      /\ mishaps' = [mishaps EXCEPT ![u] = @ \cup {"send"}]
      /\ replies' = replies \/ replies' = [replies EXCEPT ![u] = @ + 1]
      /\ UNCHANGED <<acked, posts, queue, rows, runs>>
  BY <1>1 DEF SendFails, Suffer
<1>3. slot[s] \in SlotState /\ slot \in [Slot -> SlotState] /\ MaxRetries \in Nat
  BY BoundsAssumption DEF IInv, TypeOK
<1>4. CASE slot[s].retries > 0
  <2>1. slot' = [slot EXCEPT ![s] = [slot[s] EXCEPT !.retries = @ - 1]]
    BY <1>4 DEF SendFails
  <2>2. /\ [slot[s] EXCEPT !.retries = @ - 1] \in SlotState
        /\ [slot[s] EXCEPT !.retries = @ - 1].at = "deliver"
        /\ [slot[s] EXCEPT !.retries = @ - 1].update = u
    BY <1>1, <1>2, <1>3, <1>4 DEF SlotState
  <2>3. /\ slot' \in [Slot -> SlotState]
        /\ slot'[s].at = "deliver" /\ slot'[s].update = u
        /\ \A r \in Slot : r # s => slot'[r] = slot[r]
    BY <1>3, <2>1, <2>2
  <2> QED  BY <1>1, <1>2, <2>3, DeliverKeeps
<1>5. CASE ~(slot[s].retries > 0)
  <2>1. slot' = [slot EXCEPT ![s] = Free]
    BY <1>5 DEF SendFails
  <2>2. /\ slot' \in [Slot -> SlotState]
        /\ slot'[s] = Free /\ slot'[s].at = "free"
        /\ \A r \in Slot : r # s => slot'[r] = slot[r]
    BY <1>1, <2>1, GiveBack DEF IInv, TypeOK
  <2> QED  BY <1>1, <1>2, <2>2, DeliverKeeps
<1> QED  BY <1>4, <1>5

\* A crash is a mishap of, and a cause for another turn of, all it interrupts.
LEMMA CrashKeeps ==
    ASSUME IInv, Crash
    PROVE  IInv'
<1>1. /\ queue' = <<>> /\ slot' = [s \in Slot |-> Free]
      /\ UNCHANGED <<acked, posts, rows, runs, replies>>
      /\ mishaps' = [u \in Update |-> IF Queued(u) \/ Running(u)
                                      THEN mishaps[u] \cup {"crash"} ELSE mishaps[u]]
  BY DEF Crash
<1>2. \A s \in Slot : slot'[s] = Free /\ slot'[s].at = "free" /\ slot'[s].update = NoUpdate
  BY <1>1 DEF Free
<1>3. \A u \in Update :
          /\ "persist" \in mishaps'[u] <=> "persist" \in mishaps[u]
          /\ "crash" \notin mishaps'[u] => /\ ~Queued(u) /\ ~Running(u)
                                           /\ mishaps'[u] = mishaps[u]
  BY <1>1
<1>4. TypeOK'
  <2>1. Free \in SlotState
    BY BoundsAssumption DEF Free, SlotState
  <2>2. mishaps' \in [Update -> SUBSET Mishap]
    BY <1>1 DEF IInv, TypeOK, Mishap
  <2> QED  BY <1>1, <2>1, <2>2 DEF IInv, TypeOK
<1>5. SlotInv'
  BY <1>2 DEF SlotInv
<1>6. RecordInv'
  BY <1>1, <1>2, <1>3 DEF IInv, RecordInv, At
<1>7. CauseInv'
  BY <1>1, <1>3 DEF IInv, CauseInv, At, Running, Cause
<1>8. CleanInv'
  <2>1. ASSUME NEW u \in Update, mishaps'[u] = {}  PROVE OnItsWay(u)'
    <3>1. ~Queued(u) /\ ~Running(u) /\ OnItsWay(u)
      BY <1>3, <2>1 DEF IInv, CleanInv
    <3>2. \A s \in Slot : slot'[s].update # u
      BY <1>2, SlotAssumption
    <3> QED  BY <1>1, <3>1, <3>2 DEF OnItsWay, At, Running
  <2> QED  BY <2>1 DEF CleanInv
<1> QED  BY <1>4, <1>5, <1>6, <1>7, <1>8 DEF IInv

\* Every step keeps the invariant.
LEMMA StepIInv == IInv /\ [Next]_vars => IInv'
<1> SUFFICES ASSUME IInv, [Next]_vars  PROVE IInv'
  OBVIOUS
<1>1. ASSUME NEW u \in Update, Post(u)  PROVE IInv'
  BY <1>1, PostKeeps
<1>2. ASSUME NEW s \in Slot, Take(s)  PROVE IInv'
  BY <1>2, StartTurnKeeps, SkipDuplicateKeeps, IdentityFailsKeeps DEF Take
<1>3. ASSUME NEW s \in Slot, Work(s)  PROVE IInv'
  BY <1>3, TurnFailsKeeps, PersistKeeps DEF Work
<1>4. ASSUME NEW s \in Slot, Deliver(s)  PROVE IInv'
  BY <1>4, DeliveredKeeps, SendFailsKeeps, SendRefusedKeeps DEF Deliver
<1>5. CASE Crash
  BY <1>5, CrashKeeps
<1>6. CASE UNCHANGED vars
  BY <1>6, StutterIInv
<1> QED  BY <1>1, <1>2, <1>3, <1>4, <1>5, <1>6 DEF Next

\* It holds in every state of every run.
LEMMA InvariantKept == Spec => []IInv
  BY InitIInv, StepIInv, PTL DEF Spec

-----------------------------------------------------------------------------
(***************************************************************************)
(* How many replies the turns so far may still cost: RepliesBounded speaks *)
(* of a sum over the permits, which is here the size of a set.             *)
(***************************************************************************)

\* The copies an update's permits can still send: a turn all MaxRetries + 1 of
\* them, a delivery one for each retry left and one more.
CopiesDue(u) ==
    {c \in Slot \X (0..MaxRetries) :
        /\ slot[c[1]].at # "free" /\ slot[c[1]].update = u
        /\ slot[c[1]].at = "deliver" => c[2] <= slot[c[1]].retries}

\* What has been sent and what can still be is covered by the turns so far.
Covered(u) ==
    /\ IsFiniteSet(CopiesDue(u))
    /\ replies[u] + Cardinality(CopiesDue(u)) <= runs[u] * (MaxRetries + 1)

CopiesInv == \A u \in Update : Covered(u)

\* An update that is sent nothing, and can be sent no more than before, stays
\* covered.
LEMMA FewerCopies ==
    ASSUME IInv, IInv', NEW u \in Update, Covered(u),
           replies'[u] = replies[u], runs'[u] = runs[u],
           CopiesDue(u)' \subseteq CopiesDue(u)
    PROVE  Covered(u)'
<1>1. /\ IsFiniteSet(CopiesDue(u)') /\ Cardinality(CopiesDue(u)') \in Nat
      /\ Cardinality(CopiesDue(u)') <= Cardinality(CopiesDue(u))
      /\ Cardinality(CopiesDue(u)) \in Nat
  BY FS_Subset, FS_CardinalityType DEF Covered
<1>2. replies[u] \in Nat /\ runs[u] \in Nat /\ MaxRetries \in Nat
  BY BoundsAssumption DEF IInv, TypeOK
<1>3. runs[u] * (MaxRetries + 1) \in Nat
  BY <1>2
<1> QED  BY <1>1, <1>2, <1>3 DEF Covered

\* One that is sent a copy pays for it with one that was due.
LEMMA CopySent ==
    ASSUME IInv, IInv', NEW u \in Update, Covered(u),
           replies'[u] <= replies[u] + 1, runs'[u] = runs[u],
           NEW c \in CopiesDue(u), CopiesDue(u)' \subseteq CopiesDue(u) \ {c}
    PROVE  Covered(u)'
<1>1. /\ IsFiniteSet(CopiesDue(u) \ {c})
      /\ Cardinality(CopiesDue(u) \ {c}) = Cardinality(CopiesDue(u)) - 1
  BY FS_RemoveElement DEF Covered
<1>2. /\ IsFiniteSet(CopiesDue(u)') /\ Cardinality(CopiesDue(u)') \in Nat
      /\ Cardinality(CopiesDue(u)') <= Cardinality(CopiesDue(u) \ {c})
  BY <1>1, FS_Subset, FS_CardinalityType
<1>3. Cardinality(CopiesDue(u)) \in Nat
  BY FS_CardinalityType DEF Covered
<1>4. /\ replies[u] \in Nat /\ replies'[u] \in Nat /\ runs[u] \in Nat /\ MaxRetries \in Nat
  BY BoundsAssumption DEF IInv, TypeOK
<1>5. runs[u] * (MaxRetries + 1) \in Nat
  BY <1>4
<1> QED  BY <1>1, <1>2, <1>3, <1>4, <1>5 DEF Covered

\* A permit that starts a turn is due at most MaxRetries + 1 copies.
LEMMA CopiesOfOne ==
    ASSUME NEW s \in Slot
    PROVE  /\ IsFiniteSet({s} \X (0..MaxRetries))
           /\ Cardinality({s} \X (0..MaxRetries)) = MaxRetries + 1
<1> DEFINE f == [i \in 0..MaxRetries |-> <<s, i>>]
<1>1. f \in Bijection(0..MaxRetries, {s} \X (0..MaxRetries))
  <2>1. f \in [0..MaxRetries -> {s} \X (0..MaxRetries)]
    OBVIOUS
  <2>2. \A i, j \in 0..MaxRetries : f[i] = f[j] => i = j
    OBVIOUS
  <2>3. \A c \in {s} \X (0..MaxRetries) : \E i \in 0..MaxRetries : f[i] = c
    OBVIOUS
  <2> QED  BY <2>1, <2>2, <2>3, Fun_IsBij
<1>2. ExistsBijection(0..MaxRetries, {s} \X (0..MaxRetries))
  BY <1>1 DEF ExistsBijection
<1>3. IsFiniteSet(0..MaxRetries) /\ Cardinality(0..MaxRetries) = MaxRetries + 1
  BY BoundsAssumption, FS_Interval
<1> QED  BY <1>2, <1>3, FS_Bijection

\* A turn pays for the copies it makes due.
LEMMA TurnCovers ==
    ASSUME IInv, IInv', NEW u \in Update, Covered(u), NEW s \in Slot,
           replies'[u] = replies[u], runs'[u] = runs[u] + 1,
           CopiesDue(u)' \subseteq CopiesDue(u) \cup ({s} \X (0..MaxRetries))
    PROVE  Covered(u)'
<1> DEFINE New == {s} \X (0..MaxRetries)
<1>1. IsFiniteSet(New) /\ Cardinality(New) = MaxRetries + 1
  BY CopiesOfOne
<1>2. /\ IsFiniteSet(CopiesDue(u) \cup New)
      /\ Cardinality(CopiesDue(u) \cup New)
            = Cardinality(CopiesDue(u)) + Cardinality(New) - Cardinality(CopiesDue(u) \cap New)
  BY <1>1, FS_Union DEF Covered
<1>3. IsFiniteSet(CopiesDue(u) \cap New) /\ Cardinality(CopiesDue(u) \cap New) \in Nat
  BY <1>1, FS_Subset, FS_CardinalityType
<1>4. /\ IsFiniteSet(CopiesDue(u)') /\ Cardinality(CopiesDue(u)') \in Nat
      /\ Cardinality(CopiesDue(u)') <= Cardinality(CopiesDue(u) \cup New)
  BY <1>2, FS_Subset, FS_CardinalityType
<1>5. Cardinality(CopiesDue(u)) \in Nat
  BY FS_CardinalityType DEF Covered
<1>6. /\ replies[u] \in Nat /\ runs[u] \in Nat /\ MaxRetries \in Nat
  BY BoundsAssumption DEF IInv, TypeOK
<1>7. (runs[u] + 1) * (MaxRetries + 1) = runs[u] * (MaxRetries + 1) + (MaxRetries + 1)
  BY <1>6
<1>8. runs[u] * (MaxRetries + 1) \in Nat
  BY <1>6
<1>9. Cardinality(CopiesDue(u)') <= Cardinality(CopiesDue(u)) + (MaxRetries + 1)
  BY <1>1, <1>2, <1>3, <1>4, <1>5, <1>6
<1>10. replies'[u] + Cardinality(CopiesDue(u)') <= runs'[u] * (MaxRetries + 1)
  <2>1. replies[u] + Cardinality(CopiesDue(u)) <= runs[u] * (MaxRetries + 1)
    BY DEF Covered
  <2>2. replies'[u] + Cardinality(CopiesDue(u)')
            <= runs[u] * (MaxRetries + 1) + (MaxRetries + 1)
    BY <1>4, <1>5, <1>6, <1>8, <1>9, <2>1
  <2> QED  BY <1>7, <2>2
<1> QED  BY <1>4, <1>10 DEF Covered

\* A permit that gives its work up, or back, makes nothing due.
LEMMA FreedDue ==
    ASSUME NEW s \in Slot, slot'[s] = Free, \A r \in Slot : r # s => slot'[r] = slot[r],
           NEW u \in Update
    PROVE  CopiesDue(u)' \subseteq CopiesDue(u) \ {<<s, 0>>}
BY DEF CopiesDue, Free

\* A permit that is delivering has a copy due, its last one.
LEMMA CopyDue ==
    ASSUME IInv, NEW s \in Slot, slot[s].at = "deliver", NEW u \in Update, slot[s].update = u
    PROVE  /\ slot[s].retries \in 0..MaxRetries
           /\ <<s, slot[s].retries>> \in CopiesDue(u) /\ <<s, 0>> \in CopiesDue(u)
BY BoundsAssumption DEF IInv, TypeOK, SlotState, CopiesDue

\* Nothing is sent, and nothing due, at first.
LEMMA InitCopies == Init => CopiesInv
<1> SUFFICES ASSUME Init, NEW u \in Update  PROVE Covered(u)
  BY DEF CopiesInv
<1>1. CopiesDue(u) = {}
  BY DEF Init, CopiesDue, Free
<1>2. replies[u] = 0 /\ runs[u] * (MaxRetries + 1) = 0
  BY BoundsAssumption DEF Init
<1> QED  BY <1>1, <1>2, FS_EmptySet DEF Covered

\* A delivery sends what it has due.
LEMMA DeliverCovers ==
    ASSUME IInv, IInv', CopiesInv, NEW s \in Slot, Deliver(s)
    PROVE  CopiesInv'
<1>1. PICK u \in Update : slot[s].update = u
  BY WorkedOn DEF Deliver, Delivered, SendFails, SendRefused
<1>2. /\ slot[s].at = "deliver" /\ runs' = runs
      /\ replies' = replies \/ replies' = [replies EXCEPT ![u] = @ + 1]
      /\ \A r \in Slot : r # s => slot'[r] = slot[r]
      /\ replies \in [Update -> Nat] /\ slot \in [Slot -> SlotState] /\ slot[s] \in SlotState
  BY <1>1 DEF Deliver, Delivered, SendFails, SendRefused, IInv, TypeOK
<1>3. PICK c \in CopiesDue(u) : CopiesDue(u)' \subseteq CopiesDue(u) \ {c}
  <2>1. CASE slot'[s] = Free
    BY <1>1, <1>2, <2>1, FreedDue, CopyDue
  <2>2. CASE slot'[s] # Free
    <3>1. slot[s].retries > 0 /\ slot'[s] = [slot[s] EXCEPT !.retries = @ - 1]
      BY <1>2, <2>2 DEF Deliver, Delivered, SendFails, SendRefused
    <3>2. /\ slot'[s].at = "deliver" /\ slot'[s].update = u
          /\ slot'[s].retries = slot[s].retries - 1 /\ slot[s].retries \in Nat
      BY <1>1, <1>2, <3>1, BoundsAssumption DEF SlotState
    <3>3. CopiesDue(u)' \subseteq CopiesDue(u) \ {<<s, slot[s].retries>>}
      <4> SUFFICES ASSUME NEW c \in CopiesDue(u)'
                   PROVE  c \in CopiesDue(u) /\ c # <<s, slot[s].retries>>
        OBVIOUS
      <4>1. /\ c \in Slot \X (0..MaxRetries) /\ slot'[c[1]].at # "free"
            /\ slot'[c[1]].update = u
            /\ slot'[c[1]].at = "deliver" => c[2] <= slot'[c[1]].retries
        BY DEF CopiesDue
      <4>2. CASE c[1] = s
        BY <1>1, <1>2, <3>2, <4>1, <4>2 DEF CopiesDue
      <4>3. CASE c[1] # s
        BY <1>2, <4>1, <4>3 DEF CopiesDue
      <4> QED  BY <4>2, <4>3
    <3> QED  BY <1>1, <1>2, <3>3, CopyDue
  <2> QED  BY <2>1, <2>2
<1>4. Covered(u)'
  BY <1>2, <1>3, CopySent DEF CopiesInv
<1>5. ASSUME NEW v \in Update, v # u  PROVE Covered(v)'
  <2>1. replies'[v] = replies[v] /\ runs'[v] = runs[v]
    BY <1>2, <1>5
  <2>2. slot'[s] = Free \/ slot'[s].update = u
    BY <1>1, <1>2 DEF Deliver, Delivered, SendFails, SendRefused, SlotState
  <2>3. CopiesDue(v)' \subseteq CopiesDue(v)
    BY <1>2, <1>5, <2>2 DEF CopiesDue, Free
  <2> QED  BY <2>1, <2>3, FewerCopies DEF CopiesInv
<1> QED  BY <1>4, <1>5 DEF CopiesInv

\* A turn that starts pays for its own replies.
LEMMA StartTurnCovers ==
    ASSUME IInv, IInv', CopiesInv, NEW s \in Slot, StartTurn(s)
    PROVE  CopiesInv'
<1>1. PICK u \in Update : u = Head(queue) /\ replies' = replies
  BY AdmitQueue DEF StartTurn
<1>2. /\ slot' = [slot EXCEPT ![s] = [at |-> "turn", update |-> u, retries |-> 0]]
      /\ runs' = [runs EXCEPT ![u] = @ + 1]
      /\ runs \in [Update -> Nat] /\ slot \in [Slot -> SlotState]
  BY <1>1 DEF StartTurn, IInv, TypeOK
<1>3. slot'[s].update = u /\ \A r \in Slot : r # s => slot'[r] = slot[r]
  BY <1>2
<1>4. Covered(u)'
  <2>1. runs'[u] = runs[u] + 1 /\ replies'[u] = replies[u]
    BY <1>1, <1>2
  <2>2. CopiesDue(u)' \subseteq CopiesDue(u) \cup ({s} \X (0..MaxRetries))
    BY <1>3 DEF CopiesDue
  <2> QED  BY <2>1, <2>2, TurnCovers DEF CopiesInv
<1>5. ASSUME NEW v \in Update, v # u  PROVE Covered(v)'
  <2>1. runs'[v] = runs[v] /\ replies'[v] = replies[v]
    BY <1>1, <1>2, <1>5
  <2>2. CopiesDue(v)' \subseteq CopiesDue(v)
    BY <1>3, <1>5 DEF CopiesDue
  <2> QED  BY <2>1, <2>2, FewerCopies DEF CopiesInv
<1> QED  BY <1>4, <1>5 DEF CopiesInv

\* Every other step sends nothing and makes nothing due.
LEMMA QuietCovers ==
    ASSUME IInv, IInv', CopiesInv, replies' = replies, runs' = runs,
           \A u \in Update : CopiesDue(u)' \subseteq CopiesDue(u)
    PROVE  CopiesInv'
BY FewerCopies DEF CopiesInv

\* Every step keeps the updates covered.
LEMMA StepCopies == IInv /\ CopiesInv /\ [Next]_vars => CopiesInv'
<1> SUFFICES ASSUME IInv, CopiesInv, [Next]_vars  PROVE CopiesInv'
  OBVIOUS
<1>i. IInv'
  BY StepIInv
<1>1. ASSUME NEW u \in Update, Post(u)  PROVE CopiesInv'
  BY <1>i, <1>1, QuietCovers DEF Post, CopiesDue
<1>2. ASSUME NEW s \in Slot, Take(s)  PROVE CopiesInv'
  <2>1. CASE StartTurn(s)
    BY <1>i, <2>1, StartTurnCovers
  <2>2. CASE SkipDuplicate(s) \/ IdentityFails(s)
    BY <1>i, <2>2, QuietCovers DEF SkipDuplicate, IdentityFails, Admit, CopiesDue
  <2> QED  BY <1>2, <2>1, <2>2 DEF Take
<1>3. ASSUME NEW s \in Slot, Work(s)  PROVE CopiesInv'
  <2>1. replies' = replies /\ runs' = runs /\ slot[s].at = "turn" /\ slot \in [Slot -> SlotState]
    BY <1>3 DEF Work, TurnFails, Persist, IInv, TypeOK
  <2>2. \A r \in Slot : r # s => slot'[r] = slot[r]
    BY <1>3, <2>1 DEF Work, TurnFails, Persist
  <2>3. slot'[s].at = "free" \/ slot'[s].update = slot[s].update
    BY <1>3, <2>1 DEF Work, TurnFails, Persist, Free, SlotState
  <2>4. \A u \in Update : CopiesDue(u)' \subseteq CopiesDue(u)
    BY <2>1, <2>2, <2>3 DEF CopiesDue
  <2> QED  BY <1>i, <2>1, <2>4, QuietCovers
<1>4. ASSUME NEW s \in Slot, Deliver(s)  PROVE CopiesInv'
  BY <1>i, <1>4, DeliverCovers
<1>5. CASE Crash
  BY <1>i, <1>5, QuietCovers DEF Crash, CopiesDue, Free
<1>6. CASE UNCHANGED vars
  BY <1>i, <1>6, QuietCovers DEF vars, CopiesDue
<1> QED  BY <1>1, <1>2, <1>3, <1>4, <1>5, <1>6 DEF Next

-----------------------------------------------------------------------------
(***************************************************************************)
(* The theorems.                                                           *)
(***************************************************************************)

\* Every variable keeps its type, the permits and the retries their bounds.
THEOREM TypeCorrect == Spec => []TypeOK
<1>1. IInv => TypeOK
  BY DEF IInv
<1> QED  BY <1>1, InvariantKept, PTL

\* The invariant implies that an update is recorded once.
LEMMA InvRecords == IInv => RecordedOnce
  BY DEF IInv, RecordInv, RecordedOnce

\* The history has no update twice, and has all a customer was told, unless
\* writing it failed: RecordedOnce for any number of deliveries and faults.
THEOREM HistoryIsTrue == Spec => []RecordedOnce
  BY InvRecords, InvariantKept, PTL

\* It implies that a second turn has a cause.
LEMMA InvCauses == IInv => RerunHasCause
<1> SUFFICES ASSUME IInv, NEW u \in Update, runs[u] > 1, mishaps[u] \cap Cause = {}
             PROVE  FALSE
  BY DEF RerunHasCause, Cause
<1>1. runs[u] \in Nat /\ runs[u] <= 1
  BY DEF IInv, TypeOK, CauseInv
<1> QED  BY <1>1

\* An update is worked on again only if its first turn was still under way or
\* died without its row: the duplicate check needs no other excuse.
THEOREM SecondTurnHasCause == Spec => []RerunHasCause
  BY InvCauses, InvariantKept, PTL

\* It implies that an update nothing went wrong with is handled once.
LEMMA InvHandles == IInv => HandledExactlyOnce
<1> SUFFICES ASSUME IInv, NEW u \in Update \ Ignored, Settled(u), mishaps[u] = {}
             PROVE  runs[u] = 1 /\ rows[u] = 1 /\ replies[u] = 1
  BY DEF HandledExactlyOnce
<1>1. OnItsWay(u) /\ posts[u] > 0 /\ ~Queued(u) /\ ~Running(u)
  BY DEF IInv, CleanInv, Settled
<1> QED  BY <1>1 DEF OnItsWay

\* An update nothing goes wrong with gets one turn, one record and one reply,
\* whatever happens to the others and however often it is delivered.
THEOREM CleanUpdateHandledOnce == Spec => []HandledExactlyOnce
  BY InvHandles, InvariantKept, PTL

\* What is covered is bounded.
LEMMA InvBoundsReplies == IInv /\ CopiesInv => RepliesBounded
<1> SUFFICES ASSUME IInv, NEW u \in Update, Covered(u)
             PROVE  replies[u] <= runs[u] * (MaxRetries + 1)
  BY DEF CopiesInv, RepliesBounded
<1>1. replies[u] \in Nat /\ runs[u] * (MaxRetries + 1) \in Nat
  BY BoundsAssumption DEF IInv, TypeOK
<1>2. Cardinality(CopiesDue(u)) \in Nat
  BY FS_CardinalityType DEF Covered
<1> QED  BY <1>1, <1>2 DEF Covered

\* However often its delivery is retried, and however many of those that seemed
\* to fail arrived, a turn's reply reaches the chat at most MaxRetries + 1 times,
\* twins, crashes and redeliveries included.
THEOREM RepliesStayBounded == Spec => []RepliesBounded
<1>1. IInv /\ CopiesInv /\ [Next]_vars => (IInv /\ CopiesInv)'
  BY StepIInv, StepCopies
<1>2. Spec => [](IInv /\ CopiesInv)
  BY <1>1, InitIInv, InitCopies, PTL DEF Spec
<1> QED  BY <1>2, InvBoundsReplies, PTL

=============================================================================
