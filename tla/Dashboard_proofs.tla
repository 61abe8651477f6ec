--------------------------- MODULE Dashboard_proofs ---------------------------
(***************************************************************************)
(* The safety properties of Dashboard for any conversations, filters and   *)
(* pages, any number of requests in flight and any order of their answers. *)
(***************************************************************************)
EXTENDS Dashboard, SequenceTheorems, TLAPS

-----------------------------------------------------------------------------
(***************************************************************************)
(* The inductive invariant, in named parts.                                *)
(***************************************************************************)

\* Nobody is selected without a session, and nobody signs in during one.
LoginInv ==
    /\ token # "none" => session >= 1
    /\ token = "none" => selected = None
    /\ login = "submitting" => token = "none" /\ session < MaxSession
    /\ selected # None => selected.session = session
    /\ query.of \in Filter

\* What a request in flight asks for; the newest of the thread's, and of the
\* pane's, asks for what is wanted.
LoadOK(l) ==
    /\ l.session = session
    /\ l.to = "list" => l.query.page <= serverPages /\ l.pages <= serverPages
    /\ l.to = "pane" => l.query.of \in Filter
    /\ l.newest /\ l.to \in {"thread", "pane"} => l.query = Wanted(l.to)

LoadInv ==
    /\ \A i \in DOMAIN loads : LoadOK(loads[i])
    /\ \A i, j \in DOMAIN loads :
           loads[i].newest /\ loads[j].newest /\ loads[i].to = loads[j].to => i = j

\* What a component shows was asked for in this session.
ShownOK(c) ==
    ui[c].data # None =>
        /\ ui[c].data.session = session
        /\ c = "list" => ui[c].data.query.page <= serverPages /\ ui[c].data.pages <= serverPages
        /\ c = "pane" => /\ ui[c].data.query.of \in Filter
                         /\ ui[c].data.pages = PagesOf[ui[c].data.query.of]

\* What the newest load has come to, and which loads may still be in flight then.
HistOK(c) ==
    /\ hist[c].last = "none" => ui[c].data = None /\ ~hist[c].overlap
    /\ hist[c].last = "pending" /\ ~hist[c].overlap => ui[c].loading
    /\ hist[c].last = "failed" => ui[c].error
    /\ hist[c].last # "pending" =>
           \A i \in DOMAIN loads : loads[i].to = c => ~loads[i].newest
    /\ ~hist[c].overlap =>
           \A i \in DOMAIN loads : loads[i].to = c => loads[i].newest

\* SpinnerHonest and SerialShowsSelection, of one component.
SpinnerOK(c) ==
    /\ ui[c].loading => Busy(c)
    /\ c = "thread" =>
           (ui[c].loading <=> \E i \in DOMAIN loads : loads[i].to = c /\ loads[i].newest)

SerialOK(c) ==
    c # "list" /\ hist[c].last = "ok" /\ ~hist[c].overlap /\ ~ui[c].error
        => ui[c].data # None /\ ui[c].data.query = Wanted(c)

ComponentInv ==
    \A c \in Component : ShownOK(c) /\ HistOK(c) /\ SpinnerOK(c) /\ SerialOK(c)

IInv ==
    /\ TypeOK
    /\ LoginInv
    /\ LoadInv
    /\ ComponentInv

-----------------------------------------------------------------------------
(***************************************************************************)
(* The requests in flight.                                                 *)
(***************************************************************************)

\* Where the element at j was before the one at i was removed.
Before(i, j) == IF j < i THEN j ELSE j + 1

\* Removing an element keeps the others, in their order.
LEMMA RemoveOne ==
    ASSUME NEW S, NEW s \in Seq(S), NEW i \in DOMAIN s
    PROVE  /\ RemoveAt(s, i) \in Seq(S)
           /\ \A j \in DOMAIN RemoveAt(s, i) : /\ Before(i, j) \in DOMAIN s \ {i}
                                               /\ RemoveAt(s, i)[j] = s[Before(i, j)]
           /\ \A k \in DOMAIN s \ {i} :
                  \E j \in DOMAIN RemoveAt(s, i) : Before(i, j) = k
<1> DEFINE a == SubSeq(s, 1, i - 1)
           b == SubSeq(s, i + 1, Len(s))
<1>1. /\ Len(s) \in Nat /\ DOMAIN s = 1..Len(s) /\ i \in 1..Len(s)
      /\ \A k \in 1..Len(s) : s[k] \in S
  BY LenProperties, ElementOfSeq
<1>2. /\ a \in Seq(S) /\ Len(a) = i - 1
      /\ \A j \in 1..(i - 1) : a[j] = s[j]
  <2>1. \A k \in 1..(i - 1) : s[k] \in S
    BY <1>1
  <2>2. /\ a \in Seq(S)
        /\ Len(a) = IF 1 <= i - 1 THEN (i - 1) - 1 + 1 ELSE 0
        /\ \A j \in 1..((i - 1) - 1 + 1) : a[j] = s[1 + j - 1]
    BY <1>1, <2>1, SubSeqProperties
  <2> QED  BY <1>1, <2>2
<1>3. /\ b \in Seq(S) /\ Len(b) = Len(s) - i
      /\ \A j \in 1..(Len(s) - i) : b[j] = s[j + i]
  <2>1. \A k \in (i + 1)..Len(s) : s[k] \in S
    BY <1>1
  <2>2. /\ b \in Seq(S)
        /\ Len(b) = IF i + 1 <= Len(s) THEN Len(s) - (i + 1) + 1 ELSE 0
        /\ \A j \in 1..(Len(s) - (i + 1) + 1) : b[j] = s[(i + 1) + j - 1]
    BY <1>1, <2>1, SubSeqProperties
  <2> HIDE DEF b
  <2>3. Len(b) = Len(s) - i
    BY <1>1, <2>2
  <2>4. ASSUME NEW j \in 1..(Len(s) - i)  PROVE b[j] = s[j + i]
    <3>1. j \in 1..(Len(s) - (i + 1) + 1) /\ (i + 1) + j - 1 = j + i
      BY <1>1
    <3> QED  BY <2>2, <3>1
  <2> QED  BY <2>2, <2>3, <2>4
<1>4. RemoveAt(s, i) = a \o b
  BY DEF RemoveAt
<1> HIDE DEF a, b
<1>5. /\ a \o b \in Seq(S)
      /\ Len(a \o b) = Len(s) - 1
      /\ \A j \in 1..(Len(s) - 1) : (a \o b)[j] = IF j <= i - 1 THEN a[j] ELSE b[j - (i - 1)]
  <2>1. /\ a \o b \in Seq(S) /\ Len(a \o b) = Len(a) + Len(b)
        /\ \A j \in 1..(Len(a) + Len(b)) :
               (a \o b)[j] = IF j <= Len(a) THEN a[j] ELSE b[j - Len(a)]
    BY <1>2, <1>3, ConcatProperties
  <2>2. Len(a) = i - 1 /\ Len(a) + Len(b) = Len(s) - 1
    BY <1>1, <1>2, <1>3
  <2> QED  BY <2>1, <2>2
<1>6. DOMAIN (a \o b) = 1..(Len(s) - 1)
  BY <1>5, LenProperties
<1>7. ASSUME NEW j \in 1..(Len(s) - 1)
      PROVE  /\ Before(i, j) \in DOMAIN s \ {i}
             /\ (a \o b)[j] = s[Before(i, j)]
  <2>1. CASE j < i
    BY <1>1, <1>2, <1>5, <2>1 DEF Before
  <2>2. CASE ~(j < i)
    <3>1. j - (i - 1) \in 1..(Len(s) - i) /\ (j - (i - 1)) + i = j + 1
      BY <1>1, <2>2
    <3>2. (a \o b)[j] = b[j - (i - 1)]
      BY <1>1, <1>5, <2>2
    <3>3. b[j - (i - 1)] = s[j + 1]
      BY <1>3, <3>1
    <3>4. Before(i, j) = j + 1 /\ j + 1 \in DOMAIN s \ {i}
      BY <1>1, <2>2 DEF Before
    <3> QED  BY <3>2, <3>3, <3>4
  <2> QED  BY <2>1, <2>2
<1>8. ASSUME NEW k \in DOMAIN s \ {i}
      PROVE  \E j \in 1..(Len(s) - 1) : Before(i, j) = k
  <2>1. CASE k < i
    BY <1>1, <2>1 DEF Before
  <2>2. CASE ~(k < i)
    <3>1. k - 1 \in 1..(Len(s) - 1) /\ Before(i, k - 1) = k
      BY <1>1, <2>2 DEF Before
    <3> QED  BY <3>1
  <2> QED  BY <2>1, <2>2
<1> QED  BY <1>4, <1>5, <1>6, <1>7, <1>8

\* A request with the type its component gives it.
LEMMA LoadTyped ==
    ASSUME NEW c \in Component, NEW q \in Query, NEW tok, NEW ses \in 1..MaxSession,
           serverPages \in 1..MaxPages
    PROVE  /\ Load(c, q, tok, ses) \in LoadType
           /\ Load(c, q, tok, ses).to = c /\ Load(c, q, tok, ses).query = q
           /\ Load(c, q, tok, ses).newest /\ Load(c, q, tok, ses).session = ses
           /\ Load(c, q, tok, ses).pages = serverPages
BY DEF Load, LoadType

\* A request joins the others; those of its component are the newest no more.
LEMMA RequestLoads ==
    ASSUME TypeOK, NEW c \in Component, NEW q \in Query, session >= 1, Request(c, q)
    PROVE  /\ loads' \in Seq(LoadType)
           /\ Len(loads) \in Nat /\ DOMAIN loads = 1..Len(loads)
           /\ DOMAIN loads' = 1..(Len(loads) + 1)
           /\ \A i \in 1..Len(loads) :
                  /\ loads'[i].to = loads[i].to /\ loads'[i].query = loads[i].query
                  /\ loads'[i].session = loads[i].session /\ loads'[i].pages = loads[i].pages
                  /\ loads'[i].newest <=> loads[i].newest /\ loads[i].to # c
           /\ LET l == loads'[Len(loads) + 1] IN
                  /\ l.to = c /\ l.query = q /\ l.newest
                  /\ l.session = session /\ l.pages = serverPages
<1> DEFINE new == Load(c, q, token, session)
           olds == [i \in DOMAIN loads |->
                       [loads[i] EXCEPT !.newest = loads[i].newest /\ loads[i].to # c]]
<1>1. /\ Len(loads) \in Nat /\ DOMAIN loads = 1..Len(loads)
      /\ \A i \in 1..Len(loads) : loads[i] \in LoadType
  BY LenProperties, ElementOfSeq DEF TypeOK
<1>2. session \in 1..MaxSession /\ serverPages \in 1..MaxPages
  BY BoundsAssumption DEF TypeOK
<1>3. /\ new \in LoadType /\ new.to = c /\ new.query = q /\ new.newest
      /\ new.session = session /\ new.pages = serverPages
  BY <1>2, LoadTyped
<1>4. \A i \in 1..Len(loads) :
          /\ olds[i] \in LoadType
          /\ olds[i].to = loads[i].to /\ olds[i].query = loads[i].query
          /\ olds[i].session = loads[i].session /\ olds[i].pages = loads[i].pages
          /\ olds[i].newest <=> loads[i].newest /\ loads[i].to # c
  BY <1>1 DEF LoadType
<1>5. olds \in Seq(LoadType) /\ Len(olds) = Len(loads)
  <2>1. olds \in [1..Len(loads) -> LoadType]
    BY <1>1, <1>4
  <2> QED  BY <1>1, <2>1
<1>6. loads' = Append(olds, new)
  BY DEF Request
<1> HIDE DEF olds, new
<1>7. /\ Append(olds, new) \in Seq(LoadType)
      /\ Len(Append(olds, new)) = Len(loads) + 1
      /\ \A i \in 1..Len(loads) : Append(olds, new)[i] = olds[i]
      /\ Append(olds, new)[Len(loads) + 1] = new
  BY <1>3, <1>5, AppendProperties
<1>8. DOMAIN Append(olds, new) = 1..(Len(loads) + 1)
  BY <1>7, LenProperties
<1> QED  BY <1>1, <1>3, <1>4, <1>6, <1>7, <1>8

\* A view mounts with one request of a component or two of different ones.
LEMMA MountSends ==
    ASSUME NEW v \in View, NEW s \in {None} \cup Selection, NEW tok,
           NEW ses \in 1..MaxSession, serverPages \in 1..MaxPages,
           NEW sent, sent = MountLoads(v, s, tok, ses)
    PROVE  /\ sent \in Seq(LoadType)
           /\ \A i, j \in DOMAIN sent : sent[i].to = sent[j].to => i = j
           /\ \A i \in DOMAIN sent :
                  /\ sent[i].newest /\ sent[i].session = ses /\ sent[i].pages = serverPages
                  /\ sent[i].query.page = 1
                  /\ sent[i].to = "thread" => s # None /\ sent[i].query = FirstPage(s.id)
                  /\ sent[i].to = "pane" => sent[i].query = FirstPage(NoFilter)
<1> DEFINE pane == Load("pane", FirstPage(NoFilter), tok, ses)
           list == Load("list", FirstPage(None), tok, ses)
           thread == Load("thread", FirstPage(s.id), tok, ses)
<1>1. /\ FirstPage(NoFilter) \in Query /\ FirstPage(None) \in Query
      /\ s # None => FirstPage(s.id) \in Query
      /\ FirstPage(NoFilter).page = 1 /\ FirstPage(None).page = 1 /\ FirstPage(s.id).page = 1
  BY FilterAssumption, BoundsAssumption DEF FirstPage, Query, Selection
<1>2. /\ pane \in LoadType /\ pane.to = "pane" /\ pane.query = FirstPage(NoFilter)
      /\ pane.newest /\ pane.session = ses /\ pane.pages = serverPages
  BY <1>1, LoadTyped DEF Component
<1>3. /\ list \in LoadType /\ list.to = "list" /\ list.query = FirstPage(None)
      /\ list.newest /\ list.session = ses /\ list.pages = serverPages
  BY <1>1, LoadTyped DEF Component
<1>4. s # None => /\ thread \in LoadType /\ thread.to = "thread"
                  /\ thread.query = FirstPage(s.id)
                  /\ thread.newest /\ thread.session = ses /\ thread.pages = serverPages
  BY <1>1, LoadTyped DEF Component
<1> HIDE DEF pane, list, thread
<1>5. CASE v # "conversations"
  <2>1. sent = <<pane>>
    BY <1>5 DEF MountLoads, pane
  <2> QED  BY <1>1, <1>2, <2>1
<1>6. CASE v = "conversations" /\ s = None
  <2>1. sent = <<list>>
    BY <1>6 DEF MountLoads, list
  <2> QED  BY <1>1, <1>3, <2>1
<1>7. CASE v = "conversations" /\ s # None
  <2>1. sent = <<list>> \o <<thread>>
    BY <1>7 DEF MountLoads, list, thread
  <2>2. /\ <<list>> \in Seq(LoadType) /\ Len(<<list>>) = 1 /\ <<list>>[1] = list
        /\ <<thread>> \in Seq(LoadType) /\ Len(<<thread>>) = 1 /\ <<thread>>[1] = thread
    BY <1>3, <1>4, <1>7
  <2>3. /\ <<list>> \o <<thread>> \in Seq(LoadType)
        /\ Len(<<list>> \o <<thread>>) = 2
        /\ (<<list>> \o <<thread>>)[1] = list /\ (<<list>> \o <<thread>>)[2] = thread
    <3>1. /\ <<list>> \o <<thread>> \in Seq(LoadType)
          /\ Len(<<list>> \o <<thread>>) = Len(<<list>>) + Len(<<thread>>)
          /\ \A i \in 1..(Len(<<list>>) + Len(<<thread>>)) :
                 (<<list>> \o <<thread>>)[i] = IF i <= Len(<<list>>) THEN <<list>>[i]
                                              ELSE <<thread>>[i - Len(<<list>>)]
      BY <2>2, ConcatProperties
    <3> QED  BY <2>2, <3>1
  <2>4. /\ sent \in Seq(LoadType) /\ DOMAIN sent = {1, 2}
        /\ sent[1] = list /\ sent[2] = thread
    <3>1. sent \in Seq(LoadType) /\ Len(sent) = 2 /\ sent[1] = list /\ sent[2] = thread
      BY <2>1, <2>3
    <3>2. DOMAIN sent = 1..2
      BY <3>1, LenProperties
    <3> QED  BY <3>1, <3>2
  <2> QED  BY <1>1, <1>3, <1>4, <1>7, <2>4
<1> QED  BY <1>5, <1>6, <1>7

-----------------------------------------------------------------------------
(***************************************************************************)
(* What mounting, requesting and answering do to the loads and to what is  *)
(* shown of them.                                                          *)
(***************************************************************************)

UiType == [data : {None} \cup Data, loading : BOOLEAN, error : BOOLEAN]
HistType == [last : {"none", "pending", "ok", "failed"}, overlap : BOOLEAN]

\* The parts of TypeOK and of the invariant that concern them.
LoadsTyped ==
    /\ loads \in Seq(LoadType)
    /\ ui \in [Component -> UiType]
    /\ hist \in [Component -> HistType]

\* A view that mounts spins where it has sent a request, and shows nothing yet.
LEMMA MountKeeps ==
    ASSUME TypeOK, NEW v \in View, NEW s \in {None} \cup Selection, NEW tok,
           NEW ses \in 1..MaxSession, Mount(v, s, tok, ses),
           serverPages' = serverPages, session' = ses, selected' = s
    PROVE  /\ LoadsTyped' /\ LoadInv' /\ ComponentInv'
           /\ query' \in Query /\ query'.of \in Filter
<1>1. serverPages \in 1..MaxPages
  BY DEF TypeOK
<1>2. loads' = MountLoads(v, s, tok, ses) /\ query' = FirstPage(NoFilter)
  BY DEF Mount
<1>3. /\ loads' \in Seq(LoadType)
      /\ \A i, j \in DOMAIN loads' : loads'[i].to = loads'[j].to => i = j
      /\ \A i \in DOMAIN loads' :
            /\ loads'[i].newest /\ loads'[i].session = ses /\ loads'[i].pages = serverPages
            /\ loads'[i].query.page = 1
            /\ loads'[i].to = "thread" => s # None /\ loads'[i].query = FirstPage(s.id)
            /\ loads'[i].to = "pane" => loads'[i].query = FirstPage(NoFilter)
  BY <1>1, <1>2, MountSends
<1>4. /\ ui' = [c \in Component |-> IF \E i \in DOMAIN loads' : loads'[i].to = c
                                    THEN Loading(Fresh) ELSE Fresh]
      /\ hist' = [c \in Component |->
                     [last |-> IF \E i \in DOMAIN loads' : loads'[i].to = c
                               THEN "pending" ELSE "none",
                      overlap |-> FALSE]]
  BY <1>2 DEF Mount
<1>5. /\ Fresh \in UiType /\ Fresh.data = None /\ ~Fresh.loading /\ ~Fresh.error
      /\ Loading(Fresh) \in UiType /\ Loading(Fresh).data = None
      /\ Loading(Fresh).loading /\ ~Loading(Fresh).error
  BY DEF Fresh, Loading, UiType
<1>6. \A c \in Component :
          /\ ui'[c] \in UiType /\ ui'[c].data = None /\ ~ui'[c].error
          /\ ui'[c].loading <=> \E i \in DOMAIN loads' : loads'[i].to = c
  BY <1>4, <1>5
<1>7. \A c \in Component :
          /\ hist'[c] \in HistType /\ ~hist'[c].overlap
          /\ hist'[c].last = IF \E i \in DOMAIN loads' : loads'[i].to = c
                             THEN "pending" ELSE "none"
  BY <1>4 DEF HistType
<1>8. LoadsTyped'
  BY <1>3, <1>4, <1>6, <1>7 DEF LoadsTyped
<1>9. query' \in Query /\ query'.of \in Filter
  BY <1>2, FilterAssumption, BoundsAssumption DEF FirstPage, Query
<1>10. \A i \in DOMAIN loads' : LoadOK(loads[i])'
  <2> SUFFICES ASSUME NEW i \in DOMAIN loads' PROVE LoadOK(loads[i])'
    OBVIOUS
  <2>1. loads'[i].to = "thread" => loads'[i].query = Wanted("thread")'
    BY <1>3 DEF Wanted, SelectedId
  <2>2. loads'[i].to = "pane" => loads'[i].query = Wanted("pane")' /\ loads'[i].query.of \in Filter
    BY <1>2, <1>3, <1>9 DEF Wanted
  <2>3. loads'[i].session = session'
    BY <1>3
  <2>4. loads'[i].query.page <= serverPages' /\ loads'[i].pages <= serverPages'
    BY <1>1, <1>3
  <2> QED  BY <2>1, <2>2, <2>3, <2>4 DEF LoadOK
<1>11. LoadInv'
  BY <1>3, <1>10 DEF LoadInv
<1>12. ASSUME NEW c \in Component
       PROVE  ShownOK(c)' /\ HistOK(c)' /\ SpinnerOK(c)' /\ SerialOK(c)'
  BY <1>3, <1>6, <1>7 DEF ShownOK, HistOK, SpinnerOK, SerialOK, Busy
<1> QED  BY <1>8, <1>9, <1>11, <1>12 DEF ComponentInv

\* With nothing mounted nothing is under way.
LEMMA UnmountKeeps ==
    ASSUME Unmount
    PROVE  /\ LoadsTyped' /\ LoadInv' /\ ComponentInv'
           /\ query' \in Query /\ query'.of \in Filter
<1>1. /\ loads' = <<>> /\ ui' = [c \in Component |-> Fresh]
      /\ hist' = [c \in Component |-> [last |-> "none", overlap |-> FALSE]]
      /\ query' = FirstPage(NoFilter)
  BY DEF Unmount
<1>2. Fresh \in UiType /\ Fresh.data = None /\ ~Fresh.loading /\ ~Fresh.error
  BY DEF Fresh, UiType
<1>3. \A c \in Component :
          /\ ui'[c].data = None /\ ~ui'[c].loading /\ ~ui'[c].error
          /\ hist'[c].last = "none" /\ ~hist'[c].overlap
  BY <1>1, <1>2
<1>4. loads' \in Seq(LoadType) /\ DOMAIN loads' = {}
  BY <1>1
<1>5. LoadsTyped'
  <2>1. [last |-> "none", overlap |-> FALSE] \in HistType
    BY DEF HistType
  <2> QED  BY <1>1, <1>2, <1>4, <2>1 DEF LoadsTyped
<1>6. LoadInv'
  BY <1>4 DEF LoadInv
<1>7. ASSUME NEW c \in Component
      PROVE  ShownOK(c)' /\ HistOK(c)' /\ SpinnerOK(c)' /\ SerialOK(c)'
  BY <1>3, <1>4 DEF ShownOK, HistOK, SpinnerOK, SerialOK, Busy
<1>8. query' \in Query /\ query'.of \in Filter
  BY <1>1, FilterAssumption, BoundsAssumption DEF FirstPage, Query
<1> QED  BY <1>5, <1>6, <1>7, <1>8 DEF ComponentInv

\* A request for what is wanted makes it the newest, and its component spin.
LEMMA RequestKeeps ==
    ASSUME IInv, NEW c \in Component, NEW q \in Query, token # "none", Request(c, q),
           serverPages' = serverPages, session' = session,
           c # "thread" => selected' = selected,
           c # "pane" => query' = query,
           c = "thread" => q = Wanted("thread")',
           c = "pane" => q = query' /\ q.of \in Filter,
           c = "list" => q.page <= serverPages
    PROVE  LoadsTyped' /\ LoadInv' /\ ComponentInv'
<1>1. TypeOK /\ session >= 1
  BY DEF IInv, LoginInv
<1>2. PICK n \in Nat :
      /\ loads' \in Seq(LoadType)
      /\ DOMAIN loads = 1..n /\ DOMAIN loads' = 1..(n + 1)
      /\ \A i \in 1..n :
            /\ loads'[i].to = loads[i].to /\ loads'[i].query = loads[i].query
            /\ loads'[i].session = loads[i].session /\ loads'[i].pages = loads[i].pages
            /\ loads'[i].newest <=> loads[i].newest /\ loads[i].to # c
      /\ loads'[n + 1].to = c /\ loads'[n + 1].query = q /\ loads'[n + 1].newest
      /\ loads'[n + 1].session = session /\ loads'[n + 1].pages = serverPages
  BY <1>1, RequestLoads
<1>3. /\ ui \in [Component -> UiType] /\ hist \in [Component -> HistType]
      /\ serverPages \in 1..MaxPages
  BY <1>1 DEF TypeOK, UiType, HistType
<1>4. /\ ui'[c].data = ui[c].data /\ ui'[c].loading /\ ~ui'[c].error
      /\ \A x \in Component : x # c => ui'[x] = ui[x]
      /\ ui' \in [Component -> UiType]
  <2>1. ui' = [ui EXCEPT ![c] = Loading(ui[c])]
    BY DEF Request
  <2>2. /\ Loading(ui[c]) \in UiType /\ Loading(ui[c]).data = ui[c].data
        /\ Loading(ui[c]).loading /\ ~Loading(ui[c]).error
    BY <1>3 DEF Loading, UiType
  <2> QED  BY <1>3, <2>1, <2>2
<1>5. /\ hist'[c].last = "pending" /\ (hist'[c].overlap <=> Busy(c))
      /\ \A x \in Component : x # c => hist'[x] = hist[x]
      /\ hist' \in [Component -> HistType]
  <2>1. hist' = [hist EXCEPT ![c] = [last |-> "pending", overlap |-> Busy(c)]]
    BY DEF Request
  <2>2. [last |-> "pending", overlap |-> Busy(c)] \in HistType
    BY DEF HistType, Busy
  <2> QED  BY <1>3, <2>1, <2>2
<1>6. LoadsTyped'
  BY <1>2, <1>4, <1>5 DEF LoadsTyped
<1>7. \A x \in {"thread", "pane"} : /\ x # c => Wanted(x)' = Wanted(x)
                                    /\ x = c => Wanted(x)' = q
  BY DEF Wanted, SelectedId
<1>8. \A i \in DOMAIN loads' : LoadOK(loads[i])'
  <2>1. ASSUME NEW i \in 1..n  PROVE LoadOK(loads[i])'
    <3>1. LoadOK(loads[i])
      BY <1>2 DEF IInv, LoadInv
    <3>2. loads'[i].newest /\ loads'[i].to \in {"thread", "pane"}
              => loads'[i].query = Wanted(loads[i].to)'
      BY <1>2, <1>7, <3>1 DEF LoadOK
    <3> QED  BY <1>2, <3>1, <3>2 DEF LoadOK
  <2>2. LoadOK(loads[n + 1])'
    BY <1>2, <1>3, <1>7 DEF LoadOK
  <2>3. \A i \in DOMAIN loads' : i \in 1..n \/ i = n + 1
    BY <1>2
  <2> QED  BY <2>1, <2>2, <2>3
<1>9. LoadInv'
  <2>1. ASSUME NEW i \in DOMAIN loads', NEW j \in DOMAIN loads',
               loads'[i].newest, loads'[j].newest, loads'[i].to = loads'[j].to
        PROVE  i = j
    <3>1. CASE i \in 1..n /\ j \in 1..n
      BY <1>2, <2>1, <3>1 DEF IInv, LoadInv
    <3>2. CASE ~(i \in 1..n /\ j \in 1..n)
      BY <1>2, <2>1, <3>2
    <3> QED  BY <3>1, <3>2
  <2> QED  BY <1>8, <2>1 DEF LoadInv
<1>10. ASSUME NEW x \in Component
       PROVE  ShownOK(x)' /\ HistOK(x)' /\ SpinnerOK(x)' /\ SerialOK(x)'
  <2>1. ShownOK(x) /\ HistOK(x) /\ SpinnerOK(x) /\ SerialOK(x)
    BY DEF IInv, ComponentInv
  <2>2. ShownOK(x)'
    BY <1>4, <2>1 DEF ShownOK
  <2>3. CASE x = c
    <3>1. n + 1 \in DOMAIN loads'
      BY <1>2
    <3>2. HistOK(x)'
      <4>1. ~Busy(c) => \A i \in DOMAIN loads' : loads'[i].to = c => i = n + 1
        BY <1>2 DEF Busy
      <4> QED  BY <1>2, <1>4, <1>5, <2>3, <4>1 DEF HistOK
    <3>3. SpinnerOK(x)'
      BY <1>2, <1>4, <2>3, <3>1 DEF SpinnerOK, Busy
    <3>4. SerialOK(x)'
      BY <1>5, <2>3 DEF SerialOK
    <3> QED  BY <2>2, <3>2, <3>3, <3>4
  <2>4. CASE x # c
    <3>1. \A i \in DOMAIN loads' : loads'[i].to = x =>
              i \in DOMAIN loads /\ loads[i].to = x /\ (loads'[i].newest <=> loads[i].newest)
      BY <1>2, <2>4
    <3>2. \A i \in DOMAIN loads : loads[i].to = x =>
              i \in DOMAIN loads' /\ loads'[i].to = x /\ (loads'[i].newest <=> loads[i].newest)
      BY <1>2, <2>4
    <3>3. ui'[x] = ui[x] /\ hist'[x] = hist[x]
      BY <1>4, <1>5, <2>4
    <3>4. HistOK(x)' /\ SpinnerOK(x)'
      BY <2>1, <3>1, <3>2, <3>3 DEF HistOK, SpinnerOK, Busy
    <3>5. SerialOK(x)'
      BY <1>7, <2>1, <2>4, <3>3 DEF SerialOK, Component
    <3> QED  BY <2>2, <3>4, <3>5
  <2> QED  BY <2>3, <2>4
<1> QED  BY <1>6, <1>9, <1>10 DEF ComponentInv

\* What an answer carries.
LEMMA AnswersTyped ==
    ASSUME TypeOK, NEW l \in LoadType, NEW d \in Answers(l),
           l.to = "pane" => l.query.of \in Filter
    PROVE  /\ d \in Data /\ d # None
           /\ d.query = l.query /\ d.session = l.session
           /\ l.to = "list" => d.pages <= serverPages
           /\ l.to = "pane" => d.pages = PagesOf[l.query.of]
<1> DEFINE P == CASE l.to = "list" -> l.pages..serverPages
                  [] l.to = "pane" -> {PagesOf[l.query.of]}
                  [] l.to = "thread" -> {1}
<1>1. d \in [query : {l.query}, session : {l.session}, pages : P]
  BY DEF Answers
<1>2. /\ l.to \in Component /\ l.query \in Query /\ l.session \in 1..MaxSession
      /\ l.pages \in 1..MaxPages /\ serverPages \in 1..MaxPages
  BY DEF LoadType, TypeOK
<1>3. /\ l.to = "list" => P = l.pages..serverPages
      /\ l.to = "pane" => P = {PagesOf[l.query.of]}
      /\ l.to = "thread" => P = {1}
  OBVIOUS
<1> HIDE DEF P
<1>4. d.query = l.query /\ d.session = l.session /\ d.pages \in P
  BY <1>1
<1>5. d.pages \in 1..MaxPages
  <2>1. CASE l.to = "list"
    BY <1>2, <1>3, <1>4, <2>1, BoundsAssumption
  <2>2. CASE l.to = "pane"
    BY <1>3, <1>4, <2>2, FilterAssumption
  <2>3. CASE l.to = "thread"
    BY <1>3, <1>4, <2>3, BoundsAssumption
  <2> QED  BY <1>2, <2>1, <2>2, <2>3 DEF Component
<1>6. d = [query |-> d.query, session |-> d.session, pages |-> d.pages]
  BY <1>1
<1>7. d \in Data
  BY <1>2, <1>4, <1>5, <1>6 DEF Data
<1>8. l.to = "list" => d.pages <= serverPages
  BY <1>2, <1>3, <1>4
<1> QED  BY <1>3, <1>4, <1>7, <1>8, NullAssumption

\* An answer reaches its component alone; only the newest one of the thread
\* switches its spinner off.
LEMMA AnswerKeeps ==
    ASSUME IInv, NEW i \in DOMAIN loads, NEW ok \in BOOLEAN, Answer(i, ok)
    PROVE  LoadsTyped' /\ LoadInv' /\ ComponentInv'
<1>1. /\ loads \in Seq(LoadType) /\ ui \in [Component -> UiType]
      /\ hist \in [Component -> HistType] /\ TypeOK
  BY DEF IInv, TypeOK, UiType, HistType
<1>2. PICK l \in LoadType : l = loads[i]
  <2>1. loads[i] \in LoadType
    BY <1>1, LenProperties, ElementOfSeq
  <2> QED  BY <2>1
<1>3. l.to \in Component /\ l.newest \in BOOLEAN
  BY DEF LoadType
<1>4. /\ loads' \in Seq(LoadType)
      /\ \A j \in DOMAIN loads' : \E k \in DOMAIN loads \ {i} : loads'[j] = loads[k]
      /\ \A k \in DOMAIN loads \ {i} : \E j \in DOMAIN loads' : loads'[j] = loads[k]
      /\ \A j, m \in DOMAIN loads' : Before(i, j) = Before(i, m) => j = m
      /\ \A j \in DOMAIN loads' : /\ Before(i, j) \in DOMAIN loads \ {i}
                                  /\ loads'[j] = loads[Before(i, j)]
  <2>1. loads' = RemoveAt(loads, i)
    BY DEF Answer
  <2>2. /\ loads' \in Seq(LoadType)
        /\ \A j \in DOMAIN loads' : /\ Before(i, j) \in DOMAIN loads \ {i}
                                    /\ loads'[j] = loads[Before(i, j)]
        /\ \A k \in DOMAIN loads \ {i} : \E j \in DOMAIN loads' : Before(i, j) = k
    BY <1>1, <2>1, RemoveOne
  <2>3. ASSUME NEW j \in DOMAIN loads', NEW m \in DOMAIN loads', Before(i, j) = Before(i, m)
        PROVE  j = m
    <3>1. j \in Int /\ m \in Int /\ i \in Int
      BY <1>1, <2>2, LenProperties
    <3> QED  BY <2>3, <3>1 DEF Before
  <2> QED  BY <2>2, <2>3
<1>5. UNCHANGED <<token, session, login, view, selected, query, serverPages>>
  BY DEF Answer
<1>6. LoadOK(l)
  BY <1>2 DEF IInv, LoadInv
<1>7. PICK d \in {None} \cup Data :
      /\ ok => /\ d # None /\ d.query = l.query /\ d.session = l.session
               /\ l.to = "list" => d.pages <= serverPages
               /\ l.to = "pane" => d.pages = PagesOf[l.query.of]
      /\ ~ok => d = ui[l.to].data
      /\ ui' = [ui EXCEPT ![l.to] = [data |-> d, loading |-> SpinnerAfter(l, ok),
                                     error |-> ErrorAfter(l, ok)]]
  <2>1. PICK d \in IF ok THEN Answers(l) ELSE {ui[l.to].data} :
             ui' = [ui EXCEPT ![l.to] = [data |-> d, loading |-> SpinnerAfter(l, ok),
                                         error |-> ErrorAfter(l, ok)]]
    BY <1>2 DEF Answer
  <2>2. CASE ok
    <3>1. /\ d \in Data /\ d # None
          /\ d.query = l.query /\ d.session = l.session
          /\ l.to = "list" => d.pages <= serverPages
          /\ l.to = "pane" => d.pages = PagesOf[l.query.of]
      BY <1>1, <1>6, <2>1, <2>2, AnswersTyped DEF LoadOK
    <3> QED  BY <2>1, <2>2, <3>1
  <2>3. CASE ~ok
    <3>1. d = ui[l.to].data /\ d \in {None} \cup Data
      BY <1>1, <1>3, <2>1, <2>3 DEF UiType
    <3> QED  BY <2>1, <2>3, <3>1
  <2> QED  BY <2>2, <2>3
<1>8. /\ ui'[l.to].data = d
      /\ ui'[l.to].loading <=> l.to = "thread" /\ ~l.newest /\ ui[l.to].loading
      /\ ui'[l.to].error <=> ui[l.to].error \/ ~ok
      /\ \A x \in Component : x # l.to => ui'[x] = ui[x]
      /\ ui' \in [Component -> UiType]
  <2>1. /\ SpinnerAfter(l, ok) <=> l.to = "thread" /\ ~l.newest /\ ui[l.to].loading
        /\ SpinnerAfter(l, ok) \in BOOLEAN
    BY DEF SpinnerAfter
  <2>2. ErrorAfter(l, ok) \in BOOLEAN /\ (ErrorAfter(l, ok) <=> ui[l.to].error \/ ~ok)
    BY DEF ErrorAfter
  <2>3. [data |-> d, loading |-> SpinnerAfter(l, ok), error |-> ErrorAfter(l, ok)] \in UiType
    BY <1>7, <2>1, <2>2 DEF UiType
  <2>4. ui'[l.to] = [data |-> d, loading |-> SpinnerAfter(l, ok), error |-> ErrorAfter(l, ok)]
    BY <1>1, <1>3, <1>7
  <2>5. \A x \in Component : x # l.to => ui'[x] = ui[x]
    BY <1>1, <1>7
  <2>6. ui' \in [Component -> UiType]
    BY <1>1, <1>7, <2>3
  <2> QED  BY <2>1, <2>2, <2>4, <2>5, <2>6
<1>9. /\ hist'[l.to].last = IF ~l.newest THEN hist[l.to].last
                            ELSE IF ok THEN "ok" ELSE "failed"
      /\ hist'[l.to].overlap = hist[l.to].overlap
      /\ \A x \in Component : x # l.to => hist'[x] = hist[x]
      /\ hist' \in [Component -> HistType]
  <2>1. hist' = [hist EXCEPT ![l.to].last = IF ~l.newest THEN @
                                            ELSE IF ok THEN "ok" ELSE "failed"]
    BY <1>2 DEF Answer
  <2> QED  BY <1>1, <1>3, <2>1 DEF HistType
<1>10. LoadsTyped'
  BY <1>4, <1>8, <1>9 DEF LoadsTyped
<1>11. LoadInv'
  <2>1. \A k \in DOMAIN loads : LoadOK(loads[k])
    BY DEF IInv, LoadInv
  <2>2. ASSUME NEW j \in DOMAIN loads'  PROVE LoadOK(loads[j])'
    <3>1. PICK k \in DOMAIN loads \ {i} : loads'[j] = loads[k]
      BY <1>4, <2>2
    <3>2. LoadOK(loads[k])
      BY <2>1
    <3> QED  BY <1>5, <2>2, <3>1, <3>2 DEF LoadOK, Wanted, SelectedId
  <2>3. ASSUME NEW j \in DOMAIN loads', NEW m \in DOMAIN loads',
               loads'[j].newest, loads'[m].newest, loads'[j].to = loads'[m].to
        PROVE  j = m
    <3>1. /\ Before(i, j) \in DOMAIN loads /\ loads'[j] = loads[Before(i, j)]
          /\ Before(i, m) \in DOMAIN loads /\ loads'[m] = loads[Before(i, m)]
      BY <1>4
    <3>2. Before(i, j) = Before(i, m)
      BY <2>3, <3>1 DEF IInv, LoadInv
    <3> QED  BY <1>4, <3>2
  <2> QED  BY <2>2, <2>3 DEF LoadInv
<1>12. l.newest => \A j \in DOMAIN loads' : loads'[j].to = l.to => ~loads'[j].newest
  <2> SUFFICES ASSUME l.newest, NEW j \in DOMAIN loads', loads'[j].to = l.to, loads'[j].newest
               PROVE  FALSE
    OBVIOUS
  <2>1. PICK k \in DOMAIN loads \ {i} : loads'[j] = loads[k]
    BY <1>4
  <2> QED  BY <1>2, <2>1 DEF IInv, LoadInv
<1>13. ASSUME NEW x \in Component
       PROVE  ShownOK(x)' /\ HistOK(x)' /\ SpinnerOK(x)' /\ SerialOK(x)'
  <2>1. ShownOK(x) /\ HistOK(x) /\ SpinnerOK(x) /\ SerialOK(x)
    BY DEF IInv, ComponentInv
  <2>2. CASE x = l.to
    <3>1. ~l.newest => hist[x].overlap /\ hist[x].last # "none"
      BY <1>2, <2>1, <2>2 DEF HistOK
    <3>2. ShownOK(x)'
      <4>1. CASE ok
        BY <1>5, <1>6, <1>7, <1>8, <2>2, <4>1 DEF ShownOK, LoadOK
      <4>2. CASE ~ok
        BY <1>5, <1>7, <1>8, <2>1, <2>2, <4>2 DEF ShownOK
      <4> QED  BY <4>1, <4>2
    <3>3. HistOK(x)'
      <4>1. ~hist'[x].overlap => \A j \in DOMAIN loads' : loads'[j].to = x => loads'[j].newest
        BY <1>4, <1>9, <2>1, <2>2 DEF HistOK
      <4>2. CASE l.newest
        <5>1. hist'[x].last = IF ok THEN "ok" ELSE "failed"
          BY <1>9, <2>2, <4>2
        <5>2. ~ok => ui'[x].error
          BY <1>8, <2>2
        <5>3. \A j \in DOMAIN loads' : loads'[j].to = x => ~loads'[j].newest
          BY <1>12, <2>2, <4>2
        <5> QED  BY <4>1, <5>1, <5>2, <5>3 DEF HistOK
      <4>3. CASE ~l.newest
        <5>1. hist'[x].last = hist[x].last /\ hist'[x].overlap /\ hist[x].last # "none"
          BY <1>9, <2>2, <3>1, <4>3
        <5>2. hist'[x].last = "failed" => ui'[x].error
          BY <1>8, <2>1, <2>2, <5>1 DEF HistOK
        <5>3. hist'[x].last # "pending" =>
                  \A j \in DOMAIN loads' : loads'[j].to = x => ~loads'[j].newest
          BY <1>4, <2>1, <5>1 DEF HistOK
        <5> QED  BY <5>1, <5>2, <5>3 DEF HistOK
      <4> QED  BY <4>2, <4>3
    <3>4. SpinnerOK(x)'
      <4>1. CASE l.newest
        BY <1>8, <1>12, <2>2, <4>1 DEF SpinnerOK, Busy
      <4>2. CASE ~l.newest /\ x = "thread"
        <5>1. (\E j \in DOMAIN loads' : loads'[j].to = x /\ loads'[j].newest)
                <=> \E k \in DOMAIN loads : loads[k].to = x /\ loads[k].newest
          BY <1>2, <1>4, <4>2
        <5>2. ui'[x].loading <=> ui[x].loading
          BY <1>8, <2>2, <4>2
        <5> QED  BY <2>1, <4>2, <5>1, <5>2 DEF SpinnerOK, Busy
      <4>3. CASE x # "thread"
        BY <1>8, <2>2, <4>3 DEF SpinnerOK
      <4> QED  BY <4>1, <4>2, <4>3
    <3>5. SerialOK(x)'
      <4> SUFFICES ASSUME x # "list", hist'[x].last = "ok", ~hist'[x].overlap, ~ui'[x].error
                   PROVE  ui'[x].data # None /\ ui'[x].data.query = Wanted(x)'
        BY DEF SerialOK
      <4>1. l.newest /\ ok
        BY <1>8, <1>9, <2>2, <3>1
      <4>2. l.query = Wanted(x)
        BY <1>6, <2>2, <4>1 DEF LoadOK, Component
      <4>3. Wanted(x)' = Wanted(x)
        BY <1>5 DEF Wanted, SelectedId
      <4> QED  BY <1>7, <1>8, <2>2, <4>1, <4>2, <4>3
    <3> QED  BY <3>2, <3>3, <3>4, <3>5
  <2>3. CASE x # l.to
    <3>1. /\ \A j \in DOMAIN loads' : loads'[j].to = x =>
                 \E k \in DOMAIN loads : loads[k].to = x /\ loads'[j] = loads[k]
          /\ \A k \in DOMAIN loads : loads[k].to = x =>
                 \E j \in DOMAIN loads' : loads'[j].to = x /\ loads'[j] = loads[k]
      BY <1>2, <1>4, <2>3
    <3>2. ui'[x] = ui[x] /\ hist'[x] = hist[x] /\ Wanted(x)' = Wanted(x)
      BY <1>5, <1>8, <1>9, <2>3 DEF Wanted, SelectedId
    <3>3. ShownOK(x)' /\ SerialOK(x)'
      BY <1>5, <2>1, <3>2 DEF ShownOK, SerialOK
    <3>4. HistOK(x)'
      BY <2>1, <3>1, <3>2 DEF HistOK
    <3>5. SpinnerOK(x)'
      BY <2>1, <3>1, <3>2 DEF SpinnerOK, Busy
    <3> QED  BY <3>3, <3>4, <3>5
  <2> QED  BY <2>2, <2>3
<1> QED  BY <1>10, <1>11, <1>13 DEF ComponentInv

-----------------------------------------------------------------------------
(***************************************************************************)
(* Every step keeps the invariant.                                         *)
(***************************************************************************)

\* Nothing is mounted at first.
LEMMA InitIInv == Init => IInv
<1> SUFFICES ASSUME Init PROVE IInv
  OBVIOUS
<1>1. Fresh \in UiType /\ Fresh.data = None /\ ~Fresh.loading /\ ~Fresh.error
  BY DEF Fresh, UiType
<1>2. \A c \in Component :
          /\ ui[c].data = None /\ ~ui[c].loading /\ ~ui[c].error
          /\ hist[c].last = "none" /\ ~hist[c].overlap
  BY <1>1 DEF Init
<1>3. loads \in Seq(LoadType) /\ DOMAIN loads = {}
  BY DEF Init
<1>4. query \in Query /\ query.of \in Filter
  BY FilterAssumption, BoundsAssumption DEF Init, FirstPage, Query
<1>5. LoadsTyped
  BY <1>1, <1>3 DEF Init, LoadsTyped, HistType
<1>6. TypeOK
  <2>1. 0 \in 0..MaxSession /\ 1 \in 1..MaxPages
    BY BoundsAssumption
  <2> QED  BY <1>4, <1>5, <2>1 DEF Init, TypeOK, LoadsTyped, UiType, HistType, View
<1>7. LoginInv /\ LoadInv
  BY <1>3, <1>4 DEF Init, LoginInv, LoadInv
<1>8. ComponentInv
  BY <1>2, <1>3 DEF ComponentInv, ShownOK, HistOK, SpinnerOK, SerialOK, Busy
<1> QED  BY <1>6, <1>7, <1>8 DEF IInv

\* A step that leaves what is mounted and requested alone.
LEMMA QuietKeeps ==
    ASSUME IInv, UNCHANGED <<session, selected, query, ui, loads, hist>>,
           serverPages \in Nat, serverPages' \in Nat, serverPages' >= serverPages
    PROVE  LoadsTyped' /\ LoadInv' /\ ComponentInv'
<1>1. LoadsTyped'
  BY DEF IInv, TypeOK, LoadsTyped, UiType, HistType
<1>2. \A i \in DOMAIN loads : LoadOK(loads[i])'
  <2> SUFFICES ASSUME NEW i \in DOMAIN loads PROVE LoadOK(loads[i])'
    OBVIOUS
  <2>1. LoadOK(loads[i])
    BY DEF IInv, LoadInv
  <2>2. loads[i].query.page \in Nat /\ loads[i].pages \in Nat
    <3>1. loads[i] \in LoadType
      BY LenProperties, ElementOfSeq DEF IInv, TypeOK
    <3> QED  BY <3>1 DEF LoadType, Query
  <2> QED  BY <2>1, <2>2 DEF LoadOK, Wanted, SelectedId
<1>3. LoadInv'
  BY <1>2 DEF IInv, LoadInv
<1>4. ASSUME NEW c \in Component
      PROVE  ShownOK(c)' /\ HistOK(c)' /\ SpinnerOK(c)' /\ SerialOK(c)'
  <2>1. ShownOK(c) /\ HistOK(c) /\ SpinnerOK(c) /\ SerialOK(c)
    BY DEF IInv, ComponentInv
  <2>2. ui[c].data # None => ui[c].data.query.page \in Nat /\ ui[c].data.pages \in Nat
    <3>1. ui[c].data \in {None} \cup Data
      BY DEF IInv, TypeOK
    <3> QED  BY <3>1 DEF Data, Query
  <2>3. ShownOK(c)'
    BY <2>1, <2>2 DEF ShownOK
  <2>4. HistOK(c)' /\ SpinnerOK(c)'
    BY <2>1 DEF HistOK, SpinnerOK, Busy
  <2>5. SerialOK(c)'
    BY <2>1 DEF SerialOK, Wanted, SelectedId
  <2> QED  BY <2>3, <2>4, <2>5
<1> QED  BY <1>1, <1>3, <1>4 DEF ComponentInv

\* The form, the token's lifetime and new conversations mount and request nothing.
LEMMA OutsideStepKeeps ==
    ASSUME IInv, Submit \/ Refused \/ Expire \/ NewConversations
    PROVE  IInv'
<1>1. TypeOK /\ LoginInv
  BY DEF IInv
<1>2. UNCHANGED <<session, selected, query, ui, loads, hist, view>>
  BY DEF Submit, Refused, Expire, NewConversations
<1>3. /\ serverPages \in 1..MaxPages /\ serverPages' \in 1..MaxPages
      /\ serverPages' >= serverPages
  <2>1. serverPages \in 1..MaxPages
    BY <1>1 DEF TypeOK
  <2>2. \/ serverPages' = serverPages
        \/ serverPages < MaxPages /\ serverPages' = serverPages + 1
    BY DEF Submit, Refused, Expire, NewConversations
  <2> QED  BY <2>1, <2>2, BoundsAssumption
<1>4. LoadsTyped' /\ LoadInv' /\ ComponentInv'
  BY <1>2, <1>3, QuietKeeps
<1>5. /\ token' \in {"none", "valid", "expired"} /\ login' \in {"idle", "submitting", "refused"}
      /\ token' = "none" <=> token = "none"
      /\ login' = "submitting" => token = "none" /\ session < MaxSession
  BY <1>1 DEF TypeOK, LoginInv, Submit, Refused, Expire, NewConversations, LoggedIn
<1>6. TypeOK'
  BY <1>1, <1>2, <1>3, <1>5 DEF TypeOK
<1>7. LoginInv'
  BY <1>1, <1>2, <1>5 DEF LoginInv
<1> QED  BY <1>4, <1>6, <1>7 DEF IInv

\* Signing in starts a session with nobody selected.
LEMMA SignedInKeeps ==
    ASSUME IInv, SignedIn
    PROVE  IInv'
<1>1. TypeOK /\ LoginInv
  BY DEF IInv
<1>2. /\ login = "submitting" /\ login' = "idle" /\ token' = "valid"
      /\ session' = session + 1 /\ UNCHANGED <<view, selected, serverPages>>
      /\ Mount(view, selected, "valid", session + 1)
  BY DEF SignedIn
<1>3. session + 1 \in 1..MaxSession /\ selected = None /\ view \in View
  BY <1>1, <1>2, BoundsAssumption DEF TypeOK, LoginInv
<1>4. /\ LoadsTyped' /\ LoadInv' /\ ComponentInv'
      /\ query' \in Query /\ query'.of \in Filter
  BY <1>1, <1>2, <1>3, MountKeeps
<1>5. TypeOK'
  BY <1>1, <1>2, <1>3, <1>4 DEF TypeOK, LoadsTyped, UiType, HistType
<1>6. LoginInv'
  BY <1>2, <1>3, <1>4 DEF LoginInv
<1> QED  BY <1>4, <1>5, <1>6 DEF IInv

\* Signing out deselects and unmounts.
LEMMA LogoutKeeps ==
    ASSUME IInv, Logout
    PROVE  IInv'
<1>1. TypeOK /\ LoginInv
  BY DEF IInv
<1>2. /\ token # "none" /\ token' = "none" /\ selected' = None /\ Unmount
      /\ UNCHANGED <<session, login, view, serverPages>>
  BY DEF Logout, LoggedIn
<1>3. /\ LoadsTyped' /\ LoadInv' /\ ComponentInv'
      /\ query' \in Query /\ query'.of \in Filter
  BY <1>2, UnmountKeeps
<1>4. TypeOK'
  BY <1>1, <1>2, <1>3 DEF TypeOK, LoadsTyped, UiType, HistType
<1>5. LoginInv'
  BY <1>1, <1>2, <1>3 DEF LoginInv
<1> QED  BY <1>3, <1>4, <1>5 DEF IInv

\* A reload keeps the token, and with it the session, only.
LEMMA ReloadKeeps ==
    ASSUME IInv, Reload
    PROVE  IInv'
<1>1. TypeOK /\ LoginInv
  BY DEF IInv
<1>2. /\ view' = "conversations" /\ selected' = None /\ login' = "idle"
      /\ UNCHANGED <<token, session, serverPages>>
  BY DEF Reload
<1>3. /\ LoadsTyped' /\ LoadInv' /\ ComponentInv'
      /\ query' \in Query /\ query'.of \in Filter
  <2>1. CASE token # "none"
    <3>1. session \in 1..MaxSession /\ "conversations" \in View
      BY <1>1, <2>1, BoundsAssumption DEF TypeOK, LoginInv, View
    <3>2. Mount("conversations", None, token, session)
      BY <2>1 DEF Reload, LoggedIn
    <3> QED  BY <1>1, <1>2, <3>1, <3>2, MountKeeps
  <2>2. CASE token = "none"
    BY <2>2, UnmountKeeps DEF Reload, LoggedIn
  <2> QED  BY <2>1, <2>2
<1>4. TypeOK'
  BY <1>1, <1>2, <1>3 DEF TypeOK, LoadsTyped, UiType, HistType, View
<1>5. LoginInv'
  BY <1>1, <1>2, <1>3 DEF LoginInv
<1> QED  BY <1>3, <1>4, <1>5 DEF IInv

\* Another view mounts with the selection as it is.
LEMMA NavigateKeeps ==
    ASSUME IInv, NEW v \in View, Navigate(v)
    PROVE  IInv'
<1>1. TypeOK /\ LoginInv
  BY DEF IInv
<1>2. /\ token # "none" /\ view' = v /\ Mount(v, selected, token, session)
      /\ UNCHANGED <<token, session, login, selected, serverPages>>
  BY DEF Navigate, Showing, LoggedIn
<1>3. session \in 1..MaxSession /\ selected \in {None} \cup Selection
  BY <1>1, <1>2, BoundsAssumption DEF TypeOK, LoginInv
<1>4. /\ LoadsTyped' /\ LoadInv' /\ ComponentInv'
      /\ query' \in Query /\ query'.of \in Filter
  BY <1>1, <1>2, <1>3, MountKeeps
<1>5. TypeOK'
  BY <1>1, <1>2, <1>4 DEF TypeOK, LoadsTyped, UiType, HistType
<1>6. LoginInv'
  BY <1>1, <1>2, <1>4 DEF LoginInv
<1> QED  BY <1>4, <1>5, <1>6 DEF IInv

\* A click that requests something leaves the session alone.
LEMMA ClickKeeps ==
    ASSUME IInv, token # "none", LoadsTyped', LoadInv', ComponentInv',
           UNCHANGED <<token, session, login, view, serverPages>>,
           selected' = selected \/ (selected' \in Selection /\ selected'.session = session),
           query' \in Query, query'.of \in Filter
    PROVE  IInv'
<1>1. TypeOK /\ LoginInv
  BY DEF IInv
<1>2. TypeOK'
  BY <1>1 DEF TypeOK, LoadsTyped, UiType, HistType
<1>3. LoginInv'
  BY <1>1 DEF LoginInv
<1> QED  BY <1>2, <1>3 DEF IInv

\* Selecting a conversation requests its messages.
LEMMA SelectKeeps ==
    ASSUME IInv, NEW c \in Conversation, Select(c)
    PROVE  IInv'
<1>1. TypeOK /\ LoginInv
  BY DEF IInv
<1>2. /\ token # "none" /\ selected' = [id |-> c, session |-> session]
      /\ Request("thread", FirstPage(c))
      /\ UNCHANGED <<token, session, login, view, query, serverPages>>
  BY DEF Select, Showing, LoggedIn
<1>3. selected' \in Selection /\ selected' # None /\ selected'.id = c /\ selected'.session = session
  <2>1. session \in 1..MaxSession
    BY <1>1, <1>2, BoundsAssumption DEF TypeOK, LoginInv
  <2> QED  BY <1>2, <2>1, NullAssumption DEF Selection
<1>4. FirstPage(c) \in Query /\ FirstPage(c) = Wanted("thread")'
  BY <1>3, BoundsAssumption DEF FirstPage, Query, Wanted, SelectedId
<1>5. LoadsTyped' /\ LoadInv' /\ ComponentInv'
  <2>1. "thread" \in Component
    BY DEF Component
  <2> QED  BY <1>2, <1>4, <2>1, RequestKeeps
<1> QED  BY <1>1, <1>2, <1>3, <1>5, ClickKeeps DEF TypeOK, LoginInv

\* The list asks for pages that are there.
LEMMA ListStepKeeps ==
    ASSUME IInv, RefreshList \/ RetryList \/ \E p \in 1..MaxPages : TurnList(p)
    PROVE  IInv'
<1>1. TypeOK /\ LoginInv /\ serverPages \in 1..MaxPages
  BY DEF IInv, TypeOK
<1>2. ListPage \in 1..MaxPages /\ ListPage <= serverPages /\ ListPages <= serverPages
  <2>1. ShownOK("list")
    BY DEF IInv, ComponentInv, Component
  <2>2. ui["list"].data \in {None} \cup Data
    BY <1>1 DEF TypeOK, Component
  <2>3. CASE ui["list"].data = None
    BY <1>1, <2>3, BoundsAssumption DEF ListPage, ListPages
  <2>4. CASE ui["list"].data # None
    BY <2>1, <2>2, <2>4 DEF ListPage, ListPages, ShownOK, Data, Query
  <2> QED  BY <2>3, <2>4
<1>3. PICK p \in 1..MaxPages :
          p <= serverPages /\ Request("list", [page |-> p, of |-> None])
  <2>1. CASE RefreshList
    BY <1>2, <2>1 DEF RefreshList
  <2>2. CASE RetryList
    BY <1>1, <2>2, BoundsAssumption DEF RetryList, FirstPage
  <2>3. ASSUME NEW p \in 1..MaxPages, TurnList(p)
        PROVE  p <= serverPages /\ Request("list", [page |-> p, of |-> None])
    <3>1. p <= ListPages
      BY <2>3 DEF TurnList, ListTargets
    <3>2. ListPages \in Int
      <4>1. ui["list"].data \in {None} \cup Data
        BY <1>1 DEF TypeOK, Component
      <4> QED  BY <4>1 DEF ListPages, Data
    <3> QED  BY <1>1, <1>2, <2>3, <3>1, <3>2 DEF TurnList
  <2> QED  BY <2>1, <2>2, <2>3
<1>4. /\ token # "none"
      /\ UNCHANGED <<token, session, login, view, selected, query, serverPages>>
  BY DEF RefreshList, RetryList, TurnList, Showing, LoggedIn
<1>5. /\ [page |-> p, of |-> None] \in Query /\ [page |-> p, of |-> None].page <= serverPages
      /\ "list" \in Component
  BY <1>3 DEF Query, Component
<1>6. LoadsTyped' /\ LoadInv' /\ ComponentInv'
  BY <1>3, <1>4, <1>5, RequestKeeps
<1> QED  BY <1>1, <1>4, <1>6, ClickKeeps DEF TypeOK, LoginInv

\* A view asks for the page and the filter that are set now.
LEMMA PaneStepKeeps ==
    ASSUME IInv,
           \/ Retry \/ RefreshOverview
           \/ \E f \in Filter : SetFilter(f)
           \/ \E p \in 1..MaxPages : TurnTable(p)
    PROVE  IInv'
<1>1. TypeOK /\ LoginInv
  BY DEF IInv
<1>2. /\ token # "none" /\ UNCHANGED <<token, session, login, view, selected, serverPages>>
      /\ Request("pane", query')
  BY DEF Retry, RetryQuery, RefreshOverview, SetFilter, TurnTable, Showing, LoggedIn
<1>3. query' \in Query /\ query'.of \in Filter
  <2>1. query \in Query /\ query.of \in Filter
    BY <1>1 DEF TypeOK, LoginInv
  <2>2. CASE Retry \/ RefreshOverview
    BY <2>1, <2>2 DEF Retry, RefreshOverview
  <2>3. ASSUME NEW f \in Filter, SetFilter(f)  PROVE query' \in Query /\ query'.of \in Filter
    BY <2>3, BoundsAssumption DEF SetFilter, FilterQuery, FirstPage, Query
  <2>4. ASSUME NEW p \in 1..MaxPages, TurnTable(p)
        PROVE  query' \in Query /\ query'.of \in Filter
    BY <2>1, <2>4 DEF TurnTable, Query
  <2> QED  BY <2>2, <2>3, <2>4
<1>4. LoadsTyped' /\ LoadInv' /\ ComponentInv'
  <2>1. "pane" \in Component
    BY DEF Component
  <2> QED  BY <1>2, <1>3, <2>1, RequestKeeps
<1> QED  BY <1>1, <1>2, <1>3, <1>4, ClickKeeps

\* The invariant holds in every state of every run.
LEMMA InvariantKept == Spec => []IInv
<1>1. IInv /\ [Next]_vars => IInv'
  <2> SUFFICES ASSUME IInv, [Next]_vars  PROVE IInv'
    OBVIOUS
  <2>1. CASE Submit \/ Refused \/ Expire \/ NewConversations
    BY <2>1, OutsideStepKeeps
  <2>2. CASE SignedIn \/ Logout \/ Reload \/ \E v \in View : Navigate(v)
    BY <2>2, SignedInKeeps, LogoutKeeps, ReloadKeeps, NavigateKeeps
  <2>3. CASE \E c \in Conversation : Select(c)
    BY <2>3, SelectKeeps
  <2>4. CASE RefreshList \/ RetryList \/ \E p \in 1..MaxPages : TurnList(p)
    BY <2>4, ListStepKeeps
  <2>5. CASE \/ Retry \/ RefreshOverview
             \/ \E f \in Filter : SetFilter(f)
             \/ \E p \in 1..MaxPages : TurnTable(p)
    BY <2>5, PaneStepKeeps
  <2>6. ASSUME NEW i \in DOMAIN loads, NEW ok \in BOOLEAN, Answer(i, ok)  PROVE IInv'
    <3>1. LoadsTyped' /\ LoadInv' /\ ComponentInv'
      BY <2>6, AnswerKeeps
    <3>2. UNCHANGED <<token, session, login, view, selected, query, serverPages>>
      BY <2>6 DEF Answer
    <3>3. TypeOK'
      BY <3>1, <3>2 DEF IInv, TypeOK, LoadsTyped, UiType, HistType
    <3>4. LoginInv'
      BY <3>2 DEF IInv, LoginInv
    <3> QED  BY <3>1, <3>3, <3>4 DEF IInv
  <2>7. CASE UNCHANGED vars
    <3>1. UNCHANGED <<token, session, login, view, selected, query, ui, loads, serverPages, hist>>
      BY <2>7 DEF vars
    <3>2. serverPages \in Nat
      BY DEF IInv, TypeOK
    <3>3. LoadsTyped' /\ LoadInv' /\ ComponentInv'
      BY <3>1, <3>2, QuietKeeps
    <3> QED  BY <3>1, <3>3 DEF IInv, TypeOK, LoginInv
  <2> QED  BY <2>1, <2>2, <2>3, <2>4, <2>5, <2>6, <2>7 DEF Next
<1> QED  BY <1>1, InitIInv, PTL DEF Spec

-----------------------------------------------------------------------------
(***************************************************************************)
(* The theorems.                                                           *)
(***************************************************************************)

\* Every variable keeps its type.
THEOREM TypeCorrect == Spec => []TypeOK
<1>1. IInv => TypeOK
  BY DEF IInv
<1> QED  BY <1>1, InvariantKept, PTL

\* No component spins with nothing under way, and the thread spins for the
\* conversation selected last: SpinnerHonest in any order of the answers.
THEOREM SpinnersAreHonest == Spec => []SpinnerHonest
<1>1. IInv => SpinnerHonest
  BY DEF IInv, ComponentInv, SpinnerOK, SpinnerHonest, Component
<1> QED  BY <1>1, InvariantKept, PTL

\* The newest load's failure is on the screen, whatever comes in later.
THEOREM FailuresShow == Spec => []FailureShows
<1>1. IInv => FailureShows
  BY DEF IInv, ComponentInv, HistOK, FailureShows
<1> QED  BY <1>1, InvariantKept, PTL

\* Loads that do not overlap end with what is selected on the screen.
THEOREM SerialLoadsShowSelection == Spec => []SerialShowsSelection
<1>1. IInv => SerialShowsSelection
  BY DEF IInv, ComponentInv, SerialOK, SerialShowsSelection, Component
<1> QED  BY <1>1, InvariantKept, PTL

\* The list never asks for a page the server does not have.
THEOREM ListAsksInRange == Spec => []ListInRange
<1>1. IInv => ListInRange
  <2> SUFFICES ASSUME IInv, NEW i \in DOMAIN loads, loads[i].to = "list"
               PROVE  loads[i].query.page \in 1..serverPages
    BY DEF ListInRange
  <2>1. loads[i] \in LoadType /\ serverPages \in 1..MaxPages
    BY LenProperties, ElementOfSeq DEF IInv, TypeOK
  <2>2. loads[i].query.page <= serverPages
    BY DEF IInv, LoadInv, LoadOK
  <2> QED  BY <2>1, <2>2 DEF LoadType, Query
<1> QED  BY <1>1, InvariantKept, PTL

\* Nothing of an earlier session is shown, selected or about to arrive.
THEOREM SessionsAreApart == Spec => []NothingCrossesSessions
<1>1. IInv => NothingCrossesSessions
  BY DEF IInv, LoginInv, LoadInv, LoadOK, ComponentInv, ShownOK, NothingCrossesSessions
<1> QED  BY <1>1, InvariantKept, PTL

\* A table whose loads neither overlap nor fail shows the pages of its filter.
LEMMA TableShowsItsPages ==
    ASSUME IInv, ~hist["pane"].overlap, ~ui["pane"].error, ~ui["pane"].loading,
           ui["pane"].data # None
    PROVE  ui["pane"].data.pages = PagesOf[query.of]
<1>1. HistOK("pane") /\ SerialOK("pane") /\ ShownOK("pane")
  BY DEF IInv, ComponentInv, Component
<1>2. hist["pane"].last \in {"none", "pending", "ok", "failed"}
  BY DEF IInv, TypeOK, Component
<1>3. hist["pane"].last = "ok"
  BY <1>1, <1>2 DEF HistOK
<1>4. ui["pane"].data.query = query
  BY <1>1, <1>3 DEF SerialOK, Wanted
<1> QED  BY <1>1, <1>4 DEF ShownOK

\* No click leads a table past the last page of its filter as long as its loads
\* neither overlap nor fail: PagerStaysInRange.
THEOREM PagersStayInRange == Spec => PagerStaysInRange
<1>1. ASSUME IInv, [Next]_vars, InRange, ~hist["pane"].overlap, ~ui["pane"].error
      PROVE  InRange'
  <2>1. CASE query' = query
    BY <1>1, <2>1 DEF InRange
  <2>2. CASE \E f \in Filter : query' = FirstPage(f)
    <3>1. PICK f \in Filter : query'.page = 1 /\ query'.of = f
      BY <2>2 DEF FirstPage
    <3>2. PagesOf[f] \in 1..MaxPages
      BY FilterAssumption
    <3> QED  BY <3>1, <3>2, BoundsAssumption DEF InRange
  <2>3. ASSUME NEW p \in 1..MaxPages, TurnTable(p)  PROVE InRange'
    <3>1. query \in Query
      BY <1>1 DEF IInv, TypeOK
    <3>2. query'.page = p /\ query'.of = query.of
      BY <2>3, <3>1 DEF TurnTable, Query
    <3>3. ui["pane"].data.pages = PagesOf[query.of]
      BY <1>1, <2>3, TableShowsItsPages DEF TurnTable
    <3>4. \/ p + 1 = query.page
          \/ p <= ui["pane"].data.pages
      BY <2>3 DEF TurnTable
    <3>5. PagesOf[query.of] \in Int /\ query.page \in Int
      BY <1>1, <3>1, FilterAssumption DEF IInv, LoginInv, Query
    <3> QED  BY <1>1, <3>2, <3>3, <3>4, <3>5 DEF InRange
  <2>4. \/ query' = query
        \/ \E f \in Filter : query' = FirstPage(f)
        \/ \E p \in 1..MaxPages : TurnTable(p)
    BY <1>1, FilterAssumption
    DEF Next, vars, Submit, SignedIn, Refused, Logout, Reload, Expire, NewConversations,
        Navigate, Mount, Unmount, Select, TurnList, RefreshList, RetryList, Retry,
        RefreshOverview, SetFilter, FilterQuery, Answer
  <2> QED  BY <2>1, <2>2, <2>3, <2>4
<1>2. IInv /\ [Next]_vars =>
          [InRange /\ ~hist["pane"].overlap /\ ~ui["pane"].error => InRange']_vars
  BY <1>1
<1> QED  BY <1>2, InvariantKept, PTL DEF Spec, PagerStaysInRange

===============================================================================
