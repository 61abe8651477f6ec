------------------------------ MODULE Dashboard ------------------------------
(***************************************************************************)
(* The admin dashboard (frontend/src) in one browser tab: signing in, the  *)
(* two-pane conversation view, the five Inventra views, and the requests   *)
(* they have in flight.                                                    *)
(*                                                                         *)
(* The script runs one event at a time: a click with the effects of the    *)
(* render it causes is one step, and so is an answer with the then, catch  *)
(* and finally that follow it.  No request is ever cancelled, so answers   *)
(* arrive in any order; one for an unmounted component reaches nobody.     *)
(***************************************************************************)
EXTENDS Naturals, Sequences, SequencesExt

CONSTANTS
    Conversation,   \* conversations an administrator may select
    Filter,         \* what the search, status and type controls can be set to
    NoFilter,       \* ... and how they start
    PagesOf,        \* how many pages Inventra has under each filter
    Tab,            \* the Inventra views this instance has
    None,           \* null
    MaxPages,       \* bound: pages the conversation list grows to
    MaxInFlight,    \* bound: requests in flight
    MaxSession      \* bound: times the administrator signs in

ASSUME FilterAssumption == NoFilter \in Filter /\ PagesOf \in [Filter -> 1..MaxPages]
ASSUME TabAssumption ==
    Tab \subseteq {"overview", "products", "inventory", "movements", "categories"}
ASSUME NoneAssumption == None \notin Conversation \cup Filter
ASSUME BoundsAssumption ==
    MaxPages \in Nat \ {0} /\ MaxInFlight \in Nat \ {0, 1} /\ MaxSession \in Nat

VARIABLES
    token,      \* the stored JWT: "none", "valid" or "expired"
    session,    \* history: how often a token was issued
    login,      \* the login form: "idle", "submitting" or "refused"
    view,       \* App's view
    selected,   \* App's selected conversation
    query,      \* the page and filter of the mounted Inventra view
    ui,         \* data, loading and error of each loading component
    loads,      \* requests in flight, oldest first
    serverPages,\* pages of conversations there are
    hist        \* history: each component's newest load

vars == <<token, session, login, view, selected, query, ui, loads, serverPages, hist>>

Component == {"list", "thread", "pane"}
Paged == {"products", "movements"}
Filtered == Paged \cup {"inventory"}
View == {"conversations"} \cup Tab

Query == [page : 1..MaxPages, of : Filter \cup Conversation \cup {None}]

\* What a component keeps of an answer: what it was asked for, and how many
\* pages there are.  `session' is history.
Data == [query : Query, session : 1..MaxSession, pages : 1..MaxPages]
Selection == [id : Conversation, session : 1..MaxSession]
ASSUME NullAssumption == None \notin Data \cup Selection

\* Mutant: pages are counted from zero.
ZeroPage(x) == [page |-> 0, of |-> x]

\* What a component asks for first; a thread's is the only page it asks for.
FirstPage(x) == [page |-> 1, of |-> x]

\* data = null, error = null; `loading' starts TRUE where the mount loads.
Fresh == [data |-> None, loading |-> FALSE, error |-> FALSE]
Loading(u) == [u EXCEPT !.loading = TRUE, !.error = FALSE]

\* A request: the token it carries is the one stored when it is sent.
\* `newest': no later one of the component was sent; for the thread this is
\* its AbortController's signal not being aborted.
Load(c, q, tok, ses) ==
    [to |-> c, query |-> q, newest |-> TRUE, valid |-> tok = "valid",
     pages |-> serverPages, session |-> ses]

Busy(c) == \E i \in DOMAIN loads : loads[i].to = c

-----------------------------------------------------------------------------
\* The effects that run when the components of a view mount: what they send...
MountLoads(v, s, tok, ses) ==
    IF v # "conversations" THEN <<Load("pane", FirstPage(NoFilter), tok, ses)>>
    ELSE <<Load("list", FirstPage(None), tok, ses)>>
         \o (IF s = None THEN <<>>
             ELSE <<Load("thread", FirstPage(s.id), tok, ses)>>)

\* ... and what they show.  Everything that was mounted before is gone.
Mount(v, s, tok, ses) ==
    LET sent == MountLoads(v, s, tok, ses)
        Sends(c) == \E i \in DOMAIN sent : sent[i].to = c
    IN  /\ loads' = sent
        /\ ui' = [c \in Component |-> IF Sends(c) THEN Loading(Fresh) ELSE Fresh]
        /\ hist' = [c \in Component |-> [last |-> IF Sends(c) THEN "pending" ELSE "none",
                                         overlap |-> FALSE]]
        /\ query' = FirstPage(NoFilter)

Unmount ==
    /\ loads' = <<>>
    /\ ui' = [c \in Component |-> Fresh]
    /\ hist' = [c \in Component |-> [last |-> "none", overlap |-> FALSE]]
    /\ query' = FirstPage(NoFilter)

\* load: the component shows its spinner, drops its error and sends a request;
\* the thread's cleanup aborts the signal of the one before.
Request(c, q) ==
    /\ Len(loads) < MaxInFlight
    /\ loads' = Append([i \in DOMAIN loads |->
                          [loads[i] EXCEPT !.newest = @ /\ loads[i].to # c]],
                       Load(c, q, token, session))
    /\ ui' = [ui EXCEPT ![c] = Loading(@)]
    /\ hist' = [hist EXCEPT ![c] = [last |-> "pending", overlap |-> Busy(c)]]

Init ==
    /\ token = "none"
    /\ session = 0
    /\ login = "idle"
    /\ view = "conversations"
    /\ selected = None
    /\ query = FirstPage(NoFilter)
    /\ ui = [c \in Component |-> Fresh]
    /\ loads = <<>>
    /\ serverPages = 1
    /\ hist = [c \in Component |-> [last |-> "none", overlap |-> FALSE]]

-----------------------------------------------------------------------------
LoggedIn == token # "none"
Showing(V) == LoggedIn /\ view \in V

\* handleSubmit; the button is disabled while a request is under way.
Submit ==
    /\ ~LoggedIn
    /\ session < MaxSession
    /\ login # "submitting"
    /\ login' = "submitting"
    /\ UNCHANGED <<token, session, view, selected, query, ui, loads, serverPages, hist>>

\* The token is stored and App renders the view it was on before.
SignedIn ==
    /\ login = "submitting"
    /\ login' = "idle"
    /\ token' = "valid"
    /\ session' = session + 1
    /\ Mount(view, selected, "valid", session + 1)
    /\ UNCHANGED <<view, selected, serverPages>>

\* 401, 503 or no answer.
Refused ==
    /\ login = "submitting"
    /\ login' = "refused"
    /\ UNCHANGED <<token, session, view, selected, query, ui, loads, serverPages, hist>>

\* Mutant: handleLogout leaves the selection in place.
LogoutKeepsSelection ==
    /\ LoggedIn
    /\ token' = "none"
    /\ Unmount
    /\ UNCHANGED <<session, login, view, selected, serverPages>>

\* handleLogout.  The view stays.
Logout ==
    /\ LoggedIn
    /\ token' = "none"
    /\ selected' = None
    /\ Unmount
    /\ UNCHANGED <<session, login, view, serverPages>>

\* The tab is reloaded: only sessionStorage survives.
Reload ==
    /\ view' = "conversations"
    /\ selected' = None
    /\ login' = "idle"
    /\ IF LoggedIn THEN Mount("conversations", None, token, session) ELSE Unmount
    /\ UNCHANGED <<token, session, serverPages>>

\* A tab of the tab bar.  Selecting the one that is shown changes nothing.
Navigate(v) ==
    /\ Showing(View \ {v})
    /\ view' = v
    /\ Mount(v, selected, token, session)
    /\ UNCHANGED <<token, session, login, selected, serverPages>>

-----------------------------------------------------------------------------
SelectedId == IF selected = None THEN None ELSE selected.id

\* onSelect: the thread's effect runs only when the id changes.
Select(c) ==
    /\ Showing({"conversations"})
    /\ ui["list"].data # None
    /\ c # SelectedId
    /\ selected' = [id |-> c, session |-> session]
    /\ Request("thread", FirstPage(c))
    /\ UNCHANGED <<token, session, login, view, query, serverPages>>

\* page and totalPages as the last answer set them.
ListPage == IF ui["list"].data = None THEN 1 ELSE ui["list"].data.query.page
ListPages == IF ui["list"].data = None THEN 1 ELSE ui["list"].data.pages

\* Mutant: Next is offered on the last page.
ListTargetsPastEnd == {p \in {ListPage - 1, ListPage + 1} : 1 <= p /\ p <= ListPages + 1}

\* Prev and Next of the list, neither disabled while a page is loading.
ListTargets == {p \in {ListPage - 1, ListPage + 1} : 1 <= p /\ p <= ListPages}

TurnList(p) ==
    /\ Showing({"conversations"})
    /\ p \in ListTargets
    /\ Request("list", [page |-> p, of |-> None])
    /\ UNCHANGED <<token, session, login, view, selected, query, serverPages>>

RefreshList ==
    /\ Showing({"conversations"})
    /\ ~ui["list"].loading
    /\ Request("list", [page |-> ListPage, of |-> None])
    /\ UNCHANGED <<token, session, login, view, selected, query, serverPages>>

\* Retry goes back to the first page.
RetryList ==
    /\ Showing({"conversations"})
    /\ ~ui["list"].loading
    /\ ui["list"].error
    /\ Request("list", FirstPage(None))
    /\ UNCHANGED <<token, session, login, view, selected, query, serverPages>>

-----------------------------------------------------------------------------
\* Mutant: a new filter keeps the page number.
FilterKeepsPage(f) == [query EXCEPT !.of = f]

\* A control is set: the page goes back to the first.
FilterQuery(f) == FirstPage(f)

\* The effect runs only if the page or the filter is another one now.
SetFilter(f) ==
    /\ Showing(Filtered)
    /\ FilterQuery(f) # query
    /\ query' = FilterQuery(f)
    /\ Request("pane", query')
    /\ UNCHANGED <<token, session, login, view, selected, serverPages>>

\* Prev and Next of a table: disabled while loading, bounded by the pages of
\* the answer that is shown.
TurnTable(p) ==
    /\ Showing(Paged)
    /\ ui["pane"].data # None
    /\ ~ui["pane"].loading
    /\ \/ p + 1 = query.page /\ 1 <= p /\ ui["pane"].data.pages > 1
       \/ p = query.page + 1 /\ p <= ui["pane"].data.pages
    /\ query' = [query EXCEPT !.page = p]
    /\ Request("pane", query')
    /\ UNCHANGED <<token, session, login, view, selected, serverPages>>

\* Mutant: the handler closed over the first render.
StaleRetryQuery == FirstPage(NoFilter)

\* Retry asks for what is selected now.
RetryQuery == query

Retry ==
    /\ Showing(View \ {"conversations"})
    /\ ui["pane"].error
    /\ Request("pane", RetryQuery)
    /\ UNCHANGED <<token, session, login, view, selected, query, serverPages>>

RefreshOverview ==
    /\ Showing({"overview"})
    /\ ~ui["pane"].loading
    /\ Request("pane", query)
    /\ UNCHANGED <<token, session, login, view, selected, query, serverPages>>

-----------------------------------------------------------------------------
\* Mutant: finally does not look at the signal.
SpinnerEndsAlways(l, ok) == FALSE

\* Mutant: the spinner is switched off on success only.
SpinnerEndsOnSuccess(l, ok) == IF ok THEN FALSE ELSE ui[l.to].loading

\* finally: the thread looks at its signal, the others do not.
SpinnerAfter(l, ok) == l.to = "thread" /\ ~l.newest /\ ui["thread"].loading

\* Mutant: a success clears the error.
ErrorAfterLast(l, ok) == ~ok

\* catch sets the error; nothing but the next load clears it.
ErrorAfter(l, ok) == ui[l.to].error \/ ~ok

\* The answer's data.  The list's page count is that of the moment the server
\* looked, anywhere between the request and now.
Answers(l) ==
    [query : {l.query}, session : {l.session},
     pages : CASE l.to = "list" -> l.pages..serverPages
               [] l.to = "pane" -> {PagesOf[l.query.of]}
               [] l.to = "thread" -> {1}]

\* require_admin, on the token that came with the request.
Authorized(l) == l.valid

\* An answer arrives.  Without a valid token it is a 401; it may be a 404, a
\* 502 or a 503, or the network may fail, in any case.
Answer(i, ok) ==
    LET l == loads[i] IN
    /\ ok => Authorized(l)
    /\ loads' = RemoveAt(loads, i)
    /\ \E d \in IF ok THEN Answers(l) ELSE {ui[l.to].data} :
         ui' = [ui EXCEPT ![l.to] = [data |-> d, loading |-> SpinnerAfter(l, ok),
                                     error |-> ErrorAfter(l, ok)]]
    /\ hist' = [hist EXCEPT ![l.to].last =
                  IF ~l.newest THEN @ ELSE IF ok THEN "ok" ELSE "failed"]
    /\ UNCHANGED <<token, session, login, view, selected, query, serverPages>>

\* The token's lifetime ends; the tab does not notice.
Expire ==
    /\ token = "valid"
    /\ token' = "expired"
    /\ UNCHANGED <<session, login, view, selected, query, ui, loads, serverPages, hist>>

\* Customers open conversations; none is ever deleted.
NewConversations ==
    /\ serverPages < MaxPages
    /\ serverPages' = serverPages + 1
    /\ UNCHANGED <<token, session, login, view, selected, query, ui, loads, hist>>

Next ==
    \/ Submit \/ SignedIn \/ Refused \/ Logout \/ Reload \/ Expire \/ NewConversations
    \/ \E v \in View : Navigate(v)
    \/ \E c \in Conversation : Select(c)
    \/ \E p \in 1..MaxPages : TurnList(p) \/ TurnTable(p)
    \/ RefreshList \/ RetryList \/ Retry \/ RefreshOverview
    \/ \E f \in Filter : SetFilter(f)
    \/ \E i \in DOMAIN loads, ok \in BOOLEAN : Answer(i, ok)

AnswerNewest(c) ==
    \E i \in DOMAIN loads, ok \in BOOLEAN :
        loads[i].to = c /\ loads[i].newest /\ Answer(i, ok)

\* The browser settles every fetch, if only with a network error.
Fairness ==
    /\ WF_vars(SignedIn \/ Refused)
    /\ \A c \in Component : WF_vars(AnswerNewest(c))

Spec == Init /\ [][Next]_vars /\ Fairness

-----------------------------------------------------------------------------
LoadType == [to : Component, query : Query, newest : BOOLEAN, valid : BOOLEAN,
             pages : 1..MaxPages, session : 1..MaxSession]

\* Every variable has its type.
TypeOK ==
    /\ token \in {"none", "valid", "expired"}
    /\ session \in 0..MaxSession
    /\ login \in {"idle", "submitting", "refused"}
    /\ view \in View
    /\ selected \in {None} \cup Selection
    /\ query \in Query
    /\ ui \in [Component -> [data : {None} \cup Data, loading : BOOLEAN, error : BOOLEAN]]
    /\ loads \in Seq(LoadType)
    /\ serverPages \in 1..MaxPages
    /\ hist \in [Component -> [last : {"none", "pending", "ok", "failed"},
                               overlap : BOOLEAN]]

\* No component spins with nothing under way, and the thread spins exactly as
\* long as the request of the conversation selected last is: the late answer of
\* an earlier one does not switch its spinner off.
SpinnerHonest ==
    /\ \A c \in Component : ui[c].loading => Busy(c)
    /\ ui["thread"].loading
         <=> \E i \in DOMAIN loads : loads[i].to = "thread" /\ loads[i].newest

\* If the newest load of a component failed, with a 401 say, its error stays on
\* the screen until the next load, whatever earlier answers still come in.
FailureShows == \A c \in Component : hist[c].last = "failed" => ui[c].error

\* What the thread and the Inventra view should be showing.
Wanted(c) == IF c = "thread" THEN FirstPage(SelectedId) ELSE query

\* Unless a load was sent while another one was still under way, a component
\* that neither spins nor reports an error shows what is selected: messages of
\* the selected conversation, rows of the chosen page and filter.
SerialShowsSelection ==
    \A c \in {"thread", "pane"} :
        hist[c].last = "ok" /\ ~hist[c].overlap /\ ~ui[c].error
            => ui[c].data # None /\ ui[c].data.query = Wanted(c)

\* The list never asks for a page the server does not have, although its Prev
\* and Next stay enabled while pages load and answers overtake each other.
ListInRange ==
    \A i \in DOMAIN loads :
        loads[i].to = "list" => loads[i].query.page \in 1..serverPages

\* Nothing of an earlier session is on the screen, selected, or about to arrive.
NothingCrossesSessions ==
    /\ \A c \in Component : ui[c].data # None => ui[c].data.session = session
    /\ selected # None => selected.session = session
    /\ \A i \in DOMAIN loads : loads[i].session = session

InRange == query.page <= PagesOf[query.of]

\* As long as loads do not overlap and none has failed, no click leads a table
\* past the last page of its filter (where it would be empty, without a pager
\* to come back with).
PagerStaysInRange ==
    [][InRange /\ ~hist["pane"].overlap /\ ~ui["pane"].error => InRange']_vars

\* Every spinner stops, the one of the login button too.
SpinnersStop ==
    /\ \A c \in Component : ui[c].loading ~> ~ui[c].loading
    /\ login = "submitting" ~> login # "submitting"

=============================================================================
