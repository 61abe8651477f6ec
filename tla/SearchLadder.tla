---------------------------- MODULE SearchLadder ----------------------------
(***************************************************************************)
(* How a turn reads the catalogue: classify_intent (agents/classify.py)    *)
(* picks the intent, gather_context (agents/gather.py) plans the reads the *)
(* intent calls for and makes them one by one, each a cache-aside read     *)
(* that asks Inventra in a bounded retry loop (inventra/client.py).  A     *)
(* search that finds nothing climbs a ladder of other searches.            *)
(*                                                                         *)
(* A message is what the heuristics read out of it: its product-bearing    *)
(* words, whether anything else surrounds them, its last number and        *)
(* whether it is too long for a search parameter.                          *)
(***************************************************************************)
EXTENDS Naturals, SequencesExt

CONSTANTS
    Word,           \* product-bearing words
    Letters,        \* their lengths
    Canon,          \* their literal catalogue forms (laptops -> laptop)
    CategoryOf,     \* the category a word is an alias of, or None
    Category,
    MaxRetries,     \* retries of one read of Inventra
    MaxWords,       \* bound: words of a message
    None

ASSUME TablesAssumption ==
    /\ Letters \in [Word -> Nat]
    /\ Canon \in [Word -> Word]
    /\ \A w \in Word : Canon[Canon[w]] = Canon[w]
    /\ CategoryOf \in [Word -> Category \cup {None}]
ASSUME BoundsAssumption == MaxRetries \in Nat /\ MaxWords \in Nat

-----------------------------------------------------------------------------
(* classify_intent                                                         *)

Intent == {"inventory_movements", "inventory_check", "product_details",
           "category_browse", "product_search"}

ASSUME NoneAssumption == None \notin Category \cup Intent \cup {"unknown"}

RuleOrder == <<"inventory_movements", "inventory_check", "product_details",
               "category_browse", "product_search">>

FirstRule(matching) ==
    LET hits == {i \in DOMAIN RuleOrder : RuleOrder[i] \in matching}
    IN  IF hits = {} THEN None ELSE RuleOrder[Min(hits)]

\* english, spanish: the rules of which the message holds a keyword.
Classify(english, spanish) ==
    IF english # {} THEN FirstRule(english)
    ELSE IF spanish # {} THEN FirstRule(spanish)
    ELSE "unknown"

-----------------------------------------------------------------------------
(* The terms of a search                                                   *)

\* The message as it stands, and the search term extracted from it: the framing
\* phrases, stop words and punctuation of a framed message are gone.
Raw(m) == [words |-> m.words, framed |-> m.framed]
Extracted(m) == [words |-> m.words, framed |-> FALSE]
Canonical(p) == [words |-> [i \in DOMAIN p.words |-> Canon[p.words[i]]], framed |-> p.framed]

First(m, term) == IF term.words = <<>> THEN Raw(m) ELSE term

\* Of the words of a term at the places S, the longest; of equally long ones the
\* first.
Before(w, i, j) ==
    \/ Letters[w[i]] > Letters[w[j]]
    \/ Letters[w[i]] = Letters[w[j]] /\ i < j
Longest(w, S) == CHOOSE i \in S : \A j \in S \ {i} : Before(w, i, j)

\* The two longest words of a term, those of one or two letters aside.
Significant(term) ==
    LET w == term.words
        long == {i \in DOMAIN w : Letters[w[i]] > 2}
        other == {i \in long : i # Longest(w, long)}
    IN  (IF long = {} THEN <<>> ELSE <<w[Longest(w, long)]>>)
        \o (IF other = {} THEN <<>> ELSE <<w[Longest(w, other)]>>)

AddNew(seq, x) == IF Contains(seq, x) THEN seq ELSE Append(seq, x)

\* A word as a search term of its own, and a word as the category it stands for.
Phrase(w) == [words |-> <<w>>, framed |-> FALSE]
AddWord(seq, words, k) ==
    IF k \in DOMAIN words THEN AddNew(seq, Phrase(words[k])) ELSE seq
AddCategory(seq, words, k) ==
    IF k \in DOMAIN words /\ CategoryOf[words[k]] # None
    THEN AddNew(seq, CategoryOf[words[k]]) ELSE seq

\* Mutant: the words alone.
FallbackWords(tried, m, term) ==
    AddWord(AddWord(tried, Significant(term), 1), Significant(term), 2)

\* The terms tried so far and the fallback terms that are not among them: the
\* message as it stands and the term's significant words.
Fallbacks(tried, m, term) ==
    AddWord(AddWord(AddNew(tried, Raw(m)), Significant(term), 1), Significant(term), 2)

\* Literal aliases need no rung of their own: the term is canonical.
Aliases(term) ==
    AddCategory(AddCategory(<<>>, Significant(term), 1), Significant(term), 2)

-----------------------------------------------------------------------------
(* The reads                                                               *)

\* What a read is for.  That of a lookup is the category wanted, though every lookup
\* reads the list of all categories.
Read(by, of) == [by |-> by, of |-> of]
Reads(by, seq) == [i \in DOMAIN seq |-> Read(by, seq[i])]

\* Mutant: the first term is not left out of the fallbacks.
LadderRepeating(m, term, by) ==
    Reads(by, <<First(m, term)>> \o Fallbacks(<<>>, m, term))

Ladder(m, term, by) == Reads(by, Fallbacks(<<First(m, term)>>, m, term))

ProductLadder(m) ==
    LET term == Canonical(Extracted(m))
    IN  Ladder(m, term, "search") \o Reads("lookup", Aliases(term))

\* What gather_context sets out to read.
Plan(intent, m) ==
    CASE intent = "product_search" -> ProductLadder(m)
      [] intent = "product_details" /\ m.id = "none" -> ProductLadder(m)
      [] intent = "product_details" /\ m.id # "none" -> <<Read("details", m.id)>>
      [] intent = "category_browse" -> <<Read("browse", None)>>
      [] intent = "inventory_check" -> Ladder(m, Extracted(m), "check")
      [] intent = "inventory_movements" -> <<Read("movements", m.id)>>
      [] intent = "unknown" -> <<>>

\* What is refused before it is read: by pydantic, a search of more than 200
\* characters and the movements of product 0; by int(), a digit like a superscript.
Refused(m, read) ==
    \/ /\ read.by \in {"search", "check"}
       /\ m.long = "term" \/ (m.long = "raw" /\ read.of = Raw(m))
    \/ read.by = "movements" /\ read.of = "zero"
    \/ read.by \in {"movements", "details"} /\ read.of = "superscript"

Transient == {"timeout", "unavailable", "upstream_error"}
Final == {"not_found", "upstream_error", "rejected"}
Failure == Transient \cup Final

\* "no match": the not_found of a product that no search found.
Outcome == {"pending", "some", "none", "no match", "nothing", "raised"} \cup Failure

Message ==
    {m \in [words : BoundedSeq(Word, MaxWords), framed : BOOLEAN,
            long : {"no", "raw", "term"}, id : {"none", "zero", "one", "superscript"}] :
        /\ m.words = <<>> \/ m.long = "raw" => m.framed
        /\ m.long = "term" => m.words # <<>>}

VARIABLES
    msg,        \* customer_message
    intent,     \* AgentState.intent, None before it is classified
    todo,       \* the reads planned and not made yet
    left,       \* retries_left of the running read
    outcome,    \* what gather_context returns
    answers,    \* history: the reads made and what each came to
    requests    \* history: requests the running, or the last, read has sent

vars == <<msg, intent, todo, left, outcome, answers, requests>>

Init ==
    /\ msg \in Message
    /\ intent = None
    /\ todo = <<>>
    /\ left = MaxRetries
    /\ outcome = "pending"
    /\ answers = <<>>
    /\ requests = 0

Begin(english, spanish) ==
    /\ intent = None
    /\ intent' = Classify(english, spanish)
    /\ todo' = Plan(intent', msg)
    /\ outcome' = IF intent' = "unknown" THEN "nothing" ELSE "pending"
    /\ UNCHANGED <<msg, left, answers, requests>>

Settle(result) ==
    /\ outcome' = result
    /\ todo' = <<>>

Continue(reads) ==
    /\ todo' = reads
    /\ UNCHANGED outcome

\* A read that found nothing: on to the next one, or that is the answer.
Climb ==
    IF Len(todo) > 1 THEN Continue(Tail(todo))
    ELSE Settle(IF intent = "product_details" THEN "no match" ELSE "none")

\* The category whose id is in the list is searched next; of products found by a
\* name, the details of one are read.
Found(read) ==
    IF read.by = "lookup" THEN Continue(<<Read("filter", read.of)>> \o Tail(todo))
    ELSE IF intent = "product_details" /\ read.by # "details" THEN Continue(<<Read("details", "found")>>)
    ELSE Settle("some")

\* A ToolError ends the node, the resolution of a category excepted.
Fails(read, code) == IF read.by = "lookup" THEN Climb ELSE Settle(code)

\* The read at the head of todo is over, after n requests.
Ends(answer, n) ==
    LET read == Head(todo)
    IN  /\ \/ answer = "some" /\ Found(read)
           \/ answer = "none" /\ read.by # "details" /\ Climb
           \/ answer \in Failure /\ Fails(read, answer)
        /\ answers' = Append(answers, [read |-> read, answer |-> answer])
        /\ left' = MaxRetries
        /\ requests' = IF outcome' = "pending" THEN 0 ELSE n
        /\ UNCHANGED <<msg, intent>>

Refuse ==
    /\ todo # <<>> /\ Refused(msg, Head(todo))
    /\ Settle("raised")
    /\ UNCHANGED <<msg, intent, left, answers, requests>>

Reading == todo # <<>> /\ ~Refused(msg, Head(todo))

\* Movements are never cached.
CacheHit(answer) ==
    /\ Reading
    /\ requests = 0
    /\ Head(todo).by # "movements"
    /\ Ends(answer, 0)

\* A request of _request_json's loop that is answered or fails for good; a failure
\* worth a retry is final once no retry is left.
Request(answer) ==
    /\ Reading
    /\ answer \in Transient \ Final => left = 0
    /\ Ends(answer, requests + 1)

\* Mutant: a retry costs nothing.
RetryFreely ==
    /\ Reading
    /\ requests <= MaxRetries + 1
    /\ requests' = requests + 1
    /\ UNCHANGED <<msg, intent, todo, left, outcome, answers>>

Retry ==
    /\ Reading
    /\ left > 0
    /\ left' = left - 1
    /\ requests' = requests + 1
    /\ UNCHANGED <<msg, intent, todo, outcome, answers>>

Next ==
    \/ \E english, spanish \in SUBSET Intent : Begin(english, spanish)
    \/ Refuse
    \/ \E answer \in {"some", "none"} : CacheHit(answer)
    \/ \E answer \in {"some", "none"} \cup Failure : Request(answer)
    \/ Retry

Spec == Init /\ [][Next]_vars

-----------------------------------------------------------------------------
\* Every read still planned is one of the intent's, or the filter a category
\* lookup or the details a name led to.
TypeOK ==
    /\ msg \in Message
    /\ intent \in Intent \cup {None, "unknown"}
    /\ \A i \in DOMAIN todo :
          \/ todo[i] \in ToSet(Plan(intent, msg))
          \/ i = 1 /\ todo[i].by \in {"filter", "details"}
    /\ left \in 0..MaxRetries
    /\ outcome \in Outcome
    /\ outcome = "pending" <=> intent = None \/ todo # <<>>
    /\ requests \in 0..(MaxRetries + 1)

Answered(by, of, results) ==
    \E i \in DOMAIN answers : /\ answers[i].read = Read(by, of)
                              /\ answers[i].answer \in results

\* The words worth a search of their own: longer than two letters, and fewer than
\* two others longer, or as long and earlier.
Notable(words) ==
    {words[i] : i \in {j \in DOMAIN words :
        /\ Letters[words[j]] > 2
        /\ Cardinality({k \in DOMAIN words :
               \/ Letters[words[k]] > Letters[words[j]]
               \/ Letters[words[k]] = Letters[words[j]] /\ k < j}) < 2}}

\* Every search the message suggests came back empty: the message as it is, its
\* term and its notable words; for products, in their catalogue forms, and the
\* categories these are aliases of, when their ids could be had.
Exhausted ==
    LET products == intent # "inventory_check"
        by == IF products THEN "search" ELSE "check"
        words == IF products THEN [i \in DOMAIN msg.words |-> Canon[msg.words[i]]]
                 ELSE msg.words
    IN  /\ Answered(by, Raw(msg), {"none"})
        /\ words # <<>> => Answered(by, [words |-> words, framed |-> FALSE], {"none"})
        /\ \A w \in Notable(words) : Answered(by, Phrase(w), {"none"})
        /\ products =>
              \A w \in {v \in Notable(words) : CategoryOf[v] # None} :
                 \/ Answered("filter", CategoryOf[w], {"none"})
                 \/ Answered("lookup", CategoryOf[w], {"none"} \cup Failure)

\* What the composer is told of the catalogue is what Inventra said: a result was
\* found by the last read; "nothing found" means that every search the message
\* suggests was made and came back empty (gather.py:313-367, :437-446), whichever
\* reads were answered by the cache; a failure is the last read's own, and one
\* worth a retry is told only when all retries were used (client.py:284-310).
HonestAnswer ==
    LET last == answers[Len(answers)]
    IN  /\ outcome = "some" => last.answer = "some" /\ last.read.by # "lookup"
        /\ /\ outcome \in {"none", "no match"}
           /\ intent \in {"product_search", "product_details", "inventory_check"}
           => Exhausted
        /\ outcome \in Failure =>
              last.answer = outcome /\ last.read.by # "lookup"
        /\ outcome \in Transient \ Final => requests = MaxRetries + 1
        /\ outcome = "raised" =>
              msg.long # "no" \/ msg.id \in {"zero", "superscript"}

\* A turn asks Inventra nine questions at most: four terms (gather.py:200,
\* "hard-capped": with the first one), two categories, each looked up and searched,
\* and a product's details; and each in MaxRetries + 1 requests.  It asks nothing
\* twice but for the lookups: both read the same list of all categories
\* (gather.py:230), a second time when the cache does not hold it.
LadderBounded ==
    LET Made(bys) == {i \in DOMAIN answers : answers[i].read.by \in bys}
    IN  /\ \A i, j \in DOMAIN answers :
              answers[i].read = answers[j].read /\ answers[i].read.by # "lookup" => i = j
        /\ Cardinality(Made({"search", "check"})) <= 4
        /\ Cardinality(Made({"lookup"})) <= 2
        /\ Len(answers) <= 9
        /\ requests <= MaxRetries + 1

=============================================================================
