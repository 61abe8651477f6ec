----------------------------- MODULE LlmGateway -----------------------------
(***************************************************************************)
(* How a turn gets its reply: compose_reply (agents/compose.py) over       *)
(* LLMGateway.generate (integrations/llm/gateway.py), whose two providers  *)
(* Gemini and Nemotron each run the same bounded retry loop.               *)
(*                                                                         *)
(* What a provider answers is nondeterministic; time is counted in ticks,  *)
(* an attempt lasting at most the provider's timeout.                      *)
(***************************************************************************)
EXTENDS Naturals, Sequences

CONSTANTS
    Timeout,        \* timeout_seconds of one attempt
    MaxRetries,     \* max_retries
    Backoff         \* _RETRY_BACKOFF_SECONDS

ASSUME LoopAssumption == Timeout \in Nat /\ MaxRetries \in Nat /\ Backoff \in Nat

Provider == {"gemini", "nemotron"}
Code == {"config", "timeout", "connection", "rate_limited", "upstream_error", "auth",
         "unexpected_response"}
Nobody == [by |-> "nobody", fallbackUsed |-> FALSE]

VARIABLES
    configured, \* the providers that have an API key
    at,         \* where the turn's reply is
    left,       \* retries_left of the running loop
    backoff,    \* its next pause
    codes,      \* error codes the gateway has collected
    reply,      \* the reply's author and attribution
    tries,      \* history: attempts at each provider
    spent       \* history: time since compose_reply was entered

vars == <<configured, at, left, backoff, codes, reply, tries, spent>>

Init ==
    /\ configured \in SUBSET Provider
    /\ at = "compose"
    /\ left = 0
    /\ backoff = 0
    /\ codes = <<>>
    /\ reply = Nobody
    /\ tries = [p \in Provider |-> 0]
    /\ spent = 0

-----------------------------------------------------------------------------
\* Mutant: retries counted from one too high.
CallOnceMore(p) ==
    /\ at' = p
    /\ left' = MaxRetries + 1
    /\ backoff' = Backoff

\* A provider's generate: its loop starts with all retries left.
Call(p) ==
    /\ at' = p
    /\ left' = MaxRetries
    /\ backoff' = Backoff

\* Mutant: every reply counts as the primary's.
SettleUnattributed(author, fallbackUsed) ==
    /\ at' = "replied"
    /\ reply' = [by |-> author, fallbackUsed |-> FALSE]

Settle(author, fallbackUsed) ==
    /\ at' = "replied"
    /\ reply' = [by |-> author, fallbackUsed |-> fallbackUsed]

\* Every provider failed: compose_reply falls back to its template.
Deterministic == Settle("template", FALSE) /\ UNCHANGED <<left, backoff>>

\* build_default_gateway, as the turn's graph is built: with an empty Gemini key
\* the one provider is a stand-in that fails at once, whether Nemotron has a key
\* or not; with no such setting at all GeminiSettings fails its validation, and
\* with a key for Nemotron but an empty URL its provider cannot be built.
Start ==
    /\ at = "compose"
    /\ \/ /\ "gemini" \in configured
          /\ Call("gemini")
          /\ UNCHANGED <<codes, reply>>
       \/ /\ "gemini" \notin configured
          /\ codes' = <<"config">>
          /\ Deterministic
       \/ /\ "gemini" \notin configured \/ "nemotron" \in configured
          /\ at' = "raised"
          /\ UNCHANGED <<left, backoff, codes, reply>>
    /\ UNCHANGED <<configured, tries, spent>>

\* A provider raised a typed error: the gateway goes on to the fallback, if
\* there is one and it has not been tried.
GiveUp(code) ==
    /\ codes' = Append(codes, code)
    /\ IF at = "gemini" /\ "nemotron" \in configured
       THEN Call("nemotron") /\ UNCHANGED reply
       ELSE Deterministic

\* One HTTP attempt of the running loop ends after d ticks.
Attempt(d) ==
    /\ at \in Provider
    /\ d \in 0..Timeout
    /\ tries' = [tries EXCEPT ![at] = @ + 1]
    /\ UNCHANGED configured

\* Mutant: the pause triples.
RetryTripling(d) ==
    /\ left > 0
    /\ left' = left - 1
    /\ backoff' = 3 * backoff
    /\ spent' = spent + d + backoff
    /\ UNCHANGED <<at, codes, reply>>

\* ... in a transient failure: pause and retry, or raise when none is left.
Retry(d) ==
    /\ left > 0
    /\ left' = left - 1
    /\ backoff' = 2 * backoff
    /\ spent' = spent + d + backoff
    /\ UNCHANGED <<at, codes, reply>>

\* Mutant: the retry counter wraps around.
TransientForEver(d) ==
    /\ at \in Provider
    /\ left' = IF left = 0 THEN MaxRetries ELSE left - 1
    /\ UNCHANGED <<configured, at, backoff, codes, reply, tries, spent>>

TransientFailure(d) ==
    /\ Attempt(d)
    /\ \/ Retry(d)
       \/ /\ left = 0
          /\ spent' = spent + d
          /\ \E code \in {"timeout", "connection", "rate_limited", "upstream_error"} :
                GiveUp(code)

\* ... in a final one: bad key, another status, no JSON, not the expected
\* shape, blocked content, an empty completion.  Never retried.
FinalFailure(d) ==
    /\ Attempt(d)
    /\ spent' = spent + d
    /\ \E code \in {"auth", "upstream_error", "unexpected_response"} : GiveUp(code)

\* ... with a completion.
Completion(d) ==
    /\ Attempt(d)
    /\ spent' = spent + d
    /\ Settle(at, at = "nemotron")
    /\ UNCHANGED <<left, backoff, codes>>

\* ... with an answer _extract does not foresee: a text part that is null
\* (Gemini) or a token count that is no integer (both).  The TypeError or
\* ValidationError is no LLMError and passes through gateway and composer.
Unforeseen(d) ==
    /\ Attempt(d)
    /\ spent' = spent + d
    /\ at' = "raised"
    /\ UNCHANGED <<left, backoff, codes, reply>>

-----------------------------------------------------------------------------
Generate(d) ==
    TransientFailure(d) \/ FinalFailure(d) \/ Completion(d) \/ Unforeseen(d)

Next == Start \/ \E d \in 0..Timeout : Generate(d)

\* Attempts end within their timeout and the loop's pauses are finite.
Fairness == WF_vars(Next)

Spec == Init /\ [][Next]_vars /\ Fairness

-----------------------------------------------------------------------------
TypeOK ==
    /\ configured \subseteq Provider
    /\ at \in Provider \cup {"compose", "replied", "raised"}
    /\ left \in 0..MaxRetries
    /\ backoff \in Nat
    /\ codes \in Seq(Code)
    /\ reply \in [by : Provider \cup {"template", "nobody"}, fallbackUsed : BOOLEAN]
    /\ tries \in [Provider -> Nat]
    /\ spent \in Nat

\* The providers a turn can reach, in order.
Chain == IF "gemini" \notin configured THEN {} ELSE configured

\* "so a whole agent turn stays bounded": the slowest reply costs every
\* provider all its attempts and all its pauses, and no more.  PauseSum[n] is
\* the sum of the first n pauses, for a pause that doubles each time.
PauseSum[n \in Nat] == IF n = 0 THEN 0 ELSE 2 * PauseSum[n - 1] + Backoff
LoopBudget == (MaxRetries + 1) * Timeout + PauseSum[MaxRetries]
ReplyIsBounded ==
    /\ \A p \in Provider : tries[p] <= (IF p \in Chain THEN MaxRetries + 1 ELSE 0)
    /\ spent <= (IF "nemotron" \in Chain THEN 2 ELSE 1) * LoopBudget

\* The attribution persist_turn records is the truth: a reply is marked as the
\* fallback's exactly when Nemotron wrote it, Nemotron is asked only once Gemini
\* has failed, and the template is used only when every provider within reach was
\* tried and failed.
HonestAttribution ==
    /\ at = "nemotron" => Len(codes) = 1 /\ tries["gemini"] > 0
    /\ at = "replied" =>
        /\ reply.fallbackUsed <=> reply.by = "nemotron"
        /\ reply.by = "gemini" => codes = <<>> /\ tries["nemotron"] = 0
        /\ reply.by = "nemotron" => Len(codes) = 1 /\ tries["gemini"] > 0
        /\ reply.by = "template" => \A p \in Chain : tries[p] > 0

\* A turn does not wait for its reply for ever.
ComposeEnds == <>(at \in {"replied", "raised"})

=============================================================================
