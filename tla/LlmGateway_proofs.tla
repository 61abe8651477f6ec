-------------------------- MODULE LlmGateway_proofs --------------------------
(***************************************************************************)
(* The attribution of a reply and the attempts and the time it costs, for  *)
(* any timeout, number of retries and pause, whichever keys are configured.*)
(***************************************************************************)
EXTENDS LlmGateway, WellFoundedInduction, TLAPS

-----------------------------------------------------------------------------
(***************************************************************************)
(* The inductive invariant, in named parts.                                *)
(***************************************************************************)

\* Where the reply is says which providers have been tried, and have failed.
StageInv ==
    /\ at = "compose" => codes = <<>> /\ reply = Nobody /\ \A p \in Provider : tries[p] = 0
    /\ at = "gemini" => "gemini" \in configured /\ codes = <<>> /\ tries["nemotron"] = 0
    /\ at = "nemotron" => /\ configured = Provider
                          /\ Len(codes) = 1 /\ tries["gemini"] > 0

\* Each attempt of a loop uses up a retry, but for the last.
AttemptInv ==
    /\ at \in Provider => tries[at] + left <= MaxRetries
    /\ \A p \in Provider : tries[p] <= IF p \in Chain THEN MaxRetries + 1 ELSE 0

IInv ==
    /\ TypeOK
    /\ StageInv
    /\ AttemptInv
    /\ HonestAttribution

-----------------------------------------------------------------------------
\* Nothing has been tried as a turn enters compose_reply.
LEMMA InitIInv == Init => IInv
<1> SUFFICES ASSUME Init PROVE IInv
  OBVIOUS
<1>1. \A p \in Provider : tries[p] = 0
  BY DEF Init
<1>2. TypeOK
  BY LoopAssumption DEF Init, TypeOK, Nobody
<1>3. StageInv /\ HonestAttribution
  BY <1>1 DEF Init, StageInv, HonestAttribution, Provider
<1>4. AttemptInv
  BY <1>1, LoopAssumption DEF Init, AttemptInv, Provider
<1> QED  BY <1>2, <1>3, <1>4 DEF IInv

\* Building the gateway reaches Gemini, or nobody.
LEMMA StartKeeps ==
    ASSUME IInv, Start
    PROVE  IInv'
<1>1. /\ UNCHANGED <<configured, tries, spent>>
      /\ codes = <<>> /\ reply = Nobody /\ tries["gemini"] = 0 /\ tries["nemotron"] = 0
      /\ TypeOK
  BY DEF Start, IInv, StageInv, Provider
<1>2. CASE "gemini" \in configured /\ Call("gemini") /\ UNCHANGED <<codes, reply>>
  <2>1. TypeOK'
    BY <1>1, <1>2, LoopAssumption DEF TypeOK, Call, Provider
  <2>2. StageInv' /\ HonestAttribution'
    BY <1>1, <1>2 DEF StageInv, HonestAttribution, Call, Provider
  <2>3. AttemptInv'
    BY <1>1, <1>2, LoopAssumption DEF AttemptInv, Call, Chain, Provider, IInv
  <2> QED  BY <2>1, <2>2, <2>3 DEF IInv
<1>3. CASE "gemini" \notin configured /\ codes' = <<"config">> /\ Deterministic
  <2>1. TypeOK'
    <3>1. codes' \in Seq(Code)
      BY <1>3 DEF Code
    <3> QED  BY <1>1, <1>3, <3>1 DEF TypeOK, Deterministic, Settle
  <2>2. StageInv'
    BY <1>3 DEF StageInv, Deterministic, Settle, Provider
  <2>3. AttemptInv'
    BY <1>1, <1>3 DEF AttemptInv, IInv, Deterministic, Settle, Provider, Chain
  <2>4. HonestAttribution'
    BY <1>1, <1>3 DEF HonestAttribution, Deterministic, Settle, Chain
  <2> QED  BY <2>1, <2>2, <2>3, <2>4 DEF IInv
<1>4. CASE at' = "raised" /\ UNCHANGED <<left, backoff, codes, reply>>
  BY <1>1, <1>4 DEF IInv, TypeOK, StageInv, AttemptInv, HonestAttribution, Chain, Provider
<1> QED  BY <1>2, <1>3, <1>4 DEF Start

\* What an attempt counts, whatever comes of it.
LEMMA AttemptCounts ==
    ASSUME IInv, NEW d \in 0..Timeout, Attempt(d)
    PROVE  /\ tries' \in [Provider -> Nat] /\ tries'[at] = tries[at] + 1
           /\ \A p \in Provider : p # at => tries'[p] = tries[p]
           /\ \A p \in Provider : tries'[p] >= tries[p]
           /\ \A p \in Provider : tries'[p] <= IF p \in Chain' THEN MaxRetries + 1 ELSE 0
           /\ at \in Provider /\ at \in Chain /\ Chain' = Chain /\ configured' = configured
           /\ d \in Nat
<1>1. tries \in [Provider -> Nat] /\ left \in Nat /\ at \in Provider /\ MaxRetries \in Nat
  BY LoopAssumption DEF IInv, TypeOK, Attempt
<1>2. tries' = [tries EXCEPT ![at] = @ + 1] /\ configured' = configured
  BY DEF Attempt
<1>3. at \in Chain /\ Chain' = Chain
  BY <1>1, <1>2 DEF IInv, StageInv, Chain, Provider
<1>4. tries'[at] = tries[at] + 1 /\ \A p \in Provider : p # at => tries'[p] = tries[p]
  BY <1>1, <1>2
<1>5. tries[at] <= MaxRetries
  BY <1>1 DEF IInv, AttemptInv
<1>6. \A p \in Provider : tries'[p] <= IF p \in Chain' THEN MaxRetries + 1 ELSE 0
  <2> SUFFICES ASSUME NEW p \in Provider
               PROVE  tries'[p] <= IF p \in Chain THEN MaxRetries + 1 ELSE 0
    BY <1>3
  <2>1. CASE p = at
    BY <1>1, <1>3, <1>4, <1>5, <2>1
  <2>2. CASE p # at
    BY <1>4, <2>2 DEF IInv, AttemptInv
  <2> QED  BY <2>1, <2>2
<1>7. tries' \in [Provider -> Nat]
  BY <1>1, <1>2
<1>8. \A p \in Provider : tries'[p] >= tries[p]
  BY <1>1, <1>4
<1> QED  BY <1>1, <1>2, <1>3, <1>4, <1>6, <1>7, <1>8, LoopAssumption

\* A provider that fails for good hands over to the next, or to the template.
LEMMA GiveUpKeeps ==
    ASSUME IInv, NEW d \in 0..Timeout, Attempt(d), spent' = spent + d,
           NEW code \in Code, GiveUp(code)
    PROVE  IInv'
<1>1. /\ tries' \in [Provider -> Nat] /\ tries'[at] = tries[at] + 1
      /\ \A p \in Provider : p # at => tries'[p] = tries[p]
      /\ \A p \in Provider : tries'[p] <= IF p \in Chain' THEN MaxRetries + 1 ELSE 0
      /\ at \in Provider /\ at \in Chain /\ Chain' = Chain /\ configured' = configured
      /\ d \in Nat
  BY AttemptCounts
<1>2. TypeOK /\ tries[at] \in Nat
  BY <1>1 DEF IInv, TypeOK
<1>3. codes' \in Seq(Code) /\ (codes = <<>> => Len(codes') = 1)
  <2>1. codes' = Append(codes, code) /\ codes \in Seq(Code)
    BY <1>2 DEF GiveUp, TypeOK
  <2> QED  BY <2>1
<1>4. CASE at = "gemini" /\ "nemotron" \in configured
  <2>1. /\ at' = "nemotron" /\ left' = MaxRetries /\ backoff' = Backoff /\ reply' = reply
    BY <1>4 DEF GiveUp, Call
  <2>2. /\ configured = Provider /\ codes = <<>> /\ tries["nemotron"] = 0
    BY <1>2, <1>4 DEF IInv, StageInv, TypeOK, Provider
  <2>3. tries'["gemini"] > 0 /\ tries'["nemotron"] = 0
    BY <1>1, <1>2, <1>4, <2>2 DEF Provider
  <2>4. TypeOK'
    BY <1>1, <1>2, <1>3, <2>1, LoopAssumption DEF TypeOK, Provider
  <2>5. StageInv' /\ HonestAttribution'
    BY <1>1, <1>3, <2>1, <2>2, <2>3 DEF StageInv, HonestAttribution, Provider
  <2>6. AttemptInv'
    BY <1>1, <2>1, <2>3, LoopAssumption DEF AttemptInv
  <2> QED  BY <2>4, <2>5, <2>6 DEF IInv
<1>5. CASE ~(at = "gemini" /\ "nemotron" \in configured)
  <2>1. /\ at' = "replied" /\ reply' = [by |-> "template", fallbackUsed |-> FALSE]
        /\ left' = left /\ backoff' = backoff
    BY <1>5 DEF GiveUp, Deterministic, Settle
  <2>2. \A p \in Chain : tries'[p] > 0
    <3>1. CASE at = "gemini"
      <4>1. Chain \subseteq {"gemini"}
        BY <1>2, <1>5, <3>1 DEF Chain, TypeOK, Provider
      <4> QED  BY <1>1, <1>2, <3>1, <4>1
    <3>2. CASE at = "nemotron"
      <4>1. tries["gemini"] > 0 /\ tries'["gemini"] = tries["gemini"]
        BY <1>1, <3>2 DEF IInv, StageInv, Provider
      <4>2. Chain \subseteq {"gemini", "nemotron"}
        BY <1>2 DEF Chain, TypeOK, Provider
      <4> QED  BY <1>1, <1>2, <3>2, <4>1, <4>2
    <3> QED  BY <1>1, <3>1, <3>2 DEF Provider
  <2>3. TypeOK'
    BY <1>1, <1>2, <1>3, <2>1 DEF TypeOK
  <2>4. StageInv'
    BY <2>1 DEF StageInv
  <2>5. AttemptInv'
    BY <1>1, <2>1 DEF AttemptInv, Provider
  <2>6. HonestAttribution'
    BY <1>1, <2>1, <2>2 DEF HonestAttribution
  <2> QED  BY <2>3, <2>4, <2>5, <2>6 DEF IInv
<1> QED  BY <1>4, <1>5

\* A retry stays with its provider and uses up one of its retries.
LEMMA RetryKeeps ==
    ASSUME IInv, NEW d \in 0..Timeout, Attempt(d), Retry(d)
    PROVE  IInv'
<1>1. /\ tries' \in [Provider -> Nat] /\ tries'[at] = tries[at] + 1
      /\ \A p \in Provider : p # at => tries'[p] = tries[p]
      /\ \A p \in Provider : tries'[p] >= tries[p]
      /\ \A p \in Provider : tries'[p] <= IF p \in Chain' THEN MaxRetries + 1 ELSE 0
      /\ at \in Provider /\ configured' = configured /\ d \in Nat
  BY AttemptCounts
<1>2. /\ left > 0 /\ left' = left - 1 /\ backoff' = 2 * backoff
      /\ spent' = spent + d + backoff /\ UNCHANGED <<at, codes, reply>>
  BY DEF Retry
<1>3. TypeOK
  BY DEF IInv
<1>4. TypeOK'
  <2>1. left' \in 0..MaxRetries /\ backoff' \in Nat /\ spent' \in Nat
    BY <1>1, <1>2, <1>3, LoopAssumption DEF TypeOK
  <2> QED  BY <1>1, <1>2, <1>3, <2>1 DEF TypeOK
<1>5. at # "compose" /\ at # "replied"
  BY <1>1 DEF Provider
<1>6. tries["gemini"] \in Nat /\ tries'["gemini"] \in Nat
  BY <1>1, <1>3 DEF TypeOK, Provider
<1>7. StageInv' /\ HonestAttribution'
  BY <1>1, <1>2, <1>5, <1>6 DEF IInv, StageInv, HonestAttribution, Provider
<1>8. AttemptInv'
  <2>1. tries[at] + left <= MaxRetries /\ tries[at] \in Nat /\ left \in Nat
    BY <1>1, <1>3, LoopAssumption DEF IInv, AttemptInv, TypeOK
  <2>2. tries'[at'] + left' <= MaxRetries
    BY <1>1, <1>2, <2>1, LoopAssumption
  <2> QED  BY <1>1, <2>2 DEF AttemptInv
<1> QED  BY <1>4, <1>7, <1>8 DEF IInv

\* A completion is its provider's.
LEMMA CompletionKeeps ==
    ASSUME IInv, NEW d \in 0..Timeout, Completion(d)
    PROVE  IInv'
<1>1. /\ tries' \in [Provider -> Nat] /\ tries'[at] = tries[at] + 1
      /\ \A p \in Provider : p # at => tries'[p] = tries[p]
      /\ \A p \in Provider : tries'[p] <= IF p \in Chain' THEN MaxRetries + 1 ELSE 0
      /\ at \in Provider /\ configured' = configured /\ d \in Nat
  BY AttemptCounts DEF Completion
<1>2. /\ at' = "replied" /\ reply' = [by |-> at, fallbackUsed |-> (at = "nemotron")]
      /\ spent' = spent + d /\ UNCHANGED <<left, backoff, codes>>
  BY DEF Completion, Settle
<1>3. TypeOK
  BY DEF IInv
<1>4. TypeOK'
  <2>1. spent' \in Nat
    BY <1>1, <1>2, <1>3 DEF TypeOK
  <2>2. reply' \in [by : Provider \cup {"template", "nobody"}, fallbackUsed : BOOLEAN]
    BY <1>1, <1>2
  <2> QED  BY <1>1, <1>2, <1>3, <2>1, <2>2 DEF TypeOK
<1>5. StageInv'
  BY <1>2 DEF StageInv
<1>6. AttemptInv'
  BY <1>1, <1>2 DEF AttemptInv, Provider
<1>7. HonestAttribution'
  <2>1. CASE at = "gemini"
    BY <1>1, <1>2, <2>1 DEF IInv, StageInv, HonestAttribution, Provider
  <2>2. CASE at = "nemotron"
    <3>1. Len(codes) = 1 /\ tries'["gemini"] > 0
      BY <1>1, <2>2 DEF IInv, StageInv, Provider
    <3> QED  BY <1>2, <2>2, <3>1 DEF HonestAttribution
  <2> QED  BY <1>1, <2>1, <2>2 DEF Provider
<1> QED  BY <1>4, <1>5, <1>6, <1>7 DEF IInv

\* An answer nobody foresaw ends the turn without a reply.
LEMMA UnforeseenKeeps ==
    ASSUME IInv, NEW d \in 0..Timeout, Unforeseen(d)
    PROVE  IInv'
<1>1. /\ tries' \in [Provider -> Nat]
      /\ \A p \in Provider : tries'[p] <= IF p \in Chain' THEN MaxRetries + 1 ELSE 0
      /\ configured' = configured /\ d \in Nat
  BY AttemptCounts DEF Unforeseen
<1>2. at' = "raised" /\ spent' = spent + d /\ UNCHANGED <<left, backoff, codes, reply>>
  BY DEF Unforeseen
<1>3. TypeOK'
  <2>1. spent' \in Nat
    BY <1>1, <1>2 DEF IInv, TypeOK
  <2> QED  BY <1>1, <1>2, <2>1 DEF IInv, TypeOK
<1>4. StageInv' /\ AttemptInv' /\ HonestAttribution'
  BY <1>1, <1>2 DEF StageInv, AttemptInv, HonestAttribution, Provider
<1> QED  BY <1>3, <1>4 DEF IInv

\* Every step keeps the invariant.
LEMMA StepIInv == IInv /\ [Next]_vars => IInv'
<1>1. IInv /\ UNCHANGED vars => IInv'
  BY DEF vars, IInv, TypeOK, StageInv, AttemptInv, HonestAttribution, Chain
<1>2. ASSUME IInv, NEW d \in 0..Timeout, Generate(d)
      PROVE  IInv'
  <2>1. CASE TransientFailure(d)
    <3>1. {"timeout", "connection", "rate_limited", "upstream_error"} \subseteq Code
      BY DEF Code
    <3> QED  BY <1>2, <2>1, <3>1, RetryKeeps, GiveUpKeeps DEF TransientFailure
  <2>2. CASE FinalFailure(d)
    <3>1. {"auth", "upstream_error", "unexpected_response"} \subseteq Code
      BY DEF Code
    <3> QED  BY <1>2, <2>2, <3>1, GiveUpKeeps DEF FinalFailure
  <2> QED  BY <1>2, <2>1, <2>2, CompletionKeeps, UnforeseenKeeps DEF Generate
<1> QED  BY <1>1, <1>2, StartKeeps DEF Next

\* It holds in every state of every run.
LEMMA InvariantKept == Spec => []IInv
  BY InitIInv, StepIInv, PTL DEF Spec

-----------------------------------------------------------------------------
(***************************************************************************)
(* The sum of a loop's pauses.  That PauseSum, a recursive function, is    *)
(* what its recursion says is proved by hand: induction over the numbers   *)
(* is here the absence of a least counterexample.                          *)
(***************************************************************************)

\* A set of numbers that has one has a least one.
LEMMA LeastOf ==
    ASSUME NEW S, S \subseteq Nat, S # {}
    PROVE  \E m \in S : \A k \in S : m <= k
<1> DEFINE R == {p \in Nat \X Nat : p[1] < p[2]}
<1>1. IsWellFoundedOn(R, Nat)
  BY NatLessThanWellFounded DEF OpToRel
<1>2. PICK m \in S : \A k \in S : <<k, m>> \notin R
  BY <1>1, WFMin
<1>3. ASSUME NEW k \in S  PROVE m <= k
  <2>1. k \in Nat /\ m \in Nat /\ ~(k < m)
    BY <1>2
  <2> QED  BY <2>1
<1> QED  BY <1>3

\* The pauses up to the n-th, added up one by one.
Sums(n) ==
    {f \in [0..n -> Nat] :
        \A i \in 0..n : f[i] = IF i = 0 THEN 0 ELSE 2 * f[i - 1] + Backoff}

\* They can be added up ...
LEMMA SumsExist == \A n \in Nat : Sums(n) # {}
<1> DEFINE Bad == {n \in Nat : Sums(n) = {}}
<1> SUFFICES ASSUME Bad # {}  PROVE FALSE
  OBVIOUS
<1>1. PICK m \in Bad : \A k \in Bad : m <= k
  BY LeastOf
<1>2. CASE m = 0
  <2> DEFINE g == [i \in 0..0 |-> 0]
  <2>1. g \in Sums(0)
    BY DEF Sums
  <2> QED  BY <1>1, <1>2, <2>1
<1>3. CASE m # 0
  <2>1. m \in Nat /\ m - 1 \in Nat /\ m - 1 \notin Bad
    BY <1>1, <1>3
  <2>2. PICK f : f \in Sums(m - 1)
    BY <2>1
  <2>3. /\ f \in [0..(m - 1) -> Nat]
        /\ \A i \in 0..(m - 1) : f[i] = IF i = 0 THEN 0 ELSE 2 * f[i - 1] + Backoff
    BY <2>2 DEF Sums
  <2> DEFINE g == [i \in 0..m |-> IF i = m THEN 2 * f[m - 1] + Backoff ELSE f[i]]
  <2>4. f[m - 1] \in Nat /\ 2 * f[m - 1] + Backoff \in Nat
    BY <2>1, <2>3, LoopAssumption
  <2>5. g \in [0..m -> Nat]
    BY <2>1, <2>3, <2>4
  <2>6. ASSUME NEW i \in 0..m
        PROVE  g[i] = IF i = 0 THEN 0 ELSE 2 * g[i - 1] + Backoff
    <3>1. CASE i = m
      BY <1>3, <2>1, <3>1
    <3>2. CASE i # m
      BY <2>1, <2>3, <3>2
    <3> QED  BY <3>1, <3>2
  <2>7. g \in Sums(m)
    BY <2>5, <2>6 DEF Sums
  <2> QED  BY <1>1, <2>7
<1> QED  BY <1>2, <1>3

\* ... in one way only.
LEMMA SumsAgree ==
    ASSUME NEW n \in Nat, NEW m \in Nat, NEW f \in Sums(n), NEW g \in Sums(m)
    PROVE  \A i \in 0..n : i <= m => f[i] = g[i]
<1> DEFINE Bad == {i \in 0..n : i <= m /\ f[i] # g[i]}
<1> SUFFICES ASSUME Bad # {}  PROVE FALSE
  OBVIOUS
<1>1. PICK i \in Bad : \A k \in Bad : i <= k
  <2>1. Bad \subseteq Nat
    OBVIOUS
  <2> QED  BY <2>1, LeastOf
<1>2. i \in 0..n /\ i \in 0..m
  OBVIOUS
<1>3. /\ f[i] = IF i = 0 THEN 0 ELSE 2 * f[i - 1] + Backoff
      /\ g[i] = IF i = 0 THEN 0 ELSE 2 * g[i - 1] + Backoff
  BY <1>2 DEF Sums
<1>4. i # 0
  BY <1>1, <1>3
<1>5. i - 1 \in 0..n /\ i - 1 <= m /\ i - 1 \notin Bad
  BY <1>1, <1>2, <1>4
<1>6. f[i - 1] = g[i - 1]
  BY <1>5
<1> QED  BY <1>1, <1>3, <1>4, <1>6

\* PauseSum is the one function that does.
LEMMA PauseSumDefined ==
    PauseSum = [n \in Nat |-> IF n = 0 THEN 0 ELSE 2 * PauseSum[n - 1] + Backoff]
<1> DEFINE S(n) == CHOOSE f : f \in Sums(n)
           F == [n \in Nat |-> S(n)[n]]
<1>1. \A n \in Nat : S(n) \in Sums(n)
  BY SumsExist
<1> HIDE DEF S
<1>2. ASSUME NEW n \in Nat
      PROVE  F[n] = IF n = 0 THEN 0 ELSE 2 * F[n - 1] + Backoff
  <2>1. S(n)[n] = IF n = 0 THEN 0 ELSE 2 * S(n)[n - 1] + Backoff
    BY <1>1 DEF Sums
  <2>2. CASE n = 0
    BY <2>1, <2>2
  <2>3. CASE n # 0
    <3>1. n - 1 \in Nat /\ n - 1 \in 0..n
      BY <2>3
    <3>2. S(n)[n - 1] = S(n - 1)[n - 1]
      BY <1>1, <3>1, SumsAgree
    <3> QED  BY <2>1, <2>3, <3>1, <3>2
  <2> QED  BY <2>2, <2>3
<1>3. F = [n \in Nat |-> IF n = 0 THEN 0 ELSE 2 * F[n - 1] + Backoff]
  <2> HIDE DEF F
  <2>1. F = [n \in Nat |-> F[n]]
    BY DEF F
  <2> QED  BY <1>2, <2>1
<1> HIDE DEF F
<1> QED  BY <1>3 DEF PauseSum

\* What its recursion says, step by step.
LEMMA PauseSumStep ==
    /\ PauseSum[0] = 0
    /\ \A n \in Nat : PauseSum[n + 1] = 2 * PauseSum[n] + Backoff
<1> HIDE DEF PauseSum
<1>1. \A n \in Nat : PauseSum[n] = IF n = 0 THEN 0 ELSE 2 * PauseSum[n - 1] + Backoff
  BY PauseSumDefined
<1>2. PauseSum[0] = 0
  BY <1>1
<1>3. ASSUME NEW n \in Nat  PROVE PauseSum[n + 1] = 2 * PauseSum[n] + Backoff
  <2>1. n + 1 \in Nat /\ n + 1 # 0 /\ (n + 1) - 1 = n
    OBVIOUS
  <2> QED  BY <1>1, <2>1
<1> QED  BY <1>2, <1>3

\* Pauses are numbers, and more of them are no less.
LEMMA PauseSumGrows ==
    /\ \A n \in Nat : PauseSum[n] \in Nat
    /\ \A n, k \in Nat : k <= n => PauseSum[k] <= PauseSum[n]
<1>1. \A n \in Nat : PauseSum[n] \in Nat
  <2> DEFINE Bad == {n \in Nat : PauseSum[n] \notin Nat}
  <2> SUFFICES ASSUME Bad # {}  PROVE FALSE
    OBVIOUS
  <2>1. PICK m \in Bad : \A k \in Bad : m <= k
    BY LeastOf
  <2>2. m # 0
    BY <2>1, PauseSumStep
  <2>3. m - 1 \in Nat /\ m - 1 \notin Bad /\ (m - 1) + 1 = m
    BY <2>1, <2>2
  <2>4. PauseSum[m - 1] \in Nat /\ PauseSum[m] = 2 * PauseSum[m - 1] + Backoff
    BY <2>3, PauseSumStep
  <2> QED  BY <2>1, <2>4, LoopAssumption
<1>2. ASSUME NEW k \in Nat
      PROVE  \A n \in Nat : k <= n => PauseSum[k] <= PauseSum[n]
  <2> DEFINE Bad == {n \in Nat : k <= n /\ ~(PauseSum[k] <= PauseSum[n])}
  <2> SUFFICES ASSUME Bad # {}  PROVE FALSE
    OBVIOUS
  <2>1. PICK m \in Bad : \A j \in Bad : m <= j
    BY LeastOf
  <2>2. m # k
    BY <1>1, <2>1
  <2>3. m - 1 \in Nat /\ m - 1 \notin Bad /\ (m - 1) + 1 = m /\ k <= m - 1
    BY <2>1, <2>2
  <2>4. PauseSum[k] <= PauseSum[m - 1] /\ PauseSum[m] = 2 * PauseSum[m - 1] + Backoff
    BY <2>3, PauseSumStep
  <2> QED  BY <1>1, <2>1, <2>3, <2>4, LoopAssumption
<1> QED  BY <1>1, <1>2

\* A product grows with its factor.
LEMMA TimesGrows ==
    ASSUME NEW a \in Nat, NEW b \in Nat, NEW c \in Nat, a <= b
    PROVE  a * c <= b * c /\ a * c \in Nat /\ b * c \in Nat
<1>1. (b - a) \in Nat /\ b * c = a * c + (b - a) * c
  OBVIOUS
<1>2. (b - a) * c \in Nat /\ a * c \in Nat /\ b * c \in Nat
  BY <1>1
<1> QED  BY <1>1, <1>2

-----------------------------------------------------------------------------
(***************************************************************************)
(* The time a reply costs.                                                 *)
(***************************************************************************)

\* What a loop has cost by its k-th retry, and the loops before it.
LoopTime(k) == k * Timeout + PauseSum[k]
LoopsBefore == IF at = "nemotron" THEN LoopBudget ELSE 0

\* A running loop has spent its retries' attempts and pauses, and its next pause
\* is the one PauseSum counts next.
TimeInv ==
    /\ at = "compose" => spent = 0
    /\ at \in Provider =>
        /\ backoff = PauseSum[MaxRetries - left] + Backoff
        /\ spent <= LoopsBefore + LoopTime(MaxRetries - left)
    /\ spent <= (IF "nemotron" \in Chain THEN 2 ELSE 1) * LoopBudget

\* A loop's last attempt ends within its budget, another one before its next retry.
LEMMA LoopTimeGrows ==
    ASSUME NEW k \in 0..MaxRetries, NEW d \in 0..Timeout
    PROVE  /\ LoopBudget \in Nat /\ LoopTime(k) \in Nat /\ PauseSum[k] \in Nat /\ d \in Nat
           /\ LoopTime(k) + d <= LoopBudget
           /\ LoopTime(k) + d + (PauseSum[k] + Backoff) <= LoopTime(k + 1)
<1>1. /\ k \in Nat /\ k + 1 \in Nat /\ k + 1 <= MaxRetries + 1 /\ k <= MaxRetries
      /\ d \in Nat /\ d <= Timeout
      /\ MaxRetries \in Nat /\ MaxRetries + 1 \in Nat /\ Timeout \in Nat /\ Backoff \in Nat
  BY LoopAssumption
<1>2. (k + 1) * Timeout <= (MaxRetries + 1) * Timeout
      /\ (k + 1) * Timeout \in Nat /\ (MaxRetries + 1) * Timeout \in Nat
  BY <1>1, TimesGrows
<1>3. (k + 1) * Timeout = k * Timeout + Timeout /\ k * Timeout \in Nat
  BY <1>1
<1>4. /\ PauseSum[k] \in Nat /\ PauseSum[MaxRetries] \in Nat /\ PauseSum[k + 1] \in Nat
      /\ PauseSum[k] <= PauseSum[MaxRetries]
      /\ PauseSum[k + 1] = 2 * PauseSum[k] + Backoff
  BY <1>1, PauseSumGrows, PauseSumStep
<1> HIDE DEF PauseSum
<1>5. LoopBudget \in Nat /\ LoopTime(k) \in Nat /\ LoopTime(k) + d <= LoopBudget
  BY <1>1, <1>2, <1>3, <1>4 DEF LoopBudget, LoopTime
<1>6. LoopTime(k) + d + (PauseSum[k] + Backoff) <= LoopTime(k + 1)
  BY <1>1, <1>3, <1>4 DEF LoopTime
<1> QED  BY <1>1, <1>4, <1>5, <1>6

\* An attempt that is the loop's last leaves its reply within the chain's budget.
LEMMA LastAttempt ==
    ASSUME IInv, TimeInv, NEW d \in 0..Timeout, Attempt(d), spent' = spent + d
    PROVE  /\ LoopBudget \in Nat /\ spent' \in Nat /\ Chain' = Chain
           /\ spent' <= LoopsBefore + LoopBudget
           /\ spent' <= (IF "nemotron" \in Chain THEN 2 ELSE 1) * LoopBudget
<1> DEFINE k == MaxRetries - left
<1>1. at \in Provider /\ left \in 0..MaxRetries /\ spent \in Nat /\ MaxRetries \in Nat
  BY LoopAssumption DEF Attempt, IInv, TypeOK
<1>2. k \in 0..MaxRetries
  BY <1>1
<1>3. /\ LoopBudget \in Nat /\ LoopTime(k) \in Nat /\ d \in Nat
      /\ LoopTime(k) + d <= LoopBudget
  BY <1>2, LoopTimeGrows
<1>4. spent <= LoopsBefore + LoopTime(k)
  BY <1>1 DEF TimeInv
<1>5. LoopsBefore \in Nat
  BY <1>3 DEF LoopsBefore
<1> HIDE DEF k
<1>6. spent' \in Nat /\ spent' <= LoopsBefore + LoopBudget
  BY <1>1, <1>3, <1>4, <1>5
<1>7. at = "nemotron" => "nemotron" \in Chain
  BY DEF IInv, StageInv, Chain, Provider
<1>8. Chain' = Chain
  BY AttemptCounts
<1>9. spent' <= (IF "nemotron" \in Chain THEN 2 ELSE 1) * LoopBudget
  BY <1>3, <1>6, <1>7 DEF LoopsBefore
<1> QED  BY <1>3, <1>6, <1>8, <1>9

\* Each step adds what its attempt and its pause cost.
LEMMA GenerateTimed ==
    ASSUME IInv, IInv', TimeInv, NEW d \in 0..Timeout, Generate(d)
    PROVE  TimeInv'
<1>1. Attempt(d) /\ at \in Provider /\ at # "compose"
  BY DEF Generate, TransientFailure, FinalFailure, Completion, Unforeseen, Attempt, Provider
<1>2. CASE Retry(d)
  <2> DEFINE k == MaxRetries - left
  <2>1. /\ left \in 0..MaxRetries /\ left > 0 /\ left' = left - 1 /\ backoff' = 2 * backoff
        /\ spent' = spent + d + backoff /\ at' = at
        /\ spent \in Nat /\ MaxRetries \in Nat /\ Backoff \in Nat
    BY <1>2, LoopAssumption DEF Retry, IInv, TypeOK
  <2>2. k \in 0..MaxRetries /\ k + 1 \in 0..MaxRetries /\ MaxRetries - left' = k + 1
    BY <2>1
  <2>3. backoff = PauseSum[k] + Backoff /\ spent <= LoopsBefore + LoopTime(k)
    BY <1>1 DEF TimeInv
  <2> HIDE DEF k
  <2>4. /\ LoopBudget \in Nat /\ LoopTime(k) \in Nat /\ PauseSum[k] \in Nat /\ d \in Nat
        /\ LoopTime(k) + d + (PauseSum[k] + Backoff) <= LoopTime(k + 1)
    BY <2>2, LoopTimeGrows
  <2>5. LoopTime(k + 1) \in Nat /\ LoopTime(k + 1) + 0 <= LoopBudget
    <3>1. 0 \in 0..Timeout
      BY LoopAssumption
    <3> QED  BY <2>2, <3>1, LoopTimeGrows
  <2>6. LoopsBefore \in Nat /\ LoopsBefore' = LoopsBefore
    BY <2>1, <2>4 DEF LoopsBefore, LoopBudget
  <2>7. spent' <= LoopsBefore + LoopTime(k + 1)
    BY <2>1, <2>3, <2>4, <2>5, <2>6
  <2>8. backoff' = PauseSum[k + 1] + Backoff
    <3>1. PauseSum[k + 1] = 2 * PauseSum[k] + Backoff
      BY <2>2, PauseSumStep
    <3> HIDE DEF PauseSum
    <3> QED  BY <2>1, <2>3, <2>4, <3>1
  <2>9. "nemotron" \in Chain' <=> "nemotron" \in Chain
    BY <1>1, AttemptCounts
  <2>10. at = "nemotron" => "nemotron" \in Chain
    BY DEF IInv, StageInv, Chain, Provider
  <2>11. spent' <= (IF "nemotron" \in Chain' THEN 2 ELSE 1) * LoopBudget
    BY <2>1, <2>3, <2>4, <2>5, <2>7, <2>9, <2>10 DEF LoopsBefore
  <2> QED  BY <1>1, <2>1, <2>2, <2>6, <2>7, <2>8, <2>11 DEF TimeInv, LoopBudget, LoopTime
<1>3. CASE ~Retry(d)
  <2>1. spent' = spent + d
    BY <1>3 DEF Generate, TransientFailure, FinalFailure, Completion, Unforeseen
  <2>2. /\ LoopBudget \in Nat /\ spent' \in Nat /\ Chain' = Chain
        /\ spent' <= LoopsBefore + LoopBudget
        /\ spent' <= (IF "nemotron" \in Chain THEN 2 ELSE 1) * LoopBudget
    BY <1>1, <2>1, LastAttempt
  <2>3. CASE at' \in Provider
    <3>1. at = "gemini" /\ at' = "nemotron" /\ left' = MaxRetries /\ backoff' = Backoff
      BY <1>3, <2>3 DEF Generate, TransientFailure, FinalFailure, Completion, Unforeseen,
                        GiveUp, Call, Deterministic, Settle, Provider
    <3>2. MaxRetries - left' = 0 /\ PauseSum[0] = 0 /\ LoopTime(0) = 0
      BY <3>1, LoopAssumption, PauseSumStep DEF LoopTime
    <3>3. spent' <= LoopBudget
      BY <2>2, <3>1 DEF LoopsBefore
    <3>4. LoopsBefore' = LoopBudget
      BY <3>1 DEF LoopsBefore, LoopBudget
    <3>5. /\ backoff' = PauseSum[MaxRetries - left'] + Backoff
          /\ spent' <= LoopsBefore' + LoopTime(MaxRetries - left')
      BY <2>2, <3>1, <3>2, <3>3, <3>4, LoopAssumption
    <3> QED  BY <2>2, <3>1, <3>5 DEF TimeInv, LoopBudget, LoopTime, Provider
  <2>4. CASE at' \notin Provider
    <3>1. at' # "compose"
      BY <1>3, <2>4 DEF Generate, TransientFailure, FinalFailure, Completion, Unforeseen,
                        GiveUp, Call, Deterministic, Settle, Provider
    <3> QED  BY <2>2, <2>4, <3>1 DEF TimeInv, LoopBudget
  <2> QED  BY <2>3, <2>4
<1> QED  BY <1>2, <1>3

\* Nothing is spent before the first attempt.
LEMMA StartTimed ==
    ASSUME IInv, TimeInv, Start
    PROVE  TimeInv'
<1>1. at = "compose" /\ spent = 0 /\ spent' = 0 /\ Chain' = Chain
  BY DEF Start, TimeInv, Chain
<1>2. LoopBudget \in Nat /\ LoopTime(0) = 0 /\ PauseSum[0] = 0
  <2>1. 0 \in 0..MaxRetries /\ 0 \in 0..Timeout
    BY LoopAssumption
  <2> QED  BY <2>1, LoopTimeGrows, PauseSumStep, LoopAssumption DEF LoopTime
<1>3. (at' = "gemini" /\ left' = MaxRetries /\ backoff' = Backoff)
      \/ at' \in {"replied", "raised"}
  BY DEF Start, Call, Deterministic, Settle
<1>4. 0 <= (IF "nemotron" \in Chain THEN 2 ELSE 1) * LoopBudget
  BY <1>2
<1>5. CASE at' = "gemini"
  <2>1. left' = MaxRetries /\ backoff' = Backoff /\ MaxRetries - left' = 0
    BY <1>3, <1>5, LoopAssumption
  <2>2. LoopsBefore' = 0
    BY <1>5 DEF LoopsBefore
  <2>3. /\ backoff' = PauseSum[MaxRetries - left'] + Backoff
        /\ spent' <= LoopsBefore' + LoopTime(MaxRetries - left')
    BY <1>1, <1>2, <2>1, <2>2, LoopAssumption
  <2> QED  BY <1>1, <1>4, <1>5, <2>3 DEF TimeInv, LoopBudget, LoopTime
<1>6. CASE at' \in {"replied", "raised"}
  BY <1>1, <1>4, <1>6 DEF TimeInv, LoopBudget, Provider
<1> QED  BY <1>3, <1>5, <1>6

\* And it is so in every state of every run.
LEMMA TimeKept == Spec => [](IInv /\ TimeInv)
<1>1. Init => TimeInv
  <2> SUFFICES ASSUME Init PROVE TimeInv
    OBVIOUS
  <2>1. LoopBudget \in Nat
    <3>1. 0 \in 0..MaxRetries /\ 0 \in 0..Timeout
      BY LoopAssumption
    <3> QED  BY <3>1, LoopTimeGrows
  <2>2. 0 <= (IF "nemotron" \in Chain THEN 2 ELSE 1) * LoopBudget
    BY <2>1
  <2> QED  BY <2>2 DEF Init, TimeInv, Provider
<1>2. IInv /\ TimeInv /\ [Next]_vars => TimeInv'
  <2> SUFFICES ASSUME IInv, TimeInv, [Next]_vars  PROVE TimeInv'
    OBVIOUS
  <2>1. CASE Start
    BY <2>1, StartTimed
  <2>2. ASSUME NEW d \in 0..Timeout, Generate(d)  PROVE TimeInv'
    BY <2>2, StepIInv, GenerateTimed DEF Next
  <2>3. CASE UNCHANGED vars
    BY <2>3 DEF vars, TimeInv, LoopsBefore, LoopTime, LoopBudget, Chain
  <2> QED  BY <2>1, <2>2, <2>3 DEF Next
<1> QED  BY <1>1, <1>2, InitIInv, StepIInv, PTL DEF Spec

-----------------------------------------------------------------------------
(***************************************************************************)
(* The theorems.                                                           *)
(***************************************************************************)

\* Every variable keeps its type: no loop starts with, or gains, a retry too many.
THEOREM TypeCorrect == Spec => []TypeOK
<1>1. IInv => TypeOK
  BY DEF IInv
<1> QED  BY <1>1, InvariantKept, PTL

\* What persist_turn records about a reply is the truth: HonestAttribution for
\* any number of retries and any failures of both providers.
THEOREM AttributionIsHonest == Spec => []HonestAttribution
<1>1. IInv => HonestAttribution
  BY DEF IInv
<1> QED  BY <1>1, InvariantKept, PTL

\* The slowest reply costs every provider within reach all its attempts and all
\* its pauses and no more, whatever they answer: ReplyIsBounded for any timeout,
\* number of retries and first pause.
THEOREM ReplyStaysBounded == Spec => []ReplyIsBounded
<1>1. IInv /\ TimeInv => ReplyIsBounded
  BY DEF IInv, AttemptInv, TimeInv, ReplyIsBounded
<1> QED  BY <1>1, TimeKept, PTL

==============================================================================
