----------------------------- MODULE LLMRouter -----------------------------
(***************************************************************************)
(* LLMRouterService (src/llm/llm-router.service.ts) with the requests of   *)
(* all agents and evaluators of one server process running concurrently.   *)
(*                                                                         *)
(* JavaScript runs a request without interruption from one await to the    *)
(* next, so each action is one such stretch: it ends where the code awaits *)
(* a provider or a timer, or returns or throws.  In particular the loop    *)
(* over the chain that skips the providers whose circuit is open contains  *)
(* no await, and is one step (Proceed).                                    *)
(*                                                                         *)
(* External: the providers' answers, and the clock.                        *)
(***************************************************************************)
EXTENDS CircuitBreaker, Filter, Sequences, FiniteSets

CONSTANTS Requests,           \* calls of the router's methods
          Providers,          \* LLMProvider
          Registered,         \* the keys of providerMap
          FallbackChain,      \* llmRouter.fallbackChain
          EmbeddingProvider,  \* llmRouter.embeddingProvider
          MaxRetries,         \* llmRouter.maxRetries
          Kinds,              \* the router's methods the requests call
          Preferred,          \* values of options.preferredProvider
          None,               \* ... absent
          MaxTime,            \* bound: the clock stops here
          MaxChunks           \* bound: chunks of one request

ASSUME ProvidersAssumption ==
    /\ Registered \subseteq Providers
    /\ EmbeddingProvider \in Providers
    /\ Preferred \subseteq Providers \cup {None}
    /\ None \notin Providers
ASSUME ChainAssumption   == FallbackChain \in Seq(Providers)
ASSUME RetriesAssumption == MaxRetries \in Nat \ {0}
ASSUME KindsAssumption   == Kinds \subseteq {"complete", "structured", "stream", "embed"}
ASSUME BoundsAssumption  == MaxTime \in Nat /\ MaxChunks \in Nat

VARIABLES breaker,   \* circuitBreakers: one record per registered provider
          now,       \* Date.now()
          pc,        \* where each request is suspended
          kind,      \* the method it called
          chain,     \* its local `chain`
          idx,       \* its local chainIdx, counted from 1
          attempt,   \* its local attempt
          tried,     \* its local tried
          fell,      \* the providers its onFallback was called with
          chunks     \* the providers whose chunks its subject has delivered

reqVars == <<pc, kind, chain, idx, attempt, tried, fell, chunks>>
vars == <<breaker, now, reqVars>>

Waiting  == {"calling", "delay"}
Finished == {"done", "badJson", "exhausted", "embedFailed"}

\* The provider request r is working with.
Current(r) == chain[r][idx[r]]

\* The requests that await an answer of provider p under its breaker.
InFlight(p) == {r \in Requests : pc[r] = "calling" /\ kind[r] # "embed" /\ Current(r) = p}
----------------------------------------------------------------------------
BreakerTypeOK ==
    /\ breaker \in [Registered -> Breaker]
    /\ now \in Nat

CallTypeOK ==
    /\ pc \in [Requests -> {"idle"} \cup Waiting \cup Finished]
    /\ kind \in [Requests -> Kinds \cup {None}]
    /\ idx \in [Requests -> Nat]
    /\ attempt \in [Requests -> 0..MaxRetries]
    /\ DOMAIN chain = Requests
    /\ \A r \in Requests :
          /\ pc[r] \in Waiting => Current(r) \in Registered
          /\ pc[r] = "delay" => attempt[r] < MaxRetries

LogTypeOK ==
    /\ chain \in [Requests -> Seq(Providers)]
    /\ tried \in [Requests -> Seq(Registered)]
    /\ fell \in [Requests -> Seq(Registered)]
    /\ chunks \in [Requests -> Seq(Registered)]
    /\ \A r \in Requests : idx[r] \in 0..Len(chain[r])

TypeOK == BreakerTypeOK /\ CallTypeOK /\ LogTypeOK

Init ==
    /\ breaker = [p \in Registered |-> NewBreaker]
    /\ now = 0
    /\ pc = [r \in Requests |-> "idle"]
    /\ kind = [r \in Requests |-> None]
    /\ chain = [r \in Requests |-> <<>>]
    /\ idx = [r \in Requests |-> 0]
    /\ attempt = [r \in Requests |-> 0]
    /\ tried = [r \in Requests |-> <<>>]
    /\ fell = [r \in Requests |-> <<>>]
    /\ chunks = [r \in Requests |-> <<>>]

BuildChain(preferred) ==
    IF preferred = None
    THEN FallbackChain
    ELSE <<preferred>> \o Keep(FallbackChain, Providers \ {preferred})

OnlyRegistered(c) == Keep(c, Registered)

\* Positions of chain c from i on whose provider is registered and not skipped
\* by its breaker in b (mutant: the breaker is not asked).
Callable_Always(c, i, b) == {j \in i..Len(c) : c[j] \in Registered}

Callable(c, i, b) ==
    {j \in i..Len(c) : c[j] \in Registered /\ ~IsOpen(b[c[j]], now)}

\* onFallback is called on reaching position j > 1 (mutant: off by one).
Notified_Late(f, c, j) == IF j > 2 THEN Append(f, c[j]) ELSE f

Notified(f, c, j) == IF j > 1 THEN Append(f, c[j]) ELSE f

\* The loop over the chain, resumed at position i with the breakers b and the
\* tried list t: it reaches the first provider that may be called, or the end.
Proceed(r, c, i, b, t) ==
    \/ \E j \in Callable(c, i, b) :
          /\ \A k \in Callable(c, i, b) : j <= k
          /\ breaker' = [b EXCEPT ![c[j]] = AfterIsOpen(@, now)]
          /\ pc' = [pc EXCEPT ![r] = "calling"]
          /\ idx' = [idx EXCEPT ![r] = j]
          /\ attempt' = [attempt EXCEPT ![r] = 1]
          /\ tried' = [tried EXCEPT ![r] = t \o OnlyRegistered(SubSeq(c, i, j - 1))]
          /\ fell' = [fell EXCEPT ![r] = Notified(@, c, j)]
    \/ /\ Callable(c, i, b) = {}
       /\ breaker' = b
       /\ pc' = [pc EXCEPT ![r] = "exhausted"]
       /\ tried' = [tried EXCEPT ![r] = t \o OnlyRegistered(SubSeq(c, i, Len(c)))]
       /\ UNCHANGED <<idx, attempt, fell>>

\* complete(), completeStructured() or stream() is called.
Start(r) ==
    /\ pc[r] = "idle"
    /\ \E k \in Kinds \ {"embed"}, p \in Preferred :
          /\ kind' = [kind EXCEPT ![r] = k]
          /\ chain' = [chain EXCEPT ![r] = BuildChain(p)]
          /\ Proceed(r, BuildChain(p), 1, breaker, <<>>)
    /\ UNCHANGED <<now, chunks>>

\* embed() is called: one provider, no breaker, no retry, no fallback.
StartEmbed(r) ==
    /\ pc[r] = "idle"
    /\ "embed" \in Kinds
    /\ kind' = [kind EXCEPT ![r] = "embed"]
    /\ chain' = [chain EXCEPT ![r] = <<EmbeddingProvider>>]
    /\ idx' = [idx EXCEPT ![r] = 1]
    /\ pc' = [pc EXCEPT ![r] = IF EmbeddingProvider \in Registered
                               THEN "calling" ELSE "embedFailed"]
    /\ UNCHANGED <<breaker, now, attempt, tried, fell, chunks>>

EmbedReturns(r) ==
    /\ pc[r] = "calling"
    /\ kind[r] = "embed"
    /\ \E out \in {"done", "embedFailed"} : pc' = [pc EXCEPT ![r] = out]
    /\ UNCHANGED <<breaker, now, kind, chain, idx, attempt, tried, fell, chunks>>

\* The awaited provider answers: complete() or the stream ends well.  The
\* breaker records it before completeStructured() parses the answer.
ProviderOk(r) ==
    /\ pc[r] = "calling"
    /\ kind[r] # "embed"
    /\ breaker' = [breaker EXCEPT ![Current(r)] = RecordSuccess(@)]
    /\ \E out \in {"done"} \cup (IF kind[r] = "structured" THEN {"badJson"} ELSE {}) :
          pc' = [pc EXCEPT ![r] = out]
    /\ UNCHANGED <<now, kind, chain, idx, attempt, tried, fell, chunks>>

\* The failure of the call r awaits, recorded by the breaker.
Failed(r) == [breaker EXCEPT ![Current(r)] = RecordFailure(@, now)]

\* complete(): a retryable error before the last attempt; the request sleeps.
RetryLater(r) ==
    /\ pc[r] = "calling"
    /\ kind[r] \in {"complete", "structured"}
    /\ attempt[r] < MaxRetries
    /\ breaker' = Failed(r)
    /\ pc' = [pc EXCEPT ![r] = "delay"]
    /\ UNCHANGED <<now, kind, chain, idx, attempt, tried, fell, chunks>>

\* Mutant of Retry: the request polls until the circuit is no longer open, which
\* only another request would bring about.
Retry_Polls(r) ==
    /\ pc[r] = "delay"
    /\ IF breaker[Current(r)].state = "OPEN"
       THEN UNCHANGED vars
       ELSE /\ pc' = [pc EXCEPT ![r] = "calling"]
            /\ attempt' = [attempt EXCEPT ![r] = @ + 1]
            /\ UNCHANGED <<breaker, now, kind, chain, idx, tried, fell, chunks>>

\* complete(): the delay is over; the provider is called again, without a look
\* at its breaker.
Retry(r) ==
    /\ pc[r] = "delay"
    /\ pc' = [pc EXCEPT ![r] = "calling"]
    /\ attempt' = [attempt EXCEPT ![r] = @ + 1]
    /\ UNCHANGED <<breaker, now, kind, chain, idx, tried, fell, chunks>>

\* Mutant of GiveUp: a provider whose calls failed is not added to tried.
GiveUp_Untold(r) ==
    /\ pc[r] = "calling"
    /\ kind[r] # "embed"
    /\ Proceed(r, chain[r], idx[r] + 1, Failed(r), tried[r])
    /\ UNCHANGED <<now, kind, chain, chunks>>

\* A non-retryable error, an error of the last attempt, or an error of a stream
\* (which is never retried): on to the next provider of the chain.
GiveUp(r) ==
    /\ pc[r] = "calling"
    /\ kind[r] # "embed"
    /\ Proceed(r, chain[r], idx[r] + 1, Failed(r), Append(tried[r], Current(r)))
    /\ UNCHANGED <<now, kind, chain, chunks>>

\* stream(): the provider emits a chunk, passed on to the caller's subject.
Chunk(r) ==
    /\ pc[r] = "calling"
    /\ kind[r] = "stream"
    /\ Len(chunks[r]) < MaxChunks
    /\ chunks' = [chunks EXCEPT ![r] = Append(@, Current(r))]
    /\ UNCHANGED <<breaker, now, pc, kind, chain, idx, attempt, tried, fell>>

Tick ==
    /\ now < MaxTime
    /\ now' = now + 1
    /\ UNCHANGED <<breaker, reqVars>>

Step(r) == Start(r) \/ StartEmbed(r) \/ EmbedReturns(r) \/ ProviderOk(r)
           \/ RetryLater(r) \/ Retry(r) \/ GiveUp(r) \/ Chunk(r)

\* Every request has ended and the clock has reached its bound.
Terminated ==
    /\ \A r \in Requests : pc[r] \in Finished
    /\ now = MaxTime
    /\ UNCHANGED vars

Next == (\E r \in Requests : Step(r)) \/ Tick \/ Terminated

Spec == Init /\ [][Next]_vars

\* The providers' SDKs answer or fail every call, and timers fire.
Fairness == \A r \in Requests : WF_vars(EmbedReturns(r) \/ ProviderOk(r) \/ GiveUp(r)) /\ WF_vars(Retry(r))

FairSpec == Spec /\ Fairness
----------------------------------------------------------------------------
\* A circuit is CLOSED exactly while fewer than failureThreshold failures have
\* been counted since the last success, whatever order the answers of
\* concurrent requests arrive in (recordSuccess and recordFailure).
CountMatchesState ==
    \A p \in Registered :
        breaker[p].state = "CLOSED" <=> breaker[p].failureCount < FailureThreshold

\* A HALF_OPEN circuit is being tested: some request awaits an answer that will
\* close or reopen it, so isOpen() never leaves a circuit HALF_OPEN for nothing.
HalfOpenIsTested ==
    \A p \in Registered : breaker[p].state = "HALF_OPEN" => InFlight(p) # {}

\* A failure counted in HALF_OPEN reopens the circuit, though recordFailure only
\* compares the counter with the threshold and never looks at the state.
HalfOpenFailureReopens ==
    [][\A p \in Registered :
          /\ breaker[p].state = "HALF_OPEN"
          /\ breaker'[p].failureCount > breaker[p].failureCount
          => breaker'[p].state = "OPEN"]_vars

\* While a circuit is open and cooling down, no further request starts to work
\* with the provider (a request already retrying there may go on).
CoolingProviderGetsNoNewRequest ==
    [][\A p \in Registered : IsOpen(breaker[p], now) =>
          \A r \in Requests :
              (pc'[r] = "calling" /\ kind'[r] # "embed" /\ Current(r)' = p)
                  => (pc[r] \in Waiting /\ Current(r) = p)]_vars

\* LLMProviderExhaustedException names every registered provider of the chain,
\* in chain order, each once: skipped or failed, none is left out.
ExhaustedNamesAll ==
    \A r \in Requests :
        pc[r] = "exhausted" => tried[r] = OnlyRegistered(chain[r])

\* A request answered by a provider other than the head of its chain has told
\* its caller so through onFallback (the llm_fallback degradation reason), and
\* one answered by the head has not.
FallbackIsReported ==
    \A r \in Requests :
        (pc[r] \in {"done", "badJson"} /\ kind[r] # "embed") =>
            (idx[r] > 1 <=> \E i \in DOMAIN fell[r] : fell[r][i] = Current(r))

\* Every request that was started is answered or fails: retries and the walk
\* down the chain end, whatever the other requests do to the breakers.
RequestsEnd ==
    \A r \in Requests : (pc[r] \in Waiting) ~> (pc[r] \in Finished)

\* llm-router.service.ts:113, "yields from the first provider that responds":
\* the chunks a stream delivers come from one provider.
StreamFromOneProvider ==
    \A r \in Requests : \A i, j \in DOMAIN chunks[r] : chunks[r][i] = chunks[r][j]
=============================================================================
