-------------------------- MODULE LLMRouterProofs --------------------------
(***************************************************************************)
(* Proofs about LLMRouter, for every number of requests and providers,     *)
(* every chain, threshold, cooldown and number of retries.                 *)
(*                                                                         *)
(* The inductive invariant is IInv: the types of the breakers and of the   *)
(* requests' control state, CountMatchesState, and HalfOpenIsTested.       *)
(* HalfOpenIsTested needs CountMatchesState: that a failure takes a        *)
(* breaker out of HALF_OPEN follows from its counter being at the          *)
(* threshold already.                                                      *)
(*                                                                         *)
(* FallbackIsReported speaks of answered requests; ReportInv says it of    *)
(* those under way: behind the head of its chain, the last provider a      *)
(* request has reported is the one it is at; at the head there is none.    *)
(*                                                                         *)
(* ExhaustedNamesAll speaks of requests that failed; LogInv says of those  *)
(* under way that their tried list is the filtered part of the chain they  *)
(* have passed.  A step filters one more stretch of the chain, so what is  *)
(* needed is that filters and concatenation commute (KeepConcat).          *)
(***************************************************************************)
EXTENDS LLMRouter, SequenceTheorems, WellFoundedInduction, TLAPS

IInv == BreakerTypeOK /\ CallTypeOK /\ CountMatchesState /\ HalfOpenIsTested

Consistent(b) == b.state = "CLOSED" <=> b.failureCount < FailureThreshold

\* recordSuccess() gives a CLOSED breaker with a zero counter.
LEMMA SuccessCloses ==
    ASSUME NEW b \in Breaker
    PROVE  /\ RecordSuccess(b) \in Breaker
           /\ Consistent(RecordSuccess(b))
           /\ RecordSuccess(b).state = "CLOSED"
BY ThresholdAssumption DEF RecordSuccess, Breaker, Consistent, CircuitState

\* recordFailure() keeps counter and state in step and never ends HALF_OPEN.
LEMMA FailureCounts ==
    ASSUME NEW b \in Breaker, NEW t \in Nat, Consistent(b)
    PROVE  /\ RecordFailure(b, t) \in Breaker
           /\ Consistent(RecordFailure(b, t))
           /\ RecordFailure(b, t).state # "HALF_OPEN"
           /\ b.state = "HALF_OPEN" => RecordFailure(b, t).state = "OPEN"
           /\ RecordFailure(b, t).failureCount = b.failureCount + 1
BY ThresholdAssumption DEF RecordFailure, Breaker, Consistent, CircuitState

\* isOpen() only ever changes OPEN to HALF_OPEN.
LEMMA IsOpenEffect ==
    ASSUME NEW b \in Breaker, NEW t \in Nat, Consistent(b)
    PROVE  /\ AfterIsOpen(b, t) \in Breaker
           /\ Consistent(AfterIsOpen(b, t))
           /\ AfterIsOpen(b, t).failureCount = b.failureCount
BY ThresholdAssumption, CooldownAssumption DEF AfterIsOpen, IsOpen, Breaker, Consistent, CircuitState

\* Some request other than r awaits an answer of p.
OtherTester(r, p) ==
    \E q \in Requests \ {r} : pc[q] = "calling" /\ kind[q] # "embed" /\ Current(q) = p

\* Walking down the chain keeps the invariant, provided the breakers it starts
\* from are in order without the request's own help.
LEMMA ProceedKeeps ==
    ASSUME BreakerTypeOK, CallTypeOK,
           NEW r \in Requests, NEW c, NEW i \in Nat, NEW t,
           NEW b \in [Registered -> Breaker],
           \A p \in Registered : Consistent(b[p]),
           \A p \in Registered : b[p].state = "HALF_OPEN" => OtherTester(r, p),
           Proceed(r, c, i, b, t),
           DOMAIN chain' = Requests, chain'[r] = c,
           kind' \in [Requests -> Kinds \cup {None}], kind'[r] # "embed",
           \A q \in Requests \ {r} : chain'[q] = chain[q] /\ kind'[q] = kind[q],
           now' = now
    PROVE  IInv'
<1> DEFINE Go(j) ==
          /\ j \in Callable(c, i, b)
          /\ breaker' = [b EXCEPT ![c[j]] = AfterIsOpen(@, now)]
          /\ pc' = [pc EXCEPT ![r] = "calling"]
          /\ idx' = [idx EXCEPT ![r] = j]
          /\ attempt' = [attempt EXCEPT ![r] = 1]
<1> now \in Nat
    BY DEF BreakerTypeOK
<1>1. ASSUME NEW j, Go(j) PROVE IInv'
  <2>1. j \in Nat /\ c[j] \in Registered
    BY <1>1 DEF Callable
  <2>2. /\ AfterIsOpen(b[c[j]], now) \in Breaker
        /\ Consistent(AfterIsOpen(b[c[j]], now))
    BY <2>1, IsOpenEffect
  <2>3. BreakerTypeOK'
    BY <1>1, <2>1, <2>2 DEF BreakerTypeOK
  <2>4. CountMatchesState'
    BY <1>1, <2>1, <2>2 DEF CountMatchesState, Consistent
  <2>5. Current(r)' = c[j] /\ \A q \in Requests \ {r} : Current(q)' = Current(q)
    BY <1>1 DEF CallTypeOK, Current
  <2>6. CallTypeOK'
    BY <1>1, <2>1, <2>5, RetriesAssumption DEF CallTypeOK, Waiting
  <2>7. HalfOpenIsTested'
    <3> SUFFICES ASSUME NEW p \in Registered, breaker'[p].state = "HALF_OPEN"
                 PROVE  \E q \in Requests :
                          pc'[q] = "calling" /\ kind'[q] # "embed" /\ Current(q)' = p
      BY DEF HalfOpenIsTested, InFlight
    <3>1. CASE p = c[j]
      BY <3>1, <1>1, <2>5 DEF CallTypeOK
    <3>2. CASE p # c[j]
      <4>1. OtherTester(r, p)
        BY <3>2, <1>1
      <4> QED
        BY <4>1, <1>1, <2>5 DEF OtherTester, CallTypeOK
    <3> QED BY <3>1, <3>2
  <2> QED BY <2>3, <2>4, <2>6, <2>7 DEF IInv
<1>2. ASSUME breaker' = b, pc' = [pc EXCEPT ![r] = "exhausted"],
             idx' = idx, attempt' = attempt
      PROVE  IInv'
  <2>1. BreakerTypeOK' /\ CountMatchesState'
    BY <1>2 DEF BreakerTypeOK, CountMatchesState, Consistent
  <2>2. \A q \in Requests \ {r} : Current(q)' = Current(q)
    BY <1>2 DEF Current
  <2>3. CallTypeOK'
    BY <1>2, <2>2 DEF CallTypeOK, Waiting, Finished
  <2>4. HalfOpenIsTested'
    BY <1>2, <2>2 DEF HalfOpenIsTested, InFlight, OtherTester, CallTypeOK
  <2> QED BY <2>1, <2>3, <2>4 DEF IInv
<1> QED BY <1>1, <1>2 DEF Proceed

\* The invariant holds before the first request.
LEMMA InitIInv == Init => IInv
<1> SUFFICES ASSUME Init PROVE IInv
    OBVIOUS
<1>1. BreakerTypeOK /\ CountMatchesState /\ HalfOpenIsTested
  BY ThresholdAssumption DEF Init, BreakerTypeOK, CountMatchesState, HalfOpenIsTested,
     NewBreaker, Breaker, CircuitState
<1>2. CallTypeOK
  BY RetriesAssumption DEF Init, CallTypeOK, Waiting
<1> QED BY <1>1, <1>2 DEF IInv

\* The breakers after the failure of the call that r awaits.
LEMMA FailedBreakers ==
    ASSUME IInv, NEW r \in Requests, pc[r] = "calling", kind[r] # "embed"
    PROVE  /\ Failed(r) \in [Registered -> Breaker]
           /\ \A p \in Registered : Consistent(Failed(r)[p])
           /\ \A p \in Registered : Failed(r)[p].state = "HALF_OPEN" => OtherTester(r, p)
<1>1. Current(r) \in Registered /\ now \in Nat /\ breaker \in [Registered -> Breaker]
  BY DEF IInv, CallTypeOK, BreakerTypeOK, Waiting
<1>2. \A p \in Registered : Consistent(breaker[p])
  BY DEF IInv, CountMatchesState, Consistent
<1> DEFINE fb == RecordFailure(breaker[Current(r)], now)
<1>3. fb \in Breaker /\ Consistent(fb) /\ fb.state # "HALF_OPEN"
  BY <1>1, <1>2, FailureCounts
<1>4. Failed(r) = [breaker EXCEPT ![Current(r)] = fb]
  BY DEF Failed
<1> HIDE DEF fb
<1>5. /\ Failed(r) \in [Registered -> Breaker]
      /\ \A p \in Registered : Consistent(Failed(r)[p])
  BY <1>1, <1>2, <1>3, <1>4
<1>6. ASSUME NEW p \in Registered, Failed(r)[p].state = "HALF_OPEN"
      PROVE  OtherTester(r, p)
  <2>1. p # Current(r) /\ breaker[p].state = "HALF_OPEN"
    BY <1>1, <1>3, <1>4, <1>6
  <2>2. PICK q \in Requests : pc[q] = "calling" /\ kind[q] # "embed" /\ Current(q) = p
    BY <2>1 DEF IInv, HalfOpenIsTested, InFlight
  <2> QED BY <2>1, <2>2 DEF OtherTester
<1> QED BY <1>5, <1>6

\* Every step of a request, the clock's and the stuttering steps keep IInv.
LEMMA NextIInv == IInv /\ [Next]_vars => IInv'
<1> SUFFICES ASSUME IInv, [Next]_vars PROVE IInv'
    OBVIOUS
<1> USE DEF IInv
<1> breaker \in [Registered -> Breaker] /\ now \in Nat
    BY DEF BreakerTypeOK
<1>0. \A p \in Registered : Consistent(breaker[p])
  BY DEF CountMatchesState, Consistent
<1>1. ASSUME NEW r \in Requests, Start(r) PROVE IInv'
  <2>1. PICK k \in Kinds \ {"embed"}, p \in Preferred :
          /\ kind' = [kind EXCEPT ![r] = k]
          /\ chain' = [chain EXCEPT ![r] = BuildChain(p)]
          /\ Proceed(r, BuildChain(p), 1, breaker, <<>>)
    BY <1>1 DEF Start
  <2>2. \A q \in Registered : breaker[q].state = "HALF_OPEN" => OtherTester(r, q)
    BY <1>1 DEF Start, HalfOpenIsTested, InFlight, OtherTester
  <2>3. /\ DOMAIN chain' = Requests /\ chain'[r] = BuildChain(p)
        /\ kind' \in [Requests -> Kinds \cup {None}] /\ kind'[r] # "embed"
        /\ \A q \in Requests \ {r} : chain'[q] = chain[q] /\ kind'[q] = kind[q]
        /\ now' = now
    BY <1>1, <2>1 DEF Start, CallTypeOK
  <2> QED BY <1>0, <2>1, <2>2, <2>3, ProceedKeeps
<1>2. ASSUME NEW r \in Requests, GiveUp(r) PROVE IInv'
  <2>1. pc[r] = "calling" /\ kind[r] # "embed"
    BY <1>2 DEF GiveUp
  <2>2. /\ Failed(r) \in [Registered -> Breaker]
        /\ \A p \in Registered : Consistent(Failed(r)[p])
        /\ \A p \in Registered : Failed(r)[p].state = "HALF_OPEN" => OtherTester(r, p)
    BY <2>1, FailedBreakers
  <2>3. /\ DOMAIN chain' = Requests /\ chain'[r] = chain[r]
        /\ kind' \in [Requests -> Kinds \cup {None}] /\ kind'[r] # "embed"
        /\ \A q \in Requests \ {r} : chain'[q] = chain[q] /\ kind'[q] = kind[q]
        /\ now' = now /\ idx[r] + 1 \in Nat
    BY <1>2, <2>1 DEF GiveUp, CallTypeOK
  <2>4. Proceed(r, chain[r], idx[r] + 1, Failed(r), Append(tried[r], Current(r)))
    BY <1>2 DEF GiveUp
  <2> QED BY <2>2, <2>3, <2>4, ProceedKeeps
<1>3. ASSUME NEW r \in Requests, RetryLater(r) PROVE IInv'
  <2>1. /\ Failed(r) \in [Registered -> Breaker]
        /\ \A p \in Registered : Consistent(Failed(r)[p])
        /\ \A p \in Registered : Failed(r)[p].state = "HALF_OPEN" => OtherTester(r, p)
    BY <1>3, FailedBreakers DEF RetryLater
  <2>2. breaker' = Failed(r) /\ \A q \in Requests : Current(q)' = Current(q)
    BY <1>3 DEF RetryLater, Current
  <2>3. BreakerTypeOK' /\ CountMatchesState'
    BY <1>3, <2>1, <2>2 DEF RetryLater, BreakerTypeOK, CountMatchesState, Consistent
  <2>4. CallTypeOK'
    BY <1>3, <2>2 DEF RetryLater, CallTypeOK, Waiting
  <2>5. HalfOpenIsTested'
    BY <1>3, <2>1, <2>2 DEF RetryLater, HalfOpenIsTested, InFlight, OtherTester, CallTypeOK
  <2> QED BY <2>3, <2>4, <2>5
<1>4. ASSUME NEW r \in Requests, ProviderOk(r) PROVE IInv'
  <2>1. /\ \A q \in Requests : Current(q)' = Current(q)
        /\ Current(r) \in Registered
    BY <1>4 DEF ProviderOk, Current, CallTypeOK, Waiting
  <2> DEFINE sb == RecordSuccess(breaker[Current(r)])
  <2>2. sb \in Breaker /\ Consistent(sb) /\ sb.state = "CLOSED"
    BY <2>1, SuccessCloses
  <2>3. breaker' = [breaker EXCEPT ![Current(r)] = sb] /\ now' = now
    BY <1>4 DEF ProviderOk
  <2> HIDE DEF sb
  <2>4. BreakerTypeOK' /\ CountMatchesState'
    BY <1>0, <2>1, <2>2, <2>3 DEF BreakerTypeOK, CountMatchesState, Consistent
  <2>5. PICK out \in {"done", "badJson"} : pc' = [pc EXCEPT ![r] = out]
    BY <1>4 DEF ProviderOk
  <2>6. CallTypeOK'
    BY <1>4, <2>1, <2>5 DEF ProviderOk, CallTypeOK, Waiting, Finished
  <2>7. HalfOpenIsTested'
    <3> SUFFICES ASSUME NEW p \in Registered, breaker'[p].state = "HALF_OPEN"
                 PROVE  \E q \in Requests :
                          pc'[q] = "calling" /\ kind'[q] # "embed" /\ Current(q)' = p
      BY DEF HalfOpenIsTested, InFlight
    <3>1. p # Current(r) /\ breaker[p].state = "HALF_OPEN"
      BY <2>1, <2>2, <2>3
    <3>2. PICK q \in Requests : pc[q] = "calling" /\ kind[q] # "embed" /\ Current(q) = p
      BY <3>1 DEF HalfOpenIsTested, InFlight
    <3> QED BY <1>4, <2>1, <2>5, <3>1, <3>2 DEF ProviderOk, CallTypeOK
  <2> QED BY <2>4, <2>6, <2>7
<1>5. ASSUME NEW r \in Requests, Retry(r) PROVE IInv'
  <2>1. \A q \in Requests : Current(q)' = Current(q)
    BY <1>5 DEF Retry, Current
  <2>2. BreakerTypeOK' /\ CountMatchesState'
    BY <1>5 DEF Retry, BreakerTypeOK, CountMatchesState
  <2>3. CallTypeOK'
    BY <1>5, <2>1, RetriesAssumption DEF Retry, CallTypeOK, Waiting
  <2>4. HalfOpenIsTested'
    BY <1>5, <2>1 DEF Retry, HalfOpenIsTested, InFlight, CallTypeOK
  <2> QED BY <2>2, <2>3, <2>4
<1>6. ASSUME NEW r \in Requests, StartEmbed(r) PROVE IInv'
  <2>1. Current(r)' = EmbeddingProvider /\ \A q \in Requests \ {r} : Current(q)' = Current(q)
    BY <1>6 DEF StartEmbed, Current, CallTypeOK
  <2>2. BreakerTypeOK' /\ CountMatchesState'
    BY <1>6 DEF StartEmbed, BreakerTypeOK, CountMatchesState
  <2>3. CallTypeOK'
    BY <1>6, <2>1 DEF StartEmbed, CallTypeOK, Waiting, Finished
  <2>4. HalfOpenIsTested'
    BY <1>6, <2>1 DEF StartEmbed, HalfOpenIsTested, InFlight, CallTypeOK
  <2> QED BY <2>2, <2>3, <2>4
<1>7. ASSUME NEW r \in Requests, EmbedReturns(r) PROVE IInv'
  <2>1. \A q \in Requests : Current(q)' = Current(q)
    BY <1>7 DEF EmbedReturns, Current
  <2>2. PICK out \in {"done", "embedFailed"} : pc' = [pc EXCEPT ![r] = out]
    BY <1>7 DEF EmbedReturns
  <2>3. BreakerTypeOK' /\ CountMatchesState'
    BY <1>7 DEF EmbedReturns, BreakerTypeOK, CountMatchesState
  <2>4. CallTypeOK'
    BY <1>7, <2>1, <2>2 DEF EmbedReturns, CallTypeOK, Waiting, Finished
  <2>5. HalfOpenIsTested'
    BY <1>7, <2>1, <2>2 DEF EmbedReturns, HalfOpenIsTested, InFlight, CallTypeOK
  <2> QED BY <2>3, <2>4, <2>5
<1>8. ASSUME NEW r \in Requests, Chunk(r) PROVE IInv'
  BY <1>8 DEF Chunk, BreakerTypeOK, CallTypeOK, CountMatchesState, HalfOpenIsTested,
     InFlight, Current
<1>9. CASE Tick
  BY <1>9 DEF Tick, reqVars, BreakerTypeOK, CallTypeOK, CountMatchesState,
     HalfOpenIsTested, InFlight, Current
<1>10. CASE UNCHANGED vars
  BY <1>10 DEF vars, reqVars, BreakerTypeOK, CallTypeOK, CountMatchesState,
     HalfOpenIsTested, InFlight, Current
<1> QED
  BY <1>1, <1>2, <1>3, <1>4, <1>5, <1>6, <1>7, <1>8, <1>9, <1>10 DEF Next, Step, Terminated

\* IInv is an invariant of the router.
LEMMA IInvHolds == Spec => []IInv
  BY InitIInv, NextIInv, PTL DEF Spec

\* A circuit is CLOSED exactly while its counter is below the threshold.
THEOREM CountMatchesStateHolds == Spec => []CountMatchesState
<1>1. IInv => CountMatchesState
  BY DEF IInv
<1> QED BY <1>1, IInvHolds, PTL

\* A HALF_OPEN circuit has a request in flight that will close or reopen it.
THEOREM HalfOpenIsTestedHolds == Spec => []HalfOpenIsTested
<1>1. IInv => HalfOpenIsTested
  BY DEF IInv
<1> QED BY <1>1, IInvHolds, PTL

\* The step that counts a failure of a HALF_OPEN circuit leaves it OPEN.
LEMMA ReopenStep ==
    ASSUME IInv, [Next]_vars, CooldownMs > 0, NEW p \in Registered,
           breaker[p].state = "HALF_OPEN",
           breaker'[p].failureCount > breaker[p].failureCount
    PROVE  breaker'[p].state = "OPEN"
<1> breaker \in [Registered -> Breaker] /\ now \in Nat
    BY DEF IInv, BreakerTypeOK
<1>1. Consistent(breaker[p]) /\ breaker[p] \in Breaker /\ breaker[p].failureCount \in Nat
  BY DEF IInv, CountMatchesState, Consistent, Breaker
<1> DEFINE fb == RecordFailure(breaker[p], now)
<1>2. fb \in Breaker /\ fb.state = "OPEN" /\ fb.lastFailureTime = now
  BY <1>1, FailureCounts DEF RecordFailure
<1>3. IsOpen(fb, now)
  BY <1>2, CooldownAssumption DEF IsOpen
<1>4. ASSUME NEW r \in Requests, Start(r) PROVE FALSE
  <2>1. PICK c : Proceed(r, c, 1, breaker, <<>>)
    BY <1>4 DEF Start
  <2>2. CASE breaker' = breaker
    BY <2>2, <1>1
  <2>3. ASSUME NEW j \in Callable(c, 1, breaker),
               breaker' = [breaker EXCEPT ![c[j]] = AfterIsOpen(@, now)]
        PROVE  FALSE
    <3>1. c[j] \in Registered
      BY <2>3 DEF Callable
    <3>2. breaker'[p].failureCount = breaker[p].failureCount
      BY <2>3, <3>1 DEF AfterIsOpen
    <3> QED BY <3>2, <1>1
  <2> QED BY <2>1, <2>2, <2>3 DEF Proceed
<1>5. ASSUME NEW r \in Requests, GiveUp(r) PROVE breaker'[p].state = "OPEN"
  <2>1. pc[r] = "calling" /\ kind[r] # "embed" /\ Current(r) \in Registered
    BY <1>5 DEF GiveUp, IInv, CallTypeOK, Waiting
  <2>2. /\ Failed(r) \in [Registered -> Breaker]
        /\ Failed(r)[p] = IF Current(r) = p THEN fb ELSE breaker[p]
    BY <2>1, FailedBreakers DEF Failed
  <2> HIDE DEF fb
  <2>3. PICK c, i, t : Proceed(r, c, i, Failed(r), t)
    BY <1>5 DEF GiveUp
  <2>4. CASE breaker' = Failed(r)
    BY <2>4, <2>2, <1>1, <1>2
  <2>5. ASSUME NEW j \in Callable(c, i, Failed(r)),
               breaker' = [Failed(r) EXCEPT ![c[j]] = AfterIsOpen(@, now)]
        PROVE  breaker'[p].state = "OPEN"
    <3>1. c[j] \in Registered /\ ~IsOpen(Failed(r)[c[j]], now)
      BY <2>5 DEF Callable
    <3>2. CASE c[j] = p
      <4>1. Failed(r)[p] = breaker[p]
        BY <3>1, <3>2, <2>2, <1>3
      <4>2. breaker'[p].failureCount = breaker[p].failureCount
        BY <4>1, <3>2, <2>5, <2>2 DEF AfterIsOpen
      <4> QED BY <4>2, <1>1
    <3>3. CASE c[j] # p
      BY <3>1, <3>3, <2>5, <2>2, <1>1, <1>2
    <3> QED BY <3>2, <3>3
  <2> QED BY <2>3, <2>4, <2>5 DEF Proceed
<1>6. ASSUME NEW r \in Requests, RetryLater(r) PROVE breaker'[p].state = "OPEN"
  <2>1. breaker' = Failed(r) /\ Current(r) \in Registered
    BY <1>6 DEF RetryLater, IInv, CallTypeOK, Waiting
  <2>2. breaker'[p] = IF Current(r) = p THEN fb ELSE breaker[p]
    BY <2>1 DEF Failed
  <2> HIDE DEF fb
  <2> QED BY <2>2, <1>1, <1>2
<1>7. ASSUME NEW r \in Requests, ProviderOk(r) PROVE FALSE
  <2>1. breaker'[p] = IF Current(r) = p THEN RecordSuccess(breaker[p]) ELSE breaker[p]
    BY <1>7 DEF ProviderOk, IInv, CallTypeOK, Waiting
  <2>2. breaker'[p].failureCount <= breaker[p].failureCount
    BY <2>1, <1>1 DEF RecordSuccess
  <2>3. breaker'[p].failureCount \in Nat
    BY <2>1, <1>1 DEF RecordSuccess
  <2> QED BY <2>2, <2>3, <1>1
<1>8. CASE breaker' = breaker
  BY <1>8, <1>1
<1> QED
  BY <1>4, <1>5, <1>6, <1>7, <1>8 DEF Next, Step, StartEmbed, EmbedReturns, Retry, Chunk,
     Tick, Terminated, vars

\* With a positive cooldown, a failure in HALF_OPEN reopens the circuit.
THEOREM HalfOpenFailureReopensHolds ==
    ASSUME CooldownMs > 0 PROVE Spec => HalfOpenFailureReopens
<1>1. IInv /\ [Next]_vars =>
        [\A p \in Registered :
            /\ breaker[p].state = "HALF_OPEN"
            /\ breaker'[p].failureCount > breaker[p].failureCount
            => breaker'[p].state = "OPEN"]_vars
  BY ReopenStep
<1> QED BY <1>1, IInvHolds, PTL DEF Spec, HalfOpenFailureReopens

\* A step by which a request comes to work with a provider: the provider was
\* not cooling down.
LEMMA NoNewRequestStep ==
    ASSUME IInv, [Next]_vars, NEW p \in Registered, IsOpen(breaker[p], now),
           NEW q \in Requests, pc'[q] = "calling", kind'[q] # "embed", Current(q)' = p
    PROVE  pc[q] \in Waiting /\ Current(q) = p
<1>1. ASSUME NEW r \in Requests, NEW c, NEW i, NEW t, NEW b,
             Proceed(r, c, i, b, t), chain'[r] = c, q = r, b[p] = breaker[p]
      PROVE  FALSE
  <2>1. PICK j \in Callable(c, i, b) : idx' = [idx EXCEPT ![r] = j]
    BY <1>1 DEF Proceed, IInv, CallTypeOK
  <2>2. c[j] = p
    BY <1>1, <2>1 DEF Current, IInv, CallTypeOK
  <2> QED BY <1>1, <2>1, <2>2 DEF Callable
<1>2. ASSUME NEW r \in Requests, Start(r) PROVE pc[q] \in Waiting /\ Current(q) = p
  <2>1. PICK c : Proceed(r, c, 1, breaker, <<>>) /\ chain' = [chain EXCEPT ![r] = c]
    BY <1>2 DEF Start
  <2>2. CASE q = r
    BY <1>1, <2>1, <2>2 DEF IInv, CallTypeOK
  <2>3. CASE q # r
    BY <2>1, <2>3 DEF Proceed, IInv, CallTypeOK, Current, Waiting
  <2> QED BY <2>2, <2>3
<1>3. ASSUME NEW r \in Requests, GiveUp(r) PROVE pc[q] \in Waiting /\ Current(q) = p
  <2>1. /\ Proceed(r, chain[r], idx[r] + 1, Failed(r), Append(tried[r], Current(r)))
        /\ chain' = chain /\ pc[r] = "calling"
    BY <1>3 DEF GiveUp
  <2>2. CASE q = r /\ Current(r) = p
    BY <2>1, <2>2 DEF Waiting
  <2>3. CASE q = r /\ Current(r) # p
    <3>1. Failed(r)[p] = breaker[p]
      BY <2>3 DEF Failed, IInv, BreakerTypeOK
    <3> QED BY <1>1, <2>1, <2>3, <3>1
  <2>4. CASE q # r
    BY <2>1, <2>4 DEF Proceed, IInv, CallTypeOK, Current, Waiting
  <2> QED BY <2>2, <2>3, <2>4
<1>4. ASSUME NEW r \in Requests, StartEmbed(r) PROVE pc[q] \in Waiting /\ Current(q) = p
  BY <1>4 DEF StartEmbed, IInv, CallTypeOK, Current, Waiting
<1>5. ASSUME NEW r \in Requests,
             EmbedReturns(r) \/ ProviderOk(r) \/ RetryLater(r) \/ Retry(r) \/ Chunk(r)
      PROVE  pc[q] \in Waiting /\ Current(q) = p
  BY <1>5 DEF EmbedReturns, ProviderOk, RetryLater, Retry, Chunk, IInv, CallTypeOK,
     Current, Waiting
<1>6. CASE Tick \/ UNCHANGED vars
  BY <1>6 DEF Tick, vars, reqVars, Current, Waiting
<1> QED BY <1>2, <1>3, <1>4, <1>5, <1>6 DEF Next, Step, Terminated

\* No request starts to work with a provider whose circuit is cooling down.
THEOREM CoolingProviderHolds == Spec => CoolingProviderGetsNoNewRequest
<1>1. IInv /\ [Next]_vars =>
        [\A p \in Registered : IsOpen(breaker[p], now) =>
          \A r \in Requests :
              (pc'[r] = "calling" /\ kind'[r] # "embed" /\ Current(r)' = p)
                  => (pc[r] \in Waiting /\ Current(r) = p)]_vars
  BY NoNewRequestStep
<1> QED BY <1>1, IInvHolds, PTL DEF Spec, CoolingProviderGetsNoNewRequest
----------------------------------------------------------------------------
\* A request that works with, or was answered by, the head of its chain has
\* reported nothing; past the head its last report is the provider it is with.
Reported(r) ==
    /\ fell[r] \in Seq(Registered)
    /\ pc[r] = "idle" => fell[r] = <<>>
    /\ (pc[r] \in {"calling", "delay", "done", "badJson"} /\ kind[r] # "embed") =>
          /\ idx[r] >= 1
          /\ idx[r] = 1 => fell[r] = <<>>
          /\ idx[r] > 1 => Len(fell[r]) > 0 /\ fell[r][Len(fell[r])] = Current(r)

ReportInv == fell \in [Requests -> Seq(Registered)] /\ \A r \in Requests : Reported(r)

\* The walk down the chain reports the provider it comes to, unless it is the head.
LEMMA ProceedReports ==
    ASSUME IInv, ReportInv, NEW r \in Requests, NEW c, NEW i \in Nat \ {0}, NEW b, NEW t,
           Proceed(r, c, i, b, t), i = 1 => fell[r] = <<>>,
           DOMAIN chain' = Requests, chain'[r] = c,
           \A q \in Requests \ {r} : chain'[q] = chain[q] /\ kind'[q] = kind[q]
    PROVE  ReportInv'
<1> USE DEF IInv, CallTypeOK
<1>1. CASE Callable(c, i, b) = {}
  <2>1. /\ pc' = [pc EXCEPT ![r] = "exhausted"] /\ UNCHANGED <<idx, fell>>
    BY <1>1 DEF Proceed
  <2>2. \A q \in Requests \ {r} : pc'[q] = pc[q] /\ Current(q)' = Current(q)
    BY <2>1 DEF Current
  <2> QED BY <2>1, <2>2 DEF ReportInv, Reported
<1>2. CASE Callable(c, i, b) # {}
  <2>1. PICK j \in Callable(c, i, b) :
           /\ pc' = [pc EXCEPT ![r] = "calling"] /\ idx' = [idx EXCEPT ![r] = j]
           /\ fell' = [fell EXCEPT ![r] = Notified(fell[r], c, j)]
    BY <1>2 DEF Proceed
  <2>2. j \in Int /\ j >= i /\ c[j] \in Registered
    BY <2>1 DEF Callable
  <2>3. /\ pc'[r] = "calling" /\ idx'[r] = j /\ fell'[r] = Notified(fell[r], c, j)
        /\ Current(r)' = c[j]
    BY <2>1 DEF Current, ReportInv
  <2>4. fell[r] \in Seq(Registered)
    BY DEF ReportInv
  <2>5. /\ fell'[r] \in Seq(Registered)
        /\ j = 1 => fell'[r] = <<>>
        /\ j > 1 => Len(fell'[r]) > 0 /\ fell'[r][Len(fell'[r])] = c[j]
    BY <2>2, <2>3, <2>4 DEF Notified
  <2>6. Reported(r)'
    BY <2>2, <2>3, <2>5 DEF Reported
  <2>7. \A q \in Requests \ {r} :
           /\ pc'[q] = pc[q] /\ Current(q)' = Current(q)
           /\ idx'[q] = idx[q] /\ fell'[q] = fell[q]
    BY <2>1 DEF Current, ReportInv
  <2>8. \A q \in Requests \ {r} : Reported(q)'
    BY <2>7 DEF ReportInv, Reported
  <2>9. fell' \in [Requests -> Seq(Registered)]
    BY <2>1, <2>3, <2>5 DEF ReportInv
  <2> QED BY <2>6, <2>8, <2>9 DEF ReportInv
<1> QED BY <1>1, <1>2

\* Every step keeps the account of fallbacks.
LEMMA NextReports ==
    ASSUME IInv, ReportInv, [Next]_vars
    PROVE  ReportInv'
<1> USE DEF IInv, CallTypeOK
<1>1. ASSUME NEW r \in Requests, Start(r) PROVE ReportInv'
  <2>1. PICK k \in Kinds \ {"embed"}, p \in Preferred :
          /\ kind' = [kind EXCEPT ![r] = k]
          /\ chain' = [chain EXCEPT ![r] = BuildChain(p)]
          /\ Proceed(r, BuildChain(p), 1, breaker, <<>>)
    BY <1>1 DEF Start
  <2>2. fell[r] = <<>>
    BY <1>1 DEF Start, ReportInv, Reported
  <2>3. /\ DOMAIN chain' = Requests /\ chain'[r] = BuildChain(p)
        /\ \A q \in Requests \ {r} : chain'[q] = chain[q] /\ kind'[q] = kind[q]
    BY <2>1
  <2> QED BY <2>1, <2>2, <2>3, ProceedReports
<1>2. ASSUME NEW r \in Requests, GiveUp(r) PROVE ReportInv'
  <2>1. /\ Proceed(r, chain[r], idx[r] + 1, Failed(r), Append(tried[r], Current(r)))
        /\ pc[r] = "calling" /\ kind[r] # "embed" /\ chain' = chain /\ kind' = kind
    BY <1>2 DEF GiveUp
  <2>2. idx[r] + 1 \in Nat \ {0} /\ idx[r] + 1 # 1
    BY <2>1 DEF ReportInv, Reported
  <2> QED BY <2>1, <2>2, ProceedReports
<1>3. ASSUME NEW r \in Requests, StartEmbed(r) PROVE ReportInv'
  <2>1. /\ kind'[r] = "embed" /\ pc'[r] # "idle" /\ fell' = fell
        /\ \A q \in Requests \ {r} :
              pc'[q] = pc[q] /\ kind'[q] = kind[q] /\ idx'[q] = idx[q] /\ Current(q)' = Current(q)
    BY <1>3 DEF StartEmbed, Current
  <2> QED BY <2>1 DEF ReportInv, Reported
<1>4. ASSUME NEW r \in Requests,
             EmbedReturns(r) \/ ProviderOk(r) \/ RetryLater(r) \/ Retry(r) \/ Chunk(r)
      PROVE  ReportInv'
  <2>1. /\ UNCHANGED <<kind, chain, idx, fell>>
        /\ pc[r] \in Waiting /\ \A q \in Requests \ {r} : pc'[q] = pc[q]
        /\ kind[r] # "embed" \/ kind'[r] = "embed"
        /\ pc'[r] # "idle"
    BY <1>4 DEF EmbedReturns, ProviderOk, RetryLater, Retry, Chunk, Waiting
  <2>2. \A q \in Requests : Current(q)' = Current(q)
    BY <2>1 DEF Current
  <2> QED BY <2>1, <2>2 DEF ReportInv, Reported, Waiting
<1>5. CASE Tick \/ UNCHANGED vars
  BY <1>5 DEF Tick, vars, reqVars, ReportInv, Reported, Current
<1> QED BY <1>1, <1>2, <1>3, <1>4, <1>5 DEF Next, Step, Terminated

\* Whatever chain it walks and whichever breakers skip providers meanwhile, a
\* request answered past the head of its chain has reported llm_fallback with the
\* provider that answered, and one answered by the head has reported nothing.
THEOREM FallbacksAreReported == Spec => []FallbackIsReported
<1>1. Init => ReportInv
  BY DEF Init, ReportInv, Reported
<1>2. IInv /\ ReportInv /\ [Next]_vars => ReportInv'
  BY NextReports
<1>3. IInv /\ ReportInv => FallbackIsReported
  <2> SUFFICES ASSUME IInv, ReportInv, NEW r \in Requests,
                      pc[r] \in {"done", "badJson"}, kind[r] # "embed"
               PROVE  idx[r] > 1 <=> \E i \in DOMAIN fell[r] : fell[r][i] = Current(r)
    BY DEF FallbackIsReported
  <2>1. /\ fell[r] \in Seq(Registered) /\ idx[r] \in Nat /\ idx[r] >= 1
        /\ idx[r] = 1 => fell[r] = <<>>
        /\ idx[r] > 1 => Len(fell[r]) > 0 /\ fell[r][Len(fell[r])] = Current(r)
    BY DEF ReportInv, Reported, IInv, CallTypeOK
  <2>2. Len(fell[r]) > 0 => Len(fell[r]) \in DOMAIN fell[r]
    BY <2>1
  <2> QED BY <2>1, <2>2
<1> QED BY <1>1, <1>2, <1>3, IInvHolds, PTL DEF Spec
----------------------------------------------------------------------------
(* Filters.  What the recursive function in Keep computes is found by      *)
(* induction; its principle is stated for a set of numbers (Induct), so    *)
(* that every use of it is a first-order fact.                             *)

\* A set of numbers with 0, and n + 1 with every n, has all of them.
LEMMA Induct ==
    ASSUME NEW G, 0 \in G, \A n \in Nat : n \in G => n + 1 \in G
    PROVE  Nat \subseteq G
<1> SUFFICES ASSUME Nat \ G # {} PROVE FALSE
  OBVIOUS
<1>1. PICK x \in Nat \ G : \A y \in Nat \ G : ~ (<<y, x>> \in OpToRel(<, Nat))
  <2> DEFINE T == Nat \ G
  <2>1. T \subseteq Nat /\ T # {}
    OBVIOUS
  <2> HIDE DEF T
  <2>2. \E x \in T : \A y \in T : ~ (<<y, x>> \in OpToRel(<, Nat))
    BY <2>1, NatLessThanWellFounded, WFMin, Zenon
  <2> QED BY <2>2 DEF T
<1>2. \A y \in Nat \ G : ~ (y < x)
  BY <1>1, Zenon DEF OpToRel
<1>3. x # 0 /\ x - 1 \in Nat /\ x - 1 < x /\ (x - 1) + 1 = x
  OBVIOUS
<1> QED BY <1>2, <1>3

\* f[n] is what is kept of the first n elements of c, for n up to m.
Keeps(f, c, S, m) ==
    f = [n \in 0..m |-> IF n = 0 THEN <<>>
                        ELSE IF c[n] \in S THEN Append(f[n - 1], c[n]) ELSE f[n - 1]]

\* The recursion has a solution.
LEMMA KeepsExists ==
    ASSUME NEW c, NEW S, NEW m \in Nat
    PROVE  \E f : Keeps(f, c, S, m)
<1> DEFINE G == {n \in Nat : \E f : Keeps(f, c, S, n)}
<1>1. 0 \in G
  <2>1. Keeps([n \in 0..0 |-> <<>>], c, S, 0)
    BY DEF Keeps
  <2> QED BY <2>1
<1>2. ASSUME NEW n \in Nat, n \in G PROVE n + 1 \in G
  <2>1. PICK f : Keeps(f, c, S, n)
    BY <1>2
  <2> DEFINE v == IF c[n + 1] \in S THEN Append(f[n], c[n + 1]) ELSE f[n]
             g == [k \in 0..(n + 1) |-> IF k = n + 1 THEN v ELSE f[k]]
  <2>2. Keeps(g, c, S, n + 1)
    <3> DEFINE F(h, k) == IF k = 0 THEN <<>> ELSE IF c[k] \in S THEN Append(h[k - 1], c[k]) ELSE h[k - 1]
    <3>1. ASSUME NEW k \in 0..(n + 1) PROVE g[k] = F(g, k)
      <4>1. CASE k = n + 1
        <5>1. g[k] = v /\ k # 0 /\ g[k - 1] = f[n] /\ k - 1 = n
          BY <4>1
        <5> QED BY <5>1, <4>1
      <4>2. CASE k # n + 1
        <5>1. k \in 0..n /\ g[k] = f[k]
          BY <4>2
        <5>2. f[k] = F(f, k)
          BY <5>1, <2>1 DEF Keeps
        <5>3. k # 0 => g[k - 1] = f[k - 1]
          BY <4>2
        <5> HIDE DEF g
        <5> QED BY <5>1, <5>2, <5>3
      <4> QED BY <4>1, <4>2
    <3>2. g = [k \in 0..(n + 1) |-> F(g, k)]
      <4>1. g = [k \in 0..(n + 1) |-> g[k]]
        OBVIOUS
      <4> HIDE DEF g, F
      <4> QED BY <3>1, <4>1
    <3> HIDE DEF g
    <3> QED BY <3>2 DEF Keeps
  <2> QED BY <2>2
<1>3. Nat \subseteq G
  <2> HIDE DEF G
  <2> QED BY <1>1, <1>2, Induct
<1> QED BY <1>3

\* Its solutions for c and for a sequence that begins like c agree.
LEMMA KeepsUnique ==
    ASSUME NEW c, NEW S, NEW m \in Nat, NEW d, NEW k \in Nat, NEW f, NEW g,
           Keeps(f, c, S, m), Keeps(g, d, S, k), \A i \in 1..m : d[i] = c[i], m <= k
    PROVE  \A n \in 0..m : f[n] = g[n]
<1> DEFINE G == {n \in Nat : n <= m => f[n] = g[n]}
<1>0. /\ \A n \in 0..m : f[n] = IF n = 0 THEN <<>> ELSE IF c[n] \in S THEN Append(f[n - 1], c[n]) ELSE f[n - 1]
      /\ \A n \in 0..k : g[n] = IF n = 0 THEN <<>> ELSE IF d[n] \in S THEN Append(g[n - 1], d[n]) ELSE g[n - 1]
  BY DEF Keeps
<1>1. 0 \in G
  BY <1>0
<1>2. ASSUME NEW n \in Nat, n \in G PROVE n + 1 \in G
  <2> SUFFICES ASSUME n + 1 <= m PROVE f[n + 1] = g[n + 1]
    OBVIOUS
  <2>1. f[n] = g[n] /\ d[n + 1] = c[n + 1] /\ (n + 1) - 1 = n /\ n + 1 # 0 /\ n + 1 \in 0..m /\ n + 1 \in 0..k
    BY <1>2
  <2> QED BY <2>1, <1>0
<1>3. Nat \subseteq G
  <2> HIDE DEF G
  <2> QED BY <1>1, <1>2, Induct
<1> QED BY <1>3

\* Keep returns the last value of a solution.
LEMMA KeepIs ==
    ASSUME NEW c, NEW S, Len(c) \in Nat
    PROVE  \E f : Keeps(f, c, S, Len(c)) /\ Keep(c, S) = f[Len(c)]
<1> DEFINE k == CHOOSE f : Keeps(f, c, S, Len(c))
<1>1. Keeps(k, c, S, Len(c))
  BY KeepsExists
<1>2. Keep(c, S) = k[Len(c)]
  BY DEF Keep, Keeps
<1> QED BY <1>1, <1>2

\* Nothing is kept of nothing.
LEMMA KeepEmpty == ASSUME NEW S PROVE Keep(<<>>, S) = <<>>
<1>1. Len(<<>>) = 0
  OBVIOUS
<1>2. PICK f : Keeps(f, <<>>, S, 0) /\ Keep(<<>>, S) = f[0]
  BY <1>1, KeepIs
<1> QED BY <1>2 DEF Keeps

\* A further element is kept at the end, or not at all.
LEMMA KeepAppend ==
    ASSUME NEW S, NEW T, NEW c \in Seq(T), NEW x \in T
    PROVE  Keep(Append(c, x), S) = IF x \in S THEN Append(Keep(c, S), x) ELSE Keep(c, S)
<1> DEFINE d == Append(c, x)  n == Len(c)
<1>1. n \in Nat /\ Len(d) = n + 1 /\ d[n + 1] = x /\ \A i \in 1..n : d[i] = c[i]
  OBVIOUS
<1> HIDE DEF d, n
<1>2. PICK f : Keeps(f, c, S, n) /\ Keep(c, S) = f[n]
  BY <1>1, KeepIs DEF n
<1>3. PICK g : Keeps(g, d, S, n + 1) /\ Keep(d, S) = g[n + 1]
  BY <1>1, KeepIs
<1>4. f[n] = g[n]
  <2>1. n <= n + 1 /\ n + 1 \in Nat /\ n \in 0..n
    BY <1>1
  <2>2. \A p \in 0..n : f[p] = g[p]
    BY <1>1, <1>2, <1>3, <2>1, KeepsUnique
  <2> QED BY <2>1, <2>2
<1>5. g[n + 1] = IF d[n + 1] \in S THEN Append(g[n], d[n + 1]) ELSE g[n]
  <2>1. n + 1 \in 0..(n + 1) /\ n + 1 # 0 /\ (n + 1) - 1 = n
    BY <1>1
  <2> QED BY <1>3, <2>1 DEF Keeps
<1> QED BY <1>1, <1>2, <1>3, <1>4, <1>5 DEF d

\* A sequence that is not empty has a last element.
LEMMA LastPart ==
    ASSUME NEW T, NEW d \in Seq(T), NEW n \in Nat, Len(d) = n + 1
    PROVE  \E e \in Seq(T), x \in T : d = Append(e, x) /\ Len(e) = n
<1> DEFINE e == SubSeq(d, 1, n)
<1>1. e \in Seq(T) /\ Len(e) = n /\ d[n + 1] \in T /\ \A i \in 1..n : e[i] = d[i]
  OBVIOUS
<1> HIDE DEF e
<1>2. d = Append(e, d[n + 1])
  <2>1. Len(Append(e, d[n + 1])) = Len(d) /\ Append(e, d[n + 1]) \in Seq(T)
    BY <1>1
  <2>2. \A i \in 1..Len(d) : Append(e, d[n + 1])[i] = d[i]
    BY <1>1
  <2> QED BY <2>1, <2>2, SeqEqual
<1> QED BY <1>1, <1>2

\* Appending and concatenation associate.
LEMMA AppendJoin ==
    ASSUME NEW T, NEW a \in Seq(T), NEW e \in Seq(T), NEW x \in T
    PROVE  a \o Append(e, x) = Append(a \o e, x) /\ a \o e \in Seq(T)
<1> DEFINE p == a \o Append(e, x)  q == Append(a \o e, x)
<1>1. p \in Seq(T) /\ q \in Seq(T) /\ Len(p) = Len(q) /\ a \o e \in Seq(T)
  OBVIOUS
<1>2. \A i \in 1..Len(p) : p[i] = q[i]
  OBVIOUS
<1> QED BY <1>1, <1>2, SeqEqual

\* What is kept are elements of the sequence that are in S.
LEMMA KeepSeq ==
    ASSUME NEW S, NEW T, NEW c \in Seq(T)
    PROVE  Keep(c, S) \in Seq(T \cap S)
<1> DEFINE G == {n \in Nat : \A d \in Seq(T) : Len(d) = n => Keep(d, S) \in Seq(T \cap S)}
<1>1. 0 \in G
  BY KeepEmpty
<1>2. ASSUME NEW n \in Nat, n \in G PROVE n + 1 \in G
  <2> SUFFICES ASSUME NEW d \in Seq(T), Len(d) = n + 1 PROVE Keep(d, S) \in Seq(T \cap S)
    OBVIOUS
  <2>1. PICK e \in Seq(T), x \in T : d = Append(e, x) /\ Len(e) = n
    BY LastPart
  <2>2. Keep(e, S) \in Seq(T \cap S)
    BY <1>2, <2>1
  <2>3. Keep(d, S) = IF x \in S THEN Append(Keep(e, S), x) ELSE Keep(e, S)
    BY <2>1, KeepAppend
  <2> QED BY <2>2, <2>3
<1>3. Nat \subseteq G
  <2> HIDE DEF G
  <2> QED BY <1>1, <1>2, Induct
<1> QED BY <1>3

\* Filtering a concatenation filters its parts.
LEMMA KeepConcat ==
    ASSUME NEW S, NEW T, NEW a \in Seq(T), NEW b \in Seq(T)
    PROVE  Keep(a \o b, S) = Keep(a, S) \o Keep(b, S)
<1> DEFINE G == {n \in Nat : \A d \in Seq(T) : Len(d) = n => Keep(a \o d, S) = Keep(a, S) \o Keep(d, S)}
<1>0. Keep(a, S) \in Seq(T)
  <2>1. Keep(a, S) \in Seq(T \cap S)
    BY KeepSeq
  <2> QED BY <2>1
<1>1. 0 \in G
  <2>1. a \o <<>> = a /\ Keep(a, S) \o <<>> = Keep(a, S)
    BY <1>0
  <2>2. \A d \in Seq(T) : Len(d) = 0 => d = <<>>
    OBVIOUS
  <2> QED BY KeepEmpty, <2>1, <2>2
<1>2. ASSUME NEW n \in Nat, n \in G PROVE n + 1 \in G
  <2> SUFFICES ASSUME NEW d \in Seq(T), Len(d) = n + 1
               PROVE  Keep(a \o d, S) = Keep(a, S) \o Keep(d, S)
    OBVIOUS
  <2>1. PICK e \in Seq(T), x \in T : d = Append(e, x) /\ Len(e) = n
    BY LastPart
  <2>2. a \o d = Append(a \o e, x) /\ a \o e \in Seq(T)
    BY <2>1, AppendJoin
  <2>3. Keep(a \o e, S) = Keep(a, S) \o Keep(e, S)
    BY <1>2, <2>1
  <2>4. Keep(d, S) = IF x \in S THEN Append(Keep(e, S), x) ELSE Keep(e, S)
    BY <2>1, KeepAppend
  <2>5. Keep(a \o d, S) = IF x \in S THEN Append(Keep(a \o e, S), x) ELSE Keep(a \o e, S)
    <3> DEFINE ae == a \o e
    <3>1. ae \in Seq(T) /\ a \o d = Append(ae, x)
      BY <2>2
    <3> HIDE DEF ae
    <3>2. Keep(Append(ae, x), S) = IF x \in S THEN Append(Keep(ae, S), x) ELSE Keep(ae, S)
      BY <3>1, KeepAppend
    <3> QED BY <3>1, <3>2 DEF ae
  <2>6. Keep(e, S) \in Seq(T)
    <3>1. Keep(e, S) \in Seq(T \cap S)
      BY KeepSeq
    <3> QED BY <3>1
  <2>7. Append(Keep(a, S) \o Keep(e, S), x) = Keep(a, S) \o Append(Keep(e, S), x)
    <3> DEFINE ka == Keep(a, S)  ke == Keep(e, S)
    <3>1. ka \in Seq(T) /\ ke \in Seq(T)
      BY <1>0, <2>6
    <3> HIDE DEF ka, ke
    <3>2. ka \o Append(ke, x) = Append(ka \o ke, x)
      BY <3>1, AppendJoin
    <3> QED BY <3>2 DEF ka, ke
  <2> QED BY <2>3, <2>4, <2>5, <2>7
<1>3. Nat \subseteq G
  <2> HIDE DEF G
  <2> QED BY <1>1, <1>2, Induct
<1> QED BY <1>3
----------------------------------------------------------------------------
\* A request under way has listed the registered providers before its own; one
\* that found none to call has listed those of the whole chain.
Listed(r) ==
    /\ pc[r] = "idle" => idx[r] = 0
    /\ (pc[r] \in Waiting /\ kind[r] # "embed") =>
          /\ idx[r] >= 1
          /\ tried[r] = OnlyRegistered(SubSeq(chain[r], 1, idx[r] - 1))
    /\ pc[r] = "exhausted" => tried[r] = OnlyRegistered(chain[r])

LogInv == LogTypeOK /\ \A r \in Requests : Listed(r)

\* The registered providers of two adjacent stretches of a chain, put together.
LEMMA ListsJoin ==
    ASSUME NEW c \in Seq(Providers), NEW i \in 1..(Len(c) + 1), NEW j \in i..(Len(c) + 1)
    PROVE  /\ OnlyRegistered(SubSeq(c, 1, i - 1)) \o OnlyRegistered(SubSeq(c, i, j - 1))
                = OnlyRegistered(SubSeq(c, 1, j - 1))
           /\ OnlyRegistered(SubSeq(c, i, j - 1)) \in Seq(Registered)
<1> DEFINE a == SubSeq(c, 1, i - 1)  b == SubSeq(c, i, j - 1)
<1>1. a \in Seq(Providers) /\ b \in Seq(Providers)
  OBVIOUS
<1>2. a \o b = SubSeq(c, 1, j - 1)
  <2> DEFINE k == i - 1  n == j - 1
  <2>1. /\ 1 \in 1..(Len(c) + 1) /\ k \in (1 - 1)..Len(c) /\ n \in k..Len(c)
        /\ i = k + 1 /\ Len(c) \in Nat
    OBVIOUS
  <2> HIDE DEF k, n
  <2>2. SubSeq(c, 1, k) \o SubSeq(c, k + 1, n) = SubSeq(c, 1, n)
    BY <2>1, ConcatAdjacentSubSeq
  <2> QED BY <2>1, <2>2 DEF k, n
<1> HIDE DEF a, b
<1>3. Keep(a \o b, Registered) = Keep(a, Registered) \o Keep(b, Registered)
  BY <1>1, KeepConcat
<1>4. Keep(b, Registered) \in Seq(Providers \cap Registered)
  BY <1>1, KeepSeq
<1>5. Keep(b, Registered) \in Seq(Registered)
  BY <1>4, ProvidersAssumption
<1> QED BY <1>2, <1>3, <1>5 DEF OnlyRegistered, a, b

\* The registered providers up to and with the one at position i.
LEMMA ListsNext ==
    ASSUME NEW c \in Seq(Providers), NEW i \in 1..Len(c), c[i] \in Registered
    PROVE  Append(OnlyRegistered(SubSeq(c, 1, i - 1)), c[i]) = OnlyRegistered(SubSeq(c, 1, i))
<1> DEFINE a == SubSeq(c, 1, i - 1)
<1>1. a \in Seq(Providers) /\ c[i] \in Providers /\ Len(a) = i - 1
  OBVIOUS
<1>2. Append(a, c[i]) = SubSeq(c, 1, i)
  <2>1. Append(a, c[i]) \in Seq(Providers) /\ SubSeq(c, 1, i) \in Seq(Providers)
    OBVIOUS
  <2>2. Len(Append(a, c[i])) = Len(SubSeq(c, 1, i))
    OBVIOUS
  <2>3. \A k \in 1..Len(Append(a, c[i])) : Append(a, c[i])[k] = SubSeq(c, 1, i)[k]
    OBVIOUS
  <2> QED BY <2>1, <2>2, <2>3, SeqEqual
<1> HIDE DEF a
<1>3. Keep(Append(a, c[i]), Registered) = Append(Keep(a, Registered), c[i])
  BY <1>1, KeepAppend
<1> QED BY <1>2, <1>3 DEF OnlyRegistered, a

\* buildChain() gives a chain of providers.
LEMMA ChainType == ASSUME NEW p \in Preferred PROVE BuildChain(p) \in Seq(Providers)
<1>1. CASE p = None
  BY <1>1, ChainAssumption DEF BuildChain
<1>2. CASE p # None
  <2>1. p \in Providers
    BY <1>2, ProvidersAssumption
  <2> DEFINE others == Keep(FallbackChain, Providers \ {p})
  <2>2. others \in Seq(Providers \cap (Providers \ {p}))
    BY ChainAssumption, KeepSeq
  <2>3. others \in Seq(Providers)
    BY <2>2
  <2> HIDE DEF others
  <2>4. <<p>> \o others \in Seq(Providers)
    BY <2>1, <2>3
  <2> QED BY <1>2, <2>4 DEF BuildChain, others
<1> QED BY <1>1, <1>2

\* The walk down the chain lists the providers it passes.
LEMMA ProceedLists ==
    ASSUME IInv, LogInv, ReportInv', NEW r \in Requests,
           NEW c \in Seq(Providers), NEW i \in 1..(Len(c) + 1), NEW b, NEW t,
           t = OnlyRegistered(SubSeq(c, 1, i - 1)),
           Proceed(r, c, i, b, t), idx[r] \in 0..Len(c),
           chain' \in [Requests -> Seq(Providers)], chain'[r] = c, chunks' = chunks,
           \A q \in Requests \ {r} : chain'[q] = chain[q] /\ kind'[q] = kind[q]
    PROVE  LogInv'
<1> USE DEF IInv, CallTypeOK
<1>0. tried \in [Requests -> Seq(Registered)] /\ Len(c) \in Nat
  BY DEF LogInv, LogTypeOK
<1>1. CASE Callable(c, i, b) = {}
  <2> DEFINE u == t \o OnlyRegistered(SubSeq(c, i, Len(c)))
  <2>1. /\ pc' = [pc EXCEPT ![r] = "exhausted"] /\ idx' = idx
        /\ tried' = [tried EXCEPT ![r] = u]
    BY <1>1 DEF Proceed
  <2>2. u = OnlyRegistered(c) /\ u \in Seq(Registered)
    <3> DEFINE j == Len(c) + 1
    <3>1. j \in i..(Len(c) + 1) /\ j - 1 = Len(c)
      BY <1>0
    <3> HIDE DEF j
    <3>2. u = OnlyRegistered(SubSeq(c, 1, Len(c)))
      BY <3>1, ListsJoin
    <3>3. SubSeq(c, 1, Len(c)) = c
      BY SubSeqFull
    <3>4. Keep(c, Registered) \in Seq(Providers \cap Registered)
      BY KeepSeq
    <3>5. Keep(c, Registered) \in Seq(Registered)
      BY <3>4, ProvidersAssumption
    <3> HIDE DEF u
    <3> QED BY <3>2, <3>3, <3>5 DEF OnlyRegistered
  <2> HIDE DEF u
  <2>3. \A q \in Requests \ {r} : pc'[q] = pc[q] /\ tried'[q] = tried[q] /\ idx'[q] = idx[q]
    BY <2>1, <1>0
  <2>4. pc'[r] = "exhausted" /\ tried'[r] = u
    BY <2>1, <1>0
  <2>5. LogTypeOK'
    BY <1>0, <2>1, <2>2, <2>3 DEF LogInv, LogTypeOK, ReportInv
  <2>6. \A q \in Requests : Listed(q)'
    BY <2>2, <2>3, <2>4 DEF LogInv, Listed, Waiting
  <2> QED BY <2>5, <2>6 DEF LogInv
<1>2. CASE Callable(c, i, b) # {}
  <2>1. PICK j \in Callable(c, i, b) :
           /\ pc' = [pc EXCEPT ![r] = "calling"] /\ idx' = [idx EXCEPT ![r] = j]
           /\ tried' = [tried EXCEPT ![r] = t \o OnlyRegistered(SubSeq(c, i, j - 1))]
    BY <1>2 DEF Proceed
  <2>2. j \in i..Len(c) /\ j \in i..(Len(c) + 1) /\ j >= 1
    BY <2>1, <1>0 DEF Callable
  <2> DEFINE u == t \o OnlyRegistered(SubSeq(c, i, j - 1))
  <2>3. u = OnlyRegistered(SubSeq(c, 1, j - 1))
    BY <2>2, ListsJoin
  <2>4. u \in Seq(Registered)
    <3>1. 1 \in 1..(Len(c) + 1) /\ j \in 1..(Len(c) + 1)
      BY <2>2, <1>0
    <3>2. OnlyRegistered(SubSeq(c, 1, j - 1)) \in Seq(Registered)
      BY <3>1, ListsJoin
    <3> HIDE DEF u
    <3> QED BY <2>3, <3>2
  <2>5. tried' = [tried EXCEPT ![r] = u]
    BY <2>1
  <2> HIDE DEF u
  <2>6. \A q \in Requests \ {r} : pc'[q] = pc[q] /\ tried'[q] = tried[q] /\ idx'[q] = idx[q]
    BY <2>1, <2>5, <1>0
  <2>7. pc'[r] = "calling" /\ tried'[r] = u /\ idx'[r] = j
    BY <2>1, <2>5, <1>0
  <2>8. LogTypeOK'
    <3>1. ASSUME NEW q \in Requests PROVE idx'[q] \in 0..Len(chain'[q])
      <4>1. idx'[r] \in 0..Len(c) /\ chain'[r] = c
        BY <1>0, <2>2, <2>7
      <4>2. idx[q] \in 0..Len(chain[q])
        BY DEF LogInv, LogTypeOK
      <4>3. CASE q = r
        BY <4>1, <4>3
      <4>4. CASE q # r
        <5>1. idx'[q] = idx[q] /\ chain'[q] = chain[q]
          BY <2>6, <4>4
        <5> QED BY <5>1, <4>2
      <4> QED BY <4>3, <4>4
    <3>2. tried' \in [Requests -> Seq(Registered)]
      BY <1>0, <2>4, <2>5
    <3> QED BY <3>1, <3>2 DEF LogInv, LogTypeOK, ReportInv
  <2>9. \A q \in Requests : Listed(q)'
    BY <2>2, <2>3, <2>6, <2>7 DEF LogInv, Listed, Waiting
  <2> QED BY <2>8, <2>9 DEF LogInv
<1> QED BY <1>1, <1>2

\* Every step keeps the lists.
LEMMA NextLists ==
    ASSUME IInv, ReportInv', LogInv, [Next]_vars
    PROVE  LogInv'
<1> USE DEF IInv, CallTypeOK
<1>1. ASSUME NEW r \in Requests, Start(r) PROVE LogInv'
  <2>1. PICK k \in Kinds \ {"embed"}, p \in Preferred :
          /\ kind' = [kind EXCEPT ![r] = k]
          /\ chain' = [chain EXCEPT ![r] = BuildChain(p)]
          /\ Proceed(r, BuildChain(p), 1, breaker, <<>>)
    BY <1>1 DEF Start
  <2> DEFINE c == BuildChain(p)
  <2>2. c \in Seq(Providers)
    BY ChainType
  <2> HIDE DEF c
  <2>3. Len(c) \in Nat /\ 1 \in 1..(Len(c) + 1) /\ SubSeq(c, 1, 1 - 1) = <<>>
    BY <2>2
  <2>4. OnlyRegistered(SubSeq(c, 1, 1 - 1)) = <<>>
    BY <2>3, KeepEmpty DEF OnlyRegistered
  <2>5. idx[r] \in 0..Len(c)
    BY <1>1, <2>3 DEF Start, LogInv, Listed
  <2>6. /\ chain' \in [Requests -> Seq(Providers)] /\ chain'[r] = c
        /\ \A q \in Requests \ {r} : chain'[q] = chain[q] /\ kind'[q] = kind[q]
    BY <2>1, <2>2 DEF LogInv, LogTypeOK, c
  <2>7. Proceed(r, c, 1, breaker, <<>>) /\ chunks' = chunks
    BY <1>1, <2>1 DEF c, Start
  <2> QED BY <2>2, <2>3, <2>4, <2>5, <2>6, <2>7, ProceedLists
<1>2. ASSUME NEW r \in Requests, GiveUp(r) PROVE LogInv'
  <2> DEFINE c == chain[r]  i == idx[r] + 1  t == Append(tried[r], Current(r))
  <2>1. /\ Proceed(r, c, i, Failed(r), t) /\ chunks' = chunks
        /\ pc[r] = "calling" /\ kind[r] # "embed" /\ chain' = chain /\ kind' = kind
    BY <1>2 DEF GiveUp
  <2>2. /\ c \in Seq(Providers) /\ idx[r] \in 1..Len(c) /\ c[idx[r]] \in Registered
        /\ Current(r) = c[idx[r]]
    BY <2>1 DEF LogInv, LogTypeOK, Listed, Waiting, Current
  <2>3. tried[r] = OnlyRegistered(SubSeq(c, 1, idx[r] - 1))
    BY <2>1 DEF LogInv, Listed, Waiting
  <2>4. i \in 1..(Len(c) + 1) /\ i - 1 = idx[r] /\ idx[r] \in 0..Len(c)
    BY <2>2
  <2>5. t = OnlyRegistered(SubSeq(c, 1, i - 1))
    BY <2>2, <2>3, <2>4, ListsNext
  <2>6. /\ chain' \in [Requests -> Seq(Providers)] /\ chain'[r] = c
        /\ \A q \in Requests \ {r} : chain'[q] = chain[q] /\ kind'[q] = kind[q]
    BY <2>1 DEF LogInv, LogTypeOK
  <2> HIDE DEF c, i, t
  <2> QED BY <2>1, <2>2, <2>4, <2>5, <2>6, ProceedLists
<1>3. ASSUME NEW r \in Requests, StartEmbed(r) PROVE LogInv'
  <2>1. /\ kind'[r] = "embed" /\ pc'[r] \in {"calling", "embedFailed"} /\ UNCHANGED <<tried, chunks>>
        /\ idx'[r] = 1 /\ chain'[r] = <<EmbeddingProvider>>
        /\ \A q \in Requests \ {r} : /\ pc'[q] = pc[q] /\ kind'[q] = kind[q]
                                     /\ idx'[q] = idx[q] /\ chain'[q] = chain[q]
    BY <1>3 DEF StartEmbed
  <2>2. <<EmbeddingProvider>> \in Seq(Providers) /\ Len(<<EmbeddingProvider>>) = 1
    BY ProvidersAssumption
  <2>3. chain' \in [Requests -> Seq(Providers)]
    BY <1>3, <2>2 DEF StartEmbed, LogInv, LogTypeOK
  <2>4. LogTypeOK'
    <3>1. ASSUME NEW q \in Requests PROVE idx'[q] \in 0..Len(chain'[q])
      <4>1. idx'[r] \in 0..Len(chain'[r])
        BY <2>1, <2>2
      <4>2. idx[q] \in 0..Len(chain[q])
        BY DEF LogInv, LogTypeOK
      <4>3. CASE q = r
        BY <4>1, <4>3
      <4>4. CASE q # r
        <5>1. idx'[q] = idx[q] /\ chain'[q] = chain[q]
          BY <2>1, <4>4
        <5> QED BY <5>1, <4>2
      <4> QED BY <4>3, <4>4
    <3> QED BY <2>1, <2>3, <3>1 DEF LogInv, LogTypeOK, ReportInv
  <2>5. \A q \in Requests : Listed(q)'
    BY <2>1 DEF LogInv, Listed, Waiting
  <2> QED BY <2>4, <2>5 DEF LogInv
<1>4. ASSUME NEW r \in Requests,
             EmbedReturns(r) \/ ProviderOk(r) \/ RetryLater(r) \/ Retry(r)
      PROVE  LogInv'
  <2>1. /\ UNCHANGED <<kind, chain, idx, tried, fell, chunks>>
        /\ pc[r] \in Waiting /\ \A q \in Requests \ {r} : pc'[q] = pc[q]
        /\ pc'[r] \notin {"idle", "exhausted"}
    BY <1>4 DEF EmbedReturns, ProviderOk, RetryLater, Retry, Waiting
  <2> QED BY <2>1 DEF LogInv, LogTypeOK, Listed, Waiting
<1>5. ASSUME NEW r \in Requests, Chunk(r) PROVE LogInv'
  <2>1. Current(r) \in Registered /\ chunks' = [chunks EXCEPT ![r] = Append(@, Current(r))]
    BY <1>5 DEF Chunk, Waiting
  <2>2. chunks' \in [Requests -> Seq(Registered)]
    BY <2>1 DEF LogInv, LogTypeOK
  <2>3. UNCHANGED <<pc, kind, chain, idx, tried, fell>>
    BY <1>5 DEF Chunk
  <2> QED BY <2>2, <2>3 DEF LogInv, LogTypeOK, Listed
<1>6. CASE Tick \/ UNCHANGED vars
  BY <1>6 DEF Tick, vars, reqVars, LogInv, LogTypeOK, Listed
<1> QED BY <1>1, <1>2, <1>3, <1>4, <1>5, <1>6 DEF Next, Step, Terminated

\* LogInv is an invariant of the router.
LEMMA LogInvHolds == Spec => [](IInv /\ ReportInv /\ LogInv)
<1>1. Init => ReportInv
  BY DEF Init, ReportInv, Reported
<1>2. Init => LogInv
  BY DEF Init, LogInv, LogTypeOK, Listed, Waiting
<1>3. IInv /\ ReportInv /\ LogInv /\ [Next]_vars => ReportInv' /\ LogInv'
  BY NextReports, NextLists
<1> QED BY <1>1, <1>2, <1>3, IInvHolds, PTL DEF Spec

\* The breakers, the requests' control state and their logs keep their types; a
\* request never makes more than maxRetries attempts with one provider.
THEOREM RouterTypes == Spec => []TypeOK
<1>1. IInv /\ ReportInv /\ LogInv => TypeOK
  BY DEF IInv, LogInv, TypeOK
<1> QED BY <1>1, LogInvHolds, PTL

\* Whatever the breakers skip and other requests do to them meanwhile, the
\* exception of a request that ran out of providers names all registered ones of
\* its chain, in order.
THEOREM ExhaustedNamesAllHolds == Spec => []ExhaustedNamesAll
<1>1. IInv /\ ReportInv /\ LogInv => ExhaustedNamesAll
  BY DEF LogInv, Listed, ExhaustedNamesAll
<1> QED BY <1>1, LogInvHolds, PTL
=============================================================================
