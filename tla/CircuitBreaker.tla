--------------------------- MODULE CircuitBreaker ---------------------------
(***************************************************************************)
(* ProviderCircuitBreaker (src/llm/circuit-breaker.ts): the per-provider    *)
(* breaker as a record and its three methods as operators on that record.  *)
(* Date.now() is the parameter `now`; the unit of time is abstract.        *)
(***************************************************************************)
EXTENDS Integers

CONSTANTS FailureThreshold,   \* cbConfig.failureThreshold
          CooldownMs          \* cbConfig.cooldownMs

ASSUME ThresholdAssumption == FailureThreshold \in Nat \ {0}
ASSUME CooldownAssumption  == CooldownMs \in Nat

CircuitState == {"CLOSED", "OPEN", "HALF_OPEN"}

Breaker == [state : CircuitState, failureCount : Nat, lastFailureTime : Nat]

NewBreaker == [state |-> "CLOSED", failureCount |-> 0, lastFailureTime |-> 0]

\* The result of isOpen(): the call to the provider is skipped.
IsOpen(b, now) ==
    /\ b.state = "OPEN"
    /\ now - b.lastFailureTime < CooldownMs

\* The side effect of isOpen(): an OPEN breaker whose cooldown has elapsed
\* becomes HALF_OPEN.
AfterIsOpen(b, now) ==
    [state           |-> IF b.state = "OPEN" /\ ~IsOpen(b, now)
                         THEN "HALF_OPEN" ELSE b.state,
     failureCount    |-> b.failureCount,
     lastFailureTime |-> b.lastFailureTime]

\* Mutant: closing the circuit forgets to reset the failure counter.
RecordSuccess_KeepsCount(b) ==
    [state |-> "CLOSED", failureCount |-> b.failureCount,
     lastFailureTime |-> b.lastFailureTime]

RecordSuccess(b) ==
    [state |-> "CLOSED", failureCount |-> 0, lastFailureTime |-> b.lastFailureTime]

\* Mutant: the threshold is compared with = instead of >=.
RecordFailure_Exactly(b, now) ==
    [state           |-> IF b.failureCount + 1 = FailureThreshold
                         THEN "OPEN" ELSE b.state,
     failureCount    |-> b.failureCount + 1,
     lastFailureTime |-> now]

\* Mutant: only a CLOSED circuit is opened by a failure.
RecordFailure_FromClosed(b, now) ==
    [state           |-> IF b.state = "CLOSED" /\ b.failureCount + 1 >= FailureThreshold
                         THEN "OPEN" ELSE b.state,
     failureCount    |-> b.failureCount + 1,
     lastFailureTime |-> now]

RecordFailure(b, now) ==
    [state           |-> IF b.failureCount + 1 >= FailureThreshold
                         THEN "OPEN" ELSE b.state,
     failureCount    |-> b.failureCount + 1,
     lastFailureTime |-> now]
=============================================================================
