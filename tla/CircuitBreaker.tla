---------------------------- MODULE CircuitBreaker ----------------------------
(***************************************************************************)
(* system/circuit_breaker.py: callers in threads share a breaker.  The     *)
(* lock covers the look at the state and the count of a result, not the    *)
(* call itself, so results arrive late, when the state is another one.     *)
(***************************************************************************)
EXTENDS Naturals, FiniteSets

CONSTANTS
    Callers,
    FailureThreshold,   \* failure_threshold
    MaxFailures         \* bound: failures that are counted

ASSUME BreakerAssumption ==
    FailureThreshold \in Nat \ {0} /\ MaxFailures \in Nat /\ FailureThreshold <= MaxFailures

VARIABLES
    circuit,   \* CLOSED, OPEN or HALF_OPEN
    failures,  \* _failures
    waited,    \* recovery_timeout has passed since the last failure
    calls,     \* caller -> "idle", "calling", or "doomed": a call that may fail
    healthy    \* from now on what is called works

breakerVars == <<circuit, failures, waited, calls, healthy>>

BreakerInit ==
    /\ circuit = "CLOSED" /\ failures = 0 /\ waited = FALSE
    /\ calls = [c \in Callers |-> "idle"]
    /\ healthy = FALSE

\* An open circuit refuses, or lets the caller probe when it has waited; a
\* half-open one refuses nobody.
EnterCall(c) ==
    /\ calls[c] = "idle"
    /\ circuit # "OPEN" \/ waited
    /\ circuit' = IF circuit = "OPEN" THEN "HALF_OPEN" ELSE circuit
    /\ calls' = [calls EXCEPT ![c] = IF healthy THEN "calling" ELSE "doomed"]
    /\ UNCHANGED <<failures, waited, healthy>>

\* Bug: a probe that succeeds does not close the circuit.
StateAfterSuccessKept == circuit
StateAfterSuccess == IF circuit = "HALF_OPEN" THEN "CLOSED" ELSE circuit

CallSucceeds(c) ==
    /\ calls[c] # "idle"
    /\ circuit' = StateAfterSuccess
    /\ failures' = IF circuit = "OPEN" THEN failures ELSE 0
    /\ calls' = [calls EXCEPT ![c] = "idle"]
    /\ UNCHANGED <<waited, healthy>>

Opens(n) == circuit = "HALF_OPEN" \/ n >= FailureThreshold

CallFails(c) ==
    /\ calls[c] = "doomed" /\ failures < MaxFailures
    /\ failures' = failures + 1
    /\ circuit' = IF Opens(failures + 1) THEN "OPEN" ELSE circuit
    /\ waited' = FALSE
    /\ calls' = [calls EXCEPT ![c] = "idle"]
    /\ UNCHANGED healthy

\* An excluded exception is passed on and not counted.
CallExcluded(c) ==
    /\ calls[c] = "doomed"
    /\ calls' = [calls EXCEPT ![c] = "idle"]
    /\ UNCHANGED <<circuit, failures, waited, healthy>>

RecoveryTimeout ==
    /\ ~waited
    /\ waited' = TRUE
    /\ UNCHANGED <<circuit, failures, calls, healthy>>

Heals ==
    /\ ~healthy
    /\ healthy' = TRUE
    /\ UNCHANGED <<circuit, failures, waited, calls>>

ReturnCall(c) == CallSucceeds(c) \/ CallFails(c) \/ CallExcluded(c)

BreakerNext ==
    \/ \E c \in Callers : EnterCall(c) \/ CallSucceeds(c) \/ CallFails(c) \/ CallExcluded(c)
    \/ RecoveryTimeout \/ Heals

-----------------------------------------------------------------------------
(* Properties *)

\* When what is called works again and callers keep calling, the circuit closes and
\* in the end stays closed, whatever late failures the calls from before still bring
\* (circuit_breaker.py:53-58, 84-90).
BreakerSettles == <>healthy => <>[](circuit = "CLOSED")

\* The docstring (circuit_breaker.py:9): "HALF-OPEN: Single probe request allowed."
SingleProbe == circuit = "HALF_OPEN" => Cardinality({c \in Callers : calls[c] # "idle"}) <= 1
=============================================================================
