--------------------------- MODULE CircuitBreaker ---------------------------
(* The circuit breaker every stream goroutine of the SIEM forwarder shares    *)
(* (siem-forwarder/resilience.go).  Each method runs under cb.mu, so each is  *)
(* one step of whoever calls it; the calling goroutine is modelled in         *)
(* SiemForwarder.                                                             *)
(*                                                                            *)
(* Time is reduced to the one comparison the code makes: `cooled` says        *)
(* whether time.Since(lastFailureTime) >= openTimeout.  A recorded failure    *)
(* moves lastFailureTime to now and makes it FALSE, the passing of time       *)
(* makes it TRUE.                                                             *)
EXTENDS Naturals

CONSTANTS FailureThreshold,   \* consecutive failed flushes that trip the breaker
          SuccessThreshold    \* successes in half-open that close it

\* NewCircuitBreaker replaces zero and negative thresholds by defaults.
ASSUME ThresholdAssumption ==
    /\ FailureThreshold \in Nat \ {0}
    /\ SuccessThreshold \in Nat \ {0}

VARIABLES cbState, failureCount, successCount, cooled

cbVars == <<cbState, failureCount, successCount, cooled>>

CircuitStates == {"closed", "open", "half-open"}

BreakerInit == cbState = "closed" /\ failureCount = 0 /\ successCount = 0 /\ cooled = TRUE

\* A new process makes a new breaker.
BreakerNew == cbState' = "closed" /\ failureCount' = 0 /\ successCount' = 0 /\ cooled' = TRUE

----------------------------------------------------------------------------
\* What Allow() answers in the current state.
Allowed == cbState # "open" \/ cooled

\* Allow() answering yes: an open breaker whose cooldown is over becomes half-open.
AdmitFlush ==
    /\ Allowed
    /\ IF cbState = "open"
       THEN cbState' = "half-open" /\ successCount' = 0
       ELSE UNCHANGED <<cbState, successCount>>
    /\ UNCHANGED <<failureCount, cooled>>

\* Allow() answering no changes nothing.
RejectFlush == ~Allowed /\ UNCHANGED cbVars

\* Mutant: the breaker closes and keeps the failures that tripped it.
CloseWithoutReset ==
    /\ cbState = "half-open"
    /\ IF successCount + 1 >= SuccessThreshold
       THEN cbState' = "closed" /\ successCount' = 0 /\ UNCHANGED failureCount
       ELSE successCount' = successCount + 1 /\ UNCHANGED <<cbState, failureCount>>

SuccessInHalfOpen ==
    /\ cbState = "half-open"
    /\ IF successCount + 1 >= SuccessThreshold
       THEN cbState' = "closed" /\ failureCount' = 0 /\ successCount' = 0
       ELSE successCount' = successCount + 1 /\ UNCHANGED <<cbState, failureCount>>

RecordSuccess ==
    /\ \/ SuccessInHalfOpen
       \/ cbState = "closed" /\ failureCount' = 0 /\ UNCHANGED <<cbState, successCount>>
       \/ cbState = "open" /\ UNCHANGED <<cbState, failureCount, successCount>>
    /\ UNCHANGED cooled

FailureInClosed ==
    /\ cbState = "closed"
    /\ failureCount' = failureCount + 1
    /\ cbState' = IF failureCount + 1 >= FailureThreshold THEN "open" ELSE "closed"

\* lastFailureTime is refreshed in every state, an already open breaker included.
RecordFailure ==
    /\ \/ FailureInClosed
       \/ cbState = "half-open" /\ cbState' = "open" /\ UNCHANGED failureCount
       \/ cbState = "open" /\ UNCHANGED <<cbState, failureCount>>
    /\ cooled' = FALSE
    /\ UNCHANGED successCount

\* openTimeout has elapsed since the last failure.
CoolDown == ~cooled /\ cooled' = TRUE /\ UNCHANGED <<cbState, failureCount, successCount>>

----------------------------------------------------------------------------
BreakerTypeOK ==
    /\ cbState \in CircuitStates
    /\ failureCount \in 0..FailureThreshold
    /\ successCount \in 0..SuccessThreshold
    /\ cooled \in BOOLEAN

(* The counters agree with the state they were kept for: a closed breaker is  *)
(* strictly below its failure threshold, an open or half-open one was tripped *)
(* by reaching it (failureCount is only reset when the breaker closes, and    *)
(* not when it goes half-open, resilience.go 123-126), and successes are      *)
(* counted only in half-open and strictly below the success threshold.  A     *)
(* late result of a flush admitted in an earlier state must not break this.   *)
BreakerCountersAgree ==
    /\ cbState = "closed" => failureCount < FailureThreshold /\ successCount = 0
    /\ cbState \in {"open", "half-open"} => failureCount = FailureThreshold
    /\ successCount < SuccessThreshold
=============================================================================
