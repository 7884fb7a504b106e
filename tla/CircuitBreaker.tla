--------------------------- MODULE CircuitBreaker ---------------------------
(***************************************************************************)
(* The circuit breaker of circuit-breaker.service.ts and of                *)
(* circuit_breaker.go.  A method runs to its end on the event loop, and    *)
(* holds cb.mu throughout in Go, so each is one atomic step; what          *)
(* interleaves is the methods themselves, called by the requests and by    *)
(* the health probe.  RecordSuccess and Reset are Go's, which leave the    *)
(* time of the last failure alone; NestManager has the others.             *)
(*                                                                         *)
(* Two abstractions of data, both exact for the comparisons the code makes *)
(*   - failureCount is only ever compared with failureThreshold, so it is  *)
(*     kept saturated at FailureThreshold;                                 *)
(*   - lastFailure is only ever read as time.Since(lastFailure) >=         *)
(*     resetTimeout, so it is kept as the age sinceFailure, in ticks,      *)
(*     saturated at ResetTimeout.                                          *)
(***************************************************************************)
EXTENDS Naturals

CONSTANTS
    FailureThreshold,   \* CB_FAILURE_THRESHOLD, 3 by default
    ResetTimeout        \* CB_RESET_TIMEOUT_SEC, in clock ticks

ASSUME CircuitAssumption ==
    /\ FailureThreshold \in Nat \ {0}
    /\ ResetTimeout \in Nat

VARIABLES
    cbState,        \* cb.state
    failureCount,   \* cb.failureCount, saturated
    sinceFailure    \* the age of cb.lastFailure, saturated

cbVars == <<cbState, failureCount, sinceFailure>>

CircuitState == {"CLOSED", "OPEN", "HALF_OPEN"}

Saturate(n, bound) == IF n > bound THEN bound ELSE n

CBTypeOK ==
    /\ cbState \in CircuitState
    /\ failureCount \in 0 .. FailureThreshold
    /\ sinceFailure \in 0 .. ResetTimeout

\* NewCircuitBreaker: the zero time.Time lies further back than any timeout.
CBInit ==
    /\ cbState = "CLOSED"
    /\ failureCount = 0
    /\ sinceFailure = ResetTimeout

-----------------------------------------------------------------------------

\* What State() returns now: an OPEN breaker whose last failure is old enough
\* has turned HALF_OPEN.
Observed ==
    IF cbState = "OPEN" /\ sinceFailure >= ResetTimeout
    THEN "HALF_OPEN"
    ELSE cbState

\* Mutant: the switch to HALF_OPEN forgets the failures counted so far.
StateMutant ==
    /\ cbState' = Observed
    /\ failureCount' = IF cbState = Observed THEN failureCount ELSE 0
    /\ UNCHANGED sinceFailure

\* State() is not a pure read: it performs the switch it reports.
State ==
    /\ cbState' = Observed
    /\ UNCHANGED <<failureCount, sinceFailure>>

RecordSuccess ==
    /\ cbState' = "CLOSED"
    /\ failureCount' = 0
    /\ UNCHANGED sinceFailure

\* The failure is counted and stamped whatever the state.
RecordFailure ==
    /\ failureCount' = Saturate(failureCount + 1, FailureThreshold)
    /\ sinceFailure' = 0
    /\ cbState' = IF failureCount' >= FailureThreshold THEN "OPEN" ELSE cbState

\* Mutant: the breaker is closed but keeps its failures.
ResetMutant ==
    /\ cbState' = "CLOSED"
    /\ UNCHANGED <<failureCount, sinceFailure>>

Reset ==
    /\ cbState' = "CLOSED"
    /\ failureCount' = 0
    /\ UNCHANGED sinceFailure

\* The monotonic clock behind time.Since.
ClockTick ==
    /\ sinceFailure < ResetTimeout
    /\ sinceFailure' = sinceFailure + 1
    /\ UNCHANGED <<cbState, failureCount>>

CBNext == State \/ RecordSuccess \/ RecordFailure \/ Reset \/ ClockTick

CBSpec == CBInit /\ [][CBNext]_cbVars

-----------------------------------------------------------------------------

(***************************************************************************)
(* The breaker is away from CLOSED exactly when the failures recorded      *)
(* since the last success or reset have reached the threshold.  "Probe     *)
(* failure -> OPEN again" rests on it: it is because HALF_OPEN keeps the   *)
(* count that a single failure re-opens the breaker.                       *)
(***************************************************************************)
CircuitCountsFailures ==
    (cbState # "CLOSED") <=> (failureCount = FailureThreshold)

=============================================================================
