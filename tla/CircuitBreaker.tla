--------------------------- MODULE CircuitBreaker ---------------------------
(* The three-state breaker of core/circuit_breaker.py, as operators on one *)
(* breaker record: what a call, its success, its failure and the passing   *)
(* of time make of it.  Its lock covers no await that suspends, so each is *)
(* one step of whoever calls it; MarketQuotes composes them.  trip() and   *)
(* reset() are reached only by an endpoint that builds a fresh             *)
(* MarketService, and so a fresh breaker, for the call: no breaker in use  *)
(* sees them.                                                              *)
EXTENDS Naturals

CONSTANTS
    FailureThreshold,   \* failures in a row that open it
    RecoveryTimeout,    \* time it stays open after the last failure
    ProbeSuccesses      \* successes while half open that close it

ASSUME BreakerAssumption ==
    /\ FailureThreshold \in Nat \ {0}
    /\ RecoveryTimeout \in Nat \ {0}
    /\ ProbeSuccesses \in Nat \ {0}

\* `quiet` is the time since last_failure_time, counted up to RecoveryTimeout.
BreakerRecord ==
    [state : {"CLOSED", "OPEN", "HALF_OPEN"}, failures : 0..FailureThreshold,
     successes : 0..ProbeSuccesses, quiet : 0..RecoveryTimeout]

NewBreaker ==
    [state |-> "CLOSED", failures |-> 0, successes |-> 0, quiet |-> RecoveryTimeout]

\* Fault: the recovery timeout is compared the wrong way round.
ProbedTooLate(b) ==
    IF b.state = "OPEN" /\ b.quiet > RecoveryTimeout
    THEN [b EXCEPT !.state = "HALF_OPEN", !.successes = 0] ELSE b

\* _update_state_if_needed: reading the state is what makes it half open.
Probed(b) ==
    IF b.state = "OPEN" /\ b.quiet = RecoveryTimeout
    THEN [b EXCEPT !.state = "HALF_OPEN", !.successes = 0] ELSE b

\* A success counts by the state it finds, not by the one it was admitted in.
OnSuccess(b) ==
    CASE b.state = "HALF_OPEN" /\ b.successes + 1 >= ProbeSuccesses ->
           [b EXCEPT !.state = "CLOSED", !.failures = 0, !.successes = 0]
      [] b.state = "HALF_OPEN" /\ b.successes + 1 < ProbeSuccesses ->
           [b EXCEPT !.successes = @ + 1]
      [] b.state = "CLOSED" -> [b EXCEPT !.failures = 0]
      [] OTHER -> b

\* Fault: the threshold is passed before the breaker opens.
OnFailureOneMore(b) ==
    LET late == [b EXCEPT !.quiet = 0] IN
    CASE b.state = "HALF_OPEN" -> [late EXCEPT !.state = "OPEN"]
      [] b.state = "CLOSED" /\ b.failures + 1 > FailureThreshold ->
           [late EXCEPT !.state = "OPEN", !.failures = @ + 1]
      [] b.state = "CLOSED" /\ b.failures + 1 <= FailureThreshold ->
           [late EXCEPT !.failures = @ + 1]
      [] OTHER -> late

\* Every failure restarts the timeout, those that end after it opened too.
OnFailure(b) ==
    LET late == [b EXCEPT !.quiet = 0] IN
    CASE b.state = "HALF_OPEN" -> [late EXCEPT !.state = "OPEN"]
      [] b.state = "CLOSED" /\ b.failures + 1 >= FailureThreshold ->
           [late EXCEPT !.state = "OPEN", !.failures = @ + 1]
      [] b.state = "CLOSED" /\ b.failures + 1 < FailureThreshold ->
           [late EXCEPT !.failures = @ + 1]
      [] OTHER -> late

Aged(b) == [b EXCEPT !.quiet = @ + 1]
=============================================================================
