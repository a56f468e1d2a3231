--------------------------- MODULE CircuitBreaker ---------------------------
(***************************************************************************)
(* The per-provider circuit breaker of internal/circuitbreaker/breaker.go. *)
(*                                                                         *)
(* Every method of Breaker holds b.mu for its whole body, so each one is   *)
(* an atomic function from a breaker to a breaker; this module defines     *)
(* those functions and the modules that own breakers apply them in their   *)
(* actions.                                                                *)
(*                                                                         *)
(* Two unbounded quantities are kept only as far as the code compares      *)
(* them.  The code reads the clock only as now - lastStateChange against   *)
(* cooldown, so a breaker keeps `since', the ticks since the last state    *)
(* change, up to Cooldown.  It reads consecutiveFailures only against the  *)
(* threshold, so the count saturates at FailureThreshold.  totalTrips and  *)
(* lastFailure are only displayed and are left out.                        *)
(***************************************************************************)
EXTENDS Integers

CONSTANTS FailureThreshold, \* consecutive failures that trip a breaker
          Cooldown          \* ticks an open breaker stays open

\* NewBreaker replaces a threshold or a cooldown that is not positive.
ASSUME BreakerAssumption ==
    /\ FailureThreshold \in Nat \ {0}
    /\ Cooldown \in Nat \ {0}

BreakerStates == {"closed", "open", "half-open"}

Breaker == [state : BreakerStates,
            consecutiveFailures : 0 .. FailureThreshold,
            since : 0 .. Cooldown,
            probeInFlight : BOOLEAN]

NewBreaker == [state |-> "closed", consecutiveFailures |-> 0,
               since |-> 0, probeInFlight |-> FALSE]

CooldownOver(b) == b.since >= Cooldown

\* The value Allow returns.
Allows(b) == \/ b.state = "closed"
             \/ b.state = "open" /\ CooldownOver(b)
             \/ b.state = "half-open" /\ ~b.probeInFlight

\* Mutants of AfterAllow: a breaker that forgets that its probe is out, and
\* one that admits the probe without leaving the open state.
AfterAllowForgetsProbe(b) ==
    IF b.state = "open" THEN [b EXCEPT !.state = "half-open", !.since = 0] ELSE b

AfterAllowStaysOpen(b) ==
    IF b.state = "closed" THEN b ELSE [b EXCEPT !.since = 0]

\* The breaker after an Allow that returned true.
AfterAllow(b) ==
    CASE b.state = "closed" -> b
      [] b.state = "open" ->
            [b EXCEPT !.state = "half-open", !.since = 0, !.probeInFlight = TRUE]
      [] b.state = "half-open" -> [b EXCEPT !.probeInFlight = TRUE]

RecordSuccess(b) ==
    [b EXCEPT !.consecutiveFailures = 0,
              !.probeInFlight = FALSE,
              !.state = "closed",
              !.since = IF b.state = "closed" THEN @ ELSE 0]

\* Mutant of RecordFailure: the failed probe leaves probeInFlight set.
RecordFailureKeepsProbe(b) ==
    LET failures == IF b.consecutiveFailures < FailureThreshold
                    THEN b.consecutiveFailures + 1 ELSE FailureThreshold
        trips == \/ b.state = "closed" /\ failures >= FailureThreshold
                 \/ b.state = "half-open"
    IN  [b EXCEPT !.consecutiveFailures = failures,
                  !.state = IF trips THEN "open" ELSE @,
                  !.since = IF trips THEN 0 ELSE @]

RecordFailure(b) ==
    LET failures == IF b.consecutiveFailures < FailureThreshold
                    THEN b.consecutiveFailures + 1 ELSE FailureThreshold
        trips == \/ b.state = "closed" /\ failures >= FailureThreshold
                 \/ b.state = "half-open"
    IN  [b EXCEPT !.consecutiveFailures = failures,
                  !.probeInFlight = FALSE,
                  !.state = IF trips THEN "open" ELSE @,
                  !.since = IF trips THEN 0 ELSE @]

\* One tick of the clock, as far as this breaker can tell.
Aged(b) == [b EXCEPT !.since = IF @ < Cooldown THEN @ + 1 ELSE @]

\* The fields of a breaker agree with each other.
Consistent(b) == /\ b.probeInFlight <=> b.state = "half-open"
                 /\ b.state = "closed" => b.consecutiveFailures < FailureThreshold

=============================================================================
