--------------------------- MODULE BreakerContract ---------------------------
(***************************************************************************)
(* What the comment on Breaker (internal/circuitbreaker/breaker.go, 49-53  *)
(* and 85-94) promises the callers of one breaker, with neither clock nor  *)
(* failure count: requests pass while it is closed; it opens; from open    *)
(* exactly one request is let through, which makes it half-open; in        *)
(* half-open nothing more is let through until a result moves it on.       *)
(* A success recorded in any state closes it.                              *)
(***************************************************************************)
EXTENDS Naturals

VARIABLES state,  \* "closed", "open" or "half-open"
          probes  \* requests let through since the breaker was last closed
                  \* or last opened

contractVars == <<state, probes>>

ContractInit == state = "closed" /\ probes = 0

\* A closed breaker opens, or a result sends a half-open one back to open.
Trip == state \in {"closed", "half-open"} /\ state' = "open" /\ probes' = 0

\* The open breaker lets its single probe through.
Probe == state = "open" /\ state' = "half-open" /\ probes' = 1

\* A recorded success.
Reset == state # "closed" /\ state' = "closed" /\ probes' = 0

ContractNext == Trip \/ Probe \/ Reset

ContractSpec == ContractInit /\ [][ContractNext]_contractVars
=============================================================================
