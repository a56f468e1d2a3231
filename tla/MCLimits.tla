------------------------------ MODULE MCLimits ------------------------------
(***************************************************************************)
(* What holds a caller back, for TLC: the keyed limiter (RateLimiter), the *)
(* per-key limits on top of it (KeyRateLimiter), budgets                   *)
(* (BudgetEnforcement), and the two computations on time that budgets take *)
(* for granted, the calendar (BudgetPeriods) and the timestamps that the   *)
(* store compares as text (LogTimestamps).  KeyRateLimiter uses the        *)
(* limiter through what RateLimiter shows of it and the others share no    *)
(* state, so a behaviour is one of one of the five.                        *)
(*                                                                         *)
(* Every key is under the global budget; key b1 has one of its own too.    *)
(***************************************************************************)
EXTENDS RateLimiter, KeyRateLimiter, BudgetEnforcement, BudgetPeriods, LogTimestamps, TLC

CONSTANTS Parts, b1, MaxEntriesOnError

VARIABLE part

ASSUME BudgetsAssumption == BudgetAssumption

MCScopes == {"key", "global"}
MCMembers == [b \in MCScopes |-> IF b = "key" THEN {b1} ELSE BudgetKeys]
MCBudgets == [k \in BudgetKeys |-> IF k = b1 THEN <<"key", "global">> ELSE <<"global">>]
MCLimit == [b \in MCScopes |-> 1]

\* The parts that rest start in one state.
MCInit ==
    /\ part \in Parts
    /\ part # "keys" => limited = TRUE
    /\ part # "calendar" => month = 1 /\ weekday = 0
    /\ LimiterInit
    /\ KeyLimiterInit
    /\ BudgetInit
    /\ PeriodsInit
    /\ TimestampInit

\* Behaviours with a failed statement are followed for fewer entries.
Bounded == errors' > 0 => Len(ledger') <= MaxEntriesOnError

MCNext ==
    \/ /\ part = "limiter" /\ LimiterNext
       /\ UNCHANGED <<part, keyLimiterVars, budgetVars, periodVars, timestampVars>>
    \/ /\ part = "keys" /\ KeyLimiterNext
       /\ UNCHANGED <<part, limiterVars, budgetVars, periodVars, timestampVars>>
    \/ /\ part = "budgets" /\ BudgetNext /\ Bounded
       /\ UNCHANGED <<part, limiterVars, keyLimiterVars, periodVars, timestampVars>>
    \/ /\ part = "calendar" /\ NextDay
       /\ UNCHANGED <<part, limiterVars, keyLimiterVars, budgetVars, timestampVars>>
    \/ /\ part = "stamps" /\ TimestampNext
       /\ UNCHANGED <<part, limiterVars, keyLimiterVars, budgetVars, periodVars>>

MCSpec ==
    MCInit /\ [][MCNext]_<<part, limiterVars, keyLimiterVars, budgetVars, periodVars, timestampVars>>

LimitsSymmetry == Permutations(Callers) \union Permutations(Keys)
=============================================================================
