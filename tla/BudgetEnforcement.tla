------------------------- MODULE BudgetEnforcement -------------------------
(***************************************************************************)
(* Spend limits: the pre-flight check of internal/proxy/budget.go, the     *)
(* request log it adds up (internal/store/sqlite_budgets.go), and the      *)
(* maintenance loop that prunes that log (internal/app/runtime.go).        *)
(*                                                                         *)
(* What a request costs is only known at its end, and reaches the store    *)
(* through the asynchronous logger.  Until then no check sees it: this     *)
(* module is about how far spending can pass a limit on that account.      *)
(*                                                                         *)
(* Every entry costs one unit, the most a request can cost.  The ledger    *)
(* numbers the entries as they are stamped; the queue, the writer and the  *)
(* table hold their numbers.  Periods are PeriodLength ticks long.         *)
(***************************************************************************)
EXTENDS Integers, Sequences, FiniteSets

CONSTANTS Slots,        \* handler goroutines
          BudgetKeys,   \* proxy keys
          Scopes,       \* budgets: a key's, a user's, a team's, the global one
          Members,      \* the keys whose spend a scope adds up
          Budgets,      \* the scopes that apply to a key, in the query's order
          Limit,        \* limit_usd of each scope, in units
          PeriodLength, \* ticks in a budget period
          Retention,    \* request_log_retention, in ticks; 0 disables pruning
          BatchSize,    \* rows a prune statement deletes at most
          BufferSize,   \* capacity of the logger's channel
          MaxEntries,   \* bound on the entries of a behaviour
          MaxErrors,    \* bound on the failed statements of a behaviour
          BudgetMaxClock \* end of the modelled time

BudgetAssumption ==
    /\ Members \in [Scopes -> SUBSET BudgetKeys]
    /\ Budgets \in [BudgetKeys -> Seq(Scopes)]
    /\ \A k \in BudgetKeys, b \in Scopes :
          k \in Members[b] <=> \E n \in DOMAIN Budgets[k] : Budgets[k][n] = b
    /\ Limit \in [Scopes -> Nat \ {0}]
    /\ PeriodLength \in Nat \ {0}
    /\ Retention \in Nat
    /\ BatchSize \in Nat \ {0}
    /\ BufferSize \in Nat
    /\ MaxEntries \in Nat /\ MaxErrors \in Nat /\ BudgetMaxClock \in Nat

VARIABLES budgetClock,
          slot,    \* the request each goroutine is serving
          ledger,  \* history: every entry that was stamped
          queue,   \* the logger's channel
          writing, \* the entry the writer goroutine holds; 0 if none
          rows,    \* the entries in request_logs
          cutoff,  \* the cutoff of the prune under way; -1 if none
          lost,    \* history: entries dropped, or whose insert failed
          waived,  \* history: requests a scope let through on an error
          errors   \* failed statements so far

budgetVars == <<budgetClock, slot, ledger, queue, writing, rows, cutoff, lost, waived, errors>>

\* A slot between requests, in the loop of Check (at the budget number `at'),
\* in the pipeline, and in AsyncLogger.Log.
IdleSlot == [pc |-> "idle"]
Checking(k, t) == [pc |-> "check", key |-> k, now |-> t, at |-> 1]
Forwarding(k) == [pc |-> "forward", key |-> k]
Logging(n) == [pc |-> "log", entry |-> n]

Requests == {IdleSlot}
            \union [pc : {"check"}, key : BudgetKeys, now : Nat, at : Nat]
            \union [pc : {"forward"}, key : BudgetKeys]
            \union [pc : {"log"}, entry : Nat]

BudgetTypeOK ==
    /\ budgetClock \in Nat
    /\ slot \in [Slots -> Requests]
    /\ ledger \in Seq([key : BudgetKeys, ts : Nat])
    /\ queue \in Seq(DOMAIN ledger)
    /\ Len(queue) <= BufferSize
    /\ writing \in {0} \union DOMAIN ledger
    /\ rows \subseteq DOMAIN ledger
    /\ cutoff \in Int
    /\ lost \subseteq DOMAIN ledger
    /\ waived \in [Scopes -> Nat]
    /\ errors \in Nat

BudgetInit ==
    /\ budgetClock = 0
    /\ slot = [s \in Slots |-> IdleSlot]
    /\ ledger = <<>>
    /\ queue = <<>>
    /\ writing = 0
    /\ rows = {}
    /\ cutoff = -1
    /\ lost = {}
    /\ waived = [b \in Scopes |-> 0]
    /\ errors = 0

-----------------------------------------------------------------------------
CurrentPeriodStart(t) == t - (t % PeriodLength)

\* The entries among es that scope b adds up from time t on.
Counted(es, b, t) == {n \in es : ledger[n].key \in Members[b] /\ ledger[n].ts >= t}

GetSpendSince(b, t) == Cardinality(Counted(rows, b, t))

\* The budget the loop of Check has come to.
Budget(s) == Budgets[slot[s].key][slot[s].at]
MoreBudgets(s) == slot[s].pc = "check" /\ slot[s].at <= Len(Budgets[slot[s].key])

-----------------------------------------------------------------------------
\* The bound on entries: every request that is let in may still stamp one.
RoomForEntry ==
    Len(ledger) + Cardinality({s \in Slots : slot[s].pc \in {"check", "forward"}}) < MaxEntries

\* Check begins: the budgets of the key are fetched and the clock is read.
Arrive(s, k) ==
    /\ slot[s].pc = "idle"
    /\ RoomForEntry
    /\ slot' = [slot EXCEPT ![s] = Checking(k, budgetClock)]
    /\ UNCHANGED <<budgetClock, ledger, queue, writing, rows, cutoff, lost, waived, errors>>

\* GetApplicableBudgets fails: fail open, for every scope.
BudgetsUnavailable(s, k) ==
    /\ slot[s].pc = "idle"
    /\ RoomForEntry
    /\ errors < MaxErrors
    /\ errors' = errors + 1
    /\ slot' = [slot EXCEPT ![s] = Forwarding(k)]
    /\ waived' = [b \in Scopes |-> IF k \in Members[b] THEN waived[b] + 1 ELSE waived[b]]
    /\ UNCHANGED <<budgetClock, ledger, queue, writing, rows, cutoff, lost>>

\* Mutant of Exceeded: a budget is only exceeded once spend has passed the limit.
ExceededLate(s) == GetSpendSince(Budget(s), CurrentPeriodStart(slot[s].now)) > Limit[Budget(s)]

Exceeded(s) == GetSpendSince(Budget(s), CurrentPeriodStart(slot[s].now)) >= Limit[Budget(s)]

\* One round of the loop: the request is refused, or the next budget is up.
CheckBudget(s) ==
    /\ MoreBudgets(s)
    /\ slot' = [slot EXCEPT ![s] =
                   IF Exceeded(s) THEN IdleSlot ELSE [slot[s] EXCEPT !.at = @ + 1]]
    /\ UNCHANGED <<budgetClock, ledger, queue, writing, rows, cutoff, lost, waived, errors>>

\* GetSpendSince fails: fail open, for this scope.
SpendUnavailable(s) ==
    /\ MoreBudgets(s)
    /\ errors < MaxErrors
    /\ errors' = errors + 1
    /\ waived' = [waived EXCEPT ![Budget(s)] = @ + 1]
    /\ slot' = [slot EXCEPT ![s].at = @ + 1]
    /\ UNCHANGED <<budgetClock, ledger, queue, writing, rows, cutoff, lost>>

\* No budget is left to check: the request enters the pipeline.
Forward(s) ==
    /\ slot[s].pc = "check"
    /\ ~MoreBudgets(s)
    /\ slot' = [slot EXCEPT ![s] = Forwarding(@.key)]
    /\ UNCHANGED <<budgetClock, ledger, queue, writing, rows, cutoff, lost, waived, errors>>

\* The pipeline ends with an entry that has a cost, stamped now ...
FinishWithCost(s) ==
    /\ slot[s].pc = "forward"
    /\ ledger' = Append(ledger, [key |-> slot[s].key, ts |-> budgetClock])
    /\ slot' = [slot EXCEPT ![s] = Logging(Len(ledger) + 1)]
    /\ UNCHANGED <<budgetClock, queue, writing, rows, cutoff, lost, waived, errors>>

\* ... or without one.
FinishWithoutCost(s) ==
    /\ slot[s].pc = "forward"
    /\ slot' = [slot EXCEPT ![s] = IdleSlot]
    /\ UNCHANGED <<budgetClock, ledger, queue, writing, rows, cutoff, lost, waived, errors>>

-----------------------------------------------------------------------------
\* AsyncLogger.Log hands the entry over, or gives up when the buffer stays full.
Log(s) ==
    /\ slot[s].pc = "log"
    /\ Len(queue) < BufferSize
    /\ queue' = Append(queue, slot[s].entry)
    /\ slot' = [slot EXCEPT ![s] = IdleSlot]
    /\ UNCHANGED <<budgetClock, ledger, writing, rows, cutoff, lost, waived, errors>>

LogDrops(s) ==
    /\ slot[s].pc = "log"
    /\ Len(queue) = BufferSize
    /\ lost' = lost \union {slot[s].entry}
    /\ slot' = [slot EXCEPT ![s] = IdleSlot]
    /\ UNCHANGED <<budgetClock, ledger, queue, writing, rows, cutoff, waived, errors>>

\* The writer goroutine takes an entry and inserts it.
Take ==
    /\ writing = 0
    /\ queue # <<>>
    /\ writing' = Head(queue)
    /\ queue' = Tail(queue)
    /\ UNCHANGED <<budgetClock, slot, ledger, rows, cutoff, lost, waived, errors>>

InsertRequestLog ==
    /\ writing # 0
    /\ rows' = rows \union {writing}
    /\ writing' = 0
    /\ UNCHANGED <<budgetClock, slot, ledger, queue, cutoff, lost, waived, errors>>

InsertFails ==
    /\ writing # 0
    /\ errors < MaxErrors
    /\ errors' = errors + 1
    /\ lost' = lost \union {writing}
    /\ writing' = 0
    /\ UNCHANGED <<budgetClock, slot, ledger, queue, rows, cutoff, waived>>

-----------------------------------------------------------------------------
\* Mutant of Cutoff: the retention is not subtracted.
CutoffNow == budgetClock

Cutoff == budgetClock - Retention

\* The prune ticker fires and the cutoff is fixed.
PruneTick ==
    /\ Retention > 0
    /\ cutoff = -1
    /\ Cutoff >= 0
    /\ cutoff' = Cutoff
    /\ UNCHANGED <<budgetClock, slot, ledger, queue, writing, rows, lost, waived, errors>>

Expired == {n \in rows : ledger[n].ts < cutoff}

\* One DELETE, of the oldest rows; the loop ends when it was not a full batch.
PruneRequestLogs ==
    /\ cutoff # -1
    /\ \E batch \in SUBSET Expired :
          /\ Cardinality(batch) = IF Cardinality(Expired) < BatchSize
                                  THEN Cardinality(Expired) ELSE BatchSize
          /\ \A n \in batch, m \in Expired \ batch : ledger[n].ts <= ledger[m].ts
          /\ rows' = rows \ batch
          /\ cutoff' = IF Cardinality(batch) < BatchSize THEN -1 ELSE cutoff
    /\ UNCHANGED <<budgetClock, slot, ledger, queue, writing, lost, waived, errors>>

\* The DELETE fails and the loop ends.
PruneFails ==
    /\ cutoff # -1
    /\ errors < MaxErrors
    /\ errors' = errors + 1
    /\ cutoff' = -1
    /\ UNCHANGED <<budgetClock, slot, ledger, queue, writing, rows, lost, waived>>

BudgetTick ==
    /\ budgetClock < BudgetMaxClock
    /\ budgetClock' = budgetClock + 1
    /\ UNCHANGED <<slot, ledger, queue, writing, rows, cutoff, lost, waived, errors>>

RequestStep(s) ==
    \/ \E k \in BudgetKeys : Arrive(s, k) \/ BudgetsUnavailable(s, k)
    \/ CheckBudget(s)
    \/ SpendUnavailable(s)
    \/ Forward(s)
    \/ FinishWithCost(s)
    \/ FinishWithoutCost(s)
    \/ Log(s)
    \/ LogDrops(s)

BudgetNext ==
    \/ \E s \in Slots : RequestStep(s)
    \/ Take
    \/ InsertRequestLog
    \/ InsertFails
    \/ PruneTick
    \/ PruneRequestLogs
    \/ PruneFails
    \/ BudgetTick

BudgetSpec == BudgetInit /\ [][BudgetNext]_budgetVars

-----------------------------------------------------------------------------
(* Properties. *)

\* What a scope has really spent in the current period.
Spent(b) == Cardinality(Counted(DOMAIN ledger, b, CurrentPeriodStart(budgetClock)))

\* The entries of it that never reach the store.
Missed(b) == Cardinality(Counted(lost, b, CurrentPeriodStart(budgetClock)))

\* Spending passes a limit by no more than the requests that can be under way
\* at once, the entries the logger can hold, and what was lost or waived on an
\* error: however checks, completions, writes, prunes and the turn of the
\* period interleave, a budget cannot be passed without bound.
OvershootBounded ==
    \A b \in Scopes :
        Spent(b) <= Limit[b] + Cardinality(Slots) + BufferSize + Missed(b) + waived[b]

\* A request refused by a budget is told when the budget resets; until then the
\* spend that the check adds up does not fall below the limit again.
RefusedUntilReset ==
    [][\A b \in Scopes :
          /\ CurrentPeriodStart(budgetClock') = CurrentPeriodStart(budgetClock)
          /\ GetSpendSince(b, CurrentPeriodStart(budgetClock)) >= Limit[b]
          => GetSpendSince(b, CurrentPeriodStart(budgetClock))' >= Limit[b]]_budgetVars
=============================================================================
