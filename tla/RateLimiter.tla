---------------------------- MODULE RateLimiter ----------------------------
(***************************************************************************)
(* The keyed limiter of internal/ratelimit/limiter.go, shared by           *)
(* concurrent requests: the login, proxy-key and per-IP limiters of        *)
(* cmd/serve.go are instances.                                             *)
(*                                                                         *)
(* Allow reads the clock, then takes the mutex: two steps, so calls may    *)
(* enter the critical section in another order than their times.  MaxSkew  *)
(* bounds the ticks between the two.                                       *)
(***************************************************************************)
EXTENDS TokenBucket

CONSTANTS Keys,         \* client addresses or proxy keys
          Callers,      \* concurrent calls of Allow
          IdleTTL,      \* idleTTL, in ticks
          CleanupEvery, \* cleanupEvery, in ticks
          MaxSkew,      \* longest wait for the mutex, in ticks
          MaxClock      \* end of the modelled time

\* A bucket is full again before it can be forgotten.
ASSUME LimiterAssumption ==
    /\ IdleTTL \in Nat /\ CleanupEvery \in Nat /\ MaxSkew \in Nat /\ MaxClock \in Nat
    /\ IdleTTL - 2 * MaxSkew >= Burst

VARIABLES clock,
          entries,     \* the buckets of the keys that have one
          lastCleanup, \* lastCleanupAt; -1 is the zero time
          caller,      \* the calls under way
          spent        \* history: units taken from the buckets of each key

limiterVars == <<clock, entries, lastCleanup, caller, spent>>

NoCall == [busy |-> FALSE]

Calls == [busy : {TRUE}, key : Keys, now : Nat]

LimiterTypeOK ==
    /\ clock \in Nat
    /\ DOMAIN entries \subseteq Keys
    /\ \A k \in DOMAIN entries : entries[k] \in Bucket
    /\ lastCleanup \in Nat \union {-1}
    /\ caller \in [Callers -> Calls \union {NoCall}]
    /\ spent \in [Keys -> Nat]

LimiterInit ==
    /\ clock = 0
    /\ entries = [k \in {} |-> NewBucket(0)]
    /\ lastCleanup = -1
    /\ caller = [c \in Callers |-> NoCall]
    /\ spent = [k \in Keys |-> 0]

-----------------------------------------------------------------------------
\* now := l.now()
ReadClock(c, k) ==
    /\ ~caller[c].busy
    /\ caller' = [caller EXCEPT ![c] = [busy |-> TRUE, key |-> k, now |-> clock]]
    /\ UNCHANGED <<clock, entries, lastCleanup, spent>>

CleanupDue(now) == lastCleanup = -1 \/ now - lastCleanup >= CleanupEvery

Idle(b, now) == now - b.lastSeen > IdleTTL

\* The keys whose buckets remain after the cleanup that is due, if any.
Kept(now) == {k \in DOMAIN entries : ~(CleanupDue(now) /\ Idle(entries[k], now))}

\* The bucket of key k as the call at time now finds it: refilled, or new.
Found(k, now) ==
    Refilled(IF k \in Kept(now) THEN entries[k] ELSE NewBucket(now), now)

\* The part of Allow under the mutex.
Allow(c) ==
    LET k == caller[c].key
        now == caller[c].now
        b == Found(k, now)
    IN  /\ caller[c].busy
        /\ entries' = [j \in Kept(now) \union {k} |->
                          IF j # k THEN entries[j]
                          ELSE IF HasToken(b) THEN Taken(b) ELSE b]
        /\ lastCleanup' = IF CleanupDue(now) THEN now ELSE lastCleanup
        /\ spent' = [spent EXCEPT ![k] = IF HasToken(b) THEN @ + Cost ELSE @]
        /\ caller' = [caller EXCEPT ![c] = NoCall]
        /\ UNCHANGED clock

Tick ==
    /\ clock < MaxClock
    /\ \A c \in Callers : caller[c].busy => clock - caller[c].now < MaxSkew
    /\ clock' = clock + 1
    /\ UNCHANGED <<entries, lastCleanup, caller, spent>>

LimiterNext == \/ \E c \in Callers : Allow(c) \/ \E k \in Keys : ReadClock(c, k)
               \/ Tick

LimiterSpec == LimiterInit /\ [][LimiterNext]_limiterVars

-----------------------------------------------------------------------------
(* Properties. *)

\* What a key was allowed never exceeds one burst plus what its rate has earned
\* since the start: neither overlapping calls whose times are out of order, nor
\* the eviction of idle buckets, give a key more than its limit.
WithinRate == \A k \in Keys : spent[k] <= Burst + clock

=============================================================================
