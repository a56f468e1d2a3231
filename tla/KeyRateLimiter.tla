--------------------------- MODULE KeyRateLimiter ---------------------------
(***************************************************************************)
(* KeyAwareRateLimiter of internal/proxy/key_rate_limiter.go, for one      *)
(* proxy key: the global limit, and the key's own limit when it has one.   *)
(*                                                                         *)
(* The key's limit is a row of the store.  What is cached for TTL is not   *)
(* the row but a limiter built from it, bucket included; `built' is the    *)
(* heap of those limiters, in the order they were built, and 0 stands for  *)
(* the nil limiter of a key without a limit.  A call works with the        *)
(* limiter it looked up or built, whether or not that is still the cached  *)
(* one.                                                                    *)
(*                                                                         *)
(* Limiter.Allow is one step here: RateLimiter shows that neither the      *)
(* order in which calls enter it nor its cleanup changes what a bucket     *)
(* grants.                                                                 *)
(***************************************************************************)
EXTENDS Integers, Sequences

CONSTANTS KeyCallers,  \* concurrent requests with the key
          GlobalBurst, \* units of the global bucket
          GlobalCost,  \* units a request takes from it
          KeyBurst,    \* units of the key's own bucket
          KeyCost,     \* units a request takes from it
          TTL,         \* ttl, in ticks
          SweepEvery,  \* sweepInterval * ttl
          StaleAfter,  \* staleThreshold
          KeyMaxClock  \* end of the modelled time

\* Buckets that hold a request, a TTL, and the intervals of the sweep.
KeySetting ==
    /\ GlobalBurst \in Nat /\ GlobalCost \in Nat \ {0} /\ GlobalBurst >= GlobalCost
    /\ KeyBurst \in Nat /\ KeyCost \in Nat \ {0} /\ KeyBurst >= KeyCost
    /\ TTL \in Nat \ {0} /\ SweepEvery \in Nat /\ StaleAfter \in Nat

ASSUME KeyAssumption == KeySetting

VARIABLES keyClock,
          limited,    \* the store has a rate limit row for the key
          global,     \* the key's bucket in the global limiter
          built,      \* the buckets of the limiters built for the key
          cached,     \* the cache's entry for the key
          lastSweep,
          call,       \* the calls of Allow
          keySpent,   \* history: units granted by the key's own limiters
          lastFree    \* history: when the key last had no row, or a query failed

keyLimiterVars ==
    <<keyClock, limited, global, built, cached, lastSweep, call, keySpent, lastFree>>

Global == INSTANCE TokenBucket WITH Burst <- GlobalBurst, Cost <- GlobalCost
Own == INSTANCE TokenBucket WITH Burst <- KeyBurst, Cost <- KeyCost

Nil == 0
NoEntry == [present |-> FALSE]
Entries == [present : {TRUE}, limiter : Nat, fetchedAt : Nat]

\* The zero time lies more than a sweep interval, and a TTL, before the start.
ZeroTime == -(SweepEvery + TTL)

KeyCalls == [pc : {"idle", "lookup", "recheck", "fetch", "store", "take", "done"},
          now : Nat, limiter : Nat, allowed : BOOLEAN]

KeyLimiterTypeOK ==
    /\ keyClock \in Nat
    /\ limited \in BOOLEAN
    /\ global \in Global!Bucket
    /\ built \in Seq(Own!Bucket)
    /\ cached \in Entries \union {NoEntry}
    /\ cached.present => cached.limiter \in 0 .. Len(built)
    /\ lastSweep \in Int
    /\ call \in [KeyCallers -> KeyCalls]
    /\ \A c \in KeyCallers : call[c].limiter \in 0 .. Len(built)
    /\ keySpent \in Nat
    /\ lastFree \in Int

KeyLimiterInit ==
    /\ keyClock = 0
    /\ limited \in BOOLEAN
    /\ global = Global!NewBucket(0)
    /\ built = <<>>
    /\ cached = NoEntry
    /\ lastSweep = ZeroTime
    /\ call = [c \in KeyCallers |-> [pc |-> "idle", now |-> 0, limiter |-> Nil, allowed |-> FALSE]]
    /\ keySpent = 0
    /\ lastFree = IF limited THEN ZeroTime ELSE 0

-----------------------------------------------------------------------------
\* Mutant of Fresh: an entry outlives its TTL by one tick.
FreshOffByOne(now) == cached.present /\ now - cached.fetchedAt <= TTL

Fresh(now) == cached.present /\ now - cached.fetchedAt < TTL

\* evictStaleLocked.
SweepDue(now) == now - lastSweep >= SweepEvery
Swept(now) ==
    IF SweepDue(now) /\ cached.present /\ now - cached.fetchedAt > StaleAfter
    THEN NoEntry ELSE cached

-----------------------------------------------------------------------------
UnderWay(c) == call[c].pc \notin {"idle", "done"}

\* Allow begins: the global bucket decides first, and a request it refuses
\* goes no further.  Otherwise getKeyLimiter reads the clock.
Call(c) ==
    LET b == Global!Refilled(global, keyClock) IN
    /\ ~UnderWay(c)
    /\ global' = IF Global!HasToken(b) THEN Global!Taken(b) ELSE b
    /\ call' = [call EXCEPT ![c] =
                   [pc |-> IF Global!HasToken(b) THEN "lookup" ELSE "done",
                    now |-> keyClock, limiter |-> Nil, allowed |-> FALSE]]
    /\ UNCHANGED <<keyClock, limited, built, cached, lastSweep, keySpent, lastFree>>

\* The cache is read under the read lock.
Lookup(c) ==
    /\ call[c].pc = "lookup"
    /\ call' = [call EXCEPT ![c] =
                   IF Fresh(call[c].now)
                   THEN [@ EXCEPT !.pc = "take", !.limiter = cached.limiter]
                   ELSE [@ EXCEPT !.pc = "recheck"]]
    /\ UNCHANGED <<keyClock, limited, global, built, cached, lastSweep, keySpent, lastFree>>

\* Under the write lock another call's limiter is found.
RecheckHits(c) ==
    /\ call[c].pc = "recheck"
    /\ Fresh(call[c].now)
    /\ call' = [call EXCEPT ![c].pc = "take", ![c].limiter = cached.limiter]
    /\ UNCHANGED <<keyClock, limited, global, built, cached, lastSweep, keySpent, lastFree>>

\* Or there is none: stale entries are swept out and the lock is released.
RecheckMisses(c) ==
    LET now == call[c].now IN
    /\ call[c].pc = "recheck"
    /\ ~Fresh(now)
    /\ cached' = Swept(now)
    /\ lastSweep' = IF SweepDue(now) THEN now ELSE lastSweep
    /\ call' = [call EXCEPT ![c].pc = "fetch"]
    /\ UNCHANGED <<keyClock, limited, global, built, keySpent, lastFree>>

\* GetKeyRateLimit finds a row, and a limiter with a full bucket is built.
FetchLimit(c) ==
    /\ call[c].pc = "fetch"
    /\ limited
    /\ built' = Append(built, Own!NewBucket(keyClock))
    /\ call' = [call EXCEPT ![c].pc = "store", ![c].limiter = Len(built) + 1]
    /\ UNCHANGED <<keyClock, limited, global, cached, lastSweep, keySpent, lastFree>>

\* It finds none, or fails: both are cached as "no limit".
FetchNone(c) ==
    /\ call[c].pc = "fetch"
    /\ call' = [call EXCEPT ![c].pc = "store"]
    /\ lastFree' = keyClock
    /\ UNCHANGED <<keyClock, limited, global, built, cached, lastSweep, keySpent>>

\* The entry is dated by the clock as the call read it at first.
Store(c) ==
    /\ call[c].pc = "store"
    /\ cached' = [present |-> TRUE, limiter |-> call[c].limiter, fetchedAt |-> call[c].now]
    /\ call' = [call EXCEPT ![c].pc = "take"]
    /\ UNCHANGED <<keyClock, limited, global, built, lastSweep, keySpent, lastFree>>

\* A key without a limit: the global limit alone has decided.
Unlimited(c) ==
    /\ call[c].pc = "take"
    /\ call[c].limiter = Nil
    /\ call' = [call EXCEPT ![c].pc = "done", ![c].allowed = TRUE]
    /\ UNCHANGED <<keyClock, limited, global, built, cached, lastSweep, keySpent, lastFree>>

\* limiter.Allow(keyID): the bucket's first use, or a later one.
TakeKeyToken(c) ==
    LET n == call[c].limiter
        b == Own!Refilled(built[n], keyClock)
    IN  /\ call[c].pc = "take"
        /\ n # Nil
        /\ built' = [built EXCEPT ![n] = IF Own!HasToken(b) THEN Own!Taken(b) ELSE b]
        /\ keySpent' = IF Own!HasToken(b) THEN keySpent + KeyCost ELSE keySpent
        /\ call' = [call EXCEPT ![c].pc = "done", ![c].allowed = Own!HasToken(b)]
        /\ UNCHANGED <<keyClock, limited, global, cached, lastSweep, lastFree>>

-----------------------------------------------------------------------------
\* SetKeyRateLimit and ClearKeyRateLimit, by another process (the CLI).
SetKeyRateLimit ==
    /\ ~limited
    /\ limited' = TRUE
    /\ UNCHANGED <<keyClock, global, built, cached, lastSweep, call, keySpent, lastFree>>

ClearKeyRateLimit ==
    /\ limited
    /\ limited' = FALSE
    /\ lastFree' = keyClock
    /\ UNCHANGED <<keyClock, global, built, cached, lastSweep, call, keySpent>>

KeyTick ==
    /\ keyClock < KeyMaxClock
    /\ keyClock' = keyClock + 1
    /\ lastFree' = IF limited THEN lastFree ELSE keyClock + 1
    /\ UNCHANGED <<limited, global, built, cached, lastSweep, call, keySpent>>

CallStep(c) ==
    \/ Lookup(c)
    \/ RecheckHits(c)
    \/ RecheckMisses(c)
    \/ FetchLimit(c)
    \/ FetchNone(c)
    \/ Store(c)
    \/ Unlimited(c)
    \/ TakeKeyToken(c)

KeyLimiterNext == \/ \E c \in KeyCallers : Call(c) \/ CallStep(c)
                  \/ SetKeyRateLimit
                  \/ ClearKeyRateLimit
                  \/ KeyTick

KeyLimiterSpec == KeyLimiterInit /\ [][KeyLimiterNext]_keyLimiterVars

-----------------------------------------------------------------------------
(* Properties. *)

\* A request only passes without the key's own limit if, less than a TTL
\* before it, the key had none or the store could not tell: a limit an
\* administrator sets is in force after TTL, whatever lookups were under way.
LimitForcedAfterTTL ==
    \A c \in KeyCallers : call[c].allowed /\ call[c].limiter = Nil =>
        lastFree > call[c].now - TTL

(* What a comment of the repository says and the code does not. *)

\* "any per-key limit must allow the request": what a key is granted stays
\* within one burst and its rate.
WithinKeyRate == keySpent <= KeyBurst + keyClock
=============================================================================
