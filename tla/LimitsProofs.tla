---------------------------- MODULE LimitsProofs ----------------------------
(***************************************************************************)
(* Theorems about what holds a caller back, for every value of the         *)
(* constants: the keyed token-bucket limiter (RateLimiter), the per-key    *)
(* rate limits that are cached for TTL (KeyRateLimiter), the calendar by   *)
(* which budgets reset (BudgetPeriods), budgets themselves                 *)
(* (BudgetEnforcement), for every number of handlers, keys and scopes,     *)
(* every limit, period, batch and buffer size, and however long the system *)
(* runs, and the timestamps the store compares as text (LogTimestamps).    *)
(***************************************************************************)
EXTENDS RateLimiter, KeyRateLimiter, BudgetPeriods, BudgetEnforcement, LogTimestamps,
        FiniteSetTheorems, WellFoundedInduction, TLAPS

-----------------------------------------------------------------------------
(*                               RateLimiter                               *)

\* A call under way has read the clock at most MaxSkew ticks ago.
CallInv == \A c \in Callers : caller[c].busy =>
              /\ caller[c].now <= clock
              /\ clock - caller[c].now <= MaxSkew

\* The balance of a bucket: what it holds and what was taken from the key's
\* buckets is covered by one burst and the time of its last refill.  lastSeen
\* may be behind lastRefill, but only by the skew.
Balanced(b, spentOn, now) ==
    /\ b.tokens + spentOn <= Burst + b.lastRefill
    /\ b.lastRefill <= now
    /\ b.lastRefill <= b.lastSeen + MaxSkew

\* What was taken on behalf of a key without a bucket has been earned back by
\* the earliest time a call may still come with.
Settled(spentOn, now) == spentOn = 0 \/ spentOn + MaxSkew <= now

BalanceInv == \A k \in Keys :
    IF k \in DOMAIN entries THEN Balanced(entries[k], spent[k], clock)
                            ELSE Settled(spent[k], clock)

LimiterInv == LimiterTypeOK /\ CallInv /\ BalanceInv

-----------------------------------------------------------------------------
\* Constants are the numbers the constructor makes them.
LEMMA Numbers ==
  /\ Burst \in Nat /\ Cost \in Nat \ {0} /\ Burst >= Cost
  /\ IdleTTL \in Nat /\ MaxSkew \in Nat /\ IdleTTL - 2 * MaxSkew >= Burst
  BY BucketAssumption, LimiterAssumption

\* Refilling keeps a bucket within its burst and keeps its balance, also when
\* the time is behind the last refill.
LEMMA RefilledBalanced ==
  ASSUME NEW b \in Bucket, NEW now \in Nat, NEW clk \in Nat, NEW n \in Nat,
         now <= clk, clk - now <= MaxSkew,
         b.tokens + n <= Burst + b.lastRefill, b.lastRefill <= clk
  PROVE  /\ Refilled(b, now) \in Bucket
         /\ Balanced(Refilled(b, now), n, clk)
  <1> DEFINE earned == IF now > b.lastRefill THEN now - b.lastRefill ELSE 0
             r == Refilled(b, now)
  <1>1. b.tokens \in 0 .. Burst /\ b.lastRefill \in Nat
    BY DEF Bucket
  <1>2. earned \in Nat
    BY <1>1
  <1>3. r = [tokens |-> IF b.tokens + earned > Burst THEN Burst ELSE b.tokens + earned,
             lastSeen |-> now,
             lastRefill |-> IF now > b.lastRefill THEN now ELSE b.lastRefill]
    BY DEF Refilled
  <1>4. /\ r.tokens = IF b.tokens + earned > Burst THEN Burst ELSE b.tokens + earned
        /\ r.lastSeen = now
        /\ r.lastRefill = IF now > b.lastRefill THEN now ELSE b.lastRefill
    BY <1>3
  <1>5. r.tokens \in 0 .. Burst /\ r.lastRefill \in Nat
    BY <1>1, <1>2, <1>4, Numbers
  <1>6. r \in Bucket
    BY <1>3, <1>4, <1>5 DEF Bucket
  <1>7. Balanced(r, n, clk)
    <2>1. r.tokens <= b.tokens + earned
      BY <1>1, <1>2, <1>4, Numbers
    <2>2. r.lastRefill = b.lastRefill + earned
      BY <1>1, <1>4
    <2>3. r.tokens + n <= Burst + r.lastRefill
      BY <1>1, <1>2, <1>5, <2>1, <2>2, Numbers
    <2>4. r.lastRefill <= clk /\ r.lastRefill <= r.lastSeen + MaxSkew
      BY <1>1, <1>4, Numbers
    <2> HIDE DEF r
    <2> QED BY <2>3, <2>4 DEF Balanced
  <1> QED BY <1>6, <1>7

\* Taking a token moves its cost from the bucket to what was spent.
LEMMA TakenBalanced ==
  ASSUME NEW b \in Bucket, NEW clk \in Nat, NEW n \in Nat,
         Balanced(b, n, clk), HasToken(b)
  PROVE  Taken(b) \in Bucket /\ Balanced(Taken(b), n + Cost, clk)
  <1>1. /\ Taken(b).tokens = b.tokens - Cost
        /\ Taken(b).lastSeen = b.lastSeen
        /\ Taken(b).lastRefill = b.lastRefill
    BY DEF Taken, Bucket
  <1>2. b.tokens \in 0 .. Burst /\ b.tokens >= Cost /\ b.lastRefill \in Nat
    BY DEF Bucket, HasToken
  <1>3. b.tokens - Cost \in 0 .. Burst
    BY <1>2, Numbers
  <1>4. Taken(b) \in Bucket
    BY <1>3 DEF Taken, Bucket
  <1>5. Balanced(Taken(b), n + Cost, clk)
    BY <1>1, <1>2, Numbers DEF Balanced
  <1> QED BY <1>4, <1>5

\* A bucket that is forgotten would have been full again: its key is settled.
LEMMA EvictionSettles ==
  ASSUME NEW b \in Bucket, NEW now \in Nat, NEW clk \in Nat, NEW n \in Nat,
         now <= clk, Balanced(b, n, clk), Idle(b, now)
  PROVE  Settled(n, clk)
  <1>1. b.tokens \in 0 .. Burst /\ b.lastRefill \in Nat /\ b.lastSeen \in Nat
    BY DEF Bucket
  <1>2. now - b.lastSeen > IdleTTL
    BY DEF Idle
  <1>3. n <= Burst + b.lastSeen + MaxSkew
    BY <1>1, Numbers DEF Balanced
  <1>4. n + MaxSkew <= clk
    BY <1>1, <1>2, <1>3, Numbers
  <1> QED BY <1>4 DEF Settled

-----------------------------------------------------------------------------
\* The bucket a call finds, and the one it leaves behind, are balanced.
LEMMA FoundBalanced ==
  ASSUME LimiterInv, NEW c \in Callers, caller[c].busy
  PROVE  LET k == caller[c].key
             b == Found(k, caller[c].now)
         IN  b \in Bucket /\ Balanced(b, spent[k], clock)
  <1> DEFINE k == caller[c].key
             now == caller[c].now
             old == IF k \in Kept(now) THEN entries[k] ELSE NewBucket(now)
  <1>1. /\ k \in Keys /\ now \in Nat /\ clock \in Nat /\ spent[k] \in Nat
        /\ now <= clock /\ clock - now <= MaxSkew
    <2>1. caller[c] \in Calls
      BY DEF LimiterInv, LimiterTypeOK, NoCall
    <2> QED BY <2>1 DEF LimiterInv, LimiterTypeOK, CallInv, Calls
  <1>2. old \in Bucket /\ old.tokens + spent[k] <= Burst + old.lastRefill /\ old.lastRefill <= clock
    <2>1. CASE k \in Kept(now)
      <3>1. k \in DOMAIN entries /\ entries[k] \in Bucket
        BY <2>1 DEF Kept, LimiterInv, LimiterTypeOK
      <3>2. Balanced(entries[k], spent[k], clock)
        BY <1>1, <3>1 DEF LimiterInv, BalanceInv
      <3> QED BY <2>1, <3>1, <3>2 DEF Balanced
    <2>2. CASE k \notin Kept(now)
      <3>1. Settled(spent[k], clock)
        <4>1. CASE k \in DOMAIN entries
          <5>1. /\ Idle(entries[k], now) /\ entries[k] \in Bucket
                /\ Balanced(entries[k], spent[k], clock)
            BY <1>1, <2>2, <4>1 DEF Kept, LimiterInv, LimiterTypeOK, BalanceInv
          <5> QED BY <1>1, <5>1, EvictionSettles
        <4>2. CASE k \notin DOMAIN entries
          BY <1>1, <4>2 DEF LimiterInv, BalanceInv
        <4> QED BY <4>1, <4>2
      <3>2. spent[k] <= now
        BY <1>1, <3>1, Numbers DEF Settled
      <3>3. old = [tokens |-> Burst, lastSeen |-> now, lastRefill |-> now]
        BY <2>2 DEF NewBucket
      <3>4. old \in Bucket
        BY <1>1, <3>3, Numbers DEF Bucket
      <3>5. old.tokens = Burst /\ old.lastRefill = now
        BY <3>3
      <3> QED BY <1>1, <3>2, <3>4, <3>5, Numbers
    <2> QED BY <2>1, <2>2
  <1>3. Found(k, now) = Refilled(old, now)
    BY DEF Found
  <1> HIDE DEF old, k, now
  <1>4. Found(k, now) \in Bucket /\ Balanced(Found(k, now), spent[k], clock)
    BY <1>1, <1>2, <1>3, RefilledBalanced
  <1> QED BY <1>4 DEF k, now

\* The critical section of Allow keeps the invariant.
LEMMA AllowKeeps ==
  ASSUME LimiterInv, NEW c \in Callers, Allow(c)
  PROVE  LimiterInv'
  <1> DEFINE k == caller[c].key
             now == caller[c].now
             b == Found(k, now)
             left == IF HasToken(b) THEN Taken(b) ELSE b
             paid == IF HasToken(b) THEN spent[k] + Cost ELSE spent[k]
  <1>1. /\ k \in Keys /\ now \in Nat /\ clock \in Nat /\ spent[k] \in Nat
        /\ now <= clock /\ clock - now <= MaxSkew
    <2>1. caller[c] \in Calls
      BY DEF LimiterInv, LimiterTypeOK, NoCall, Allow
    <2> QED BY <2>1 DEF LimiterInv, LimiterTypeOK, CallInv, Calls, Allow
  <1>2. b \in Bucket /\ Balanced(b, spent[k], clock)
    BY FoundBalanced DEF Allow
  <1>3. /\ entries' = [j \in Kept(now) \union {k} |-> IF j # k THEN entries[j] ELSE left]
        /\ lastCleanup' = IF CleanupDue(now) THEN now ELSE lastCleanup
        /\ spent' = [spent EXCEPT ![k] = paid]
        /\ caller' = [caller EXCEPT ![c] = NoCall]
        /\ clock' = clock
    BY DEF Allow
  <1> HIDE DEF b
  <1>4. left \in Bucket /\ paid \in Nat /\ Balanced(left, paid, clock)
    BY <1>1, <1>2, TakenBalanced, Numbers
  <1> HIDE DEF left, paid, k, now
  <1>5. Kept(now) \subseteq DOMAIN entries
    BY DEF Kept
  <1>6. /\ DOMAIN entries' = Kept(now) \union {k}
        /\ entries'[k] = left
        /\ \A j \in Kept(now) : j # k => entries'[j] = entries[j]
    BY <1>3
  <1>7. LimiterTypeOK'
    <2>1. clock' \in Nat /\ lastCleanup' \in Nat \union {-1}
      BY <1>1, <1>3 DEF LimiterInv, LimiterTypeOK
    <2>2. DOMAIN entries' \subseteq Keys
      BY <1>1, <1>5, <1>6 DEF LimiterInv, LimiterTypeOK
    <2>3. \A j \in DOMAIN entries' : entries'[j] \in Bucket
      BY <1>4, <1>5, <1>6 DEF LimiterInv, LimiterTypeOK
    <2>4. caller' \in [Callers -> Calls \union {NoCall}]
      BY <1>3 DEF LimiterInv, LimiterTypeOK
    <2>5. spent' \in [Keys -> Nat]
      BY <1>3, <1>4 DEF LimiterInv, LimiterTypeOK
    <2> QED BY <2>1, <2>2, <2>3, <2>4, <2>5 DEF LimiterTypeOK
  <1>8. CallInv'
    <2> SUFFICES ASSUME NEW d \in Callers, caller'[d].busy
                 PROVE  caller'[d].now <= clock' /\ clock' - caller'[d].now <= MaxSkew
      BY DEF CallInv
    <2>1. d # c
      BY <1>3 DEF NoCall, LimiterInv, LimiterTypeOK
    <2>2. caller'[d] = caller[d]
      BY <1>3, <2>1 DEF LimiterInv, LimiterTypeOK
    <2> QED BY <1>3, <2>2 DEF LimiterInv, CallInv
  <1>9. BalanceInv'
    <2> SUFFICES ASSUME NEW j \in Keys
                 PROVE  IF j \in DOMAIN entries' THEN Balanced(entries'[j], spent'[j], clock')
                                                 ELSE Settled(spent'[j], clock')
      BY DEF BalanceInv, Balanced, Settled
    <2>1. CASE j = k
      <3>1. j \in DOMAIN entries' /\ entries'[j] = left /\ spent'[j] = paid
        BY <1>3, <1>6, <2>1 DEF LimiterInv, LimiterTypeOK
      <3> QED BY <1>3, <1>4, <3>1
    <2>2. CASE j # k /\ j \in Kept(now)
      <3>1. j \in DOMAIN entries' /\ entries'[j] = entries[j] /\ spent'[j] = spent[j]
        BY <1>3, <1>6, <2>2 DEF LimiterInv, LimiterTypeOK
      <3>2. Balanced(entries[j], spent[j], clock)
        BY <1>5, <2>2 DEF LimiterInv, BalanceInv
      <3> QED BY <1>3, <3>1, <3>2
    <2>3. CASE j # k /\ j \notin Kept(now)
      <3>1. j \notin DOMAIN entries' /\ spent'[j] = spent[j] /\ spent[j] \in Nat
        BY <1>3, <1>6, <2>3 DEF LimiterInv, LimiterTypeOK
      <3>2. Settled(spent[j], clock)
        <4>1. CASE j \in DOMAIN entries
          <5>1. /\ Idle(entries[j], now) /\ entries[j] \in Bucket
                /\ Balanced(entries[j], spent[j], clock)
            BY <2>3, <4>1 DEF Kept, LimiterInv, LimiterTypeOK, BalanceInv
          <5> QED BY <1>1, <3>1, <5>1, EvictionSettles
        <4>2. CASE j \notin DOMAIN entries
          BY <4>2 DEF LimiterInv, BalanceInv
        <4> QED BY <4>1, <4>2
      <3> QED BY <1>3, <3>1, <3>2
    <2> QED BY <2>1, <2>2, <2>3
  <1> QED BY <1>7, <1>8, <1>9 DEF LimiterInv

\* A tick keeps the invariant: it waits for calls that have read the clock
\* MaxSkew ticks ago.
LEMMA TickKeeps ==
  ASSUME LimiterInv, Tick
  PROVE  LimiterInv'
  <1>1. /\ clock \in Nat /\ clock' = clock + 1
        /\ \A c \in Callers : caller[c].busy => clock - caller[c].now < MaxSkew
    BY DEF Tick, LimiterInv, LimiterTypeOK
  <1>2. UNCHANGED <<entries, lastCleanup, caller, spent>>
    BY DEF Tick
  <1>3. LimiterTypeOK'
    BY <1>1, <1>2 DEF LimiterInv, LimiterTypeOK
  <1>4. CallInv'
    <2> SUFFICES ASSUME NEW c \in Callers, caller'[c].busy
                 PROVE  caller'[c].now <= clock' /\ clock' - caller'[c].now <= MaxSkew
      BY DEF CallInv
    <2>0. caller' = caller
      BY <1>2
    <2>1. caller[c] \in Calls
      BY <2>0 DEF LimiterInv, LimiterTypeOK, NoCall
    <2>2. caller[c].now \in Nat
      BY <2>1 DEF Calls
    <2>3. caller[c].now <= clock /\ clock - caller[c].now < MaxSkew
      BY <1>1, <2>0 DEF LimiterInv, CallInv
    <2> QED BY <1>1, <2>0, <2>2, <2>3, Numbers
  <1>5. BalanceInv'
    <2> SUFFICES ASSUME NEW k \in Keys
                 PROVE  IF k \in DOMAIN entries THEN Balanced(entries[k], spent[k], clock + 1)
                                                ELSE Settled(spent[k], clock + 1)
      BY <1>1, <1>2 DEF BalanceInv, Balanced, Settled
    <2>1. CASE k \in DOMAIN entries
      <3>1. entries[k] \in Bucket /\ Balanced(entries[k], spent[k], clock)
        BY <2>1 DEF LimiterInv, LimiterTypeOK, BalanceInv
      <3>2. Balanced(entries[k], spent[k], clock + 1)
        BY <1>1, <3>1 DEF Balanced, Bucket
      <3> QED BY <2>1, <3>2
    <2>2. CASE k \notin DOMAIN entries
      <3>1. spent[k] \in Nat /\ Settled(spent[k], clock)
        BY <2>2 DEF LimiterInv, LimiterTypeOK, BalanceInv
      <3>2. Settled(spent[k], clock + 1)
        BY <1>1, <3>1, Numbers DEF Settled
      <3> QED BY <2>2, <3>2
    <2> QED BY <2>1, <2>2
  <1> QED BY <1>3, <1>4, <1>5 DEF LimiterInv

\* A call that reads the clock keeps the invariant.
LEMMA ReadClockKeeps ==
  ASSUME LimiterInv, NEW c \in Callers, NEW k \in Keys, ReadClock(c, k)
  PROVE  LimiterInv'
  <1> DEFINE new == [busy |-> TRUE, key |-> k, now |-> clock]
  <1>1. /\ caller' = [caller EXCEPT ![c] = new]
        /\ UNCHANGED <<clock, entries, lastCleanup, spent>> /\ clock \in Nat
    BY DEF ReadClock, LimiterInv, LimiterTypeOK
  <1>2. new \in Calls /\ new.now = clock
    BY <1>1 DEF Calls
  <1> HIDE DEF new
  <1>3. LimiterTypeOK'
    BY <1>1, <1>2 DEF LimiterInv, LimiterTypeOK
  <1>4. CallInv'
    <2> SUFFICES ASSUME NEW d \in Callers, caller'[d].busy
                 PROVE  caller'[d].now <= clock /\ clock - caller'[d].now <= MaxSkew
      BY <1>1 DEF CallInv
    <2>1. CASE d = c
      <3>1. caller'[d] = new
        BY <1>1, <2>1 DEF LimiterInv, LimiterTypeOK
      <3> QED BY <1>1, <1>2, <3>1, Numbers
    <2>2. CASE d # c
      <3>1. caller'[d] = caller[d]
        BY <1>1, <2>2 DEF LimiterInv, LimiterTypeOK
      <3> QED BY <3>1 DEF LimiterInv, CallInv
    <2> QED BY <2>1, <2>2
  <1>5. BalanceInv'
    BY <1>1 DEF LimiterInv, BalanceInv, Balanced, Settled
  <1> QED BY <1>3, <1>4, <1>5 DEF LimiterInv

-----------------------------------------------------------------------------
\* The balance is an invariant of the limiter.
THEOREM LimiterInvariance == LimiterSpec => []LimiterInv
  <1>1. LimiterInit => LimiterInv
    <2> SUFFICES ASSUME LimiterInit PROVE LimiterInv
      OBVIOUS
    <2>1. DOMAIN entries = {}
      BY DEF LimiterInit
    <2>2. LimiterTypeOK
      BY <2>1 DEF LimiterInit, LimiterTypeOK
    <2>3. CallInv
      BY DEF LimiterInit, CallInv, NoCall
    <2>4. BalanceInv
      BY <2>1 DEF LimiterInit, BalanceInv, Settled
    <2> QED BY <2>2, <2>3, <2>4 DEF LimiterInv
  <1>2. LimiterInv /\ [LimiterNext]_limiterVars => LimiterInv'
    <2> SUFFICES ASSUME LimiterInv, [LimiterNext]_limiterVars PROVE LimiterInv'
      OBVIOUS
    <2>1. ASSUME NEW c \in Callers, Allow(c) PROVE LimiterInv'
      BY <2>1, AllowKeeps
    <2>2. ASSUME NEW c \in Callers, NEW k \in Keys, ReadClock(c, k) PROVE LimiterInv'
      BY <2>2, ReadClockKeeps
    <2>3. CASE Tick
      BY <2>3, TickKeeps
    <2>4. CASE UNCHANGED limiterVars
      BY <2>4 DEF limiterVars, LimiterInv, LimiterTypeOK, CallInv, BalanceInv, Balanced, Settled
    <2> QED BY <2>1, <2>2, <2>3, <2>4 DEF LimiterNext
  <1> QED BY <1>1, <1>2, PTL DEF LimiterSpec

\* Every part of the limiter keeps its type: no bucket ever holds more than its
\* burst or a negative number of tokens.
THEOREM LimiterTypeCorrect == LimiterSpec => []LimiterTypeOK
  <1>1. LimiterInv => LimiterTypeOK
    BY DEF LimiterInv
  <1> QED BY <1>1, LimiterInvariance, PTL

\* No key is ever granted more than one burst and what its rate has earned,
\* although calls reach its bucket with times out of order and idle buckets are
\* forgotten and come back full.
THEOREM RateKept == LimiterSpec => []WithinRate
  <1>1. LimiterInv => WithinRate
    <2> SUFFICES ASSUME LimiterInv, NEW k \in Keys PROVE spent[k] <= Burst + clock
      BY DEF WithinRate
    <2>1. spent[k] \in Nat /\ clock \in Nat
      BY DEF LimiterInv, LimiterTypeOK
    <2>2. CASE k \in DOMAIN entries
      <3>1. entries[k] \in Bucket /\ Balanced(entries[k], spent[k], clock)
        BY <2>2 DEF LimiterInv, LimiterTypeOK, BalanceInv
      <3>2. entries[k].tokens \in 0 .. Burst /\ entries[k].lastRefill \in Nat
        BY <3>1 DEF Bucket
      <3> QED BY <2>1, <3>1, <3>2, Numbers DEF Balanced
    <2>3. CASE k \notin DOMAIN entries
      <3>1. Settled(spent[k], clock)
        BY <2>3 DEF LimiterInv, BalanceInv
      <3> QED BY <2>1, <3>1, Numbers DEF Settled
    <2> QED BY <2>2, <2>3
  <1> QED BY <1>1, LimiterInvariance, PTL

-----------------------------------------------------------------------------
(*                     KeyRateLimiter and BudgetPeriods                    *)

-----------------------------------------------------------------------------
(* Type correctness. *)

\* The key's bucket in the global limiter stays within its burst.
LEMMA GlobalBucket ==
  ASSUME KeySetting, NEW b \in Global!Bucket, NEW now \in Nat
  PROVE  /\ Global!Refilled(b, now) \in Global!Bucket
         /\ Global!HasToken(b) => Global!Taken(b) \in Global!Bucket
         /\ Global!NewBucket(now) \in Global!Bucket
  <1>1. b.tokens \in 0 .. GlobalBurst /\ b.lastRefill \in Nat /\ b.lastSeen \in Nat
    BY DEF Global!Bucket
  <1>2. Global!Refilled(b, now) \in Global!Bucket
    BY <1>1 DEF KeySetting, Global!Bucket, Global!Refilled
  <1>3. ASSUME Global!HasToken(b) PROVE Global!Taken(b) \in Global!Bucket
    <2>1. b.tokens - GlobalCost \in 0 .. GlobalBurst
      BY <1>1, <1>3 DEF KeySetting, Global!HasToken
    <2> QED BY <2>1 DEF Global!Bucket, Global!Taken
  <1>4. Global!NewBucket(now) \in Global!Bucket
    BY DEF KeySetting, Global!Bucket, Global!NewBucket
  <1> QED BY <1>2, <1>3, <1>4

\* And so do the buckets of the limiters built for the key.
LEMMA OwnBucket ==
  ASSUME KeySetting, NEW now \in Nat
  PROVE  /\ \A b \in Own!Bucket : Own!Refilled(b, now) \in Own!Bucket
         /\ \A b \in Own!Bucket : Own!HasToken(b) => Own!Taken(b) \in Own!Bucket
         /\ Own!NewBucket(now) \in Own!Bucket
  <1>1. ASSUME NEW b \in Own!Bucket
        PROVE  b.tokens \in 0 .. KeyBurst /\ b.lastRefill \in Nat /\ b.lastSeen \in Nat
    BY DEF Own!Bucket
  <1>2. ASSUME NEW b \in Own!Bucket PROVE Own!Refilled(b, now) \in Own!Bucket
    BY <1>1 DEF KeySetting, Own!Bucket, Own!Refilled
  <1>3. ASSUME NEW b \in Own!Bucket, Own!HasToken(b) PROVE Own!Taken(b) \in Own!Bucket
    <2>1. b.tokens - KeyCost \in 0 .. KeyBurst
      BY <1>1, <1>3 DEF KeySetting, Own!HasToken
    <2> QED BY <2>1 DEF Own!Bucket, Own!Taken
  <1>4. Own!NewBucket(now) \in Own!Bucket
    BY DEF KeySetting, Own!Bucket, Own!NewBucket
  <1> QED BY <1>2, <1>3, <1>4

\* The fields of a call and of the cache.
LEMMA KeyFields ==
  ASSUME KeyLimiterTypeOK
  PROVE  /\ Len(built) \in Nat /\ keyClock \in Nat /\ lastFree \in Int
         /\ \A c \in KeyCallers : /\ call[c] \in KeyCalls /\ call[c].now \in Nat
                                  /\ call[c].limiter \in 0 .. Len(built)
         /\ cached.present => /\ cached.limiter \in 0 .. Len(built)
                              /\ cached.fetchedAt \in Nat
  <1>1. built \in Seq(Own!Bucket)
    BY DEF KeyLimiterTypeOK
  <1>2. Len(built) \in Nat
    BY <1>1
  <1>3. ASSUME NEW c \in KeyCallers PROVE call[c] \in KeyCalls /\ call[c].now \in Nat
    BY DEF KeyLimiterTypeOK, KeyCalls
  <1>4. cached.present => cached.fetchedAt \in Nat
    <2>1. cached \in Entries \/ cached = NoEntry
      BY DEF KeyLimiterTypeOK
    <2>2. cached \in Entries => cached.fetchedAt \in Nat
      BY DEF Entries
    <2>3. NoEntry.present = FALSE
      BY DEF NoEntry
    <2> QED BY <2>1, <2>2, <2>3, Zenon
  <1> QED BY <1>2, <1>3, <1>4 DEF KeyLimiterTypeOK

\* A step of a call keeps the types when what it leaves behind has them.
LEMMA CallMoves ==
  ASSUME KeyLimiterTypeOK, NEW c \in KeyCallers, NEW r \in KeyCalls,
         call' = [call EXCEPT ![c] = r], r.limiter \in 0 .. Len(built'),
         built' \in Seq(Own!Bucket), Len(built') >= Len(built),
         cached' \in Entries \union {NoEntry},
         cached'.present => cached'.limiter \in 0 .. Len(built'),
         UNCHANGED <<keyClock, limited>>, global' \in Global!Bucket, lastSweep' \in Int,
         keySpent' \in Nat, lastFree' \in Int
  PROVE  KeyLimiterTypeOK'
  <1>1. call' \in [KeyCallers -> KeyCalls]
    BY DEF KeyLimiterTypeOK
  <1>2. ASSUME NEW d \in KeyCallers PROVE call'[d].limiter \in 0 .. Len(built')
    <2>1. call'[d] = IF d = c THEN r ELSE call[d]
      BY DEF KeyLimiterTypeOK
    <2>2. call[d].limiter \in 0 .. Len(built) /\ Len(built) \in Nat /\ Len(built') \in Nat
      BY KeyFields
    <2>3. call[d].limiter \in 0 .. Len(built')
      BY <2>2
    <2> QED BY <2>1, <2>3
  <1> QED BY <1>1, <1>2 DEF KeyLimiterTypeOK

\* Every step keeps the types.
LEMMA KeyTypesStep ==
  ASSUME KeySetting, KeyLimiterTypeOK, [KeyLimiterNext]_keyLimiterVars
  PROVE  KeyLimiterTypeOK'
  <1>0. /\ Len(built) \in Nat /\ keyClock \in Nat /\ lastFree \in Int
        /\ built \in Seq(Own!Bucket) /\ global \in Global!Bucket /\ lastSweep \in Int
        /\ keySpent \in Nat /\ cached \in Entries \union {NoEntry}
        /\ cached.present => cached.limiter \in 0 .. Len(built)
    BY KeyFields DEF KeyLimiterTypeOK
  <1> DEFINE Steps == {"idle", "lookup", "recheck", "fetch", "store", "take", "done"}
  <1>1. ASSUME NEW c \in KeyCallers, NEW s \in Steps, NEW n \in 0 .. Len(built),
               call' = [call EXCEPT ![c] = [call[c] EXCEPT !.pc = s, !.limiter = n]],
               UNCHANGED <<keyClock, limited, global, built, keySpent>>,
               cached' \in Entries \union {NoEntry},
               cached'.present => cached'.limiter \in 0 .. Len(built),
               lastSweep' \in Int, lastFree' \in Int
        PROVE  KeyLimiterTypeOK'
    <2> DEFINE r == [call[c] EXCEPT !.pc = s, !.limiter = n]
    <2>1. call[c] \in KeyCalls
      BY KeyFields
    <2>2. n \in Nat
      BY <1>0
    <2>3. r \in KeyCalls
      BY <2>1, <2>2 DEF KeyCalls
    <2>4. r.limiter = n
      BY <2>1 DEF KeyCalls
    <2> HIDE DEF r
    <2>5. call' = [call EXCEPT ![c] = r]
      BY <1>1 DEF r
    <2>6. /\ built' = built /\ global' = global /\ keySpent' = keySpent
          /\ r.limiter \in 0 .. Len(built') /\ Len(built') >= Len(built)
          /\ (cached'.present => cached'.limiter \in 0 .. Len(built'))
      BY <1>0, <1>1, <2>4
    <2> QED BY <1>0, <1>1, <2>3, <2>5, <2>6, CallMoves
  <1>2. ASSUME NEW c \in KeyCallers, NEW s \in Steps, call' = [call EXCEPT ![c].pc = s]
        PROVE  /\ call' = [call EXCEPT ![c] = [call[c] EXCEPT !.pc = s, !.limiter = call[c].limiter]]
               /\ call[c].limiter \in 0 .. Len(built)
    <2>1. call[c] \in KeyCalls /\ call[c].limiter \in 0 .. Len(built)
      BY KeyFields
    <2>2. [call[c] EXCEPT !.pc = s] = [call[c] EXCEPT !.pc = s, !.limiter = call[c].limiter]
      BY <2>1 DEF KeyCalls
    <2> QED BY <1>2, <2>1, <2>2
  <1>3. ASSUME NEW c \in KeyCallers, Call(c) PROVE KeyLimiterTypeOK'
    <2> DEFINE b == Global!Refilled(global, keyClock)
               r == [pc |-> IF Global!HasToken(b) THEN "lookup" ELSE "done",
                     now |-> keyClock, limiter |-> Nil, allowed |-> FALSE]
    <2>1. b \in Global!Bucket
      BY <1>0, GlobalBucket
    <2>2. global' \in Global!Bucket
      <3>1. global' = IF Global!HasToken(b) THEN Global!Taken(b) ELSE b
        BY <1>3 DEF Call
      <3>2. Global!HasToken(b) => Global!Taken(b) \in Global!Bucket
        BY <1>0, <2>1, GlobalBucket
      <3> QED BY <2>1, <3>1, <3>2
    <2>3. r \in KeyCalls /\ r.limiter \in 0 .. Len(built) /\ call' = [call EXCEPT ![c] = r]
      BY <1>0, <1>3 DEF Call, KeyCalls, Nil
    <2> HIDE DEF b, r
    <2>4. /\ UNCHANGED <<keyClock, limited, built, cached, lastSweep, keySpent, lastFree>>
          /\ Len(built') >= Len(built)
      BY <1>0, <1>3 DEF Call
    <2> QED BY <1>0, <2>2, <2>3, <2>4, CallMoves
  <1>4. ASSUME NEW c \in KeyCallers, Lookup(c) PROVE KeyLimiterTypeOK'
    <2>1. CASE Fresh(call[c].now)
      <3>1. call' = [call EXCEPT ![c] = [call[c] EXCEPT !.pc = "take", !.limiter = cached.limiter]]
        BY <1>4, <2>1 DEF Lookup
      <3>2. cached.limiter \in 0 .. Len(built)
        BY <2>1, KeyFields DEF Fresh
      <3> QED BY <1>0, <1>1, <1>4, <3>1, <3>2 DEF Lookup
    <2>2. CASE ~Fresh(call[c].now)
      <3>1. call' = [call EXCEPT ![c].pc = "recheck"]
        BY <1>4, <2>2 DEF Lookup
      <3> QED BY <1>0, <1>1, <1>2, <1>4, <3>1 DEF Lookup
    <2> QED BY <2>1, <2>2
  <1>5. ASSUME NEW c \in KeyCallers, RecheckHits(c) PROVE KeyLimiterTypeOK'
    <2>1. call' = [call EXCEPT ![c] = [call[c] EXCEPT !.pc = "take", !.limiter = cached.limiter]]
      BY <1>5 DEF RecheckHits
    <2>2. cached.limiter \in 0 .. Len(built)
      BY <1>5, KeyFields DEF RecheckHits, Fresh
    <2> QED BY <1>0, <1>1, <1>5, <2>1, <2>2 DEF RecheckHits
  <1>6. ASSUME NEW c \in KeyCallers, RecheckMisses(c) PROVE KeyLimiterTypeOK'
    <2>1. cached' \in {cached, NoEntry} /\ lastSweep' \in Int
      BY <1>0, <1>6, KeyFields DEF RecheckMisses, Swept
    <2>2. cached' \in Entries \union {NoEntry}
          /\ (cached'.present => cached'.limiter \in 0 .. Len(built))
      BY <1>0, <2>1 DEF NoEntry
    <2> QED BY <1>0, <1>1, <1>2, <1>6, <2>1, <2>2 DEF RecheckMisses
  <1>7. ASSUME NEW c \in KeyCallers, FetchLimit(c) PROVE KeyLimiterTypeOK'
    <2> DEFINE r == [call[c] EXCEPT !.pc = "store", !.limiter = Len(built) + 1]
    <2>1. built' = Append(built, Own!NewBucket(keyClock)) /\ call' = [call EXCEPT ![c] = r]
      BY <1>7 DEF FetchLimit
    <2>2. Own!NewBucket(keyClock) \in Own!Bucket
      BY <1>0, OwnBucket
    <2>3. built' \in Seq(Own!Bucket) /\ Len(built') = Len(built) + 1
      BY <1>0, <2>1, <2>2
    <2>4. r \in KeyCalls /\ r.limiter = Len(built) + 1
      <3>1. call[c] \in KeyCalls /\ Len(built) + 1 \in Nat
        BY <1>0, KeyFields
      <3>2. r \in KeyCalls
        BY <3>1 DEF KeyCalls
      <3> QED BY <3>1, <3>2 DEF KeyCalls
    <2> HIDE DEF r
    <2>5. r.limiter \in 0 .. Len(built') /\ Len(built') >= Len(built)
      BY <1>0, <2>3, <2>4
    <2>6. cached'.present => cached'.limiter \in 0 .. Len(built')
      BY <1>0, <1>7, <2>3 DEF FetchLimit
    <2> QED BY <1>0, <1>7, <2>1, <2>3, <2>4, <2>5, <2>6, CallMoves DEF FetchLimit
  <1>8. ASSUME NEW c \in KeyCallers, FetchNone(c) PROVE KeyLimiterTypeOK'
    <2>1. /\ call' = [call EXCEPT ![c].pc = "store"] /\ lastFree' = keyClock
          /\ UNCHANGED <<keyClock, limited, global, built, cached, lastSweep, keySpent>>
      BY <1>8 DEF FetchNone
    <2>2. /\ call' = [call EXCEPT ![c] = [call[c] EXCEPT !.pc = "store", !.limiter = call[c].limiter]]
          /\ call[c].limiter \in 0 .. Len(built) /\ "store" \in Steps
      BY <1>2, <2>1
    <2>3. lastFree' \in Int /\ lastSweep' \in Int
      BY <1>0, <2>1
    <2> HIDE DEF Steps
    <2> QED BY <1>0, <1>1, <2>1, <2>2, <2>3
  <1>9. ASSUME NEW c \in KeyCallers, Store(c) PROVE KeyLimiterTypeOK'
    <2>1. cached' \in Entries /\ cached'.limiter \in 0 .. Len(built)
      BY <1>0, <1>9, KeyFields DEF Store, Entries
    <2> QED BY <1>0, <1>1, <1>2, <1>9, <2>1 DEF Store
  <1>10. ASSUME NEW c \in KeyCallers, Unlimited(c) PROVE KeyLimiterTypeOK'
    <2> DEFINE r == [call[c] EXCEPT !.pc = "done", !.allowed = TRUE]
    <2>1. call' = [call EXCEPT ![c] = r]
      BY <1>10 DEF Unlimited
    <2>2. r \in KeyCalls /\ r.limiter \in 0 .. Len(built)
      BY KeyFields DEF KeyCalls
    <2> HIDE DEF r
    <2>3. /\ UNCHANGED <<keyClock, limited, global, built, cached, lastSweep, keySpent, lastFree>>
          /\ Len(built') >= Len(built)
      BY <1>0, <1>10 DEF Unlimited
    <2> QED BY <1>0, <2>1, <2>2, <2>3, CallMoves
  <1>11. ASSUME NEW c \in KeyCallers, TakeKeyToken(c) PROVE KeyLimiterTypeOK'
    <2> DEFINE n == call[c].limiter
               b == Own!Refilled(built[n], keyClock)
               r == [call[c] EXCEPT !.pc = "done", !.allowed = Own!HasToken(b)]
    <2>1. n \in 1 .. Len(built) /\ call[c] \in KeyCalls
      BY <1>0, <1>11, KeyFields DEF TakeKeyToken, Nil
    <2>2. built[n] \in Own!Bucket
      BY <1>0, <2>1
    <2>3. b \in Own!Bucket /\ (Own!HasToken(b) => Own!Taken(b) \in Own!Bucket)
      BY <1>0, <2>2, OwnBucket
    <2>4. /\ built' = [built EXCEPT ![n] = IF Own!HasToken(b) THEN Own!Taken(b) ELSE b]
          /\ call' = [call EXCEPT ![c] = r]
          /\ keySpent' = IF Own!HasToken(b) THEN keySpent + KeyCost ELSE keySpent
      BY <1>11 DEF TakeKeyToken
    <2>5. Own!HasToken(b) \in BOOLEAN
      BY DEF Own!HasToken
    <2>6. r \in KeyCalls /\ r.limiter = n
      BY <2>1, <2>5 DEF KeyCalls
    <2> HIDE DEF b, r
    <2>7. PICK v \in Own!Bucket : built' = [built EXCEPT ![n] = v]
      BY <2>3, <2>4
    <2>8. built' \in Seq(Own!Bucket) /\ Len(built') = Len(built)
      BY <1>0, <2>1, <2>7
    <2>9. keySpent' \in Nat
      BY <1>0, <2>4 DEF KeySetting
    <2>10. /\ r.limiter \in 0 .. Len(built') /\ Len(built') >= Len(built)
           /\ UNCHANGED <<keyClock, limited, global, cached, lastSweep, lastFree>>
      BY <1>0, <1>11, <2>1, <2>6, <2>8 DEF TakeKeyToken
    <2> QED BY <1>0, <2>4, <2>6, <2>8, <2>9, <2>10, CallMoves
  <1>12. CASE SetKeyRateLimit \/ ClearKeyRateLimit \/ KeyTick \/ UNCHANGED keyLimiterVars
    <2>0. limited \in BOOLEAN
      BY DEF KeyLimiterTypeOK
    <2>1. keyClock' \in Nat /\ lastFree' \in Int /\ limited' \in BOOLEAN
      <3>1. CASE SetKeyRateLimit
        <4>1. limited' = TRUE /\ keyClock' = keyClock /\ lastFree' = lastFree
          BY <3>1 DEF SetKeyRateLimit
        <4>2. limited' \in BOOLEAN
          BY <4>1, Zenon
        <4> QED BY <1>0, <4>1, <4>2
      <3>2. CASE ClearKeyRateLimit
        <4>1. limited' = FALSE /\ keyClock' = keyClock /\ lastFree' = keyClock
          BY <3>2 DEF ClearKeyRateLimit
        <4>2. limited' \in BOOLEAN
          BY <4>1, Zenon
        <4> QED BY <1>0, <4>1, <4>2
      <3>3. CASE KeyTick
        <4>1. keyClock' = keyClock + 1 /\ limited' = limited /\ lastFree' \in {lastFree, keyClock + 1}
          BY <3>3 DEF KeyTick
        <4> QED BY <1>0, <2>0, <4>1
      <3>4. CASE UNCHANGED keyLimiterVars
        BY <1>0, <2>0, <3>4 DEF keyLimiterVars
      <3> QED BY <1>12, <3>1, <3>2, <3>3, <3>4
    <2>2. UNCHANGED <<global, built, cached, lastSweep, call, keySpent>>
      BY <1>12 DEF SetKeyRateLimit, ClearKeyRateLimit, KeyTick, keyLimiterVars
    <2> QED BY <2>0, <2>1, <2>2 DEF KeyLimiterTypeOK
  <1> QED BY <1>3, <1>4, <1>5, <1>6, <1>7, <1>8, <1>9, <1>10, <1>11, <1>12
          DEF KeyLimiterNext, CallStep

\* The buckets stay within their bursts, and calls and cache only refer to
\* limiters that were built.
THEOREM KeyLimiterTypeCorrect == KeyLimiterSpec => []KeyLimiterTypeOK
  <1> USE KeyAssumption
  <1>1. KeyLimiterInit => KeyLimiterTypeOK
    <2> SUFFICES ASSUME KeyLimiterInit PROVE KeyLimiterTypeOK
      OBVIOUS
    <2>1. global \in Global!Bucket
      BY DEF KeyLimiterInit, KeySetting, Global!Bucket, Global!NewBucket
    <2>2. call \in [KeyCallers -> KeyCalls] /\ \A c \in KeyCallers : call[c].limiter = 0
      BY DEF KeyLimiterInit, KeyCalls, Nil
    <2>3. built \in Seq(Own!Bucket) /\ Len(built) = 0
      BY DEF KeyLimiterInit
    <2>4. lastSweep \in Int /\ lastFree \in Int
      <3>1. ZeroTime \in Int
        BY DEF ZeroTime, KeySetting
      <3>2. lastSweep = ZeroTime /\ lastFree \in {ZeroTime, 0}
        BY DEF KeyLimiterInit
      <3> QED BY <3>1, <3>2
    <2>5. cached = NoEntry /\ NoEntry.present = FALSE /\ keyClock \in Nat /\ keySpent \in Nat
      BY DEF KeyLimiterInit, NoEntry
    <2>6. limited \in BOOLEAN
      BY Zenon DEF KeyLimiterInit
    <2>7. \A c \in KeyCallers : call[c].limiter \in 0 .. Len(built)
      <3>1. 0 \in 0 .. Len(built)
        BY <2>3
      <3> QED BY <2>2, <3>1, Zenon
    <2> QED BY <2>1, <2>2, <2>3, <2>4, <2>5, <2>6, <2>7 DEF KeyLimiterTypeOK
  <1>2. KeyLimiterTypeOK /\ [KeyLimiterNext]_keyLimiterVars => KeyLimiterTypeOK'
    BY KeyTypesStep
  <1> QED BY <1>1, <1>2, PTL DEF KeyLimiterSpec

-----------------------------------------------------------------------------
(* A limit is in force a TTL after it was set. *)

\* Whether a "no limit" that was read at time now, or is dated with it, is
\* covered by a time when the key had none or a query failed.
Covered(now) == lastFree > now - TTL

\* A call read the clock in the past; a nil limiter it is about to cache was read
\* when the key had no limit, at or after that time; one that it uses is covered.
GoodCall(r) ==
    /\ r.now <= keyClock
    /\ r.limiter = Nil => /\ r.pc = "store" => lastFree >= r.now
                          /\ r.pc = "take" \/ r.allowed => Covered(r.now)

\* A nil limiter in the cache was read at or after the time it is dated with.
GoodEntry == cached.present /\ cached.limiter = Nil => lastFree >= cached.fetchedAt

FreeInv == lastFree <= keyClock /\ GoodEntry /\ \A c \in KeyCallers : GoodCall(call[c])

\* Time and lastFree only move on, ...
LEMMA FreeMovesOn ==
  ASSUME KeyLimiterTypeOK, FreeInv, [KeyLimiterNext]_keyLimiterVars
  PROVE  /\ lastFree' \in Int /\ lastFree <= lastFree' /\ lastFree' <= keyClock' /\ keyClock <= keyClock'
         /\ keyClock' \in Nat
  <1>0. keyClock \in Nat /\ lastFree \in Int /\ lastFree <= keyClock
    BY KeyFields DEF FreeInv
  <1>1. \/ keyClock' = keyClock /\ lastFree' \in {lastFree, keyClock}
        \/ keyClock' = keyClock + 1 /\ lastFree' \in {lastFree, keyClock + 1}
    BY DEF KeyLimiterNext, CallStep, Call, Lookup, RecheckHits, RecheckMisses, FetchLimit,
           FetchNone, Store, Unlimited, TakeKeyToken, SetKeyRateLimit, ClearKeyRateLimit, KeyTick,
           keyLimiterVars
  <1> QED BY <1>0, <1>1

\* ... so that what holds of a call, or of the cache, is not undone by a step
\* that leaves it alone.
LEMMA GoodStays ==
  ASSUME KeySetting, NEW r, r.now \in Nat, GoodCall(r), keyClock \in Nat, keyClock' \in Nat,
         keyClock <= keyClock', lastFree \in Int, lastFree' \in Int, lastFree <= lastFree'
  PROVE  /\ r.now <= keyClock'
         /\ r.limiter = Nil => /\ r.pc = "store" => lastFree' >= r.now
                               /\ r.pc = "take" \/ r.allowed => lastFree' > r.now - TTL
  <1>1. r.now <= keyClock'
    BY DEF GoodCall
  <1>2. lastFree >= r.now => lastFree' >= r.now
    OBVIOUS
  <1>3. Covered(r.now) => lastFree' > r.now - TTL
    BY DEF KeySetting, Covered
  <1> QED BY <1>1, <1>2, <1>3 DEF GoodCall

\* A step in which one call moves on.
LEMMA OneCallMoves ==
  ASSUME KeySetting, KeyLimiterTypeOK, FreeInv, [KeyLimiterNext]_keyLimiterVars,
         NEW c \in KeyCallers, NEW r, call' = [call EXCEPT ![c] = r], GoodEntry',
         r.now <= keyClock',
         r.limiter = Nil => /\ r.pc = "store" => lastFree' >= r.now
                            /\ r.pc = "take" \/ r.allowed => lastFree' > r.now - TTL
  PROVE  FreeInv'
  <1>1. ASSUME NEW d \in KeyCallers PROVE GoodCall(call[d])'
    <2>1. call'[d] = IF d = c THEN r ELSE call[d]
      BY DEF KeyLimiterTypeOK
    <2>2. CASE d = c
      BY <2>1, <2>2 DEF GoodCall, Covered
    <2>3. CASE d # c
      <3>1. /\ call'[d].now <= keyClock'
            /\ call'[d].limiter = Nil =>
                  /\ call'[d].pc = "store" => lastFree' >= call'[d].now
                  /\ call'[d].pc = "take" \/ call'[d].allowed => lastFree' > call'[d].now - TTL
        BY <2>1, <2>3, KeyFields, FreeMovesOn, GoodStays DEF FreeInv
      <3> QED BY <3>1 DEF GoodCall, Covered
    <2> QED BY <2>2, <2>3
  <1> QED BY <1>1, FreeMovesOn DEF FreeInv

LEMMA EntryStays ==
  ASSUME KeyLimiterTypeOK, FreeInv, [KeyLimiterNext]_keyLimiterVars, cached' \in {cached, NoEntry}
  PROVE  GoodEntry'
  <1>1. lastFree \in Int /\ lastFree' \in Int /\ lastFree <= lastFree'
    BY KeyFields, FreeMovesOn
  <1>2. CASE cached' = cached
    <2>1. ASSUME cached.present, cached.limiter = Nil PROVE lastFree' >= cached.fetchedAt
      BY <1>1, <2>1, KeyFields DEF FreeInv, GoodEntry
    <2> QED BY <1>2, <2>1 DEF GoodEntry
  <1>3. CASE cached' = NoEntry
    <2>1. NoEntry.present = FALSE
      BY DEF NoEntry
    <2>2. cached'.present = FALSE
      BY <1>3, <2>1
    <2> QED BY <2>2, Zenon DEF GoodEntry
  <1> QED BY <1>2, <1>3

\* Every step keeps the invariant.
LEMMA FreeStep ==
  ASSUME KeySetting, KeyLimiterTypeOK, FreeInv, [KeyLimiterNext]_keyLimiterVars
  PROVE  FreeInv'
  <1>0. /\ keyClock \in Nat /\ lastFree \in Int /\ TTL \in Nat \ {0}
        /\ lastFree' \in Int /\ lastFree <= lastFree' /\ lastFree' <= keyClock' /\ keyClock <= keyClock'
        /\ keyClock' \in Nat
    BY KeyFields, FreeMovesOn DEF KeySetting
  <1>1. ASSUME NEW c \in KeyCallers
        PROVE  /\ call[c] \in KeyCalls /\ call[c].now \in Nat /\ call[c].now <= keyClock
               /\ call[c].now <= keyClock' /\ call[c].limiter \in Nat
               /\ call[c].limiter = Nil =>
                     /\ call[c].pc = "store" => lastFree' >= call[c].now
                     /\ call[c].pc = "take" \/ call[c].allowed => lastFree' > call[c].now - TTL
    <2>1. call[c] \in KeyCalls /\ call[c].now \in Nat /\ GoodCall(call[c])
      BY KeyFields DEF FreeInv
    <2>2. call[c].limiter \in Nat /\ call[c].now <= keyClock
      BY <2>1 DEF KeyCalls, GoodCall
    <2> QED BY <1>0, <2>1, <2>2, GoodStays
  <1>2. ASSUME NEW c \in KeyCallers, Fresh(call[c].now), cached.limiter = Nil
        PROVE  lastFree' > call[c].now - TTL
    <2>1. cached.fetchedAt \in Nat /\ lastFree >= cached.fetchedAt
      BY <1>2, KeyFields DEF Fresh, FreeInv, GoodEntry
    <2> QED BY <1>0, <1>1, <1>2, <2>1 DEF Fresh
  <1>3. ASSUME NEW c \in KeyCallers, Call(c) PROVE FreeInv'
    <2>1. PICK r : /\ call' = [call EXCEPT ![c] = r] /\ r.now = keyClock /\ r.allowed = FALSE
                   /\ r.pc \in {"lookup", "done"}
      <3> DEFINE b == Global!Refilled(global, keyClock)
                 r == [pc |-> IF Global!HasToken(b) THEN "lookup" ELSE "done",
                       now |-> keyClock, limiter |-> Nil, allowed |-> FALSE]
      <3>1. call' = [call EXCEPT ![c] = r]
        BY <1>3 DEF Call
      <3>2. r.now = keyClock /\ r.allowed = FALSE /\ r.pc \in {"lookup", "done"}
        OBVIOUS
      <3> HIDE DEF r
      <3> QED BY <3>1, <3>2
    <2>2. cached' = cached /\ keyClock' = keyClock
      BY <1>3 DEF Call
    <2>3. GoodEntry'
      BY <2>2, EntryStays
    <2> QED BY <1>0, <2>1, <2>2, <2>3, OneCallMoves
  <1>4. ASSUME NEW c \in KeyCallers, cached' = cached,
               call' = [call EXCEPT ![c] = [call[c] EXCEPT !.pc = "take", !.limiter = cached.limiter]],
               Fresh(call[c].now)
        PROVE  FreeInv'
    <2> DEFINE r == [call[c] EXCEPT !.pc = "take", !.limiter = cached.limiter]
    <2>1. r.now = call[c].now /\ r.limiter = cached.limiter /\ r.pc = "take"
      BY <1>1 DEF KeyCalls
    <2>2. call' = [call EXCEPT ![c] = r]
      BY <1>4
    <2> HIDE DEF r
    <2>3. r.limiter = Nil => lastFree' > r.now - TTL
      BY <1>2, <1>4, <2>1
    <2>4. GoodEntry' /\ r.now <= keyClock'
      BY <1>1, <1>4, <2>1, EntryStays
    <2> QED BY <2>1, <2>2, <2>3, <2>4, OneCallMoves
  <1>5. ASSUME NEW c \in KeyCallers, NEW s \in {"recheck", "fetch"}, cached' \in {cached, NoEntry},
               call' = [call EXCEPT ![c] = [call[c] EXCEPT !.pc = s]]
        PROVE  FreeInv'
    <2> DEFINE r == [call[c] EXCEPT !.pc = s]
    <2>1. /\ r.now = call[c].now /\ r.limiter = call[c].limiter /\ r.pc = s
          /\ r.allowed = call[c].allowed
      BY <1>1 DEF KeyCalls
    <2>2. call' = [call EXCEPT ![c] = r]
      BY <1>5
    <2> HIDE DEF r
    <2>3. r.limiter = Nil => /\ r.pc = "store" => lastFree' >= r.now
                             /\ r.pc = "take" \/ r.allowed => lastFree' > r.now - TTL
      BY <1>1, <1>5, <2>1
    <2>4. GoodEntry' /\ r.now <= keyClock'
      BY <1>1, <1>5, <2>1, EntryStays
    <2> QED BY <2>2, <2>3, <2>4, OneCallMoves
  <1>6. ASSUME NEW c \in KeyCallers, Lookup(c) PROVE FreeInv'
    <2>1. CASE Fresh(call[c].now)
      BY <1>4, <1>6, <2>1 DEF Lookup
    <2>2. CASE ~Fresh(call[c].now)
      <3>1. call' = [call EXCEPT ![c] = [call[c] EXCEPT !.pc = "recheck"]] /\ cached' = cached
        BY <1>6, <2>2 DEF Lookup
      <3> QED BY <1>5, <3>1
    <2> QED BY <2>1, <2>2
  <1>7. ASSUME NEW c \in KeyCallers, RecheckHits(c) PROVE FreeInv'
    BY <1>4, <1>7 DEF RecheckHits
  <1>8. ASSUME NEW c \in KeyCallers, RecheckMisses(c) PROVE FreeInv'
    <2>1. /\ call' = [call EXCEPT ![c] = [call[c] EXCEPT !.pc = "fetch"]]
          /\ cached' \in {cached, NoEntry}
      BY <1>8 DEF RecheckMisses, Swept
    <2> QED BY <1>5, <2>1
  <1>9. ASSUME NEW c \in KeyCallers, FetchLimit(c) PROVE FreeInv'
    <2> DEFINE r == [call[c] EXCEPT !.pc = "store", !.limiter = Len(built) + 1]
    <2>1. r.now = call[c].now /\ r.limiter = Len(built) + 1
      BY <1>1 DEF KeyCalls
    <2>2. call' = [call EXCEPT ![c] = r] /\ cached' = cached
      BY <1>9 DEF FetchLimit
    <2> HIDE DEF r
    <2>3. r.limiter # Nil
      BY <2>1, KeyFields DEF Nil
    <2>4. GoodEntry' /\ r.now <= keyClock'
      BY <1>1, <2>1, <2>2, EntryStays
    <2> QED BY <2>2, <2>3, <2>4, OneCallMoves
  <1>10. ASSUME NEW c \in KeyCallers, FetchNone(c) PROVE FreeInv'
    <2> DEFINE r == [call[c] EXCEPT !.pc = "store"]
    <2>1. r.now = call[c].now
      BY <1>1 DEF KeyCalls
    <2>2. call' = [call EXCEPT ![c] = r] /\ cached' = cached /\ lastFree' = keyClock
      BY <1>10 DEF FetchNone
    <2> HIDE DEF r
    <2>3. lastFree' >= r.now /\ lastFree' > r.now - TTL
      BY <1>0, <1>1, <2>1, <2>2
    <2>4. GoodEntry' /\ r.now <= keyClock'
      BY <1>1, <2>1, <2>2, EntryStays
    <2> QED BY <2>2, <2>3, <2>4, OneCallMoves
  <1>11. ASSUME NEW c \in KeyCallers, Store(c) PROVE FreeInv'
    <2> DEFINE r == [call[c] EXCEPT !.pc = "take"]
    <2>1. r.now = call[c].now /\ r.limiter = call[c].limiter
      BY <1>1 DEF KeyCalls
    <2>2. /\ call' = [call EXCEPT ![c] = r] /\ call[c].pc = "store"
          /\ cached'.limiter = call[c].limiter /\ cached'.fetchedAt = call[c].now
      BY <1>11 DEF Store
    <2> HIDE DEF r
    <2>3. call[c].limiter = Nil => lastFree' >= call[c].now
      BY <1>1, <2>2
    <2>4. r.limiter = Nil => lastFree' >= r.now /\ lastFree' > r.now - TTL
      BY <1>0, <1>1, <2>1, <2>3
    <2>5. GoodEntry'
      BY <2>2, <2>3 DEF GoodEntry
    <2>6. r.now <= keyClock'
      BY <1>1, <2>1
    <2> QED BY <2>2, <2>4, <2>5, <2>6, OneCallMoves
  <1>12. ASSUME NEW c \in KeyCallers, Unlimited(c) PROVE FreeInv'
    <2> DEFINE r == [call[c] EXCEPT !.pc = "done", !.allowed = TRUE]
    <2>1. r.now = call[c].now /\ r.pc = "done"
      BY <1>1 DEF KeyCalls
    <2>2. /\ call' = [call EXCEPT ![c] = r] /\ call[c].pc = "take" /\ call[c].limiter = Nil
          /\ cached' = cached
      BY <1>12 DEF Unlimited
    <2> HIDE DEF r
    <2>3. lastFree' > r.now - TTL
      BY <1>1, <2>1, <2>2
    <2>4. GoodEntry' /\ r.now <= keyClock'
      BY <1>1, <2>1, <2>2, EntryStays
    <2> QED BY <2>1, <2>2, <2>3, <2>4, OneCallMoves
  <1>13. ASSUME NEW c \in KeyCallers, TakeKeyToken(c) PROVE FreeInv'
    <2>1. PICK v : call' = [call EXCEPT ![c] = [call[c] EXCEPT !.pc = "done", !.allowed = v]]
      BY <1>13 DEF TakeKeyToken
    <2> DEFINE r == [call[c] EXCEPT !.pc = "done", !.allowed = v]
    <2>2. r.now = call[c].now /\ r.limiter = call[c].limiter
      BY <1>1 DEF KeyCalls
    <2>3. call' = [call EXCEPT ![c] = r]
      BY <2>1
    <2> HIDE DEF r
    <2>4. r.limiter # Nil /\ cached' = cached
      BY <1>13, <2>2 DEF TakeKeyToken
    <2>5. GoodEntry' /\ r.now <= keyClock'
      BY <1>1, <2>2, <2>4, EntryStays
    <2> QED BY <2>3, <2>4, <2>5, OneCallMoves
  <1>14. CASE SetKeyRateLimit \/ ClearKeyRateLimit \/ KeyTick \/ UNCHANGED keyLimiterVars
    <2>1. cached' = cached /\ call' = call
      BY <1>14 DEF SetKeyRateLimit, ClearKeyRateLimit, KeyTick, keyLimiterVars
    <2>2. ASSUME NEW c \in KeyCallers PROVE GoodCall(call[c])'
      BY <1>1, <2>1 DEF GoodCall, Covered
    <2>3. GoodEntry'
      BY <2>1, EntryStays
    <2> QED BY <1>0, <2>2, <2>3 DEF FreeInv
  <1> QED BY <1>3, <1>6, <1>7, <1>8, <1>9, <1>10, <1>11, <1>12, <1>13, <1>14
          DEF KeyLimiterNext, CallStep

\* A request passes without the key's own limit only if the key had none, or
\* the store could not tell, less than a TTL before: for any number of calls,
\* whatever lookups, queries and sweeps were under way when the limit was set.
THEOREM LimitForced == KeyLimiterSpec => []LimitForcedAfterTTL
  <1> USE KeyAssumption
  <1>1. KeyLimiterInit => FreeInv
    <2> SUFFICES ASSUME KeyLimiterInit PROVE FreeInv
      OBVIOUS
    <2>1. ZeroTime \in Int /\ ZeroTime <= 0
      BY DEF ZeroTime, KeySetting
    <2>2. lastFree \in {ZeroTime, 0} /\ keyClock = 0
      BY DEF KeyLimiterInit
    <2>3. GoodEntry
      <3>1. cached.present = FALSE
        BY DEF KeyLimiterInit, NoEntry
      <3> QED BY <3>1, Zenon DEF GoodEntry
    <2>4. ASSUME NEW c \in KeyCallers PROVE GoodCall(call[c])
      <3>1. call[c].now = 0 /\ call[c].pc = "idle" /\ call[c].allowed = FALSE
        BY DEF KeyLimiterInit
      <3> QED BY <2>2, <3>1 DEF GoodCall
    <2> QED BY <2>1, <2>2, <2>3, <2>4 DEF FreeInv
  <1>2. KeyLimiterTypeOK /\ FreeInv /\ [KeyLimiterNext]_keyLimiterVars => FreeInv'
    BY FreeStep
  <1>3. FreeInv => LimitForcedAfterTTL
    BY DEF FreeInv, GoodCall, Covered, LimitForcedAfterTTL
  <1> QED BY <1>1, <1>2, <1>3, KeyLimiterTypeCorrect, PTL DEF KeyLimiterSpec

-----------------------------------------------------------------------------
(* The calendar. *)

\* The days of the calendar: the day exists in its month.
Calendar ==
    /\ today \in Int
    /\ month \in 1 .. 12
    /\ day \in Nat \ {0} /\ day <= DaysIn(year, month)
    /\ weekday \in 0 .. 6

\* No month is shorter than 28 days.
LEMMA MonthLength == \A y, m : DaysIn(y, m) \in {28, 29, 30, 31}
  <1> TAKE y, m
  <1>1. CASE m \in {4, 6, 9, 11}
    BY <1>1, Zenon DEF DaysIn
  <1>2. CASE m = 2
    BY <1>2, Zenon DEF DaysIn
  <1>3. CASE m \notin {2, 4, 6, 9, 11}
    BY <1>3, Zenon DEF DaysIn
  <1> QED BY <1>1, <1>2, <1>3

\* The day that follows exists too.
LEMMA CalendarStep == Calendar /\ [NextDay]_periodVars => Calendar'
  <1> SUFFICES ASSUME Calendar, NextDay PROVE Calendar'
    BY DEF Calendar, periodVars, DaysIn, Leap
  <1>1. today' \in Int /\ weekday' \in 0 .. 6
    BY DEF Calendar, NextDay
  <1>2. CASE day < DaysIn(year, month)
    <2>1. day' = day + 1 /\ year' = year /\ month' = month
      BY <1>2 DEF NextDay
    <2>2. DaysIn(year, month)' = DaysIn(year, month)
      BY <2>1 DEF DaysIn, Leap
    <2>3. DaysIn(year, month) \in Nat
      BY MonthLength
    <2> QED BY <1>1, <1>2, <2>1, <2>2, <2>3 DEF Calendar
  <1>3. CASE ~(day < DaysIn(year, month))
    <2>1. day' = 1 /\ month' = IF month = 12 THEN 1 ELSE month + 1
      BY <1>3 DEF NextDay
    <2>2. month' \in 1 .. 12
      BY <2>1 DEF Calendar
    <2>3. DaysIn(year, month)' \in {28, 29, 30, 31}
      <3>1. DaysIn(year, month)' = DaysIn(year', month')
        BY DEF DaysIn, Leap
      <3> QED BY <3>1, MonthLength
    <2> QED BY <1>1, <2>1, <2>2, <2>3 DEF Calendar
  <1> QED BY <1>2, <1>3

THEOREM CalendarHolds == PeriodsSpec => []Calendar
  <1>1. PeriodsInit => Calendar
    BY MonthLength DEF PeriodsInit, Calendar
  <1> QED BY <1>1, CalendarStep, PTL DEF PeriodsSpec

\* Weeks: the days back to Monday and on to the next one are those of one week.
LEMMA Weeks ==
  ASSUME Calendar
  PROVE  /\ daysBack \in 0 .. 6 /\ daysToMonday \in 1 .. 7
         /\ daysBack + daysToMonday = 7
         /\ weekday' = (weekday + 1) % 7 =>
               IF daysToMonday = 1
               THEN daysBack' = 0
               ELSE daysBack' = daysBack + 1 /\ daysToMonday' = daysToMonday - 1
  <1>1. weekday \in {0, 1, 2, 3, 4, 5, 6}
    BY DEF Calendar
  <1> QED BY <1>1 DEF daysBack, daysToMonday, Monday

\* Date of the current day is today, whatever day of the month it is.
LEMMA DateOfDay == \A t, d, x \in Int : /\ t - d + d = t
                                        /\ t - d + (d + x) = t + x
                                        /\ t - d + (d - x) = t - x
  OBVIOUS

\* Budgets reset on the announced day and on no other, daily, weekly and
\* monthly, in every year: the last day of a month, a leap day and the turn of
\* a year within a week included.
THEOREM ResetsHold == PeriodsSpec => ResetsAsAnnounced
  <1> DEFINE Announced(p) == IF today' = PeriodResetAt(p)
                             THEN PeriodStart(p)' = today'
                             ELSE PeriodStart(p)' = PeriodStart(p) /\ PeriodResetAt(p)' = PeriodResetAt(p)
  <1>1. ASSUME Calendar, NextDay, NEW p PROVE Announced(p)
    <2>0. /\ today \in Int /\ day \in Nat \ {0} /\ day <= DaysIn(year, month)
          /\ today' = today + 1 /\ today' \in Int /\ DaysIn(year, month) \in Nat
      BY <1>1, MonthLength DEF Calendar, NextDay
    <2>1. CASE p = "weekly"
      <3>1. /\ PeriodStart(p) = Date(day - daysBack) /\ PeriodResetAt(p) = Date(day + daysToMonday)
            /\ PeriodStart(p)' = Date(day - daysBack)' /\ PeriodResetAt(p)' = Date(day + daysToMonday)'
        BY <2>1, Zenon DEF PeriodStart, PeriodResetAt
      <3>2. day' \in Int
        BY <1>1, <2>0 DEF NextDay
      <3>3. /\ daysBack \in 0 .. 6 /\ daysToMonday \in 1 .. 7
            /\ IF daysToMonday = 1
               THEN daysBack' = 0
               ELSE daysBack' = daysBack + 1 /\ daysToMonday' = daysToMonday - 1
        BY <1>1, Weeks DEF NextDay
      <3>4. /\ PeriodStart(p) = today - daysBack /\ PeriodResetAt(p) = today + daysToMonday
            /\ PeriodStart(p)' = today' - day' + (day' - daysBack')
            /\ PeriodResetAt(p)' = today' - day' + (day' + daysToMonday')
        <4>1. /\ PeriodStart(p) = today - day + (day - daysBack)
              /\ PeriodResetAt(p) = today - day + (day + daysToMonday)
              /\ PeriodStart(p)' = today' - day' + (day' - daysBack')
              /\ PeriodResetAt(p)' = today' - day' + (day' + daysToMonday')
          BY <3>1 DEF Date
        <4> QED BY <2>0, <3>3, <4>1
      <3>5. CASE daysToMonday = 1
        <4>1. PeriodStart(p)' = today'
          <5>1. daysBack' = 0 /\ today' \in Int
            BY <2>0, <3>3, <3>5
          <5>2. today' - day' + (day' - 0) = today' - 0
            BY <3>2, <5>1, DateOfDay
          <5> QED BY <3>4, <5>1, <5>2
        <4> QED BY <2>0, <3>4, <3>5, <4>1
      <3>6. CASE daysToMonday # 1
        <4>1. daysBack' = daysBack + 1 /\ daysToMonday' = daysToMonday - 1
          BY <3>3, <3>6
        <4>2. PeriodStart(p)' = today - daysBack /\ PeriodResetAt(p)' = today + daysToMonday
          <5>1. today' \in Int /\ daysBack' \in Int /\ daysToMonday' \in Int
            BY <2>0, <3>3, <4>1
          <5>2. /\ today' - day' + (day' - daysBack') = today' - daysBack'
                /\ today' - day' + (day' + daysToMonday') = today' + daysToMonday'
            BY <3>2, <5>1, DateOfDay
          <5>3. today' - daysBack' = today - daysBack /\ today' + daysToMonday' = today + daysToMonday
            BY <2>0, <3>3, <4>1
          <5> QED BY <3>4, <5>2, <5>3
        <4>3. today' # PeriodResetAt(p)
          BY <2>0, <3>3, <3>4, <3>6
        <4> QED BY <3>4, <4>2, <4>3
      <3> QED BY <3>5, <3>6
    <2>2. CASE p = "monthly"
      <3>1. /\ PeriodStart(p) = Date(1) /\ PeriodResetAt(p) = NextMonth
            /\ PeriodStart(p)' = Date(1)' /\ PeriodResetAt(p)' = NextMonth'
        BY <2>2, Zenon DEF PeriodStart, PeriodResetAt
      <3>2. /\ PeriodStart(p) = today - day + 1
            /\ PeriodResetAt(p) = today - day + 1 + DaysIn(year, month)
            /\ PeriodStart(p)' = today' - day' + 1
            /\ PeriodResetAt(p)' = today' - day' + 1 + DaysIn(year, month)'
        BY <3>1 DEF NextMonth, Date
      <3>3. CASE day < DaysIn(year, month)
        <4>1. day' = day + 1 /\ DaysIn(year, month)' = DaysIn(year, month)
          BY <1>1, <3>3 DEF NextDay, DaysIn, Leap
        <4>2. PeriodStart(p)' = PeriodStart(p) /\ PeriodResetAt(p)' = PeriodResetAt(p)
          BY <2>0, <3>2, <4>1
        <4>3. today' # PeriodResetAt(p)
          BY <2>0, <3>2, <3>3
        <4> QED BY <4>2, <4>3
      <3>4. CASE ~(day < DaysIn(year, month))
        <4>1. day' = 1 /\ day = DaysIn(year, month)
          BY <1>1, <2>0, <3>4 DEF NextDay
        <4>2. PeriodStart(p)' = today' /\ today' = PeriodResetAt(p)
          BY <2>0, <3>2, <4>1
        <4> QED BY <4>2
      <3> QED BY <3>3, <3>4
    <2>3. CASE p \notin {"weekly", "monthly"}
      <3>1. /\ PeriodResetAt(p) = Date(day + 1) /\ PeriodStart(p)' = Date(day)'
        BY <2>3, Zenon DEF PeriodStart, PeriodResetAt
      <3>2. day' \in Int
        BY <1>1, <2>0 DEF NextDay
      <3>3. PeriodResetAt(p) = today - day + (day + 1) /\ PeriodStart(p)' = today' - day' + day'
        BY <3>1 DEF Date
      <3>4. today' = PeriodResetAt(p) /\ PeriodStart(p)' = today'
        <4>1. today' = PeriodResetAt(p)
          BY <2>0, <3>3
        <4>2. today' - day' + day' = today'
          <5>1. today' \in Int
            BY <2>0
          <5> QED BY <3>2, <5>1, DateOfDay
        <4>3. PeriodStart(p)' = today'
          BY <3>3, <4>2
        <4> QED BY <4>1, <4>3
      <3> QED BY <3>4
    <2> QED BY <2>1, <2>2, <2>3
  <1>2. ASSUME Calendar, [NextDay]_periodVars PROVE [\A p \in Periods : Announced(p)]_periodVars
    BY <1>1, <1>2
  <1> QED BY <1>2, CalendarHolds, PTL DEF PeriodsSpec, ResetsAsAnnounced

-----------------------------------------------------------------------------
(*                            BudgetEnforcement                            *)

\* What the theorems assume of the constants: their types, finitely many
\* handlers, and that request logs, if they are pruned at all, are kept for a
\* budget period.
Setting ==
    /\ BudgetAssumption
    /\ IsFiniteSet(Slots)
    /\ Retention = 0 \/ Retention >= PeriodLength - 1

-----------------------------------------------------------------------------
(* Periods. *)

\* A period starts less than its length ago.
LEMMA PeriodStartLemma ==
  ASSUME Setting, NEW t \in Nat
  PROVE  CurrentPeriodStart(t) \in Int /\ CurrentPeriodStart(t) <= t /\ t < CurrentPeriodStart(t) + PeriodLength
  <1>1. PeriodLength \in Nat /\ PeriodLength > 0
    BY DEF Setting, BudgetAssumption
  <1>2. t % PeriodLength \in 0 .. PeriodLength - 1
    BY <1>1
  <1> QED BY <1>1, <1>2 DEF CurrentPeriodStart

\* Periods follow each other.
LEMMA PeriodStartMonotone ==
  ASSUME Setting, NEW t \in Nat, NEW u \in Nat, t <= u
  PROVE  /\ CurrentPeriodStart(t) <= CurrentPeriodStart(u)
         /\ CurrentPeriodStart(t) = CurrentPeriodStart(u) \/ t < CurrentPeriodStart(u)
  <1>1. PeriodLength \in Nat /\ PeriodLength > 0
    BY DEF Setting, BudgetAssumption
  <1> DEFINE q == t \div PeriodLength
             v == u \div PeriodLength
  <1>2. q \in Int /\ v \in Int
    BY <1>1
  <1>3. CurrentPeriodStart(t) = PeriodLength * q /\ CurrentPeriodStart(u) = PeriodLength * v
    BY <1>1 DEF CurrentPeriodStart
  <1>4. q <= v
    BY <1>1
  <1> HIDE DEF q, v
  <1>5. CASE q = v
    BY <1>1, <1>2, <1>3, <1>5
  <1>6. CASE q + 1 <= v
    <2>1. PeriodLength * (q + 1) <= PeriodLength * v
      BY <1>1, <1>2, <1>6
    <2>2. PeriodLength * (q + 1) = PeriodLength * q + PeriodLength
      BY <1>1, <1>2
    <2>3. t < PeriodLength * q + PeriodLength
      BY <1>3, PeriodStartLemma
    <2>4. PeriodLength * q \in Int /\ PeriodLength * v \in Int
      BY <1>1, <1>2
    <2> QED BY <1>1, <1>3, <2>1, <2>2, <2>3, <2>4
  <1> QED BY <1>2, <1>4, <1>5, <1>6

-----------------------------------------------------------------------------
(* Type correctness, and what the clock bounds. *)

\* A request reads the clock before it is checked, and logs an entry it stamped.
GoodSlot(r) ==
    /\ r.pc = "check" => r.now <= budgetClock /\ r.at >= 1
    /\ r.pc = "log" => r.entry \in DOMAIN ledger

\* No entry is stamped in the future, and a prune never reaches into the
\* retention.
Sane ==
    /\ BudgetTypeOK
    /\ \A n \in DOMAIN ledger : ledger[n].ts <= budgetClock
    /\ \A s \in Slots : GoodSlot(slot[s])
    /\ cutoff # -1 => Retention > 0 /\ cutoff <= budgetClock - Retention

\* The fields of a slot.
LEMMA SlotFields ==
  ASSUME BudgetTypeOK, NEW s \in Slots
  PROVE  /\ slot[s].pc \in {"idle", "check", "forward", "log"}
         /\ slot[s].pc = "check" =>
              slot[s] \in [pc : {"check"}, key : BudgetKeys, now : Nat, at : Nat]
         /\ slot[s].pc = "forward" => slot[s] \in [pc : {"forward"}, key : BudgetKeys]
         /\ slot[s].pc = "log" => slot[s] \in [pc : {"log"}, entry : Nat]
  <1>1. slot[s] \in Requests
    BY DEF BudgetTypeOK
  <1>2. IdleSlot.pc = "idle"
    BY DEF IdleSlot
  <1> QED BY <1>1, <1>2 DEF Requests

\* The budget a check has come to is one of the key's scopes.
LEMMA BudgetScope ==
  ASSUME Setting, BudgetTypeOK, NEW s \in Slots, GoodSlot(slot[s]), MoreBudgets(s)
  PROVE  Budget(s) \in Scopes /\ slot[s].at \in DOMAIN Budgets[slot[s].key]
  <1>1. slot[s].key \in BudgetKeys /\ slot[s].at \in Nat
    BY SlotFields DEF MoreBudgets
  <1>2. slot[s].at >= 1 /\ slot[s].at <= Len(Budgets[slot[s].key])
    BY DEF MoreBudgets, GoodSlot
  <1>3. Budgets[slot[s].key] \in Seq(Scopes)
    BY <1>1 DEF Setting, BudgetAssumption
  <1>4. slot[s].at \in 1 .. Len(Budgets[slot[s].key])
    BY <1>1, <1>2, <1>3
  <1> QED BY <1>3, <1>4 DEF Budget

\* The ledger is a sequence whose numbers stay what they are.
LEMMA LedgerFields ==
  ASSUME BudgetTypeOK
  PROVE  /\ Len(ledger) \in Nat /\ DOMAIN ledger = 1 .. Len(ledger)
         /\ \A n \in DOMAIN ledger : ledger[n].key \in BudgetKeys /\ ledger[n].ts \in Nat
  <1> DEFINE Entry == [key : BudgetKeys, ts : Nat]
  <1>1. ledger \in Seq(Entry)
    BY DEF BudgetTypeOK
  <1> HIDE DEF Entry
  <1>2. Len(ledger) \in Nat /\ DOMAIN ledger = 1 .. Len(ledger)
    BY <1>1
  <1>3. \A n \in DOMAIN ledger : ledger[n] \in Entry
    BY <1>1, <1>2
  <1> QED BY <1>2, <1>3 DEF Entry

Numbered == Len(ledger) \in Nat /\ DOMAIN ledger = 1 .. Len(ledger)

LEMMA LedgerDomain == BudgetTypeOK => Numbered
  BY LedgerFields DEF Numbered

\* A step of a request that stamps no entry keeps the state sane.
LEMMA SlotMoves ==
  ASSUME Sane, NEW s \in Slots, NEW r \in Requests, GoodSlot(r),
         slot' = [slot EXCEPT ![s] = r], UNCHANGED <<budgetClock, ledger, writing, rows, cutoff>>,
         queue' \in Seq(DOMAIN ledger), Len(queue') <= BufferSize,
         lost' \subseteq DOMAIN ledger, waived' \in [Scopes -> Nat], errors' \in Nat
  PROVE  Sane'
  <1>1. slot' \in [Slots -> Requests]
    BY DEF Sane, BudgetTypeOK
  <1>2. BudgetTypeOK'
    BY <1>1 DEF Sane, BudgetTypeOK
  <1>3. ASSUME NEW t \in Slots PROVE GoodSlot(slot[t])'
    <2>1. slot'[t] = IF t = s THEN r ELSE slot[t]
      BY DEF Sane, BudgetTypeOK
    <2> QED BY <2>1 DEF Sane, GoodSlot
  <1> QED BY <1>2, <1>3 DEF Sane

\* What a request's step does, but for the one that stamps an entry.
LEMMA RequestSane ==
  ASSUME Setting, Sane, NEW s \in Slots, RequestStep(s), ~FinishWithCost(s)
  PROVE  Sane'
  <1>0. /\ BudgetTypeOK /\ GoodSlot(slot[s]) /\ budgetClock \in Nat
        /\ waived \in [Scopes -> Nat] /\ errors \in Nat /\ queue \in Seq(DOMAIN ledger)
        /\ Len(queue) <= BufferSize /\ lost \subseteq DOMAIN ledger
    BY DEF Sane, BudgetTypeOK
  <1>1. IdleSlot \in Requests /\ GoodSlot(IdleSlot)
    BY DEF IdleSlot, Requests, GoodSlot
  <1>2. ASSUME NEW k \in BudgetKeys PROVE Forwarding(k) \in Requests /\ GoodSlot(Forwarding(k))
    BY DEF Forwarding, Requests, GoodSlot
  <1>3. ASSUME MoreBudgets(s)
        PROVE  LET r == [slot[s] EXCEPT !.at = @ + 1] IN r \in Requests /\ GoodSlot(r)
    <2> DEFINE r == [slot[s] EXCEPT !.at = @ + 1]
    <2>1. /\ slot[s] \in [pc : {"check"}, key : BudgetKeys, now : Nat, at : Nat]
          /\ slot[s].now <= budgetClock /\ slot[s].at >= 1
      BY <1>0, <1>3, SlotFields DEF MoreBudgets, GoodSlot
    <2>2. r \in [pc : {"check"}, key : BudgetKeys, now : Nat, at : Nat]
          /\ r.now = slot[s].now /\ r.at = slot[s].at + 1
      BY <2>1
    <2>3. r \in Requests
      BY <2>2 DEF Requests
    <2>4. GoodSlot(r)
      BY <2>1, <2>2 DEF GoodSlot
    <2> QED BY <2>3, <2>4
  <1>4. ASSUME NEW k \in BudgetKeys, Arrive(s, k) PROVE Sane'
    <2>1. Checking(k, budgetClock) \in Requests /\ GoodSlot(Checking(k, budgetClock))
      BY <1>0 DEF Checking, Requests, GoodSlot
    <2> QED BY <1>0, <1>4, <2>1, SlotMoves DEF Arrive
  <1>5. ASSUME NEW k \in BudgetKeys, BudgetsUnavailable(s, k) PROVE Sane'
    <2>1. waived' \in [Scopes -> Nat] /\ errors' \in Nat
      BY <1>0, <1>5 DEF BudgetsUnavailable
    <2> QED BY <1>0, <1>2, <1>5, <2>1, SlotMoves DEF BudgetsUnavailable
  <1>6. CASE CheckBudget(s)
    <2>1. PICK r \in {IdleSlot, [slot[s] EXCEPT !.at = @ + 1]} : slot' = [slot EXCEPT ![s] = r]
      BY <1>6 DEF CheckBudget
    <2>2. r \in Requests /\ GoodSlot(r)
      BY <1>1, <1>3, <1>6, <2>1 DEF CheckBudget
    <2> QED BY <1>0, <1>6, <2>1, <2>2, SlotMoves DEF CheckBudget
  <1>7. CASE SpendUnavailable(s)
    <2>1. slot' = [slot EXCEPT ![s] = [slot[s] EXCEPT !.at = @ + 1]] /\ MoreBudgets(s)
      BY <1>7 DEF SpendUnavailable
    <2>2. waived' \in [Scopes -> Nat] /\ errors' \in Nat
      <3>1. waived' = [waived EXCEPT ![Budget(s)] = @ + 1] /\ errors' = errors + 1
        BY <1>7 DEF SpendUnavailable
      <3>2. Budget(s) \in Scopes
        BY <1>0, <1>7, BudgetScope DEF SpendUnavailable
      <3> QED BY <1>0, <3>1, <3>2
    <2> QED BY <1>0, <1>3, <1>7, <2>1, <2>2, SlotMoves DEF SpendUnavailable
  <1>8. CASE Forward(s)
    <2>1. slot[s].key \in BudgetKeys
      BY <1>0, <1>8, SlotFields DEF Forward
    <2> QED BY <1>0, <1>2, <1>8, <2>1, SlotMoves DEF Forward
  <1>9. CASE FinishWithoutCost(s)
    BY <1>0, <1>1, <1>9, SlotMoves DEF FinishWithoutCost
  <1>10. CASE Log(s)
    <2>1. slot[s].entry \in DOMAIN ledger
      BY <1>0, <1>10 DEF Log, GoodSlot
    <2>2. BufferSize \in Nat
      BY DEF Setting, BudgetAssumption
    <2>3. queue' \in Seq(DOMAIN ledger) /\ Len(queue') <= BufferSize
      BY <1>0, <1>10, <2>1, <2>2 DEF Log
    <2> QED BY <1>0, <1>1, <1>10, <2>3, SlotMoves DEF Log
  <1>11. CASE LogDrops(s)
    <2>1. slot[s].entry \in DOMAIN ledger
      BY <1>0, <1>11 DEF LogDrops, GoodSlot
    <2> QED BY <1>0, <1>1, <1>11, <2>1, SlotMoves DEF LogDrops
  <1> QED BY <1>4, <1>5, <1>6, <1>7, <1>8, <1>9, <1>10, <1>11 DEF RequestStep

\* A stamped entry is appended to the ledger.
LEMMA StampSane ==
  ASSUME Sane, NEW s \in Slots, FinishWithCost(s)
  PROVE  /\ Sane'
         /\ Len(ledger') = Len(ledger) + 1
         /\ DOMAIN ledger' = DOMAIN ledger \union {Len(ledger) + 1}
         /\ \A n \in DOMAIN ledger : ledger'[n] = ledger[n]
         /\ ledger'[Len(ledger) + 1] = [key |-> slot[s].key, ts |-> budgetClock]
  <1>0. BudgetTypeOK /\ budgetClock \in Nat /\ slot[s].key \in BudgetKeys
    <2>1. BudgetTypeOK /\ slot[s].pc = "forward"
      BY DEF Sane, FinishWithCost
    <2> QED BY <2>1, SlotFields DEF BudgetTypeOK
  <1>1. [key |-> slot[s].key, ts |-> budgetClock] \in [key : BudgetKeys, ts : Nat]
    BY <1>0
  <1>2. /\ ledger \in Seq([key : BudgetKeys, ts : Nat])
        /\ ledger' = Append(ledger, [key |-> slot[s].key, ts |-> budgetClock])
    BY <1>0 DEF BudgetTypeOK, FinishWithCost
  <1>3. /\ ledger' \in Seq([key : BudgetKeys, ts : Nat])
        /\ Len(ledger) \in Nat /\ Len(ledger') = Len(ledger) + 1
        /\ DOMAIN ledger = 1 .. Len(ledger) /\ DOMAIN ledger' = 1 .. Len(ledger) + 1
        /\ \A n \in DOMAIN ledger : ledger'[n] = ledger[n]
        /\ ledger'[Len(ledger) + 1] = [key |-> slot[s].key, ts |-> budgetClock]
    BY <1>1, <1>2
  <1>4. /\ DOMAIN ledger' = DOMAIN ledger \union {Len(ledger) + 1}
        /\ DOMAIN ledger \subseteq DOMAIN ledger'
    BY <1>3
  <1>5. slot' = [slot EXCEPT ![s] = Logging(Len(ledger) + 1)]
        /\ Logging(Len(ledger) + 1) \in Requests
        /\ Logging(Len(ledger) + 1).pc = "log"
        /\ Logging(Len(ledger) + 1).entry = Len(ledger) + 1
    BY <1>3 DEF FinishWithCost, Logging, Requests
  <1>6. queue' \in Seq(DOMAIN ledger')
    <2>1. queue' = queue /\ queue \in Seq(DOMAIN ledger)
      BY <1>0 DEF BudgetTypeOK, FinishWithCost
    <2> QED BY <1>4, <2>1
  <1>7. BudgetTypeOK'
    BY <1>0, <1>3, <1>4, <1>5, <1>6 DEF BudgetTypeOK, FinishWithCost
  <1>8. ASSUME NEW n \in DOMAIN ledger' PROVE ledger'[n].ts <= budgetClock'
    <2>1. budgetClock' = budgetClock
      BY DEF FinishWithCost
    <2>2. CASE n \in DOMAIN ledger
      BY <1>3, <2>1, <2>2 DEF Sane
    <2>3. CASE n = Len(ledger) + 1
      BY <1>0, <1>3, <2>1, <2>3
    <2> QED BY <1>4, <2>2, <2>3
  <1>9. ASSUME NEW t \in Slots PROVE GoodSlot(slot[t])'
    <2>1. slot'[t] = IF t = s THEN Logging(Len(ledger) + 1) ELSE slot[t]
      BY <1>0, <1>5 DEF BudgetTypeOK
    <2>2. budgetClock' = budgetClock
      BY DEF FinishWithCost
    <2> QED BY <1>4, <1>5, <2>1, <2>2 DEF Sane, GoodSlot
  <1> QED BY <1>3, <1>4, <1>7, <1>8, <1>9 DEF Sane, FinishWithCost

\* What the writer goroutine, the maintenance loop and the clock do.
LEMMA OtherSane ==
  ASSUME Setting, Sane,
         \/ Take \/ InsertRequestLog \/ InsertFails \/ PruneTick \/ PruneRequestLogs
         \/ PruneFails \/ BudgetTick \/ UNCHANGED budgetVars
  PROVE  Sane' /\ UNCHANGED <<slot, ledger, waived>>
  <1>0. BudgetTypeOK /\ budgetClock \in Nat /\ Retention \in Nat
    BY DEF Sane, BudgetTypeOK, Setting, BudgetAssumption
  <1>1. ASSUME UNCHANGED <<slot, ledger, waived, budgetClock, cutoff>>,
               queue' \in Seq(DOMAIN ledger), Len(queue') <= BufferSize,
               writing' \in {0} \union DOMAIN ledger, rows' \subseteq DOMAIN ledger,
               lost' \subseteq DOMAIN ledger, errors' \in Nat
        PROVE  Sane'
    BY <1>0, <1>1 DEF Sane, BudgetTypeOK, GoodSlot
  <1>2. CASE Take
    <2>1. /\ queue' \in Seq(DOMAIN ledger) /\ Len(queue') <= BufferSize
          /\ writing' \in DOMAIN ledger
      <3>1. queue \in Seq(DOMAIN ledger) /\ queue # <<>> /\ Len(queue) <= BufferSize
            /\ BufferSize \in Nat
        BY <1>0, <1>2 DEF Take, BudgetTypeOK, Setting, BudgetAssumption
      <3>2. Head(queue) \in DOMAIN ledger /\ Tail(queue) \in Seq(DOMAIN ledger)
            /\ Len(Tail(queue)) <= BufferSize
        BY <3>1
      <3> QED BY <1>2, <3>2 DEF Take
    <2> QED BY <1>0, <1>1, <1>2, <2>1 DEF Take, BudgetTypeOK
  <1>3. CASE InsertRequestLog \/ InsertFails
    BY <1>0, <1>1, <1>3 DEF InsertRequestLog, InsertFails, BudgetTypeOK
  <1>4. CASE PruneTick
    BY <1>0, <1>4 DEF PruneTick, Cutoff, Sane, BudgetTypeOK, GoodSlot
  <1>5. CASE PruneRequestLogs
    <2>1. rows' \subseteq rows /\ cutoff' \in {-1, cutoff}
      BY <1>5 DEF PruneRequestLogs
    <2> QED BY <1>0, <1>5, <2>1 DEF PruneRequestLogs, Sane, BudgetTypeOK, GoodSlot
  <1>6. CASE PruneFails
    BY <1>0, <1>6 DEF PruneFails, Sane, BudgetTypeOK, GoodSlot
  <1>7. CASE BudgetTick
    <2>1. budgetClock' = budgetClock + 1 /\ budgetClock' \in Nat
      BY <1>0, <1>7 DEF BudgetTick
    <2>2. BudgetTypeOK'
      BY <1>0, <1>7, <2>1 DEF BudgetTick, BudgetTypeOK
    <2>3. \A n \in DOMAIN ledger' : ledger'[n].ts <= budgetClock'
      <3>1. \A n \in DOMAIN ledger : ledger[n].ts \in Nat /\ ledger[n].ts <= budgetClock
        BY <1>0, LedgerFields DEF Sane
      <3> QED BY <1>0, <1>7, <2>1, <3>1 DEF BudgetTick
    <2>4. ASSUME NEW s \in Slots PROVE GoodSlot(slot[s])'
      <3>1. slot[s].pc = "check" => slot[s].now \in Nat
        BY <1>0, SlotFields
      <3> QED BY <1>0, <1>7, <2>1, <3>1 DEF BudgetTick, Sane, GoodSlot
    <2>5. cutoff' # -1 => Retention > 0 /\ cutoff' <= budgetClock' - Retention
      BY <1>0, <1>7, <2>1 DEF BudgetTick, Sane, BudgetTypeOK
    <2> QED BY <1>7, <2>2, <2>3, <2>4, <2>5 DEF Sane, BudgetTick
  <1>8. CASE UNCHANGED budgetVars
    BY <1>8 DEF budgetVars, Sane, BudgetTypeOK, GoodSlot
  <1> QED BY <1>2, <1>3, <1>4, <1>5, <1>6, <1>7, <1>8
          DEF Take, InsertRequestLog, InsertFails, PruneTick, PruneRequestLogs, PruneFails, BudgetTick, budgetVars

LEMMA SaneStep ==
  ASSUME Setting, Sane, [BudgetNext]_budgetVars
  PROVE  Sane'
  BY RequestSane, StampSane, OtherSane DEF BudgetNext

\* The state keeps its type: the channel never holds more than its capacity,
\* the store and the writer only ever hold entries that were stamped.
THEOREM BudgetSane == ASSUME Setting PROVE BudgetSpec => []Sane
  <1>1. BudgetInit => Sane
    <2> SUFFICES ASSUME BudgetInit PROVE Sane
      OBVIOUS
    <2>1. BufferSize \in Nat
      BY DEF Setting, BudgetAssumption
    <2>2. IdleSlot \in Requests /\ IdleSlot.pc = "idle"
      BY DEF IdleSlot, Requests
    <2>3. BudgetTypeOK
      BY <2>1, <2>2 DEF BudgetInit, BudgetTypeOK
    <2>4. DOMAIN ledger = {}
      BY DEF BudgetInit
    <2> QED BY <2>2, <2>3, <2>4 DEF BudgetInit, Sane, GoodSlot
  <1>2. Sane /\ [BudgetNext]_budgetVars => Sane'
    BY SaneStep
  <1> QED BY <1>1, <1>2, PTL DEF BudgetSpec

\* In particular it has the type it should.
THEOREM BudgetTypeCorrect == ASSUME Setting PROVE BudgetSpec => []BudgetTypeOK
  <1>1. Sane => BudgetTypeOK
    BY DEF Sane
  <1> QED BY <1>1, BudgetSane, PTL

-----------------------------------------------------------------------------
(* What is refused stays refused. *)

\* Entries are stamped once and for all.
LEMMA LedgerGrows ==
  ASSUME Setting, Sane, [BudgetNext]_budgetVars
  PROVE  \A n \in DOMAIN ledger : n \in DOMAIN ledger' /\ ledger'[n] = ledger[n]
  <1>1. ASSUME NEW s \in Slots, FinishWithCost(s)
        PROVE  \A n \in DOMAIN ledger : n \in DOMAIN ledger' /\ ledger'[n] = ledger[n]
    BY <1>1, StampSane
  <1>2. ASSUME NEW s \in Slots, RequestStep(s), ~FinishWithCost(s) PROVE ledger' = ledger
    BY <1>2 DEF RequestStep, Arrive, BudgetsUnavailable, CheckBudget, SpendUnavailable, Forward,
                FinishWithoutCost, Log, LogDrops
  <1>3. ASSUME ~\E s \in Slots : RequestStep(s) PROVE ledger' = ledger
    BY <1>3, OtherSane DEF BudgetNext
  <1> QED BY <1>1, <1>2, <1>3

\* A prune takes no row of the current period.
LEMMA RowsKept ==
  ASSUME Setting, Sane, [BudgetNext]_budgetVars,
         NEW n \in rows, ledger[n].ts >= CurrentPeriodStart(budgetClock)
  PROVE  n \in rows'
  <1>1. ASSUME PruneRequestLogs PROVE n \in rows'
    <2>1. /\ cutoff \in Int /\ budgetClock \in Nat /\ ledger[n].ts \in Nat
          /\ Retention \in Nat /\ PeriodLength \in Nat \ {0}
      BY LedgerFields DEF Sane, BudgetTypeOK, Setting, BudgetAssumption
    <2>2. Retention > 0 /\ cutoff <= budgetClock - Retention
      BY <1>1 DEF PruneRequestLogs, Sane
    <2>3. /\ CurrentPeriodStart(budgetClock) \in Int /\ budgetClock < CurrentPeriodStart(budgetClock) + PeriodLength
          /\ Retention >= PeriodLength - 1
      BY <2>1, <2>2, PeriodStartLemma DEF Setting
    <2>4. ~(ledger[n].ts < cutoff)
      BY <2>1, <2>2, <2>3
    <2> QED BY <1>1, <2>4 DEF PruneRequestLogs, Expired
  <1>2. ASSUME ~PruneRequestLogs PROVE rows \subseteq rows'
    BY <1>2 DEF BudgetNext, RequestStep, Arrive, BudgetsUnavailable, CheckBudget,
                SpendUnavailable, Forward, FinishWithCost, FinishWithoutCost, Log, LogDrops, Take,
                InsertRequestLog, InsertFails, PruneTick, PruneFails, BudgetTick, budgetVars
  <1> QED BY <1>1, <1>2

\* The entries that are counted are finitely many.
LEMMA CountedFinite ==
  ASSUME BudgetTypeOK, NEW es \in SUBSET DOMAIN ledger, NEW b, NEW t
  PROVE  IsFiniteSet(Counted(es, b, t)) /\ Cardinality(Counted(es, b, t)) \in Nat
  <1>1. IsFiniteSet(DOMAIN ledger)
    BY LedgerFields, FS_Interval
  <1>2. Counted(es, b, t) \subseteq DOMAIN ledger
    BY DEF Counted
  <1> QED BY <1>1, <1>2, FS_Subset, FS_CardinalityType

\* A request that a budget refuses is refused until the budget resets: no prune
\* and no failure takes back what was spent in the period, provided that the
\* retention is no shorter than a period.
THEOREM RefusalsLast == ASSUME Setting PROVE BudgetSpec => RefusedUntilReset
  <1> DEFINE KeptRows == \A b \in Scopes :
                        /\ CurrentPeriodStart(budgetClock') = CurrentPeriodStart(budgetClock)
                        /\ GetSpendSince(b, CurrentPeriodStart(budgetClock)) >= Limit[b]
                        => GetSpendSince(b, CurrentPeriodStart(budgetClock))' >= Limit[b]
  <1>1. ASSUME Sane, Sane', [BudgetNext]_budgetVars PROVE [KeptRows]_budgetVars
    <2> SUFFICES ASSUME NEW b \in Scopes, CurrentPeriodStart(budgetClock') = CurrentPeriodStart(budgetClock),
                        GetSpendSince(b, CurrentPeriodStart(budgetClock)) >= Limit[b]
                 PROVE  GetSpendSince(b, CurrentPeriodStart(budgetClock))' >= Limit[b]
      OBVIOUS
    <2> DEFINE C == Counted(rows, b, CurrentPeriodStart(budgetClock))
    <2>1. C \subseteq C'
      <3> SUFFICES ASSUME NEW n \in C PROVE n \in C'
        OBVIOUS
      <3>1. n \in rows /\ ledger[n].key \in Members[b] /\ ledger[n].ts >= CurrentPeriodStart(budgetClock)
        BY DEF Counted
      <3>2. n \in rows' /\ ledger'[n] = ledger[n]
        BY <1>1, <3>1, RowsKept, LedgerGrows DEF Sane, BudgetTypeOK
      <3> QED BY <3>1, <3>2 DEF Counted
    <2>2. /\ IsFiniteSet(C) /\ Cardinality(C) \in Nat
          /\ IsFiniteSet(C') /\ Cardinality(C') \in Nat
      <3>1. IsFiniteSet(C) /\ Cardinality(C) \in Nat
        BY <1>1, CountedFinite DEF Sane, BudgetTypeOK
      <3>2. IsFiniteSet(DOMAIN ledger') /\ C' \subseteq DOMAIN ledger'
        <4>1. Len(ledger') \in Nat /\ DOMAIN ledger' = 1 .. Len(ledger')
          <5>1. BudgetTypeOK'
            BY <1>1 DEF Sane
          <5>2. Numbered'
            BY <5>1, LedgerDomain, PTL
          <5> QED BY <5>2 DEF Numbered
        <4>2. rows' \subseteq DOMAIN ledger'
          BY <1>1 DEF Sane, BudgetTypeOK
        <4>3. IsFiniteSet(1 .. Len(ledger'))
          BY <4>1, FS_Interval
        <4>4. C' \subseteq rows'
          BY DEF Counted
        <4> QED BY <4>1, <4>2, <4>3, <4>4
      <3> QED BY <3>1, <3>2, FS_Subset, FS_CardinalityType
    <2>3. Cardinality(C) <= Cardinality(C')
      BY <2>1, <2>2, FS_Subset
    <2>4. Limit[b] \in Nat
      BY DEF Setting, BudgetAssumption
    <2>5. Cardinality(C) >= Limit[b]
      BY DEF GetSpendSince
    <2> HIDE DEF C
    <2>6. Cardinality(C') >= Limit[b]
      BY <2>2, <2>3, <2>4, <2>5
    <2> QED BY <2>6 DEF GetSpendSince, C
  <1>2. Sane /\ Sane' /\ [BudgetNext]_budgetVars => [KeptRows]_budgetVars
    BY <1>1
  <1> QED BY <1>2, BudgetSane, PTL DEF BudgetSpec, RefusedUntilReset

-----------------------------------------------------------------------------
(* How far spending passes a limit. *)

\* Where an entry of the current period is: in the store, lost, in the channel,
\* with the writer, or with the handler that stamped it.
InChannel == {queue[k] : k \in 1 .. Len(queue)}
Handlers == {s \in Slots : slot[s].pc = "log"}
WithHandler == {slot[s].entry : s \in Handlers}
Places == rows \union lost \union InChannel \union {writing} \union WithHandler

Placed == \A n \in DOMAIN ledger : ledger[n].ts >= CurrentPeriodStart(budgetClock) => n \in Places

\* The requests that have passed the check of a scope, or did without.
PassedBy(r, b) ==
    \/ r.pc = "forward" /\ r.key \in Members[b]
    \/ /\ r.pc = "check"
       /\ \E n \in DOMAIN Budgets[r.key] : n < r.at /\ Budgets[r.key][n] = b
Pending(b) == {s \in Slots : PassedBy(slot[s], b)}

\* OvershootBounded with what is still to be spent: each request that passes a
\* check finds room for itself, whatever is under way.
Account(b) ==
    Spent(b) + Cardinality(Pending(b))
        <= Limit[b] + Cardinality(Slots) + BufferSize + Missed(b) + waived[b]

\* The numbers of an account.
LEMMA AccountTypes ==
  ASSUME Setting, Sane, NEW b \in Scopes
  PROVE  /\ Spent(b) \in Nat /\ Missed(b) \in Nat /\ waived[b] \in Nat
         /\ Limit[b] \in Nat \ {0} /\ Cardinality(Slots) \in Nat /\ BufferSize \in Nat
         /\ IsFiniteSet(Pending(b)) /\ Cardinality(Pending(b)) \in Nat
  <1>1. Spent(b) \in Nat /\ Missed(b) \in Nat
    BY CountedFinite DEF Sane, BudgetTypeOK, Spent, Missed
  <1>2. IsFiniteSet(Pending(b)) /\ Cardinality(Pending(b)) \in Nat /\ Cardinality(Slots) \in Nat
    BY FS_Subset, FS_CardinalityType DEF Pending, Setting
  <1> QED BY <1>1, <1>2 DEF Sane, BudgetTypeOK, Setting, BudgetAssumption

\* A step of one request changes where one request stands.
LEMMA PendingMoves ==
  ASSUME BudgetTypeOK, NEW s \in Slots, NEW r, slot' = [slot EXCEPT ![s] = r], NEW b
  PROVE  /\ Pending(b)' \subseteq Pending(b) \union {s}
         /\ ~PassedBy(r, b) => Pending(b)' = Pending(b) \ {s}
         /\ PassedBy(slot[s], b) => Pending(b)' \subseteq Pending(b)
         /\ slot[s].pc # "log" => WithHandler \subseteq WithHandler'
  <1>1. \A t \in Slots : slot'[t] = IF t = s THEN r ELSE slot[t]
    BY DEF BudgetTypeOK
  <1>2. \A t \in Slots : t # s => (PassedBy(slot'[t], b) <=> PassedBy(slot[t], b))
    BY <1>1
  <1>3. Pending(b)' = {t \in Slots : PassedBy(slot'[t], b)}
    BY DEF Pending, PassedBy
  <1>4. PassedBy(slot'[s], b) <=> PassedBy(r, b)
    BY <1>1
  <1>5. ASSUME slot[s].pc # "log" PROVE WithHandler \subseteq WithHandler'
    <2>1. ASSUME NEW t \in Handlers PROVE t \in Handlers' /\ slot'[t].entry = slot[t].entry
      BY <1>1, <1>5, <2>1 DEF Handlers
    <2> QED BY <2>1 DEF WithHandler
  <1> QED BY <1>2, <1>3, <1>4, <1>5 DEF Pending

\* What the channel holds, as entries come and go.
LEMMA ChannelIn ==
  ASSUME BudgetTypeOK, NEW e \in DOMAIN ledger, queue' = Append(queue, e)
  PROVE  InChannel \subseteq InChannel' /\ e \in InChannel'
  <1>1. /\ Len(queue) \in Nat /\ Len(queue') = Len(queue) + 1
        /\ \A k \in 1 .. Len(queue) : queue'[k] = queue[k]
        /\ queue'[Len(queue) + 1] = e
    BY DEF BudgetTypeOK
  <1>2. ASSUME NEW k \in 1 .. Len(queue) PROVE queue[k] \in InChannel'
    <2>1. k \in 1 .. Len(queue') /\ queue'[k] = queue[k]
      BY <1>1
    <2> QED BY <2>1 DEF InChannel
  <1>3. e \in InChannel'
    <2>1. Len(queue) + 1 \in 1 .. Len(queue')
      BY <1>1
    <2> QED BY <1>1, <2>1 DEF InChannel
  <1> QED BY <1>2, <1>3 DEF InChannel

LEMMA ChannelOut ==
  ASSUME BudgetTypeOK, queue # <<>>, queue' = Tail(queue)
  PROVE  InChannel \subseteq InChannel' \union {Head(queue)}
  <1>1. /\ Len(queue) \in Nat \ {0} /\ Len(queue') = Len(queue) - 1
        /\ Head(queue) = queue[1]
        /\ \A k \in 1 .. Len(queue) - 1 : queue'[k] = queue[k + 1]
    BY DEF BudgetTypeOK
  <1>2. ASSUME NEW k \in 1 .. Len(queue), k # 1 PROVE queue[k] \in InChannel'
    <2>1. k - 1 \in 1 .. Len(queue') /\ k - 1 \in 1 .. Len(queue) - 1 /\ (k - 1) + 1 = k
      BY <1>1, <1>2
    <2>2. queue'[k - 1] = queue[k]
      BY <1>1, <2>1
    <2> QED BY <2>1, <2>2 DEF InChannel
  <1> QED BY <1>1, <1>2 DEF InChannel

\* An entry of the current period stays in one of its places.
LEMMA StaysPlaced ==
  ASSUME Setting, Sane, [BudgetNext]_budgetVars,
         NEW n \in DOMAIN ledger, n \in Places, ledger[n].ts >= CurrentPeriodStart(budgetClock)
  PROVE  n \in Places'
  <1>0. BudgetTypeOK /\ n # 0 /\ \A s \in Slots : GoodSlot(slot[s])
    BY LedgerFields DEF Sane
  <1>1. n \in rows => n \in rows'
    BY RowsKept
  <1>2. ASSUME lost \subseteq lost', InChannel \subseteq InChannel', writing' = writing,
               WithHandler \subseteq WithHandler'
        PROVE  n \in Places'
    BY <1>1, <1>2 DEF Places
  <1>3. ASSUME NEW s \in Slots, NEW r, slot' = [slot EXCEPT ![s] = r], slot[s].pc # "log",
               UNCHANGED <<queue, writing, lost>>
        PROVE  n \in Places'
    <2>1. WithHandler \subseteq WithHandler'
      BY <1>0, <1>3, PendingMoves
    <2>2. InChannel' = InChannel
      BY <1>3 DEF InChannel
    <2> QED BY <1>2, <1>3, <2>1, <2>2
  <1>4. ASSUME NEW s \in Slots, \E k \in BudgetKeys : Arrive(s, k) \/ BudgetsUnavailable(s, k)
        PROVE  n \in Places'
    BY <1>3, <1>4 DEF Arrive, BudgetsUnavailable
  <1>5. ASSUME NEW s \in Slots, CheckBudget(s) \/ Forward(s) PROVE n \in Places'
    BY <1>3, <1>5 DEF CheckBudget, Forward, MoreBudgets
  <1>6. ASSUME NEW s \in Slots, SpendUnavailable(s) PROVE n \in Places'
    <2>1. slot' = [slot EXCEPT ![s] = [slot[s] EXCEPT !.at = @ + 1]]
      BY <1>6 DEF SpendUnavailable
    <2> QED BY <1>3, <1>6, <2>1 DEF SpendUnavailable, MoreBudgets
  <1>7. ASSUME NEW s \in Slots, FinishWithCost(s) \/ FinishWithoutCost(s) PROVE n \in Places'
    BY <1>3, <1>7 DEF FinishWithCost, FinishWithoutCost
  <1>8. ASSUME NEW s \in Slots, Log(s) \/ LogDrops(s) PROVE n \in Places'
    <2>1. /\ slot' = [slot EXCEPT ![s] = IdleSlot] /\ rows' = rows /\ writing' = writing
          /\ lost \subseteq lost' /\ slot[s].entry \in DOMAIN ledger
      BY <1>0, <1>8 DEF Log, LogDrops, GoodSlot
    <2>2. InChannel \subseteq InChannel'
      <3>1. CASE Log(s)
        BY <1>0, <2>1, <3>1, ChannelIn DEF Log
      <3>2. CASE LogDrops(s)
        BY <3>2 DEF LogDrops, InChannel
      <3> QED BY <1>8, <3>1, <3>2
    <2>3. slot[s].entry \in InChannel' \union lost'
      <3>1. CASE Log(s)
        BY <1>0, <2>1, <3>1, ChannelIn DEF Log
      <3>2. CASE LogDrops(s)
        BY <3>2 DEF LogDrops
      <3> QED BY <1>8, <3>1, <3>2
    <2>4. ASSUME NEW t \in Handlers, n = slot[t].entry PROVE n \in Places'
      <3>1. CASE t = s
        BY <2>3, <2>4, <3>1 DEF Places
      <3>2. CASE t # s
        <4>1. t \in Slots /\ slot'[t] = slot[t] /\ slot[t].pc = "log"
          BY <1>0, <2>1, <3>2 DEF Handlers, BudgetTypeOK
        <4>2. t \in Handlers'
          BY <4>1 DEF Handlers
        <4> QED BY <2>4, <4>1, <4>2 DEF Places, WithHandler
      <3> QED BY <3>1, <3>2
    <2>5. n \in WithHandler => \E t \in Handlers : n = slot[t].entry
      BY DEF WithHandler
    <2> QED BY <2>1, <2>2, <2>4, <2>5 DEF Places
  <1>9. CASE Take
    <2>1. /\ InChannel \subseteq InChannel' \union {Head(queue)} /\ writing' = Head(queue)
          /\ writing = 0 /\ UNCHANGED <<rows, lost, slot>>
      BY <1>0, <1>9, ChannelOut DEF Take
    <2>2. WithHandler' = WithHandler
      BY <2>1 DEF WithHandler, Handlers
    <2> QED BY <1>0, <2>1, <2>2 DEF Places
  <1>10. CASE InsertRequestLog \/ InsertFails
    <2>1. /\ rows \subseteq rows' /\ lost \subseteq lost' /\ writing \in rows' \union lost'
          /\ UNCHANGED <<queue, slot>>
      BY <1>10 DEF InsertRequestLog, InsertFails
    <2>2. WithHandler' = WithHandler /\ InChannel' = InChannel
      BY <2>1 DEF WithHandler, Handlers, InChannel
    <2> QED BY <2>1, <2>2 DEF Places
  <1>11. CASE PruneTick \/ PruneRequestLogs \/ PruneFails \/ BudgetTick \/ UNCHANGED budgetVars
    <2>1. UNCHANGED <<queue, slot, lost, writing>>
      BY <1>11 DEF PruneTick, PruneRequestLogs, PruneFails, BudgetTick, budgetVars
    <2>2. WithHandler' = WithHandler /\ InChannel' = InChannel
      BY <2>1 DEF WithHandler, Handlers, InChannel
    <2> QED BY <1>2, <2>1, <2>2
  <1> QED BY <1>4, <1>5, <1>6, <1>7, <1>8, <1>9, <1>10, <1>11 DEF BudgetNext, RequestStep

\* Nothing of the current period is out of sight.
LEMMA PlacedStep ==
  ASSUME Setting, Sane, Placed, [BudgetNext]_budgetVars
  PROVE  Placed'
  <1> SUFFICES ASSUME NEW n \in DOMAIN ledger', ledger'[n].ts >= CurrentPeriodStart(budgetClock')
               PROVE  n \in Places'
    BY DEF Placed, CurrentPeriodStart
  <1>0. BudgetTypeOK /\ budgetClock \in Nat
    BY DEF Sane, BudgetTypeOK
  <1>1. CASE n \in DOMAIN ledger
    <2>1. ledger'[n] = ledger[n] /\ ledger[n].ts \in Nat
      BY <1>0, <1>1, LedgerGrows, LedgerFields
    <2>2. budgetClock' \in Nat /\ budgetClock <= budgetClock'
      <3>1. budgetClock' = budgetClock \/ BudgetTick
        BY DEF BudgetNext, RequestStep, Arrive, BudgetsUnavailable, CheckBudget, SpendUnavailable,
               Forward, FinishWithCost, FinishWithoutCost, Log, LogDrops, Take, InsertRequestLog,
               InsertFails, PruneTick, PruneRequestLogs, PruneFails, budgetVars
      <3> QED BY <1>0, <3>1 DEF BudgetTick
    <2>3. /\ CurrentPeriodStart(budgetClock) <= CurrentPeriodStart(budgetClock')
          /\ CurrentPeriodStart(budgetClock) \in Int /\ CurrentPeriodStart(budgetClock') \in Int
      BY <1>0, <2>2, PeriodStartMonotone, PeriodStartLemma
    <2>4. ledger[n].ts >= CurrentPeriodStart(budgetClock)
      BY <2>1, <2>3
    <2>5. n \in Places
      BY <1>1, <2>4 DEF Placed
    <2> QED BY <1>1, <2>4, <2>5, StaysPlaced
  <1>2. CASE n \notin DOMAIN ledger
    <2>1. PICK s \in Slots : FinishWithCost(s)
      <3>1. ASSUME NEW s \in Slots, RequestStep(s), ~FinishWithCost(s) PROVE ledger' = ledger
        BY <3>1 DEF RequestStep, Arrive, BudgetsUnavailable, CheckBudget, SpendUnavailable,
                    Forward, FinishWithoutCost, Log, LogDrops
      <3>2. ASSUME ~\E s \in Slots : RequestStep(s) PROVE ledger' = ledger
        BY <3>2, OtherSane DEF BudgetNext
      <3> QED BY <1>2, <3>1, <3>2
    <2>2. n = Len(ledger) + 1
      <3>1. DOMAIN ledger' = DOMAIN ledger \union {Len(ledger) + 1}
        BY <2>1, StampSane
      <3> QED BY <1>2, <3>1
    <2>3. slot'[s] = Logging(n)
      <3>1. slot' = [slot EXCEPT ![s] = Logging(n)]
        BY <2>1, <2>2 DEF FinishWithCost
      <3> QED BY <1>0, <3>1 DEF BudgetTypeOK
    <2>4. s \in Handlers' /\ slot'[s].entry = n
      BY <2>3 DEF Handlers, Logging
    <2> QED BY <2>4 DEF Places, WithHandler
  <1> QED BY <1>1, <1>2

\* A sequence holds no more entries than it is long.
LEMMA ChannelBound ==
  ASSUME BudgetTypeOK
  PROVE  IsFiniteSet(InChannel) /\ Cardinality(InChannel) <= Len(queue)
  <1>1. Len(queue) \in Nat /\ queue \in [1 .. Len(queue) -> DOMAIN ledger]
    BY DEF BudgetTypeOK
  <1>2. queue \in Surjection(1 .. Len(queue), InChannel)
    BY <1>1 DEF InChannel, Surjection
  <1>3. IsFiniteSet(1 .. Len(queue)) /\ Cardinality(1 .. Len(queue)) = Len(queue)
    BY <1>1, FS_Interval
  <1> QED BY <1>2, <1>3, FS_Surjection

\* A handler holds one entry.
LEMMA HandlerBound ==
  ASSUME Setting
  PROVE  /\ IsFiniteSet(Handlers) /\ IsFiniteSet(WithHandler)
         /\ Cardinality(WithHandler) <= Cardinality(Handlers)
  <1> DEFINE f == [s \in Handlers |-> slot[s].entry]
  <1>1. IsFiniteSet(Handlers)
    BY FS_Subset DEF Setting, Handlers
  <1>2. f \in Surjection(Handlers, WithHandler)
    BY DEF WithHandler, Surjection
  <1> HIDE DEF f
  <1> QED BY <1>1, <1>2, FS_Surjection

\* The union of two finite sets has no more elements than the two together.
LEMMA UnionBound ==
  ASSUME NEW S, NEW T, IsFiniteSet(S), IsFiniteSet(T)
  PROVE  /\ IsFiniteSet(S \union T)
         /\ Cardinality(S \union T) <= Cardinality(S) + Cardinality(T)
         /\ S \intersect T = {} => Cardinality(S \union T) = Cardinality(S) + Cardinality(T)
  <1>1. /\ IsFiniteSet(S \union T)
        /\ Cardinality(S \union T) = Cardinality(S) + Cardinality(T) - Cardinality(S \intersect T)
    BY FS_Union
  <1>2. IsFiniteSet(S \intersect T)
    BY FS_Intersection
  <1>3. /\ Cardinality(S) \in Nat /\ Cardinality(T) \in Nat /\ Cardinality(S \intersect T) \in Nat
        /\ S \intersect T = {} => Cardinality(S \intersect T) = 0
    BY <1>2, FS_CardinalityType, FS_EmptySet
  <1> QED BY <1>1, <1>3

\* A request that passes a check finds room for itself: what the store does not
\* show yet is in the channel, with the writer, with a handler, or lost.
LEMMA RoomToPass ==
  ASSUME Setting, Sane, Placed, NEW b \in Scopes, NEW s \in Slots, slot[s].pc = "check",
         ~(GetSpendSince(b, CurrentPeriodStart(slot[s].now)) >= Limit[b])
  PROVE  Spent(b) + Cardinality(Pending(b) \union {s})
            <= Limit[b] + Cardinality(Slots) + BufferSize + Missed(b)
  <1> DEFINE P == CurrentPeriodStart(budgetClock)
             t == CurrentPeriodStart(slot[s].now)
             All == Counted(DOMAIN ledger, b, P)
             Stored == Counted(rows, b, P)
             Gone == Counted(lost, b, P)
             Passing == Pending(b) \union {s}
  <1>0. /\ BudgetTypeOK /\ budgetClock \in Nat /\ slot[s].now \in Nat /\ slot[s].now <= budgetClock
        /\ rows \in SUBSET DOMAIN ledger /\ lost \in SUBSET DOMAIN ledger
        /\ Len(queue) \in Nat /\ Len(queue) <= BufferSize
    <2>1. BudgetTypeOK /\ GoodSlot(slot[s])
      BY DEF Sane
    <2>2. slot[s].now \in Nat
      BY <2>1, SlotFields
    <2> QED BY <2>1, <2>2 DEF BudgetTypeOK, GoodSlot
  <1>1. P \in Int /\ t \in Int /\ t <= P
    BY <1>0, PeriodStartLemma, PeriodStartMonotone
  <1>2. Stored \subseteq Counted(rows, b, t)
    <2>1. \A n \in rows : ledger[n].ts \in Nat
      BY <1>0, LedgerFields
    <2> QED BY <1>1, <2>1 DEF Counted
  <1>3. /\ IsFiniteSet(Stored) /\ Cardinality(Stored) \in Nat
        /\ IsFiniteSet(Gone) /\ Cardinality(Gone) \in Nat /\ Cardinality(Gone) = Missed(b)
        /\ IsFiniteSet(All) /\ Cardinality(All) \in Nat /\ Cardinality(All) = Spent(b)
    BY <1>0, CountedFinite DEF Missed, Spent
  <1>4. Cardinality(Stored) < Limit[b] /\ Limit[b] \in Nat
    <2>1. /\ IsFiniteSet(Counted(rows, b, t)) /\ Cardinality(Counted(rows, b, t)) \in Nat
          /\ Limit[b] \in Nat
      BY <1>0, CountedFinite DEF Setting, BudgetAssumption
    <2>2. Cardinality(Counted(rows, b, t)) < Limit[b]
      BY <2>1 DEF GetSpendSince
    <2>3. Cardinality(Stored) <= Cardinality(Counted(rows, b, t))
      BY <1>2, <2>1, FS_Subset
    <2> QED BY <1>3, <2>1, <2>2, <2>3
  <1>5. All \subseteq (((Stored \union Gone) \union InChannel) \union {writing}) \union WithHandler
    BY DEF Placed, Places, Counted
  <1> HIDE DEF All, Stored, Gone
  <1>6. /\ IsFiniteSet(InChannel) /\ Cardinality(InChannel) \in Nat
        /\ Cardinality(InChannel) <= BufferSize /\ BufferSize \in Nat
    <2>1. IsFiniteSet(InChannel) /\ Cardinality(InChannel) <= Len(queue) /\ BufferSize \in Nat
      BY <1>0, ChannelBound DEF Setting, BudgetAssumption
    <2>2. Cardinality(InChannel) \in Nat
      BY <2>1, FS_CardinalityType
    <2> QED BY <1>0, <2>1, <2>2
  <1>7. /\ IsFiniteSet(WithHandler) /\ Cardinality(WithHandler) \in Nat
        /\ IsFiniteSet(Handlers) /\ Cardinality(Handlers) \in Nat
        /\ Cardinality(WithHandler) <= Cardinality(Handlers)
    BY HandlerBound, FS_CardinalityType
  <1>8. Spent(b) <= Cardinality(Stored) + Missed(b) + BufferSize + 1 + Cardinality(Handlers)
    <2>1. /\ IsFiniteSet(Stored \union Gone)
          /\ Cardinality(Stored \union Gone) <= Cardinality(Stored) + Cardinality(Gone)
      BY <1>3, UnionBound
    <2> DEFINE A == Stored \union Gone
               B == A \union InChannel
               C == B \union {writing}
    <2>2. /\ IsFiniteSet(B) /\ Cardinality(B) <= Cardinality(A) + Cardinality(InChannel)
      BY <1>6, <2>1, UnionBound
    <2>3. IsFiniteSet({writing}) /\ Cardinality({writing}) = 1
      BY FS_Singleton
    <2>4. IsFiniteSet(C) /\ Cardinality(C) <= Cardinality(B) + 1
      BY <2>2, <2>3, UnionBound
    <2>5. /\ IsFiniteSet(C \union WithHandler)
          /\ Cardinality(C \union WithHandler) <= Cardinality(C) + Cardinality(WithHandler)
      BY <1>7, <2>4, UnionBound
    <2>6. Cardinality(All) <= Cardinality(C \union WithHandler)
      BY <1>5, <2>5, FS_Subset
    <2>7. /\ Cardinality(A) \in Nat /\ Cardinality(B) \in Nat /\ Cardinality(C) \in Nat
          /\ Cardinality(C \union WithHandler) \in Nat
      BY <2>1, <2>2, <2>4, <2>5, FS_CardinalityType
    <2>8. Cardinality(A) <= Cardinality(Stored) + Cardinality(Gone)
      BY <2>1
    <2> HIDE DEF A, B, C
    <2> QED BY <1>3, <1>6, <1>7, <2>2, <2>4, <2>5, <2>6, <2>7, <2>8
  <1>9. Cardinality(Handlers) + Cardinality(Passing) <= Cardinality(Slots)
    <2>1. Handlers \intersect Passing = {} /\ Handlers \union Passing \subseteq Slots
      BY DEF Handlers, Pending, PassedBy
    <2>2. IsFiniteSet(Passing) /\ IsFiniteSet(Slots)
      BY <2>1, FS_Subset DEF Setting
    <2>3. Cardinality(Handlers \union Passing) = Cardinality(Handlers) + Cardinality(Passing)
      BY <1>7, <2>1, <2>2, UnionBound
    <2>4. Cardinality(Handlers \union Passing) <= Cardinality(Slots)
      BY <2>1, <2>2, FS_Subset
    <2> QED BY <2>3, <2>4
  <1>10. Cardinality(Passing) \in Nat /\ Cardinality(Slots) \in Nat /\ Missed(b) \in Nat
    <2>1. Passing \in SUBSET Slots /\ IsFiniteSet(Slots)
      BY DEF Pending, Setting
    <2>2. IsFiniteSet(Passing)
      BY <2>1, FS_Subset
    <2> QED BY <1>3, <2>1, <2>2, FS_CardinalityType
  <1> HIDE DEF Passing
  <1>11. Spent(b) \in Nat
    BY <1>3
  <1>12. Spent(b) + Cardinality(Passing) <= Limit[b] + Cardinality(Slots) + BufferSize + Missed(b)
    BY <1>3, <1>4, <1>6, <1>7, <1>8, <1>9, <1>10, <1>11
  <1> QED BY <1>12 DEF Passing

\* A step that stamps nothing: the account stays right when at most one more
\* request has passed, and only if the scope has waived one.
LEMMA NothingStamped ==
  ASSUME Setting, Sane, Sane', NEW b \in Scopes, Account(b), UNCHANGED <<budgetClock, ledger>>,
         lost \subseteq lost',
         \/ Pending(b)' \subseteq Pending(b) /\ waived'[b] >= waived[b]
         \/ \E s \in Slots : Pending(b)' \subseteq Pending(b) \union {s}
                             /\ waived'[b] >= waived[b] + 1
  PROVE  Account(b)'
  <1>0. BudgetTypeOK /\ lost \in SUBSET DOMAIN ledger /\ lost' \in SUBSET DOMAIN ledger
        /\ waived'[b] \in Nat
    BY DEF Sane, BudgetTypeOK
  <1>1. Spent(b)' = Spent(b)
    BY DEF Spent, Counted, CurrentPeriodStart
  <1>2. Missed(b)' \in Nat /\ Missed(b) <= Missed(b)'
    <2> DEFINE P == CurrentPeriodStart(budgetClock)
    <2>1. Missed(b)' = Cardinality(Counted(lost', b, P))
      BY DEF Missed, Counted, CurrentPeriodStart
    <2>2. Counted(lost, b, P) \subseteq Counted(lost', b, P)
      BY DEF Counted
    <2>3. IsFiniteSet(Counted(lost', b, P)) /\ Cardinality(Counted(lost', b, P)) \in Nat
      BY <1>0, CountedFinite
    <2>4. Cardinality(Counted(lost, b, P)) <= Cardinality(Counted(lost', b, P))
      BY <2>2, <2>3, FS_Subset
    <2> QED BY <2>1, <2>3, <2>4 DEF Missed
  <1>3. PICK d \in {0, 1} : /\ Cardinality(Pending(b)') <= Cardinality(Pending(b)) + d
                            /\ Cardinality(Pending(b)') \in Nat
                            /\ waived'[b] >= waived[b] + d
    <2>0. IsFiniteSet(Pending(b)) /\ Cardinality(Pending(b)) \in Nat /\ waived[b] \in Nat
      BY AccountTypes
    <2>1. CASE Pending(b)' \subseteq Pending(b) /\ waived'[b] >= waived[b]
      <3>1. IsFiniteSet(Pending(b)') /\ Cardinality(Pending(b)') <= Cardinality(Pending(b))
        BY <2>0, <2>1, FS_Subset
      <3>2. Cardinality(Pending(b)') \in Nat
        BY <3>1, FS_CardinalityType
      <3> QED BY <1>0, <2>0, <2>1, <3>1, <3>2
    <2>2. ASSUME NEW s \in Slots, Pending(b)' \subseteq Pending(b) \union {s},
                 waived'[b] >= waived[b] + 1
          PROVE  /\ Cardinality(Pending(b)') <= Cardinality(Pending(b)) + 1
                 /\ Cardinality(Pending(b)') \in Nat
      <3>1. IsFiniteSet({s}) /\ Cardinality({s}) = 1
        BY FS_Singleton
      <3>2. /\ IsFiniteSet(Pending(b) \union {s})
            /\ Cardinality(Pending(b) \union {s}) <= Cardinality(Pending(b)) + 1
        BY <2>0, <3>1, UnionBound
      <3>3. /\ IsFiniteSet(Pending(b)')
            /\ Cardinality(Pending(b)') <= Cardinality(Pending(b) \union {s})
        BY <2>2, <3>2, FS_Subset
      <3>4. Cardinality(Pending(b)') \in Nat /\ Cardinality(Pending(b) \union {s}) \in Nat
        BY <3>2, <3>3, FS_CardinalityType
      <3> QED BY <2>0, <3>2, <3>3, <3>4
    <2> QED BY <2>1, <2>2
  <1>4. /\ Spent(b) \in Nat /\ Missed(b) \in Nat /\ waived[b] \in Nat /\ Limit[b] \in Nat
        /\ Cardinality(Slots) \in Nat /\ BufferSize \in Nat /\ Cardinality(Pending(b)) \in Nat
    BY AccountTypes
  <1>5. Spent(b) + Cardinality(Pending(b))
            <= Limit[b] + Cardinality(Slots) + BufferSize + Missed(b) + waived[b]
    BY DEF Account
  <1>6. Spent(b) + Cardinality(Pending(b)')
            <= Limit[b] + Cardinality(Slots) + BufferSize + Missed(b)' + waived'[b]
    BY <1>0, <1>2, <1>3, <1>4, <1>5
  <1>7. Cardinality(Pending(b))' = Cardinality(Pending(b)')
    OBVIOUS
  <1> QED BY <1>1, <1>6, <1>7 DEF Account

\* A stamped entry is one that its request's account had set aside.
LEMMA StampAccount ==
  ASSUME Setting, Sane, NEW b \in Scopes, Account(b), NEW s \in Slots, FinishWithCost(s)
  PROVE  Account(b)'
  <1> DEFINE P == CurrentPeriodStart(budgetClock)
             n == Len(ledger) + 1
             All == Counted(DOMAIN ledger, b, P)
             Then == Counted(DOMAIN ledger, b, P)'
  <1>0. /\ BudgetTypeOK /\ lost \subseteq DOMAIN ledger
        /\ budgetClock' = budgetClock /\ lost' = lost /\ waived' = waived /\ budgetClock \in Nat
        /\ P \in Int /\ P <= budgetClock /\ slot[s].pc = "forward"
        /\ n \notin DOMAIN ledger
    <2>1. BudgetTypeOK /\ lost \subseteq DOMAIN ledger /\ budgetClock \in Nat
      BY DEF Sane, BudgetTypeOK
    <2>2. P \in Int /\ P <= budgetClock
      BY <2>1, PeriodStartLemma
    <2>3. n \notin DOMAIN ledger
      BY <2>1, LedgerFields
    <2> QED BY <2>1, <2>2, <2>3 DEF FinishWithCost
  <1>1. /\ DOMAIN ledger' = DOMAIN ledger \union {n}
        /\ \A m \in DOMAIN ledger : ledger'[m] = ledger[m]
        /\ ledger'[n].key = slot[s].key /\ ledger'[n].ts = budgetClock
    <2> HIDE DEF P, All, Then
    <2>1. /\ DOMAIN ledger' = DOMAIN ledger \union {n}
          /\ \A m \in DOMAIN ledger : ledger'[m] = ledger[m]
          /\ ledger'[n] = [key |-> slot[s].key, ts |-> budgetClock]
      BY StampSane
    <2> QED BY <2>1
  <1>2. Missed(b)' = Missed(b)
    <2>1. Counted(lost, b, P)' = Counted(lost, b, P)
      BY <1>0, <1>1 DEF Counted, CurrentPeriodStart
    <2> QED BY <1>0, <2>1 DEF Missed, CurrentPeriodStart
  <1>3. /\ slot' = [slot EXCEPT ![s] = Logging(n)]
        /\ ~PassedBy(Logging(n), b)
    BY DEF FinishWithCost, PassedBy, Logging
  <1>4. Pending(b)' = Pending(b) \ {s}
    BY <1>0, <1>3, PendingMoves, ZenonT(60)
  <1>5. Then = {m \in DOMAIN ledger' : ledger'[m].key \in Members[b] /\ ledger'[m].ts >= P}
    BY <1>0 DEF Counted, CurrentPeriodStart
  <1>6. IsFiniteSet(All) /\ Cardinality(All) = Spent(b) /\ Cardinality(Then) = Spent(b)'
    BY <1>0, CountedFinite DEF Spent
  <1>7. /\ Spent(b) \in Nat /\ Missed(b) \in Nat /\ waived[b] \in Nat /\ Limit[b] \in Nat
        /\ Cardinality(Slots) \in Nat /\ BufferSize \in Nat
        /\ IsFiniteSet(Pending(b)) /\ Cardinality(Pending(b)) \in Nat
    BY AccountTypes
  <1>8. Spent(b)' + Cardinality(Pending(b)') = Spent(b) + Cardinality(Pending(b))
    <2>1. CASE slot[s].key \in Members[b]
      <3>1. s \in Pending(b)
        BY <1>0, <2>1 DEF Pending, PassedBy
      <3>2. Cardinality(Pending(b)') = Cardinality(Pending(b)) - 1
        BY <1>4, <1>7, <3>1, FS_RemoveElement
      <3>3. Then = All \union {n} /\ n \notin All
        BY <1>0, <1>1, <1>5, <2>1 DEF Counted
      <3>4. Cardinality(Then) = Cardinality(All) + 1
        BY <1>6, <3>3, FS_AddElement
      <3> QED BY <1>6, <1>7, <3>2, <3>4
    <2>2. CASE slot[s].key \notin Members[b]
      <3>1. s \notin Pending(b)
        BY <1>0, <2>2 DEF Pending, PassedBy
      <3>2. Pending(b)' = Pending(b)
        BY <1>4, <3>1
      <3>3. Then = All
        BY <1>0, <1>1, <1>5, <2>2 DEF Counted
      <3> QED BY <1>6, <1>7, <3>2, <3>3
    <2> QED BY <2>1, <2>2
  <1>9. Cardinality(Pending(b))' = Cardinality(Pending(b)')
    OBVIOUS
  <1> QED BY <1>0, <1>2, <1>8, <1>9 DEF Account

\* With a new period a scope has spent nothing, and no more requests can be
\* under way than there are handlers.
LEMMA TickAccount ==
  ASSUME Setting, Sane, NEW b \in Scopes, Account(b), BudgetTick
  PROVE  Account(b)'
  <1>0. /\ BudgetTypeOK /\ budgetClock \in Nat /\ budgetClock' = budgetClock + 1 /\ lost \in SUBSET DOMAIN ledger
        /\ UNCHANGED <<slot, ledger, lost, waived>>
    BY DEF Sane, BudgetTypeOK, BudgetTick
  <1>1. Pending(b)' = Pending(b)
    BY <1>0 DEF Pending, PassedBy
  <1>2. CASE CurrentPeriodStart(budgetClock') = CurrentPeriodStart(budgetClock)
    <2>1. Spent(b)' = Spent(b) /\ Missed(b)' = Missed(b)
      BY <1>0, <1>2 DEF Spent, Missed, Counted, CurrentPeriodStart
    <2> QED BY <1>0, <1>1, <2>1 DEF Account
  <1>3. CASE CurrentPeriodStart(budgetClock') # CurrentPeriodStart(budgetClock)
    <2>1. budgetClock < CurrentPeriodStart(budgetClock') /\ CurrentPeriodStart(budgetClock') \in Int
      BY <1>0, <1>3, PeriodStartMonotone, PeriodStartLemma
    <2>2. \A m \in DOMAIN ledger : ~(ledger[m].ts >= CurrentPeriodStart(budgetClock'))
      BY <1>0, <2>1, LedgerFields DEF Sane
    <2>3. /\ Spent(b)' = Cardinality(Counted(DOMAIN ledger, b, CurrentPeriodStart(budgetClock')))
          /\ Missed(b)' = Cardinality(Counted(lost, b, CurrentPeriodStart(budgetClock')))
      BY <1>0 DEF Spent, Missed, Counted, CurrentPeriodStart
    <2>4. Counted(DOMAIN ledger, b, CurrentPeriodStart(budgetClock')) = {}
      BY <2>2 DEF Counted
    <2>5. Spent(b)' = 0
      BY <2>3, <2>4, FS_EmptySet
    <2>6. Missed(b)' \in Nat
      BY <1>0, <2>3, CountedFinite
    <2>7. Cardinality(Pending(b)) <= Cardinality(Slots)
      BY FS_Subset DEF Pending, Setting
    <2>8. /\ waived[b] \in Nat /\ Limit[b] \in Nat /\ Cardinality(Slots) \in Nat
          /\ BufferSize \in Nat /\ Cardinality(Pending(b)) \in Nat
      BY AccountTypes
    <2> QED BY <1>0, <1>1, <2>5, <2>6, <2>7, <2>8 DEF Account
  <1> QED BY <1>2, <1>3

\* In the loop of Check, only the budget it has come to can be passed next.
LEMMA NextBudget ==
  ASSUME Setting, NEW s \in Slots, NEW b \in Scopes, NEW r,
         slot[s] \in [pc : {"check"}, key : BudgetKeys, now : Nat, at : Nat],
         r.pc = "check", r.key = slot[s].key, r.at = slot[s].at + 1,
         Budget(s) # b, PassedBy(r, b)
  PROVE  PassedBy(slot[s], b)
  <1>1. PICK m \in DOMAIN Budgets[slot[s].key] :
           m < slot[s].at + 1 /\ Budgets[slot[s].key][m] = b
    BY DEF PassedBy
  <1>2. m # slot[s].at
    BY <1>1 DEF Budget
  <1>3. m \in Nat /\ slot[s].at \in Nat
    <2>1. Budgets[slot[s].key] \in Seq(Scopes)
      BY DEF Setting, BudgetAssumption
    <2> QED BY <1>1, <2>1
  <1>4. m < slot[s].at
    BY <1>1, <1>2, <1>3
  <1> QED BY <1>1, <1>4 DEF PassedBy

\* Passing a check: the account has room for the request.
LEMMA CheckAccount ==
  ASSUME Setting, Sane, Sane', Placed, NEW b \in Scopes, Account(b),
         NEW s \in Slots, CheckBudget(s)
  PROVE  Account(b)'
  <1> DEFINE r == [slot[s] EXCEPT !.at = @ + 1]
  <1>0. /\ BudgetTypeOK /\ GoodSlot(slot[s]) /\ MoreBudgets(s) /\ slot[s].pc = "check"
        /\ UNCHANGED <<budgetClock, ledger, lost, waived>>
        /\ slot[s] \in [pc : {"check"}, key : BudgetKeys, now : Nat, at : Nat]
    <2>1. /\ BudgetTypeOK /\ GoodSlot(slot[s]) /\ MoreBudgets(s) /\ slot[s].pc = "check"
          /\ UNCHANGED <<budgetClock, ledger, lost, waived>>
      BY DEF Sane, CheckBudget, MoreBudgets
    <2> QED BY <2>1, SlotFields
  <1>1. waived'[b] >= waived[b]
    BY <1>0, AccountTypes
  <1>2. CASE Exceeded(s)
    <2>1. slot' = [slot EXCEPT ![s] = IdleSlot] /\ ~PassedBy(IdleSlot, b)
      BY <1>2 DEF CheckBudget, PassedBy, IdleSlot
    <2>2. Pending(b)' \subseteq Pending(b)
      BY <1>0, <2>1, PendingMoves
    <2> QED BY <1>0, <1>1, <2>2, NothingStamped
  <1>3. CASE ~Exceeded(s)
    <2>1. slot' = [slot EXCEPT ![s] = r]
      BY <1>3 DEF CheckBudget
    <2>2. r.pc = "check" /\ r.key = slot[s].key /\ r.at = slot[s].at + 1
      BY <1>0
    <2> HIDE DEF r
    <2>3. CASE Budget(s) # b
      <3>1. ASSUME PassedBy(r, b) PROVE PassedBy(slot[s], b)
        BY <1>0, <2>2, <2>3, <3>1, NextBudget
      <3>2. Pending(b)' \subseteq Pending(b)
        BY <1>0, <2>1, <3>1, PendingMoves
      <3> QED BY <1>0, <1>1, <3>2, NothingStamped
    <2>4. CASE Budget(s) = b
      <3>1. ~(GetSpendSince(b, CurrentPeriodStart(slot[s].now)) >= Limit[b])
        BY <1>3, <2>4 DEF Exceeded
      <3>2. Spent(b) + Cardinality(Pending(b) \union {s})
               <= Limit[b] + Cardinality(Slots) + BufferSize + Missed(b)
        BY <1>0, <3>1, RoomToPass
      <3>3. Pending(b)' \subseteq Pending(b) \union {s}
        BY <1>0, <2>1, PendingMoves
      <3>4. /\ IsFiniteSet(Pending(b) \union {s})
            /\ Cardinality(Pending(b) \union {s}) \in Nat
        BY AccountTypes, FS_AddElement, FS_CardinalityType
      <3>5. /\ Cardinality(Pending(b)') <= Cardinality(Pending(b) \union {s})
            /\ Cardinality(Pending(b)') \in Nat
        <4>1. /\ IsFiniteSet(Pending(b)')
              /\ Cardinality(Pending(b)') <= Cardinality(Pending(b) \union {s})
          BY <3>3, <3>4, FS_Subset
        <4> QED BY <4>1, FS_CardinalityType
      <3>6. Spent(b)' = Spent(b) /\ Missed(b)' = Missed(b)
        BY <1>0 DEF Spent, Missed, Counted, CurrentPeriodStart
      <3>7. /\ Spent(b) \in Nat /\ Missed(b) \in Nat /\ waived[b] \in Nat /\ Limit[b] \in Nat
            /\ Cardinality(Slots) \in Nat /\ BufferSize \in Nat
        BY AccountTypes
      <3>8. Spent(b) + Cardinality(Pending(b)')
               <= Limit[b] + Cardinality(Slots) + BufferSize + Missed(b) + waived[b]
        BY <3>2, <3>4, <3>5, <3>7
      <3>9. Cardinality(Pending(b))' = Cardinality(Pending(b)')
        OBVIOUS
      <3> QED BY <1>0, <3>6, <3>8, <3>9 DEF Account
    <2> QED BY <2>3, <2>4
  <1> QED BY <1>2, <1>3

\* The steps of a request, one by one.
LEMMA RequestAccount ==
  ASSUME Setting, Sane, Sane', Placed, NEW b \in Scopes, Account(b),
         NEW s \in Slots, RequestStep(s)
  PROVE  Account(b)'
  <1>0. BudgetTypeOK /\ GoodSlot(slot[s]) /\ waived[b] \in Nat /\ waived \in [Scopes -> Nat]
    BY AccountTypes DEF Sane, BudgetTypeOK
  <1>1. ASSUME NEW r, slot' = [slot EXCEPT ![s] = r], ~PassedBy(r, b),
               UNCHANGED <<budgetClock, ledger, waived>>, lost \subseteq lost'
        PROVE  Account(b)'
    <2>1. Pending(b)' \subseteq Pending(b)
      BY <1>0, <1>1, PendingMoves, ZenonT(60)
    <2> QED BY <1>0, <1>1, <2>1, NothingStamped
  <1>2. ~PassedBy(IdleSlot, b)
    BY DEF PassedBy, IdleSlot
  <1>3. ASSUME NEW k \in BudgetKeys, Arrive(s, k) PROVE Account(b)'
    <2>1. ~PassedBy(Checking(k, budgetClock), b)
      <3>1. Budgets[k] \in Seq(Scopes)
        BY DEF Setting, BudgetAssumption
      <3>2. \A m \in DOMAIN Budgets[k] : ~(m < 1)
        BY <3>1
      <3> QED BY <3>2 DEF PassedBy, Checking
    <2> QED BY <1>1, <1>3, <2>1 DEF Arrive
  <1>4. ASSUME NEW k \in BudgetKeys, BudgetsUnavailable(s, k) PROVE Account(b)'
    <2>1. /\ slot' = [slot EXCEPT ![s] = Forwarding(k)]
          /\ waived'[b] = IF k \in Members[b] THEN waived[b] + 1 ELSE waived[b]
          /\ UNCHANGED <<budgetClock, ledger, lost>>
      BY <1>4 DEF BudgetsUnavailable
    <2>2. CASE k \in Members[b]
      <3>1. Pending(b)' \subseteq Pending(b) \union {s}
        BY <1>0, <2>1, PendingMoves
      <3>2. waived'[b] >= waived[b] + 1
        BY <1>0, <2>1, <2>2
      <3> QED BY <2>1, <3>1, <3>2, NothingStamped
    <2>3. CASE k \notin Members[b]
      <3>1. ~PassedBy(Forwarding(k), b)
        BY <2>3 DEF PassedBy, Forwarding
      <3>2. Pending(b)' \subseteq Pending(b)
        <4>1. slot' = [slot EXCEPT ![s] = Forwarding(k)]
          BY <2>1
        <4>2. Pending(b)' = Pending(b) \ {s}
          BY <1>0, <3>1, <4>1, PendingMoves
        <4> QED BY <4>2
      <3>3. waived'[b] >= waived[b]
        BY <1>0, <2>1, <2>3
      <3> QED BY <2>1, <3>2, <3>3, NothingStamped
    <2> QED BY <2>2, <2>3
  <1>5. CASE CheckBudget(s)
    BY <1>5, CheckAccount
  <1>6. CASE SpendUnavailable(s)
    <2> DEFINE r == [slot[s] EXCEPT !.at = @ + 1]
    <2>1. /\ MoreBudgets(s) /\ slot[s].pc = "check" /\ UNCHANGED <<budgetClock, ledger, lost>>
          /\ slot' = [slot EXCEPT ![s] = r]
          /\ waived' = [waived EXCEPT ![Budget(s)] = @ + 1]
      BY <1>6 DEF SpendUnavailable, MoreBudgets
    <2>2. /\ slot[s] \in [pc : {"check"}, key : BudgetKeys, now : Nat, at : Nat]
          /\ r.pc = "check" /\ r.key = slot[s].key /\ r.at = slot[s].at + 1
      BY <1>0, <2>1, SlotFields
    <2> HIDE DEF r
    <2>3. CASE Budget(s) = b
      <3>1. Pending(b)' \subseteq Pending(b) \union {s}
        BY <1>0, <2>1, PendingMoves
      <3>2. waived'[b] >= waived[b] + 1
        BY <1>0, <2>1, <2>3
      <3> QED BY <2>1, <3>1, <3>2, NothingStamped
    <2>4. CASE Budget(s) # b
      <3>1. ASSUME PassedBy(r, b) PROVE PassedBy(slot[s], b)
        BY <2>1, <2>2, <2>4, <3>1, NextBudget
      <3>2. Pending(b)' \subseteq Pending(b)
        BY <1>0, <2>1, <3>1, PendingMoves, ZenonT(60)
      <3>3. waived'[b] >= waived[b]
        BY <1>0, <2>1, <2>4
      <3> QED BY <2>1, <3>2, <3>3, NothingStamped
    <2> QED BY <2>3, <2>4
  <1>7. CASE Forward(s)
    <2>1. /\ slot[s].pc = "check" /\ slot' = [slot EXCEPT ![s] = Forwarding(slot[s].key)]
          /\ ~(slot[s].at <= Len(Budgets[slot[s].key]))
          /\ UNCHANGED <<budgetClock, ledger, lost, waived>>
      BY <1>7 DEF Forward, MoreBudgets
    <2>2. slot[s].key \in BudgetKeys /\ slot[s].at \in Nat
      BY <1>0, <2>1, SlotFields
    <2>3. ASSUME PassedBy(Forwarding(slot[s].key), b) PROVE PassedBy(slot[s], b)
      <3>1. slot[s].key \in Members[b]
        BY <2>3 DEF PassedBy, Forwarding
      <3>2. PICK m \in DOMAIN Budgets[slot[s].key] : Budgets[slot[s].key][m] = b
        BY <2>2, <3>1 DEF Setting, BudgetAssumption
      <3>3. m < slot[s].at
        <4>1. Budgets[slot[s].key] \in Seq(Scopes)
          BY <2>2 DEF Setting, BudgetAssumption
        <4>2. m \in 1 .. Len(Budgets[slot[s].key]) /\ Len(Budgets[slot[s].key]) \in Nat
          BY <3>2, <4>1
        <4> QED BY <2>1, <2>2, <4>2
      <3> QED BY <2>1, <3>2, <3>3 DEF PassedBy
    <2>4. Pending(b)' \subseteq Pending(b)
      BY <1>0, <2>1, <2>3, PendingMoves, ZenonT(60)
    <2>5. waived'[b] >= waived[b]
      BY <1>0, <2>1
    <2> QED BY <2>1, <2>4, <2>5, NothingStamped
  <1>8. CASE FinishWithCost(s)
    BY <1>8, StampAccount
  <1>9. CASE FinishWithoutCost(s)
    BY <1>1, <1>2, <1>9 DEF FinishWithoutCost
  <1>10. CASE Log(s)
    BY <1>1, <1>2, <1>10 DEF Log
  <1>11. CASE LogDrops(s)
    BY <1>1, <1>2, <1>11 DEF LogDrops
  <1> QED BY <1>3, <1>4, <1>5, <1>6, <1>7, <1>8, <1>9, <1>10, <1>11 DEF RequestStep

\* Every account stays right.
LEMMA AccountStep ==
  ASSUME Setting, Sane, Sane', Placed, NEW b \in Scopes, Account(b), [BudgetNext]_budgetVars
  PROVE  Account(b)'
  <1>1. CASE \E s \in Slots : RequestStep(s)
    BY <1>1, RequestAccount
  <1>2. CASE BudgetTick
    BY <1>2, TickAccount
  <1>3. CASE \/ Take \/ InsertRequestLog \/ InsertFails \/ PruneTick \/ PruneRequestLogs
             \/ PruneFails \/ UNCHANGED budgetVars
    <2>1. UNCHANGED <<budgetClock, ledger, slot, waived>> /\ lost \subseteq lost'
      BY <1>3 DEF Take, InsertRequestLog, InsertFails, PruneTick, PruneRequestLogs, PruneFails,
                  budgetVars
    <2>2. Pending(b)' \subseteq Pending(b)
      BY <2>1 DEF Pending, PassedBy
    <2>3. waived'[b] >= waived[b]
      BY <2>1, AccountTypes
    <2> QED BY <2>1, <2>2, <2>3, NothingStamped
  <1> QED BY <1>1, <1>2, <1>3 DEF BudgetNext

Accounts == Placed /\ \A b \in Scopes : Account(b)

\* Spending never passes a limit by more than what is under way, held by the
\* logger, lost, or waived on an error: at every moment, of every period, and
\* for every number of concurrent requests.
THEOREM SpendingBounded == ASSUME Setting PROVE BudgetSpec => []OvershootBounded
  <1>1. BudgetInit /\ Sane => Accounts
    <2> SUFFICES ASSUME BudgetInit, Sane PROVE Accounts
      OBVIOUS
    <2>1. DOMAIN ledger = {} /\ waived = [b \in Scopes |-> 0] /\ lost = {}
      BY DEF BudgetInit
    <2>2. ASSUME NEW b \in Scopes PROVE Account(b)
      <3>1. Spent(b) = 0
        <4>1. Counted(DOMAIN ledger, b, CurrentPeriodStart(budgetClock)) = {}
          BY <2>1 DEF Counted
        <4> QED BY <4>1, FS_EmptySet DEF Spent
      <3>2. Cardinality(Pending(b)) = 0
        <4>1. Pending(b) = {}
          BY DEF Pending, PassedBy, BudgetInit, IdleSlot
        <4> QED BY <4>1, FS_EmptySet
      <3> QED BY <3>1, <3>2, AccountTypes DEF Account
    <2> QED BY <2>1, <2>2 DEF Accounts, Placed
  <1>2. Sane /\ Sane' /\ Accounts /\ [BudgetNext]_budgetVars => Accounts'
    <2> SUFFICES ASSUME Sane, Sane', Accounts, [BudgetNext]_budgetVars PROVE Accounts'
      OBVIOUS
    <2>1. Placed'
      BY PlacedStep DEF Accounts
    <2>2. ASSUME NEW b \in Scopes PROVE Account(b)'
      BY AccountStep DEF Accounts
    <2> QED BY <2>1, <2>2 DEF Accounts
  <1>3. Sane /\ Accounts => OvershootBounded
    <2> SUFFICES ASSUME Sane, Accounts, NEW b \in Scopes
                 PROVE  Spent(b) <= Limit[b] + Cardinality(Slots) + BufferSize
                                     + Missed(b) + waived[b]
      BY DEF OvershootBounded
    <2> QED BY AccountTypes DEF Accounts, Account
  <1> QED BY <1>1, <1>2, <1>3, BudgetSane, PTL DEF BudgetSpec

-----------------------------------------------------------------------------
(*                              LogTimestamps                              *)

\* Induction on numbers, for sets of them.
BelowNat == {p \in Nat \X Nat : p[1] < p[2]}

LEMMA LeastNat ==
  ASSUME NEW T \in SUBSET Nat, T # {}
  PROVE  \E x \in T : \A y \in T : x <= y
<1>1. OpToRel(<, Nat) = BelowNat
  BY Zenon DEF OpToRel, BelowNat
<1>2. IsWellFoundedOn(BelowNat, Nat)
  BY NatLessThanWellFounded, <1>1, Zenon
<1>3. \E x \in T : \A y \in T : ~(<<y, x>> \in BelowNat)
  BY <1>2, WFMin, Zenon
<1>4. PICK x \in T : \A y \in T : ~(<<y, x>> \in BelowNat)
  BY <1>3
<1>5. ASSUME NEW y \in T PROVE x <= y
  <2>1. x \in Nat /\ y \in Nat /\ <<y, x>> \in Nat \X Nat
    OBVIOUS
  <2>2. ~(<<y, x>>[1] < <<y, x>>[2])
    BY <1>4, <2>1, Zenon DEF BelowNat
  <2> QED
    BY <2>1, <2>2
<1> QED
  BY <1>5

LEMMA SetInduction ==
  ASSUME NEW T \in SUBSET Nat, 0 \in T, \A n \in T : n + 1 \in T
  PROVE  Nat \subseteq T
<1> SUFFICES ASSUME Nat \ T # {} PROVE FALSE
  OBVIOUS
<1>1. PICK x \in Nat \ T : \A y \in Nat \ T : x <= y
  BY LeastNat
<1>2. x - 1 \in Nat /\ x - 1 \notin Nat \ T
  BY <1>1
<1>3. x - 1 \in T /\ (x - 1) + 1 = x
  BY <1>2
<1> QED
  BY <1>1, <1>3

\* Cut is the function its definition says.
CutUpTo(g, t, m) == g = [n \in 0 .. m |-> IF n = 0 THEN t ELSE g[n - 1] \div Base]

LEMMA CutExists ==
  ASSUME NEW t, NEW m \in Nat
  PROVE  \E g : CutUpTo(g, t, m)
<1> USE DEF CutUpTo
<1> DEFINE Fn(g, k) == CutUpTo(g, t, k)
           T == {k \in Nat : \E g : Fn(g, k)}
<1>1. 0 \in T
  <2> DEFINE g == [n \in 0 .. 0 |-> t]
  <2>1. Fn(g, 0)
    OBVIOUS
  <2> HIDE DEF g, Fn
  <2> QED
    BY <2>1
<1>2. ASSUME NEW k \in T PROVE k + 1 \in T
  <2>1. PICK g : Fn(g, k)
    OBVIOUS
  <2> DEFINE h == [n \in 0 .. k + 1 |-> IF n = k + 1 THEN g[k] \div Base ELSE g[n]]
  <2>2. ASSUME NEW n \in 0 .. k + 1
        PROVE  h[n] = IF n = 0 THEN t ELSE h[n - 1] \div Base
    <3>1. CASE n = k + 1
      BY <3>1
    <3>2. CASE n # k + 1
      <4>1. n \in 0 .. k /\ h[n] = g[n] /\ (n # 0 => n - 1 \in 0 .. k + 1 /\ h[n - 1] = g[n - 1])
        BY <3>2
      <4>2. g[n] = IF n = 0 THEN t ELSE g[n - 1] \div Base
        BY <2>1, <4>1
      <4> QED
        BY <4>1, <4>2
    <3> QED
      BY <3>1, <3>2
  <2>3. Fn(h, k + 1)
    BY <2>2
  <2> HIDE DEF h, Fn
  <2> QED
    BY <2>3
<1> HIDE DEF T
<1>3. Nat \subseteq T
  <2>1. T \in SUBSET Nat
    BY DEF T
  <2> QED
    BY <2>1, <1>1, <1>2, SetInduction
<1> QED
  BY <1>3 DEF T

LEMMA CutDef ==
  ASSUME NEW t \in Nat
  PROVE  /\ Cut(t)[0] = t
         /\ \A n \in 1 .. Digits : Cut(t)[n] = Cut(t)[n - 1] \div Base
         /\ \A n \in 0 .. Digits : Cut(t)[n] \in Nat
<1> DEFINE C == Cut(t)
<1>1. C = [n \in 0 .. Digits |-> IF n = 0 THEN t ELSE C[n - 1] \div Base]
  <2>1. \E g : CutUpTo(g, t, Digits)
    BY CutExists, TimestampAssumption
  <2>2. C = CHOOSE g : CutUpTo(g, t, Digits)
    BY DEF Cut, CutUpTo
  <2> HIDE DEF C
  <2>3. CutUpTo(C, t, Digits)
    BY <2>1, <2>2
  <2> QED
    BY <2>3 DEF CutUpTo
<1> HIDE DEF C
<1>2. C[0] = t
  BY <1>1, TimestampAssumption
<1>3. ASSUME NEW n \in 1 .. Digits PROVE C[n] = C[n - 1] \div Base
  BY <1>1, TimestampAssumption
<1>4. \A n \in 0 .. Digits : C[n] \in Nat
  <2> DEFINE T == {n \in Nat : n <= Digits => C[n] \in Nat}
  <2>1. 0 \in T
    BY <1>2
  <2>2. ASSUME NEW n \in T PROVE n + 1 \in T
    <3> SUFFICES ASSUME n + 1 <= Digits PROVE C[n + 1] \in Nat
      OBVIOUS
    <3>1. C[n] \in Nat /\ n + 1 \in 1 .. Digits /\ (n + 1) - 1 = n
      BY TimestampAssumption
    <3>2. C[n + 1] = C[n] \div Base
      BY <1>3, <3>1
    <3>3. \A x \in Nat : x \div Base \in Nat
      BY TimestampAssumption
    <3> QED
      BY <3>1, <3>2, <3>3
  <2> HIDE DEF T
  <2>3. Nat \subseteq T
    <3>1. T \in SUBSET Nat
      BY DEF T
    <3> QED
      BY <2>1, <2>2, <3>1, SetInduction
  <2> QED
    BY <2>3, TimestampAssumption DEF T
<1> QED
  BY <1>2, <1>3, <1>4 DEF C

\* A number is given by its last digit and the others.
LEMMA DivisionUnique ==
  ASSUME NEW b \in Nat, b > 0, NEW x \in Nat, NEW y \in Nat, x \div b = y \div b, x % b = y % b
  PROVE  x = y
<1>1. x = b * (x \div b) + (x % b)
  OBVIOUS
<1>2. y = b * (y \div b) + (y % b)
  OBVIOUS
<1> QED
  BY <1>1, <1>2

\* A time is given by its second and the digits of its fraction.
LEMMA SameDigits ==
  ASSUME NEW s \in Nat, NEW t \in Nat, SecondOf(s) = SecondOf(t),
         \A n \in 1 .. Digits : DigitAt(s, n) = DigitAt(t, n)
  PROVE  s = t
<1> DEFINE C == Cut(s)
           D == Cut(t)
           T == {k \in Nat : k <= Digits => C[Digits - k] = D[Digits - k]}
<1>1. /\ C[0] = s /\ D[0] = t
      /\ \A n \in 1 .. Digits : C[n] = C[n - 1] \div Base /\ D[n] = D[n - 1] \div Base
      /\ \A n \in 0 .. Digits : C[n] \in Nat /\ D[n] \in Nat
  BY CutDef
<1>2. C[Digits] = D[Digits] /\ \A n \in 1 .. Digits : C[Digits - n] % Base = D[Digits - n] % Base
  BY DEF SecondOf, DigitAt
<1> HIDE DEF C, D
<1>3. 0 \in T
  BY <1>2, TimestampAssumption
<1>4. ASSUME NEW k \in T PROVE k + 1 \in T
  <2> SUFFICES ASSUME k + 1 <= Digits PROVE C[Digits - (k + 1)] = D[Digits - (k + 1)]
    OBVIOUS
  <2> DEFINE n == Digits - k
  <2>1. n \in 1 .. Digits /\ n - 1 \in 0 .. Digits /\ Digits - (k + 1) = n - 1 /\ k + 1 \in 1 .. Digits
    BY TimestampAssumption
  <2>2. C[n] = D[n]
    BY TimestampAssumption
  <2> HIDE DEF n
  <2>3. C[n - 1] \div Base = D[n - 1] \div Base
    BY <1>1, <2>1, <2>2
  <2>4. C[n - 1] % Base = D[n - 1] % Base
    BY <1>2, <2>1
  <2>5. Base \in Nat /\ Base > 0
    BY TimestampAssumption
  <2> QED
    BY <1>1, <2>1, <2>3, <2>4, <2>5, DivisionUnique
<1> HIDE DEF T
<1>5. Nat \subseteq T
  <2>1. T \in SUBSET Nat
    BY DEF T
  <2> QED
    BY <1>3, <1>4, <2>1, SetInduction
<1>6. C[0] = D[0]
  BY <1>5, TimestampAssumption DEF T
<1> QED
  BY <1>1, <1>6

LEMMA LastDigitDef ==
  ASSUME NEW t \in Nat
  PROVE  /\ LastDigit(t) \in 0 .. Digits
         /\ \A m \in LastDigit(t) + 1 .. Digits : DigitAt(t, m) = 0
<1> DEFINE Zeros(n) == \A m \in n + 1 .. Digits : DigitAt(t, m) = 0
           T == {n \in 0 .. Digits : Zeros(n)}
<1>1. T \in SUBSET Nat /\ Digits \in T
  BY TimestampAssumption
<1>2. PICK n \in T : \A k \in T : n <= k
  <2> HIDE DEF T
  <2> QED
    BY <1>1, LeastNat
<1>3. ASSUME n # 0, DigitAt(t, n) = 0 PROVE FALSE
  <2>1. n - 1 \in 0 .. Digits /\ n - 1 \notin T
    BY <1>2, <1>3, TimestampAssumption
  <2>2. ASSUME NEW m \in (n - 1) + 1 .. Digits PROVE DigitAt(t, m) = 0
    BY <1>2, <1>3
  <2> QED
    BY <2>1, <2>2
<1>4. \E k \in 0 .. Digits : (k = 0 \/ DigitAt(t, k) # 0) /\ Zeros(k)
  BY <1>2, <1>3
<1> QED
  BY <1>4 DEF LastDigit

\* The characters of a timestamp.
LEMMA TextOf ==
  ASSUME NEW t \in Nat
  PROVE  LET f == fmtTime(t)
             n == LastDigit(t)
         IN  /\ f[1] = SecondOf(t) /\ 1 \in DOMAIN f /\ DOMAIN f \subseteq Nat \ {0}
             /\ n = 0 => Len(f) = 2
             /\ n > 0 => Len(f) = n + 3
             /\ \A k \in 1 .. n : f[k + 2] = Digit(DigitAt(t, k))
<1> DEFINE n == LastDigit(t)
           d == [k \in 1 .. n |-> Digit(DigitAt(t, k))]
           f == fmtTime(t)
<1>1. n \in Nat
  BY LastDigitDef, TimestampAssumption
<1>2. SecondOf(t) \in Nat /\ Zone \in Nat /\ Point \in Nat
  BY CutDef, TimestampAssumption DEF SecondOf, Zone, Point
<1>3. \A k \in 1 .. n : DigitAt(t, k) \in Int
  <2>1. n <= Digits
    BY LastDigitDef, TimestampAssumption
  <2>2. ASSUME NEW k \in 1 .. n PROVE Cut(t)[Digits - k] % Base \in Int
    <3>1. Digits - k \in 0 .. Digits
      BY <1>1, <2>1, TimestampAssumption
    <3>2. Cut(t)[Digits - k] \in Nat
      BY <3>1, CutDef
    <3> QED
      BY <3>2, TimestampAssumption
  <2> QED
    BY <2>2 DEF DigitAt
<1>4. d \in Seq(Int) /\ Len(d) = n /\ \A k \in 1 .. n : d[k] = Digit(DigitAt(t, k))
  BY <1>1, <1>3 DEF Digit
<1>5. f = <<SecondOf(t)>> \o (IF n = 0 THEN <<>> ELSE <<Point>> \o d) \o <<Zone>>
  BY DEF fmtTime, Fraction
<1> HIDE DEF n, d, f
<1>6. CASE n = 0
  <2>1. f = (<<SecondOf(t)>> \o <<>>) \o <<Zone>>
    BY <1>5, <1>6
  <2>2. <<SecondOf(t)>> \o <<>> = <<SecondOf(t)>>
    BY <1>2
  <2>3. f \in Seq(Int) /\ Len(f) = 2 /\ f[1] = SecondOf(t)
    BY <1>2, <2>1, <2>2
  <2>4. DOMAIN f = 1 .. 2
    BY <2>3
  <2> QED
    BY <1>1, <1>6, <2>3, <2>4 DEF n, f
<1>7. CASE n # 0
  <2> DEFINE g == <<Point>> \o d
             h == <<SecondOf(t)>> \o g
  <2>1. g \in Seq(Int) /\ Len(g) = n + 1 /\ \A k \in 1 .. n : g[k + 1] = d[k]
    BY <1>1, <1>2, <1>4
  <2> HIDE DEF g
  <2>2. h \in Seq(Int) /\ Len(h) = n + 2 /\ h[1] = SecondOf(t) /\ \A k \in 1 .. n : h[k + 2] = d[k]
    <3>1. h \in Seq(Int) /\ Len(h) = n + 2 /\ h[1] = SecondOf(t) /\ \A k \in 1 .. n + 1 : h[k + 1] = g[k]
      BY <1>1, <1>2, <2>1
    <3>2. \A k \in 1 .. n : k + 1 \in 1 .. n + 1 /\ (k + 1) + 1 = k + 2
      BY <1>1
    <3> HIDE DEF h
    <3>3. \A k \in 1 .. n : h[k + 2] = d[k]
      BY <2>1, <3>1, <3>2
    <3> QED
      BY <3>1, <3>3
  <2>3. f = h \o <<Zone>>
    BY <1>5, <1>7 DEF g
  <2> HIDE DEF h
  <2>4. f \in Seq(Int) /\ Len(f) = n + 3 /\ \A k \in 1 .. n + 2 : f[k] = h[k]
    BY <1>1, <1>2, <2>2, <2>3
  <2>5. f[1] = SecondOf(t) /\ \A k \in 1 .. n : f[k + 2] = d[k]
    <3>1. 1 \in 1 .. n + 2 /\ \A k \in 1 .. n : k + 2 \in 1 .. n + 2
      BY <1>1
    <3> QED
      BY <2>2, <2>4, <3>1
  <2>6. DOMAIN f = 1 .. n + 3 /\ n > 0
    BY <1>1, <1>7, <2>4
  <2> QED
    BY <1>1, <1>4, <1>7, <2>4, <2>5, <2>6 DEF n, f
<1> QED
  BY <1>6, <1>7

LEMMA SameText ==
  ASSUME NEW s \in Nat, NEW t \in Nat, fmtTime(s) = fmtTime(t)
  PROVE  s = t
<1> DEFINE n == LastDigit(s)
<1>1. /\ LastDigit(s) \in Nat /\ LastDigit(t) \in Nat /\ LastDigit(s) <= Digits
      /\ \A m \in LastDigit(s) + 1 .. Digits : DigitAt(s, m) = 0
      /\ \A m \in LastDigit(t) + 1 .. Digits : DigitAt(t, m) = 0
  BY LastDigitDef, TimestampAssumption
<1>2. SecondOf(s) = SecondOf(t)
  BY TextOf
<1>3. LastDigit(t) = n
  <2> DEFINE k == LastDigit(t)
             a == Len(fmtTime(s))
             b == Len(fmtTime(t))
  <2>1. (n = 0 => a = 2) /\ (n > 0 => a = n + 3)
    BY TextOf
  <2>2. (k = 0 => b = 2) /\ (k > 0 => b = k + 3)
    BY TextOf
  <2>3. a = b /\ n \in Nat /\ k \in Nat
    BY <1>1
  <2> HIDE DEF n, k, a, b
  <2>4. k = n
    BY <2>1, <2>2, <2>3
  <2> QED
    BY <2>4 DEF k
<1>4. ASSUME NEW m \in 1 .. Digits PROVE DigitAt(s, m) = DigitAt(t, m)
  <2>1. CASE m \in 1 .. n
    <3>1. fmtTime(s)[m + 2] = Digit(DigitAt(s, m))
      BY <2>1, TextOf
    <3>2. fmtTime(t)[m + 2] = Digit(DigitAt(t, m))
      BY <1>3, <2>1, TextOf
    <3>3. DigitAt(s, m) \in Int /\ DigitAt(t, m) \in Int
      <4>1. Digits - m \in 0 .. Digits
        BY TimestampAssumption
      <4>2. Cut(s)[Digits - m] \in Nat /\ Cut(t)[Digits - m] \in Nat
        BY <4>1, CutDef
      <4> QED
        BY <4>2, TimestampAssumption DEF DigitAt
    <3> QED
      BY <3>1, <3>2, <3>3 DEF Digit
  <2>2. CASE m \notin 1 .. n
    BY <1>1, <1>3, <2>2, TimestampAssumption
  <2> QED
    BY <2>1, <2>2
<1> QED
  BY <1>2, <1>4, SameDigits

\* The text of an earlier second sorts before that of a later one.
LEMMA TextOrder ==
  ASSUME NEW s \in Nat, NEW t \in Nat, SecondOf(s) < SecondOf(t)
  PROVE  SortsBefore(s, t) /\ ~SortsBefore(t, s)
<1> DEFINE f == fmtTime(s)
           g == fmtTime(t)
<1>1. /\ f[1] = SecondOf(s) /\ 1 \in DOMAIN f /\ DOMAIN f \subseteq Nat \ {0}
      /\ g[1] = SecondOf(t) /\ 1 \in DOMAIN g
  BY TextOf
<1>2. SecondOf(s) \in Nat /\ SecondOf(t) \in Nat
  BY CutDef, TimestampAssumption DEF SecondOf
<1> HIDE DEF f, g
<1>3. TextLess(f, g)
  BY <1>1 DEF TextLess
<1>4. ~TextLess(g, f)
  <2> SUFFICES ASSUME NEW n \in DOMAIN g \intersect DOMAIN f, g[n] < f[n], \A m \in 1 .. n - 1 : g[m] = f[m]
               PROVE  FALSE
    BY DEF TextLess
  <2>1. n # 1
    BY <1>1, <1>2
  <2>2. 1 \in 1 .. n - 1
    BY <1>1, <2>1
  <2> QED
    BY <1>1, <1>2, <2>2
<1> QED
  BY <1>3, <1>4 DEF SortsBefore, f, g

StampsInv == stampClock \in Nat /\ stamped \subseteq Nat

\* In text, times sort by their seconds: what PruneRequestLogs deletes and
\* GetSpendSince adds up is wrong by less than a second, whatever the number of
\* digits a fraction has, and no two times are written alike.
THEOREM SecondsInOrder == TimestampSpec => []OrderedBySecond
<1>1. TimestampInit => StampsInv
  BY DEF TimestampInit, StampsInv
<1>2. StampsInv /\ [TimestampNext]_timestampVars => StampsInv'
  <2> SUFFICES ASSUME StampsInv, [TimestampNext]_timestampVars PROVE StampsInv'
    OBVIOUS
  <2>1. CASE InsertStamped
    BY <2>1 DEF StampsInv, InsertStamped
  <2>2. ASSUME NEW before \in 0 .. stampClock, PruneStamped(before) PROVE StampsInv'
    BY <2>2 DEF StampsInv, PruneStamped
  <2>3. CASE TimePasses
    BY <2>3 DEF StampsInv, TimePasses
  <2>4. CASE UNCHANGED timestampVars
    BY <2>4 DEF StampsInv, timestampVars
  <2> QED
    BY <2>1, <2>2, <2>3, <2>4 DEF TimestampNext
<1>3. StampsInv => OrderedBySecond
  <2> SUFFICES ASSUME StampsInv PROVE OrderedBySecond
    OBVIOUS
  <2>1. ASSUME NEW a \in stamped, NEW b \in stamped, a # b PROVE fmtTime(a) # fmtTime(b)
    BY <2>1, SameText DEF StampsInv
  <2>2. ASSUME NEW since \in 0 .. stampClock
        PROVE  /\ {t \in stamped : SecondOf(t) > SecondOf(since)} \subseteq CountedSince(since)
               /\ CountedSince(since) \subseteq {t \in stamped : SecondOf(t) >= SecondOf(since)}
    <3>1. since \in Nat /\ SecondOf(since) \in Nat
      BY CutDef, TimestampAssumption DEF StampsInv, SecondOf
    <3>2. ASSUME NEW t \in stamped, SecondOf(t) > SecondOf(since) PROVE t \in CountedSince(since)
      <4>1. t \in Nat /\ SecondOf(t) \in Nat
        BY CutDef, TimestampAssumption DEF StampsInv, SecondOf
      <4> QED
        BY <3>1, <3>2, <4>1, TextOrder DEF CountedSince
    <3>3. ASSUME NEW t \in CountedSince(since) PROVE t \in stamped /\ SecondOf(t) >= SecondOf(since)
      <4>1. t \in stamped /\ ~SortsBefore(t, since)
        BY DEF CountedSince
      <4>2. t \in Nat /\ SecondOf(t) \in Nat
        BY <4>1, CutDef, TimestampAssumption DEF StampsInv, SecondOf
      <4> QED
        BY <3>1, <4>1, <4>2, TextOrder
    <3> QED
      BY <3>2, <3>3
  <2> QED
    BY <2>1, <2>2 DEF OrderedBySecond
<1> QED
  BY <1>1, <1>2, <1>3, PTL DEF TimestampSpec
=============================================================================
