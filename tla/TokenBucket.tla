---------------------------- MODULE TokenBucket ----------------------------
(***************************************************************************)
(* One token bucket of internal/ratelimit/limiter.go, as Limiter.Allow     *)
(* uses it under the limiter's mutex.                                      *)
(*                                                                         *)
(* The code counts tokens in fractions.  Here a bucket is counted in the   *)
(* units it earns in one tick of the clock: a token is Cost units, the     *)
(* burst is Burst units, and refilling adds one unit per tick.             *)
(***************************************************************************)
EXTENDS Integers

CONSTANTS Burst, \* capacity of a bucket, in units
          Cost   \* the units a request takes: 60 / perMinute, in ticks

\* New replaces a rate or a burst that is not positive, so that a bucket holds
\* at least one token.
ASSUME BucketAssumption ==
    /\ Cost \in Nat \ {0}
    /\ Burst \in Nat
    /\ Burst >= Cost

Bucket == [tokens : 0 .. Burst, lastSeen : Nat, lastRefill : Nat]

NewBucket(now) == [tokens |-> Burst, lastSeen |-> now, lastRefill |-> now]

\* Mutant of Refilled: a time that is behind lastRefill moves it back.
RefilledBackwards(b, now) ==
    LET earned == IF now > b.lastRefill THEN now - b.lastRefill ELSE 0
    IN  [tokens |-> IF b.tokens + earned > Burst THEN Burst ELSE b.tokens + earned,
         lastSeen |-> now,
         lastRefill |-> now]

\* The bucket once it has been seen and refilled at time now.  Callers read the
\* clock before they take the mutex, so now may be behind lastRefill.
Refilled(b, now) ==
    LET earned == IF now > b.lastRefill THEN now - b.lastRefill ELSE 0
    IN  [tokens |-> IF b.tokens + earned > Burst THEN Burst ELSE b.tokens + earned,
         lastSeen |-> now,
         lastRefill |-> IF now > b.lastRefill THEN now ELSE b.lastRefill]

HasToken(b) == b.tokens >= Cost

Taken(b) == [b EXCEPT !.tokens = @ - Cost]
=============================================================================
