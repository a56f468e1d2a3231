---------------------------- MODULE ModelChecker ----------------------------
(***************************************************************************)
(* The per-key model allowlists of internal/proxy/model_checker.go and the *)
(* handlers that consult them before a request enters the pipeline.        *)
(*                                                                         *)
(* Allowlists live in the store and are cached for TTL.  A call reads the  *)
(* clock, looks in the cache under the read lock, looks again under the    *)
(* write lock, queries the store holding no lock, and puts what it got     *)
(* into the cache under the time it read at first.  Each of these is a     *)
(* step, so that calls for one key and changes of its allowlist interleave.*)
(*                                                                         *)
(* A pattern is the set of the models it matches (filepath.Match); an      *)
(* allowlist is a set of patterns.                                         *)
(***************************************************************************)
EXTENDS Integers

CONSTANTS Callers,    \* concurrent calls of IsModelAllowed
          Keys,       \* proxy keys
          Models,     \* model names requests ask for
          Allowlists, \* the allowlists an administrator stores
          TTL,        \* ttl, in ticks
          SweepEvery, \* sweepInterval * ttl
          StaleAfter, \* staleThreshold
          MaxClock    \* end of the modelled time

\* NewModelChecker replaces a ttl that is not positive; the sweep's intervals
\* are multiples of it.
ASSUME CheckerAssumption ==
    /\ TTL \in Nat \ {0}
    /\ SweepEvery \in Nat /\ StaleAfter \in Nat
    /\ StaleAfter >= TTL
    /\ MaxClock \in Nat
    /\ Allowlists \subseteq SUBSET SUBSET Models

VARIABLES clock,
          stored,      \* proxy_key_allowed_models: the allowlist of each key
          cache,       \* the cached allowlists, for the keys that have one
          lastSweep,   \* when the cache was last swept
          call,        \* the calls of IsModelAllowed
          lastStored   \* history: when each allowlist was last in the store

checkerVars == <<clock, stored, cache, lastSweep, call, lastStored>>

Entries == [patterns : Allowlists, fetchedAt : Nat]

\* The zero time lies more than a sweep interval, and a TTL, before the start.
ZeroTime == -(SweepEvery + TTL)

Calls == [pc : {"idle", "lookup", "recheck", "fetch", "store", "done"},
          key : Keys, model : Models, now : Nat,
          patterns : Allowlists,
          verdict : {"none", "allowed", "denied", "error"}]

CheckerTypeOK ==
    /\ clock \in Nat
    /\ stored \in [Keys -> Allowlists]
    /\ DOMAIN cache \subseteq Keys
    /\ \A k \in DOMAIN cache : cache[k] \in Entries
    /\ lastSweep \in Int
    /\ call \in [Callers -> Calls]
    /\ lastStored \in [Keys -> [Allowlists -> Int]]

CheckerInit ==
    /\ clock = 0
    /\ stored \in [Keys -> Allowlists]
    /\ cache = [k \in {} |-> 0]
    /\ lastSweep = ZeroTime
    /\ \E k \in Keys, m \in Models, l \in Allowlists :
          call = [c \in Callers |-> [pc |-> "idle", key |-> k, model |-> m, now |-> 0,
                                     patterns |-> l, verdict |-> "none"]]
    /\ lastStored = [k \in Keys |-> [l \in Allowlists |->
                        IF l = stored[k] THEN 0 ELSE ZeroTime]]

-----------------------------------------------------------------------------
\* What IsModelAllowed concludes from an allowlist: an empty one restricts
\* nothing, any other one restricts to what its patterns match.
Permits(patterns, model) ==
    patterns = {} \/ \E p \in patterns : model \in p

\* IsModelAllowed returns on the allowlist it was given.
Decided(r, patterns) ==
    [r EXCEPT !.pc = "done", !.patterns = patterns,
              !.verdict = IF Permits(patterns, r.model) THEN "allowed" ELSE "denied"]

\* Mutant of Fresh: an entry outlives its TTL by one tick.
FreshOffByOne(k, now) == k \in DOMAIN cache /\ now - cache[k].fetchedAt <= TTL

Fresh(k, now) == k \in DOMAIN cache /\ now - cache[k].fetchedAt < TTL

\* evictStaleLocked: what is left of the cache after the sweep that is due.
SweepDue(now) == now - lastSweep >= SweepEvery
Swept(now) ==
    [k \in {j \in DOMAIN cache : ~(SweepDue(now) /\ now - cache[j].fetchedAt > StaleAfter)}
        |-> cache[k]]

-----------------------------------------------------------------------------
\* A request for model m with key k calls IsModelAllowed; now := mc.now().
Call(c, k, m) ==
    /\ call[c].pc \in {"idle", "done"}
    /\ call' = [call EXCEPT ![c] = [pc |-> "lookup", key |-> k, model |-> m, now |-> clock,
                                    patterns |-> call[c].patterns, verdict |-> "none"]]
    /\ UNCHANGED <<clock, stored, cache, lastSweep, lastStored>>

\* The cache is read under the read lock.
Lookup(c) ==
    LET k == call[c].key IN
    /\ call[c].pc = "lookup"
    /\ call' = [call EXCEPT ![c] =
                   IF Fresh(k, call[c].now) THEN Decided(@, cache[k].patterns)
                   ELSE [@ EXCEPT !.pc = "recheck"]]
    /\ UNCHANGED <<clock, stored, cache, lastSweep, lastStored>>

\* Under the write lock another call's entry is found.
RecheckHits(c) ==
    /\ call[c].pc = "recheck"
    /\ Fresh(call[c].key, call[c].now)
    /\ call' = [call EXCEPT ![c] = Decided(@, cache[call[c].key].patterns)]
    /\ UNCHANGED <<clock, stored, cache, lastSweep, lastStored>>

\* Or there is none: the stale entries are swept out and the lock is released.
RecheckMisses(c) ==
    LET now == call[c].now IN
    /\ call[c].pc = "recheck"
    /\ ~Fresh(call[c].key, now)
    /\ cache' = Swept(now)
    /\ lastSweep' = IF SweepDue(now) THEN now ELSE lastSweep
    /\ call' = [call EXCEPT ![c].pc = "fetch"]
    /\ UNCHANGED <<clock, stored, lastStored>>

\* GetKeyAllowedModels returns the rows of the key.
Fetch(c) ==
    /\ call[c].pc = "fetch"
    /\ call' = [call EXCEPT ![c].pc = "store", ![c].patterns = stored[call[c].key]]
    /\ UNCHANGED <<clock, stored, cache, lastSweep, lastStored>>

\* It fails: nothing is cached, and the handler lets the request through.
FetchFails(c) ==
    /\ call[c].pc = "fetch"
    /\ call' = [call EXCEPT ![c].pc = "done", ![c].verdict = "error"]
    /\ UNCHANGED <<clock, stored, cache, lastSweep, lastStored>>

Entry(r) == [patterns |-> r.patterns, fetchedAt |-> r.now]

\* The result goes into the cache, over whatever is there by now.
Store(c) ==
    LET k == call[c].key IN
    /\ call[c].pc = "store"
    /\ cache' = [j \in DOMAIN cache \union {k} |->
                    IF j = k THEN Entry(call[c]) ELSE cache[j]]
    /\ call' = [call EXCEPT ![c] = Decided(@, @.patterns)]
    /\ UNCHANGED <<clock, stored, lastSweep, lastStored>>

-----------------------------------------------------------------------------
\* SetKeyAllowedModels replaces the rows of a key in one transaction.
SetKeyAllowedModels(k, l) ==
    /\ stored[k] # l
    /\ stored' = [stored EXCEPT ![k] = l]
    /\ lastStored' = [lastStored EXCEPT ![k][l] = clock]
    /\ UNCHANGED <<clock, cache, lastSweep, call>>

InvalidateKey(k) ==
    /\ k \in DOMAIN cache
    /\ cache' = [j \in DOMAIN cache \ {k} |-> cache[j]]
    /\ UNCHANGED <<clock, stored, lastSweep, call, lastStored>>

\* Time passes; the allowlists in the store are in the store at the new time.
Tick ==
    /\ clock < MaxClock
    /\ clock' = clock + 1
    /\ lastStored' = [k \in Keys |-> [lastStored[k] EXCEPT ![stored[k]] = clock + 1]]
    /\ UNCHANGED <<stored, cache, lastSweep, call>>

CallStep(c) ==
    \/ Lookup(c)
    \/ RecheckHits(c)
    \/ RecheckMisses(c)
    \/ Fetch(c)
    \/ FetchFails(c)
    \/ Store(c)

CheckerNext ==
    \/ \E c \in Callers : CallStep(c) \/ \E k \in Keys, m \in Models : Call(c, k, m)
    \/ \E k \in Keys : InvalidateKey(k) \/ \E l \in Allowlists : SetKeyAllowedModels(k, l)
    \/ Tick

CheckerSpec == CheckerInit /\ [][CheckerNext]_checkerVars

-----------------------------------------------------------------------------
(* Properties. *)

\* The allowlist a request is judged by was in the store less than a TTL before
\* the request: a change takes full effect after TTL, whatever fetches were
\* under way when it was made and in whatever order they reach the cache.
BoundedStaleness ==
    \A c \in Callers : call[c].verdict \in {"allowed", "denied"} =>
        lastStored[call[c].key][call[c].patterns] > call[c].now - TTL
=============================================================================
