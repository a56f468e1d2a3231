--------------------------- MODULE BreakerRegistry ---------------------------
(***************************************************************************)
(* The lazily filled registry of internal/circuitbreaker/registry.go.      *)
(*                                                                         *)
(* Get looks a provider up under the read lock and, if it has to, again    *)
(* under the write lock, where it creates the breaker.  AllStats copies    *)
(* the map under the read lock and visits the breakers without it.         *)
(* A breaker is identified by the order in which it was created.           *)
(***************************************************************************)
EXTENDS Naturals

CONSTANTS Callers,   \* goroutines that call Get
          Readers,   \* goroutines that call AllStats
          Names      \* provider names

VARIABLES registry, \* the breakers map
          created,  \* the number of breakers created so far
          get,      \* the calls of Get
          refs,     \* the copy of the map each AllStats call holds
          returned  \* history: the breakers Get has returned, by provider

registryVars == <<registry, created, get, refs, returned>>

Idle == [pc |-> "idle"]
EmptyMap == [p \in {} |-> 0]

RegistryInit ==
    /\ registry = EmptyMap
    /\ created = 0
    /\ get = [c \in Callers |-> Idle]
    /\ refs = [r \in Readers |-> EmptyMap]
    /\ returned = [p \in Names |-> {}]

Return(c, p, b) ==
    /\ returned' = [returned EXCEPT ![p] = @ \union {b}]
    /\ get' = [get EXCEPT ![c] = Idle]

-----------------------------------------------------------------------------
\* Get finds the breaker under the read lock.
GetHit(c, p) ==
    /\ get[c] = Idle
    /\ p \in DOMAIN registry
    /\ Return(c, p, registry[p])
    /\ UNCHANGED <<registry, created, refs>>

\* It does not, and goes on to take the write lock.
GetMiss(c, p) ==
    /\ get[c] = Idle
    /\ p \notin DOMAIN registry
    /\ get' = [get EXCEPT ![c] = [pc |-> "locked", provider |-> p]]
    /\ UNCHANGED <<registry, created, refs, returned>>

\* Mutant of GetLocked: the second lookup is left out.
GetLockedUnchecked(c) ==
    LET p == get[c].provider IN
    /\ get[c].pc = "locked"
    /\ created' = created + 1
    /\ registry' = [q \in DOMAIN registry \union {p} |->
                       IF q = p THEN created + 1 ELSE registry[q]]
    /\ Return(c, p, created + 1)
    /\ UNCHANGED refs

\* Under the write lock: somebody else's breaker, or a new one.
GetLocked(c) ==
    LET p == get[c].provider IN
    /\ get[c].pc = "locked"
    /\ IF p \in DOMAIN registry
       THEN /\ Return(c, p, registry[p])
            /\ UNCHANGED <<registry, created>>
       ELSE /\ created' = created + 1
            /\ registry' = [q \in DOMAIN registry \union {p} |->
                               IF q = p THEN created + 1 ELSE registry[q]]
            /\ Return(c, p, created + 1)
    /\ UNCHANGED refs

\* AllStats copies the map.
AllStats(r) ==
    /\ refs' = [refs EXCEPT ![r] = registry]
    /\ UNCHANGED <<registry, created, get, returned>>

RegistryNext ==
    \/ \E c \in Callers : GetLocked(c) \/ \E p \in Names : GetHit(c, p) \/ GetMiss(c, p)
    \/ \E r \in Readers : AllStats(r)

RegistrySpec == RegistryInit /\ [][RegistryNext]_registryVars

-----------------------------------------------------------------------------
(* Properties. *)

\* All the requests to a provider share one breaker, also those that are the
\* first ones together, and the statistics are that breaker's: FallbackPipeline
\* relies on it when it gives each provider one breaker from the start.
OneBreakerPerProvider ==
    \A p \in Names : \A b \in returned[p] :
        /\ p \in DOMAIN registry /\ registry[p] = b
        /\ \A r \in Readers : p \in DOMAIN refs[r] => refs[r][p] = b
=============================================================================
