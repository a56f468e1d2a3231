-------------------------- MODULE FallbackPipeline --------------------------
(***************************************************************************)
(* The proxy pipeline of internal/proxy/pipeline.go: executeProxyPipeline, *)
(* executeFallbackChain and executeProviderAttempt, run by concurrent      *)
(* requests that share the circuit breakers of the registry.               *)
(*                                                                         *)
(* A slot is a handler goroutine; it serves one request after the other.   *)
(* The steps of a request are cut where it touches a breaker (each touch   *)
(* is atomic under the breaker's mutex) and where it waits: in             *)
(* SendRequest, and while the response is relayed to the client.           *)
(*                                                                         *)
(* A request's `writes' are the calls that write a status to the client,   *)
(* `logs' the AttemptCount of each log entry it emits.                     *)
(***************************************************************************)
EXTENDS CircuitBreaker, Sequences

CONSTANTS Slots,       \* handler goroutines
          Providers,   \* provider names a chain may mention
          Configured,  \* the keys of the providers map
          Translating, \* providers whose route builder can refuse a body
          Chains       \* the dispatch chains FindModel can return

ASSUME PipelineAssumption ==
    /\ Configured \subseteq Providers
    /\ Translating \subseteq Configured
    /\ Chains \subseteq Seq(Providers) \ {<<>>}

VARIABLES breakers,  \* the registry: one breaker per provider
          req,       \* the request each slot is serving
          probes     \* history: admissions while a breaker is not closed

vars == <<breakers, req, probes>>

\* What SendRequest can come back with.  A 429 and any 5xx are the fallback
\* statuses; any other status is relayed to the client.
Outcomes == {"network", "5xx", "429", "cancelled", "relayed"}

isFallbackStatus(o) == o \in {"5xx", "429"}

\* What can be written to the client: the status of the last attempt (5xx or
\* 429), 502, 503, 400, or the response relayed from upstream.
Answers == {"5xx", "429", "bad_gateway", "unavailable", "bad_request", "upstream"}

Request == [pc : {"idle", "loop", "build", "send", "respond", "done"},
            chain : Chains,
            i : Nat,
            anyAttempted : BOOLEAN,
            gone : BOOLEAN,
            fate : Seq({"skipped", "failed"}),
            writes : Seq(Answers),
            logs : Seq(Nat)]

TypeOK ==
    /\ breakers \in [Providers -> Breaker]
    /\ req \in [Slots -> Request]
    /\ probes \in [Providers -> Nat]

NewRequest(c) == [pc |-> "loop", chain |-> c, i |-> 1, anyAttempted |-> FALSE,
                  gone |-> FALSE, fate |-> <<>>, writes |-> <<>>, logs |-> <<>>]

Init ==
    /\ breakers = [p \in Providers |-> NewBreaker]
    /\ \E c \in Chains : req = [s \in Slots |-> [NewRequest(c) EXCEPT !.pc = "idle"]]
    /\ probes = [p \in Providers |-> 0]

-----------------------------------------------------------------------------
Mapping(r) == r.chain[r.i]
Active(s) == req[s].pc \notin {"idle", "done"}

\* Mutant of HasMoreFallbacks: the last entry believes another one follows.
HasMoreFallbacksOffByOne(r) == r.i <= Len(r.chain)

HasMoreFallbacks(r) == r.i < Len(r.chain)

\* The error or the response is written to the client; a log entry is emitted.
Answer(r, a) == [r EXCEPT !.writes = Append(@, a)]
logEntry(r) == [r EXCEPT !.logs = Append(@, r.i)]

\* The end of executeProxyPipeline, once the chain has been left: without any
\* attempt the client is told that no provider is available.
Finished(r) ==
    [r EXCEPT !.pc = "done",
              !.writes = IF r.anyAttempted THEN @ ELSE Append(@, "unavailable")]

-----------------------------------------------------------------------------
\* A request enters the pipeline with the chain its model resolved to.
Arrive(s) ==
    /\ ~Active(s)
    /\ \E c \in Chains : req' = [req EXCEPT ![s] = NewRequest(c)]
    /\ UNCHANGED <<breakers, probes>>

AtEntry(s) == req[s].pc = "loop" /\ req[s].i <= Len(req[s].chain)

\* The entry names a provider the registry does not have.
MissingProvider(s) ==
    /\ AtEntry(s)
    /\ Mapping(req[s]) \notin Configured
    /\ req' = [req EXCEPT ![s] = Finished(Answer(req[s], "bad_request"))]
    /\ UNCHANGED <<breakers, probes>>

\* Mutant of Skip: the loop does not move past the entry it skips.
SkipStays(s) ==
    /\ AtEntry(s)
    /\ Mapping(req[s]) \in Configured
    /\ ~Allows(breakers[Mapping(req[s])])
    /\ req' = req
    /\ UNCHANGED <<breakers, probes>>

\* The breaker refuses: on to the next entry.
Skip(s) ==
    /\ AtEntry(s)
    /\ Mapping(req[s]) \in Configured
    /\ ~Allows(breakers[Mapping(req[s])])
    /\ req' = [req EXCEPT ![s].i = @ + 1, ![s].fate = Append(@, "skipped")]
    /\ UNCHANGED <<breakers, probes>>

\* The breaker lets the request through, as a probe if it was not closed.
Admit(s) ==
    LET p == Mapping(req[s]) IN
    /\ AtEntry(s)
    /\ p \in Configured
    /\ Allows(breakers[p])
    /\ breakers' = [breakers EXCEPT ![p] = AfterAllow(@)]
    /\ req' = [req EXCEPT ![s].pc = "build", ![s].anyAttempted = TRUE]
    /\ probes' = [probes EXCEPT ![p] = IF breakers[p].state = "closed" THEN 0 ELSE @ + 1]

\* The route builder refuses the body (it does not translate to the format of
\* the provider): it has written the error, and the chain stops.
BuildFails(s) ==
    /\ req[s].pc = "build"
    /\ Mapping(req[s]) \in Translating
    /\ req' = [req EXCEPT ![s] = Finished(Answer(req[s], "bad_request"))]
    /\ UNCHANGED <<breakers, probes>>

Send(s) ==
    /\ req[s].pc = "build"
    /\ req' = [req EXCEPT ![s].pc = "send"]
    /\ UNCHANGED <<breakers, probes>>

\* The client disconnects, which cancels the context of the SendRequest it is
\* in and of every later one.  (A SendRequest that returns a result in spite of
\* it has returned first.)
ClientGone(s) ==
    /\ req[s].pc \in {"loop", "build", "send"}
    /\ ~req[s].gone
    /\ req' = [req EXCEPT ![s].gone = TRUE]
    /\ UNCHANGED <<breakers, probes>>

\* The error of the last attempt, as writeExhaustedError (with the status that
\* came from upstream) or writeNetworkError reports it.
LastError(o) == IF isFallbackStatus(o) THEN o ELSE "bad_gateway"

\* Mutant of Failed: the last entry's error is answered but not logged.
FailedUnlogged(r, o) ==
    LET failed == [r EXCEPT !.fate = Append(@, "failed")]
    IN  IF HasMoreFallbacks(r)
        THEN [failed EXCEPT !.pc = "loop", !.i = @ + 1]
        ELSE Finished(Answer(failed, LastError(o)))

\* A failed attempt: the next entry, or log and answer when it was the last.
Failed(r, o) ==
    LET failed == [r EXCEPT !.fate = Append(@, "failed")]
    IN  IF HasMoreFallbacks(r)
        THEN [failed EXCEPT !.pc = "loop", !.i = @ + 1]
        ELSE Finished(Answer(logEntry(failed), LastError(o)))

\* SendRequest returns an error or a fallback status.
AttemptFails(s, o) ==
    LET p == Mapping(req[s]) IN
    /\ req[s].pc = "send"
    /\ o # "relayed"
    /\ o = "cancelled" <=> req[s].gone
    /\ breakers' = [breakers EXCEPT ![p] = RecordFailure(@)]
    /\ probes' = [probes EXCEPT ![p] = IF breakers'[p].state = "open" THEN 0 ELSE @]
    /\ req' = [req EXCEPT ![s] = Failed(@, o)]

\* Mutant of AttemptSucceeds: the success is not recorded.
AttemptSucceedsUnrecorded(s) ==
    /\ req[s].pc = "send"
    /\ ~req[s].gone
    /\ req' = [req EXCEPT ![s].pc = "respond"]
    /\ UNCHANGED <<breakers, probes>>

\* SendRequest returns a status that is relayed; the success is recorded
\* before any of the response is.
AttemptSucceeds(s) ==
    LET p == Mapping(req[s]) IN
    /\ req[s].pc = "send"
    /\ ~req[s].gone
    /\ breakers' = [breakers EXCEPT ![p] = RecordSuccess(@)]
    /\ probes' = [probes EXCEPT ![p] = 0]
    /\ req' = [req EXCEPT ![s].pc = "respond"]

\* handleResponse returns and the one log entry is emitted.
Respond(s) ==
    /\ req[s].pc = "respond"
    /\ req' = [req EXCEPT ![s] = Finished(logEntry(Answer(req[s], "upstream")))]
    /\ UNCHANGED <<breakers, probes>>

\* The loop runs out of entries.
ChainEnds(s) ==
    /\ req[s].pc = "loop"
    /\ req[s].i > Len(req[s].chain)
    /\ req' = [req EXCEPT ![s] = Finished(@)]
    /\ UNCHANGED <<breakers, probes>>

Tick ==
    /\ breakers' = [p \in Providers |-> Aged(breakers[p])]
    /\ UNCHANGED <<req, probes>>

\* The steps a request takes by itself, once it has arrived.
RequestStep(s) ==
    \/ MissingProvider(s)
    \/ Skip(s)
    \/ Admit(s)
    \/ BuildFails(s)
    \/ Send(s)
    \/ \E o \in Outcomes : AttemptFails(s, o)
    \/ AttemptSucceeds(s)
    \/ Respond(s)
    \/ ChainEnds(s)

Next == \/ \E s \in Slots : Arrive(s) \/ ClientGone(s) \/ RequestStep(s)
        \/ Tick

Spec == Init /\ [][Next]_vars

\* Go runs every handler goroutine, and a SendRequest ends: with an answer, an
\* error, or the upstream timeout.  Nothing makes clients arrive or leave.
FairSpec == Spec /\ \A s \in Slots : WF_vars(RequestStep(s))

-----------------------------------------------------------------------------
(* Properties. *)

\* A breaker is half-open exactly while its probe flag is set, so the branch of
\* Allow commented "shouldn't happen in normal flow" is never taken, whatever
\* order late results arrive in; and a closed breaker is below its threshold.
BreakerConsistent == \A p \in Providers : Consistent(breakers[p])

\* The requests, seen through any one breaker, only ever use it the way its
\* documentation promises: one probe per half-open period (BreakerContract).
Contract(p) == INSTANCE BreakerContract WITH state <- breakers[p].state,
                                             probes <- probes[p]
HonoursContract ==
    /\ \A p \in Providers : Contract(p)!ContractInit
    /\ [][\A p \in Providers :
             [Contract(p)!ContractNext]_(Contract(p)!contractVars)]_vars

Done(s) == req[s].pc = "done"

\* The request met no provider that could take it: every entry was skipped.
AllSkipped(r) == Len(r.fate) = Len(r.chain) /\ \A k \in DOMAIN r.fate : r.fate[k] = "skipped"

\* An attempt failed, and every entry that came after the failed ones was
\* skipped, so executeFallbackChain ran off its end after an attempt.
FellThrough(r) ==
    /\ Len(r.fate) = Len(r.chain)
    /\ r.fate[Len(r.fate)] = "skipped"
    /\ \E k \in DOMAIN r.fate : r.fate[k] = "failed"

\* Every entry of the chain names a provider that is configured.
Resolved(r) == \A k \in DOMAIN r.chain : r.chain[k] \in Configured

\* A request whose chain is fully configured is answered exactly once by the
\* pipeline, unless it fell through, and then it is neither answered nor
\* logged; "unavailable" is the answer exactly when all entries were skipped.
AnsweredUnlessFellThrough ==
    \A s \in Slots : Done(s) /\ Resolved(req[s]) =>
        LET r == req[s] IN
        /\ Len(r.writes) = IF FellThrough(r) THEN 0 ELSE 1
        /\ FellThrough(r) => r.logs = <<>>
        /\ r.writes = <<"unavailable">> <=> AllSkipped(r)

\* Exactly the requests whose last attempt was answered from upstream, or
\* failed as the last entry of its chain, emit a log entry, and exactly one.
LoggedOnceWhenForwarded ==
    \A s \in Slots : Done(s) =>
        LET r == req[s] IN
        /\ Len(r.logs) <= 1
        /\ r.logs # <<>> <=>
               r.writes \in {<<"upstream">>, <<"5xx">>, <<"429">>, <<"bad_gateway">>}

\* The request is under way to the provider.
UnderWay(s, p) == req[s].pc \in {"build", "send"} /\ Mapping(req[s]) = p

\* A probe that a half-open breaker waits for belongs to a request that is
\* still under way to its provider, whatever other requests record meanwhile,
\* unless the provider's route builder can refuse a body.
ProbeHasOwner ==
    \A p \in Providers \ Translating :
        breakers[p].probeInFlight => \E s \in Slots : UnderWay(s, p)

\* Every request that arrives leaves the pipeline.
RequestsFinish == \A s \in Slots : Active(s) ~> Done(s)

\* The half-open breaker of a provider whose route builder cannot refuse is
\* always resolved: it closes or opens again.
ProbesResolve ==
    \A p \in Providers \ Translating :
        breakers[p].state = "half-open" ~> breakers[p].state # "half-open"

(* What comments of the repository say and the code does not. *)

\* Each request handed to the pipeline is answered exactly once.
AnsweredExactlyOnce == \A s \in Slots : Done(s) => Len(req[s].writes) = 1

\* "probeInFlight bool // true when a half-open probe is active": also for the
\* providers whose route builder can refuse.
ProbeAlwaysHasOwner ==
    \A p \in Providers : breakers[p].probeInFlight => \E s \in Slots : UnderWay(s, p)
=============================================================================
