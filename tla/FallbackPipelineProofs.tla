----------------------- MODULE FallbackPipelineProofs -----------------------
(***************************************************************************)
(* Theorems about FallbackPipeline, for every number of requests, every    *)
(* set of providers and chains, every threshold and cooldown, and about    *)
(* the registry that its requests get their breakers from.                 *)
(***************************************************************************)
EXTENDS FallbackPipeline, BreakerRegistry, TLAPS

-----------------------------------------------------------------------------
(* The methods of one breaker. *)

\* The bounds of a breaker's counters are not empty.
LEMMA ZeroLemma == 0 \in 0 .. Cooldown /\ 0 \in 0 .. FailureThreshold
  BY BreakerAssumption

\* A new breaker is a consistent breaker.
LEMMA NewBreakerLemma == NewBreaker \in Breaker /\ Consistent(NewBreaker)
  BY BreakerAssumption DEF NewBreaker, Breaker, BreakerStates, Consistent

\* An Allow that returns true keeps a breaker consistent.
LEMMA AfterAllowLemma ==
  ASSUME NEW b \in Breaker, Consistent(b), Allows(b)
  PROVE  AfterAllow(b) \in Breaker /\ Consistent(AfterAllow(b))
  <1>1. CASE b.state = "closed"
    BY <1>1 DEF AfterAllow
  <1>2. CASE b.state = "open"
    <2>1. AfterAllow(b) =
            [b EXCEPT !.state = "half-open", !.since = 0, !.probeInFlight = TRUE]
      BY <1>2 DEF AfterAllow
    <2>2. AfterAllow(b) \in Breaker
      BY <2>1, ZeroLemma DEF Breaker, BreakerStates
    <2>3. AfterAllow(b).state = "half-open" /\ AfterAllow(b).probeInFlight
      BY <2>1 DEF Breaker
    <2> QED BY <2>2, <2>3 DEF Consistent
  <1>3. CASE b.state = "half-open"
    BY <1>3 DEF Allows, Consistent
  <1> QED BY <1>1, <1>2, <1>3 DEF Breaker, BreakerStates

\* RecordSuccess closes the breaker and keeps it consistent.
LEMMA RecordSuccessLemma ==
  ASSUME NEW b \in Breaker
  PROVE  /\ RecordSuccess(b) \in Breaker
         /\ Consistent(RecordSuccess(b))
         /\ RecordSuccess(b).state = "closed"
  <1>1. RecordSuccess(b) \in Breaker
    BY ZeroLemma DEF RecordSuccess, Breaker, BreakerStates
  <1>2. /\ RecordSuccess(b).state = "closed"
        /\ ~RecordSuccess(b).probeInFlight
        /\ RecordSuccess(b).consecutiveFailures = 0
    BY DEF RecordSuccess, Breaker
  <1> QED BY <1>1, <1>2, BreakerAssumption DEF Consistent

\* RecordFailure keeps a breaker consistent; it never closes or half-opens one.
LEMMA RecordFailureLemma ==
  ASSUME NEW b \in Breaker, Consistent(b)
  PROVE  /\ RecordFailure(b) \in Breaker
         /\ Consistent(RecordFailure(b))
         /\ \/ RecordFailure(b).state = "open"
            \/ b.state = "closed" /\ RecordFailure(b).state = "closed"
  <1> DEFINE failures == IF b.consecutiveFailures < FailureThreshold
                         THEN b.consecutiveFailures + 1 ELSE FailureThreshold
             trips == \/ b.state = "closed" /\ failures >= FailureThreshold
                      \/ b.state = "half-open"
  <1>1. failures \in 0 .. FailureThreshold
    BY BreakerAssumption DEF Breaker
  <1>2. RecordFailure(b) = [b EXCEPT !.consecutiveFailures = failures,
                                     !.probeInFlight = FALSE,
                                     !.state = IF trips THEN "open" ELSE @,
                                     !.since = IF trips THEN 0 ELSE @]
    BY DEF RecordFailure
  <1> HIDE DEF failures, trips
  <1>3. RecordFailure(b) \in Breaker
    BY <1>1, <1>2, ZeroLemma DEF Breaker, BreakerStates
  <1>4. /\ RecordFailure(b).consecutiveFailures = failures
        /\ ~RecordFailure(b).probeInFlight
        /\ RecordFailure(b).state = IF trips THEN "open" ELSE b.state
    BY <1>2 DEF Breaker
  <1>5. ~trips => b.state # "half-open" /\ (b.state = "closed" => failures < FailureThreshold)
    BY <1>1, BreakerAssumption DEF trips
  <1> QED BY <1>3, <1>4, <1>5 DEF Breaker, BreakerStates, Consistent

\* The clock moves neither the state nor the consistency of a breaker.
LEMMA AgedLemma ==
  ASSUME NEW b \in Breaker
  PROVE  /\ Aged(b) \in Breaker
         /\ Aged(b).state = b.state
         /\ Consistent(b) => Consistent(Aged(b))
  BY BreakerAssumption DEF Aged, Breaker, BreakerStates, Consistent

-----------------------------------------------------------------------------
(* Type correctness. *)

\* A request that has just arrived is well typed.
LEMMA NewRequestType == \A c \in Chains : NewRequest(c) \in Request
  BY DEF NewRequest, Request

\* What a step may store in the counters and histories of a request.
LEMMA FieldTypes ==
  ASSUME NEW r \in Request
  PROVE  /\ \A a \in Answers : Append(r.writes, a) \in Seq(Answers)
         /\ \A f \in {"skipped", "failed"} : Append(r.fate, f) \in Seq({"skipped", "failed"})
         /\ Append(r.logs, r.i) \in Seq(Nat)
         /\ r.i + 1 \in Nat
  <1>1. /\ r.writes \in Seq(Answers) /\ r.fate \in Seq({"skipped", "failed"})
        /\ r.logs \in Seq(Nat) /\ r.i \in Nat
    BY DEF Request
  <1> QED BY <1>1

\* Answering, logging and failing keep a request well typed.
LEMMA WriteType ==
  ASSUME NEW r \in Request
  PROVE  /\ \A a \in Answers : Answer(r, a) \in Request
         /\ logEntry(r) \in Request
         /\ [r EXCEPT !.fate = Append(@, "failed")] \in Request
  BY FieldTypes DEF Request, Answer, logEntry

\* Leaving the chain keeps a request well typed.
LEMMA FinishedType ==
  ASSUME NEW r \in Request
  PROVE  Finished(r) \in Request
  <1>1. "unavailable" \in Answers
    BY DEF Answers
  <1>2. Append(r.writes, "unavailable") \in Seq(Answers)
    BY <1>1, FieldTypes
  <1>3. (IF r.anyAttempted THEN r.writes ELSE Append(r.writes, "unavailable")) \in Seq(Answers)
    BY <1>2 DEF Request
  <1> QED BY <1>3 DEF Finished, Request

\* A failed attempt keeps a request well typed.
LEMMA FailedType ==
  ASSUME NEW r \in Request, NEW o \in Outcomes
  PROVE  Failed(r, o) \in Request
  <1> DEFINE failed == [r EXCEPT !.fate = Append(@, "failed")]
  <1>1. failed \in Request
    BY WriteType
  <1>2. LastError(o) \in Answers
    BY DEF LastError, isFallbackStatus, Answers
  <1> HIDE DEF failed
  <1>3. [failed EXCEPT !.pc = "loop", !.i = @ + 1] \in Request
    BY <1>1, FieldTypes DEF Request
  <1>4. Finished(Answer(logEntry(failed), LastError(o))) \in Request
    BY <1>1, <1>2, WriteType, FinishedType
  <1> QED BY <1>3, <1>4 DEF Failed, failed

\* TypeOK is preserved by every step.
LEMMA TypeStep ==
  ASSUME TypeOK, BreakerConsistent, [Next]_vars
  PROVE  TypeOK'
  <1> USE DEF TypeOK
  <1>1. ASSUME NEW s \in Slots, Arrive(s) PROVE TypeOK'
    BY <1>1, NewRequestType DEF Arrive
  <1>2. ASSUME NEW s \in Slots, ClientGone(s) PROVE TypeOK'
    BY <1>2, ZenonT(60) DEF ClientGone, Request
  <1>3. ASSUME NEW s \in Slots, MissingProvider(s) PROVE TypeOK'
    <2>1. Finished(Answer(req[s], "bad_request")) \in Request
      BY WriteType, FinishedType DEF Answers
    <2> QED BY <1>3, <2>1 DEF MissingProvider
  <1>4. ASSUME NEW s \in Slots, Skip(s) PROVE TypeOK'
    <2>1. [req[s] EXCEPT !.i = @ + 1, !.fate = Append(@, "skipped")] \in Request
      BY FieldTypes DEF Request
    <2>2. req' = [req EXCEPT ![s] =
                    [req[s] EXCEPT !.i = @ + 1, !.fate = Append(@, "skipped")]]
      BY <1>4 DEF Skip
    <2> QED BY <1>4, <2>1, <2>2 DEF Skip
  <1>5. ASSUME NEW s \in Slots, Admit(s) PROVE TypeOK'
    <2> DEFINE p == Mapping(req[s])
    <2>1. p \in Providers
      BY <1>5, PipelineAssumption DEF Admit
    <2>2. AfterAllow(breakers[p]) \in Breaker
      BY <1>5, <2>1, AfterAllowLemma DEF Admit, BreakerConsistent
    <2>3. breakers' \in [Providers -> Breaker]
      BY <1>5, <2>2 DEF Admit
    <2>4. probes' \in [Providers -> Nat]
      <3>1. (IF breakers[p].state = "closed" THEN 0 ELSE probes[p] + 1) \in Nat
        BY <2>1
      <3> QED BY <1>5, <3>1 DEF Admit
    <2>5. [req[s] EXCEPT !.pc = "build", !.anyAttempted = TRUE] \in Request
      BY DEF Request
    <2>6. req' = [req EXCEPT ![s] = [req[s] EXCEPT !.pc = "build", !.anyAttempted = TRUE]]
      BY <1>5 DEF Admit
    <2> QED BY <1>5, <2>3, <2>4, <2>5, <2>6 DEF Admit
  <1>6. ASSUME NEW s \in Slots, BuildFails(s) PROVE TypeOK'
    <2>1. Finished(Answer(req[s], "bad_request")) \in Request
      BY WriteType, FinishedType DEF Answers
    <2> QED BY <1>6, <2>1 DEF BuildFails
  <1>7. ASSUME NEW s \in Slots, Send(s) PROVE TypeOK'
    <2>1. [req[s] EXCEPT !.pc = "send"] \in Request
      BY FieldTypes DEF Request
    <2>2. req' = [req EXCEPT ![s] = [req[s] EXCEPT !.pc = "send"]]
      BY <1>7 DEF Send
    <2> QED BY <1>7, <2>1, <2>2 DEF Send
  <1>8. ASSUME NEW s \in Slots, NEW o \in Outcomes, AttemptFails(s, o) PROVE TypeOK'
    <2>1. \A q \in Providers : RecordFailure(breakers[q]) \in Breaker
      BY RecordFailureLemma DEF BreakerConsistent
    <2>2. breakers' \in [Providers -> Breaker]
      BY <1>8, <2>1 DEF AttemptFails
    <2>3. probes' \in [Providers -> Nat]
      BY <1>8 DEF AttemptFails
    <2>5. req' \in [Slots -> Request]
      BY <1>8, FailedType DEF AttemptFails
    <2> QED BY <2>2, <2>3, <2>5
  <1>9. ASSUME NEW s \in Slots, AttemptSucceeds(s) PROVE TypeOK'
    <2>1. \A q \in Providers : RecordSuccess(breakers[q]) \in Breaker
      BY RecordSuccessLemma
    <2>2. breakers' \in [Providers -> Breaker]
      BY <1>9, <2>1 DEF AttemptSucceeds
    <2>3. req' \in [Slots -> Request]
      BY <1>9, ZenonT(60) DEF AttemptSucceeds, Request
    <2>4. probes' \in [Providers -> Nat]
      BY <1>9 DEF AttemptSucceeds
    <2> QED BY <2>2, <2>3, <2>4
  <1>10. ASSUME NEW s \in Slots, Respond(s) PROVE TypeOK'
    <2>1. Finished(logEntry(Answer(req[s], "upstream"))) \in Request
      BY WriteType, FinishedType DEF Answers
    <2> QED BY <1>10, <2>1 DEF Respond
  <1>11. ASSUME NEW s \in Slots, ChainEnds(s) PROVE TypeOK'
    BY <1>11, FinishedType DEF ChainEnds
  <1>12. CASE Tick
    BY <1>12, AgedLemma DEF Tick
  <1>13. CASE UNCHANGED vars
    BY <1>13 DEF vars
  <1> QED BY <1>1, <1>2, <1>3, <1>4, <1>5, <1>6, <1>7, <1>8, <1>9, <1>10, <1>11,
             <1>12, <1>13 DEF Next, RequestStep

-----------------------------------------------------------------------------
(* The breakers. *)

\* probes counts the requests admitted in the current half-open period.
ProbesCounted ==
    \A p \in Providers : probes[p] = IF breakers[p].state = "half-open" THEN 1 ELSE 0

\* Seen through breaker p, the step is one its contract allows, or none.
ContractStep(p) == [Contract(p)!ContractNext]_(Contract(p)!contractVars)

\* A breaker and its probe count that do not change satisfy everything.
LEMMA UntouchedBreaker ==
  ASSUME NEW p \in Providers, BreakerConsistent, ProbesCounted,
         breakers'[p] = breakers[p], probes'[p] = probes[p]
  PROVE  /\ Consistent(breakers'[p])
         /\ probes'[p] = IF breakers'[p].state = "half-open" THEN 1 ELSE 0
         /\ ContractStep(p)
  BY DEF BreakerConsistent, ProbesCounted, ContractStep, Contract!contractVars

\* Every step keeps the breakers consistent and honours their contract.
LEMMA BreakerStep ==
  ASSUME TypeOK, BreakerConsistent, ProbesCounted, [Next]_vars
  PROVE  BreakerConsistent' /\ ProbesCounted' /\ \A p \in Providers : ContractStep(p)
  <1> DEFINE Good(p) == /\ Consistent(breakers'[p])
                        /\ probes'[p] = IF breakers'[p].state = "half-open" THEN 1 ELSE 0
                        /\ ContractStep(p)
  <1> SUFFICES ASSUME NEW p \in Providers PROVE Good(p)
    BY DEF BreakerConsistent, ProbesCounted
  <1>0. /\ breakers[p] \in Breaker /\ Consistent(breakers[p])
        /\ probes[p] = IF breakers[p].state = "half-open" THEN 1 ELSE 0
    BY DEF TypeOK, BreakerConsistent, ProbesCounted
  <1>1. CASE UNCHANGED <<breakers, probes>>
    BY <1>1, UntouchedBreaker
  <1>2. ASSUME NEW s \in Slots, Admit(s) PROVE Good(p)
    <2>1. CASE p # Mapping(req[s])
      <3>1. breakers'[p] = breakers[p] /\ probes'[p] = probes[p]
        BY <1>2, <2>1 DEF Admit, TypeOK
      <3> QED BY <3>1, UntouchedBreaker
    <2>2. CASE p = Mapping(req[s])
      <3>1. /\ Allows(breakers[p])
            /\ breakers'[p] = AfterAllow(breakers[p])
            /\ probes'[p] = IF breakers[p].state = "closed" THEN 0 ELSE probes[p] + 1
        BY <1>2, <2>2 DEF Admit, TypeOK
      <3>2. Consistent(breakers'[p])
        BY <1>0, <3>1, AfterAllowLemma
      <3>3. CASE breakers[p].state = "closed"
        <4>1. breakers'[p] = breakers[p] /\ probes'[p] = probes[p]
          BY <1>0, <3>1, <3>3 DEF AfterAllow
        <4> QED BY <4>1, UntouchedBreaker
      <3>4. CASE breakers[p].state = "open"
        <4>1. AfterAllow(breakers[p]) =
                [breakers[p] EXCEPT !.state = "half-open", !.since = 0, !.probeInFlight = TRUE]
          BY <3>4 DEF AfterAllow
        <4>2. breakers'[p].state = "half-open" /\ probes'[p] = 1
          BY <1>0, <3>1, <3>4, <4>1 DEF Breaker
        <4> QED BY <3>2, <3>4, <4>2 DEF ContractStep, Contract!ContractNext, Contract!Probe
      <3>5. breakers[p].state # "half-open"
        BY <1>0, <3>1 DEF Allows, Consistent
      <3> QED BY <1>0, <3>3, <3>4, <3>5 DEF Breaker, BreakerStates
    <2> QED BY <2>1, <2>2
  <1>3. ASSUME NEW s \in Slots, NEW o \in Outcomes, AttemptFails(s, o) PROVE Good(p)
    <2>1. CASE p # Mapping(req[s])
      <3>1. breakers'[p] = breakers[p] /\ probes'[p] = probes[p]
        BY <1>3, <2>1 DEF AttemptFails, TypeOK
      <3> QED BY <3>1, UntouchedBreaker
    <2>2. CASE p = Mapping(req[s])
      <3>1. /\ breakers'[p] = RecordFailure(breakers[p])
            /\ probes'[p] = IF breakers'[p].state = "open" THEN 0 ELSE probes[p]
        BY <1>3, <2>2 DEF AttemptFails, TypeOK
      <3>2. /\ Consistent(breakers'[p])
            /\ \/ breakers'[p].state = "open"
               \/ breakers[p].state = "closed" /\ breakers'[p].state = "closed"
        BY <1>0, <3>1, RecordFailureLemma
      <3>3. probes'[p] = 0
        BY <1>0, <3>1, <3>2
      <3>4. CASE breakers'[p].state = breakers[p].state
        BY <1>0, <3>2, <3>3, <3>4 DEF ContractStep, Contract!contractVars
      <3>5. CASE breakers'[p].state = "open" /\ breakers[p].state # "open"
        BY <1>0, <3>2, <3>3, <3>5
           DEF ContractStep, Contract!ContractNext, Contract!Trip, Breaker, BreakerStates
      <3> QED BY <3>2, <3>4, <3>5
    <2> QED BY <2>1, <2>2
  <1>4. ASSUME NEW s \in Slots, AttemptSucceeds(s) PROVE Good(p)
    <2>1. CASE p # Mapping(req[s])
      <3>1. breakers'[p] = breakers[p] /\ probes'[p] = probes[p]
        BY <1>4, <2>1 DEF AttemptSucceeds, TypeOK
      <3> QED BY <3>1, UntouchedBreaker
    <2>2. CASE p = Mapping(req[s])
      <3>1. breakers'[p] = RecordSuccess(breakers[p]) /\ probes'[p] = 0
        BY <1>4, <2>2 DEF AttemptSucceeds, TypeOK
      <3>2. Consistent(breakers'[p]) /\ breakers'[p].state = "closed"
        BY <1>0, <3>1, RecordSuccessLemma
      <3>3. CASE breakers[p].state = "closed"
        BY <1>0, <3>1, <3>2, <3>3 DEF ContractStep, Contract!contractVars
      <3>4. CASE breakers[p].state # "closed"
        BY <3>1, <3>2, <3>4 DEF ContractStep, Contract!ContractNext, Contract!Reset
      <3> QED BY <3>3, <3>4
    <2> QED BY <2>1, <2>2
  <1>5. CASE Tick
    <2>1. breakers'[p] = Aged(breakers[p]) /\ probes'[p] = probes[p]
      BY <1>5 DEF Tick
    <2>2. Consistent(breakers'[p]) /\ breakers'[p].state = breakers[p].state
      BY <1>0, <2>1, AgedLemma
    <2> QED BY <1>0, <2>1, <2>2 DEF ContractStep, Contract!contractVars
  <1> QED BY <1>1, <1>2, <1>3, <1>4, <1>5
          DEF Next, RequestStep, vars, Arrive, ClientGone, MissingProvider, Skip,
              BuildFails, Send, Respond, ChainEnds

\* The inductive invariant of the breakers.
BreakerInv == TypeOK /\ BreakerConsistent /\ ProbesCounted

\* The initial states satisfy it.
LEMMA BreakerInvInit == Init => BreakerInv
  <1> SUFFICES ASSUME Init PROVE BreakerInv
    OBVIOUS
  <1>1. PICK c \in Chains : req = [s \in Slots |-> [NewRequest(c) EXCEPT !.pc = "idle"]]
    BY DEF Init
  <1>2. [NewRequest(c) EXCEPT !.pc = "idle"] \in Request
    BY NewRequestType DEF Request
  <1>3. TypeOK
    BY <1>1, <1>2, NewBreakerLemma DEF Init, TypeOK
  <1>4. \A p \in Providers : Consistent(breakers[p]) /\ breakers[p].state = "closed"
    BY NewBreakerLemma DEF Init, NewBreaker
  <1> QED BY <1>3, <1>4 DEF Init, BreakerInv, BreakerConsistent, ProbesCounted

\* The invariant is maintained by every behaviour of the pipeline.
THEOREM BreakerInvariance == Spec => []BreakerInv
  <1>1. BreakerInv /\ [Next]_vars => BreakerInv'
    BY TypeStep, BreakerStep DEF BreakerInv
  <1> QED BY <1>1, BreakerInvInit, PTL DEF Spec

\* The state of the pipeline keeps its type (the breakers never leave their
\* ranges), for any number of concurrent requests.
THEOREM TypeCorrect == Spec => []TypeOK
  BY BreakerInvariance, PTL DEF BreakerInv

\* Whatever order concurrent and late results are recorded in, a breaker is
\* half-open exactly while its probe flag is set, and a closed breaker is below
\* its threshold.
THEOREM BreakersConsistent == Spec => []BreakerConsistent
  BY BreakerInvariance, PTL DEF BreakerInv

\* The pipeline implements the breaker contract for every provider: one probe
\* per half-open period.
THEOREM ContractHonoured == Spec => HonoursContract
  <1>1. Init => \A p \in Providers : Contract(p)!ContractInit
    BY DEF Init, NewBreaker, Contract!ContractInit
  <1>2. BreakerInv /\ [Next]_vars
          => [\A p \in Providers : [Contract(p)!ContractNext]_(Contract(p)!contractVars)]_vars
    BY BreakerStep DEF BreakerInv, ContractStep
  <1> QED BY <1>1, <1>2, BreakerInvariance, PTL DEF Spec, HonoursContract

-----------------------------------------------------------------------------
(* Who holds a probe. *)

\* A request of another slot, or one that goes on as it was, stays under way.
LEMMA StaysUnderWay ==
  ASSUME NEW s \in Slots, NEW p, UnderWay(s, p),
         req'[s].pc \in {"build", "send"}, req'[s].chain = req[s].chain, req'[s].i = req[s].i
  PROVE  UnderWay(s, p)'
  BY DEF UnderWay, Mapping

\* No step leaves a probe without a request that is under way.
LEMMA ProbeStep ==
  ASSUME BreakerInv, ProbeHasOwner, [Next]_vars
  PROVE  ProbeHasOwner'
  <1> SUFFICES ASSUME NEW p \in Providers \ Translating, breakers'[p].probeInFlight
               PROVE  \E s \in Slots : UnderWay(s, p)'
    BY DEF ProbeHasOwner
  <1>0. /\ TypeOK /\ breakers[p] \in Breaker /\ Consistent(breakers[p])
        /\ \A s \in Slots : req[s] \in Request
    BY DEF BreakerInv, TypeOK, BreakerConsistent
  <1>1. breakers[p].probeInFlight => \E s \in Slots : UnderWay(s, p)
    BY DEF ProbeHasOwner
  <1>2. ASSUME NEW s \in Slots, NEW r, req' = [req EXCEPT ![s] = r],
               breakers'[p] = breakers[p],
               UnderWay(s, p) => /\ r.pc \in {"build", "send"}
                                 /\ r.chain = req[s].chain /\ r.i = req[s].i
        PROVE  \E t \in Slots : UnderWay(t, p)'
    <2>1. PICK t \in Slots : UnderWay(t, p)
      BY <1>1, <1>2
    <2>2. CASE t = s
      <3>1. req'[s] = r
        BY <1>0, <1>2 DEF TypeOK
      <3> QED BY <1>2, <2>1, <2>2, <3>1, StaysUnderWay
    <2>3. CASE t # s
      <3>1. req'[t] = req[t]
        BY <1>0, <1>2, <2>3 DEF TypeOK
      <3> QED BY <2>1, <3>1, StaysUnderWay DEF UnderWay
    <2> QED BY <2>2, <2>3
  <1>3. ASSUME NEW s \in Slots, Arrive(s) \/ MissingProvider(s) \/ Respond(s) \/ ChainEnds(s)
        PROVE  \E t \in Slots : UnderWay(t, p)'
    <2>1. PICK r : req' = [req EXCEPT ![s] = r]
      BY <1>3 DEF Arrive, MissingProvider, Respond, ChainEnds
    <2>2. ~UnderWay(s, p) /\ breakers' = breakers
      BY <1>3 DEF Arrive, MissingProvider, Respond, ChainEnds, AtEntry, Active, UnderWay
    <2> QED BY <1>2, <2>1, <2>2
  <1>4. ASSUME NEW s \in Slots, Skip(s) PROVE \E t \in Slots : UnderWay(t, p)'
    <2>1. ~UnderWay(s, p) /\ breakers' = breakers
      BY <1>4 DEF Skip, AtEntry, UnderWay
    <2>2. PICK t \in Slots : UnderWay(t, p)
      BY <1>1, <2>1
    <2>3. req'[t] = req[t]
      BY <1>0, <1>4, <2>1, <2>2 DEF Skip, TypeOK
    <2> QED BY <2>2, <2>3, StaysUnderWay DEF UnderWay
  <1>5. ASSUME NEW s \in Slots, BuildFails(s) PROVE \E t \in Slots : UnderWay(t, p)'
    <2>1. ~UnderWay(s, p) /\ breakers' = breakers
      BY <1>5 DEF BuildFails, UnderWay
    <2> QED BY <1>2, <1>5, <2>1 DEF BuildFails
  <1>6. ASSUME NEW s \in Slots, Send(s) \/ ClientGone(s) PROVE \E t \in Slots : UnderWay(t, p)'
    <2>1. PICK r \in {[req[s] EXCEPT !.pc = "send"], [req[s] EXCEPT !.gone = TRUE]} :
            req' = [req EXCEPT ![s] = r]
      BY <1>6 DEF Send, ClientGone
    <2>2. r.chain = req[s].chain /\ r.i = req[s].i /\ r.pc \in {req[s].pc, "send"}
      BY <1>0, <2>1 DEF Request
    <2>3. breakers' = breakers
      BY <1>6 DEF Send, ClientGone
    <2> QED BY <1>2, <2>1, <2>2, <2>3 DEF UnderWay
  <1>7. ASSUME NEW s \in Slots, Admit(s) PROVE \E t \in Slots : UnderWay(t, p)'
    <2>1. /\ req'[s].chain = req[s].chain /\ req'[s].i = req[s].i /\ req'[s].pc = "build"
          /\ req[s].pc = "loop" /\ \A t \in Slots : t # s => req'[t] = req[t]
      BY <1>0, <1>7 DEF Admit, AtEntry, TypeOK, Request
    <2>2. CASE p = Mapping(req[s])
      BY <2>1, <2>2 DEF UnderWay, Mapping
    <2>3. CASE p # Mapping(req[s])
      <3>1. breakers'[p] = breakers[p]
        BY <1>0, <1>7, <2>3 DEF Admit, TypeOK
      <3>2. PICK t \in Slots : UnderWay(t, p)
        BY <1>1, <3>1
      <3>3. req'[t] = req[t]
        BY <2>1, <3>2 DEF UnderWay
      <3> QED BY <3>2, <3>3, StaysUnderWay DEF UnderWay
    <2> QED BY <2>2, <2>3
  <1>8. ASSUME NEW s \in Slots, AttemptSucceeds(s) \/ \E o \in Outcomes : AttemptFails(s, o)
        PROVE  \E t \in Slots : UnderWay(t, p)'
    <2>1. /\ \E b \in {RecordSuccess(breakers[Mapping(req[s])]), RecordFailure(breakers[Mapping(req[s])])} :
               breakers' = [breakers EXCEPT ![Mapping(req[s])] = b]
          /\ \A t \in Slots : t # s => req'[t] = req[t]
      BY <1>0, <1>8 DEF AttemptSucceeds, AttemptFails, TypeOK
    <2>2. CASE p = Mapping(req[s])
      <3>1. breakers'[p] \in {RecordSuccess(breakers[p]), RecordFailure(breakers[p])}
        BY <1>0, <2>1, <2>2 DEF TypeOK
      <3>2. ~RecordSuccess(breakers[p]).probeInFlight /\ ~RecordFailure(breakers[p]).probeInFlight
        BY <1>0 DEF RecordSuccess, RecordFailure, Breaker
      <3> QED BY <3>1, <3>2
    <2>3. CASE p # Mapping(req[s])
      <3>1. breakers'[p] = breakers[p]
        BY <1>0, <2>1, <2>3 DEF TypeOK
      <3>2. PICK t \in Slots : UnderWay(t, p)
        BY <1>1, <3>1
      <3>3. req'[t] = req[t]
        BY <2>1, <2>3, <3>2 DEF UnderWay
      <3> QED BY <3>2, <3>3, StaysUnderWay DEF UnderWay
    <2> QED BY <2>2, <2>3
  <1>9. CASE Tick
    <2>1. breakers'[p].probeInFlight = breakers[p].probeInFlight /\ req' = req
      BY <1>0, <1>9 DEF Tick, Aged, Breaker
    <2> QED BY <1>1, <2>1 DEF UnderWay, Mapping
  <1>10. CASE UNCHANGED vars
    BY <1>1, <1>10 DEF vars, UnderWay, Mapping
  <1> QED BY <1>3, <1>4, <1>5, <1>6, <1>7, <1>8, <1>9, <1>10 DEF Next, RequestStep

\* A half-open breaker waits for a request that is still under way to its
\* provider, whatever other requests record meanwhile, as long as the provider's
\* route builder cannot refuse: a probe is given up only by recording a result.
THEOREM ProbesOwned == Spec => []ProbeHasOwner
  <1>1. Init => ProbeHasOwner
    BY DEF Init, NewBreaker, ProbeHasOwner
  <1>2. BreakerInv /\ ProbeHasOwner /\ [Next]_vars => ProbeHasOwner'
    BY ProbeStep
  <1> QED BY <1>1, <1>2, BreakerInvariance, PTL DEF Spec

-----------------------------------------------------------------------------
(* Answers and log entries. *)

\* What is known of a request while it walks its chain.
Walking(r) ==
    /\ r.writes = <<>> /\ r.logs = <<>>
    /\ r.i \in 1 .. Len(r.chain) + 1 /\ Len(r.fate) = r.i - 1
    /\ r.pc = "loop" => (r.anyAttempted <=> \E k \in DOMAIN r.fate : r.fate[k] = "failed")
    /\ r.i > Len(r.chain) => r.pc = "loop" /\ r.fate[Len(r.fate)] = "skipped"
    /\ r.pc # "loop" => r.anyAttempted

\* The ways a request can have left the pipeline: stopped at a provider that is
\* not configured, refused by a route builder, relayed, failed at the last
\* entry, or run off the end of the chain with its last entry skipped.
Stopped(r) == /\ ~Resolved(r)
              /\ r.writes[1] = "bad_request" /\ r.logs = <<>>

Refused(r) == /\ r.writes = <<"bad_request">> /\ r.logs = <<>>
              /\ Len(r.fate) # Len(r.chain)

Relayed(r) == /\ r.writes = <<"upstream">> /\ Len(r.logs) = 1
              /\ Len(r.fate) # Len(r.chain)

Exhausted(r) == /\ \E a \in {"5xx", "429", "bad_gateway"} : r.writes = <<a>>
                /\ Len(r.logs) = 1
                /\ Len(r.fate) = Len(r.chain) /\ r.fate[Len(r.fate)] = "failed"

RanOff(r) == /\ r.logs = <<>>
             /\ Len(r.fate) = Len(r.chain) /\ r.fate[Len(r.fate)] = "skipped"
             /\ r.writes = IF \E k \in DOMAIN r.fate : r.fate[k] = "failed"
                            THEN <<>> ELSE <<"unavailable">>

Ended(r) == Stopped(r) \/ Refused(r) \/ Relayed(r) \/ Exhausted(r) \/ RanOff(r)

RequestInv ==
    \A s \in Slots : /\ Active(s) => Walking(req[s])
                     /\ Done(s) => Ended(req[s])

\* What the invariant says of one request.
Sound(r) == /\ r.pc \notin {"idle", "done"} => Walking(r)
            /\ r.pc = "done" => Ended(r)

\* Leaving the chain changes only the program counter and, if nothing was
\* attempted, appends the final answer.
LEMMA FinishedFields ==
  ASSUME NEW r \in Request
  PROVE  /\ Finished(r).pc = "done" /\ Finished(r).chain = r.chain
         /\ Finished(r).fate = r.fate /\ Finished(r).logs = r.logs
         /\ r.anyAttempted => Finished(r).writes = r.writes
         /\ ~r.anyAttempted => Finished(r).writes = Append(r.writes, "unavailable")
  BY DEF Finished, Request

\* Answering appends one answer, logging one entry, and nothing else changes.
LEMMA WriteFields ==
  ASSUME NEW r \in Request, NEW a \in Answers
  PROVE  /\ Answer(r, a).pc = r.pc /\ Answer(r, a).chain = r.chain
         /\ Answer(r, a).fate = r.fate /\ Answer(r, a).logs = r.logs
         /\ Answer(r, a).anyAttempted = r.anyAttempted
         /\ r.writes = <<>> => Answer(r, a).writes = <<a>>
         /\ logEntry(r).pc = r.pc /\ logEntry(r).chain = r.chain
         /\ logEntry(r).fate = r.fate /\ logEntry(r).writes = r.writes
         /\ logEntry(r).anyAttempted = r.anyAttempted
         /\ r.logs = <<>> => Len(logEntry(r).logs) = 1
  <1>1. r.writes \in Seq(Answers) /\ r.logs \in Seq(Nat) /\ r.i \in Nat
    BY DEF Request
  <1>2. r.writes = <<>> => Append(r.writes, a) = <<a>>
    BY <1>1
  <1>3. r.logs = <<>> => Len(Append(r.logs, r.i)) = 1
    BY <1>1
  <1> QED BY <1>2, <1>3 DEF Answer, logEntry, Request

\* An entry that is appended to the fates is the last one.
LEMMA FateAppended ==
  ASSUME NEW r \in Request, NEW f \in {"skipped", "failed"}
  PROVE  LET g == Append(r.fate, f)
         IN  /\ Len(g) = Len(r.fate) + 1 /\ g[Len(g)] = f
             /\ (\E k \in DOMAIN g : g[k] = "failed") <=>
                   \/ f = "failed"
                   \/ \E k \in DOMAIN r.fate : r.fate[k] = "failed"
  <1>1. r.fate \in Seq({"skipped", "failed"})
    BY DEF Request
  <1> DEFINE g == Append(r.fate, f)
  <1>2. /\ Len(g) = Len(r.fate) + 1 /\ g[Len(r.fate) + 1] = f
        /\ DOMAIN g = 1 .. Len(r.fate) + 1 /\ DOMAIN r.fate = 1 .. Len(r.fate)
        /\ \A k \in 1 .. Len(r.fate) : g[k] = r.fate[k]
        /\ Len(r.fate) \in Nat
    BY <1>1
  <1> HIDE DEF g
  <1> SUFFICES /\ Len(g) = Len(r.fate) + 1 /\ g[Len(g)] = f
               /\ (\E k \in DOMAIN g : g[k] = "failed") <=>
                     \/ f = "failed"
                     \/ \E k \in DOMAIN r.fate : r.fate[k] = "failed"
    BY DEF g
  <1>3. Len(r.fate) + 1 \in DOMAIN g /\ \A k \in DOMAIN r.fate : k \in DOMAIN g
    BY <1>2
  <1>4. \A k \in DOMAIN g : k = Len(r.fate) + 1 \/ k \in DOMAIN r.fate
    BY <1>2
  <1> QED BY <1>2, <1>3, <1>4

\* A chain is a sequence, so it has a length, which is not zero.
LEMMA ChainLength ==
  ASSUME NEW r \in Request
  PROVE  Len(r.chain) \in Nat \ {0}
  <1>1. r.chain \in Seq(Providers) /\ r.chain # <<>>
    BY PipelineAssumption DEF Request
  <1> QED BY <1>1

\* Failing at an entry keeps the request sound.
LEMMA FailedSound ==
  ASSUME NEW r \in Request, NEW o \in Outcomes, r.pc = "send", Walking(r)
  PROVE  Sound(Failed(r, o))
  <1> DEFINE failed == [r EXCEPT !.fate = Append(@, "failed")]
  <1>1. failed \in Request /\ LastError(o) \in {"5xx", "429", "bad_gateway"}
    BY WriteType DEF LastError, isFallbackStatus
  <1>2. /\ failed.chain = r.chain /\ failed.writes = <<>> /\ failed.logs = <<>>
        /\ failed.i = r.i /\ failed.anyAttempted /\ r.i \in 1 .. Len(r.chain)
        /\ failed.fate = Append(r.fate, "failed") /\ Len(r.fate) = r.i - 1
    BY ChainLength DEF Walking, Request
  <1>3. /\ Len(failed.fate) = r.i /\ failed.fate[Len(failed.fate)] = "failed"
        /\ \E k \in DOMAIN failed.fate : failed.fate[k] = "failed"
    <2>1. Len(r.fate) + 1 = r.i
      BY <1>2, ChainLength
    <2> QED BY <1>2, <2>1, FateAppended
  <1> HIDE DEF failed
  <1>4. CASE HasMoreFallbacks(r)
    <2> DEFINE n == [failed EXCEPT !.pc = "loop", !.i = @ + 1]
    <2>1. /\ n.pc = "loop" /\ n.i = r.i + 1 /\ n.chain = r.chain /\ n.writes = <<>>
          /\ n.logs = <<>> /\ n.fate = failed.fate /\ n.anyAttempted
      BY <1>1, <1>2 DEF Request
    <2> HIDE DEF n
    <2>2. n.i \in 1 .. Len(n.chain) /\ Len(n.fate) = n.i - 1
      BY <1>2, <1>3, <1>4, <2>1, ChainLength DEF HasMoreFallbacks
    <2>3. ~ n.i > Len(n.chain) /\ n.i \in 1 .. Len(n.chain) + 1
      BY <2>1, <2>2, ChainLength
    <2>4. Walking(n)
      BY <1>3, <2>1, <2>2, <2>3 DEF Walking
    <2> QED BY <1>4, <2>1, <2>4 DEF Failed, Sound, n, failed
  <1>5. CASE ~HasMoreFallbacks(r)
    <2> DEFINE a == Answer(logEntry(failed), LastError(o))
               f == Finished(a)
    <2>1. /\ a.chain = r.chain /\ a.writes = <<LastError(o)>> /\ Len(a.logs) = 1
          /\ a.fate = failed.fate /\ a.anyAttempted
      <3>1. logEntry(failed) \in Request /\ LastError(o) \in Answers
        BY <1>1, WriteType DEF Answers
      <3>2. /\ logEntry(failed).chain = r.chain /\ Len(logEntry(failed).logs) = 1
            /\ logEntry(failed).fate = failed.fate /\ logEntry(failed).writes = <<>>
            /\ logEntry(failed).anyAttempted
        BY <1>1, <1>2, <3>1, WriteFields
      <3> QED BY <3>1, <3>2, WriteFields
    <2>2. a \in Request
      BY <1>1, WriteType DEF Answers
    <2> HIDE DEF a
    <2>3. r.i = Len(r.chain)
      BY <1>2, <1>5, ChainLength DEF HasMoreFallbacks
    <2>4. /\ f.pc = "done" /\ f.chain = r.chain /\ f.fate = failed.fate
          /\ Len(f.logs) = 1 /\ f.writes = <<LastError(o)>>
      BY <2>1, <2>2, FinishedFields
    <2> HIDE DEF f
    <2>5. Ended(f)
      BY <1>1, <1>3, <2>3, <2>4 DEF Ended, Stopped, Refused, Relayed, Exhausted, RanOff
    <2> QED BY <1>5, <2>4, <2>5 DEF Failed, Sound, f, a, failed
  <1> QED BY <1>4, <1>5

\* A request that is not in the state an action writes about is left alone.
LEMMA OneRequest ==
  ASSUME TypeOK, RequestInv, NEW s \in Slots, NEW r, Sound(r),
         req' = [req EXCEPT ![s] = r]
  PROVE  RequestInv'
  <1> SUFFICES ASSUME NEW t \in Slots
               PROVE  /\ Active(t)' => Walking(req[t])'
                      /\ Done(t)' => Ended(req[t])'
    BY DEF RequestInv
  <1>1. CASE t = s
    BY <1>1 DEF TypeOK, Sound, Active, Done, Walking, Ended, Stopped, Resolved, Refused, Relayed, Exhausted, RanOff
  <1>2. CASE t # s
    <2>1. req'[t] = req[t]
      BY <1>2 DEF TypeOK
    <2> QED BY <2>1 DEF RequestInv, Active, Done, Walking, Ended, Stopped, Resolved, Refused, Relayed, Exhausted, RanOff
  <1> QED BY <1>1, <1>2

\* Every step keeps every request sound.
LEMMA RequestStepLemma ==
  ASSUME TypeOK, RequestInv, [Next]_vars
  PROVE  RequestInv'
  <1>0. \A s \in Slots : req[s] \in Request /\ Sound(req[s])
    BY DEF TypeOK, RequestInv, Sound, Active, Done
  <1>1. ASSUME NEW s \in Slots, Arrive(s) PROVE RequestInv'
    <2>1. PICK c \in Chains : req' = [req EXCEPT ![s] = NewRequest(c)]
      BY <1>1 DEF Arrive
    <2> DEFINE n == NewRequest(c)
    <2>2. /\ n.pc = "loop" /\ n.chain = c /\ n.i = 1 /\ ~n.anyAttempted
          /\ n.fate = <<>> /\ n.writes = <<>> /\ n.logs = <<>>
      BY DEF NewRequest
    <2>3. Len(n.chain) \in Nat \ {0}
      BY NewRequestType, ChainLength
    <2> HIDE DEF n
    <2>4. Walking(n)
      BY <2>2, <2>3 DEF Walking
    <2> QED BY <2>1, <2>2, <2>4, OneRequest DEF Sound, n
  <1>2. ASSUME NEW s \in Slots, ClientGone(s) PROVE RequestInv'
    <2> DEFINE n == [req[s] EXCEPT !.gone = TRUE]
    <2>1. /\ n.pc = req[s].pc /\ n.chain = req[s].chain /\ n.i = req[s].i
          /\ n.anyAttempted = req[s].anyAttempted /\ n.fate = req[s].fate
          /\ n.writes = req[s].writes /\ n.logs = req[s].logs
      BY <1>0 DEF Request
    <2>2. Sound(n)
      BY <1>0, <2>1 DEF Sound, Walking, Ended, Stopped, Resolved, Refused, Relayed, Exhausted, RanOff
    <2>3. req' = [req EXCEPT ![s] = n]
      BY <1>2 DEF ClientGone
    <2> QED BY <2>2, <2>3, OneRequest
  <1>3. ASSUME NEW s \in Slots, MissingProvider(s) PROVE RequestInv'
    <2> DEFINE a == Answer(req[s], "bad_request")
               f == Finished(a)
    <2>1. Walking(req[s]) /\ ~Resolved(req[s])
      <3>1. Walking(req[s])
        BY <1>0, <1>3 DEF MissingProvider, AtEntry, Sound
      <3>2. req[s].i \in DOMAIN req[s].chain
        <4>1. /\ req[s].chain \in Seq(Providers)
              /\ req[s].i \in 1 .. Len(req[s].chain)
          BY <1>0, <1>3, <3>1, ChainLength, PipelineAssumption
             DEF MissingProvider, AtEntry, Walking, Request
        <4> QED BY <4>1
      <3> QED BY <1>3, <3>1, <3>2 DEF MissingProvider, Mapping, Resolved
    <2>2. /\ a \in Request /\ a.chain = req[s].chain
          /\ a.writes = <<"bad_request">> /\ a.logs = <<>>
      BY <1>0, <2>1, WriteType, WriteFields DEF Walking, Answers
    <2> HIDE DEF a
    <2>3. f.pc = "done" /\ f.chain = req[s].chain /\ f.logs = <<>> /\ f.writes[1] = "bad_request"
      <3>1. Append(<<"bad_request">>, "unavailable")[1] = "bad_request"
        OBVIOUS
      <3>2. f.writes = a.writes \/ f.writes = Append(a.writes, "unavailable")
        BY <2>2, FinishedFields
      <3> QED BY <2>2, <3>1, <3>2, FinishedFields
    <2> HIDE DEF f
    <2>4. Sound(f)
      BY <2>1, <2>3 DEF Sound, Ended, Stopped, Resolved, Refused, Relayed, Exhausted, RanOff
    <2> QED BY <1>3, <2>4, OneRequest DEF MissingProvider, f, a
  <1>4. ASSUME NEW s \in Slots, Skip(s) PROVE RequestInv'
    <2> DEFINE r == req[s]
               n == [r EXCEPT !.i = @ + 1, !.fate = Append(@, "skipped")]
    <2>1. /\ r \in Request /\ r.pc = "loop" /\ Walking(r) /\ r.i <= Len(r.chain)
      BY <1>0, <1>4 DEF Skip, AtEntry, Sound
    <2>2. req' = [req EXCEPT ![s] = n]
      BY <1>4 DEF Skip
    <2> HIDE DEF r
    <2>3. /\ n.pc = "loop" /\ n.chain = r.chain /\ n.i = r.i + 1
          /\ n.anyAttempted = r.anyAttempted /\ n.fate = Append(r.fate, "skipped")
          /\ n.writes = <<>> /\ n.logs = <<>>
      BY <2>1 DEF Walking, Request
    <2> HIDE DEF n
    <2>4. /\ Len(n.fate) = Len(r.fate) + 1 /\ n.fate[Len(n.fate)] = "skipped"
          /\ (\E k \in DOMAIN n.fate : n.fate[k] = "failed") <=>
                \E k \in DOMAIN r.fate : r.fate[k] = "failed"
      BY <2>1, <2>3, FateAppended
    <2>5. n.i \in 1 .. Len(n.chain) + 1 /\ Len(n.fate) = n.i - 1
      BY <2>1, <2>3, <2>4, ChainLength, SMTT(30) DEF Walking
    <2>6. Walking(n)
      BY <2>1, <2>3, <2>4, <2>5 DEF Walking
    <2> QED BY <2>2, <2>3, <2>6, OneRequest DEF Sound
  <1>5. ASSUME NEW s \in Slots, Admit(s) PROVE RequestInv'
    <2> DEFINE r == req[s]
               n == [r EXCEPT !.pc = "build", !.anyAttempted = TRUE]
    <2>1. /\ r \in Request /\ r.pc = "loop" /\ Walking(r) /\ r.i <= Len(r.chain)
      BY <1>0, <1>5 DEF Admit, AtEntry, Sound
    <2>2. req' = [req EXCEPT ![s] = n]
      BY <1>5 DEF Admit
    <2> HIDE DEF r
    <2>3. /\ n.pc = "build" /\ n.chain = r.chain /\ n.i = r.i /\ n.anyAttempted
          /\ n.fate = r.fate /\ n.writes = <<>> /\ n.logs = <<>>
      BY <2>1 DEF Walking, Request
    <2> HIDE DEF n
    <2>4. ~ n.i > Len(n.chain)
      BY <2>1, <2>3, ChainLength DEF Walking
    <2>5. Walking(n)
      BY <2>1, <2>3, <2>4 DEF Walking
    <2> QED BY <2>2, <2>3, <2>5, OneRequest DEF Sound
  <1>6. ASSUME NEW s \in Slots, BuildFails(s) PROVE RequestInv'
    <2> DEFINE a == Answer(req[s], "bad_request")
               f == Finished(a)
    <2>1. req[s] \in Request /\ req[s].pc = "build" /\ Walking(req[s])
      BY <1>0, <1>6 DEF BuildFails, Sound
    <2>2. Len(req[s].fate) # Len(req[s].chain)
      BY <2>1, ChainLength DEF Walking
    <2>3. /\ a \in Request /\ a.writes = <<"bad_request">> /\ a.logs = <<>>
          /\ a.anyAttempted /\ a.fate = req[s].fate /\ a.chain = req[s].chain
      BY <2>1, WriteType, WriteFields DEF Walking, Answers
    <2> HIDE DEF a
    <2>4. /\ f.pc = "done" /\ f.logs = <<>> /\ f.writes = <<"bad_request">>
          /\ Len(f.fate) # Len(f.chain)
      BY <2>2, <2>3, FinishedFields
    <2> HIDE DEF f
    <2>5. Sound(f)
      BY <2>4 DEF Sound, Ended, Stopped, Refused, Relayed, Exhausted, RanOff
    <2> QED BY <1>6, <2>5, OneRequest DEF BuildFails, f, a
  <1>7. ASSUME NEW s \in Slots, Send(s) PROVE RequestInv'
    <2> DEFINE r == req[s]
               n == [r EXCEPT !.pc = "send"]
    <2>1. r \in Request /\ r.pc = "build" /\ Walking(r)
      BY <1>0, <1>7 DEF Send, Sound
    <2>2. req' = [req EXCEPT ![s] = n]
      BY <1>7 DEF Send
    <2> HIDE DEF r
    <2>3. /\ n.pc = "send" /\ n.chain = r.chain /\ n.i = r.i
          /\ n.anyAttempted = r.anyAttempted
          /\ n.fate = r.fate /\ n.writes = <<>> /\ n.logs = <<>>
      BY <2>1 DEF Walking, Request
    <2> HIDE DEF n
    <2>4. Walking(n)
      BY <2>1, <2>3 DEF Walking
    <2> QED BY <2>2, <2>3, <2>4, OneRequest DEF Sound
  <1>8. ASSUME NEW s \in Slots, NEW o \in Outcomes, AttemptFails(s, o) PROVE RequestInv'
    <2>1. req[s] \in Request /\ req[s].pc = "send" /\ Walking(req[s])
      BY <1>0, <1>8 DEF AttemptFails, Sound
    <2>2. req' = [req EXCEPT ![s] = Failed(req[s], o)]
      BY <1>8 DEF AttemptFails
    <2> QED BY <2>1, <2>2, FailedSound, OneRequest
  <1>9. ASSUME NEW s \in Slots, AttemptSucceeds(s) PROVE RequestInv'
    <2> DEFINE r == req[s]
               n == [r EXCEPT !.pc = "respond"]
    <2>1. r \in Request /\ r.pc = "send" /\ Walking(r)
      BY <1>0, <1>9 DEF AttemptSucceeds, Sound
    <2>2. req' = [req EXCEPT ![s] = n]
      BY <1>9 DEF AttemptSucceeds
    <2> HIDE DEF r
    <2>3. /\ n.pc = "respond" /\ n.chain = r.chain /\ n.i = r.i
          /\ n.anyAttempted = r.anyAttempted
          /\ n.fate = r.fate /\ n.writes = <<>> /\ n.logs = <<>>
      BY <2>1 DEF Walking, Request
    <2> HIDE DEF n
    <2>4. Walking(n)
      BY <2>1, <2>3 DEF Walking
    <2> QED BY <2>2, <2>3, <2>4, OneRequest DEF Sound
  <1>10. ASSUME NEW s \in Slots, Respond(s) PROVE RequestInv'
    <2> DEFINE a == Answer(req[s], "upstream")
               l == logEntry(a)
               f == Finished(l)
    <2>1. req[s] \in Request /\ req[s].pc = "respond" /\ Walking(req[s])
      BY <1>0, <1>10 DEF Respond, Sound
    <2>2. Len(req[s].fate) # Len(req[s].chain)
      BY <2>1, ChainLength DEF Walking
    <2>3. /\ a \in Request /\ a.writes = <<"upstream">> /\ a.logs = <<>>
          /\ a.anyAttempted /\ a.fate = req[s].fate /\ a.chain = req[s].chain
      BY <2>1, WriteType, WriteFields DEF Walking, Answers
    <2> HIDE DEF a
    <2>4. /\ l \in Request /\ l.writes = <<"upstream">> /\ Len(l.logs) = 1
          /\ l.anyAttempted /\ l.fate = req[s].fate /\ l.chain = req[s].chain
      BY <2>3, WriteType, WriteFields DEF Answers
    <2> HIDE DEF l
    <2>5. /\ f.pc = "done" /\ Len(f.logs) = 1 /\ f.writes = <<"upstream">>
          /\ Len(f.fate) # Len(f.chain)
      BY <2>2, <2>4, FinishedFields
    <2> HIDE DEF f
    <2>6. Sound(f)
      BY <2>5 DEF Sound, Ended, Stopped, Refused, Relayed, Exhausted, RanOff
    <2> QED BY <1>10, <2>6, OneRequest DEF Respond, f, l, a
  <1>11. ASSUME NEW s \in Slots, ChainEnds(s) PROVE RequestInv'
    <2> DEFINE r == req[s]
               f == Finished(r)
    <2>1. r \in Request /\ r.pc = "loop" /\ Walking(r) /\ r.i > Len(r.chain)
      BY <1>0, <1>11 DEF ChainEnds, Sound
    <2>2. Len(r.fate) = Len(r.chain)
      BY <2>1, ChainLength DEF Walking
    <2>3. Append(<<>>, "unavailable") = <<"unavailable">>
      OBVIOUS
    <2>4. /\ f.pc = "done" /\ f.logs = <<>> /\ f.fate = r.fate /\ f.chain = r.chain
          /\ f.writes = IF r.anyAttempted THEN <<>> ELSE <<"unavailable">>
      BY <2>1, <2>3, FinishedFields DEF Walking
    <2> HIDE DEF r, f
    <2>5. Sound(f)
      BY <2>1, <2>2, <2>4 DEF Sound, Ended, Stopped, Refused, Relayed, Exhausted, RanOff, Walking
    <2> QED BY <1>11, <2>5, OneRequest DEF ChainEnds, f, r
  <1>12. CASE UNCHANGED req
    BY <1>12 DEF RequestInv, Active, Done, Walking, Ended, Stopped, Resolved, Refused, Relayed, Exhausted, RanOff
  <1> QED BY <1>1, <1>2, <1>3, <1>4, <1>5, <1>6, <1>7, <1>8, <1>9, <1>10, <1>11,
             <1>12 DEF Next, RequestStep, Tick, vars

\* The invariant is maintained by every behaviour of the pipeline.
THEOREM RequestInvariance == Spec => []RequestInv
  <1>1. Init => RequestInv
    <2> SUFFICES ASSUME Init PROVE RequestInv
      OBVIOUS
    <2>1. PICK c \in Chains : req = [s \in Slots |-> [NewRequest(c) EXCEPT !.pc = "idle"]]
      BY DEF Init
    <2>2. [NewRequest(c) EXCEPT !.pc = "idle"].pc = "idle"
      BY DEF NewRequest
    <2> QED BY <2>1, <2>2 DEF RequestInv, Active, Done
  <1>2. TypeOK /\ RequestInv /\ [Next]_vars => RequestInv'
    BY RequestStepLemma
  <1> QED BY <1>1, <1>2, TypeCorrect, PTL DEF Spec

\* A request emits at most one log entry, and emits one exactly when it answers
\* from upstream or fails at the last entry of its chain.
THEOREM LogsOnce == Spec => []LoggedOnceWhenForwarded
  <1>1. RequestInv => LoggedOnceWhenForwarded
    <2> SUFFICES ASSUME RequestInv, NEW s \in Slots, Done(s)
                 PROVE  LET r == req[s] IN
                        /\ Len(r.logs) <= 1
                        /\ r.logs # <<>> <=>
                             r.writes \in {<<"upstream">>, <<"5xx">>, <<"429">>, <<"bad_gateway">>}
      BY DEF LoggedOnceWhenForwarded
    <2>1. Ended(req[s])
      BY DEF RequestInv
    <2> DEFINE r == req[s]
    <2> HIDE DEF r
    <2>2. CASE Stopped(r) \/ Refused(r)
      <3>1. r.writes[1] = "bad_request" /\ r.logs = <<>>
        BY <2>2 DEF Stopped, Refused
      <3>2. r.writes \notin {<<"upstream">>, <<"5xx">>, <<"429">>, <<"bad_gateway">>}
        BY <3>1
      <3> QED BY <3>1, <3>2 DEF r
    <2>3. CASE Relayed(r) \/ Exhausted(r)
      <3>1. Len(r.logs) = 1 /\ r.writes \in {<<"upstream">>, <<"5xx">>, <<"429">>, <<"bad_gateway">>}
        BY <2>3 DEF Relayed, Exhausted
      <3>2. Len(<<>>) = 0
        OBVIOUS
      <3>3. Len(r.logs) <= 1
        BY <3>1
      <3>4. ASSUME r.logs = <<>> PROVE FALSE
        <4>1. Len(r.logs) = 0
          BY <3>2, <3>4
        <4> QED BY <3>1, <4>1
      <3> QED BY <3>1, <3>3, <3>4 DEF r
    <2>4. CASE RanOff(r)
      <3>1. r.logs = <<>> /\ r.writes \in {<<>>, <<"unavailable">>}
        BY <2>4 DEF RanOff
      <3>2. r.writes \notin {<<"upstream">>, <<"5xx">>, <<"429">>, <<"bad_gateway">>}
        BY <3>1
      <3> QED BY <3>1, <3>2 DEF r
    <2> QED BY <2>1, <2>2, <2>3, <2>4 DEF Ended, r
  <1> QED BY <1>1, RequestInvariance, PTL

\* A request whose chain names only configured providers and that leaves the
\* pipeline has been answered exactly once, except when its last entry was
\* skipped after an earlier one failed: then it is neither answered nor logged.
THEOREM AnswersOnce == Spec => []AnsweredUnlessFellThrough
  <1>1. TypeOK /\ RequestInv => AnsweredUnlessFellThrough
    <2> SUFFICES ASSUME TypeOK, RequestInv, NEW s \in Slots, Done(s), Resolved(req[s])
                 PROVE  LET r == req[s] IN
                        /\ Len(r.writes) = IF FellThrough(r) THEN 0 ELSE 1
                        /\ FellThrough(r) => r.logs = <<>>
                        /\ r.writes = <<"unavailable">> <=> AllSkipped(r)
      BY DEF AnsweredUnlessFellThrough
    <2> DEFINE r == req[s]
    <2>1. r \in Request /\ Ended(r) /\ Resolved(r)
      BY DEF RequestInv, TypeOK
    <2>2. Len(r.chain) \in Nat \ {0} /\ r.fate \in Seq({"skipped", "failed"})
      BY <2>1, ChainLength DEF Request
    <2> HIDE DEF r
    <2>3. /\ DOMAIN r.fate = 1 .. Len(r.fate) /\ Len(r.fate) \in Nat
          /\ \A k \in DOMAIN r.fate : r.fate[k] \in {"skipped", "failed"}
      BY <2>2
    <2>4. Len(r.fate) = Len(r.chain) => Len(r.fate) \in DOMAIN r.fate
      BY <2>2, <2>3
    <2>5. /\ Len(r.writes) = IF FellThrough(r) THEN 0 ELSE 1
          /\ FellThrough(r) => r.logs = <<>>
          /\ r.writes = <<"unavailable">> <=> AllSkipped(r)
      <3>1. CASE Refused(r) \/ Relayed(r)
        <4>1. ~FellThrough(r) /\ ~AllSkipped(r)
          BY <3>1 DEF Refused, Relayed, FellThrough, AllSkipped
        <4>2. r.writes \in {<<"bad_request">>, <<"upstream">>}
          BY <3>1 DEF Refused, Relayed
        <4> QED BY <4>1, <4>2
      <3>2. CASE Exhausted(r)
        <4>1. ~FellThrough(r) /\ ~AllSkipped(r)
          BY <2>4, <3>2 DEF Exhausted, FellThrough, AllSkipped
        <4>2. r.writes \in {<<"5xx">>, <<"429">>, <<"bad_gateway">>}
          BY <3>2 DEF Exhausted
        <4> QED BY <4>1, <4>2
      <3>3. CASE RanOff(r) /\ \E k \in DOMAIN r.fate : r.fate[k] = "failed"
        <4>1. FellThrough(r) /\ ~AllSkipped(r) /\ r.writes = <<>> /\ r.logs = <<>>
          BY <3>3 DEF RanOff, FellThrough, AllSkipped
        <4> QED BY <4>1
      <3>4. CASE RanOff(r) /\ ~ \E k \in DOMAIN r.fate : r.fate[k] = "failed"
        <4>1. ~FellThrough(r) /\ AllSkipped(r) /\ r.writes = <<"unavailable">>
          BY <2>3, <3>4 DEF RanOff, FellThrough, AllSkipped
        <4> QED BY <4>1
      <3> QED BY <2>1, <3>1, <3>2, <3>3, <3>4 DEF Ended, Stopped
    <2> QED BY <2>5 DEF r
  <1> QED BY <1>1, RequestInvariance, TypeCorrect, PTL

-----------------------------------------------------------------------------
(* The registry. *)

\* A map of breakers by provider, and the calls of Get.
Maps == UNION {[P -> Nat] : P \in SUBSET Names}

RegistryTypeOK ==
    /\ registry \in Maps
    /\ created \in Nat
    /\ get \in [Callers -> {Idle} \union [pc : {"locked"}, provider : Names]]
    /\ refs \in [Readers -> Maps]
    /\ returned \in [Names -> SUBSET Nat]

\* Every breaker that was returned is the one in the registry, every copy is of
\* an earlier registry, and no two providers share a breaker.
Shared == \A p \in Names : \A b \in returned[p] : p \in DOMAIN registry /\ registry[p] = b
Copies == \A r \in Readers : \A p \in DOMAIN refs[r] :
             p \in DOMAIN registry /\ refs[r][p] = registry[p]
Numbered == \A p \in DOMAIN registry : registry[p] \in 1 .. created
Distinct == \A p, q \in DOMAIN registry : registry[p] = registry[q] => p = q

RegistryInv == RegistryTypeOK /\ Shared /\ Copies /\ Numbered /\ Distinct

\* A map as a function.
LEMMA MapLemma ==
  ASSUME NEW f
  PROVE  f \in Maps <=> DOMAIN f \subseteq Names /\ f \in [DOMAIN f -> Nat]
  BY DEF Maps

\* A call that returns a breaker of the registry.
LEMMA ReturnShared ==
  ASSUME RegistryInv, NEW c \in Callers, NEW p \in Names, p \in DOMAIN registry,
         Return(c, p, registry[p]), UNCHANGED <<registry, created, refs>>
  PROVE  RegistryInv'
  <1>1. registry[p] \in Nat
    BY MapLemma DEF RegistryInv, RegistryTypeOK
  <1>2. returned' \in [Names -> SUBSET Nat] /\
        \A q \in Names : returned'[q] = IF q = p THEN returned[p] \union {registry[p]}
                                                     ELSE returned[q]
    BY <1>1 DEF RegistryInv, RegistryTypeOK, Return
  <1>3. RegistryTypeOK'
    BY <1>2 DEF RegistryInv, RegistryTypeOK, Return, Idle
  <1>4. Shared'
    BY <1>2 DEF RegistryInv, Shared
  <1> QED BY <1>3, <1>4 DEF RegistryInv, Copies, Numbered, Distinct

\* A call that creates one.
LEMMA CreateShared ==
  ASSUME RegistryInv, NEW c \in Callers, NEW p \in Names, p \notin DOMAIN registry,
         created' = created + 1,
         registry' = [q \in DOMAIN registry \union {p} |->
                         IF q = p THEN created + 1 ELSE registry[q]],
         Return(c, p, created + 1), UNCHANGED refs
  PROVE  RegistryInv'
  <1>0. /\ created \in Nat /\ DOMAIN registry \subseteq Names
        /\ \A q \in DOMAIN registry : registry[q] \in Nat /\ registry[q] \in 1 .. created
    BY MapLemma DEF RegistryInv, RegistryTypeOK, Numbered
  <1>1. /\ DOMAIN registry' = DOMAIN registry \union {p} /\ registry'[p] = created + 1
        /\ \A q \in DOMAIN registry : registry'[q] = registry[q]
        /\ created' \in Nat
    BY <1>0
  <1>2. registry' \in Maps
    <2>1. registry' \in [DOMAIN registry' -> Nat] /\ DOMAIN registry' \subseteq Names
      BY <1>0
    <2> QED BY <2>1, MapLemma
  <1>3. /\ returned' \in [Names -> SUBSET Nat]
        /\ \A q \in Names : returned'[q] = IF q = p THEN returned[p] \union {created + 1}
                                                        ELSE returned[q]
    BY <1>0 DEF RegistryInv, RegistryTypeOK, Return
  <1>4. RegistryTypeOK'
    BY <1>1, <1>2, <1>3 DEF RegistryInv, RegistryTypeOK, Return, Idle
  <1>5. Shared'
    <2>1. returned[p] = {}
      BY DEF RegistryInv, Shared, RegistryTypeOK
    <2> QED BY <1>1, <1>3, <2>1 DEF RegistryInv, Shared
  <1>6. Copies'
    BY <1>1 DEF RegistryInv, Copies
  <1>7. Numbered'
    <2>1. ASSUME NEW q \in DOMAIN registry' PROVE registry'[q] \in 1 .. created'
      BY <1>0, <1>1
    <2> QED BY <2>1 DEF Numbered
  <1>8. Distinct'
    <2>1. \A q \in DOMAIN registry : registry[q] # created + 1
      BY <1>0
    <2> QED BY <1>1, <2>1 DEF RegistryInv, Distinct
  <1> QED BY <1>4, <1>5, <1>6, <1>7, <1>8 DEF RegistryInv

\* The invariant of the registry.
THEOREM RegistryInvariance == RegistrySpec => []RegistryInv
  <1>1. RegistryInit => RegistryInv
    <2> SUFFICES ASSUME RegistryInit PROVE RegistryInv
      OBVIOUS
    <2>1. EmptyMap \in Maps /\ DOMAIN EmptyMap = {}
      BY MapLemma DEF EmptyMap
    <2>2. RegistryTypeOK
      BY <2>1 DEF RegistryInit, RegistryTypeOK
    <2> QED BY <2>1, <2>2 DEF RegistryInit, RegistryInv, Shared, Copies, Numbered, Distinct
  <1>2. RegistryInv /\ [RegistryNext]_registryVars => RegistryInv'
    <2> SUFFICES ASSUME RegistryInv, [RegistryNext]_registryVars PROVE RegistryInv'
      OBVIOUS
    <2>1. ASSUME NEW c \in Callers, NEW p \in Names, GetHit(c, p) PROVE RegistryInv'
      BY <2>1, ReturnShared DEF GetHit
    <2>2. ASSUME NEW c \in Callers, NEW p \in Names, GetMiss(c, p) PROVE RegistryInv'
      <3>1. RegistryTypeOK'
        BY <2>2 DEF GetMiss, RegistryInv, RegistryTypeOK
      <3> QED BY <2>2, <3>1 DEF GetMiss, RegistryInv, Shared, Copies, Numbered, Distinct
    <2>3. ASSUME NEW c \in Callers, GetLocked(c) PROVE RegistryInv'
      <3> DEFINE p == get[c].provider
      <3>1. p \in Names
        BY <2>3 DEF GetLocked, RegistryInv, RegistryTypeOK, Idle
      <3>2. CASE p \in DOMAIN registry
        BY <2>3, <3>1, <3>2, ReturnShared DEF GetLocked
      <3>3. CASE p \notin DOMAIN registry
        BY <2>3, <3>1, <3>3, CreateShared DEF GetLocked
      <3> QED BY <3>2, <3>3
    <2>4. ASSUME NEW r \in Readers, AllStats(r) PROVE RegistryInv'
      <3>1. RegistryTypeOK'
        BY <2>4 DEF AllStats, RegistryInv, RegistryTypeOK
      <3>2. Copies'
        <4>1. \A s \in Readers : refs'[s] = IF s = r THEN registry ELSE refs[s]
          BY <2>4 DEF AllStats, RegistryInv, RegistryTypeOK
        <4> QED BY <2>4, <4>1 DEF AllStats, RegistryInv, Copies
      <3> QED BY <2>4, <3>1, <3>2 DEF AllStats, RegistryInv, Shared, Numbered, Distinct
    <2>5. CASE UNCHANGED registryVars
      BY <2>5 DEF registryVars, RegistryInv, RegistryTypeOK, Shared, Copies, Numbered, Distinct
    <2> QED BY <2>1, <2>2, <2>3, <2>4, <2>5 DEF RegistryNext
  <1> QED BY <1>1, <1>2, PTL DEF RegistrySpec

\* All the requests to a provider share one breaker, and the statistics are
\* that breaker's: however many goroutines are the first to ask for it.
THEOREM OneBreaker == RegistrySpec => []OneBreakerPerProvider
  <1>1. RegistryInv => OneBreakerPerProvider
    BY DEF RegistryInv, Shared, Copies, OneBreakerPerProvider
  <1> QED BY <1>1, RegistryInvariance, PTL

=============================================================================
