------------------------- MODULE ModelCheckerProofs -------------------------
(***************************************************************************)
(* Proofs about ModelChecker: the type invariant, and the bound on how     *)
(* stale the allowlist can be that a request is judged by.                 *)
(*                                                                         *)
(* The induction carries, from the query through the cache to the verdict, *)
(* that an allowlist was in the store no earlier than the time it is dated *)
(* by.                                                                     *)
(***************************************************************************)
EXTENDS ModelChecker, TLAPS

\* What is in the store is in the store now, and nothing was later.
StoreIsCurrent ==
    \A k \in Keys : /\ lastStored[k][stored[k]] = clock
                    /\ \A l \in Allowlists : lastStored[k][l] <= clock

\* An allowlist was in the store at the time its entry is dated by, or later.
EntriesDated ==
    \A k \in DOMAIN cache : lastStored[k][cache[k].patterns] >= cache[k].fetchedAt

\* The same of what a call is about to store, and a call has no verdict before
\* it is done.
CallsDated ==
    \A c \in Callers :
        /\ call[c].now <= clock
        /\ call[c].pc = "store" => lastStored[call[c].key][call[c].patterns] >= call[c].now
        /\ call[c].pc # "done" => call[c].verdict = "none"

CheckerInv ==
    /\ CheckerTypeOK
    /\ StoreIsCurrent
    /\ EntriesDated
    /\ CallsDated
    /\ BoundedStaleness

-----------------------------------------------------------------------------
\* What a decided call looks like.
LEMMA DecidedFields ==
  ASSUME NEW r \in Calls, NEW l \in Allowlists
  PROVE  /\ Decided(r, l) \in Calls
         /\ Decided(r, l).pc = "done"
         /\ Decided(r, l).key = r.key
         /\ Decided(r, l).now = r.now
         /\ Decided(r, l).patterns = l
  <1>1. (IF Permits(l, r.model) THEN "allowed" ELSE "denied") \in {"none", "allowed", "denied", "error"}
    OBVIOUS
  <1> QED BY <1>1 DEF Decided, Calls

\* A call that decides on an allowlist that is recent enough keeps the
\* invariants of the calls.
LEMMA DecisionKeepsCalls ==
  ASSUME CheckerInv,
         NEW c \in Callers, NEW l \in Allowlists,
         call' = [call EXCEPT ![c] = Decided(call[c], l)],
         lastStored[call[c].key][l] > call[c].now - TTL,
         UNCHANGED <<clock, lastStored>>
  PROVE  call' \in [Callers -> Calls] /\ CallsDated' /\ BoundedStaleness'
  <1>1. call \in [Callers -> Calls] /\ call[c] \in Calls
    BY DEF CheckerInv, CheckerTypeOK
  <1> DEFINE d == Decided(call[c], l)
  <1>2. d \in Calls /\ d.pc = "done" /\ d.key = call[c].key /\ d.now = call[c].now
        /\ d.patterns = l
    BY <1>1, DecidedFields
  <1> HIDE DEF d
  <1>3. call' = [call EXCEPT ![c] = d]
    BY DEF d
  <1>4. call' \in [Callers -> Calls]
    BY <1>1, <1>2, <1>3
  <1>5. CallsDated'
    BY <1>1, <1>2, <1>3 DEF CheckerInv, CallsDated
  <1>6. BoundedStaleness'
    BY <1>1, <1>2, <1>3 DEF CheckerInv, BoundedStaleness
  <1> QED BY <1>4, <1>5, <1>6

\* A cached allowlist that is still fresh is recent enough.
LEMMA FreshIsRecent ==
  ASSUME CheckerInv, NEW c \in Callers, Fresh(call[c].key, call[c].now)
  PROVE  /\ cache[call[c].key].patterns \in Allowlists
         /\ lastStored[call[c].key][cache[call[c].key].patterns] > call[c].now - TTL
  <1> DEFINE k == call[c].key
             e == cache[k]
             t == lastStored[k][e.patterns]
  <1>1. k \in DOMAIN cache /\ call[c].now - e.fetchedAt < TTL
    BY DEF Fresh
  <1>2. call[c] \in Calls /\ e \in Entries /\ k \in Keys
    BY <1>1 DEF CheckerInv, CheckerTypeOK, Calls
  <1>3. e.patterns \in Allowlists /\ e.fetchedAt \in Nat /\ call[c].now \in Nat
    BY <1>2 DEF Entries, Calls
  <1>4. t \in Int /\ t >= e.fetchedAt
    BY <1>1, <1>2, <1>3 DEF CheckerInv, CheckerTypeOK, EntriesDated
  <1> HIDE DEF t, e, k
  <1>5. t > call[c].now - TTL
    BY <1>1, <1>3, <1>4, CheckerAssumption
  <1> QED BY <1>3, <1>5 DEF t, e, k

\* When only a call moves on, without a verdict, nothing else is disturbed.
LEMMA CallMoves ==
  ASSUME CheckerInv,
         NEW c \in Callers, NEW d \in Calls,
         call' = [call EXCEPT ![c] = d],
         d.now <= clock,
         d.pc = "store" => lastStored[d.key][d.patterns] >= d.now,
         d.pc # "done" => d.verdict = "none",
         d.verdict \in {"none", "error"},
         UNCHANGED <<clock, lastStored>>
  PROVE  call' \in [Callers -> Calls] /\ CallsDated' /\ BoundedStaleness'
  <1>1. call \in [Callers -> Calls]
    BY DEF CheckerInv, CheckerTypeOK
  <1>2. CallsDated'
    BY <1>1 DEF CheckerInv, CallsDated
  <1>3. BoundedStaleness'
    BY <1>1 DEF CheckerInv, BoundedStaleness
  <1> QED BY <1>1, <1>2, <1>3

\* When the times in lastStored only grow, what was dated stays dated.
LEMMA LaterStored ==
  ASSUME CheckerInv,
         UNCHANGED <<cache, call>>,
         clock' \in Nat, clock' >= clock,
         lastStored' \in [Keys -> [Allowlists -> Int]],
         \A k \in Keys, l \in Allowlists : lastStored'[k][l] >= lastStored[k][l]
  PROVE  EntriesDated' /\ CallsDated' /\ BoundedStaleness'
  <1>1. /\ clock \in Nat /\ call \in [Callers -> Calls]
        /\ lastStored \in [Keys -> [Allowlists -> Int]]
        /\ DOMAIN cache \subseteq Keys
        /\ \A k \in DOMAIN cache : cache[k] \in Entries
    BY DEF CheckerInv, CheckerTypeOK
  <1>2. EntriesDated'
    <2> SUFFICES ASSUME NEW k \in DOMAIN cache
                 PROVE  lastStored'[k][cache[k].patterns] >= cache[k].fetchedAt
      BY DEF EntriesDated
    <2>1. cache[k].patterns \in Allowlists /\ cache[k].fetchedAt \in Nat /\ k \in Keys
      BY <1>1 DEF Entries
    <2>2. /\ lastStored[k][cache[k].patterns] >= cache[k].fetchedAt
          /\ lastStored[k][cache[k].patterns] \in Int
          /\ lastStored'[k][cache[k].patterns] \in Int
      BY <1>1, <2>1 DEF CheckerInv, EntriesDated
    <2> QED BY <2>1, <2>2
  <1>3. ASSUME NEW c \in Callers
        PROVE  /\ call[c].now \in Nat
               /\ lastStored[call[c].key][call[c].patterns] \in Int
               /\ lastStored'[call[c].key][call[c].patterns] \in Int
               /\ lastStored'[call[c].key][call[c].patterns]
                     >= lastStored[call[c].key][call[c].patterns]
    BY <1>1 DEF Calls
  <1>4. CallsDated'
    <2> SUFFICES ASSUME NEW c \in Callers
                 PROVE  /\ call[c].now <= clock'
                        /\ call[c].pc = "store" =>
                              lastStored'[call[c].key][call[c].patterns] >= call[c].now
                        /\ call[c].pc # "done" => call[c].verdict = "none"
      BY DEF CallsDated
    <2> QED BY <1>1, <1>3 DEF CheckerInv, CallsDated
  <1>5. BoundedStaleness'
    <2> SUFFICES ASSUME NEW c \in Callers, call[c].verdict \in {"allowed", "denied"}
                 PROVE  lastStored'[call[c].key][call[c].patterns] > call[c].now - TTL
      BY DEF BoundedStaleness
    <2>1. lastStored[call[c].key][call[c].patterns] > call[c].now - TTL
      BY DEF CheckerInv, BoundedStaleness
    <2> QED BY <1>3, <2>1, CheckerAssumption
  <1> QED BY <1>2, <1>4, <1>5

-----------------------------------------------------------------------------
LEMMA CheckerInvInit == CheckerInit => CheckerInv
  <1> SUFFICES ASSUME CheckerInit PROVE CheckerInv
    OBVIOUS
  <1>1. ZeroTime \in Int /\ ZeroTime <= 0
    BY CheckerAssumption DEF ZeroTime
  <1>2. CheckerTypeOK
    <2>1. lastStored \in [Keys -> [Allowlists -> Int]]
      BY <1>1 DEF CheckerInit
    <2>2. call \in [Callers -> Calls]
      BY DEF CheckerInit, Calls
    <2> QED BY <1>1, <2>1, <2>2 DEF CheckerInit, CheckerTypeOK
  <1>3. StoreIsCurrent
    BY <1>1 DEF CheckerInit, StoreIsCurrent
  <1>4. EntriesDated
    <2>1. DOMAIN cache = {}
      BY DEF CheckerInit
    <2> QED BY <2>1 DEF EntriesDated
  <1>i. \A c \in Callers : call[c].pc = "idle" /\ call[c].now = 0 /\ call[c].verdict = "none"
    <2>1. PICK k \in Keys, m \in Models, l \in Allowlists :
             call = [c \in Callers |-> [pc |-> "idle", key |-> k, model |-> m, now |-> 0,
                                        patterns |-> l, verdict |-> "none"]]
      BY DEF CheckerInit
    <2> QED BY <2>1
  <1>5. CallsDated
    <2>1. clock = 0
      BY DEF CheckerInit
    <2>2. ASSUME NEW c \in Callers
          PROVE  call[c].now <= clock /\ call[c].pc # "store" /\ call[c].verdict = "none"
      BY <1>i, <2>1
    <2> QED BY <2>2 DEF CallsDated
  <1>6. BoundedStaleness
    BY <1>i DEF BoundedStaleness
  <1> QED BY <1>2, <1>3, <1>4, <1>5, <1>6 DEF CheckerInv

LEMMA CheckerInvStep == CheckerInv /\ [CheckerNext]_checkerVars => CheckerInv'
  <1> SUFFICES ASSUME CheckerInv, [CheckerNext]_checkerVars
               PROVE  CheckerInv'
    OBVIOUS
  <1> USE DEF CheckerInv
  <1>t. /\ clock \in Nat /\ call \in [Callers -> Calls]
        /\ stored \in [Keys -> Allowlists]
        /\ lastStored \in [Keys -> [Allowlists -> Int]]
        /\ DOMAIN cache \subseteq Keys
        /\ \A k \in DOMAIN cache : cache[k] \in Entries
        /\ lastSweep \in Int
    BY DEF CheckerTypeOK
  <1>c. ASSUME NEW c \in Callers
        PROVE  call[c] \in Calls /\ call[c].key \in Keys /\ call[c].now \in Nat
               /\ call[c].patterns \in Allowlists /\ call[c].now <= clock
    BY <1>t DEF Calls, CallsDated
  <1>1. ASSUME NEW c \in Callers, NEW k \in Keys, NEW m \in Models, Call(c, k, m)
        PROVE  CheckerInv'
    <2> DEFINE d == [pc |-> "lookup", key |-> k, model |-> m, now |-> clock,
                     patterns |-> call[c].patterns, verdict |-> "none"]
    <2>1. /\ d \in Calls /\ d.now = clock /\ d.pc = "lookup" /\ d.verdict = "none"
          /\ call' = [call EXCEPT ![c] = d]
      BY <1>1, <1>c, <1>t DEF Call, Calls
    <2> HIDE DEF d
    <2>2. UNCHANGED <<clock, stored, cache, lastSweep, lastStored>>
      BY <1>1 DEF Call
    <2>3. d.now <= clock /\ d.pc # "store"
      BY <1>t, <2>1
    <2>4. call' \in [Callers -> Calls] /\ CallsDated' /\ BoundedStaleness'
      BY <2>1, <2>2, <2>3, CallMoves
    <2> QED BY <2>2, <2>4 DEF CheckerTypeOK, StoreIsCurrent, EntriesDated
  <1>2. ASSUME NEW c \in Callers, Lookup(c) PROVE CheckerInv'
    <2>1. UNCHANGED <<clock, stored, cache, lastSweep, lastStored>>
      BY <1>2 DEF Lookup
    <2>2. call' \in [Callers -> Calls] /\ CallsDated' /\ BoundedStaleness'
      <3>1. CASE Fresh(call[c].key, call[c].now)
        <4>1. call' = [call EXCEPT ![c] = Decided(call[c], cache[call[c].key].patterns)]
          BY <1>2, <3>1 DEF Lookup
        <4> QED BY <2>1, <3>1, <4>1, FreshIsRecent, DecisionKeepsCalls
      <3>2. CASE ~Fresh(call[c].key, call[c].now)
        <4> DEFINE d == [call[c] EXCEPT !.pc = "recheck"]
        <4>1. /\ d \in Calls /\ d.now = call[c].now /\ d.pc = "recheck" /\ d.verdict = "none"
              /\ call' = [call EXCEPT ![c] = d]
          BY <1>2, <1>c, <3>2 DEF Lookup, Calls, CallsDated
        <4> HIDE DEF d
        <4> QED BY <1>c, <2>1, <4>1, CallMoves
      <3> QED BY <3>1, <3>2
    <2> QED BY <2>1, <2>2 DEF CheckerTypeOK, StoreIsCurrent, EntriesDated
  <1>3. ASSUME NEW c \in Callers, RecheckHits(c) PROVE CheckerInv'
    <2>1. UNCHANGED <<clock, stored, cache, lastSweep, lastStored>>
      BY <1>3 DEF RecheckHits
    <2>2. call' \in [Callers -> Calls] /\ CallsDated' /\ BoundedStaleness'
      <3>1. /\ Fresh(call[c].key, call[c].now)
            /\ call' = [call EXCEPT ![c] = Decided(call[c], cache[call[c].key].patterns)]
        BY <1>3 DEF RecheckHits
      <3> QED BY <2>1, <3>1, FreshIsRecent, DecisionKeepsCalls
    <2> QED BY <2>1, <2>2 DEF CheckerTypeOK, StoreIsCurrent, EntriesDated
  <1>4. ASSUME NEW c \in Callers, RecheckMisses(c) PROVE CheckerInv'
    <2>1. UNCHANGED <<clock, stored, lastStored>> /\ cache' = Swept(call[c].now)
      BY <1>4 DEF RecheckMisses
    <2>2. lastSweep' \in Int
      BY <1>4, <1>c, <1>t DEF RecheckMisses
    <2>3. /\ DOMAIN cache' \subseteq DOMAIN cache
          /\ \A k \in DOMAIN cache' : cache'[k] = cache[k]
      BY <2>1 DEF Swept
    <2>4. call' \in [Callers -> Calls] /\ CallsDated' /\ BoundedStaleness'
      <3> DEFINE d == [call[c] EXCEPT !.pc = "fetch"]
      <3>1. /\ d \in Calls /\ d.now = call[c].now /\ d.pc = "fetch" /\ d.verdict = "none"
            /\ call' = [call EXCEPT ![c] = d]
        BY <1>4, <1>c DEF RecheckMisses, Calls, CallsDated
      <3> HIDE DEF d
      <3> QED BY <1>c, <2>1, <3>1, CallMoves
    <2>5. EntriesDated'
      BY <2>1, <2>3 DEF EntriesDated
    <2> QED BY <1>t, <2>1, <2>2, <2>3, <2>4, <2>5 DEF CheckerTypeOK, StoreIsCurrent
  <1>5. ASSUME NEW c \in Callers, Fetch(c) PROVE CheckerInv'
    <2>1. UNCHANGED <<clock, stored, cache, lastSweep, lastStored>>
      BY <1>5 DEF Fetch
    <2>2. call' \in [Callers -> Calls] /\ CallsDated' /\ BoundedStaleness'
      <3> DEFINE d == [call[c] EXCEPT !.pc = "store", !.patterns = stored[call[c].key]]
      <3>1. stored[call[c].key] \in Allowlists
        BY <1>t, <1>c
      <3>2. /\ d \in Calls /\ d.now = call[c].now /\ d.pc = "store" /\ d.verdict = "none"
            /\ d.key = call[c].key /\ d.patterns = stored[call[c].key]
            /\ call' = [call EXCEPT ![c] = d]
        BY <1>5, <1>c, <3>1 DEF Fetch, Calls, CallsDated
      <3> HIDE DEF d
      <3>3. lastStored[d.key][d.patterns] >= d.now
        BY <1>c, <1>t, <3>2 DEF StoreIsCurrent
      <3> QED BY <1>c, <2>1, <3>2, <3>3, CallMoves
    <2> QED BY <2>1, <2>2 DEF CheckerTypeOK, StoreIsCurrent, EntriesDated
  <1>6. ASSUME NEW c \in Callers, FetchFails(c) PROVE CheckerInv'
    <2>1. UNCHANGED <<clock, stored, cache, lastSweep, lastStored>>
      BY <1>6 DEF FetchFails
    <2>2. call' \in [Callers -> Calls] /\ CallsDated' /\ BoundedStaleness'
      <3> DEFINE d == [call[c] EXCEPT !.pc = "done", !.verdict = "error"]
      <3>1. /\ d \in Calls /\ d.now = call[c].now /\ d.pc = "done" /\ d.verdict = "error"
            /\ call' = [call EXCEPT ![c] = d]
        BY <1>6, <1>c DEF FetchFails, Calls
      <3> HIDE DEF d
      <3> QED BY <1>c, <2>1, <3>1, CallMoves
    <2> QED BY <2>1, <2>2 DEF CheckerTypeOK, StoreIsCurrent, EntriesDated
  <1>7. ASSUME NEW c \in Callers, Store(c) PROVE CheckerInv'
    <2> DEFINE k == call[c].key
               e == Entry(call[c])
    <2>1. UNCHANGED <<clock, stored, lastSweep, lastStored>>
      BY <1>7 DEF Store
    <2>2. lastStored[k][call[c].patterns] >= call[c].now /\ lastStored[k][call[c].patterns] \in Int
      BY <1>7, <1>c, <1>t DEF Store, CallsDated
    <2>3. call' \in [Callers -> Calls] /\ CallsDated' /\ BoundedStaleness'
      <3>1. call' = [call EXCEPT ![c] = Decided(call[c], call[c].patterns)]
        BY <1>7 DEF Store
      <3>2. lastStored[k][call[c].patterns] > call[c].now - TTL
        BY <2>2, <1>c, CheckerAssumption
      <3> QED BY <1>c, <2>1, <3>1, <3>2, DecisionKeepsCalls
    <2>4. e \in Entries /\ e.patterns = call[c].patterns /\ e.fetchedAt = call[c].now
      BY <1>c DEF Entry, Entries
    <2>5. cache' = [j \in DOMAIN cache \union {k} |-> IF j = k THEN e ELSE cache[j]]
      BY <1>7 DEF Store
    <2> HIDE DEF e
    <2>6. DOMAIN cache' \subseteq Keys /\ \A j \in DOMAIN cache' : cache'[j] \in Entries
      BY <1>c, <1>t, <2>4, <2>5
    <2>7. EntriesDated'
      BY <2>1, <2>2, <2>4, <2>5 DEF EntriesDated
    <2> QED BY <2>1, <2>3, <2>6, <2>7 DEF CheckerTypeOK, StoreIsCurrent
  <1>8. ASSUME NEW k \in Keys, InvalidateKey(k) PROVE CheckerInv'
    <2>1. UNCHANGED <<clock, stored, lastSweep, call, lastStored>>
          /\ cache' = [j \in DOMAIN cache \ {k} |-> cache[j]]
      BY <1>8 DEF InvalidateKey
    <2> QED BY <1>t, <2>1 DEF CheckerTypeOK, StoreIsCurrent, EntriesDated, CallsDated,
                            BoundedStaleness
  <1>9. ASSUME NEW k \in Keys, NEW l \in Allowlists, SetKeyAllowedModels(k, l)
        PROVE  CheckerInv'
    <2>1. UNCHANGED <<clock, cache, lastSweep, call>>
          /\ stored' = [stored EXCEPT ![k] = l]
          /\ lastStored' = [lastStored EXCEPT ![k] = [lastStored[k] EXCEPT ![l] = clock]]
      BY <1>9 DEF SetKeyAllowedModels
    <2>2. stored' \in [Keys -> Allowlists] /\ lastStored' \in [Keys -> [Allowlists -> Int]]
      BY <1>t, <2>1
    <2>3. \A j \in Keys, m \in Allowlists :
             lastStored'[j][m] = IF j = k /\ m = l THEN clock ELSE lastStored[j][m]
      BY <1>t, <2>1
    <2>4. \A j \in Keys, m \in Allowlists : lastStored[j][m] \in Int /\ lastStored[j][m] <= clock
      BY <1>t DEF StoreIsCurrent
    <2>5. \A j \in Keys, m \in Allowlists : lastStored'[j][m] >= lastStored[j][m]
      BY <1>t, <2>3, <2>4
    <2>6. StoreIsCurrent'
      BY <1>t, <2>1, <2>3 DEF StoreIsCurrent
    <2>7. EntriesDated' /\ CallsDated' /\ BoundedStaleness'
      BY <1>t, <2>1, <2>2, <2>5, LaterStored
    <2> QED BY <2>1, <2>2, <2>6, <2>7 DEF CheckerTypeOK
  <1>10. ASSUME Tick PROVE CheckerInv'
    <2>1. UNCHANGED <<stored, cache, lastSweep, call>> /\ clock' = clock + 1
          /\ lastStored' = [k \in Keys |-> [lastStored[k] EXCEPT ![stored[k]] = clock + 1]]
      BY <1>10 DEF Tick
    <2>2. lastStored' \in [Keys -> [Allowlists -> Int]] /\ clock' \in Nat /\ clock' >= clock
      BY <1>t, <2>1
    <2>3. \A j \in Keys, m \in Allowlists :
             lastStored'[j][m] = IF m = stored[j] THEN clock + 1 ELSE lastStored[j][m]
      BY <1>t, <2>1
    <2>4. \A j \in Keys, m \in Allowlists : lastStored[j][m] \in Int /\ lastStored[j][m] <= clock
      BY <1>t DEF StoreIsCurrent
    <2>5. \A j \in Keys, m \in Allowlists : lastStored'[j][m] >= lastStored[j][m]
      BY <1>t, <2>3, <2>4
    <2>6. StoreIsCurrent'
      BY <1>t, <2>1, <2>3, <2>4 DEF StoreIsCurrent
    <2>7. EntriesDated' /\ CallsDated' /\ BoundedStaleness'
      BY <1>t, <2>1, <2>2, <2>5, LaterStored
    <2> QED BY <2>1, <2>2, <2>6, <2>7 DEF CheckerTypeOK
  <1>11. CASE UNCHANGED checkerVars
    BY <1>11 DEF checkerVars, CheckerTypeOK, StoreIsCurrent, EntriesDated, CallsDated,
                 BoundedStaleness
  <1> QED BY <1>1, <1>2, <1>3, <1>4, <1>5, <1>6, <1>7, <1>8, <1>9, <1>10, <1>11
          DEF CheckerNext, CallStep

-----------------------------------------------------------------------------
\* The inductive invariant holds in every reachable state.
THEOREM CheckerInvariance == CheckerSpec => []CheckerInv
  <1>1. CheckerInit => CheckerInv
    BY CheckerInvInit
  <1>2. CheckerInv /\ [CheckerNext]_checkerVars => CheckerInv'
    BY CheckerInvStep
  <1> QED BY <1>1, <1>2, PTL DEF CheckerSpec

\* The cache, the calls and the history keep their types.
THEOREM CheckerTypeCorrect == CheckerSpec => []CheckerTypeOK
  <1>1. CheckerInv => CheckerTypeOK
    BY DEF CheckerInv
  <1> QED BY <1>1, CheckerInvariance, PTL

\* A request is never judged by an allowlist that had left the store a TTL
\* before it: for any number of callers and keys, any allowlists and any TTL,
\* and although late fetches overwrite newer entries of the cache.
THEOREM StalenessBounded == CheckerSpec => []BoundedStaleness
  <1>1. CheckerInv => BoundedStaleness
    BY DEF CheckerInv
  <1> QED BY <1>1, CheckerInvariance, PTL
=============================================================================
