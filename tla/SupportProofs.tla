---------------------------- MODULE SupportProofs ----------------------------
(***************************************************************************)
(* Theorems about what surrounds the requests: the request logger          *)
(* (AsyncLogger), the shutdown of the server around it (Shutdown) and the  *)
(* session token of Copilot (CopilotToken); for every set of requests,     *)
(* every buffer size, any number of callers of Close, and any times.       *)
(***************************************************************************)
EXTENDS Shutdown, CopilotToken, FiniteSetTheorems, TLAPS

\* The entries in the channel.
Queued == {ch[k] : k \in 1 .. Len(ch)}

\* The entries that Log has put into the channel at some time.
Sent == {e \in Entries : call[e] \in {"sent", "returned"}}

\* What has been sent is handled, in the writer's hands, or in the channel.
NothingLost == Sent \subseteq handled \union current \union Queued

\* The writer holds an entry only while it writes it.
WriterHolds == writer \notin {"persist", "last"} => current = {}

\* The writer leaves its loop, and Close returns, only after stopCh is closed.
StopOrder == /\ writer \in {"drain", "last", "done"} => stopped
             /\ \A k \in Closers : closer[k] # "idle" => stopped
             /\ \A k \in Closers : closer[k] = "returned" => writer = "done"

\* When the writer is done, all that was sent in time has been handled.
EarlyHandled == /\ early \subseteq Sent
                /\ writer = "done" => early \subseteq handled

LoggerInv == /\ LoggerTypeOK /\ NothingLost /\ WriterHolds /\ StopOrder /\ EarlyHandled

-----------------------------------------------------------------------------
\* Appending to the channel adds the entry to those it holds.
LEMMA QueuedAppend ==
  ASSUME LoggerTypeOK, NEW e \in Entries, ch' = Append(ch, e)
  PROVE  Queued' = Queued \union {e}
  <1>1. /\ ch \in Seq(Entries) /\ Len(ch') = Len(ch) + 1 /\ Len(ch) \in Nat
        /\ \A k \in 1 .. Len(ch) : ch'[k] = ch[k]
        /\ ch'[Len(ch) + 1] = e
    BY DEF LoggerTypeOK
  <1>2. ASSUME NEW x \in Queued' PROVE x \in Queued \union {e}
    <2>1. PICK k \in 1 .. Len(ch) + 1 : x = ch'[k]
      BY <1>1, <1>2 DEF Queued
    <2> QED BY <1>1, <2>1 DEF Queued
  <1>3. ASSUME NEW x \in Queued PROVE x \in Queued'
    <2>1. PICK k \in 1 .. Len(ch) : x = ch[k]
      BY <1>3 DEF Queued
    <2>2. k \in 1 .. Len(ch')
      BY <1>1, <2>1
    <2> QED BY <1>1, <2>1, <2>2 DEF Queued
  <1>4. e \in Queued'
    <2>1. Len(ch) + 1 \in 1 .. Len(ch')
      BY <1>1
    <2> QED BY <1>1, <2>1 DEF Queued
  <1> QED BY <1>2, <1>3, <1>4

\* Receiving takes the head of the channel and nothing else.
LEMMA QueuedTail ==
  ASSUME LoggerTypeOK, ch # <<>>, ch' = Tail(ch)
  PROVE  Queued \subseteq Queued' \union {Head(ch)}
  <1>1. /\ ch \in Seq(Entries) /\ Len(ch) \in Nat \ {0} /\ Len(ch') = Len(ch) - 1
        /\ Head(ch) = ch[1]
        /\ \A k \in 1 .. Len(ch) - 1 : ch'[k] = ch[k + 1]
    BY DEF LoggerTypeOK
  <1>2. ASSUME NEW k \in 1 .. Len(ch), k # 1 PROVE ch[k] \in Queued'
    <2>1. k - 1 \in 1 .. Len(ch') /\ k - 1 \in 1 .. Len(ch) - 1 /\ (k - 1) + 1 = k
      BY <1>1, <1>2
    <2>2. ch'[k - 1] = ch[k]
      BY <1>1, <2>1
    <2> QED BY <2>1, <2>2 DEF Queued
  <1> QED BY <1>1, <1>2 DEF Queued

\* An empty channel holds no entry.
LEMMA QueuedEmpty == ch = <<>> => Queued = {}
  <1>1. Len(<<>>) = 0
    OBVIOUS
  <1> QED BY <1>1 DEF Queued

\* The invariant holds initially.
LEMMA LoggerInvInit == LoggerInit => LoggerInv
  <1> SUFFICES ASSUME LoggerInit PROVE LoggerInv
    OBVIOUS
  <1>1. LoggerTypeOK
    <2>1. ch \in Seq(Entries) /\ Len(ch) <= BufferSize
      BY LoggerAssumption DEF LoggerInit
    <2>2. stats \in [Counters -> Nat]
      BY DEF LoggerInit
    <2> QED BY <2>1, <2>2 DEF LoggerInit, LoggerTypeOK
  <1>2. Sent = {}
    BY DEF LoggerInit, Sent
  <1> QED BY <1>1, <1>2
          DEF LoggerInit, LoggerInv, NothingLost, WriterHolds, StopOrder, EarlyHandled

\* Every step of the logger preserves the type invariant.
LEMMA LoggerTypeStep ==
  ASSUME LoggerTypeOK, [LoggerNext]_loggerVars
  PROVE  LoggerTypeOK'
  <1> USE DEF LoggerTypeOK
  <1>1. ASSUME NEW e \in Entries, Log(e) PROVE LoggerTypeOK'
    BY <1>1 DEF Log
  <1>2. ASSUME NEW e \in Entries, Enqueue(e) PROVE LoggerTypeOK'
    <2>1. ch' \in Seq(Entries) /\ Len(ch') <= BufferSize
      BY <1>2, LoggerAssumption DEF Enqueue
    <2> QED BY <1>2, <2>1 DEF Enqueue
  <1>3. ASSUME NEW n \in Counters, Bump(n) PROVE stats' \in [Counters -> Nat]
    BY <1>3 DEF Bump
  <1>4. ASSUME NEW e \in Entries, CountEnqueued(e) PROVE LoggerTypeOK'
    BY <1>3, <1>4 DEF CountEnqueued, Counters
  <1>5. ASSUME NEW e \in Entries, Dropped(e) PROVE LoggerTypeOK'
    BY <1>3, <1>5 DEF Dropped, Counters
  <1>6. ASSUME NEW k \in Closers, Close(k) PROVE LoggerTypeOK'
    BY <1>6 DEF Close
  <1>7. ASSUME NEW k \in Closers, CloseReturns(k) PROVE LoggerTypeOK'
    BY <1>7 DEF CloseReturns
  <1>8. CASE Receive
    <2>1. ch' \in Seq(Entries) /\ Len(ch') <= BufferSize /\ Head(ch) \in Entries
      BY <1>8, LoggerAssumption DEF Receive
    <2> QED BY <1>8, <2>1 DEF Receive
  <1>9. ASSUME NEW o \in WriteOutcomes, Persist(o) PROVE LoggerTypeOK'
    BY <1>3, <1>9 DEF Persist, Counters, WriteOutcomes
  <1>10. CASE StopReceived
    BY <1>10 DEF StopReceived
  <1>11. CASE Drained
    BY <1>11 DEF Drained
  <1>12. CASE UNCHANGED loggerVars
    BY <1>12 DEF loggerVars
  <1> QED BY <1>1, <1>2, <1>4, <1>5, <1>6, <1>7, <1>8, <1>9, <1>10, <1>11, <1>12
          DEF LoggerNext, LogStep, DropClosed, DropTimeout, WriterStep

\* Every step of the logger preserves the invariant.
LEMMA LoggerInvStep ==
  ASSUME LoggerInv, [LoggerNext]_loggerVars
  PROVE  LoggerInv'
  <1>0. LoggerTypeOK /\ LoggerTypeOK'
    BY LoggerTypeStep DEF LoggerInv
  <1> USE <1>0 DEF LoggerInv
  <1> DEFINE Rest == NothingLost /\ WriterHolds /\ StopOrder /\ EarlyHandled
  <1>1. ASSUME NEW e \in Entries, Log(e) PROVE Rest'
    <2>1. Sent' = Sent /\ Queued' = Queued
      BY <1>1 DEF Log, Sent, Queued, LoggerTypeOK
    <2> QED BY <1>1, <2>1 DEF Log, NothingLost, WriterHolds, StopOrder, EarlyHandled
  <1>2. ASSUME NEW e \in Entries, Enqueue(e) PROVE Rest'
    <2>1. Queued' = Queued \union {e}
      BY <1>2, QueuedAppend DEF Enqueue
    <2>2. Sent' = Sent \union {e}
      BY <1>2 DEF Enqueue, Sent, LoggerTypeOK
    <2>3. NothingLost'
      BY <1>2, <2>1, <2>2 DEF Enqueue, NothingLost
    <2>4. WriterHolds' /\ StopOrder'
      BY <1>2 DEF Enqueue, WriterHolds, StopOrder
    <2>5. EarlyHandled'
      BY <1>2, <2>2 DEF Enqueue, EarlyHandled, StopOrder
    <2> QED BY <2>3, <2>4, <2>5
  <1>3. ASSUME NEW e \in Entries, CountEnqueued(e) PROVE Rest'
    <2>1. Sent' = Sent /\ Queued' = Queued
      BY <1>3 DEF CountEnqueued, Sent, Queued, LoggerTypeOK
    <2> QED BY <1>3, <2>1 DEF CountEnqueued, NothingLost, WriterHolds, StopOrder, EarlyHandled
  <1>4. ASSUME NEW e \in Entries, Dropped(e) PROVE Rest'
    <2>1. Sent' = Sent /\ Queued' = Queued
      BY <1>4 DEF Dropped, Sent, Queued, LoggerTypeOK
    <2> QED BY <1>4, <2>1 DEF Dropped, NothingLost, WriterHolds, StopOrder, EarlyHandled
  <1>5. ASSUME NEW k \in Closers, Close(k) PROVE Rest'
    <2>1. Sent' = Sent /\ Queued' = Queued
      BY <1>5 DEF Close, Sent, Queued
    <2> QED BY <1>5, <2>1
            DEF Close, NothingLost, WriterHolds, StopOrder, EarlyHandled, LoggerTypeOK
  <1>6. ASSUME NEW k \in Closers, CloseReturns(k) PROVE Rest'
    <2>1. Sent' = Sent /\ Queued' = Queued
      BY <1>6 DEF CloseReturns, Sent, Queued
    <2> QED BY <1>6, <2>1
            DEF CloseReturns, NothingLost, WriterHolds, StopOrder, EarlyHandled, LoggerTypeOK
  <1>7. CASE Receive
    <2>1. Sent' = Sent
      BY <1>7 DEF Receive, Sent
    <2>2. Queued \subseteq Queued' \union {Head(ch)}
      BY <1>7, QueuedTail DEF Receive
    <2>3. current = {}
      BY <1>7 DEF Receive, WriterHolds
    <2>4. NothingLost'
      BY <1>7, <2>1, <2>2, <2>3 DEF Receive, NothingLost
    <2>5. WriterHolds' /\ StopOrder' /\ EarlyHandled'
      BY <1>7, <2>1 DEF Receive, WriterHolds, StopOrder, EarlyHandled
    <2> QED BY <2>4, <2>5
  <1>8. ASSUME NEW o \in WriteOutcomes, Persist(o) PROVE Rest'
    <2>1. Sent' = Sent /\ Queued' = Queued
      BY <1>8 DEF Persist, Sent, Queued
    <2>2. NothingLost'
      BY <1>8, <2>1 DEF Persist, NothingLost
    <2>3. WriterHolds' /\ StopOrder' /\ EarlyHandled'
      BY <1>8, <2>1 DEF Persist, WriterHolds, StopOrder, EarlyHandled
    <2> QED BY <2>2, <2>3
  <1>9. CASE StopReceived
    <2>1. Sent' = Sent /\ Queued' = Queued
      BY <1>9 DEF StopReceived, Sent, Queued
    <2> QED BY <1>9, <2>1
            DEF StopReceived, NothingLost, WriterHolds, StopOrder, EarlyHandled
  <1>10. CASE Drained
    <2>1. Sent' = Sent /\ Queued' = Queued
      BY <1>10 DEF Drained, Sent, Queued
    <2>2. current = {} /\ Queued = {}
      BY <1>10, QueuedEmpty DEF Drained, WriterHolds
    <2>3. Sent \subseteq handled
      BY <2>2 DEF NothingLost
    <2> QED BY <1>10, <2>1, <2>3
            DEF Drained, NothingLost, WriterHolds, StopOrder, EarlyHandled
  <1>11. CASE UNCHANGED loggerVars
    BY <1>11 DEF loggerVars, NothingLost, WriterHolds, StopOrder, EarlyHandled, Sent, Queued
  <1> QED BY <1>1, <1>2, <1>3, <1>4, <1>5, <1>6, <1>7, <1>8, <1>9, <1>10, <1>11
          DEF LoggerNext, LogStep, DropClosed, DropTimeout, WriterStep

\* The invariant is maintained by every behaviour of the logger.
THEOREM LoggerInvariance == LoggerSpec => []LoggerInv
  <1>1. LoggerInv /\ [LoggerNext]_loggerVars => LoggerInv'
    BY LoggerInvStep
  <1> QED BY <1>1, LoggerInvInit, PTL DEF LoggerSpec

\* The state of the logger keeps its type; in particular the channel never
\* holds more than BufferSize entries.
THEOREM LoggerTypeCorrect == LoggerSpec => []LoggerTypeOK
  BY LoggerInvariance, PTL DEF LoggerInv

\* Whatever is logged concurrently, a Close that has returned leaves no entry
\* behind that had entered the channel before it.
THEOREM CloseDrains == LoggerSpec => []DrainedBeforeClose
  <1>1. LoggerInv => DrainedBeforeClose
    BY DEF LoggerInv, StopOrder, EarlyHandled, DrainedBeforeClose
  <1> QED BY <1>1, LoggerInvariance, PTL

-----------------------------------------------------------------------------
(* The counters. *)

SentNow == {e \in Entries : call[e] = "sent"}
DroppedNow == {e \in Entries : call[e] = "dropped"}

\* An entry goes through the logger once: it is in one place, which it reached
\* by being sent, and the channel holds no entry twice.
Once ==
    /\ handled \intersect (current \union Queued) = {}
    /\ current \intersect Queued = {}
    /\ \A j, k \in 1 .. Len(ch) : ch[j] = ch[k] => j = k
    /\ handled \union current \union Queued \subseteq Sent
    /\ writer \in {"persist", "last"} => \E e \in Entries : current = {e}

\* What the counters count is finite at any time, however many entries there are.
Finite == IsFiniteSet(SentNow) /\ IsFiniteSet(DroppedNow) /\ IsFiniteSet(handled)

\* Receiving leaves the rest of the channel, without its head.
LEMMA QueuedRest ==
  ASSUME LoggerTypeOK, Once, ch # <<>>, ch' = Tail(ch)
  PROVE  /\ Queued' = Queued \ {Head(ch)} /\ Head(ch) \in Queued
         /\ \A j, k \in 1 .. Len(ch') : ch'[j] = ch'[k] => j = k
  <1>1. /\ ch \in Seq(Entries) /\ Len(ch) \in Nat \ {0} /\ Len(ch') = Len(ch) - 1
        /\ Head(ch) = ch[1]
        /\ \A k \in 1 .. Len(ch) - 1 : ch'[k] = ch[k + 1]
    BY DEF LoggerTypeOK
  <1>2. Queued \subseteq Queued' \union {Head(ch)}
    BY QueuedTail
  <1>3. ASSUME NEW k \in 1 .. Len(ch') PROVE ch'[k] \in Queued /\ ch'[k] # Head(ch)
    <2>1. k + 1 \in 1 .. Len(ch) /\ 1 \in 1 .. Len(ch) /\ k + 1 # 1 /\ ch'[k] = ch[k + 1]
      BY <1>1
    <2> QED BY <1>1, <2>1 DEF Once, Queued
  <1>4. Head(ch) \in Queued
    BY <1>1 DEF Queued
  <1>5. ASSUME NEW j \in 1 .. Len(ch'), NEW k \in 1 .. Len(ch'), ch'[j] = ch'[k] PROVE j = k
    <2>1. j + 1 \in 1 .. Len(ch) /\ k + 1 \in 1 .. Len(ch) /\ ch[j + 1] = ch[k + 1]
      BY <1>1, <1>5
    <2>2. j + 1 = k + 1
      BY <2>1 DEF Once
    <2> QED BY <2>2
  <1>6. \A x \in Queued' : x \in Queued /\ x # Head(ch)
    BY <1>3 DEF Queued
  <1>7. Queued' = Queued \ {Head(ch)}
    BY <1>2, <1>6
  <1> QED BY <1>4, <1>5, <1>7

\* A new entry keeps the channel without repetition.
LEMMA AppendOnce ==
  ASSUME LoggerTypeOK, Once, NEW e \in Entries, e \notin Queued, ch' = Append(ch, e)
  PROVE  \A j, k \in 1 .. Len(ch') : ch'[j] = ch'[k] => j = k
  <1>1. /\ ch \in Seq(Entries) /\ Len(ch') = Len(ch) + 1 /\ Len(ch) \in Nat
        /\ \A k \in 1 .. Len(ch) : ch'[k] = ch[k]
        /\ ch'[Len(ch) + 1] = e
    BY DEF LoggerTypeOK
  <1>2. \A k \in 1 .. Len(ch) : ch'[k] # e
    BY <1>1 DEF Queued
  <1>3. \A k \in 1 .. Len(ch') : k \in 1 .. Len(ch) \/ k = Len(ch) + 1
    BY <1>1
  <1> QED BY <1>1, <1>2, <1>3 DEF Once

\* Every step keeps an entry in one place.
LEMMA OnceStep ==
  ASSUME LoggerInv, Once, [LoggerNext]_loggerVars
  PROVE  Once'
  <1>0. LoggerTypeOK /\ WriterHolds
    BY DEF LoggerInv
  <1>1. ASSUME UNCHANGED <<ch, current, handled>>, Sent \subseteq Sent',
               writer' \in {"persist", "last"} => writer \in {"persist", "last"}
        PROVE  Once'
    <2>1. Queued' = Queued
      BY <1>1 DEF Queued
    <2> QED BY <1>1, <2>1 DEF Once
  <1>2. ASSUME NEW e \in Entries, Enqueue(e) PROVE Once'
    <2>1. e \notin Sent
      BY <1>2 DEF Enqueue, Sent
    <2>2. Sent' = Sent \union {e}
      BY <1>0, <1>2 DEF Enqueue, Sent, LoggerTypeOK
    <2>3. Queued' = Queued \union {e}
      BY <1>0, <1>2, QueuedAppend DEF Enqueue
    <2>4. \A j, k \in 1 .. Len(ch') : ch'[j] = ch'[k] => j = k
      BY <1>0, <1>2, <2>1, AppendOnce DEF Enqueue, Once
    <2> QED BY <1>2, <2>1, <2>2, <2>3, <2>4 DEF Enqueue, Once
  <1>3. ASSUME NEW e \in Entries, Log(e) \/ CountEnqueued(e) \/ Dropped(e) PROVE Once'
    <2>1. Sent \subseteq Sent'
      BY <1>0, <1>3 DEF Log, CountEnqueued, Dropped, Sent, LoggerTypeOK
    <2> QED BY <1>1, <1>3, <2>1 DEF Log, CountEnqueued, Dropped
  <1>4. ASSUME NEW k \in Closers, Close(k) \/ CloseReturns(k) PROVE Once'
    BY <1>1, <1>4 DEF Close, CloseReturns, Sent
  <1>5. CASE Receive
    <2>1. current = {} /\ Sent' = Sent /\ Head(ch) \in Entries
      BY <1>0, <1>5 DEF Receive, WriterHolds, Sent, LoggerTypeOK
    <2>2. /\ Queued' = Queued \ {Head(ch)} /\ Head(ch) \in Queued
          /\ \A j, k \in 1 .. Len(ch') : ch'[j] = ch'[k] => j = k
      BY <1>0, <1>5, QueuedRest DEF Receive
    <2> QED BY <1>5, <2>1, <2>2 DEF Receive, Once
  <1>6. ASSUME NEW o \in WriteOutcomes, Persist(o) PROVE Once'
    <2>1. Queued' = Queued /\ Sent' = Sent
      BY <1>6 DEF Persist, Queued, Sent
    <2> QED BY <1>6, <2>1 DEF Persist, Once
  <1>7. CASE StopReceived \/ Drained \/ UNCHANGED loggerVars
    BY <1>1, <1>7 DEF StopReceived, Drained, loggerVars, Sent
  <1> QED BY <1>2, <1>3, <1>4, <1>5, <1>6, <1>7
          DEF LoggerNext, LogStep, DropClosed, DropTimeout, WriterStep

CounterInv == Once /\ Finite /\ CountersAddUp

\* The parts of CountersAddUp.
Handled == stats["persisted"] + stats["failed"] + stats["timedOut"]
SentCounted == stats["enqueued"] + Cardinality(SentNow) = Handled + Cardinality(current) + Len(ch)
HandledCounted == Handled = Cardinality(handled)
DroppedCounted == stats["dropped"] = Cardinality(DroppedNow)

LEMMA CountersParts == CountersAddUp <=> SentCounted /\ HandledCounted /\ DroppedCounted
  BY DEF CountersAddUp, SentCounted, HandledCounted, DroppedCounted, Handled, SentNow, DroppedNow

\* The numbers that are compared.
LEMMA CounterTypes ==
  ASSUME LoggerTypeOK
  PROVE  /\ \A n \in Counters : stats[n] \in Nat
         /\ Handled \in Nat /\ stats["enqueued"] \in Nat /\ stats["dropped"] \in Nat
         /\ Len(ch) \in Nat
  BY DEF LoggerTypeOK, Counters, Handled

\* Every step keeps the counters right.
LEMMA CounterStep ==
  ASSUME LoggerInv, CounterInv, [LoggerNext]_loggerVars
  PROVE  Finite' /\ SentCounted' /\ HandledCounted' /\ DroppedCounted'
  <1>0. /\ LoggerTypeOK /\ LoggerTypeOK' /\ WriterHolds /\ Once /\ Finite
        /\ SentCounted /\ HandledCounted /\ DroppedCounted
    BY LoggerTypeStep, CountersParts DEF LoggerInv, CounterInv
  <1>1. /\ Handled \in Nat /\ stats["enqueued"] \in Nat /\ stats["dropped"] \in Nat
        /\ Len(ch) \in Nat /\ Cardinality(SentNow) \in Nat /\ Cardinality(DroppedNow) \in Nat
        /\ Cardinality(handled) \in Nat /\ Cardinality({}) = 0 /\ \A e : Cardinality({e}) = 1
    BY <1>0, CounterTypes, FS_CardinalityType, FS_EmptySet, FS_Singleton DEF Finite
  <1> DEFINE Goal == Finite' /\ SentCounted' /\ HandledCounted' /\ DroppedCounted'
  <1>2. ASSUME UNCHANGED <<call, stats, current, handled, ch>> PROVE Goal
    BY <1>0, <1>2 DEF Finite, SentCounted, HandledCounted, DroppedCounted, Handled, SentNow, DroppedNow
  <1>3. ASSUME NEW e \in Entries, Log(e) PROVE Goal
    <2>1. SentNow' = SentNow /\ DroppedNow' = DroppedNow
      BY <1>0, <1>3 DEF Log, SentNow, DroppedNow, LoggerTypeOK
    <2> QED BY <1>0, <1>3, <2>1
            DEF Log, Finite, SentCounted, HandledCounted, DroppedCounted, Handled
  <1>4. ASSUME NEW e \in Entries, Enqueue(e) PROVE Goal
    <2>1. SentNow' = SentNow \union {e} /\ e \notin SentNow /\ DroppedNow' = DroppedNow
      BY <1>0, <1>4 DEF Enqueue, SentNow, DroppedNow, LoggerTypeOK
    <2>2. IsFiniteSet(SentNow') /\ Cardinality(SentNow') = Cardinality(SentNow) + 1
      BY <1>0, <2>1, FS_AddElement DEF Finite
    <2>3. Len(ch') = Len(ch) + 1
      BY <1>0, <1>4 DEF Enqueue, LoggerTypeOK
    <2>4. /\ Handled' = Handled /\ current' = current /\ handled' = handled
          /\ stats' = stats
      BY <1>4 DEF Enqueue, Handled
    <2>5. Cardinality(current) \in Nat
      <3>1. current = {} \/ \E x : current = {x}
        BY <1>0 DEF WriterHolds, Once
      <3>2. IsFiniteSet(current)
        BY <3>1, FS_EmptySet, FS_Singleton
      <3> QED BY <3>2, FS_CardinalityType
    <2>6. SentCounted'
      <3>1. Cardinality(current') = Cardinality(current) /\ Handled' = Handled
            /\ stats'["enqueued"] = stats["enqueued"]
        BY <2>4
      <3>2. stats["enqueued"] + Cardinality(SentNow) = Handled + Cardinality(current) + Len(ch)
        BY <1>0 DEF SentCounted
      <3>3. stats["enqueued"] + (Cardinality(SentNow) + 1)
              = Handled + Cardinality(current) + (Len(ch) + 1)
        BY <1>1, <2>5, <3>2
      <3> QED BY <2>2, <2>3, <3>1, <3>3 DEF SentCounted
    <2> QED BY <1>0, <2>1, <2>2, <2>4, <2>6 DEF Finite, HandledCounted, DroppedCounted
  <1>5. ASSUME NEW e \in Entries, CountEnqueued(e) PROVE Goal
    <2>1. SentNow' = SentNow \ {e} /\ e \in SentNow /\ DroppedNow' = DroppedNow
      BY <1>0, <1>5 DEF CountEnqueued, SentNow, DroppedNow, LoggerTypeOK
    <2>2. IsFiniteSet(SentNow') /\ Cardinality(SentNow') = Cardinality(SentNow) - 1
      BY <1>0, <2>1, FS_RemoveElement DEF Finite
    <2>3. /\ stats'["enqueued"] = stats["enqueued"] + 1 /\ stats'["dropped"] = stats["dropped"]
          /\ Handled' = Handled /\ UNCHANGED <<ch, current, handled>>
      BY <1>0, <1>5 DEF CountEnqueued, Bump, LoggerTypeOK, Counters, Handled
    <2>4. SentCounted'
      BY <1>0, <1>1, <2>2, <2>3 DEF SentCounted
    <2> QED BY <1>0, <2>1, <2>2, <2>3, <2>4 DEF Finite, HandledCounted, DroppedCounted
  <1>6. ASSUME NEW e \in Entries, Dropped(e) PROVE Goal
    <2>1. SentNow' = SentNow /\ DroppedNow' = DroppedNow \union {e} /\ e \notin DroppedNow
      BY <1>0, <1>6 DEF Dropped, SentNow, DroppedNow, LoggerTypeOK
    <2>2. IsFiniteSet(DroppedNow') /\ Cardinality(DroppedNow') = Cardinality(DroppedNow) + 1
      BY <1>0, <2>1, FS_AddElement DEF Finite
    <2>3. /\ stats'["enqueued"] = stats["enqueued"] /\ stats'["dropped"] = stats["dropped"] + 1
          /\ Handled' = Handled /\ UNCHANGED <<ch, current, handled>>
      BY <1>0, <1>6 DEF Dropped, Bump, LoggerTypeOK, Counters, Handled
    <2>4. DroppedCounted'
      BY <1>0, <1>1, <2>2, <2>3 DEF DroppedCounted
    <2> QED BY <1>0, <2>1, <2>2, <2>3, <2>4 DEF Finite, SentCounted, HandledCounted
  <1>7. ASSUME NEW k \in Closers, Close(k) \/ CloseReturns(k) PROVE Goal
    BY <1>2, <1>7 DEF Close, CloseReturns
  <1>8. CASE Receive
    <2>1. /\ current = {} /\ current' = {Head(ch)} /\ Len(ch') = Len(ch) - 1
          /\ UNCHANGED <<call, stats, handled>>
      BY <1>0, <1>8 DEF Receive, WriterHolds, LoggerTypeOK
    <2>2. Cardinality(current) = 0 /\ Cardinality(current') = 1
      BY <1>1, <2>1
    <2>3. SentNow' = SentNow /\ DroppedNow' = DroppedNow /\ Handled' = Handled
      BY <2>1 DEF SentNow, DroppedNow, Handled
    <2>4. SentCounted'
      BY <1>0, <1>1, <2>1, <2>2, <2>3 DEF SentCounted
    <2> QED BY <1>0, <2>1, <2>3, <2>4 DEF Finite, HandledCounted, DroppedCounted
  <1>9. ASSUME NEW o \in WriteOutcomes, Persist(o) PROVE Goal
    <2>1. PICK e \in Entries : current = {e}
      BY <1>0, <1>9 DEF Persist, Once
    <2>2. handled' = handled \union {e} /\ e \notin handled /\ current' = {}
      BY <1>0, <1>9, <2>1 DEF Persist, Once
    <2>3. IsFiniteSet(handled') /\ Cardinality(handled') = Cardinality(handled) + 1
      BY <1>0, <2>2, FS_AddElement DEF Finite
    <2>4. SentNow' = SentNow /\ DroppedNow' = DroppedNow /\ ch' = ch
      BY <1>9 DEF Persist, SentNow, DroppedNow
    <2>5. /\ stats'["enqueued"] = stats["enqueued"] /\ stats'["dropped"] = stats["dropped"]
          /\ Handled' = Handled + 1
      BY <1>0, <1>9 DEF Persist, Bump, LoggerTypeOK, Counters, WriteOutcomes, Handled
    <2>6. Cardinality(current) = 1 /\ Cardinality(current') = 0
      BY <1>1, <2>1, <2>2
    <2>7. SentCounted' /\ HandledCounted'
      BY <1>0, <1>1, <2>3, <2>4, <2>5, <2>6 DEF SentCounted, HandledCounted
    <2> QED BY <1>0, <2>3, <2>4, <2>5, <2>7 DEF Finite, DroppedCounted
  <1>10. CASE StopReceived \/ Drained \/ UNCHANGED loggerVars
    BY <1>2, <1>10 DEF StopReceived, Drained, loggerVars
  <1> QED BY <1>3, <1>4, <1>5, <1>6, <1>7, <1>8, <1>9, <1>10
          DEF LoggerNext, LogStep, DropClosed, DropTimeout, WriterStep

\* No interleaving of senders, writer and Close makes the counters disagree: an
\* entry is counted once on the way in and once on the way out, for any number
\* of entries and any buffer.
THEOREM CountersRight == LoggerSpec => []CountersAddUp
  <1>1. LoggerInit => CounterInv
    <2> SUFFICES ASSUME LoggerInit PROVE CounterInv
      OBVIOUS
    <2>1. Queued = {} /\ SentNow = {} /\ DroppedNow = {} /\ Len(ch) = 0
      BY QueuedEmpty DEF LoggerInit, SentNow, DroppedNow
    <2>2. IsFiniteSet({}) /\ Cardinality({}) = 0
      BY FS_EmptySet
    <2>3. Once
      BY <2>1 DEF LoggerInit, Once
    <2>4. Finite
      BY <2>1, <2>2 DEF LoggerInit, Finite
    <2>5. stats["enqueued"] = 0 /\ stats["dropped"] = 0 /\ Handled = 0
      BY DEF LoggerInit, Counters, Handled
    <2>6. SentCounted /\ HandledCounted /\ DroppedCounted
      BY <2>1, <2>2, <2>5 DEF LoggerInit, SentCounted, HandledCounted, DroppedCounted
    <2> QED BY <2>3, <2>4, <2>6, CountersParts DEF CounterInv
  <1>2. LoggerInv /\ CounterInv /\ [LoggerNext]_loggerVars => CounterInv'
    <2> SUFFICES ASSUME LoggerInv, CounterInv, [LoggerNext]_loggerVars PROVE CounterInv'
      OBVIOUS
    <2>1. Once'
      BY OnceStep DEF CounterInv
    <2>2. Finite' /\ SentCounted' /\ HandledCounted' /\ DroppedCounted'
      BY CounterStep
    <2>3. CountersAddUp'
      BY <2>2, CountersParts, PTL
    <2> QED BY <2>1, <2>2, <2>3 DEF CounterInv
  <1>3. CounterInv => CountersAddUp
    BY DEF CounterInv
  <1> QED BY <1>1, <1>2, <1>3, LoggerInvariance, PTL DEF LoggerSpec

-----------------------------------------------------------------------------
(* The shutdown of the server. *)

\* The request of a handler that is not busy has not begun to log, or is done.
IdleOrDone == \A e \in Entries \ busy : call[e] \in {"idle", "returned", "dropped"}

\* The phases of runServe follow each other, and the logger follows them.
PhaseOrder ==
    /\ closer[main] # "idle" => phase \in {"closing", "closed"}
    /\ stopped => closer[main] # "idle"
    /\ storeClosed => closer[main] = "returned"
    /\ phase = "closed" => closer[main] = "returned"

\* A shutdown within its deadline leaves the serving phases with no handler.
Waited == phase \in {"closing", "closed"} /\ ~deadline => busy = {}

\* ... and its writer stops with everything handled.
AllHandled == writer = "done" /\ ~deadline => Sent \subseteq handled

ShutdownTypes == phase \in {"serving", "shutdown", "closing", "closed"} /\ busy \subseteq Entries

ShutdownInv == /\ LoggerInv /\ ShutdownTypes /\ IdleOrDone
               /\ PhaseOrder /\ Waited /\ AllHandled

-----------------------------------------------------------------------------
\* Every step is a step of the logger, or leaves the logger alone.
LEMMA ShutdownRefines == [ShutdownNext]_allVars => [LoggerNext]_loggerVars
  BY ShutdownAssumption
     DEF ShutdownNext, allVars, Accept, HandlerStep, HandlerLogs, HandlerReturns, Signal,
         ServeFails, MainStep, ShutdownDrains, ShutdownExpires, CloseLogger,
         CloseLoggerReturns, CloseStore, LoggerNext

\* A server that starts, serves and shuts down uses its logger as AsyncLogger
\* describes it: handlers log, runtime.Close is one of the closers.
THEOREM ServerUsesLogger == ShutdownSpec => LoggerSpec
  <1>1. ShutdownInit => LoggerInit
    BY DEF ShutdownInit
  <1> QED BY <1>1, ShutdownRefines, PTL DEF ShutdownSpec, LoggerSpec

\* So what holds of the logger holds of the one in the server.
THEOREM ServerLoggerRight == ShutdownSpec => [](DrainedBeforeClose /\ CountersAddUp)
  BY ServerUsesLogger, CloseDrains, CountersRight, PTL

\* The invariant holds initially.
LEMMA ShutdownInvInit == ShutdownInit => ShutdownInv
  <1> SUFFICES ASSUME ShutdownInit PROVE ShutdownInv
    OBVIOUS
  <1>1. LoggerInv
    BY LoggerInvInit DEF ShutdownInit
  <1> QED BY <1>1, ShutdownAssumption
          DEF ShutdownInit, LoggerInit, ShutdownInv, ShutdownTypes, IdleOrDone, PhaseOrder,
              Waited, AllHandled

\* Every step preserves the invariant.
LEMMA ShutdownInvStep ==
  ASSUME ShutdownInv, [ShutdownNext]_allVars
  PROVE  ShutdownInv'
  <1>0. LoggerInv /\ LoggerInv'
    BY ShutdownRefines, LoggerInvStep DEF ShutdownInv
  <1>t. /\ call \in [Entries -> {"idle", "select", "sent", "returned", "dropped"}]
        /\ closer \in [Closers -> {"idle", "waiting", "returned"}] /\ main \in Closers
    BY <1>0, ShutdownAssumption DEF LoggerInv, LoggerTypeOK
  <1> USE DEF ShutdownInv
  <1> DEFINE Rest == ShutdownTypes /\ IdleOrDone /\ PhaseOrder /\ Waited /\ AllHandled
  <1> SUFFICES Rest'
    BY <1>0
  <1>1. ASSUME NEW e \in Entries, Accept(e) PROVE Rest'
    BY <1>1 DEF Accept, loggerVars, ShutdownTypes, IdleOrDone, PhaseOrder, Waited, AllHandled, Sent
  <1>2. ASSUME NEW e \in Entries, HandlerLogs(e) PROVE Rest'
    <2>1. Sent' = Sent
      BY <1>2, <1>t DEF HandlerLogs, Log, Sent
    <2> QED BY <1>2, <1>t, <2>1
            DEF HandlerLogs, Log, shutdownVars, ShutdownTypes, IdleOrDone, PhaseOrder, Waited, AllHandled
  <1>3. ASSUME NEW e \in Entries, Enqueue(e), UNCHANGED shutdownVars PROVE Rest'
    <2>1. e \in busy
      BY <1>3 DEF Enqueue, IdleOrDone
    <2>2. writer = "done" => deadline
      BY <2>1, <1>0 DEF LoggerInv, StopOrder, PhaseOrder, Waited
    <2>3. AllHandled'
      BY <1>3, <2>2 DEF Enqueue, shutdownVars, AllHandled
    <2>4. IdleOrDone'
      BY <1>3, <1>t, <2>1 DEF Enqueue, shutdownVars, IdleOrDone
    <2> QED BY <1>3, <2>3, <2>4 DEF Enqueue, shutdownVars, ShutdownTypes, PhaseOrder, Waited
  <1>4. ASSUME NEW e \in Entries, CountEnqueued(e), UNCHANGED shutdownVars PROVE Rest'
    <2>1. Sent' = Sent
      BY <1>4, <1>t DEF CountEnqueued, Sent
    <2> QED BY <1>4, <1>t, <2>1
            DEF CountEnqueued, shutdownVars, ShutdownTypes, IdleOrDone, PhaseOrder, Waited, AllHandled
  <1>5. ASSUME NEW e \in Entries, Dropped(e), UNCHANGED shutdownVars PROVE Rest'
    <2>1. Sent' = Sent
      BY <1>5, <1>t DEF Dropped, Sent
    <2> QED BY <1>5, <1>t, <2>1
            DEF Dropped, shutdownVars, ShutdownTypes, IdleOrDone, PhaseOrder, Waited, AllHandled
  <1>6. ASSUME NEW e \in Entries, HandlerReturns(e) PROVE Rest'
    BY <1>6 DEF HandlerReturns, loggerVars, ShutdownTypes, IdleOrDone, PhaseOrder, Waited, AllHandled, Sent
  <1>7. CASE Signal
    BY <1>7 DEF Signal, loggerVars, ShutdownTypes, IdleOrDone, PhaseOrder, Waited, AllHandled, Sent
  <1>8. CASE ServeFails
    BY <1>8 DEF ServeFails, loggerVars, ShutdownTypes, IdleOrDone, PhaseOrder, Waited, AllHandled, Sent
  <1>9. CASE ShutdownDrains
    BY <1>9 DEF ShutdownDrains, loggerVars, ShutdownTypes, IdleOrDone, PhaseOrder, Waited, AllHandled, Sent
  <1>10. CASE ShutdownExpires
    BY <1>10 DEF ShutdownExpires, loggerVars, ShutdownTypes, IdleOrDone, PhaseOrder, Waited, AllHandled, Sent
  <1>11. CASE CloseLogger
    BY <1>11, <1>t DEF CloseLogger, Close, shutdownVars, ShutdownTypes, IdleOrDone, PhaseOrder, Waited, AllHandled, Sent
  <1>12. CASE CloseLoggerReturns
    BY <1>12, <1>t DEF CloseLoggerReturns, CloseReturns, shutdownVars, ShutdownTypes, IdleOrDone, PhaseOrder,
                       Waited, AllHandled, Sent
  <1>13. CASE CloseStore
    BY <1>13 DEF CloseStore, loggerVars, ShutdownTypes, IdleOrDone, PhaseOrder, Waited, AllHandled, Sent
  <1>14. CASE Receive /\ UNCHANGED shutdownVars
    BY <1>14 DEF Receive, shutdownVars, ShutdownTypes, IdleOrDone, PhaseOrder, Waited, AllHandled, Sent
  <1>15. ASSUME NEW o \in WriteOutcomes, Persist(o), UNCHANGED shutdownVars PROVE Rest'
    BY <1>15 DEF Persist, shutdownVars, ShutdownTypes, IdleOrDone, PhaseOrder, Waited, AllHandled, Sent
  <1>16. CASE StopReceived /\ UNCHANGED shutdownVars
    BY <1>16 DEF StopReceived, shutdownVars, ShutdownTypes, IdleOrDone, PhaseOrder, Waited, AllHandled, Sent
  <1>17. CASE Drained /\ UNCHANGED shutdownVars
    <2>1. Sent \subseteq handled
      BY <1>0, <1>17, QueuedEmpty DEF Drained, LoggerInv, WriterHolds, NothingLost
    <2> QED BY <1>17, <2>1
            DEF Drained, shutdownVars, ShutdownTypes, IdleOrDone, PhaseOrder, Waited, AllHandled, Sent
  <1>18. CASE UNCHANGED allVars
    BY <1>18 DEF allVars, loggerVars, shutdownVars, ShutdownTypes, IdleOrDone, PhaseOrder, Waited, AllHandled, Sent
  <1> QED BY <1>1, <1>2, <1>3, <1>4, <1>5, <1>6, <1>7, <1>8, <1>9, <1>10, <1>11, <1>12,
             <1>13, <1>14, <1>15, <1>16, <1>17, <1>18
          DEF ShutdownNext, HandlerStep, LogStep, DropClosed, DropTimeout, MainStep, WriterStep

\* The invariant is maintained by every behaviour.
THEOREM ShutdownInvariance == ShutdownSpec => []ShutdownInv
  <1>1. ShutdownInv /\ [ShutdownNext]_allVars => ShutdownInv'
    BY ShutdownInvStep
  <1> QED BY <1>1, ShutdownInvInit, PTL DEF ShutdownSpec

\* runtime.Close closes the store only after the log writer has stopped for
\* good, however many handlers are still running.
THEOREM WriterStopsFirst == ShutdownSpec => []StoreOutlivesWriter
  <1>1. ShutdownInv => StoreOutlivesWriter
    BY ShutdownAssumption
       DEF ShutdownInv, PhaseOrder, LoggerInv, StopOrder, WriterHolds, StoreOutlivesWriter
  <1> QED BY <1>1, ShutdownInvariance, PTL

\* A shutdown that stays within its deadline loses no log entry.
THEOREM GracefulShutdown == ShutdownSpec => []GracefulLosesNothing
  <1>1. ShutdownInv => GracefulLosesNothing
    <2> SUFFICES ASSUME ShutdownInv, phase = "closed", ~deadline
                 PROVE  /\ busy = {}
                        /\ \A e \in Entries : call[e] \in {"idle", "returned", "dropped"}
                        /\ {e \in Entries : call[e] = "returned"} \subseteq handled
      BY DEF GracefulLosesNothing
    <2>1. busy = {}
      BY DEF ShutdownInv, Waited
    <2>2. writer = "done"
      BY ShutdownAssumption DEF ShutdownInv, PhaseOrder, LoggerInv, StopOrder
    <2> QED BY <2>1, <2>2 DEF ShutdownInv, IdleOrDone, AllHandled, Sent
  <1> QED BY <1>1, ShutdownInvariance, PTL

-----------------------------------------------------------------------------
(* Copilot's session token. *)

\* The steps of a request that holds the mutex, and of a login that has got an
\* account.
Holding == {"exchanging", "saving", "writing"}
LoggedIn == {"saveGitHub", "writeGitHub", "exchange", "saveSession", "writeSession"}

Logins == [pc : {"off", "device", "polling"} \union LoggedIn, account : Accounts \union {None},
           exp : Nat, interval : Nat, next : Nat, deadline : Nat]

Files == [github : Accounts \union {None, Torn}, session : Tokens \union {None, Torn}]

CopilotTypeOK ==
    /\ now \in Nat
    /\ disk \in Files
    /\ up \in BOOLEAN
    /\ github \in Accounts \union {None}
    /\ session \in Tokens \union {None}
    /\ holder \in Requests \union {None}
    /\ pc \in [Requests -> {"idle", "wait"} \union Holding]
    /\ login \in Logins
    /\ login.pc \in LoggedIn => login.account \in Accounts

\* A request beyond the mutex holds it, one that exchanges has credentials and
\* found no usable token, and none is under way while the proxy is down.
GoodRequest(r) ==
    /\ pc[r] \in Holding => holder = r
    /\ pc[r] = "exchanging" => github # None /\ ~Usable
    /\ pc[r] # "idle" => up

TokenInv == CopilotTypeOK /\ \A r \in Requests : GoodRequest(r)

\* The time that passes makes no token usable.
LEMMA StaysUnusable ==
  ASSUME TokenSetting, CopilotTypeOK, ~Usable, session' = session, now' \in Nat, now' >= now
  PROVE  ~Usable'
  <1>1. CASE session = None
    BY <1>1 DEF Usable
  <1>2. CASE session \in Tokens
    <2>1. session.exp \in Nat /\ now \in Nat /\ Buffer \in Nat
      BY <1>2 DEF Tokens, CopilotTypeOK, TokenSetting
    <2>2. session = None \/ ~(now + Buffer < session.exp)
      BY DEF Usable
    <2>3. session' = None \/ ~(now' + Buffer < session'.exp)
      BY <2>1, <2>2
    <2> QED BY <2>3 DEF Usable
  <1> QED BY <1>1, <1>2 DEF CopilotTypeOK

\* The steps of the login command, and the clock, leave the requests alone.
LEMMA LoginTypes ==
  ASSUME TokenSetting, CopilotTypeOK, LoginStep
  PROVE  CopilotTypeOK' /\ UNCHANGED <<now, proxyVars>>
  <1>0. /\ now \in Nat /\ login \in Logins /\ disk \in Files
        /\ login.pc \in LoggedIn => login.account \in Accounts
    BY DEF CopilotTypeOK
  <1>1. UNCHANGED <<now, proxyVars>>
    BY DEF LoginStep, runAuthCopilot, LoginEnds, RequestDeviceCode, PollForAccessToken,
           SaveGitHubToken, LoginExchange, LoginSaveSession
  <1> SUFFICES CopilotTypeOK'
    BY <1>1
  <1>2. ASSUME disk' \in Files, login' \in Logins,
               login'.pc \in LoggedIn => login'.account \in Accounts
        PROVE  CopilotTypeOK'
    BY <1>1, <1>2 DEF CopilotTypeOK, proxyVars
  <1>3. NoLogin \in Logins /\ NoLogin.pc \notin LoggedIn
    BY DEF NoLogin, Logins, LoggedIn
  <1>4. CASE runAuthCopilot
    <2>1. login' = [NoLogin EXCEPT !.pc = "device"] /\ disk' = disk
      BY <1>4 DEF runAuthCopilot
    <2>2. login' \in Logins /\ login'.pc \notin LoggedIn
      BY <2>1 DEF NoLogin, Logins, LoggedIn
    <2> QED BY <1>0, <1>2, <2>1, <2>2
  <1>5. CASE LoginEnds
    BY <1>0, <1>2, <1>3, <1>5 DEF LoginEnds
  <1>6. CASE RequestDeviceCode
    <2>1. login' = [login EXCEPT !.pc = "polling", !.interval = Interval, !.next = now + Interval,
                                 !.deadline = now + ExpiresIn] /\ disk' = disk
      BY <1>6 DEF RequestDeviceCode
    <2>0. Interval \in Nat /\ now + Interval \in Nat /\ now + ExpiresIn \in Nat
      BY <1>0 DEF TokenSetting
    <2>2. login' \in Logins /\ login'.pc \notin LoggedIn
      BY <1>0, <2>0, <2>1 DEF Logins, LoggedIn
    <2> QED BY <1>0, <1>2, <2>1, <2>2
  <1>7. CASE PollForAccessToken
    <2>0. disk' = disk /\ login.pc = "polling"
      BY <1>7 DEF PollForAccessToken
    <2>1. CASE login' = NoLogin
      BY <1>0, <1>2, <1>3, <2>0, <2>1
    <2>2. CASE login' = [login EXCEPT !.next = now + login.interval]
      <3>1. login' \in Logins /\ login'.pc \notin LoggedIn
        BY <1>0, <2>0, <2>2 DEF Logins, LoggedIn
      <3> QED BY <1>0, <1>2, <2>0, <3>1
    <2>3. CASE login' = [login EXCEPT !.interval = login.interval + SlowDown,
                                      !.next = now + login.interval + SlowDown]
      <3>0. login.interval + SlowDown \in Nat /\ now + login.interval + SlowDown \in Nat
        <4>1. login.interval \in Nat /\ SlowDown \in Nat
          BY <1>0 DEF Logins, TokenSetting
        <4> QED BY <1>0, <4>1
      <3>1. login' \in Logins /\ login'.pc \notin LoggedIn
        BY <1>0, <2>0, <2>3, <3>0 DEF Logins, LoggedIn
      <3> QED BY <1>0, <1>2, <2>0, <3>1
    <2>4. ASSUME NEW a \in Accounts, login' = [login EXCEPT !.pc = "saveGitHub", !.account = a]
          PROVE  CopilotTypeOK'
      <3>1. login' \in Logins /\ login'.account = a
        BY <1>0, <2>4 DEF Logins, LoggedIn
      <3> QED BY <1>0, <1>2, <2>0, <3>1
    <2>5. \/ login' = NoLogin
          \/ login' = [login EXCEPT !.next = now + login.interval]
          \/ login' = [login EXCEPT !.interval = login.interval + SlowDown,
                                    !.next = now + login.interval + SlowDown]
          \/ \E a \in Accounts : login' = [login EXCEPT !.pc = "saveGitHub", !.account = a]
      BY <1>7 DEF PollForAccessToken
    <2> QED BY <2>1, <2>2, <2>3, <2>4, <2>5
  <1>8. CASE SaveGitHubToken
    <2>1. PICK s \in {"writeGitHub", "exchange"} : login' = [login EXCEPT !.pc = s]
      BY <1>8 DEF SaveGitHubToken
    <2>2. login.account \in Accounts
      BY <1>0, <1>8 DEF SaveGitHubToken, LoggedIn
    <2>3. login' \in Logins /\ login'.account = login.account
      BY <1>0, <2>1 DEF Logins, LoggedIn
    <2>4. disk' \in Files
      BY <1>0, <1>8, <2>2 DEF SaveGitHubToken, Truncate, Written, Files
    <2> QED BY <1>2, <2>2, <2>3, <2>4
  <1>9. CASE LoginExchange
    <2>1. PICK l \in Lifetimes : login' = [login EXCEPT !.pc = "saveSession", !.exp = now + l]
      BY <1>9 DEF LoginExchange
    <2>2. login.account \in Accounts /\ disk' = disk
      BY <1>0, <1>9 DEF LoginExchange, LoggedIn
    <2>3. now + l \in Nat
      BY <1>0 DEF TokenSetting
    <2>4. login' \in Logins /\ login'.account = login.account
      BY <1>0, <2>1, <2>3 DEF Logins, LoggedIn
    <2> QED BY <1>0, <1>2, <2>2, <2>4
  <1>10. CASE LoginSaveSession
    <2>1. CASE login' = NoLogin /\ login.pc = "writeSession"
      <3>1. [account |-> login.account, exp |-> login.exp] \in Tokens
        BY <1>0, <2>1 DEF Tokens, Logins, LoggedIn
      <3>2. disk' \in Files
        BY <1>0, <1>10, <2>1, <3>1 DEF LoginSaveSession, Truncate, Written, Files
      <3> QED BY <1>2, <1>3, <2>1, <3>2
    <2>2. CASE login' = [login EXCEPT !.pc = "writeSession"] /\ login.pc = "saveSession"
      <3>1. disk' \in Files
        BY <1>0, <1>10, <2>2 DEF LoginSaveSession, Truncate, Written, Files
      <3>2. login.account \in Accounts /\ login' \in Logins /\ login'.account = login.account
        BY <1>0, <2>2 DEF Logins, LoggedIn
      <3> QED BY <1>2, <3>1, <3>2
    <2> QED BY <1>10, <2>1, <2>2 DEF LoginSaveSession
  <1> QED BY <1>4, <1>5, <1>6, <1>7, <1>8, <1>9, <1>10 DEF LoginStep

\* The steps of one request keep the types, ...
LEMMA RequestTypes ==
  ASSUME TokenSetting, TokenInv, NEW r \in Requests, RequestStep(r)
  PROVE  CopilotTypeOK'
  <1>0. /\ now \in Nat /\ disk \in Files /\ session \in Tokens \union {None}
        /\ holder \in Requests \union {None} /\ github \in Accounts \union {None}
        /\ pc \in [Requests -> {"idle", "wait"} \union Holding]
    BY DEF TokenInv, CopilotTypeOK
  <1>1. UNCHANGED <<now, up, github, login>>
    BY DEF RequestStep, SendRequest, getSessionToken, ExchangeForCopilotToken, SaveCopilotToken
  <1>2. ASSUME disk' \in Files, session' \in Tokens \union {None},
               holder' \in Requests \union {None},
               pc' \in [Requests -> {"idle", "wait"} \union Holding]
        PROVE  CopilotTypeOK'
    BY <1>1, <1>2 DEF TokenInv, CopilotTypeOK
  <1>3. CASE SendRequest(r)
    BY <1>0, <1>2, <1>3 DEF SendRequest
  <1>4. CASE getSessionToken(r)
    BY <1>0, <1>2, <1>4 DEF getSessionToken, Holding
  <1>5. CASE ExchangeForCopilotToken(r)
    <2>1. session' \in Tokens \union {None}
      <3>1. CASE session' = session
        BY <1>0, <3>1
      <3>2. ASSUME NEW l \in Lifetimes, session' = [account |-> github, exp |-> now + l]
            PROVE  session' \in Tokens \union {None}
        <4>1. github \in Accounts
          BY <1>0, <1>5 DEF ExchangeForCopilotToken, TokenInv, GoodRequest
        <4>2. now + l \in Nat
          BY <1>0 DEF TokenSetting
        <4> QED BY <3>2, <4>1, <4>2 DEF Tokens
      <3> QED BY <1>5, <3>1, <3>2 DEF ExchangeForCopilotToken
    <2>2. pc' \in [Requests -> {"idle", "wait"} \union Holding] /\ holder' \in Requests \union {None}
      BY <1>0, <1>5 DEF ExchangeForCopilotToken, Unlock, Holding
    <2>3. disk' = disk
      BY <1>5 DEF ExchangeForCopilotToken
    <2> QED BY <1>0, <1>2, <2>1, <2>2, <2>3
  <1>6. CASE SaveCopilotToken(r)
    <2>1. disk' \in Files
      <3>1. ASSUME Truncate("session") PROVE disk' \in Files
        BY <1>0, <3>1 DEF Truncate, Files
      <3>2. ASSUME NEW f, Written("session", session, f) PROVE disk' \in Files
        BY <1>0, <3>2 DEF Written, Files
      <3> QED BY <1>0, <1>6, <3>1, <3>2 DEF SaveCopilotToken
    <2>2. pc' \in [Requests -> {"idle", "wait"} \union Holding] /\ holder' \in Requests \union {None}
      BY <1>0, <1>6 DEF SaveCopilotToken, Unlock, Holding
    <2>3. session' = session
      BY <1>6 DEF SaveCopilotToken
    <2> QED BY <1>0, <1>2, <2>1, <2>2, <2>3
  <1> QED BY <1>3, <1>4, <1>5, <1>6 DEF RequestStep

\* ... and keep every request good: the one that moves on, and those that wait
\* or exchange meanwhile.
LEMMA RequestKeepsGood ==
  ASSUME TokenSetting, TokenInv, NEW r \in Requests, RequestStep(r), NEW q \in Requests
  PROVE  GoodRequest(q)'
  <1>0. /\ CopilotTypeOK /\ now \in Nat /\ GoodRequest(r) /\ GoodRequest(q)
        /\ pc \in [Requests -> {"idle", "wait"} \union Holding]
    BY DEF TokenInv, CopilotTypeOK
  <1>1. UNCHANGED <<now, up, github, login>>
    BY DEF RequestStep, SendRequest, getSessionToken, ExchangeForCopilotToken, SaveCopilotToken
  <1>2. pc[r] \in Holding /\ pc[q] \in Holding => r = q
    BY <1>0 DEF GoodRequest
  <1>3. ASSUME q # r PROVE GoodRequest(q)'
    <2>1. pc'[q] = pc[q]
      BY <1>0, <1>3 DEF RequestStep, SendRequest, getSessionToken, ExchangeForCopilotToken,
                        SaveCopilotToken, Unlock
    <2>2. pc[q] # "idle" => up'
      BY <1>0, <1>1 DEF GoodRequest
    <2>3. ASSUME pc[q] \in Holding PROVE holder' = q
      <3>1. holder = q /\ holder # None /\ pc[r] \notin Holding
        BY <1>0, <1>2, <1>3, <2>3 DEF GoodRequest, TokenSetting
      <3>2. holder' = holder
        BY <3>1 DEF RequestStep, SendRequest, getSessionToken, ExchangeForCopilotToken,
                    SaveCopilotToken, Holding
      <3> QED BY <3>1, <3>2
    <2>4. ASSUME pc[q] = "exchanging" PROVE github' # None /\ ~Usable'
      <3>1. pc[r] \notin Holding
        BY <1>2, <1>3, <2>4 DEF Holding
      <3>2. session' = session
        BY <3>1 DEF RequestStep, SendRequest, getSessionToken, ExchangeForCopilotToken,
                    SaveCopilotToken, Holding
      <3>3. github # None /\ ~Usable
        BY <1>0, <2>4 DEF GoodRequest
      <3> QED BY <1>1, <3>2, <3>3 DEF Usable
    <2> QED BY <2>1, <2>2, <2>3, <2>4 DEF GoodRequest
  <1>4. ASSUME q = r PROVE GoodRequest(q)'
    <2>1. CASE SendRequest(r)
      <3>1. pc'[r] = "wait" /\ up'
        BY <1>0, <1>1, <2>1 DEF SendRequest
      <3> QED BY <1>4, <3>1 DEF GoodRequest, Holding
    <2>2. CASE getSessionToken(r)
      <3>1. up'
        BY <1>0, <1>1, <2>2 DEF getSessionToken, GoodRequest
      <3>2. CASE github = None \/ Usable
        <4>1. pc'[r] = "idle"
          BY <1>0, <2>2, <3>2 DEF getSessionToken
        <4> QED BY <1>4, <4>1 DEF GoodRequest, Holding
      <3>3. CASE ~(github = None \/ Usable)
        <4>1. pc'[r] = "exchanging" /\ holder' = r /\ session' = session
          BY <1>0, <2>2, <3>3 DEF getSessionToken
        <4>2. ~Usable' /\ github' # None
          BY <1>1, <3>3, <4>1 DEF Usable
        <4> QED BY <1>4, <3>1, <4>1, <4>2 DEF GoodRequest
      <3> QED BY <3>2, <3>3
    <2>3. CASE ExchangeForCopilotToken(r)
      <3>1. /\ up'
            /\ \/ pc'[r] = "saving" /\ holder' = r
               \/ pc'[r] = "idle"
        BY <1>0, <1>1, <2>3 DEF ExchangeForCopilotToken, Unlock, GoodRequest, Holding
      <3> QED BY <1>4, <3>1 DEF GoodRequest, Holding
    <2>4. CASE SaveCopilotToken(r)
      <3>1. /\ up'
            /\ \/ pc'[r] = "writing" /\ holder' = r
               \/ pc'[r] = "idle"
        BY <1>0, <1>1, <2>4 DEF SaveCopilotToken, Unlock, GoodRequest, Holding
      <3> QED BY <1>4, <3>1 DEF GoodRequest, Holding
    <2> QED BY <2>1, <2>2, <2>3, <2>4 DEF RequestStep
  <1> QED BY <1>3, <1>4

\* The invariant of the token: requests, logins, crashes and restarts keep it.
THEOREM TokenInvariance == CopilotSpec => []TokenInv
  <1> USE TokenAssumption
  <1>1. CopilotInit => TokenInv
    <2> SUFFICES ASSUME CopilotInit PROVE TokenInv
      OBVIOUS
    <2>1. NoLogin \in Logins /\ NoLogin.pc \notin LoggedIn
      BY DEF NoLogin, Logins, LoggedIn
    <2>2. disk \in Files /\ up \in BOOLEAN
      BY DEF CopilotInit, Files
    <2>3. CopilotTypeOK
      BY <2>1, <2>2 DEF CopilotInit, CopilotTypeOK
    <2> QED BY <2>3 DEF CopilotInit, TokenInv, GoodRequest, Holding
  <1>2. TokenInv /\ [CopilotNext]_copilotVars => TokenInv'
    <2> SUFFICES ASSUME TokenInv, [CopilotNext]_copilotVars PROVE TokenInv'
      OBVIOUS
    <2>0. CopilotTypeOK /\ now \in Nat /\ \A q \in Requests : GoodRequest(q)
      BY DEF TokenInv, CopilotTypeOK
    <2>1. ASSUME NEW r \in Requests, RequestStep(r) PROVE TokenInv'
      BY <2>1, RequestTypes, RequestKeepsGood DEF TokenInv
    <2>2. ASSUME UNCHANGED proxyVars, now' \in Nat, now' >= now, CopilotTypeOK' PROVE TokenInv'
      <3>1. ASSUME NEW q \in Requests PROVE GoodRequest(q)'
        <4>1. pc[q] = "exchanging" => ~Usable'
          BY <2>0, <2>2, StaysUnusable DEF proxyVars, GoodRequest
        <4> QED BY <2>0, <2>2, <4>1 DEF proxyVars, GoodRequest
      <3> QED BY <2>2, <3>1 DEF TokenInv
    <2>3. CASE LoginStep
      BY <2>0, <2>2, <2>3, LoginTypes
    <2>4. CASE Tick
      <3>1. CopilotTypeOK' /\ UNCHANGED proxyVars /\ now' \in Nat /\ now' >= now
        BY <2>0, <2>4 DEF Tick, CopilotTypeOK, proxyVars
      <3> QED BY <2>2, <3>1
    <2>5. CASE UNCHANGED copilotVars
      <3>1. CopilotTypeOK' /\ UNCHANGED proxyVars /\ now' \in Nat /\ now' >= now
        BY <2>0, <2>5 DEF copilotVars, CopilotTypeOK, proxyVars
      <3> QED BY <2>2, <3>1
    <2>6. CASE NewClient
      <3>1. /\ ~up /\ up' = TRUE /\ UNCHANGED <<now, disk, holder, pc, login>>
            /\ github' = LoadGitHubToken /\ session' = LoadCopilotToken
        BY <2>6 DEF NewClient
      <3>2. LoadGitHubToken \in Accounts \union {None} /\ LoadCopilotToken \in Tokens \union {None}
        BY <2>0 DEF CopilotTypeOK, Files, LoadGitHubToken, LoadCopilotToken
      <3>3. up' \in BOOLEAN
        BY <3>1, Zenon
      <3>4. CopilotTypeOK'
        BY <2>0, <3>1, <3>2, <3>3 DEF CopilotTypeOK
      <3>5. \A q \in Requests : pc'[q] = "idle"
        BY <2>0, <3>1 DEF GoodRequest
      <3> QED BY <3>4, <3>5 DEF TokenInv, GoodRequest, Holding
    <2>7. CASE Crash
      <3>1. /\ up' = FALSE /\ github' = None /\ session' = None /\ holder' = None
            /\ pc' = [r \in Requests |-> "idle"] /\ UNCHANGED <<now, disk, login>>
        BY <2>7 DEF Crash
      <3>2. up' \in BOOLEAN
        BY <3>1, Zenon
      <3>3. CopilotTypeOK'
        BY <2>0, <3>1, <3>2 DEF CopilotTypeOK
      <3>4. \A q \in Requests : pc'[q] = "idle"
        BY <3>1
      <3> QED BY <3>3, <3>4 DEF TokenInv, GoodRequest, Holding
    <2> QED BY <2>1, <2>3, <2>4, <2>5, <2>6, <2>7 DEF CopilotNext
  <1> QED BY <1>1, <1>2, PTL DEF CopilotSpec

\* The token is exchanged only when there is none or its last seconds have
\* begun: of any number of requests that find it stale at once, one exchanges it.
THEOREM OneExchange == CopilotSpec => OneExchangePerLifetime
  <1> USE TokenAssumption
  <1>1. ASSUME TokenInv, [CopilotNext]_copilotVars
        PROVE  [session' \notin {session, None} /\ up => ~Usable]_copilotVars
    <2> SUFFICES ASSUME CopilotNext, session' \notin {session, None}, up PROVE ~Usable
      BY <1>1
    <2>1. ~Tick /\ ~NewClient /\ ~Crash
      BY DEF Tick, NewClient, Crash, proxyVars
    <2>2. ~LoginStep
      BY <1>1, LoginTypes DEF TokenInv, proxyVars
    <2>3. PICK r \in Requests : RequestStep(r)
      BY <2>1, <2>2 DEF CopilotNext
    <2>4. ExchangeForCopilotToken(r)
      BY <2>3 DEF RequestStep, SendRequest, getSessionToken, SaveCopilotToken
    <2> QED BY <1>1, <2>4 DEF ExchangeForCopilotToken, TokenInv, GoodRequest
  <1> QED BY <1>1, TokenInvariance, PTL DEF CopilotSpec, OneExchangePerLifetime

=============================================================================
