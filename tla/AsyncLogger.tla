----------------------------- MODULE AsyncLogger -----------------------------
(***************************************************************************)
(* The asynchronous request logger of internal/proxy/logger.go: handlers   *)
(* call Log, one goroutine runs `run', and Close stops it.                 *)
(*                                                                         *)
(* Each element of Entries is a log entry and the handler that logs it.    *)
(* The select of Log is one step, the atomic add that follows a successful *)
(* send another: the writer can take the entry in between.                 *)
(***************************************************************************)
EXTENDS Integers, Sequences, FiniteSets

CONSTANTS Entries,    \* the entries that are logged
          BufferSize, \* capacity of the channel
          Closers     \* the callers of Close

ASSUME LoggerAssumption == BufferSize \in Nat \ {0}

VARIABLES call,    \* where each Log call is
          ch,      \* the channel
          stopped, \* stopCh is closed
          writer,  \* where run is: "loop", "persist", "drain", "last", "done"
          current, \* the entry run has taken from the channel and not yet written
          closer,  \* where each Close call is
          stats,   \* the atomic counters
          early,   \* history: the entries sent before stopCh was closed
          handled  \* history: the entries whose InsertRequestLog has returned

loggerVars == <<call, ch, stopped, writer, current, closer, stats, early, handled>>

Counters == {"enqueued", "persisted", "dropped", "failed", "timedOut"}

\* What InsertRequestLog comes to, as persistEntry tells them apart.
WriteOutcomes == {"persisted", "failed", "timedOut"}

LoggerTypeOK ==
    /\ call \in [Entries -> {"idle", "select", "sent", "returned", "dropped"}]
    /\ ch \in Seq(Entries) /\ Len(ch) <= BufferSize
    /\ stopped \in BOOLEAN
    /\ writer \in {"loop", "persist", "drain", "last", "done"}
    /\ current \subseteq Entries
    /\ closer \in [Closers -> {"idle", "waiting", "returned"}]
    /\ stats \in [Counters -> Nat]
    /\ early \subseteq Entries
    /\ handled \subseteq Entries

LoggerInit ==
    /\ call = [e \in Entries |-> "idle"]
    /\ ch = <<>>
    /\ stopped = FALSE
    /\ writer = "loop"
    /\ current = {}
    /\ closer = [k \in Closers |-> "idle"]
    /\ stats = [n \in Counters |-> 0]
    /\ early = {}
    /\ handled = {}

Bump(n) == stats' = [stats EXCEPT ![n] = @ + 1]

-----------------------------------------------------------------------------
(* Log *)

Log(e) ==
    /\ call[e] = "idle"
    /\ call' = [call EXCEPT ![e] = "select"]
    /\ UNCHANGED <<ch, stopped, writer, current, closer, stats, early, handled>>

\* case l.ch <- entry.  It is chosen among the ready cases, so it may be taken
\* when stopCh is closed too.
Enqueue(e) ==
    /\ call[e] = "select"
    /\ Len(ch) < BufferSize
    /\ ch' = Append(ch, e)
    /\ call' = [call EXCEPT ![e] = "sent"]
    /\ early' = IF stopped THEN early ELSE early \union {e}
    /\ UNCHANGED <<stopped, writer, current, closer, stats, handled>>

\* l.enqueued.Add(1)
CountEnqueued(e) ==
    /\ call[e] = "sent"
    /\ call' = [call EXCEPT ![e] = "returned"]
    /\ Bump("enqueued")
    /\ UNCHANGED <<ch, stopped, writer, current, closer, early, handled>>

\* Mutant of Dropped: Log goes back to its select instead of giving up.
DroppedRetries(e) == call[e] = "select" /\ UNCHANGED loggerVars

\* noteDropped
Dropped(e) ==
    /\ call[e] = "select"
    /\ call' = [call EXCEPT ![e] = "dropped"]
    /\ Bump("dropped")
    /\ UNCHANGED <<ch, stopped, writer, current, closer, early, handled>>

\* case <-l.stopCh
DropClosed(e) == stopped /\ Dropped(e)

\* case <-timer.C: the timer can fire at any time, also before a goroutine that
\* is scheduled late looks at a channel with room.
DropTimeout(e) == Dropped(e)

-----------------------------------------------------------------------------
(* Close *)

\* closeOnce: the first call closes stopCh, the others wait for it.
Close(k) ==
    /\ closer[k] = "idle"
    /\ closer' = [closer EXCEPT ![k] = "waiting"]
    /\ stopped' = TRUE
    /\ UNCHANGED <<call, ch, writer, current, stats, early, handled>>

\* <-l.done
CloseReturns(k) ==
    /\ closer[k] = "waiting"
    /\ writer = "done"
    /\ closer' = [closer EXCEPT ![k] = "returned"]
    /\ UNCHANGED <<call, ch, stopped, writer, current, stats, early, handled>>

-----------------------------------------------------------------------------
(* run *)

\* An entry is received: in the main loop, or while draining.
Receive ==
    /\ writer \in {"loop", "drain"}
    /\ ch # <<>>
    /\ current' = {Head(ch)}
    /\ ch' = Tail(ch)
    /\ writer' = IF writer = "loop" THEN "persist" ELSE "last"
    /\ UNCHANGED <<call, stopped, closer, stats, early, handled>>

\* Mutant of Persist: a timeout is counted as a failure as well.
PersistFallsThrough(o) ==
    /\ writer \in {"persist", "last"}
    /\ stats' = [n \in Counters |->
                   IF n = o \/ (o = "timedOut" /\ n = "failed") THEN stats[n] + 1 ELSE stats[n]]
    /\ handled' = handled \union current
    /\ current' = {}
    /\ writer' = IF writer = "persist" THEN "loop" ELSE "drain"
    /\ UNCHANGED <<call, ch, stopped, closer, early>>

\* persistEntry
Persist(o) ==
    /\ writer \in {"persist", "last"}
    /\ Bump(o)
    /\ handled' = handled \union current
    /\ current' = {}
    /\ writer' = IF writer = "persist" THEN "loop" ELSE "drain"
    /\ UNCHANGED <<call, ch, stopped, closer, early>>

\* Mutant of StopReceived: the writer stops without draining the channel.
StopReceivedNoDrain ==
    /\ writer = "loop"
    /\ stopped
    /\ writer' = "done"
    /\ UNCHANGED <<call, ch, stopped, current, closer, stats, early, handled>>

\* case <-l.stopCh, which is chosen among the ready cases.
StopReceived ==
    /\ writer = "loop"
    /\ stopped
    /\ writer' = "drain"
    /\ UNCHANGED <<call, ch, stopped, current, closer, stats, early, handled>>

\* Mutant of Drained: the writer never finds the channel empty.
DrainedNever == writer = "drain" /\ UNCHANGED loggerVars

\* default: nothing is left, run returns.
Drained ==
    /\ writer = "drain"
    /\ ch = <<>>
    /\ writer' = "done"
    /\ UNCHANGED <<call, ch, stopped, current, closer, stats, early, handled>>

LogStep(e) == Enqueue(e) \/ CountEnqueued(e) \/ DropClosed(e) \/ DropTimeout(e)

WriterStep == Receive \/ (\E o \in WriteOutcomes : Persist(o)) \/ StopReceived \/ Drained

LoggerNext ==
    \/ \E e \in Entries : Log(e) \/ LogStep(e)
    \/ \E k \in Closers : Close(k) \/ CloseReturns(k)
    \/ WriterStep

LoggerSpec == LoggerInit /\ [][LoggerNext]_loggerVars

-----------------------------------------------------------------------------
(* Properties. *)

\* Once a Close has returned, every entry that entered the channel before
\* stopCh was closed has been written or has failed: run drains "any remaining
\* entries that were enqueued before Close()".
DrainedBeforeClose ==
    (\E k \in Closers : closer[k] = "returned") => early \subseteq handled

\* The counters add up, whatever the interleaving of senders, writer and Close:
\* what was counted as enqueued or is about to be is handled, in the writer's
\* hands or in the channel, and a handled entry has exactly one outcome.
CountersAddUp ==
    LET sent == {e \in Entries : call[e] = "sent"}
        handledCount == stats["persisted"] + stats["failed"] + stats["timedOut"]
    IN  /\ stats["enqueued"] + Cardinality(sent)
               = handledCount + Cardinality(current) + Len(ch)
        /\ handledCount = Cardinality(handled)
        /\ stats["dropped"] = Cardinality({e \in Entries : call[e] = "dropped"})

\* Every Log call returns: a handler is never held up for good by its log entry,
\* not even when the channel fills up after the writer has stopped.
LogReturns == \A e \in Entries : call[e] = "select" ~> call[e] \in {"returned", "dropped"}

=============================================================================
