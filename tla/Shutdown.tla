------------------------------ MODULE Shutdown ------------------------------
(***************************************************************************)
(* The end of runServe (cmd/serve.go) and Runtime.Close                    *)
(* (internal/app/runtime.go) around the asynchronous logger: the server    *)
(* stops accepting, Shutdown waits for the handlers until its deadline,    *)
(* then the logger is closed and after it the store.                       *)
(*                                                                         *)
(* A handler serves one request and logs one entry, the element of Entries *)
(* that names it; `main' is the caller of Close.                           *)
(***************************************************************************)
EXTENDS AsyncLogger

CONSTANT main

ASSUME ShutdownAssumption == Closers = {main}

VARIABLES phase,       \* "serving", "shutdown", "closing", "closed"
          busy,        \* the requests whose handler has not returned
          deadline,    \* history: Shutdown gave up waiting
          storeClosed

shutdownVars == <<phase, busy, deadline, storeClosed>>
allVars == <<loggerVars, shutdownVars>>

ShutdownTypeOK ==
    /\ LoggerTypeOK
    /\ phase \in {"serving", "shutdown", "closing", "closed"}
    /\ busy \subseteq Entries
    /\ deadline \in BOOLEAN
    /\ storeClosed \in BOOLEAN

ShutdownInit ==
    /\ LoggerInit
    /\ phase = "serving"
    /\ busy = {}
    /\ deadline = FALSE
    /\ storeClosed = FALSE

-----------------------------------------------------------------------------
\* A request is accepted.
Accept(e) ==
    /\ phase = "serving"
    /\ call[e] = "idle"
    /\ e \notin busy
    /\ busy' = busy \union {e}
    /\ UNCHANGED <<phase, deadline, storeClosed, loggerVars>>

\* The handler reaches its log entry, and returns once Log has.
HandlerLogs(e) == e \in busy /\ Log(e) /\ UNCHANGED shutdownVars

HandlerReturns(e) ==
    /\ e \in busy
    /\ call[e] \in {"returned", "dropped"}
    /\ busy' = busy \ {e}
    /\ UNCHANGED <<phase, deadline, storeClosed, loggerVars>>

\* SIGINT or SIGTERM, or ListenAndServe returned ErrServerClosed: srv.Shutdown.
Signal ==
    /\ phase = "serving"
    /\ phase' = "shutdown"
    /\ UNCHANGED <<busy, deadline, storeClosed, loggerVars>>

\* ListenAndServe failed: runServe returns at once, and its defers run.
ServeFails ==
    /\ phase = "serving"
    /\ phase' = "closing"
    /\ deadline' = TRUE
    /\ UNCHANGED <<busy, storeClosed, loggerVars>>

\* Mutant of ShutdownDrains: Shutdown does not wait for the handlers.
ShutdownDrainsEarly ==
    /\ phase = "shutdown"
    /\ phase' = "closing"
    /\ UNCHANGED <<busy, deadline, storeClosed, loggerVars>>

\* srv.Shutdown returns because every handler has.
ShutdownDrains ==
    /\ phase = "shutdown"
    /\ busy = {}
    /\ phase' = "closing"
    /\ UNCHANGED <<busy, deadline, storeClosed, loggerVars>>

\* srv.Shutdown returns because its 10 seconds are over.
ShutdownExpires ==
    /\ phase = "shutdown"
    /\ phase' = "closing"
    /\ deadline' = TRUE
    /\ UNCHANGED <<busy, storeClosed, loggerVars>>

\* runtime.Close: the logger first, ...
CloseLogger == phase = "closing" /\ Close(main) /\ UNCHANGED shutdownVars

CloseLoggerReturns == CloseReturns(main) /\ UNCHANGED shutdownVars

\* Mutant of CloseStore: the store is closed while the logger drains.
CloseStoreEarly ==
    /\ phase = "closing"
    /\ closer[main] # "idle"
    /\ storeClosed' = TRUE
    /\ phase' = "closed"
    /\ UNCHANGED <<busy, deadline, loggerVars>>

\* ... then the store.
CloseStore ==
    /\ phase = "closing"
    /\ closer[main] = "returned"
    /\ storeClosed' = TRUE
    /\ phase' = "closed"
    /\ UNCHANGED <<busy, deadline, loggerVars>>

HandlerStep(e) ==
    \/ HandlerLogs(e)
    \/ LogStep(e) /\ UNCHANGED shutdownVars
    \/ HandlerReturns(e)

MainStep == ShutdownDrains \/ ShutdownExpires \/ CloseLogger \/ CloseLoggerReturns \/ CloseStore

ShutdownNext ==
    \/ \E e \in Entries : Accept(e) \/ HandlerStep(e)
    \/ Signal \/ ServeFails
    \/ MainStep
    \/ WriterStep /\ UNCHANGED shutdownVars

ShutdownSpec == ShutdownInit /\ [][ShutdownNext]_allVars

\* The goroutines run; handlers end, if only by their upstream timeout.
ShutdownFairSpec ==
    /\ ShutdownSpec
    /\ \A e \in Entries : WF_allVars(HandlerStep(e))
    /\ WF_allVars(MainStep)
    /\ WF_allVars(WriterStep /\ UNCHANGED shutdownVars)

-----------------------------------------------------------------------------
(* Properties. *)

\* The writer has stopped for good before the store it writes to is closed, so
\* no entry is lost to "database is closed", however late handlers still log.
StoreOutlivesWriter == storeClosed => writer = "done" /\ current = {}

\* A shutdown that did not run into its deadline loses nothing: each request
\* that was served has its entry written, failed, or dropped at a full buffer.
\* In particular none is refused because the logger is closed.
GracefulLosesNothing ==
    phase = "closed" /\ ~deadline =>
        /\ busy = {}
        /\ \A e \in Entries : call[e] \in {"idle", "returned", "dropped"}
        /\ {e \in Entries : call[e] = "returned"} \subseteq handled

\* A server that is told to stop gets to close its store.
ShutdownEnds == phase # "serving" ~> phase = "closed"

=============================================================================
