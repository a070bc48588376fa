--------------------------- MODULE ServerLifecycle ---------------------------
(* The life of the server process: cmd/server's run(), from the first read of
   the environment to the exit code, with the deferred calls as the stack they
   are, the goroutine that serves, the requests it has handed to handlers, the
   connection pool and the span exporter.

   Signals, the collector, the database and the network act on their own.  The
   environment variables are chosen where they are read.                      *)
EXTENDS LogHandler

CONSTANTS
    Clients,       \* bound: requests in one behaviour, one per client
    LevelNames,    \* the values of LOG_LEVEL tried
    MaxQueueSize   \* spans the batch processor queues before it drops any

VARIABLES
    pc,            \* next step of the main goroutine
    deferred,      \* run()'s deferred calls, the last one on top
    result,        \* the error run() returns
    exit,          \* how the process ended
    notified,      \* SIGINT and SIGTERM go to the run context
    cancelled,     \* the run context is done
    tracer,        \* the tracer provider
    exporter,      \* history: whether an export has failed
    pool,          \* the connection pool
    serving,       \* the goroutine of ListenAndServe
    serveErr,      \* its channel, of capacity 1
    shuttingDown,  \* httpServer.Shutdown was called
    request,       \* where each request stands
    span           \* where the span of each request stands

mainVars   == <<pc, deferred, result, exit>>
signalVars == <<notified, cancelled>>
traceVars  == <<tracer, exporter, span>>
serveVars  == <<serving, serveErr, shuttingDown>>
vars == <<mainVars, signalVars, traceVars, serveVars, pool, request, logVars>>

ASSUME LevelAssumption == LevelNames \subseteq DOMAIN ParseLevel \cup {Unknown}

ASSUME QueueAssumption == MaxQueueSize \in Nat \ {0}

Running == exit = "running"

At(step) == Running /\ pc = step

Goto(step) == pc' = step /\ UNCHANGED <<deferred, result, exit>>

Defer(call, step) ==
    /\ deferred' = Append(deferred, call)
    /\ pc' = step
    /\ UNCHANGED <<result, exit>>

Return(err) == pc' = "return" /\ result' = err /\ UNCHANGED <<deferred, exit>>

----------------------------------------------------------------------------
(* Starting up *)

\* newLogger, before anything else: an unknown level ends the process.
NewLogger ==
    /\ At("newLogger")
    /\ \E name \in LevelNames :
          \/ /\ name \notin DOMAIN ParseLevel
             /\ Return("error")
             /\ UNCHANGED logVars
          \/ /\ name \in DOMAIN ParseLevel
             /\ Goto("notifyContext")
             /\ arrays' = <<(<<>>)>>
             /\ \E project \in Projects :
                   loggers' = <<NewHandler(ParseLevel[name], FALSE, project)>>
    /\ UNCHANGED <<signalVars, traceVars, serveVars, pool, request>>

NotifyContext ==
    /\ At("notifyContext")
    /\ notified' = TRUE
    /\ Defer("stop", "databaseURL")
    /\ UNCHANGED <<cancelled, traceVars, serveVars, pool, request, logVars>>

RequireDatabaseURL ==
    /\ At("databaseURL")
    /\ Goto("setup") \/ Return("error")
    /\ UNCHANGED <<signalVars, traceVars, serveVars, pool, request, logVars>>

\* telemetry.Setup without an endpoint: a no-op provider and a no-op shutdown.
SetupNoop ==
    /\ At("setup")
    /\ tracer' = "noop"
    /\ Defer("shutdownTracing", "open")
    /\ UNCHANGED <<exporter, span, signalVars, serveVars, pool, request, logVars>>

SetupExporter ==
    /\ At("setup")
    /\ tracer' = "exporting"
    /\ Defer("shutdownTracing", "open")
    /\ UNCHANGED <<exporter, span, signalVars, serveVars, pool, request, logVars>>

\* The resource or the exporter cannot be built: nothing is installed.
SetupFails ==
    /\ At("setup")
    /\ Return("error")
    /\ UNCHANGED <<traceVars, signalVars, serveVars, pool, request, logVars>>

OpenPool ==
    /\ At("open")
    /\ pool' = "open"
    /\ Goto("ping")
    /\ UNCHANGED <<signalVars, traceVars, serveVars, request, logVars>>

OpenFails ==
    /\ At("open")
    /\ Return("error")
    /\ UNCHANGED <<signalVars, traceVars, serveVars, pool, request, logVars>>

\* The ping runs on the run context: a signal that came before fails it.
PingSucceeds ==
    /\ At("ping")
    /\ ~cancelled
    /\ Defer("closeDatabase", "handler")
    /\ UNCHANGED <<signalVars, traceVars, serveVars, pool, request, logVars>>

\* Mutant: Open returns the ping's error without closing what it opened.
PingFailsLeaking ==
    /\ At("ping")
    /\ Return("error")
    /\ UNCHANGED <<signalVars, traceVars, serveVars, pool, request, logVars>>

\* The caller's deferred close is not registered yet, so Open closes the pool.
PingFails ==
    /\ At("ping")
    /\ pool' = "closed"
    /\ Return("error")
    /\ UNCHANGED <<signalVars, traceVars, serveVars, request, logVars>>

\* The repositories and services are wired, and every service mounted.
BuildHandler ==
    /\ At("handler")
    /\ Goto("go") \/ Return("error")
    /\ UNCHANGED <<signalVars, traceVars, serveVars, pool, request, logVars>>

GoServe ==
    /\ At("go")
    /\ serving' = "starting"
    /\ Goto("select")
    /\ UNCHANGED <<serveErr, shuttingDown, signalVars, traceVars, pool, request, logVars>>

----------------------------------------------------------------------------
(* The serving goroutine, and net/http under it *)

Listen ==
    /\ Running
    /\ serving = "starting"
    /\ ~shuttingDown
    /\ serving' = "serving"
    /\ UNCHANGED <<serveErr, shuttingDown, mainVars, signalVars, traceVars, pool, request, logVars>>

\* Mutant: the goroutine goes on to the send of nil after the error.
SendServeErrorTwice ==
    /\ serving' = "failed"
    /\ serveErr' = serveErr \o <<"error", "nil">>

SendServeError ==
    /\ serving' = "failed"
    /\ serveErr' = Append(serveErr, "error")

\* The address is taken, or Accept fails for good.
ServeFails ==
    /\ Running
    /\ serving = "starting" \/ (serving = "serving" /\ ~shuttingDown)
    /\ SendServeError
    /\ UNCHANGED <<shuttingDown, mainVars, signalVars, traceVars, pool, request, logVars>>

\* ErrServerClosed, also where Shutdown came before the goroutine listened.
ServeClosed ==
    /\ Running
    /\ serving \in {"starting", "serving"}
    /\ shuttingDown
    /\ serving' = "closed"
    /\ serveErr' = Append(serveErr, "nil")
    /\ UNCHANGED <<shuttingDown, mainVars, signalVars, traceVars, pool, request, logVars>>

Move(c, state) == request' = [request EXCEPT ![c] = state]

Accept(c) ==
    /\ Running
    /\ serving = "serving"
    /\ ~shuttingDown
    /\ request[c] = "none"
    /\ Move(c, "handling")
    /\ UNCHANGED <<mainVars, signalVars, traceVars, serveVars, pool, logVars>>

\* A closed pool lets the statements that hold a connection finish and starts no
\* other: the handler answers with an internal error.
BeginStatement(c) ==
    /\ Running
    /\ request[c] = "handling"
    /\ Move(c, IF pool = "open" THEN "querying" ELSE "refused")
    /\ UNCHANGED <<mainVars, signalVars, traceVars, serveVars, pool, logVars>>

\* What becomes of a span that ends: a running provider buffers it, or drops it
\* when the queue is full.  A batch taken from the queue is still buffered.
QueueFull == Cardinality({c \in Clients : span[c] = "buffered"}) >= MaxQueueSize

SpanEnds ==
    IF tracer # "exporting" THEN {"none"}
    ELSE IF QueueFull THEN {"buffered", "dropped"} ELSE {"buffered"}

\* The handler answers and its span ends.
AnswerRequest(c) ==
    /\ Running
    /\ request[c] \in {"handling", "querying"}
    /\ Move(c, "answered")
    /\ \E fate \in SpanEnds : span' = [span EXCEPT ![c] = fate]
    /\ UNCHANGED <<tracer, exporter, mainVars, signalVars, serveVars, pool, logVars>>

InFlight == {c \in Clients : request[c] \in {"handling", "querying"}}

----------------------------------------------------------------------------
(* The span exporter *)

Buffered(fate) == [c \in Clients |-> IF span[c] = "buffered" THEN fate ELSE span[c]]

\* The batch processor's timer exports what is buffered, or fails to.
ExportBatch ==
    /\ Running
    /\ tracer = "exporting"
    /\ \E c \in Clients : span[c] = "buffered"
    /\ \/ span' = Buffered("exported") /\ UNCHANGED exporter
       \/ span' = Buffered("lost") /\ exporter' = "failed"
    /\ UNCHANGED <<tracer, mainVars, signalVars, serveVars, pool, request, logVars>>

\* Mutant: the flush runs on the run context.
FlushContextOfRun == cancelled

\* Whether the context of the flush is done before it starts: it is a fresh one.
FlushContextDone == FALSE

----------------------------------------------------------------------------
(* Stopping *)

\* select takes either case when both are ready.
ServeReturned ==
    /\ At("select")
    /\ serveErr # <<>>
    /\ serveErr' = Tail(serveErr)
    /\ Return(Head(serveErr))
    /\ UNCHANGED <<serving, shuttingDown, signalVars, traceVars, pool, request, logVars>>

BeginShutdown ==
    /\ At("select")
    /\ cancelled
    /\ shuttingDown' = TRUE
    /\ Defer("cancel", "shutdown")
    /\ UNCHANGED <<serving, serveErr, signalVars, traceVars, pool, request, logVars>>

\* Nothing is in flight any more: what Shutdown returns is the error of closing
\* the listeners, if there was one.
Drained ==
    /\ At("shutdown")
    /\ InFlight = {}
    /\ Return("nil") \/ Return("error")
    /\ UNCHANGED <<signalVars, traceVars, serveVars, pool, request, logVars>>

\* Mutant: the error of Shutdown is logged and not returned.
DrainTimesOutSilently ==
    /\ At("shutdown")
    /\ InFlight # {}
    /\ Return("nil")
    /\ UNCHANGED <<signalVars, traceVars, serveVars, pool, request, logVars>>

\* Mutant: Shutdown on a context without a deadline.
DrainWithoutTimeout == FALSE

\* shutdownTimeout is over while requests are still being handled.
DrainTimesOut ==
    /\ At("shutdown")
    /\ InFlight # {}
    /\ Return("error")
    /\ UNCHANGED <<signalVars, traceVars, serveVars, pool, request, logVars>>

\* run() returns: the deferred call on top of the stack runs.
Unwind(call) ==
    /\ At("return")
    /\ deferred # <<>>
    /\ Last(deferred) = call
    /\ deferred' = Front(deferred)
    /\ UNCHANGED <<pc, result, exit>>

CancelTimeout ==
    /\ Unwind("cancel")
    /\ UNCHANGED <<signalVars, traceVars, serveVars, pool, request, logVars>>

CloseDatabase ==
    /\ Unwind("closeDatabase")
    /\ pool' = "closed"
    /\ UNCHANGED <<signalVars, traceVars, serveVars, request, logVars>>

\* The provider is stopped for good and what it buffered is flushed, unless the
\* collector does not answer in time or the context is done already.
ShutdownTracing ==
    /\ Unwind("shutdownTracing")
    /\ tracer' = IF tracer = "noop" THEN "noop" ELSE "stopped"
    /\ \/ ~FlushContextDone /\ span' = Buffered("exported") /\ UNCHANGED exporter
       \/ FlushContextDone /\ span' = Buffered("lost") /\ UNCHANGED exporter
       \/ /\ \E c \in Clients : span[c] = "buffered"
          /\ span' = Buffered("lost")
          /\ exporter' = "failed"
    /\ UNCHANGED <<signalVars, serveVars, pool, request, logVars>>

\* stop() cancels the run context as well.
StopNotify ==
    /\ Unwind("stop")
    /\ notified' = FALSE
    /\ cancelled' = TRUE
    /\ UNCHANGED <<traceVars, serveVars, pool, request, logVars>>

\* main: the requests still in flight go with the process.
Exit ==
    /\ At("return")
    /\ deferred = <<>>
    /\ exit' = IF result = "nil" THEN "success" ELSE "failure"
    /\ UNCHANGED <<pc, deferred, result, signalVars, traceVars, serveVars, pool, request, logVars>>

\* SIGINT or SIGTERM; a second one changes nothing while the context is notified.
Signal ==
    /\ Running
    /\ ~cancelled
    /\ notified
    /\ cancelled' = TRUE
    /\ UNCHANGED <<notified, mainVars, traceVars, serveVars, pool, request, logVars>>

\* Outside NotifyContext and stop, a signal ends the process at once.
SignalKills ==
    /\ Running
    /\ ~notified
    /\ exit' = "killed"
    /\ UNCHANGED <<pc, deferred, result, signalVars, traceVars, serveVars, pool, request, logVars>>

----------------------------------------------------------------------------

Init ==
    /\ pc = "newLogger" /\ deferred = <<>> /\ result = "nil" /\ exit = "running"
    /\ notified = FALSE /\ cancelled = FALSE
    /\ tracer = "none" /\ exporter = "healthy"
    /\ pool = "none"
    /\ serving = "none" /\ serveErr = <<>> /\ shuttingDown = FALSE
    /\ request = [c \in Clients |-> "none"]
    /\ span = [c \in Clients |-> "none"]
    /\ loggers = <<>> /\ arrays = <<>>

Startup ==
    \/ NewLogger \/ NotifyContext \/ RequireDatabaseURL
    \/ SetupNoop \/ SetupExporter \/ SetupFails
    \/ OpenPool \/ OpenFails \/ PingSucceeds \/ PingFails
    \/ BuildHandler \/ GoServe

Stop ==
    \/ ServeReturned \/ BeginShutdown \/ Drained \/ DrainTimesOut
    \/ CancelTimeout \/ CloseDatabase \/ ShutdownTracing \/ StopNotify \/ Exit

Serve ==
    \/ Listen \/ ServeFails \/ ServeClosed
    \/ \E c \in Clients : Accept(c) \/ BeginStatement(c) \/ AnswerRequest(c)

ProcessNext == Startup \/ Stop \/ Serve \/ ExportBatch \/ Signal \/ SignalKills

\* A logger is derived from another one in any goroutine.
LoggersNext ==
    /\ Running
    /\ DeriveLogger
    /\ UNCHANGED <<mainVars, signalVars, traceVars, serveVars, pool, request>>

Next == ProcessNext \/ LoggersNext

\* The main goroutine runs on, its timeouts pass and its own I/O returns.  A ping
\* of a database that does not answer need not return before a signal cancels
\* it, and no request need ever be answered.
MainRunsOn ==
    \/ Startup /\ (pc # "ping" \/ cancelled)
    \/ Stop

Spec == Init /\ [][Next]_vars /\ WF_vars(MainRunsOn)

----------------------------------------------------------------------------
(* Properties *)

TypeOK ==
    /\ pc \in {"newLogger", "notifyContext", "databaseURL", "setup", "open", "ping",
               "handler", "go", "select", "shutdown", "return"}
    /\ deferred \in Seq({"stop", "shutdownTracing", "closeDatabase", "cancel"})
    /\ result \in {"nil", "error"}
    /\ exit \in {"running", "success", "failure", "killed"}
    /\ notified \in BOOLEAN /\ cancelled \in BOOLEAN /\ shuttingDown \in BOOLEAN
    /\ tracer \in {"none", "noop", "exporting", "stopped"}
    /\ exporter \in {"healthy", "failed"}
    /\ pool \in {"none", "open", "closed"}
    /\ serving \in {"none", "starting", "serving", "failed", "closed"}
    /\ serveErr \in {<<>>, <<"nil">>, <<"error">>}
    /\ request \in [Clients -> {"none", "handling", "querying", "refused", "answered"}]
    /\ span \in [Clients -> {"none", "buffered", "dropped", "exported", "lost"}]
    /\ \A i \in DOMAIN loggers :
          /\ loggers[i].ops.array \in DOMAIN arrays
          /\ loggers[i].ops.len \in 0..Len(arrays[loggers[i].ops.array])

\* A process that exits with success has shut its server down, and every request
\* that reached a handler was answered with the pool still open: one that gave up
\* waiting says so in its exit code.
CleanExitLosesNoRequest ==
    exit = "success" =>
        /\ shuttingDown
        /\ \A c \in Clients : request[c] \in {"none", "answered"}

\* However far start-up came, and whichever way run() returns, it leaves no open
\* pool and no running tracer provider behind.
ResourcesReleased ==
    exit \in {"success", "failure"} => pool # "open" /\ tracer # "exporting"

\* With a collector that answers, the span of every request answered before a
\* clean exit has been exported, the ones still buffered at the signal too, and
\* all but those that a full queue had dropped at once.
SpansExported ==
    exit = "success" /\ exporter = "healthy" =>
        \A c \in Clients : span[c] \notin {"buffered", "lost"}

\* A signal caught at any point, also during start-up, or a server that cannot
\* serve ends the process, even if the database or a request hangs forever.
EndsOnceStopped == cancelled \/ serving = "failed" ~> ~Running
=============================================================================
