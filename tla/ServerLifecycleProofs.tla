------------------------ MODULE ServerLifecycleProofs ------------------------
(* The theorems of ServerLifecycle, for any number of clients, any loggers and
   any values of the environment.

   run() releases what it took through its deferred calls, so the argument is
   about the stack: up to the return the stack is a function of the step run()
   is at (StackAt), and what is still to be released is named on it.

   A logger's argument follows its calls: a derived handler is its parent's with
   one call more replayed, so its entries hold what its calls asked for, with or
   without a trace (LoggersOK).                                               *)
EXTENDS ServerLifecycle, SequenceTheorems, WellFoundedInduction, TLAPS

S0 == <<>>
S1 == <<"stop">>
S2 == <<"stop", "shutdownTracing">>
S3 == <<"stop", "shutdownTracing", "closeDatabase">>
S4 == <<"stop", "shutdownTracing", "closeDatabase", "cancel">>

Calls == {"stop", "shutdownTracing", "closeDatabase", "cancel"}

\* The steps of run().
Steps == {"newLogger", "notifyContext", "databaseURL", "setup", "open", "ping",
          "handler", "go", "select", "shutdown", "return"}

\* The types of the process's own variables.
ProcessTypes ==
    /\ pc \in Steps
    /\ deferred \in {S0, S1, S2, S3, S4}
    /\ result \in {"nil", "error"}
    /\ exit \in {"running", "success", "failure", "killed"}
    /\ tracer \in {"none", "noop", "exporting", "stopped"}
    /\ exporter \in {"healthy", "failed"}
    /\ pool \in {"none", "open", "closed"}
    /\ serving \in {"none", "starting", "serving", "failed", "closed"}
    /\ serveErr \in {<<>>, <<"nil">>, <<"error">>}
    /\ request \in [Clients -> {"none", "handling", "querying", "refused", "answered"}]
    /\ span \in [Clients -> {"none", "buffered", "dropped", "exported", "lost"}]

\* The flags, kept apart: a leaf is about them or about the rest.
FlagTypes == notified \in BOOLEAN /\ cancelled \in BOOLEAN /\ shuttingDown \in BOOLEAN

\* The slices of recorded calls point into the heap, whatever it holds.
LogTypes ==
    /\ \E S : arrays \in Seq(Seq(S))
    /\ \E T : loggers \in Seq(T)
    /\ \A i \in DOMAIN loggers :
          /\ loggers[i].ops.array \in DOMAIN arrays
          /\ loggers[i].ops.len \in 0..Len(arrays[loggers[i].ops.array])

-----------------------------------------------------------------------------
(* The stack *)

LEMMA StackTypes ==
    /\ {S0, S1, S2, S3, S4} \subseteq Seq(Calls)
    /\ Len(S0) = 0 /\ Len(S1) = 1 /\ Len(S2) = 2 /\ Len(S3) = 3 /\ Len(S4) = 4
  BY DEF S0, S1, S2, S3, S4, Calls

LEMMA StackPushes ==
    /\ Append(S0, "stop") = S1
    /\ Append(S1, "shutdownTracing") = S2
    /\ Append(S2, "closeDatabase") = S3
    /\ Append(S3, "cancel") = S4
<1>1. Append(S0, "stop") = S1
  BY DEF S0, S1
<1>2. Append(S1, "shutdownTracing") = S2
  <2>1. /\ Append(S1, "shutdownTracing") \in Seq(Calls)
        /\ Len(Append(S1, "shutdownTracing")) = 2
        /\ \A i \in 1..2 : Append(S1, "shutdownTracing")[i] = S2[i]
    BY StackTypes DEF S1, S2, Calls
  <2> QED
    BY <2>1, StackTypes, SeqEqual
<1>3. Append(S2, "closeDatabase") = S3
  <2>1. /\ Append(S2, "closeDatabase") \in Seq(Calls)
        /\ Len(Append(S2, "closeDatabase")) = 3
        /\ \A i \in 1..3 : Append(S2, "closeDatabase")[i] = S3[i]
    BY StackTypes DEF S2, S3, Calls
  <2> QED
    BY <2>1, StackTypes, SeqEqual
<1>4. Append(S3, "cancel") = S4
  <2>1. /\ Append(S3, "cancel") \in Seq(Calls)
        /\ Len(Append(S3, "cancel")) = 4
        /\ \A i \in 1..4 : Append(S3, "cancel")[i] = S4[i]
    BY StackTypes DEF S3, S4, Calls
  <2> QED
    BY <2>1, StackTypes, SeqEqual
<1> QED  BY <1>1, <1>2, <1>3, <1>4

\* What was pushed last is popped first.
LEMMA PopsWhatWasPushed ==
    ASSUME NEW S, NEW s \in Seq(S), NEW e \in S
    PROVE  Last(Append(s, e)) = e /\ Front(Append(s, e)) = s
<1> DEFINE t == Append(s, e)
<1>1. t \in Seq(S) /\ Len(t) = Len(s) + 1 /\ t[Len(s) + 1] = e
  BY AppendProperties
<1>2. \A i \in 1..Len(s) : t[i] = s[i] /\ t[i] \in S
  BY AppendProperties, ElementOfSeq
<1>3. Len(s) \in Nat
  BY LenProperties
<1> HIDE DEF t
<1>4. /\ SubSeq(t, 1, Len(s)) \in Seq(S)
      /\ Len(SubSeq(t, 1, Len(s))) = Len(s)
      /\ \A i \in 1..Len(s) : SubSeq(t, 1, Len(s))[i] = s[i]
  BY <1>1, <1>2, <1>3, SubSeqProperties
<1>5. SubSeq(t, 1, Len(s)) = s
  BY <1>4, SeqEqual
<1>6. Last(t) = e /\ Front(t) = s
  BY <1>1, <1>3, <1>5 DEF Last, Front
<1> QED  BY <1>6 DEF t

LEMMA StackTops ==
    /\ Last(S1) = "stop" /\ Front(S1) = S0
    /\ Last(S2) = "shutdownTracing" /\ Front(S2) = S1
    /\ Last(S3) = "closeDatabase" /\ Front(S3) = S2
    /\ Last(S4) = "cancel" /\ Front(S4) = S3
<1>0. ASSUME NEW s \in Seq(Calls), NEW e \in Calls, NEW t, Append(s, e) = t
      PROVE  Last(t) = e /\ Front(t) = s
  <2>1. Last(Append(s, e)) = e /\ Front(Append(s, e)) = s
    BY PopsWhatWasPushed
  <2> QED  BY <2>1, <1>0, Zenon
<1>1. Last(S1) = "stop" /\ Front(S1) = S0
  BY <1>0, StackPushes, StackTypes DEF Calls
<1>2. Last(S2) = "shutdownTracing" /\ Front(S2) = S1
  BY <1>0, StackPushes, StackTypes DEF Calls
<1>3. Last(S3) = "closeDatabase" /\ Front(S3) = S2
  BY <1>0, StackPushes, StackTypes DEF Calls
<1>4. Last(S4) = "cancel" /\ Front(S4) = S3
  BY <1>0, StackPushes, StackTypes DEF Calls
<1> QED  BY <1>1, <1>2, <1>3, <1>4

LEMMA StacksDiffer ==
    /\ S0 # S1 /\ S0 # S2 /\ S0 # S3 /\ S0 # S4
    /\ S1 # S2 /\ S1 # S3 /\ S1 # S4
    /\ S2 # S3 /\ S2 # S4 /\ S3 # S4
  BY DEF S0, S1, S2, S3, S4

\* run() has popped one call, and nothing else of its own changed.
Popped(before, after) ==
    /\ Running /\ pc = "return" /\ deferred = before
    /\ deferred' = after
    /\ UNCHANGED <<pc, result, exit>>

LEMMA Pops ==
    ASSUME ProcessTypes
    PROVE  /\ Unwind("cancel") => Popped(S4, S3)
           /\ Unwind("closeDatabase") => Popped(S3, S2)
           /\ Unwind("shutdownTracing") => Popped(S2, S1)
           /\ Unwind("stop") => Popped(S1, S0)
  BY StackTops DEF ProcessTypes, Unwind, At, Popped, S0

-----------------------------------------------------------------------------
(* The inductive invariant of the process *)

\* Up to the return the pending calls are those of the step run() is at; a
\* process that has ended by itself has run them all.
StackOK ==
    /\ pc \in {"newLogger", "notifyContext"} => deferred = S0
    /\ pc \in {"databaseURL", "setup"} => deferred = S1
    /\ pc \in {"open", "ping"} => deferred = S2
    /\ pc \in {"handler", "go", "select"} => deferred = S3
    /\ pc = "shutdown" => deferred = S4
    /\ exit \in {"success", "failure"} => pc = "return" /\ deferred = S0
    /\ exit = "success" => result = "nil"

\* What is held is on the stack, or, between open and its ping, in Open's hands.
HeldOK ==
    /\ pc \in {"ping", "handler", "go", "select", "shutdown"} => pool = "open"
    /\ pool = "open" => pc = "ping" \/ deferred \in {S3, S4}
    /\ tracer = "exporting" => deferred \in {S2, S3, S4}

\* Only a running provider buffers, and only a failed export loses a span.
SpanOK ==
    \A c \in Clients :
        /\ span[c] = "buffered" => tracer = "exporting"
        /\ span[c] = "lost" => exporter = "failed"

\* Nothing is served before the goroutine is there, its channel is empty until
\* it ends, and no statement is refused while run() can still return nil.
ServeOK ==
    /\ serving # "none" => pc \in {"select", "shutdown", "return"}
    /\ serveErr # <<>> => serving \in {"failed", "closed"}
    /\ \A c \in Clients :
          /\ request[c] # "none" => serving # "none"
          /\ request[c] = "refused" => pc = "return" /\ result = "error"

\* run() returns nil only by way of a shutdown that was asked for, and nothing
\* is being handled from then on.
DrainOK ==
    /\ serveErr = <<"nil">> => shuttingDown
    /\ shuttingDown => cancelled /\ pc \in {"shutdown", "return"}
    /\ pc = "shutdown" => shuttingDown
    /\ pc = "return" /\ result = "nil" =>
          /\ shuttingDown
          /\ \A c \in Clients : request[c] \notin {"handling", "querying"}

ProcessInv ==
    ProcessTypes /\ FlagTypes /\ StackOK /\ HeldOK /\ SpanOK /\ ServeOK /\ DrainOK

\* The channel of the serving goroutine, empty or with its one result.
LEMMA ChannelFacts ==
    /\ Append(<<>>, "error") = <<"error">> /\ Append(<<>>, "nil") = <<"nil">>
    /\ <<"error">> # <<"nil">> /\ <<"error">> # <<>> /\ <<"nil">> # <<>>
    /\ Head(<<"error">>) = "error" /\ Head(<<"nil">>) = "nil"
    /\ Tail(<<"error">>) = <<>> /\ Tail(<<"nil">>) = <<>>
  OBVIOUS

LEMMA ProcessInit == Init => ProcessInv
<1> SUFFICES ASSUME Init PROVE ProcessInv
  OBVIOUS
<1>1. deferred = S0
  BY DEF Init, S0
<1>2. ProcessTypes /\ FlagTypes
  BY <1>1 DEF Init, ProcessTypes, FlagTypes, Steps
<1>3. StackOK /\ HeldOK /\ SpanOK /\ ServeOK
  BY <1>1 DEF Init, StackOK, HeldOK, SpanOK, ServeOK
<1>4. DrainOK
  BY DEF Init, DrainOK
<1> QED  BY <1>2, <1>3, <1>4 DEF ProcessInv

LEMMA ProcessStep == ProcessInv /\ [Next]_vars => ProcessInv'
<1> SUFFICES ASSUME ProcessInv, [Next]_vars PROVE ProcessInv'
  OBVIOUS
<1> USE DEF ProcessInv, ProcessTypes, Steps, FlagTypes, StackOK, HeldOK, SpanOK,
            ServeOK, DrainOK, vars, mainVars, signalVars, traceVars, serveVars
<1>1. CASE NewLogger
  BY <1>1, StacksDiffer DEF NewLogger, At, Running, Return, Goto
<1>2. CASE NotifyContext
  BY <1>2, StackPushes, StacksDiffer DEF NotifyContext, At, Running, Defer
<1>3. CASE RequireDatabaseURL
  BY <1>3, StacksDiffer DEF RequireDatabaseURL, At, Running, Return, Goto
<1>4. CASE SetupNoop
  BY <1>4, StackPushes, StacksDiffer DEF SetupNoop, At, Running, Defer
<1>5. CASE SetupExporter
  BY <1>5, StackPushes, StacksDiffer DEF SetupExporter, At, Running, Defer
<1>6. CASE SetupFails
  BY <1>6, StacksDiffer DEF SetupFails, At, Running, Return
<1>7. CASE OpenPool
  BY <1>7, StacksDiffer DEF OpenPool, At, Running, Goto
<1>8. CASE OpenFails
  BY <1>8, StacksDiffer DEF OpenFails, At, Running, Return
<1>9. CASE PingSucceeds
  BY <1>9, StackPushes, StacksDiffer DEF PingSucceeds, At, Running, Defer
<1>10. CASE PingFails
  BY <1>10, StacksDiffer DEF PingFails, At, Running, Return
<1>11. CASE BuildHandler
  BY <1>11, StacksDiffer DEF BuildHandler, At, Running, Return, Goto
<1>12. CASE GoServe
  BY <1>12, StacksDiffer DEF GoServe, At, Running, Goto
<1>13. CASE Listen
  BY <1>13, StacksDiffer DEF Listen, Running
<1>14. CASE ServeFails
  <2>1. serveErr = <<>> /\ serveErr' = <<"error">>
    BY <1>14, ChannelFacts DEF ServeFails, SendServeError
  <2> QED
    BY <1>14, <2>1, ChannelFacts DEF ServeFails, Running, SendServeError
<1>15. CASE ServeClosed
  <2>1. serveErr = <<>> /\ serveErr' = <<"nil">>
    BY <1>15, ChannelFacts DEF ServeClosed
  <2> QED
    BY <1>15, <2>1, ChannelFacts DEF ServeClosed, Running
<1>16. CASE ServeReturned
  <2>1. serveErr = <<"error">> /\ serveErr' = <<>> /\ result' = "error"
    BY <1>16, ChannelFacts DEF ServeReturned, At, Return
  <2> QED
    BY <1>16, <2>1, ChannelFacts DEF ServeReturned, At, Running, Return
<1>17. CASE BeginShutdown
  BY <1>17, StackPushes, StacksDiffer DEF BeginShutdown, At, Running, Defer
<1>18. CASE Drained
  <2>1. \A c \in Clients : request[c] \notin {"handling", "querying"}
    BY <1>18 DEF Drained, InFlight
  <2>2. shuttingDown /\ cancelled
    BY <1>18 DEF Drained, At
  <2> QED
    BY <1>18, <2>1, <2>2, StacksDiffer DEF Drained, At, Running, Return
<1>19. CASE DrainTimesOut
  BY <1>19, StacksDiffer DEF DrainTimesOut, At, Running, Return
<1>20. CASE CancelTimeout
  <2>1. Popped(S4, S3)
    BY <1>20, Pops DEF CancelTimeout
  <2> QED
    BY <1>20, <2>1, StacksDiffer DEF CancelTimeout, Popped
<1>21. CASE CloseDatabase
  <2>1. Popped(S3, S2)
    BY <1>21, Pops DEF CloseDatabase
  <2> QED
    BY <1>21, <2>1, StacksDiffer DEF CloseDatabase, Popped
<1>22. CASE ShutdownTracing
  <2>1. Popped(S2, S1)
    BY <1>22, Pops DEF ShutdownTracing
  <2> QED
    BY <1>22, <2>1, StacksDiffer DEF ShutdownTracing, Popped, Buffered, FlushContextDone
<1>23. CASE StopNotify
  <2>1. Popped(S1, S0)
    BY <1>23, Pops DEF StopNotify
  <2>2. FlagTypes'
    BY <1>23, Zenon DEF StopNotify
  <2>3. pool # "open" /\ tracer # "exporting"
    BY <2>1, StacksDiffer DEF Popped
  <2> QED
    BY <1>23, <2>1, <2>2, <2>3 DEF StopNotify, Popped
<1>24. CASE Exit
  <2>1. deferred = S0
    BY <1>24 DEF Exit, S0
  <2> QED
    BY <1>24, <2>1, StacksDiffer DEF Exit, At, Running
<1>25. CASE ExportBatch
  BY <1>25, StacksDiffer DEF ExportBatch, Running, Buffered
<1>26. CASE Signal
  BY <1>26, StacksDiffer DEF Signal, Running
<1>27. CASE SignalKills
  BY <1>27, StacksDiffer DEF SignalKills, Running
<1>28. ASSUME NEW c \in Clients, Accept(c) PROVE ProcessInv'
  BY <1>28, StacksDiffer DEF Accept, Running, Move
<1>29. ASSUME NEW c \in Clients, BeginStatement(c) PROVE ProcessInv'
  BY <1>29, StacksDiffer DEF BeginStatement, Running, Move
<1>30. ASSUME NEW c \in Clients, AnswerRequest(c) PROVE ProcessInv'
  <2>1. PICK fate \in SpanEnds : span' = [span EXCEPT ![c] = fate]
    BY <1>30 DEF AnswerRequest
  <2>2. /\ fate \in {"none", "buffered", "dropped"}
        /\ fate # "none" => tracer = "exporting"
    BY <2>1 DEF SpanEnds
  <2> QED
    BY <1>30, <2>1, <2>2, StacksDiffer DEF AnswerRequest, Running, Move
<1>31. CASE LoggersNext
  BY <1>31 DEF LoggersNext
<1>32. CASE UNCHANGED vars
  BY <1>32
<1> QED
  BY <1>1, <1>2, <1>3, <1>4, <1>5, <1>6, <1>7, <1>8, <1>9, <1>10, <1>11, <1>12, <1>13, <1>14, <1>15, <1>16, <1>17, <1>18, <1>19, <1>20, <1>21, <1>22, <1>23, <1>24, <1>25, <1>26, <1>27, <1>28, <1>29, <1>30, <1>31, <1>32
     DEF Next, ProcessNext, Startup, Stop, Serve

-----------------------------------------------------------------------------
(* The heap of recorded calls *)

\* Deriving a logger puts its slice in an array of its own, behind the others.
LEMMA DeriveKeepsSlices ==
    ASSUME LogTypes, NEW i \in DOMAIN loggers, NEW op, NEW call,
           Derive(loggers[i], op, call)
    PROVE  LogTypes'
<1> DEFINE h == loggers[i]
           old == Elements(arrays, h.ops)
           fresh == Append(old, op)
           slice == [array |-> Len(arrays) + 1, len |-> h.ops.len + 1]
           logger == newTraceHandler(Append(arrays, fresh), h.base, slice, h.project,
                                     Append(h.calls, call))
<1>1. PICK S : arrays \in Seq(Seq(S))
  BY DEF LogTypes
<1>2. PICK T : loggers \in Seq(T)
  BY DEF LogTypes
<1>3. arrays' = Append(arrays, fresh) /\ loggers' = Append(loggers, logger)
  BY DEF Derive, appendOp
<1>4. logger.ops = slice
  BY DEF newTraceHandler
<1> HIDE DEF logger
<1>5. /\ DOMAIN arrays = 1..Len(arrays) /\ Len(arrays) \in Nat
      /\ DOMAIN loggers = 1..Len(loggers) /\ Len(loggers) \in Nat
  BY <1>1, <1>2
<1>6. old \in Seq(S) /\ Len(old) = h.ops.len /\ h.ops.len \in Nat
  <2>1. h.ops.array \in DOMAIN arrays /\ h.ops.len \in 0..Len(arrays[h.ops.array])
    BY DEF LogTypes
  <2>2. arrays[h.ops.array] \in Seq(S)
    BY <1>1, <1>5, <2>1
  <2>3. h.ops.len \in Nat /\ \A k \in 1..h.ops.len : arrays[h.ops.array][k] \in S
    BY <2>1, <2>2
  <2> QED
    BY <2>3, SubSeqProperties DEF Elements
<1> HIDE DEF old
<1>7. fresh \in Seq(S \cup {op}) /\ Len(fresh) = h.ops.len + 1
  BY <1>6, SeqMonotonic, AppendProperties
<1> HIDE DEF fresh
<1>8. arrays' \in Seq(Seq(S \cup {op}))
  <2>1. \A s \in Seq(S) : s \in Seq(S \cup {op})
    BY SeqMonotonic
  <2>2. arrays \in Seq(Seq(S \cup {op}))
    BY <1>1, <2>1, SeqMonotonic
  <2> QED
    BY <1>3, <1>7, <2>2, AppendProperties
<1>9. loggers' \in Seq(T \cup {logger})
  BY <1>2, <1>3, SeqMonotonic, AppendProperties
<1>10. /\ DOMAIN arrays' = 1..(Len(arrays) + 1)
       /\ \A k \in 1..Len(arrays) : arrays'[k] = arrays[k]
       /\ arrays'[Len(arrays) + 1] = fresh
  BY <1>1, <1>3, <1>5
<1>11. /\ DOMAIN loggers' = 1..(Len(loggers) + 1)
       /\ \A k \in 1..Len(loggers) : loggers'[k] = loggers[k]
       /\ loggers'[Len(loggers) + 1] = logger
  BY <1>2, <1>3, <1>5
<1>12. ASSUME NEW k \in DOMAIN loggers'
       PROVE  /\ loggers'[k].ops.array \in DOMAIN arrays'
              /\ loggers'[k].ops.len \in 0..Len(arrays'[loggers'[k].ops.array])
  <2>1. CASE k \in 1..Len(loggers)
    BY <2>1, <1>5, <1>10, <1>11 DEF LogTypes
  <2>2. CASE k = Len(loggers) + 1
    BY <2>2, <1>4, <1>5, <1>6, <1>7, <1>10, <1>11
  <2> QED
    BY <2>1, <2>2, <1>5, <1>11
<1> QED
  BY <1>8, <1>9, <1>12 DEF LogTypes

\* The first logger starts with an empty slice of an empty array.
LEMMA NewLoggerSlices ==
    ASSUME NEW level, NEW addSource, NEW project,
           arrays' = <<(<<>>)>>, loggers' = <<NewHandler(level, addSource, project)>>
    PROVE  LogTypes'
<1> DEFINE h == NewHandler(level, addSource, project)
<1>1. h.ops = [array |-> 1, len |-> 0]
  BY DEF NewHandler, newTraceHandler
<1>2. loggers' = <<h>>
  OBVIOUS
<1> HIDE DEF h
<1>3. loggers' \in Seq({h}) /\ DOMAIN loggers' = {1} /\ loggers'[1] = h
  BY <1>2
<1>4. arrays' \in Seq(Seq({})) /\ DOMAIN arrays' = {1} /\ Len(arrays'[1]) = 0
  BY EmptySeq
<1>5. ASSUME NEW i \in DOMAIN loggers'
      PROVE  /\ loggers'[i].ops.array \in DOMAIN arrays'
             /\ loggers'[i].ops.len \in 0..Len(arrays'[loggers'[i].ops.array])
  <2>1. loggers'[i].ops.array = 1 /\ loggers'[i].ops.len = 0
    BY <1>1, <1>3
  <2>2. Len(arrays'[1]) = 0 /\ 1 \in DOMAIN arrays'
    BY <1>4
  <2>3. 0 \in 0..Len(arrays'[1])
    BY <2>2
  <2> QED
    BY <2>1, <2>2, <2>3, Zenon
<1>6. (\E S : arrays' \in Seq(Seq(S))) /\ \E T : loggers' \in Seq(T)
  BY <1>3, <1>4, Zenon
<1> QED
  BY <1>5, <1>6, Zenon DEF LogTypes

\* Only the start of the process and a derivation touch the loggers.
LEMMA LogOnlyBy == [Next]_vars => NewLogger \/ LoggersNext \/ UNCHANGED logVars
BY DEF Next, ProcessNext, Startup, Stop, Serve, vars,
       NotifyContext, RequireDatabaseURL, SetupNoop, SetupExporter, SetupFails,
       OpenPool, OpenFails, PingSucceeds, PingFails, BuildHandler, GoServe,
       ServeReturned, BeginShutdown, Drained, DrainTimesOut, CancelTimeout,
       CloseDatabase, ShutdownTracing, StopNotify, Exit, Listen, ServeFails,
       ServeClosed, Accept, BeginStatement, AnswerRequest, ExportBatch, Signal,
       SignalKills

LEMMA LogStep == LogTypes /\ [Next]_vars => LogTypes'
<1> SUFFICES ASSUME LogTypes, [Next]_vars PROVE LogTypes'
  OBVIOUS
<1>1. CASE NewLogger
  <2>1. CASE UNCHANGED logVars
    BY <2>1 DEF logVars, LogTypes
  <2>2. CASE ~UNCHANGED logVars
    BY <1>1, <2>2, NewLoggerSlices DEF NewLogger
  <2> QED  BY <2>1, <2>2
<1>2. CASE LoggersNext
  <2>1. PICK i \in DOMAIN loggers :
          \/ \E attrs \in AttrLists : WithAttrs(loggers[i], attrs)
          \/ \E name \in Groups : WithGroup(loggers[i], name)
    BY <1>2 DEF LoggersNext, DeriveLogger
  <2>2. \E op, call : Derive(loggers[i], op, call)
    BY <2>1 DEF WithAttrs, WithGroup
  <2> QED
    BY <2>2, DeriveKeepsSlices
<1>3. CASE UNCHANGED logVars
  BY <1>3 DEF logVars, LogTypes
<1> QED  BY <1>1, <1>2, <1>3, LogOnlyBy

-----------------------------------------------------------------------------
(* Recursive functions over a sequence: each is the table of its values for
   the prefixes, which exists, and one more element adds one more value *)

\* Induction up to n over the positions a set holds.
LEMMA UpTo ==
    ASSUME NEW n \in Nat, NEW P, 0 \in P, \A k \in 0..n : k \in P /\ k < n => k + 1 \in P
    PROVE  \A k \in 0..n : k \in P
<1> SUFFICES ASSUME \E k \in 0..n : k \notin P PROVE FALSE
  OBVIOUS
<1> DEFINE Bad == {k \in 0..n : k \notin P}
<1>1. Bad # {} /\ Bad \subseteq Nat
  OBVIOUS
<1> HIDE DEF Bad
<1>2. PICK x \in Bad : \A y \in Bad : ~(<<y, x>> \in OpToRel(<, Nat))
  BY <1>1, NatLessThanWellFounded, WFMin
<1>3. ASSUME NEW y \in Bad PROVE ~(y < x)
  <2>1. x \in Nat /\ y \in Nat
    BY <1>1
  <2>2. OpToRel(<, Nat) = {ss \in Nat \X Nat : ss[1] < ss[2]}
    BY DEF OpToRel
  <2>3. y < x => <<y, x>> \in {ss \in Nat \X Nat : ss[1] < ss[2]}
    BY <2>1
  <2> QED  BY <1>2, <2>2, <2>3, Zenon
<1>4. x \in 0..n /\ x \notin P /\ x # 0
  BY DEF Bad
<1>5. x - 1 \in 0..n /\ x - 1 < n /\ x - 1 < x /\ x - 1 + 1 = x
  BY <1>4
<1>6. x - 1 \notin P
  BY <1>4, <1>5
<1>7. x - 1 \in Bad
  BY <1>5, <1>6 DEF Bad
<1> QED  BY <1>3, <1>5, <1>7

\* What the calls up to each one make of the handler they are replayed over.
ReplayStep(handler, ops, f) ==
    [n \in 0..Len(ops) |-> IF n = 0 THEN handler ELSE apply(ops[n], f[n - 1])]

ReplayTable(handler, ops) == CHOOSE f : f = ReplayStep(handler, ops, f)

LEMMA ReplayTableExists ==
    ASSUME NEW handler, NEW ops, Len(ops) \in Nat
    PROVE  ReplayTable(handler, ops) = ReplayStep(handler, ops, ReplayTable(handler, ops))
<1> DEFINE Good(m, f) == f = [n \in 0..m |-> IF n = 0 THEN handler ELSE apply(ops[n], f[n - 1])]
           P == {m \in 0..Len(ops) : \E f : Good(m, f)}
<1>1. 0 \in P
  <2>1. Good(0, [n \in 0..0 |-> handler])
    OBVIOUS
  <2> HIDE DEF Good
  <2>2. \E f : Good(0, f)
    BY <2>1, Zenon
  <2> QED  BY <2>2
<1>2. ASSUME NEW m \in 0..Len(ops), m \in P, m < Len(ops) PROVE m + 1 \in P
  <2>1. PICK f : Good(m, f)
    BY <1>2
  <2> DEFINE g == [n \in 0..(m + 1) |-> IF n <= m THEN f[n] ELSE IF n = 0 THEN handler ELSE apply(ops[n], f[n - 1])]
  <2>2. ASSUME NEW n \in 0..(m + 1) PROVE g[n] = IF n = 0 THEN handler ELSE apply(ops[n], g[n - 1])
    <3>1. f = [k \in 0..m |-> IF k = 0 THEN handler ELSE apply(ops[k], f[k - 1])]
      BY <2>1
    <3>2. g[n] = IF n = 0 THEN handler ELSE apply(ops[n], f[n - 1])
      BY <3>1
    <3>3. n # 0 => g[n - 1] = f[n - 1]
      OBVIOUS
    <3> QED  BY <3>2, <3>3
  <2>3. g = [n \in 0..(m + 1) |-> g[n]]
    OBVIOUS
  <2> HIDE DEF g
  <2>4. Good(m + 1, g)
    BY <2>2, <2>3
  <2> HIDE DEF Good
  <2>5. \E f1 : Good(m + 1, f1)
    BY <2>4, Zenon
  <2> QED  BY <1>2, <2>5
<1>3. Len(ops) \in P
  <2> HIDE DEF P
  <2>1. \A m \in 0..Len(ops) : m \in P /\ m < Len(ops) => m + 1 \in P
    BY <1>2
  <2>2. \A m \in 0..Len(ops) : m \in P
    BY <1>1, <2>1, UpTo
  <2> QED  BY <2>2
<1>4. \E f : f = ReplayStep(handler, ops, f)
  BY <1>3 DEF ReplayStep
<1> QED  BY <1>4 DEF ReplayTable

\* The groups the calls up to each one have opened.
OpenedBy(call, groups) == IF call.group = NoGroup THEN groups ELSE Append(groups, call.group)

OpenedStep(calls, f) ==
    [n \in 0..Len(calls) |-> IF n = 0 THEN <<>> ELSE OpenedBy(calls[n], f[n - 1])]

OpenedTable(calls) == CHOOSE f : f = OpenedStep(calls, f)

LEMMA OpenedTableExists ==
    ASSUME NEW calls, Len(calls) \in Nat
    PROVE  OpenedTable(calls) = OpenedStep(calls, OpenedTable(calls))
<1> DEFINE Good(m, f) == f = [n \in 0..m |-> IF n = 0 THEN <<>> ELSE OpenedBy(calls[n], f[n - 1])]
           P == {m \in 0..Len(calls) : \E f : Good(m, f)}
<1>1. 0 \in P
  <2>1. Good(0, [n \in 0..0 |-> <<>>])
    OBVIOUS
  <2> HIDE DEF Good
  <2>2. \E f : Good(0, f)
    BY <2>1, Zenon
  <2> QED  BY <2>2
<1>2. ASSUME NEW m \in 0..Len(calls), m \in P, m < Len(calls) PROVE m + 1 \in P
  <2>1. PICK f : Good(m, f)
    BY <1>2
  <2> DEFINE g == [n \in 0..(m + 1) |-> IF n <= m THEN f[n] ELSE IF n = 0 THEN <<>> ELSE OpenedBy(calls[n], f[n - 1])]
  <2>2. ASSUME NEW n \in 0..(m + 1) PROVE g[n] = IF n = 0 THEN <<>> ELSE OpenedBy(calls[n], g[n - 1])
    <3>1. f = [k \in 0..m |-> IF k = 0 THEN <<>> ELSE OpenedBy(calls[k], f[k - 1])]
      BY <2>1
    <3>2. g[n] = IF n = 0 THEN <<>> ELSE OpenedBy(calls[n], f[n - 1])
      BY <3>1
    <3>3. n # 0 => g[n - 1] = f[n - 1]
      OBVIOUS
    <3> QED  BY <3>2, <3>3
  <2>3. g = [n \in 0..(m + 1) |-> g[n]]
    OBVIOUS
  <2> HIDE DEF g
  <2>4. Good(m + 1, g)
    BY <2>2, <2>3
  <2> HIDE DEF Good
  <2>5. \E f1 : Good(m + 1, f1)
    BY <2>4, Zenon
  <2> QED  BY <1>2, <2>5
<1>3. Len(calls) \in P
  <2> HIDE DEF P
  <2>1. \A m \in 0..Len(calls) : m \in P /\ m < Len(calls) => m + 1 \in P
    BY <1>2
  <2>2. \A m \in 0..Len(calls) : m \in P
    BY <1>1, <2>1, UpTo
  <2> QED  BY <2>2
<1>4. \E f : f = OpenedStep(calls, f)
  BY <1>3 DEF OpenedStep
<1> QED  BY <1>4 DEF OpenedTable

\* The sequences up to each one, put together.
Joined(s, t) == s \o t

FlattenStep(seqs, f) ==
    [n \in 1..Len(seqs) |-> IF n = 1 THEN seqs[n] ELSE Joined(f[n - 1], seqs[n])]

FlattenTable(seqs) == CHOOSE f : f = FlattenStep(seqs, f)

LEMMA FlattenTableExists ==
    ASSUME NEW seqs, Len(seqs) \in Nat
    PROVE  FlattenTable(seqs) = FlattenStep(seqs, FlattenTable(seqs))
<1> DEFINE Good(m, f) == f = [n \in 1..m |-> IF n = 1 THEN seqs[n] ELSE Joined(f[n - 1], seqs[n])]
           P == {m \in 0..Len(seqs) : \E f : Good(m, f)}
<1>1. 0 \in P
  <2>1. Good(0, [n \in 1..0 |-> <<>>])
    OBVIOUS
  <2> HIDE DEF Good
  <2>2. \E f : Good(0, f)
    BY <2>1, Zenon
  <2> QED  BY <2>2
<1>2. ASSUME NEW m \in 0..Len(seqs), m \in P, m < Len(seqs) PROVE m + 1 \in P
  <2>1. PICK f : Good(m, f)
    BY <1>2
  <2> DEFINE g == [n \in 1..(m + 1) |-> IF n <= m THEN f[n] ELSE IF n = 1 THEN seqs[n] ELSE Joined(f[n - 1], seqs[n])]
  <2>2. ASSUME NEW n \in 1..(m + 1) PROVE g[n] = IF n = 1 THEN seqs[n] ELSE Joined(g[n - 1], seqs[n])
    <3>1. f = [k \in 1..m |-> IF k = 1 THEN seqs[k] ELSE Joined(f[k - 1], seqs[k])]
      BY <2>1
    <3>2. g[n] = IF n = 1 THEN seqs[n] ELSE Joined(f[n - 1], seqs[n])
      BY <3>1
    <3>3. n # 1 => g[n - 1] = f[n - 1]
      OBVIOUS
    <3> QED  BY <3>2, <3>3
  <2>3. g = [n \in 1..(m + 1) |-> g[n]]
    OBVIOUS
  <2> HIDE DEF g
  <2>4. Good(m + 1, g)
    BY <2>2, <2>3
  <2> HIDE DEF Good
  <2>5. \E f1 : Good(m + 1, f1)
    BY <2>4, Zenon
  <2> QED  BY <1>2, <2>5
<1>3. Len(seqs) \in P
  <2> HIDE DEF P
  <2>1. \A m \in 0..Len(seqs) : m \in P /\ m < Len(seqs) => m + 1 \in P
    BY <1>2
  <2>2. \A m \in 0..Len(seqs) : m \in P
    BY <1>1, <2>1, UpTo
  <2> QED  BY <2>2
<1>4. \E f : f = FlattenStep(seqs, f)
  BY <1>3 DEF FlattenStep
<1> QED  BY <1>4 DEF FlattenTable

LEMMA ReplayIsTable ==
    ASSUME NEW handler, NEW ops
    PROVE  Replay(handler, ops) = ReplayTable(handler, ops)[Len(ops)]
BY DEF Replay, ReplayTable, ReplayStep

LEMMA OpenedIsTable ==
    ASSUME NEW calls
    PROVE  Opened(calls) = OpenedTable(calls)[Len(calls)]
BY DEF Opened, OpenedTable, OpenedStep, OpenedBy

LEMMA FlattenIsTable ==
    ASSUME NEW seqs, Len(seqs) # 0
    PROVE  FlattenSeq(seqs) = FlattenTable(seqs)[Len(seqs)]
BY DEF FlattenSeq, FlattenTable, FlattenStep, Joined

-----------------------------------------------------------------------------
(* Sequences, whatever they hold *)

IsSeq(s) == \E S : s \in Seq(S)

LEMMA SeqShape ==
    ASSUME NEW s, IsSeq(s)
    PROVE  Len(s) \in Nat /\ DOMAIN s = 1..Len(s) /\ s = [k \in 1..Len(s) |-> s[k]]
BY DEF IsSeq

LEMMA FcnIsSeq ==
    ASSUME NEW s, NEW n \in Nat, DOMAIN s = 1..n, s = [k \in 1..n |-> s[k]]
    PROVE  IsSeq(s) /\ Len(s) = n
<1>1. s \in Seq({s[k] : k \in 1..n})
  OBVIOUS
<1>2. Len(s) = n
  BY <1>1
<1> QED  BY <1>1, <1>2, Zenon DEF IsSeq

LEMMA SameSeq ==
    ASSUME NEW s, NEW t, IsSeq(s), IsSeq(t), Len(s) = Len(t),
           \A k \in 1..Len(s) : s[k] = t[k]
    PROVE  s = t
BY SeqShape

LEMMA EmptyIsSeq == IsSeq(<<>>) /\ Len(<<>>) = 0
BY EmptySeq DEF IsSeq

LEMMA LenZero ==
    ASSUME NEW s, IsSeq(s), Len(s) = 0
    PROVE  s = <<>>
BY EmptyIsSeq, SameSeq

LEMMA AppendShape ==
    ASSUME NEW s, NEW x, IsSeq(s)
    PROVE  /\ IsSeq(Append(s, x))
           /\ Len(Append(s, x)) = Len(s) + 1
           /\ Append(s, x)[Len(s) + 1] = x
           /\ \A k \in 1..Len(s) : Append(s, x)[k] = s[k]
<1>1. PICK S : s \in Seq(S)
  BY DEF IsSeq
<1>2. s \in Seq(S \cup {x}) /\ x \in S \cup {x}
  BY <1>1, SeqMonotonic
<1>3. Append(s, x) \in Seq(S \cup {x})
  BY <1>2, AppendProperties
<1> QED  BY <1>2, <1>3, AppendProperties DEF IsSeq

LEMMA ConcatShape ==
    ASSUME NEW s, NEW t, IsSeq(s), IsSeq(t)
    PROVE  /\ IsSeq(s \o t)
           /\ Len(s \o t) = Len(s) + Len(t)
           /\ \A k \in 1..Len(s) : (s \o t)[k] = s[k]
           /\ \A k \in 1..Len(t) : (s \o t)[Len(s) + k] = t[k]
<1>1. PICK S : s \in Seq(S)
  BY DEF IsSeq
<1>2. PICK T : t \in Seq(T)
  BY DEF IsSeq
<1>3. s \in Seq(S \cup T) /\ t \in Seq(S \cup T)
  BY <1>1, <1>2, SeqMonotonic
<1>4. (s \o t) \in Seq(S \cup T) /\ Len(s \o t) = Len(s) + Len(t)
  BY <1>3, ConcatProperties
<1>5. \A k \in 1..Len(s) + Len(t) :
        (s \o t)[k] = IF k <= Len(s) THEN s[k] ELSE t[k - Len(s)]
  BY <1>3, ConcatProperties
<1>6. Len(s) \in Nat /\ Len(t) \in Nat
  BY SeqShape
<1>7. \A k \in 1..Len(s) : (s \o t)[k] = s[k]
  BY <1>5, <1>6
<1>8. ASSUME NEW k \in 1..Len(t) PROVE (s \o t)[Len(s) + k] = t[k]
  <2>1. Len(s) + k \in 1..Len(s) + Len(t) /\ ~(Len(s) + k <= Len(s)) /\ Len(s) + k - Len(s) = k
    BY <1>6
  <2> QED  BY <1>5, <2>1
<1> QED  BY <1>4, <1>7, <1>8 DEF IsSeq

LEMMA PrefixShape ==
    ASSUME NEW s, NEW n, IsSeq(s), n \in 0..Len(s)
    PROVE  /\ IsSeq(SubSeq(s, 1, n))
           /\ Len(SubSeq(s, 1, n)) = n
           /\ \A k \in 1..n : SubSeq(s, 1, n)[k] = s[k]
<1>1. PICK S : s \in Seq(S)
  BY DEF IsSeq
<1>2. n \in Nat /\ \A k \in 1..n : s[k] \in S
  BY <1>1
<1>3. SubSeq(s, 1, n) \in Seq(S) /\ Len(SubSeq(s, 1, n)) = n
  BY <1>2, SubSeqProperties
<1>4. \A k \in 1..n : SubSeq(s, 1, n)[k] = s[k]
  BY <1>2, SubSeqProperties
<1> QED  BY <1>3, <1>4 DEF IsSeq

LEMMA SuffixShape ==
    ASSUME NEW s, NEW m \in Nat, IsSeq(s), m <= Len(s)
    PROVE  /\ IsSeq(SubSeq(s, m + 1, Len(s)))
           /\ Len(SubSeq(s, m + 1, Len(s))) = Len(s) - m
           /\ \A k \in 1..(Len(s) - m) : SubSeq(s, m + 1, Len(s))[k] = s[m + k]
<1>1. PICK S : s \in Seq(S)
  BY DEF IsSeq
<1>2. Len(s) \in Nat /\ \A k \in (m + 1)..Len(s) : s[k] \in S
  BY <1>1
<1> DEFINE n == Len(s)
<1>3. n \in Nat /\ \A k \in (m + 1)..n : s[k] \in S
  BY <1>2
<1> HIDE DEF n
<1>4. SubSeq(s, m + 1, n) \in Seq(S) /\ Len(SubSeq(s, m + 1, n)) = IF m + 1 <= n THEN n - (m + 1) + 1 ELSE 0
  BY <1>3, SubSeqProperties
<1>5. \A k \in 1..(n - m) : SubSeq(s, m + 1, n)[k] = s[m + 1 + k - 1]
  BY <1>3, SubSeqProperties
<1>6. m <= n
  BY DEF n
<1>7. Len(SubSeq(s, m + 1, n)) = n - m
  BY <1>3, <1>4, <1>6
<1>8. \A k \in 1..(n - m) : SubSeq(s, m + 1, n)[k] = s[m + k]
  BY <1>3, <1>5
<1> QED  BY <1>4, <1>7, <1>8 DEF IsSeq, n

LEMMA PrefixOfAppend ==
    ASSUME NEW s, NEW x, NEW n, IsSeq(s), n \in 0..Len(s)
    PROVE  SubSeq(Append(s, x), 1, n) = SubSeq(s, 1, n)
<1>1. n \in 0..Len(Append(s, x)) /\ Len(s) \in Nat
  BY AppendShape, SeqShape
<1> QED  BY <1>1, AppendShape, PrefixShape, SameSeq

LEMMA WholePrefix ==
    ASSUME NEW s, IsSeq(s)
    PROVE  SubSeq(s, 1, Len(s)) = s
<1>1. Len(s) \in 0..Len(s)
  BY SeqShape
<1> QED  BY <1>1, PrefixShape, SameSeq

LEMMA ConcatEmpty ==
    ASSUME NEW s, IsSeq(s)
    PROVE  s \o <<>> = s /\ <<>> \o s = s
<1>1. IsSeq(s \o <<>>) /\ IsSeq(<<>> \o s)
  BY EmptyIsSeq, ConcatShape
<1>2. Len(s \o <<>>) = Len(s) /\ Len(<<>> \o s) = Len(s) /\ Len(s) \in Nat
  BY EmptyIsSeq, ConcatShape, SeqShape
<1>3. \A k \in 1..Len(s) : (s \o <<>>)[k] = s[k]
  BY EmptyIsSeq, ConcatShape
<1>4. \A k \in 1..Len(s) : (<<>> \o s)[0 + k] = s[k]
  BY EmptyIsSeq, ConcatShape
<1>5. \A k \in 1..Len(s) : (<<>> \o s)[k] = s[k]
  BY <1>2, <1>4
<1> QED  BY <1>1, <1>2, <1>3, <1>5, SameSeq

-----------------------------------------------------------------------------
(* One more call *)

\* Replaying one more call applies it to what the calls before it made.
LEMMA ReplayEmpty ==
    ASSUME NEW handler
    PROVE  Replay(handler, <<>>) = handler
<1>1. ReplayTable(handler, <<>>) = ReplayStep(handler, <<>>, ReplayTable(handler, <<>>))
  BY EmptyIsSeq, ReplayTableExists
<1>2. ReplayTable(handler, <<>>)[0] = handler
  BY <1>1, EmptyIsSeq DEF ReplayStep
<1> QED  BY <1>2, ReplayIsTable, EmptyIsSeq

LEMMA OpenedEmpty == Opened(<<>>) = <<>>
<1>1. OpenedTable(<<>>) = OpenedStep(<<>>, OpenedTable(<<>>))
  BY EmptyIsSeq, OpenedTableExists
<1>2. OpenedTable(<<>>)[0] = <<>>
  BY <1>1, EmptyIsSeq DEF OpenedStep
<1> QED  BY <1>2, OpenedIsTable, EmptyIsSeq

\* One more call is applied to what the calls before it made of the handler.
LEMMA ReplayAppend ==
    ASSUME NEW handler, NEW ops, NEW op, IsSeq(ops)
    PROVE  Replay(handler, Append(ops, op)) = apply(op, Replay(handler, ops))
<1> DEFINE more == Append(ops, op)
           f == ReplayTable(handler, ops)
           g == ReplayTable(handler, more)
           P == {n \in 0..Len(ops) : g[n] = f[n]}
<1>1. /\ Len(ops) \in Nat /\ Len(more) = Len(ops) + 1
      /\ \A n \in 1..Len(ops) : more[n] = ops[n]
      /\ more[Len(ops) + 1] = op
  BY SeqShape, AppendShape
<1> HIDE DEF more
<1>2. f = ReplayStep(handler, ops, f) /\ g = ReplayStep(handler, more, g)
  BY <1>1, ReplayTableExists
<1> HIDE DEF f, g
<1>3. /\ \A n \in 0..Len(ops) : f[n] = IF n = 0 THEN handler ELSE apply(ops[n], f[n - 1])
      /\ \A n \in 0..(Len(ops) + 1) : g[n] = IF n = 0 THEN handler ELSE apply(more[n], g[n - 1])
  BY <1>1, <1>2 DEF ReplayStep
<1>4. 0 \in P
  BY <1>1, <1>3
<1>5. ASSUME NEW n \in 0..Len(ops), n \in P, n < Len(ops) PROVE n + 1 \in P
  <2>1. n + 1 \in 1..Len(ops) /\ n + 1 # 0 /\ n + 1 - 1 = n /\ n + 1 \in 0..(Len(ops) + 1)
    BY <1>1, <1>5
  <2>2. f[n + 1] = apply(ops[n + 1], f[n])
    BY <2>1, <1>3
  <2>3. g[n + 1] = apply(more[n + 1], g[n])
    BY <2>1, <1>3
  <2> QED  BY <1>1, <1>5, <2>1, <2>2, <2>3
<1>6. g[Len(ops)] = f[Len(ops)]
  <2>1. \A n \in 0..Len(ops) : n \in P /\ n < Len(ops) => n + 1 \in P
    BY <1>5
  <2> HIDE DEF P
  <2>2. \A n \in 0..Len(ops) : n \in P
    BY <1>1, <1>4, <2>1, UpTo
  <2> QED  BY <1>1, <2>2 DEF P
<1>7. /\ Len(ops) + 1 \in 0..(Len(ops) + 1) /\ Len(ops) + 1 # 0
      /\ Len(ops) + 1 - 1 = Len(ops)
  BY <1>1
<1>8. g[Len(ops) + 1] = apply(op, g[Len(ops)])
  BY <1>1, <1>3, <1>7
<1> QED  BY <1>1, <1>6, <1>8, ReplayIsTable DEF f, g, more

\* One more call opens its group under those opened before it.
LEMMA OpenedAppend ==
    ASSUME NEW calls, NEW call, IsSeq(calls)
    PROVE  Opened(Append(calls, call)) = OpenedBy(call, Opened(calls))
<1> DEFINE more == Append(calls, call)
           f == OpenedTable(calls)
           g == OpenedTable(more)
           P == {n \in 0..Len(calls) : g[n] = f[n]}
<1>1. /\ Len(calls) \in Nat /\ Len(more) = Len(calls) + 1
      /\ \A n \in 1..Len(calls) : more[n] = calls[n]
      /\ more[Len(calls) + 1] = call
  BY SeqShape, AppendShape
<1> HIDE DEF more
<1>2. f = OpenedStep(calls, f) /\ g = OpenedStep(more, g)
  BY <1>1, OpenedTableExists
<1> HIDE DEF f, g
<1>3. /\ \A n \in 0..Len(calls) : f[n] = IF n = 0 THEN <<>> ELSE OpenedBy(calls[n], f[n - 1])
      /\ \A n \in 0..(Len(calls) + 1) : g[n] = IF n = 0 THEN <<>> ELSE OpenedBy(more[n], g[n - 1])
  BY <1>1, <1>2 DEF OpenedStep
<1>4. 0 \in P
  BY <1>1, <1>3
<1>5. ASSUME NEW n \in 0..Len(calls), n \in P, n < Len(calls) PROVE n + 1 \in P
  <2>1. n + 1 \in 1..Len(calls) /\ n + 1 # 0 /\ n + 1 - 1 = n /\ n + 1 \in 0..(Len(calls) + 1)
    BY <1>1, <1>5
  <2>2. f[n + 1] = OpenedBy(calls[n + 1], f[n])
    BY <2>1, <1>3
  <2>3. g[n + 1] = OpenedBy(more[n + 1], g[n])
    BY <2>1, <1>3
  <2> QED  BY <1>1, <1>5, <2>1, <2>2, <2>3
<1>6. g[Len(calls)] = f[Len(calls)]
  <2>1. \A n \in 0..Len(calls) : n \in P /\ n < Len(calls) => n + 1 \in P
    BY <1>5
  <2> HIDE DEF P
  <2>2. \A n \in 0..Len(calls) : n \in P
    BY <1>1, <1>4, <2>1, UpTo
  <2> QED  BY <1>1, <2>2 DEF P
<1>7. /\ Len(calls) + 1 \in 0..(Len(calls) + 1) /\ Len(calls) + 1 # 0
      /\ Len(calls) + 1 - 1 = Len(calls)
  BY <1>1
<1>8. g[Len(calls) + 1] = OpenedBy(call, g[Len(calls)])
  BY <1>1, <1>3, <1>7
<1> QED  BY <1>1, <1>6, <1>8, OpenedIsTable DEF f, g, more

\* One more sequence goes behind those put together before it.
LEMMA FlattenAppend ==
    ASSUME NEW seqs, NEW s, IsSeq(seqs), IsSeq(s)
    PROVE  FlattenSeq(Append(seqs, s)) = FlattenSeq(seqs) \o s
<1> DEFINE more == Append(seqs, s)
           f == FlattenTable(seqs)
           g == FlattenTable(more)
           P == {n \in 0..Len(seqs) : n # 0 => g[n] = f[n]}
<1>1. /\ Len(seqs) \in Nat /\ Len(more) = Len(seqs) + 1
      /\ \A n \in 1..Len(seqs) : more[n] = seqs[n]
      /\ more[Len(seqs) + 1] = s
  BY SeqShape, AppendShape
<1> HIDE DEF more
<1>2. f = FlattenStep(seqs, f) /\ g = FlattenStep(more, g)
  BY <1>1, FlattenTableExists
<1> HIDE DEF f, g
<1>3. /\ \A n \in 1..Len(seqs) : f[n] = IF n = 1 THEN seqs[n] ELSE Joined(f[n - 1], seqs[n])
      /\ \A n \in 1..(Len(seqs) + 1) : g[n] = IF n = 1 THEN more[n] ELSE Joined(g[n - 1], more[n])
  BY <1>1, <1>2 DEF FlattenStep
<1>4. 0 \in P
  BY <1>1
<1>5. ASSUME NEW n \in 0..Len(seqs), n \in P, n < Len(seqs) PROVE n + 1 \in P
  <2>1. n + 1 \in 1..Len(seqs) /\ n + 1 - 1 = n /\ n + 1 \in 1..(Len(seqs) + 1)
    BY <1>1, <1>5
  <2>2. f[n + 1] = IF n + 1 = 1 THEN seqs[n + 1] ELSE Joined(f[n], seqs[n + 1])
    BY <2>1, <1>3
  <2>3. g[n + 1] = IF n + 1 = 1 THEN more[n + 1] ELSE Joined(g[n], more[n + 1])
    BY <2>1, <1>3
  <2> QED  BY <1>1, <1>5, <2>1, <2>2, <2>3
<1>6. Len(seqs) # 0 => g[Len(seqs)] = f[Len(seqs)]
  <2>1. \A n \in 0..Len(seqs) : n \in P /\ n < Len(seqs) => n + 1 \in P
    BY <1>5
  <2> HIDE DEF P
  <2>2. \A n \in 0..Len(seqs) : n \in P
    BY <1>1, <1>4, <2>1, UpTo
  <2> QED  BY <1>1, <2>2 DEF P
<1>7. FlattenSeq(more) = g[Len(seqs) + 1]
  BY <1>1, FlattenIsTable DEF g
<1>8. CASE Len(seqs) = 0
  <2>1. g[Len(seqs) + 1] = s
    BY <1>1, <1>3, <1>8
  <2>2. FlattenSeq(seqs) = <<>>
    BY <1>8, LenZero DEF FlattenSeq
  <2> QED  BY <1>7, <2>1, <2>2, ConcatEmpty DEF more
<1>9. CASE Len(seqs) # 0
  <2>1. g[Len(seqs) + 1] = Joined(g[Len(seqs)], s)
    BY <1>1, <1>3, <1>9
  <2>2. FlattenSeq(seqs) = f[Len(seqs)]
    BY <1>9, FlattenIsTable DEF f
  <2> QED  BY <1>6, <1>7, <1>9, <2>1, <2>2 DEF more, Joined
<1> QED  BY <1>8, <1>9

LEMMA AskedByEmpty == AskedBy(<<>>) = <<>>
<1> DEFINE parts == [i \in DOMAIN <<>> |-> Asked(Opened(SubSeq(<<>>, 1, i - 1)), <<>>[i].attrs)]
<1>1. DOMAIN parts = 1..0 /\ parts = [k \in 1..0 |-> parts[k]]
  BY EmptyIsSeq, SeqShape
<1>2. AskedBy(<<>>) = FlattenSeq(parts)
  BY DEF AskedBy
<1> HIDE DEF parts
<1>3. IsSeq(parts) /\ Len(parts) = 0
  BY <1>1, FcnIsSeq
<1> QED  BY <1>2, <1>3, LenZero DEF FlattenSeq

LEMMA AskedShape ==
    ASSUME NEW path, NEW attrs, IsSeq(attrs)
    PROVE  IsSeq(Asked(path, attrs)) /\ Len(Asked(path, attrs)) = Len(attrs)
<1> DEFINE s == Asked(path, attrs)
<1>1. DOMAIN s = 1..Len(attrs) /\ s = [k \in 1..Len(attrs) |-> s[k]] /\ Len(attrs) \in Nat
  BY SeqShape DEF Asked
<1> HIDE DEF s
<1>2. IsSeq(s) /\ Len(s) = Len(attrs)
  BY <1>1, FcnIsSeq
<1> QED  BY <1>2 DEF s

\* One more call asks for its attributes behind those before it, under the
\* groups open when it is made.
LEMMA AskedByAppend ==
    ASSUME NEW calls, NEW call, IsSeq(calls), IsSeq(call.attrs)
    PROVE  AskedBy(Append(calls, call)) = AskedBy(calls) \o Asked(Opened(calls), call.attrs)
<1> DEFINE more == Append(calls, call)
           Part(c, i) == Asked(Opened(SubSeq(c, 1, i - 1)), c[i].attrs)
           parts == [i \in DOMAIN calls |-> Part(calls, i)]
           parts2 == [i \in DOMAIN more |-> Part(more, i)]
           last == Asked(Opened(calls), call.attrs)
<1>1. AskedBy(calls) = FlattenSeq(parts) /\ AskedBy(more) = FlattenSeq(parts2)
  BY DEF AskedBy
<1>2. /\ Len(calls) \in Nat /\ DOMAIN calls = 1..Len(calls)
      /\ IsSeq(more) /\ Len(more) = Len(calls) + 1
      /\ \A n \in 1..Len(calls) : more[n] = calls[n]
      /\ more[Len(calls) + 1] = call
  BY SeqShape, AppendShape
<1>3. DOMAIN more = 1..(Len(calls) + 1)
  BY <1>2, SeqShape
<1> HIDE DEF more
<1>4. ASSUME NEW i \in 1..Len(calls) PROVE Part(more, i) = Part(calls, i)
  <2>1. i - 1 \in 0..Len(calls)
    BY <1>2
  <2>2. SubSeq(more, 1, i - 1) = SubSeq(calls, 1, i - 1)
    BY <2>1, PrefixOfAppend DEF more
  <2> QED  BY <1>2, <2>2
<1>5. Part(more, Len(calls) + 1) = last
  <2>1. Len(calls) + 1 - 1 = Len(calls) /\ Len(calls) \in 0..Len(calls)
    BY <1>2
  <2>2. SubSeq(more, 1, Len(calls)) = calls
    BY <2>1, PrefixOfAppend, WholePrefix DEF more
  <2>3. SubSeq(more, 1, Len(calls) + 1 - 1) = calls
    BY <2>1, <2>2
  <2>4. Part(more, Len(calls) + 1)
          = Asked(Opened(SubSeq(more, 1, Len(calls) + 1 - 1)), more[Len(calls) + 1].attrs)
    OBVIOUS
  <2> QED  BY <1>2, <2>3, <2>4
<1>6. IsSeq(last)
  BY AskedShape
<1> HIDE DEF last, Part
<1>7. IsSeq(parts) /\ Len(parts) = Len(calls)
  <2>1. DOMAIN parts = 1..Len(calls) /\ parts = [k \in 1..Len(calls) |-> parts[k]]
    BY <1>2
  <2> HIDE DEF parts
  <2> QED  BY <1>2, <2>1, FcnIsSeq
<1>8. IsSeq(parts2) /\ Len(parts2) = Len(calls) + 1
  <2>1. DOMAIN parts2 = 1..(Len(calls) + 1) /\ parts2 = [k \in 1..(Len(calls) + 1) |-> parts2[k]]
    BY <1>3
  <2>2. Len(calls) + 1 \in Nat
    BY <1>2
  <2> HIDE DEF parts2
  <2> QED  BY <2>1, <2>2, FcnIsSeq
<1>9. /\ \A k \in 1..Len(calls) : parts2[k] = parts[k]
      /\ parts2[Len(calls) + 1] = last
  BY <1>2, <1>3, <1>4, <1>5
<1> HIDE DEF parts, parts2
<1>10. \A k \in 1..(Len(calls) + 1) : parts2[k] = Append(parts, last)[k]
  BY <1>2, <1>7, <1>9, AppendShape
<1>11. parts2 = Append(parts, last)
  <2>1. IsSeq(Append(parts, last)) /\ Len(Append(parts, last)) = Len(calls) + 1
    BY <1>7, AppendShape
  <2> QED  BY <1>8, <1>10, <2>1, SameSeq
<1> QED  BY <1>1, <1>6, <1>7, <1>11, FlattenAppend DEF more, last

LEMMA ConcatAssoc ==
    ASSUME NEW s, NEW t, NEW u, IsSeq(s), IsSeq(t), IsSeq(u)
    PROVE  (s \o t) \o u = s \o (t \o u)
<1>1. PICK S : s \in Seq(S)
  BY DEF IsSeq
<1>2. PICK T : t \in Seq(T)
  BY DEF IsSeq
<1>3. PICK U : u \in Seq(U)
  BY DEF IsSeq
<1>4. s \in Seq(S \cup T \cup U) /\ t \in Seq(S \cup T \cup U) /\ u \in Seq(S \cup T \cup U)
  BY <1>1, <1>2, <1>3, SeqMonotonic
<1> QED  BY <1>4, ConcatAssociative

-----------------------------------------------------------------------------
(* Attributes *)

\* A list of attributes whose keys have at least a name.
AttrList(attrs) ==
    /\ IsSeq(attrs)
    /\ \A k \in 1..Len(attrs) :
          /\ attrs[k] = Attr(attrs[k].key, attrs[k].kind, attrs[k].value)
          /\ attrs[k].key \in Seq(STRING) \ {<<>>}

LEMMA ListsAreAttrLists ==
    ASSUME NEW attrs \in AttrLists
    PROVE  AttrList(attrs)
<1>1. attrs \in Seq(Range(attrs))
  BY AttrAssumption
<1>2. IsSeq(attrs)
  BY <1>1 DEF IsSeq
<1>3. \A k \in 1..Len(attrs) : attrs[k] \in Range(attrs)
  BY <1>2, SeqShape DEF Range
<1> QED  BY <1>2, <1>3, AttrAssumption DEF AttrList, Attr

\* A renamed key is none that Cloud Logging reads.
LEMMA RenamedIsFree ==
    ASSUME NEW key \in Seq(STRING)
    PROVE  ~isReserved(<<reservedPrefix>> \o key)
<1> DEFINE renamed == <<reservedPrefix>> \o key
<1>1. IsSeq(renamed) /\ Len(renamed) \in Nat \ {0} /\ renamed[1] = "attr_"
  <2> DEFINE s == <<"attr_">>
  <2>1. s \in Seq({"attr_"}) /\ Len(s) = 1 /\ s[1] = "attr_"
    OBVIOUS
  <2>2. renamed = s \o key
    BY DEF reservedPrefix
  <2> HIDE DEF s, renamed
  <2>3. IsSeq(s) /\ IsSeq(key) /\ Len(key) \in Nat
    BY <2>1 DEF IsSeq
  <2>4. /\ IsSeq(s \o key) /\ Len(s \o key) = Len(s) + Len(key)
        /\ \A k \in 1..Len(s) : (s \o key)[k] = s[k]
    BY <2>3, ConcatShape
  <2>5. IsSeq(renamed) /\ Len(renamed) = 1 + Len(key) /\ renamed[1] = s[1]
    BY <2>1, <2>2, <2>4
  <2> QED  BY <2>1, <2>3, <2>5
<1> HIDE DEF renamed
<1>2. Head(renamed) = "attr_"
  BY <1>1 DEF IsSeq
<1>3. \A k \in reservedKeys : k[1] # "attr_"
  BY DEF reservedKeys, keyTime, keySeverity, keyMessage
<1>4. ~isReserved(renamed)
  BY <1>1, <1>2, <1>3 DEF isReserved, cloudLoggingPrefix
<1> QED  BY <1>4 DEF renamed

\* slog's own keys are among the reserved ones, so that another is left alone.
LEMMA FreeIsKept ==
    ASSUME NEW groups, NEW a, groups # <<>> \/ ~isReserved(a.key)
    PROVE  replaceAttr(groups, a) = a
<1>1. CASE groups # <<>>
  BY <1>1 DEF replaceAttr
<1>2. CASE ~isReserved(a.key)
  <2>1. a.key # <<"time">> /\ a.key # <<"level">> /\ a.key # <<"msg">> /\ a.key # <<"source">>
    BY <1>2 DEF isReserved, reservedKeys, keyTime
  <2> QED  BY <2>1 DEF replaceAttr
<1> QED  BY <1>1, <1>2

LEMMA RenameOne ==
    ASSUME NEW a, a = Attr(a.key, a.kind, a.value), a.key \in Seq(STRING) \ {<<>>}
    PROVE  /\ renameReserved(a).key = IF isReserved(a.key) THEN <<reservedPrefix>> \o a.key ELSE a.key
           /\ renameReserved(a).value = a.value
           /\ ~isReserved(renameReserved(a).key)
           /\ ~isReserved(a.key) => renameReserved(a) = a
<1>1. CASE isReserved(a.key)
  <2> DEFINE key2 == <<reservedPrefix>> \o a.key
  <2>1. ~isReserved(key2)
    BY RenamedIsFree
  <2>2. renameReserved(a) = [a EXCEPT !.key = key2]
    BY <1>1 DEF renameReserved
  <2> HIDE DEF key2
  <2>3. renameReserved(a).key = key2 /\ renameReserved(a).value = a.value
    BY <2>2 DEF Attr
  <2> QED  BY <1>1, <2>1, <2>3 DEF key2
<1>2. CASE ~isReserved(a.key)
  BY <1>2 DEF renameReserved
<1> QED  BY <1>1, <1>2

\* What the handler writes for a list, renamed unless a group is open, is what
\* the caller asked for.
LEMMA FieldsAsAsked ==
    ASSUME NEW groups, NEW attrs, AttrList(attrs)
    PROVE  Fields(groups, IF groups # <<>> THEN attrs ELSE renameReservedAttrs(attrs))
             = Asked(groups, attrs)
<1> DEFINE given == IF groups # <<>> THEN attrs ELSE renameReservedAttrs(attrs)
           n == Len(attrs)
<1>1. n \in Nat /\ DOMAIN attrs = 1..n
  BY SeqShape DEF AttrList
<1>2. DOMAIN given = 1..n
  BY <1>1 DEF renameReservedAttrs
<1>3. ASSUME NEW k \in 1..n
      PROVE  Fields(groups, given)[k] = Asked(groups, attrs)[k]
  <2> DEFINE a == attrs[k]
  <2>1. a = Attr(a.key, a.kind, a.value) /\ a.key \in Seq(STRING) \ {<<>>}
    BY DEF AttrList
  <2>2. Asked(groups, attrs)[k] =
          [path |-> groups,
           key |-> IF groups = <<>> /\ isReserved(a.key) THEN <<reservedPrefix>> \o a.key ELSE a.key,
           value |-> a.value]
    BY <1>1 DEF Asked
  <2>3. given[k] = IF groups # <<>> THEN a ELSE renameReserved(a)
    BY <1>1 DEF renameReservedAttrs
  <2>4. groups # <<>> \/ ~isReserved(given[k].key)
    BY <2>1, <2>3, RenameOne
  <2>5. Fields(groups, given)[k] = [path |-> groups, key |-> given[k].key, value |-> given[k].value]
    <3> HIDE DEF given
    <3>1. Fields(groups, given)[k] = [path |-> groups, key |-> replaceAttr(groups, given[k]).key,
                                      value |-> replaceAttr(groups, given[k]).value]
      BY <1>2 DEF Fields
    <3> QED  BY <2>4, <3>1, FreeIsKept
  <2> HIDE DEF a, given
  <2>6. CASE groups # <<>>
    BY <2>2, <2>3, <2>5, <2>6
  <2>7. CASE groups = <<>>
    <3> DEFINE key2 == IF isReserved(a.key) THEN <<reservedPrefix>> \o a.key ELSE a.key
    <3>1. given[k].key = key2 /\ given[k].value = a.value
      BY <2>1, <2>3, <2>7, RenameOne
    <3>2. Asked(groups, attrs)[k] = [path |-> groups, key |-> key2, value |-> a.value]
      BY <2>2, <2>7
    <3> HIDE DEF key2
    <3> QED  BY <2>5, <3>1, <3>2
  <2> QED  BY <2>6, <2>7
<1>4. Fields(groups, given) = [k \in 1..n |-> Fields(groups, given)[k]]
  <2> HIDE DEF given
  <2> QED  BY <1>2 DEF Fields
<1>5. Asked(groups, attrs) = [k \in 1..n |-> Asked(groups, attrs)[k]]
  BY <1>1 DEF Asked
<1> HIDE DEF given, n
<1>6. Fields(groups, given) = Asked(groups, attrs)
  BY <1>3, <1>4, <1>5
<1> QED  BY <1>6 DEF given

\* A record is renamed as its list is, whether or not it is rebuilt.
LEMMA RenamedRecord ==
    ASSUME NEW level, NEW attrs, AttrList(attrs), NEW record,
           record = [level |-> level, attrs |-> attrs]
    PROVE  renameReservedRecord(record) = [level |-> level, attrs |-> renameReservedAttrs(attrs)]
<1>1. DOMAIN attrs = 1..Len(attrs) /\ attrs = [k \in 1..Len(attrs) |-> attrs[k]]
  BY SeqShape DEF AttrList
<1>2. CASE \E i \in DOMAIN attrs : isReserved(attrs[i].key)
  BY <1>2 DEF renameReservedRecord
<1>3. CASE ~\E i \in DOMAIN attrs : isReserved(attrs[i].key)
  <2>1. \A k \in 1..Len(attrs) : renameReserved(attrs[k]) = attrs[k]
    BY <1>1, <1>3, RenameOne DEF AttrList
  <2>2. renameReservedAttrs(attrs) = attrs
    BY <1>1, <2>1 DEF renameReservedAttrs
  <2>3. renameReservedRecord(record) = record
    BY <1>3 DEF renameReservedRecord
  <2> QED  BY <2>2, <2>3
<1> QED  BY <1>2, <1>3

\* What a caller asks for takes no place that Cloud Logging reads.
LEMMA AskedIsFree ==
    ASSUME NEW path, NEW attrs, AttrList(attrs), NEW k \in 1..Len(attrs)
    PROVE  /\ Asked(path, attrs)[k].path = path
           /\ path = <<>> => ~isReserved(Asked(path, attrs)[k].key)
<1> DEFINE a == attrs[k]
           key2 == <<reservedPrefix>> \o a.key
<1>1. a.key \in Seq(STRING) /\ DOMAIN attrs = 1..Len(attrs)
  BY SeqShape DEF AttrList
<1>2. ~isReserved(key2)
  BY <1>1, RenamedIsFree
<1>3. Asked(path, attrs)[k] =
        [path |-> path, key |-> IF path = <<>> /\ isReserved(a.key) THEN key2 ELSE a.key,
         value |-> a.value]
  BY <1>1 DEF Asked
<1> HIDE DEF a, key2
<1> QED  BY <1>2, <1>3

-----------------------------------------------------------------------------
(* Loggers *)

\* A handler derived from a base handler.
JSON(base, groups, fields) ==
    [level |-> base.level, addSource |-> base.addSource, groups |-> groups, fields |-> fields]

Grouped(ops) == \E i \in DOMAIN ops : ops[i].group # NoGroup

\* Fields that take no reserved place at the top level, unless their outermost
\* group, the first of these, does.
Free(fields, groups) ==
    \A k \in 1..Len(fields) :
        \/ fields[k].path = <<>> /\ ~isReserved(fields[k].key)
        \/ fields[k].path # <<>> /\ groups # <<>> /\ Head(fields[k].path) = Head(groups)

\* A logger and the calls its slice holds: replayed over the base handler they
\* make the inner handler, with the groups opened and the fields asked for, and
\* replayed over the trace fields they make the same behind these.
LoggerOK(h, ops) ==
    /\ h.base = JSON(h.base, <<>>, <<>>)
    /\ h.base.addSource = FALSE
    /\ h.inner = Replay(h.base, ops)
    /\ h.inner = JSON(h.base, Opened(h.calls), AskedBy(h.calls))
    /\ \A sp \in Spans :
          Replay(JSONWithAttrs(h.base, TraceFields(h, sp)), ops)
            = JSON(h.base, Opened(h.calls),
                   Fields(<<>>, TraceFields(h, sp)) \o AskedBy(h.calls))
    /\ h.grouped <=> Grouped(ops)
    /\ h.grouped <=> Opened(h.calls) # <<>>
    /\ Free(AskedBy(h.calls), Opened(h.calls))

\* Where the sequences of a logger are sequences, whatever they hold.
LoggerSeqs(h) == IsSeq(h.calls) /\ IsSeq(Opened(h.calls)) /\ IsSeq(AskedBy(h.calls))

\* A call as a caller makes it and as it is recorded.
Recorded(grouped, op, call) ==
    \/ \E attrs : /\ AttrList(attrs)
                  /\ call = handlerOp(attrs, NoGroup)
                  /\ op = handlerOp(IF grouped THEN attrs ELSE renameReservedAttrs(attrs), NoGroup)
    \/ \E name : name # NoGroup /\ call = handlerOp(<<>>, name) /\ op = call

LEMMA RecordedAttrs ==
    ASSUME NEW grouped, NEW op, NEW call, Recorded(grouped, op, call)
    PROVE  AttrList(call.attrs) /\ op.group = call.group
<1>1. AttrList(<<>>)
  BY EmptyIsSeq DEF AttrList
<1>2. CASE \E attrs : /\ AttrList(attrs)
                      /\ call = handlerOp(attrs, NoGroup)
                      /\ op = handlerOp(IF grouped THEN attrs ELSE renameReservedAttrs(attrs), NoGroup)
  <2>1. PICK attrs : /\ AttrList(attrs)
                     /\ call = handlerOp(attrs, NoGroup)
                     /\ op = handlerOp(IF grouped THEN attrs ELSE renameReservedAttrs(attrs), NoGroup)
    BY <1>2
  <2>2. call.attrs = attrs /\ call.group = NoGroup /\ op.group = NoGroup
    BY <2>1 DEF handlerOp
  <2> QED  BY <2>1, <2>2
<1>3. CASE \E name : name # NoGroup /\ call = handlerOp(<<>>, name) /\ op = call
  <2>1. PICK name : name # NoGroup /\ call = handlerOp(<<>>, name) /\ op = call
    BY <1>3
  <2>2. call.attrs = <<>> /\ op = call
    BY <2>1 DEF handlerOp
  <2> QED  BY <1>1, <2>2
<1> QED  BY <1>2, <1>3, Zenon DEF Recorded

LEMMA HandlerFields ==
    ASSUME NEW level, NEW addSource, NEW groups, NEW fields, NEW new, NEW j,
           j = [level |-> level, addSource |-> addSource, groups |-> groups, fields |-> fields]
    PROVE  /\ [j EXCEPT !.fields = new]
                = [level |-> level, addSource |-> addSource, groups |-> groups, fields |-> new]
           /\ [j EXCEPT !.groups = new]
                = [level |-> level, addSource |-> addSource, groups |-> new, fields |-> fields]
OBVIOUS

\* A recorded call makes of a handler what its caller asked for.
LEMMA ApplyRecorded ==
    ASSUME NEW base, NEW groups, NEW fields, IsSeq(fields), NEW op, NEW call,
           Recorded(groups # <<>>, op, call)
    PROVE  apply(op, JSON(base, groups, fields))
             = JSON(base, OpenedBy(call, groups), fields \o Asked(groups, call.attrs))
<1>1. CASE \E attrs : /\ AttrList(attrs)
                      /\ call = handlerOp(attrs, NoGroup)
                      /\ op = handlerOp(IF groups # <<>> THEN attrs ELSE renameReservedAttrs(attrs), NoGroup)
  <2>1. PICK attrs : /\ AttrList(attrs)
                     /\ call = handlerOp(attrs, NoGroup)
                     /\ op = handlerOp(IF groups # <<>> THEN attrs ELSE renameReservedAttrs(attrs), NoGroup)
    BY <1>1
  <2> DEFINE given == IF groups # <<>> THEN attrs ELSE renameReservedAttrs(attrs)
             added == Fields(groups, given)
  <2>2. added = Asked(groups, attrs)
    BY <2>1, FieldsAsAsked
  <2>3. op.group = NoGroup /\ op.attrs = given /\ call.group = NoGroup /\ call.attrs = attrs
    BY <2>1 DEF handlerOp
  <2> HIDE DEF given
  <2>4. apply(op, JSON(base, groups, fields))
          = [JSON(base, groups, fields) EXCEPT !.fields = fields \o added]
    BY <2>3 DEF apply, JSONWithAttrs, JSON
  <2> DEFINE all == fields \o added
  <2>5. all = fields \o Asked(groups, call.attrs)
    BY <2>2, <2>3
  <2> HIDE DEF all, added
  <2>6. [JSON(base, groups, fields) EXCEPT !.fields = all] = JSON(base, groups, all)
    BY HandlerFields DEF JSON
  <2>7. OpenedBy(call, groups) = groups
    BY <2>3 DEF OpenedBy
  <2> QED  BY <2>4, <2>5, <2>6, <2>7 DEF all
<1>2. CASE \E name : name # NoGroup /\ call = handlerOp(<<>>, name) /\ op = call
  <2>1. PICK name : name # NoGroup /\ call = handlerOp(<<>>, name) /\ op = call
    BY <1>2
  <2>2. op.group = name /\ call.group = name /\ call.attrs = <<>>
    BY <2>1 DEF handlerOp
  <2> DEFINE more == Append(groups, name)
  <2>3. apply(op, JSON(base, groups, fields)) = [JSON(base, groups, fields) EXCEPT !.groups = more]
    BY <2>1, <2>2 DEF apply, JSONWithGroup, JSON
  <2>4. OpenedBy(call, groups) = more
    BY <2>1, <2>2 DEF OpenedBy
  <2> HIDE DEF more
  <2>5. [JSON(base, groups, fields) EXCEPT !.groups = more] = JSON(base, more, fields)
    BY HandlerFields DEF JSON
  <2>6. Asked(groups, call.attrs) = <<>>
    <3>1. IsSeq(call.attrs) /\ Len(call.attrs) = 0
      BY <2>2, EmptyIsSeq
    <3> QED  BY <3>1, AskedShape, LenZero
  <2>7. fields \o Asked(groups, call.attrs) = fields
    BY <2>6, ConcatEmpty
  <2> QED  BY <2>3, <2>4, <2>5, <2>7
<1> QED  BY <1>1, <1>2 DEF Recorded

LEMMA GroupedAppend ==
    ASSUME NEW ops, NEW op, IsSeq(ops)
    PROVE  Grouped(Append(ops, op)) <=> Grouped(ops) \/ op.group # NoGroup
<1> DEFINE more == Append(ops, op)
<1>1. /\ DOMAIN ops = 1..Len(ops) /\ DOMAIN more = 1..(Len(ops) + 1) /\ Len(ops) \in Nat
      /\ more[Len(ops) + 1] = op /\ \A k \in 1..Len(ops) : more[k] = ops[k]
  BY SeqShape, AppendShape
<1> HIDE DEF more
<1>2. ASSUME Grouped(more) PROVE Grouped(ops) \/ op.group # NoGroup
  <2>1. PICK i \in 1..(Len(ops) + 1) : more[i].group # NoGroup
    BY <1>1, <1>2 DEF Grouped
  <2>2. i \in 1..Len(ops) \/ i = Len(ops) + 1
    BY <1>1
  <2> QED  BY <1>1, <2>1, <2>2 DEF Grouped
<1>3. ASSUME Grouped(ops) PROVE Grouped(more)
  <2>1. PICK i \in 1..Len(ops) : ops[i].group # NoGroup
    BY <1>1, <1>3 DEF Grouped
  <2>2. i \in 1..(Len(ops) + 1)
    BY <1>1
  <2> QED  BY <1>1, <2>1, <2>2 DEF Grouped
<1>4. ASSUME op.group # NoGroup PROVE Grouped(more)
  <2>1. Len(ops) + 1 \in 1..(Len(ops) + 1)
    BY <1>1
  <2> QED  BY <1>1, <1>4, <2>1 DEF Grouped
<1>5. Grouped(more) <=> Grouped(ops) \/ op.group # NoGroup
  BY <1>2, <1>3, <1>4, Zenon
<1> QED  BY <1>5 DEF more

LEMMA FreeConcat ==
    ASSUME NEW s, NEW t, NEW groups, IsSeq(s), IsSeq(t), Free(s, groups), Free(t, groups)
    PROVE  Free(s \o t, groups)
<1> DEFINE u == s \o t
<1>1. /\ Len(u) = Len(s) + Len(t) /\ Len(s) \in Nat /\ Len(t) \in Nat
      /\ \A k \in 1..Len(s) : u[k] = s[k]
      /\ \A k \in 1..Len(t) : u[Len(s) + k] = t[k]
  BY ConcatShape, SeqShape
<1> HIDE DEF u
<1>2. ASSUME NEW k \in 1..Len(u)
      PROVE  (\E m \in 1..Len(s) : u[k] = s[m]) \/ (\E m \in 1..Len(t) : u[k] = t[m])
  <2>1. CASE k <= Len(s)
    BY <1>1, <2>1
  <2>2. CASE ~(k <= Len(s))
    <3>1. k - Len(s) \in 1..Len(t) /\ Len(s) + (k - Len(s)) = k
      BY <1>1, <2>2
    <3> QED  BY <1>1, <3>1
  <2> QED  BY <2>1, <2>2
<1>3. Free(u, groups)
  BY <1>2 DEF Free
<1> QED  BY <1>3 DEF u

LEMMA AskedFree ==
    ASSUME NEW path, NEW attrs, AttrList(attrs)
    PROVE  Free(Asked(path, attrs), path)
<1>1. Len(Asked(path, attrs)) = Len(attrs)
  BY AskedShape DEF AttrList
<1> QED  BY <1>1, AskedIsFree DEF Free

\* A group that is opened leaves the outermost one where it is.
LEMMA FreeUnderMore ==
    ASSUME NEW fields, NEW call, NEW groups, IsSeq(groups), Free(fields, groups)
    PROVE  Free(fields, OpenedBy(call, groups))
<1> DEFINE more == Append(groups, call.group)
<1>1. ASSUME groups # <<>> PROVE more # <<>> /\ Head(more) = Head(groups)
  <2>1. Len(groups) \in Nat /\ Len(groups) # 0 /\ IsSeq(more) /\ Len(more) = Len(groups) + 1
    BY <1>1, AppendShape, SeqShape, LenZero
  <2>2. more[1] = groups[1]
    BY <2>1, AppendShape
  <2> HIDE DEF more
  <2>3. more # <<>>
    BY <2>1, EmptyIsSeq
  <2>4. Head(more) = more[1] /\ Head(groups) = groups[1]
    BY <1>1, <2>1, <2>3 DEF IsSeq
  <2> QED  BY <2>2, <2>3, <2>4
<1> HIDE DEF more
<1>2. Free(fields, more)
  BY <1>1 DEF Free
<1> QED  BY <1>2 DEF OpenedBy, more

LEMMA TraceIsSeq ==
    ASSUME NEW h, NEW sp
    PROVE  IsSeq(Fields(<<>>, TraceFields(h, sp)))
<1> DEFINE trace == Fields(<<>>, TraceFields(h, sp))
<1>1. DOMAIN trace = 1..3 /\ trace = [k \in 1..3 |-> trace[k]]
  BY DEF Fields, TraceFields
<1> HIDE DEF trace
<1>2. IsSeq(trace)
  BY <1>1, FcnIsSeq
<1> QED  BY <1>2 DEF trace

\* The logger derived by one more call is right when its parent is.
LEMMA DerivedOK ==
    ASSUME NEW h, NEW ops, IsSeq(ops), LoggerOK(h, ops), LoggerSeqs(h),
           NEW op, NEW call, Recorded(h.grouped, op, call),
           NEW d, d.base = h.base, d.project = h.project, d.calls = Append(h.calls, call),
           d.inner = Replay(h.base, Append(ops, op)), d.grouped <=> Grouped(Append(ops, op))
    PROVE  LoggerOK(d, Append(ops, op)) /\ LoggerSeqs(d)
<1> DEFINE groups == Opened(h.calls)
           asked == AskedBy(h.calls)
           added == Asked(groups, call.attrs)
           base == h.base
<1>1. AttrList(call.attrs) /\ op.group = call.group /\ IsSeq(call.attrs)
  BY RecordedAttrs DEF AttrList
<1>2. Recorded(groups # <<>>, op, call)
  BY Zenon DEF LoggerOK, Recorded
<1>3. IsSeq(h.calls) /\ IsSeq(groups) /\ IsSeq(asked)
  BY DEF LoggerSeqs
<1>4. IsSeq(added) /\ Free(added, groups)
  BY <1>1, AskedShape, AskedFree
<1>5. Opened(d.calls) = OpenedBy(call, groups)
  BY <1>3, OpenedAppend
<1>6. AskedBy(d.calls) = asked \o added
  BY <1>1, <1>3, AskedByAppend
<1>7. IsSeq(d.calls) /\ IsSeq(OpenedBy(call, groups)) /\ IsSeq(asked \o added)
  BY <1>3, <1>4, AppendShape, ConcatShape DEF OpenedBy
<1>8. LoggerSeqs(d)
  BY <1>5, <1>6, <1>7 DEF LoggerSeqs
<1>9. Free(AskedBy(d.calls), Opened(d.calls))
  <2>1. Free(asked, groups)
    BY DEF LoggerOK
  <2>2. Free(asked \o added, groups)
    BY <1>3, <1>4, <2>1, FreeConcat
  <2> QED  BY <1>3, <1>5, <1>6, <2>2, FreeUnderMore
<1>10. d.grouped <=> Opened(d.calls) # <<>>
  <2>1. d.grouped <=> (groups # <<>> \/ call.group # NoGroup)
    BY <1>1, GroupedAppend, Zenon DEF LoggerOK
  <2>2. call.group # NoGroup => OpenedBy(call, groups) # <<>>
    <3> DEFINE more == Append(groups, call.group)
    <3>1. Len(more) = Len(groups) + 1 /\ Len(groups) \in Nat
      BY <1>3, AppendShape, SeqShape
    <3> HIDE DEF more
    <3>2. more # <<>>
      BY <3>1, EmptyIsSeq
    <3> QED  BY <3>2 DEF more, OpenedBy
  <2>3. call.group = NoGroup => OpenedBy(call, groups) = groups
    BY DEF OpenedBy
  <2>4. groups # <<>> => OpenedBy(call, groups) # <<>>
    BY <2>2, <2>3
  <2> QED  BY <1>5, <2>1, <2>2, <2>3, <2>4, Zenon
<1>11. d.inner = JSON(base, Opened(d.calls), AskedBy(d.calls))
  <2>1. Replay(h.base, ops) = JSON(base, groups, asked)
    BY DEF LoggerOK
  <2>2. d.inner = apply(op, JSON(base, groups, asked))
    BY <2>1, ReplayAppend
  <2> QED  BY <1>2, <1>3, <1>5, <1>6, <2>2, ApplyRecorded
<1>12. ASSUME NEW sp \in Spans
       PROVE  Replay(JSONWithAttrs(h.base, TraceFields(h, sp)), Append(ops, op))
                = JSON(base, Opened(d.calls), Fields(<<>>, TraceFields(h, sp)) \o AskedBy(d.calls))
  <2> DEFINE trace == Fields(<<>>, TraceFields(h, sp))
             traced == JSONWithAttrs(h.base, TraceFields(h, sp))
  <2>1. Replay(traced, ops) = JSON(base, groups, trace \o asked)
    BY DEF LoggerOK
  <2>2. IsSeq(trace)
    BY TraceIsSeq
  <2> HIDE DEF trace, traced, groups, asked, added
  <2>3. IsSeq(trace \o asked)
    BY <1>3, <2>2, ConcatShape
  <2>4. Replay(traced, Append(ops, op)) = apply(op, JSON(base, groups, trace \o asked))
    BY <2>1, ReplayAppend
  <2>5. apply(op, JSON(base, groups, trace \o asked))
          = JSON(base, OpenedBy(call, groups), (trace \o asked) \o added)
    BY <1>2, <2>3, ApplyRecorded DEF added
  <2>6. (trace \o asked) \o added = trace \o (asked \o added)
    <3>1. IsSeq(trace) /\ IsSeq(asked) /\ IsSeq(added)
      BY <1>3, <1>4, <2>2
    <3> QED  BY <3>1, ConcatAssoc
  <2>7. Replay(traced, Append(ops, op)) = JSON(base, Opened(d.calls), trace \o AskedBy(d.calls))
    BY <1>5, <1>6, <2>4, <2>5, <2>6
  <2> QED  BY <2>7 DEF trace, traced
<1>13. \A sp \in Spans : TraceFields(d, sp) = TraceFields(h, sp)
  BY DEF TraceFields, traceResourceName
<1>14. h.base = JSON(h.base, <<>>, <<>>) /\ h.base.addSource = FALSE
  BY DEF LoggerOK
<1> HIDE DEF groups, asked, added
<1> QED  BY <1>8, <1>9, <1>10, <1>11, <1>12, <1>13, <1>14 DEF LoggerOK

\* Every logger is right, for the calls its slice holds now.
LoggersOK ==
    \A i \in DOMAIN loggers :
        /\ LoggerOK(loggers[i], Elements(arrays, loggers[i].ops))
        /\ LoggerSeqs(loggers[i])

LEMMA SlicesAreSeqs ==
    ASSUME LogTypes, NEW i \in DOMAIN loggers
    PROVE  IsSeq(Elements(arrays, loggers[i].ops))
             /\ Len(Elements(arrays, loggers[i].ops)) = loggers[i].ops.len
<1> DEFINE slice == loggers[i].ops
<1>1. PICK S : arrays \in Seq(Seq(S))
  BY DEF LogTypes
<1>2. slice.array \in DOMAIN arrays /\ slice.len \in 0..Len(arrays[slice.array])
  BY DEF LogTypes
<1>3. arrays[slice.array] \in Seq(S)
  BY <1>1, <1>2
<1>4. IsSeq(arrays[slice.array])
  BY <1>3 DEF IsSeq
<1> QED  BY <1>2, <1>4, PrefixShape DEF Elements

\* Deriving a logger adds it behind the others and leaves the calls they hold.
LEMMA DeriveAddsOne ==
    ASSUME LogTypes, NEW i \in DOMAIN loggers, NEW op, NEW call,
           Derive(loggers[i], op, call), NEW ops, ops = Elements(arrays, loggers[i].ops)
    PROVE  /\ \A k \in DOMAIN loggers :
                 /\ loggers'[k] = loggers[k]
                 /\ Elements(arrays', loggers[k].ops) = Elements(arrays, loggers[k].ops)
           /\ \E d : /\ \A k \in DOMAIN loggers' : k \in DOMAIN loggers \/ loggers'[k] = d
                     /\ Elements(arrays', d.ops) = Append(ops, op)
                     /\ d.base = loggers[i].base /\ d.project = loggers[i].project
                     /\ d.calls = Append(loggers[i].calls, call)
                     /\ d.inner = Replay(loggers[i].base, Append(ops, op))
                     /\ d.grouped <=> Grouped(Append(ops, op))
<1> DEFINE h == loggers[i]
           fresh == Append(ops, op)
           slice == [array |-> Len(arrays) + 1, len |-> h.ops.len + 1]
           d == newTraceHandler(Append(arrays, fresh), h.base, slice, h.project,
                                Append(h.calls, call))
<1>1. arrays' = Append(arrays, fresh) /\ loggers' = Append(loggers, d)
  BY DEF Derive, appendOp
<1>2. /\ IsSeq(arrays) /\ IsSeq(loggers) /\ IsSeq(ops) /\ Len(ops) = h.ops.len
      /\ Len(arrays) \in Nat /\ Len(loggers) \in Nat
      /\ DOMAIN arrays = 1..Len(arrays) /\ DOMAIN loggers = 1..Len(loggers)
  <2>1. IsSeq(arrays) /\ IsSeq(loggers)
    BY DEF LogTypes, IsSeq
  <2> QED  BY <2>1, SlicesAreSeqs, SeqShape
<1>3. IsSeq(fresh) /\ Len(fresh) = h.ops.len + 1
  BY <1>2, AppendShape
<1>4. Elements(arrays', slice) = fresh
  <2> HIDE DEF fresh, d
  <2>1. arrays'[Len(arrays) + 1] = fresh
    BY <1>1, <1>2, AppendShape
  <2>2. SubSeq(fresh, 1, h.ops.len + 1) = fresh
    BY <1>3, WholePrefix
  <2> QED  BY <2>1, <2>2 DEF Elements
<1>5. /\ d.ops = slice /\ d.base = h.base /\ d.project = h.project
      /\ d.calls = Append(h.calls, call)
  BY DEF newTraceHandler
<1>6. d.inner = Replay(h.base, fresh)
  <2>1. d.inner = Replay(h.base, Elements(arrays', slice))
    BY <1>1 DEF newTraceHandler
  <2> QED  BY <1>4, <2>1
<1>7. d.grouped <=> Grouped(fresh)
  <2>1. d.grouped <=> Grouped(Elements(arrays', slice))
    BY <1>1 DEF newTraceHandler, Grouped
  <2> QED  BY <1>4, <2>1
<1> HIDE DEF d, slice
<1>8. ASSUME NEW k \in DOMAIN loggers
      PROVE  /\ loggers'[k] = loggers[k]
             /\ Elements(arrays', loggers[k].ops) = Elements(arrays, loggers[k].ops)
  <2>1. loggers'[k] = loggers[k]
    BY <1>1, <1>2, AppendShape
  <2>2. loggers[k].ops.array \in 1..Len(arrays)
    BY <1>2 DEF LogTypes
  <2>3. arrays'[loggers[k].ops.array] = arrays[loggers[k].ops.array]
    BY <1>1, <1>2, <2>2, AppendShape
  <2> QED  BY <2>1, <2>3 DEF Elements
<1>9. \A k \in DOMAIN loggers' : k \in DOMAIN loggers \/ loggers'[k] = d
  <2>1. DOMAIN loggers' = 1..(Len(loggers) + 1) /\ loggers'[Len(loggers) + 1] = d
    BY <1>1, <1>2, AppendShape, SeqShape
  <2> QED  BY <1>2, <2>1
<1>10. Elements(arrays', d.ops) = fresh
  BY <1>4, <1>5
<1> HIDE DEF fresh, h
<1>11. \E e : /\ \A k \in DOMAIN loggers' : k \in DOMAIN loggers \/ loggers'[k] = e
              /\ Elements(arrays', e.ops) = fresh
              /\ e.base = h.base /\ e.project = h.project
              /\ e.calls = Append(h.calls, call)
              /\ e.inner = Replay(h.base, fresh)
              /\ e.grouped <=> Grouped(fresh)
  BY <1>5, <1>6, <1>7, <1>9, <1>10, Zenon
<1> QED  BY <1>8, <1>11, Zenon DEF fresh, h

LEMMA DeriveKeepsLoggers ==
    ASSUME LogTypes, LoggersOK, NEW i \in DOMAIN loggers, NEW op, NEW call,
           Recorded(loggers[i].grouped, op, call), Derive(loggers[i], op, call)
    PROVE  LoggersOK'
<1> DEFINE h == loggers[i]
           ops == Elements(arrays, h.ops)
<1>1. IsSeq(ops) /\ LoggerOK(h, ops) /\ LoggerSeqs(h)
  BY SlicesAreSeqs DEF LoggersOK
<1>2. \A k \in DOMAIN loggers :
         /\ loggers'[k] = loggers[k]
         /\ Elements(arrays', loggers[k].ops) = Elements(arrays, loggers[k].ops)
  BY DeriveAddsOne
<1>3. PICK d : /\ \A k \in DOMAIN loggers' : k \in DOMAIN loggers \/ loggers'[k] = d
               /\ Elements(arrays', d.ops) = Append(ops, op)
               /\ d.base = h.base /\ d.project = h.project
               /\ d.calls = Append(h.calls, call)
               /\ d.inner = Replay(h.base, Append(ops, op))
               /\ d.grouped <=> Grouped(Append(ops, op))
  BY DeriveAddsOne
<1> HIDE DEF ops, h
<1>4. Recorded(h.grouped, op, call)
  BY DEF h
<1>5. LoggerOK(d, Append(ops, op)) /\ LoggerSeqs(d)
  BY <1>1, <1>3, <1>4, DerivedOK
<1>6. ASSUME NEW k \in DOMAIN loggers'
      PROVE  LoggerOK(loggers'[k], Elements(arrays', loggers'[k].ops)) /\ LoggerSeqs(loggers'[k])
  <2>1. CASE k \in DOMAIN loggers
    BY <1>2, <2>1 DEF LoggersOK
  <2>2. CASE loggers'[k] = d
    BY <1>3, <1>5, <2>2
  <2> QED  BY <1>3, <2>1, <2>2
<1> QED  BY <1>6 DEF LoggersOK

\* The first logger has no calls behind it.
LEMMA NewLoggerOK ==
    ASSUME NEW level, NEW project,
           arrays' = <<(<<>>)>>, loggers' = <<NewHandler(level, FALSE, project)>>
    PROVE  LoggersOK'
<1> DEFINE h == NewHandler(level, FALSE, project)
           base == NewJSONHandler(level, FALSE)
           slice == [array |-> 1, len |-> 0]
<1>1. Elements(<<(<<>>)>>, slice) = <<>>
  <2>1. SubSeq(<<>>, 1, 0) = <<>>
    BY EmptyIsSeq, WholePrefix
  <2> QED  BY <2>1 DEF Elements
<1>2. /\ h.base = base /\ h.ops = slice /\ h.calls = <<>>
      /\ h.inner = Replay(base, Elements(<<(<<>>)>>, slice))
  BY DEF NewHandler, newTraceHandler
<1>3. h.grouped <=> Grouped(Elements(<<(<<>>)>>, slice))
  BY DEF NewHandler, newTraceHandler, Grouped
<1>4. ~Grouped(<<>>)
  BY DEF Grouped
<1>5. base = JSON(base, <<>>, <<>>) /\ base.addSource = FALSE
  BY DEF NewJSONHandler, JSON
<1> HIDE DEF base, h
<1>6. Opened(h.calls) = <<>> /\ AskedBy(h.calls) = <<>>
  BY <1>2, OpenedEmpty, AskedByEmpty
<1>7. LoggerSeqs(h)
  BY <1>2, <1>6, EmptyIsSeq DEF LoggerSeqs
<1>8. h.inner = Replay(base, <<>>) /\ h.inner = JSON(base, <<>>, <<>>)
  BY <1>1, <1>2, <1>5, ReplayEmpty
<1>9. ASSUME NEW sp \in Spans
      PROVE  Replay(JSONWithAttrs(base, TraceFields(h, sp)), <<>>)
               = JSON(base, <<>>, Fields(<<>>, TraceFields(h, sp)) \o <<>>)
  <2> DEFINE trace == Fields(<<>>, TraceFields(h, sp))
  <2>1. IsSeq(trace)
    BY TraceIsSeq
  <2>2. base.groups = <<>> /\ base.fields = <<>>
    BY <1>5 DEF JSON
  <2>3. JSONWithAttrs(base, TraceFields(h, sp)) = [base EXCEPT !.fields = <<>> \o trace]
    BY <2>2 DEF JSONWithAttrs
  <2> HIDE DEF trace
  <2>4. <<>> \o trace = trace /\ trace \o <<>> = trace
    BY <2>1, ConcatEmpty
  <2>5. [base EXCEPT !.fields = trace] = JSON(base, <<>>, trace)
    BY <1>5, HandlerFields DEF JSON
  <2>6. Replay(JSONWithAttrs(base, TraceFields(h, sp)), <<>>) = JSON(base, <<>>, trace \o <<>>)
    BY <2>3, <2>4, <2>5, ReplayEmpty
  <2> QED  BY <2>6 DEF trace
<1>10. Free(<<>>, <<>>)
  BY EmptyIsSeq DEF Free
<1>11. LoggerOK(h, <<>>)
  BY <1>1, <1>2, <1>3, <1>4, <1>5, <1>6, <1>8, <1>9, <1>10 DEF LoggerOK
<1>12. DOMAIN loggers' = {1} /\ loggers'[1] = h
  BY DEF h
<1>13. Elements(arrays', h.ops) = <<>>
  BY <1>1, <1>2
<1> QED  BY <1>7, <1>11, <1>12, <1>13, Zenon DEF LoggersOK

LEMMA LoggersStep == LogTypes /\ LoggersOK /\ [Next]_vars => LoggersOK'
<1> SUFFICES ASSUME LogTypes, LoggersOK, [Next]_vars PROVE LoggersOK'
  OBVIOUS
<1>1. CASE NewLogger
  <2>1. CASE UNCHANGED logVars
    BY <2>1 DEF logVars, LoggersOK
  <2>2. CASE ~UNCHANGED logVars
    BY <1>1, <2>2, NewLoggerOK DEF NewLogger
  <2> QED  BY <2>1, <2>2
<1>2. CASE LoggersNext
  <2>1. PICK i \in DOMAIN loggers :
          \/ \E attrs \in AttrLists : WithAttrs(loggers[i], attrs)
          \/ \E name \in Groups : WithGroup(loggers[i], name)
    BY <1>2 DEF LoggersNext, DeriveLogger
  <2>2. CASE \E attrs \in AttrLists : WithAttrs(loggers[i], attrs)
    <3>1. PICK attrs \in AttrLists : WithAttrs(loggers[i], attrs)
      BY <2>2
    <3> DEFINE op == handlerOp(IF loggers[i].grouped THEN attrs ELSE renameReservedAttrs(attrs), NoGroup)
    <3>2. Recorded(loggers[i].grouped, op, handlerOp(attrs, NoGroup))
      BY <3>1, ListsAreAttrLists, Zenon DEF Recorded
    <3>3. Derive(loggers[i], op, handlerOp(attrs, NoGroup))
      BY <3>1 DEF WithAttrs
    <3> QED  BY <3>2, <3>3, DeriveKeepsLoggers
  <2>3. CASE \E name \in Groups : WithGroup(loggers[i], name)
    <3>1. PICK name \in Groups : WithGroup(loggers[i], name)
      BY <2>3
    <3>2. Recorded(loggers[i].grouped, handlerOp(<<>>, name), handlerOp(<<>>, name))
      BY <3>1, Zenon DEF Recorded, WithGroup
    <3>3. Derive(loggers[i], handlerOp(<<>>, name), handlerOp(<<>>, name))
      BY <3>1 DEF WithGroup
    <3> QED  BY <3>2, <3>3, DeriveKeepsLoggers
  <2> QED  BY <2>1, <2>2, <2>3
<1>3. CASE UNCHANGED logVars
  BY <1>3 DEF logVars, LoggersOK
<1> QED  BY <1>1, <1>2, <1>3, LogOnlyBy

-----------------------------------------------------------------------------
(* Entries *)

\* The three fields an entry starts with.
Own(level) ==
    <<[path |-> <<>>, key |-> keyTime, value |-> "RFC3339Nano"],
      [path |-> <<>>, key |-> keySeverity, value |-> severityOf(level)],
      [path |-> <<>>, key |-> keyMessage, value |-> "text"]>>

LEMMA OwnFields ==
    ASSUME NEW j, j.addSource = FALSE, NEW record
    PROVE  /\ Fields(<<>>, Builtins(j, record)) = Own(record.level)
           /\ IsSeq(Own(record.level)) /\ Len(Own(record.level)) = 3
<1> DEFINE b == <<Attr(<<"time">>, "time", "now"), Attr(<<"level">>, "level", record.level),
                  Attr(<<"msg">>, "string", "text")>>
<1>1. Builtins(j, record) = b
  <2> DEFINE s == <<Attr(<<"time">>, "time", "now"), Attr(<<"level">>, "level", record.level)>>
             t == <<Attr(<<"msg">>, "string", "text")>>
  <2>1. Builtins(j, record) = s \o <<>> \o t
    BY DEF Builtins
  <2>2. /\ DOMAIN s = 1..2 /\ s = [k \in 1..2 |-> s[k]]
        /\ DOMAIN t = 1..1 /\ t = [k \in 1..1 |-> t[k]]
        /\ DOMAIN b = 1..3 /\ b = [k \in 1..3 |-> b[k]]
    OBVIOUS
  <2>3. b[1] = s[1] /\ b[2] = s[2] /\ b[3] = t[1]
    OBVIOUS
  <2> HIDE DEF s, t, b
  <2>4. IsSeq(s) /\ Len(s) = 2 /\ IsSeq(t) /\ Len(t) = 1 /\ IsSeq(b) /\ Len(b) = 3
    BY <2>2, FcnIsSeq
  <2>5. s \o <<>> = s
    BY <2>4, ConcatEmpty
  <2>6. /\ IsSeq(s \o t) /\ Len(s \o t) = Len(s) + Len(t)
        /\ \A k \in 1..Len(s) : (s \o t)[k] = s[k]
        /\ \A k \in 1..Len(t) : (s \o t)[Len(s) + k] = t[k]
    <3>1. IsSeq(s) /\ IsSeq(t)
      BY <2>4
    <3> QED  BY <3>1, ConcatShape
  <2> DEFINE u == s \o t
  <2>7. /\ IsSeq(u) /\ Len(u) = 3
        /\ \A k \in 1..2 : u[k] = s[k]
        /\ \A k \in 1..1 : u[2 + k] = t[k]
    BY <2>4, <2>6
  <2> HIDE DEF u
  <2>8. u[2 + 1] = t[1]
    BY <2>7
  <2>9. u[1] = s[1] /\ u[2] = s[2] /\ u[3] = t[1]
    BY <2>7, <2>8
  <2>10. \A k \in 1..3 : u[k] = b[k]
    BY <2>3, <2>9
  <2>11. u = b
    BY <2>4, <2>7, <2>10, SameSeq
  <2> QED  BY <2>1, <2>5, <2>11 DEF u
<1>2. /\ replaceAttr(<<>>, Attr(<<"time">>, "time", "now")) = Attr(keyTime, "string", "RFC3339Nano")
      /\ replaceAttr(<<>>, Attr(<<"level">>, "level", record.level))
           = Attr(keySeverity, "string", severityOf(record.level))
      /\ replaceAttr(<<>>, Attr(<<"msg">>, "string", "text")) = Attr(keyMessage, "string", "text")
  BY DEF replaceAttr, Attr
<1>3. Fields(<<>>, b) = Own(record.level)
  BY <1>2 DEF Fields, Own, Attr
<1>4. IsSeq(Own(record.level)) /\ Len(Own(record.level)) = 3
  <2> DEFINE o == Own(record.level)
  <2>1. DOMAIN o = 1..3 /\ o = [k \in 1..3 |-> o[k]]
    BY DEF Own
  <2> HIDE DEF o
  <2>2. IsSeq(o) /\ Len(o) = 3
    BY <2>1, FcnIsSeq
  <2> QED  BY <2>2 DEF o
<1> QED  BY <1>1, <1>3, <1>4

\* A concatenation, cut where its parts meet.
LEMMA CutBetween ==
    ASSUME NEW o, NEW r, IsSeq(o), IsSeq(r)
    PROVE  \E e : /\ e = o \o r
                  /\ SubSeq(e, 1, Len(o)) = o /\ SubSeq(e, Len(o) + 1, Len(e)) = r
                  /\ DOMAIN e = 1..(Len(o) + Len(r))
                  /\ \A k \in 1..Len(o) : e[k] = o[k]
                  /\ \A k \in 1..Len(r) : e[Len(o) + k] = r[k]
<1> DEFINE e == o \o r
           n == Len(o)
<1>1. /\ IsSeq(e) /\ Len(e) = n + Len(r)
      /\ \A k \in 1..n : e[k] = o[k]
      /\ \A k \in 1..Len(r) : e[n + k] = r[k]
  BY ConcatShape
<1>2. n \in Nat /\ Len(r) \in Nat
  BY SeqShape
<1> HIDE DEF e
<1>3. n \in 0..Len(e) /\ n <= Len(e) /\ Len(e) - n = Len(r) /\ DOMAIN e = 1..(n + Len(r))
  BY <1>1, <1>2, SeqShape
<1>4. SubSeq(e, 1, n) = o
  <2> DEFINE s == SubSeq(e, 1, n)
  <2>1. IsSeq(s) /\ Len(s) = n /\ \A k \in 1..n : s[k] = e[k]
    BY <1>1, <1>3, PrefixShape
  <2> HIDE DEF s
  <2>2. s = o
    BY <1>1, <2>1, SameSeq
  <2> QED  BY <2>2 DEF s
<1>5. SubSeq(e, n + 1, Len(e)) = r
  <2> DEFINE s == SubSeq(e, n + 1, Len(e))
  <2>1. IsSeq(s) /\ Len(s) = Len(e) - n /\ \A k \in 1..(Len(e) - n) : s[k] = e[n + k]
    BY <1>1, <1>2, <1>3, SuffixShape
  <2> HIDE DEF s
  <2>2. s = r
    BY <1>1, <1>3, <2>1, SameSeq
  <2> QED  BY <2>2 DEF s
<1>6. e = o \o r
  BY DEF e
<1> QED  BY <1>1, <1>3, <1>4, <1>5, <1>6, Zenon

\* An entry of three fields and the rest.
ThreeAnd(e, o, r) ==
    /\ SubSeq(e, 1, 3) = o /\ SubSeq(e, 4, Len(e)) = r
    /\ DOMAIN e = 1..(3 + Len(r)) /\ Len(r) \in Nat
    /\ \A k \in 1..3 : e[k] = o[k]
    /\ \A k \in 1..Len(r) : e[3 + k] = r[k]

LEMMA CutAtThree ==
    ASSUME NEW o, NEW r, IsSeq(o), IsSeq(r)
    PROVE  Len(o) = 3 => ThreeAnd(o \o r, o, r)
<1>1. PICK e : /\ e = o \o r
               /\ SubSeq(e, 1, Len(o)) = o /\ SubSeq(e, Len(o) + 1, Len(e)) = r
               /\ DOMAIN e = 1..(Len(o) + Len(r))
               /\ \A k \in 1..Len(o) : e[k] = o[k]
               /\ \A k \in 1..Len(r) : e[Len(o) + k] = r[k]
  BY CutBetween, Zenon
<1>2. Len(r) \in Nat
  BY SeqShape
<1>3. ASSUME Len(o) = 3
      PROVE  /\ SubSeq(e, 1, 3) = o /\ SubSeq(e, 4, Len(e)) = r
             /\ DOMAIN e = 1..(3 + Len(r))
             /\ \A k \in 1..3 : e[k] = o[k]
             /\ \A k \in 1..Len(r) : e[3 + k] = r[k]
  <2>1. Len(o) + 1 = 4
    BY <1>3
  <2> QED  BY <1>1, <1>3, <2>1, Zenon
<1>4. Len(o) = 3 => ThreeAnd(e, o, r)
  BY <1>2, <1>3, Zenon DEF ThreeAnd
<1> QED  BY <1>1, <1>4, Zenon

\* What a record adds to an entry is what it was asked to add.
LEMMA RecordFields ==
    ASSUME NEW h, NEW ops, LoggerOK(h, ops), NEW record, NEW level, NEW attrs, AttrList(attrs),
           record = [level |-> level, attrs |-> attrs],
           NEW renamed, renamed = IF h.grouped THEN record ELSE renameReservedRecord(record)
    PROVE  /\ renamed.level = level
           /\ Fields(Opened(h.calls), renamed.attrs) = Asked(Opened(h.calls), attrs)
<1> DEFINE groups == Opened(h.calls)
<1>1. h.grouped <=> groups # <<>>
  BY Zenon DEF LoggerOK
<1> HIDE DEF groups
<1>2. CASE groups # <<>>
  <2>1. renamed = record
    BY <1>1, <1>2
  <2>2. renamed.level = level /\ renamed.attrs = attrs
    BY <2>1
  <2>3. Fields(groups, attrs) = Asked(groups, attrs)
    BY <1>2, FieldsAsAsked
  <2> QED  BY <2>2, <2>3 DEF groups
<1>3. CASE groups = <<>>
  <2>1. renamed = [level |-> level, attrs |-> renameReservedAttrs(attrs)]
    BY <1>1, <1>3, RenamedRecord
  <2>2. renamed.level = level /\ renamed.attrs = renameReservedAttrs(attrs)
    BY <2>1
  <2>3. Fields(groups, renameReservedAttrs(attrs)) = Asked(groups, attrs)
    BY <1>3, FieldsAsAsked
  <2> QED  BY <2>2, <2>3 DEF groups
<1> QED  BY <1>2, <1>3

\* The entry of a record, without and with a span.
LEMMA Entries ==
    ASSUME LoggersOK, NEW i \in DOMAIN loggers, NEW record \in Records(loggers[i])
    PROVE  \E own, rest :
             /\ own = Own(record.level) /\ IsSeq(own) /\ Len(own) = 3
             /\ rest = AskedFor(loggers[i], record) /\ IsSeq(rest)
             /\ Free(rest, Opened(loggers[i].calls))
             /\ Handle(loggers[i], record, NoSpan) = own \o rest
             /\ \A sp \in Spans : Handle(loggers[i], record, sp)
                  = own \o Fields(<<>>, TraceFields(loggers[i], sp)) \o rest
<1> DEFINE h == loggers[i]
           ops == Elements(arrays, h.ops)
           level == record.level
           attrs == record.attrs
           renamed == IF h.grouped THEN record ELSE renameReservedRecord(record)
           groups == Opened(h.calls)
           asked == AskedBy(h.calls)
           added == Asked(groups, attrs)
           own == Own(level)
           rest == asked \o added
           Trace(sp) == Fields(<<>>, TraceFields(h, sp))
<1>1. LoggerOK(h, ops) /\ LoggerSeqs(h)
  BY DEF LoggersOK
<1>2. record = [level |-> level, attrs |-> attrs] /\ attrs \in AttrLists
  BY DEF Records
<1>3. AttrList(attrs)
  BY <1>2, ListsAreAttrLists
<1>4. renamed.level = level /\ Fields(groups, renamed.attrs) = added
  <2> HIDE DEF level, attrs, ops, h, renamed
  <2>1. renamed = IF h.grouped THEN record ELSE renameReservedRecord(record)
    BY DEF renamed
  <2> QED  BY <1>1, <1>2, <1>3, <2>1, RecordFields
<1>5. IsSeq(added) /\ Free(added, groups) /\ IsSeq(asked) /\ Free(asked, groups)
  BY <1>1, <1>3, AskedShape, AskedFree DEF AttrList, LoggerOK, LoggerSeqs
<1>6. ASSUME NEW j, NEW fields, j = JSON(h.base, groups, fields)
      PROVE  JSONHandle(j, renamed) = (own \o fields) \o added
  <2> HIDE DEF renamed, groups, added, own
  <2>1. j.addSource = FALSE /\ j.groups = groups /\ j.fields = fields
    BY <1>1, <1>6 DEF JSON, LoggerOK
  <2>2. Fields(<<>>, Builtins(j, renamed)) = own
    BY <1>4, <2>1, OwnFields DEF own
  <2> QED  BY <1>4, <2>1, <2>2 DEF JSONHandle
<1>7. IsSeq(own) /\ Len(own) = 3
  BY <1>1, OwnFields DEF LoggerOK
<1>8. IsSeq(rest) /\ Free(rest, groups)
  BY <1>5, ConcatShape, FreeConcat
<1>9. rest = AskedFor(h, record)
  BY DEF AskedFor
<1>10. Handle(h, record, NoSpan) = own \o rest
  <2>1. Handle(h, record, NoSpan) = JSONHandle(h.inner, renamed)
    BY DEF Handle, NoSpan
  <2>2. h.inner = JSON(h.base, groups, asked)
    BY <1>1 DEF LoggerOK
  <2> HIDE DEF renamed, groups, asked, added, own, h
  <2>3. Handle(h, record, NoSpan) = (own \o asked) \o added
    BY <1>6, <2>1, <2>2
  <2> QED  BY <1>5, <1>7, <2>3, ConcatAssoc DEF rest
<1>11. ASSUME NEW sp \in Spans
       PROVE  Handle(h, record, sp) = (own \o Trace(sp)) \o rest
  <2> DEFINE trace == Trace(sp)
             j == Replay(JSONWithAttrs(h.base, TraceFields(h, sp)), ops)
  <2>1. Handle(h, record, sp) = JSONHandle(j, renamed)
    BY DEF Handle, Spans
  <2>2. j = JSON(h.base, groups, trace \o asked)
    BY <1>1 DEF LoggerOK
  <2>3. IsSeq(trace)
    BY TraceIsSeq
  <2> HIDE DEF renamed, groups, asked, added, own, h, j, Trace
  <2>4. Handle(h, record, sp) = (own \o (trace \o asked)) \o added
    BY <1>6, <2>1, <2>2
  <2> HIDE DEF trace
  <2>5. IsSeq(trace \o asked) /\ IsSeq(asked \o added)
    BY <1>5, <2>3, ConcatShape
  <2>6. (own \o (trace \o asked)) \o added = own \o ((trace \o asked) \o added)
    BY <1>5, <1>7, <2>5, ConcatAssoc
  <2>7. (trace \o asked) \o added = trace \o (asked \o added)
    BY <1>5, <2>3, ConcatAssoc
  <2>8. own \o (trace \o (asked \o added)) = (own \o trace) \o (asked \o added)
    BY <1>7, <2>3, <2>5, ConcatAssoc
  <2> QED  BY <2>4, <2>6, <2>7, <2>8 DEF rest, trace
<1> HIDE DEF rest
<1> QED  BY <1>7, <1>8, <1>9, <1>10, <1>11, Zenon

LEMMA OwnMeaningful ==
    ASSUME NEW level, NEW k \in 1..3
    PROVE  isReserved(TopLevelKey(Own(level)[k]))
<1>1. \A key \in {keyTime, keySeverity, keyMessage} : isReserved(key)
  BY DEF isReserved, reservedKeys
<1>2. Own(level)[k].path = <<>> /\ Own(level)[k].key \in {keyTime, keySeverity, keyMessage}
  BY DEF Own
<1> QED  BY <1>1, <1>2 DEF TopLevelKey

LEMMA NothingIsHidden == LoggersOK => NothingHidden
<1> SUFFICES ASSUME LoggersOK, NEW i \in DOMAIN loggers, NEW record \in Records(loggers[i]),
                    NEW entry, entry = Handle(loggers[i], record, NoSpan)
             PROVE  /\ ~ReservedGroup(loggers[i]) => Meaningful(entry) = 1..3
                    /\ SubSeq(entry, 1, 3) = Own(record.level)
                    /\ SubSeq(entry, 4, Len(entry)) = AskedFor(loggers[i], record)
  BY DEF NothingHidden, Own
<1>1. PICK own, rest :
         /\ own = Own(record.level) /\ IsSeq(own) /\ Len(own) = 3
         /\ rest = AskedFor(loggers[i], record) /\ IsSeq(rest)
         /\ Free(rest, Opened(loggers[i].calls))
         /\ Handle(loggers[i], record, NoSpan) = own \o rest
  BY Entries
<1>2. ThreeAnd(entry, own, rest)
  <2>1. IsSeq(own) /\ IsSeq(rest)
    BY <1>1
  <2>2. Len(own) = 3 => ThreeAnd(own \o rest, own, rest)
    BY <2>1, CutAtThree, Zenon
  <2> QED  BY <1>1, <2>2, Zenon
<1>3. ASSUME NEW k \in 1..3 PROVE k \in Meaningful(entry)
  BY <1>1, <1>2, OwnMeaningful DEF Meaningful, ThreeAnd
<1>4. ASSUME ~ReservedGroup(loggers[i]), NEW k \in Meaningful(entry) PROVE k \in 1..3
  <2> SUFFICES ASSUME k \notin 1..3 PROVE FALSE
    OBVIOUS
  <2>1. k \in 1..(3 + Len(rest)) /\ isReserved(TopLevelKey(entry[k]))
    BY <1>2 DEF Meaningful, ThreeAnd
  <2>2. k - 3 \in 1..Len(rest) /\ 3 + (k - 3) = k
    BY <1>2, <2>1 DEF ThreeAnd
  <2>3. entry[k] = rest[k - 3]
    BY <1>2, <2>2 DEF ThreeAnd
  <2> DEFINE groups == Opened(loggers[i].calls)
  <2>4. \/ rest[k - 3].path = <<>> /\ ~isReserved(rest[k - 3].key)
        \/ rest[k - 3].path # <<>> /\ groups # <<>> /\ Head(rest[k - 3].path) = Head(groups)
    BY <1>1, <2>2 DEF Free
  <2>5. groups # <<>> => ~isReserved(Head(groups))
    BY <1>4 DEF ReservedGroup
  <2> HIDE DEF groups
  <2> QED  BY <2>1, <2>3, <2>4, <2>5 DEF TopLevelKey
<1>5. ~ReservedGroup(loggers[i]) => Meaningful(entry) = 1..3
  BY <1>3, <1>4
<1> QED  BY <1>1, <1>2, <1>5, Zenon DEF ThreeAnd

LEMMA SpanAddsTrace == LoggersOK => SpanOnlyAddsTrace
<1> SUFFICES ASSUME LoggersOK PROVE SpanOnlyAddsTrace
  OBVIOUS
<1> DEFINE Without(h, record) == Handle(h, record, NoSpan)
<1>1. ASSUME NEW i \in DOMAIN loggers, NEW record \in Records(loggers[i]), NEW sp \in Spans
      PROVE  Handle(loggers[i], record, sp) =
               SubSeq(Without(loggers[i], record), 1, 3)
                 \o Fields(<<>>, TraceFields(loggers[i], sp))
                 \o SubSeq(Without(loggers[i], record), 4, Len(Without(loggers[i], record)))
  <2> DEFINE without == Without(loggers[i], record)
  <2>1. PICK own, rest :
           /\ own = Own(record.level) /\ IsSeq(own) /\ Len(own) = 3
           /\ rest = AskedFor(loggers[i], record) /\ IsSeq(rest)
           /\ Free(rest, Opened(loggers[i].calls))
           /\ without = own \o rest
           /\ \A sp1 \in Spans : Handle(loggers[i], record, sp1)
                    = own \o Fields(<<>>, TraceFields(loggers[i], sp1)) \o rest
    BY Entries, Zenon
  <2> HIDE DEF without
  <2>2. ThreeAnd(without, own, rest)
    <3>1. IsSeq(own) /\ IsSeq(rest)
      BY <2>1
    <3>2. Len(own) = 3 => ThreeAnd(own \o rest, own, rest)
      BY <3>1, CutAtThree, Zenon
    <3> QED  BY <2>1, <3>2, Zenon
  <2>3. SubSeq(without, 1, 3) = own /\ SubSeq(without, 4, Len(without)) = rest
    BY <2>2, Zenon DEF ThreeAnd
  <2> QED  BY <2>1, <2>3, Zenon DEF without
<1> QED  BY <1>1, Zenon DEF SpanOnlyAddsTrace

-----------------------------------------------------------------------------
(* Theorems *)

IInv == ProcessInv /\ LogTypes /\ LoggersOK

LEMMA InvariantHolds == Spec => []IInv
<1>1. Init => LogTypes /\ LoggersOK
  BY EmptySeq DEF Init, LogTypes, LoggersOK
<1>2. Init => IInv
  BY <1>1, ProcessInit DEF IInv
<1>3. IInv /\ [Next]_vars => IInv'
  BY ProcessStep, LogStep, LoggersStep DEF IInv
<1> QED  BY <1>2, <1>3, PTL DEF Spec

\* Every variable of the process keeps its type, and every slice of recorded
\* calls lies within its array, whatever loggers are derived from whichever.
THEOREM TypeCorrect == Spec => []TypeOK
<1>1. IInv => TypeOK
  BY StackTypes DEF IInv, ProcessInv, ProcessTypes, FlagTypes, LogTypes, TypeOK, Steps, Calls
<1> QED  BY <1>1, InvariantHolds, PTL

\* run() returns nil only from a shutdown and with no request left in a handler,
\* and the pool was open as long as one was: for any number of requests.
THEOREM CleanExitAlways == Spec => []CleanExitLosesNoRequest
<1>1. IInv => CleanExitLosesNoRequest
  BY DEF IInv, ProcessInv, ProcessTypes, StackOK, ServeOK, DrainOK, CleanExitLosesNoRequest
<1> QED  BY <1>1, InvariantHolds, PTL

\* Whichever of its error returns run() takes, the deferred calls pending there
\* close the pool and stop the tracer provider.
THEOREM ResourcesAlwaysReleased == Spec => []ResourcesReleased
<1>1. IInv => ResourcesReleased
  BY StacksDiffer DEF IInv, ProcessInv, ProcessTypes, StackOK, HeldOK, ResourcesReleased
<1> QED  BY <1>1, InvariantHolds, PTL

\* No span ends in the buffer of a stopped provider, and one is lost only where
\* an export failed.
THEOREM SpansAlwaysExported == Spec => []SpansExported
<1>1. IInv => SpansExported
  BY StacksDiffer DEF IInv, ProcessInv, ProcessTypes, StackOK, HeldOK, SpanOK, SpansExported
<1> QED  BY <1>1, InvariantHolds, PTL

\* Whatever the calls it was derived by, a logger writes its own time, severity and
\* message at the top level, and every attribute of its calls and of the record is
\* in the entry, in its group: for attribute lists, group names and chains of calls
\* of any kind and length.  No attribute and no group takes the place of those
\* three, except that the name of an outermost group is the caller's to choose
\* well: WithGroup does not rename a reserved one.
THEOREM NothingEverHidden == Spec => []NothingHidden
<1>1. IInv => NothingHidden
  BY NothingIsHidden DEF IInv
<1> QED  BY <1>1, InvariantHolds, PTL

\* A span in the record's context adds its three fields behind the record's own
\* and leaves the rest of the entry alone, whatever other loggers were derived.
THEOREM SpanAlwaysOnlyAddsTrace == Spec => []SpanOnlyAddsTrace
<1>1. IInv => SpanOnlyAddsTrace
  BY SpanAddsTrace DEF IInv
<1> QED  BY <1>1, InvariantHolds, PTL
=============================================================================
