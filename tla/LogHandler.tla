----------------------------- MODULE LogHandler ------------------------------
(* The slog handler every record of the service is written through: it renames
   what would hide a field Cloud Logging reads, and puts the trace of a record's
   context at the top level even where a group is open, by replaying the
   recorded WithAttrs and WithGroup calls over the base handler.

   Loggers are derived from one another while the process runs, and the calls a
   handler records live in Go slices: a heap of arrays that slices share unless
   they are copied.  A key, a group's too, is the sequence of its prefixes and its
   name; an entry is the sequence of its fields, each with the groups it is under. *)
EXTENDS Integers, SequencesExt

CONSTANTS
    AttrLists,    \* the attribute lists callers pass to WithAttrs and to a record
    Groups,       \* the group names callers pass to WithGroup, keys like any other
    Projects,     \* GOOGLE_CLOUD_PROJECT, "" where it is unset
    MaxLoggers    \* bound: loggers derived in one behaviour

VARIABLES
    loggers,      \* the handlers built so far, in the order they were built
    arrays        \* the heap behind the slices of recorded calls

logVars == <<loggers, arrays>>

ASSUME LogAssumption == MaxLoggers \in Nat /\ "" \in Projects

\* A list holds attributes, and a key has at least its name.
ASSUME AttrAssumption ==
    \A attrs \in AttrLists :
        /\ attrs \in Seq(Range(attrs))
        /\ \A a \in Range(attrs) :
              /\ a = [key |-> a.key, kind |-> a.kind, value |-> a.value]
              /\ a.key \in Seq(STRING) \ {<<>>}

----------------------------------------------------------------------------
(* Levels *)

LevelDebug    == -4
LevelInfo     == 0
LevelWarn     == 4
LevelError    == 8
LevelCritical == LevelError + 4

Unknown == "unknown"    \* any other value of LOG_LEVEL

ParseLevel == [debug    |-> LevelDebug,
               info     |-> LevelInfo,
               warn     |-> LevelWarn,
               warning  |-> LevelWarn,
               error    |-> LevelError,
               critical |-> LevelCritical]

severityOf(level) ==
    CASE level < LevelInfo                          -> "DEBUG"
      [] level \in LevelInfo .. LevelWarn - 1       -> "INFO"
      [] level \in LevelWarn .. LevelError - 1      -> "WARNING"
      [] level \in LevelError .. LevelCritical - 1  -> "ERROR"
      [] level >= LevelCritical                     -> "CRITICAL"

----------------------------------------------------------------------------
(* Reserved keys *)

cloudLoggingPrefix == "logging.googleapis.com/"
reservedPrefix     == "attr_"

keyTime           == <<"time">>
keySeverity       == <<"severity">>
keyMessage        == <<"message">>
keySourceLocation == <<cloudLoggingPrefix, "sourceLocation">>
keyTrace          == <<cloudLoggingPrefix, "trace">>
keySpanID         == <<cloudLoggingPrefix, "spanId">>
keyTraceSampled   == <<cloudLoggingPrefix, "trace_sampled">>

reservedKeys == {keyTime, keySeverity, keyMessage, <<"level">>, <<"msg">>, <<"source">>}

Attr(key, kind, value) == [key |-> key, kind |-> kind, value |-> value]

isReserved(key) == Head(key) = cloudLoggingPrefix \/ key \in reservedKeys

renameReserved(a) ==
    IF isReserved(a.key) THEN [a EXCEPT !.key = <<reservedPrefix>> \o @] ELSE a

renameReservedAttrs(attrs) == [i \in DOMAIN attrs |-> renameReserved(attrs[i])]

\* Mutant: the walk over the record's attributes is not stopped at a collision.
renameReservedRecordByLast(record) ==
    IF record.attrs # <<>> /\ isReserved(Last(record.attrs).key)
      THEN [record EXCEPT !.attrs = renameReservedAttrs(@)]
      ELSE record

\* A record is rebuilt only when one of its keys collides.
renameReservedRecord(record) ==
    IF \E i \in DOMAIN record.attrs : isReserved(record.attrs[i].key)
      THEN [record EXCEPT !.attrs = renameReservedAttrs(@)]
      ELSE record

\* slog's own attributes get the keys and the values Cloud Logging reads; inside
\* a group, or with a value of another kind, a key is the caller's.
replaceAttr(groups, a) ==
    IF groups # <<>> THEN a ELSE
    CASE a.key = <<"time">> /\ a.kind = "time" -> Attr(keyTime, "string", "RFC3339Nano")
      [] a.key = <<"level">> /\ a.kind = "level" ->
           Attr(keySeverity, "string", severityOf(a.value))
      [] a.key = <<"msg">> -> Attr(keyMessage, "string", a.value)
      [] a.key = <<"source">> /\ a.kind = "source" ->
           Attr(keySourceLocation, "group", "file, line, function")
      [] OTHER -> a

----------------------------------------------------------------------------
(* slog.JSONHandler: what it was given with WithAttrs precedes a record's own
   attributes, and both are written under the groups open when they were given *)

Fields(groups, attrs) ==
    [i \in DOMAIN attrs |->
        LET a == replaceAttr(groups, attrs[i])
        IN  [path |-> groups, key |-> a.key, value |-> a.value]]

NewJSONHandler(level, addSource) ==
    [level |-> level, addSource |-> addSource, groups |-> <<>>, fields |-> <<>>]

JSONWithAttrs(j, attrs) == [j EXCEPT !.fields = @ \o Fields(j.groups, attrs)]

JSONWithGroup(j, name) == [j EXCEPT !.groups = Append(@, name)]

Builtins(j, record) ==
    <<Attr(<<"time">>, "time", "now"), Attr(<<"level">>, "level", record.level)>>
      \o (IF j.addSource THEN <<Attr(<<"source">>, "source", "caller")>> ELSE <<>>)
      \o <<Attr(<<"msg">>, "string", "text")>>

JSONHandle(j, record) ==
    Fields(<<>>, Builtins(j, record)) \o j.fields \o Fields(j.groups, record.attrs)

----------------------------------------------------------------------------
(* traceHandler *)

NoGroup == <<>>    \* the empty name

handlerOp(attrs, group) == [attrs |-> attrs, group |-> group]

apply(op, handler) ==
    IF op.group # NoGroup THEN JSONWithGroup(handler, op.group)
                          ELSE JSONWithAttrs(handler, op.attrs)

Replay(handler, ops) ==
    LET replayed[n \in 0..Len(ops)] ==
            IF n = 0 THEN handler ELSE apply(ops[n], replayed[n - 1])
    IN  replayed[Len(ops)]

\* The elements of a slice into one of the arrays.
Elements(heap, slice) == SubSeq(heap[slice.array], 1, slice.len)

newTraceHandler(heap, base, slice, project, calls) ==
    LET ops == Elements(heap, slice)
    IN  [base    |-> base,
         inner   |-> Replay(base, ops),
         ops     |-> slice,
         project |-> project,
         grouped |-> \E i \in DOMAIN ops : ops[i].group # NoGroup,
         calls   |-> calls]     \* history: the calls that derived this logger

NewHandler(level, addSource, project) ==
    newTraceHandler(<<(<<>>)>>, NewJSONHandler(level, addSource),
                    [array |-> 1, len |-> 0], project, <<>>)

Enabled(h, level) == level >= h.inner.level

traceResourceName(h) ==
    IF h.project = "" THEN "trace id" ELSE "project and trace id"

TraceFields(h, span) ==
    <<Attr(keyTrace, "string", traceResourceName(h)),
      Attr(keySpanID, "string", "span id"),
      Attr(keyTraceSampled, "bool", IF span.sampled THEN "true" ELSE "false")>>

\* What Handle writes for a record whose context holds this span.
Handle(h, record, span) ==
    LET renamed == IF h.grouped THEN record ELSE renameReservedRecord(record)
    IN  IF ~span.valid
          THEN JSONHandle(h.inner, renamed)
          ELSE JSONHandle(Replay(JSONWithAttrs(h.base, TraceFields(h, span)),
                                 Elements(arrays, h.ops)),
                          renamed)

\* Mutant: append(h.ops, op), which writes into the spare capacity of the parent's
\* array when there is some and otherwise moves to an array of twice the size.
appendOpInPlace(h, op) ==
    LET old  == arrays[h.ops.array]
        next == h.ops.len + 1
        size == IF h.ops.len = 0 THEN 1 ELSE 2 * h.ops.len
    IN  IF next <= Len(old)
          THEN [heap  |-> [arrays EXCEPT ![h.ops.array][next] = op],
                slice |-> [array |-> h.ops.array, len |-> next]]
          ELSE [heap  |-> Append(arrays, [i \in 1..size |->
                                            IF i < next THEN old[i] ELSE op]),
                slice |-> [array |-> Len(arrays) + 1, len |-> next]]

\* A fresh array of exactly the needed capacity.
appendOp(h, op) ==
    [heap  |-> Append(arrays, Append(Elements(arrays, h.ops), op)),
     slice |-> [array |-> Len(arrays) + 1, len |-> h.ops.len + 1]]

Derive(h, op, call) ==
    LET appended == appendOp(h, op)
    IN  /\ arrays' = appended.heap
        /\ loggers' = Append(loggers, newTraceHandler(appended.heap, h.base,
                                 appended.slice, h.project, Append(h.calls, call)))

\* With no attributes the handler itself is returned: nothing changes.
WithAttrs(h, attrs) ==
    /\ attrs # <<>>
    /\ Derive(h, handlerOp(IF h.grouped THEN attrs ELSE renameReservedAttrs(attrs), NoGroup),
              handlerOp(attrs, NoGroup))

\* Any other name opens a group, one that is a reserved key too.
WithGroup(h, name) ==
    /\ name # NoGroup
    /\ Derive(h, handlerOp(<<>>, name), handlerOp(<<>>, name))

DeriveLogger ==
    /\ Len(loggers) \in 1..MaxLoggers - 1
    /\ \E i \in DOMAIN loggers :
          \/ \E attrs \in AttrLists : WithAttrs(loggers[i], attrs)
          \/ \E name \in Groups : WithGroup(loggers[i], name)

----------------------------------------------------------------------------
(* Properties *)

Spans  == [valid : {TRUE}, sampled : BOOLEAN]
NoSpan == [valid |-> FALSE, sampled |-> FALSE]

\* The groups a logger derived by these calls has opened.
Opened(calls) ==
    LET opened[n \in 0..Len(calls)] ==
            IF n = 0 THEN <<>>
            ELSE IF calls[n].group = NoGroup THEN opened[n - 1]
            ELSE Append(opened[n - 1], calls[n].group)
    IN  opened[Len(calls)]

\* What a caller asked to have in an entry, in the order of the calls: each
\* attribute under the groups open when it was given, and under its own name
\* unless that name is taken.
Asked(path, attrs) ==
    [i \in DOMAIN attrs |->
        [path  |-> path,
         key   |-> IF path = <<>> /\ isReserved(attrs[i].key)
                     THEN <<reservedPrefix>> \o attrs[i].key
                     ELSE attrs[i].key,
         value |-> attrs[i].value]]

AskedBy(calls) ==
    FlattenSeq([i \in DOMAIN calls |->
                   Asked(Opened(SubSeq(calls, 1, i - 1)), calls[i].attrs)])

AskedFor(h, record) == AskedBy(h.calls) \o Asked(Opened(h.calls), record.attrs)

\* The records a logger lets through.
Records(h) == {r \in [level : {LevelInfo, LevelError}, attrs : AttrLists] :
                  Enabled(h, r.level)}

\* The key of the JSON object that a field is, or is under: of a field in groups
\* it is the name of the outermost one.
TopLevelKey(field) == IF field.path = <<>> THEN field.key ELSE Head(field.path)

\* Where an entry has the top-level keys that Cloud Logging gives a meaning.
Meaningful(entry) == {k \in DOMAIN entry : isReserved(TopLevelKey(entry[k]))}

\* The outermost group of the logger has the name of a reserved key.
ReservedGroup(h) ==
    LET groups == Opened(h.calls)
    IN  groups # <<>> /\ isReserved(Head(groups))

\* Every logger, however it was derived, writes its own time, severity and
\* message at the top level, and every attribute the calls and the record gave is
\* in the entry, in its group.  Nothing that a caller named, attribute or group,
\* takes the place of those three, except where the outermost group itself was
\* given a reserved name: the code does not look at it (ReservedKeysOwn).
NothingHidden ==
    \A i \in DOMAIN loggers : \A record \in Records(loggers[i]) :
        LET entry == Handle(loggers[i], record, NoSpan)
        IN  /\ ~ReservedGroup(loggers[i]) => Meaningful(entry) = 1..3
            /\ SubSeq(entry, 1, 3) =
                 <<[path |-> <<>>, key |-> keyTime, value |-> "RFC3339Nano"],
                   [path |-> <<>>, key |-> keySeverity, value |-> severityOf(record.level)],
                   [path |-> <<>>, key |-> keyMessage, value |-> "text"]>>
            /\ SubSeq(entry, 4, Len(entry)) = AskedFor(loggers[i], record)

\* What the package comment says of the reserved keys: nobody but the handler
\* writes one at the top level of an entry, since "both survive" what collides.
ReservedKeysOwn ==
    \A i \in DOMAIN loggers : \A record \in Records(loggers[i]) :
        Meaningful(Handle(loggers[i], record, NoSpan)) = 1..3

\* A span adds its three fields at the top level, behind the record's own, and
\* changes nothing else: the calls replayed over the trace fields are the calls
\* the logger was derived by, whatever other loggers were derived since.
SpanOnlyAddsTrace ==
    \A i \in DOMAIN loggers : \A record \in Records(loggers[i]) : \A span \in Spans :
        LET without == Handle(loggers[i], record, NoSpan)
        IN  Handle(loggers[i], record, span) =
                SubSeq(without, 1, 3) \o Fields(<<>>, TraceFields(loggers[i], span))
                  \o SubSeq(without, 4, Len(without))
=============================================================================
