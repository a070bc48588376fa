-------------------------- MODULE MCServerLifecycle --------------------------
(* ServerLifecycle for TLC.  The steps of the process and the derivation of
   loggers share no variable once the first logger is there, so interleaving
   them shows nothing: a behaviour follows the process, or stays where the first
   logger was built and derives others from it.                              *)
EXTENDS ServerLifecycle

Time    == Attr(<<"time">>, "time", "caller's time")
Addr    == Attr(<<"addr">>, "string", "caller's address")
Trace   == Attr(<<cloudLoggingPrefix, "trace">>, "string", "caller's trace")
Message == Attr(<<"msg">>, "string", "caller's message")

Lists == {<<>>, <<Time, Trace, Message, Addr>>}

GroupNames == {<<"request">>, <<"message">>}

Step ==
    \/ Len(loggers) <= 1 /\ ProcessNext
    \/ pc = "notifyContext" /\ LoggersNext

MCSpec == Init /\ [][Step]_vars /\ WF_vars(Len(loggers) <= 1 /\ MainRunsOn)

=============================================================================
