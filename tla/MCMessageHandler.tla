-------------------------- MODULE MCMessageHandler --------------------------
\* Instances of MessageHandler for TLC.
EXTENDS MessageHandler, TLC

CONSTANTS m1, f1, f2, f3, f4, w1, w2

MC_OneMsg     == {m1}
MC_Files      == {f1, f2, f3, f4}
MC_OneWorker  == {w1}
MC_TwoWorkers == {w1, w2}

MC_NoFaults == {}
MC_All      == FaultKind

\* No queue, a queue for what could not be sent, two servers.
MC_CallerLists == {<<"smtp">>, <<"smtp", "maildir">>, <<"smtp", "smtp">>}
MC_Fallback    == {<<"smtp", "maildir">>}

\* No plugin, a plugin that discards at once; mq-run with a handler that puts
\* what it cannot send into the queue again; a server that never accepts, and
\* a plugin that gives up; a message that cannot be logged.
MC_Configs ==
    [limit : {0, NoLimit}, handler : {<<"smtp">>}, noId : {{}}, outage : {FALSE}]
    \cup [limit : {NoLimit}, handler : {<<"smtp", "maildir">>}, noId : {{}},
          outage : {FALSE}]
    \cup [limit : {1}, handler : {<<"smtp">>}, noId : {{}}, outage : {TRUE}]
    \cup [limit : {0}, handler : {<<"smtp">>}, noId : {{m1}}, outage : {FALSE}]

MC_NoMessageId ==
    [limit : {NoLimit}, handler : {<<"smtp">>}, noId : {{m1}}, outage : {FALSE}]
=============================================================================
