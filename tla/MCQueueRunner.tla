---------------------------- MODULE MCQueueRunner ----------------------------
\* Instances of QueueRunner for TLC.
EXTENDS QueueRunner, TLC

CONSTANTS m1, m2, r1, r2, a1

MC_OneMsg     == {m1}
MC_TwoMsgs    == {m1, m2}
MC_OneRunner  == {r1}
MC_TwoRunners == {r1, r2}
MC_OneApp     == {a1}

\* Messages, and the runs of mq-run, are interchangeable.
MC_Symmetry == Permutations(MC_TwoMsgs) \cup Permutations(MC_TwoRunners)

MC_NoFaults     == {}
MC_Crash        == {"crash"}
MC_Interrupted  == {"crash", "replyLost", "exception"}
MC_All          == FaultKind

MC_Anywhere     == Busy
MC_Nowhere      == {}
MC_NotInMove    == Busy \ {"unlink", "flush"}
MC_InMove       == {"unlink"}
MC_InRewrite    == {"flush"}
MC_InDelivery   == {"send", "sent"}
=============================================================================
