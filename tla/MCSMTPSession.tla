---------------------------- MODULE MCSMTPSession ----------------------------
\* Instances of SMTPSession for TLC.
EXTENDS SMTPSession, TLC

CONSTANTS m1, m2, m3, m4, x, y, z

MC_TwoMsgs   == {m1, m2}
MC_FourMsgs  == {m1, m2, m3, m4}
MC_Rcpt      == {x, y, z}
\* Each message has recipients in common with others, and a list of its own.
MC_Recipients ==
    [m \in Msg |-> CASE m = m1 -> <<x, z>> [] m = m2 -> <<z>>
                      [] m = m3 -> <<x, y>> [] m = m4 -> <<x>>]

\* The mailer's own clients; those and what an application may give it.  ("bare"
\* is what a "connected" client becomes when its connection is closed.)
MC_New       == {"new"}
MC_All       == {"new", "named", "connected"}

MC_Plain     == {}
\* m4 fails before MAIL, m3 half-way, after its first recipient was accepted.
MC_Odd       == {m4, y}
=============================================================================
