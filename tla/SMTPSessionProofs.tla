-------------------------- MODULE SMTPSessionProofs --------------------------
(***************************************************************************)
(* What holds of SMTPSession for any messages, recipients, clients and     *)
(* bounds: types, AllOrNothing, Protected, Truthful, CleanSendSucceeds,    *)
(* and that it implements Attempt.                                         *)
(* The invariant says that the server's transaction is what the client has *)
(* told it for this message, at every point where it could be completed.   *)
(* Each action is looked at once per part of the invariant.                *)
(***************************************************************************)
EXTENDS SMTPSession, SequenceTheorems, FiniteSetTheorems, TLAPS

-----------------------------------------------------------------------------
\* Telling the server the next recipient moves it from one list to the other.
LEMMA NextRecipient ==
  ASSUME NEW S, NEW s \in Seq(S), NEW t \in Seq(S), t # <<>>
  PROVE  /\ Head(t) \in S /\ Tail(t) \in Seq(S)
         /\ Append(s, Head(t)) \in Seq(S)
         /\ Append(s, Head(t)) \o Tail(t) = s \o t
<1>1. Head(t) \in S /\ Tail(t) \in Seq(S) /\ t = <<Head(t)>> \o Tail(t)
  BY HeadTailProperties
<1>2. <<Head(t)>> \in Seq(S)
  BY <1>1
<1>3. Append(s, Head(t)) = s \o <<Head(t)>>
  BY <1>1, AppendIsConcat
<1>4. (s \o <<Head(t)>>) \o Tail(t) = s \o (<<Head(t)>> \o Tail(t))
  BY <1>1, <1>2, ConcatAssociative
<1> QED
  BY <1>1, <1>3, <1>4, AppendProperties

\* The sessions the actions make are sessions.
LEMMA Sessions ==
  /\ NoSession \in Session
  /\ \A p \in {"host", "localhost", "nowhere"} :
       NewSession(p) \in Session /\ [NewSession(p) EXCEPT !.tls = TRUE] \in Session
  /\ Place \in {"host", "localhost", "nowhere"}
  /\ <<>> \in Seq(Rcpt)
  /\ \A s \in Session :
       /\ Cleared(s) \in Session /\ Down(s) \in Session /\ Hello(s) \in Session
       /\ [s EXCEPT !.authed = TRUE] \in Session
       /\ \A m \in Msg : [s EXCEPT !.from = m, !.rcpts = <<>>] \in Session
       /\ \A q \in Seq(Rcpt) : [s EXCEPT !.rcpts = q] \in Session
<1>1. <<>> \in Seq(Rcpt)
  BY EmptySeq
<1> QED
  BY <1>1 DEF Session, NoSession, NewSession, Place, Cleared, Down, Hello

-----------------------------------------------------------------------------
\* TypeOK in parts.
DialogTypes == /\ pc \in Dialog \cup {"idle", "connect"}
               /\ msg \in Msg \cup {NoMsg} /\ todo \in Seq(Rcpt)
               /\ sock \in BOOLEAN /\ srv \in Session
               /\ result \in [Msg -> {"none", "sent", "failed", "raised"}]
CountTypes  == /\ refusals \in 0 .. MaxRefusals /\ faults \in 0 .. MaxFaults
               /\ lost \in 0 .. MaxFaults /\ lost <= faults
FlagTypes   == /\ offersTls \in BOOLEAN
               /\ troubled \in BOOLEAN
ClientTypes == auths \in 0 .. MaxAuths

\* Ending a message, and going on with it, keep the types.
LEMMA ReturnTypes ==
  ASSUME DialogTypes, NEW v \in {"sent", "failed", "raised"},
         NEW open \in BOOLEAN, NEW s \in Session, Return(v, open, s)
  PROVE  DialogTypes'
<1>1. srv' \in Session /\ todo' \in Seq(Rcpt)
  BY Sessions DEF Return
<1>2. sock' \in BOOLEAN
  BY DEF Return, Reuse
<1> QED
  BY <1>1, <1>2 DEF DialogTypes, Return

\* So does giving up, with the connection left open or closed.
LEMMA FailTypes ==
  ASSUME DialogTypes, NEW s \in Session, Fail(s) \/ CloseAndFail
  PROVE  DialogTypes'
  BY ReturnTypes, Sessions DEF Fail, CloseAndFail

\* So does going on to the next command.
LEMMA AdvanceTypes ==
  ASSUME DialogTypes, NEW next \in Dialog, NEW s \in Session, Advance(next, s),
         todo' \in Seq(Rcpt)
  PROVE  DialogTypes'
  BY DEF DialogTypes, Advance

\* What the server does costs at most one refusal or fault.
LEMMA ServerTypes ==
  ASSUME CountTypes, Served \/ Refused \/ Fault, lost' = lost
  PROVE  CountTypes'
  BY BoundAssumption DEF CountTypes, Served, Refused, Fault

\* What the server does leaves troubled a flag.
LEMMA ServerFlags ==
  ASSUME troubled \in BOOLEAN, Served \/ Refused \/ Fault
  PROVE  troubled' \in BOOLEAN
  BY DEF Served, Refused, Fault

\* Every step keeps the types.
LEMMA TypesKept ==
  ASSUME IInv, [Next]_vars
  PROVE  TypeOK' /\ lost' <= faults'
<1>1. /\ DialogTypes /\ CountTypes /\ ClientTypes /\ FlagTypes
      /\ delivered \in Seq(Delivery) /\ client' \in Clients
  BY DEF IInv, TypeOK, DialogTypes, CountTypes, ClientTypes, FlagTypes, Next, vars
<1>2. SUFFICES /\ DialogTypes' /\ CountTypes' /\ ClientTypes' /\ FlagTypes'
               /\ delivered' \in Seq(Delivery)
  BY <1>1 DEF TypeOK, DialogTypes, CountTypes, ClientTypes, FlagTypes
<1>3. pc # "idle" => msg \in Msg
  BY DEF IInv, EnvelopeInv
<1>4. Envelope \in Delivery
  BY <1>1 DEF DialogTypes, Session, Delivery, Envelope
<1>5. AfterHello \in Dialog
  BY DEF AfterHello, Dialog
<1> USE <1>1
<1>6. CASE Connect
  <2>1. DialogTypes'
    BY <1>6, Sessions, <1>3, <1>5, ReturnTypes, FailTypes, AdvanceTypes DEF
       Connect, Dialog, DialogTypes
  <2>2. CountTypes'
    BY <1>6, ServerTypes DEF Connect
  <2>3. ClientTypes'
    BY <1>6, BoundAssumption DEF Connect, ClientTypes
  <2>5. FlagTypes'
    BY <1>6, ServerFlags DEF Connect, FlagTypes
  <2>4. delivered' \in Seq(Delivery)
    BY <1>6 DEF Connect
  <2> QED
    BY <2>1, <2>2, <2>3, <2>4, <2>5
<1>7. CASE BadGreeting
  <2>1. DialogTypes'
    BY <1>7, Sessions, <1>3, <1>5, ReturnTypes, FailTypes, AdvanceTypes DEF
       BadGreeting, Dialog, DialogTypes
  <2>2. CountTypes'
    BY <1>7, ServerTypes DEF BadGreeting
  <2>3. ClientTypes'
    BY <1>7, BoundAssumption DEF BadGreeting, ClientTypes
  <2>5. FlagTypes'
    BY <1>7, ServerFlags DEF BadGreeting, FlagTypes
  <2>4. delivered' \in Seq(Delivery)
    BY <1>7 DEF BadGreeting
  <2> QED
    BY <2>1, <2>2, <2>3, <2>4, <2>5
<1>8. CASE ConnectError
  <2>1. DialogTypes'
    BY <1>8, Sessions, <1>3, <1>5, ReturnTypes, FailTypes, AdvanceTypes DEF
       ConnectError, Dialog, DialogTypes
  <2>2. CountTypes'
    BY <1>8, ServerTypes DEF ConnectError
  <2>3. ClientTypes'
    BY <1>8, BoundAssumption DEF ConnectError, ClientTypes
  <2>5. FlagTypes'
    BY <1>8, ServerFlags DEF ConnectError, FlagTypes
  <2>4. delivered' \in Seq(Delivery)
    BY <1>8 DEF ConnectError
  <2> QED
    BY <2>1, <2>2, <2>3, <2>4, <2>5
<1>9. CASE Ehlo
  <2>1. DialogTypes'
    BY <1>9, Sessions, <1>3, <1>5, ReturnTypes, FailTypes, AdvanceTypes DEF
       Ehlo, Dialog, Features, DialogTypes
  <2>2. CountTypes'
    BY <1>9, ServerTypes DEF Ehlo, Features
  <2>3. ClientTypes'
    BY <1>9, BoundAssumption DEF Ehlo, Features, ClientTypes
  <2>5. FlagTypes'
    BY <1>9, ServerFlags DEF Ehlo, Features, FlagTypes
  <2>4. delivered' \in Seq(Delivery)
    BY <1>9 DEF Ehlo, Features
  <2> QED
    BY <2>1, <2>2, <2>3, <2>4, <2>5
<1>10. CASE EhloRefused
  <2>1. DialogTypes'
    BY <1>10, Sessions, <1>3, <1>5, ReturnTypes, FailTypes, AdvanceTypes DEF
       EhloRefused, Dialog, DialogTypes
  <2>2. CountTypes'
    BY <1>10, ServerTypes DEF EhloRefused
  <2>3. ClientTypes'
    BY <1>10, BoundAssumption DEF EhloRefused, ClientTypes
  <2>5. FlagTypes'
    BY <1>10, ServerFlags DEF EhloRefused, FlagTypes
  <2>4. delivered' \in Seq(Delivery)
    BY <1>10 DEF EhloRefused
  <2> QED
    BY <2>1, <2>2, <2>3, <2>4, <2>5
<1>11. CASE Starttls
  <2>0. [NewSession(srv.at) EXCEPT !.tls = TRUE] \in Session
    BY Sessions DEF DialogTypes, Session
  <2>1. DialogTypes'
    BY <1>11, <2>0, Sessions, <1>3, <1>5, ReturnTypes, FailTypes, AdvanceTypes DEF
       Starttls, Dialog, DialogTypes
  <2>2. CountTypes'
    BY <1>11, ServerTypes DEF Starttls
  <2>3. ClientTypes'
    BY <1>11, BoundAssumption DEF Starttls, ClientTypes
  <2>5. FlagTypes'
    BY <1>11, ServerFlags DEF Starttls, FlagTypes
  <2>4. delivered' \in Seq(Delivery)
    BY <1>11 DEF Starttls
  <2> QED
    BY <2>1, <2>2, <2>3, <2>4, <2>5
<1>34. CASE StarttlsNoHost
  <2>1. DialogTypes'
    BY <1>34, Sessions, <1>3, ReturnTypes DEF StarttlsNoHost, Dialog, DialogTypes
  <2>2. CountTypes'
    BY <1>34, ServerTypes DEF StarttlsNoHost
  <2>3. ClientTypes'
    BY <1>34, BoundAssumption DEF StarttlsNoHost, ClientTypes
  <2>5. FlagTypes'
    BY <1>34, ServerFlags DEF StarttlsNoHost, FlagTypes
  <2>4. delivered' \in Seq(Delivery)
    BY <1>34 DEF StarttlsNoHost
  <2> QED
    BY <2>1, <2>2, <2>3, <2>4, <2>5
<1>12. CASE StarttlsFails
  <2>1. DialogTypes'
    BY <1>12, Sessions, <1>3, <1>5, ReturnTypes, FailTypes, AdvanceTypes DEF
       StarttlsFails, Dialog, DialogTypes
  <2>2. CountTypes'
    BY <1>12, ServerTypes DEF StarttlsFails
  <2>3. ClientTypes'
    BY <1>12, BoundAssumption DEF StarttlsFails, ClientTypes
  <2>5. FlagTypes'
    BY <1>12, ServerFlags DEF StarttlsFails, FlagTypes
  <2>4. delivered' \in Seq(Delivery)
    BY <1>12 DEF StarttlsFails
  <2> QED
    BY <2>1, <2>2, <2>3, <2>4, <2>5
<1>13. CASE Auth
  <2>1. DialogTypes'
    BY <1>13, Sessions, <1>3, <1>5, ReturnTypes, FailTypes, AdvanceTypes DEF
       Auth, Dialog, DialogTypes
  <2>2. CountTypes'
    BY <1>13, ServerTypes DEF Auth
  <2>3. ClientTypes'
    BY <1>13, BoundAssumption DEF Auth, ClientTypes
  <2>5. FlagTypes'
    BY <1>13, ServerFlags DEF Auth, FlagTypes
  <2>4. delivered' \in Seq(Delivery)
    BY <1>13 DEF Auth
  <2> QED
    BY <2>1, <2>2, <2>3, <2>4, <2>5
<1>14. CASE AuthRefused
  <2>1. DialogTypes'
    BY <1>14, Sessions, <1>3, <1>5, ReturnTypes, FailTypes, AdvanceTypes DEF
       AuthRefused, Dialog, DialogTypes
  <2>2. CountTypes'
    BY <1>14, ServerTypes DEF AuthRefused
  <2>3. ClientTypes'
    BY <1>14, BoundAssumption DEF AuthRefused, ClientTypes
  <2>5. FlagTypes'
    BY <1>14, ServerFlags DEF AuthRefused, FlagTypes
  <2>4. delivered' \in Seq(Delivery)
    BY <1>14 DEF AuthRefused
  <2> QED
    BY <2>1, <2>2, <2>3, <2>4, <2>5
<1>15. CASE NoAuth
  <2>1. DialogTypes'
    BY <1>15, Sessions, <1>3, <1>5, ReturnTypes, FailTypes, AdvanceTypes DEF
       NoAuth, Dialog, DialogTypes
  <2>2. CountTypes'
    BY <1>15, ServerTypes DEF NoAuth
  <2>3. ClientTypes'
    BY <1>15, BoundAssumption DEF NoAuth, ClientTypes
  <2>5. FlagTypes'
    BY <1>15, ServerFlags DEF NoAuth, FlagTypes
  <2>4. delivered' \in Seq(Delivery)
    BY <1>15 DEF NoAuth
  <2> QED
    BY <2>1, <2>2, <2>3, <2>4, <2>5
<1>16. CASE Mail
  <2>1. DialogTypes'
    BY <1>16, Sessions, <1>3, <1>5, MessageAssumption, ReturnTypes, FailTypes,
       AdvanceTypes DEF Mail, Dialog, DialogTypes
  <2>2. CountTypes'
    BY <1>16, ServerTypes DEF Mail
  <2>3. ClientTypes'
    BY <1>16, BoundAssumption DEF Mail, ClientTypes
  <2>5. FlagTypes'
    BY <1>16, ServerFlags DEF Mail, FlagTypes
  <2>4. delivered' \in Seq(Delivery)
    BY <1>16 DEF Mail
  <2> QED
    BY <2>1, <2>2, <2>3, <2>4, <2>5
<1>17. CASE MailRefused
  <2>1. DialogTypes'
    BY <1>17, Sessions, <1>3, <1>5, ReturnTypes, FailTypes, AdvanceTypes DEF
       MailRefused, Dialog, DialogTypes
  <2>2. CountTypes'
    BY <1>17, ServerTypes DEF MailRefused
  <2>3. ClientTypes'
    BY <1>17, BoundAssumption DEF MailRefused, ClientTypes
  <2>5. FlagTypes'
    BY <1>17, ServerFlags DEF MailRefused, FlagTypes
  <2>4. delivered' \in Seq(Delivery)
    BY <1>17 DEF MailRefused
  <2> QED
    BY <2>1, <2>2, <2>3, <2>4, <2>5
<1>18. CASE MailUnsendable
  <2>1. DialogTypes'
    BY <1>18, Sessions, <1>3, <1>5, ReturnTypes, FailTypes, AdvanceTypes DEF
       MailUnsendable, Dialog, Unsendable, DialogTypes
  <2>2. CountTypes'
    BY <1>18, ServerTypes DEF MailUnsendable, Unsendable
  <2>3. ClientTypes'
    BY <1>18, BoundAssumption DEF MailUnsendable, Unsendable, ClientTypes
  <2>5. FlagTypes'
    BY <1>18, ServerFlags DEF MailUnsendable, Unsendable, FlagTypes
  <2>4. delivered' \in Seq(Delivery)
    BY <1>18 DEF MailUnsendable, Unsendable
  <2> QED
    BY <2>1, <2>2, <2>3, <2>4, <2>5
<1>19. CASE RcptAccepted
  <2>0. todo # <<>> /\ srv.rcpts \in Seq(Rcpt)
    BY <1>19 DEF IInv, EnvelopeInv, DialogTypes, Session, RcptAccepted
  <2>1. DialogTypes'
    BY <1>19, Sessions, <2>0, NextRecipient, ReturnTypes, FailTypes,
       AdvanceTypes DEF RcptAccepted, Dialog, DialogTypes
  <2>2. CountTypes'
    BY <1>19, ServerTypes DEF RcptAccepted
  <2>3. ClientTypes'
    BY <1>19, BoundAssumption DEF RcptAccepted, ClientTypes
  <2>5. FlagTypes'
    BY <1>19, ServerFlags DEF RcptAccepted, FlagTypes
  <2>4. delivered' \in Seq(Delivery)
    BY <1>19 DEF RcptAccepted
  <2> QED
    BY <2>1, <2>2, <2>3, <2>4, <2>5
<1>20. CASE RcptRefused
  <2>1. DialogTypes'
    BY <1>20, Sessions, <1>3, <1>5, ReturnTypes, FailTypes, AdvanceTypes DEF
       RcptRefused, Dialog, DialogTypes
  <2>2. CountTypes'
    BY <1>20, ServerTypes DEF RcptRefused
  <2>3. ClientTypes'
    BY <1>20, BoundAssumption DEF RcptRefused, ClientTypes
  <2>5. FlagTypes'
    BY <1>20, ServerFlags DEF RcptRefused, FlagTypes
  <2>4. delivered' \in Seq(Delivery)
    BY <1>20 DEF RcptRefused
  <2> QED
    BY <2>1, <2>2, <2>3, <2>4, <2>5
<1>21. CASE RcptUnsendable
  <2>1. DialogTypes'
    BY <1>21, Sessions, <1>3, <1>5, ReturnTypes, FailTypes, AdvanceTypes DEF
       RcptUnsendable, Dialog, Unsendable, DialogTypes
  <2>2. CountTypes'
    BY <1>21, ServerTypes DEF RcptUnsendable, Unsendable
  <2>3. ClientTypes'
    BY <1>21, BoundAssumption DEF RcptUnsendable, Unsendable, ClientTypes
  <2>5. FlagTypes'
    BY <1>21, ServerFlags DEF RcptUnsendable, Unsendable, FlagTypes
  <2>4. delivered' \in Seq(Delivery)
    BY <1>21 DEF RcptUnsendable, Unsendable
  <2> QED
    BY <2>1, <2>2, <2>3, <2>4, <2>5
<1>22. CASE Data
  <2>1. DialogTypes'
    BY <1>22, Sessions, <1>3, <1>5, ReturnTypes, FailTypes, AdvanceTypes DEF
       Data, Dialog, DialogTypes
  <2>2. CountTypes'
    BY <1>22, ServerTypes DEF Data
  <2>3. ClientTypes'
    BY <1>22, BoundAssumption DEF Data, ClientTypes
  <2>5. FlagTypes'
    BY <1>22, ServerFlags DEF Data, FlagTypes
  <2>4. delivered' \in Seq(Delivery)
    BY <1>22 DEF Data
  <2> QED
    BY <2>1, <2>2, <2>3, <2>4, <2>5
<1>23. CASE DataRefused
  <2>1. DialogTypes'
    BY <1>23, Sessions, <1>3, <1>5, ReturnTypes, FailTypes, AdvanceTypes DEF
       DataRefused, Dialog, DialogTypes
  <2>2. CountTypes'
    BY <1>23, ServerTypes DEF DataRefused
  <2>3. ClientTypes'
    BY <1>23, BoundAssumption DEF DataRefused, ClientTypes
  <2>5. FlagTypes'
    BY <1>23, ServerFlags DEF DataRefused, FlagTypes
  <2>4. delivered' \in Seq(Delivery)
    BY <1>23 DEF DataRefused
  <2> QED
    BY <2>1, <2>2, <2>3, <2>4, <2>5
<1>24. CASE BodyAccepted
  <2>1. DialogTypes'
    BY <1>24, Sessions, <1>3, <1>5, ReturnTypes, FailTypes, AdvanceTypes DEF
       BodyAccepted, Dialog, DialogTypes
  <2>2. CountTypes'
    BY <1>24, ServerTypes DEF BodyAccepted
  <2>3. ClientTypes'
    BY <1>24, BoundAssumption DEF BodyAccepted, ClientTypes
  <2>5. FlagTypes'
    BY <1>24, ServerFlags DEF BodyAccepted, FlagTypes
  <2>4. delivered' \in Seq(Delivery)
    BY <1>24, <1>4, AppendProperties DEF BodyAccepted
  <2> QED
    BY <2>1, <2>2, <2>3, <2>4, <2>5
<1>25. CASE BodyRefused
  <2>1. DialogTypes'
    BY <1>25, Sessions, <1>3, <1>5, ReturnTypes, FailTypes, AdvanceTypes DEF
       BodyRefused, Dialog, DialogTypes
  <2>2. CountTypes'
    BY <1>25, ServerTypes DEF BodyRefused
  <2>3. ClientTypes'
    BY <1>25, BoundAssumption DEF BodyRefused, ClientTypes
  <2>5. FlagTypes'
    BY <1>25, ServerFlags DEF BodyRefused, FlagTypes
  <2>4. delivered' \in Seq(Delivery)
    BY <1>25 DEF BodyRefused
  <2> QED
    BY <2>1, <2>2, <2>3, <2>4, <2>5
<1>26. CASE Bye
  <2>1. DialogTypes'
    BY <1>26, Sessions, <1>3, <1>5, ReturnTypes, FailTypes, AdvanceTypes DEF
       Bye, Dialog, DialogTypes
  <2>2. CountTypes'
    BY <1>26, ServerTypes DEF Bye
  <2>3. ClientTypes'
    BY <1>26, BoundAssumption DEF Bye, ClientTypes
  <2>5. FlagTypes'
    BY <1>26, ServerFlags DEF Bye, FlagTypes
  <2>4. delivered' \in Seq(Delivery)
    BY <1>26 DEF Bye
  <2> QED
    BY <2>1, <2>2, <2>3, <2>4, <2>5
<1>27. CASE Rset
  <2>1. DialogTypes'
    BY <1>27, Sessions, <1>3, <1>5, ReturnTypes, FailTypes, AdvanceTypes DEF
       Rset, Dialog, DialogTypes
  <2>2. CountTypes'
    BY <1>27, ServerTypes DEF Rset
  <2>3. ClientTypes'
    BY <1>27, BoundAssumption DEF Rset, ClientTypes
  <2>5. FlagTypes'
    BY <1>27, ServerFlags DEF Rset, FlagTypes
  <2>4. delivered' \in Seq(Delivery)
    BY <1>27 DEF Rset
  <2> QED
    BY <2>1, <2>2, <2>3, <2>4, <2>5
<1>28. CASE RsetRefused
  <2>1. DialogTypes'
    BY <1>28, Sessions, <1>3, <1>5, ReturnTypes, FailTypes, AdvanceTypes DEF
       RsetRefused, Dialog, DialogTypes
  <2>2. CountTypes'
    BY <1>28, ServerTypes DEF RsetRefused
  <2>3. ClientTypes'
    BY <1>28, BoundAssumption DEF RsetRefused, ClientTypes
  <2>5. FlagTypes'
    BY <1>28, ServerFlags DEF RsetRefused, FlagTypes
  <2>4. delivered' \in Seq(Delivery)
    BY <1>28 DEF RsetRefused
  <2> QED
    BY <2>1, <2>2, <2>3, <2>4, <2>5
<1>29. CASE Quit
  <2>1. DialogTypes'
    BY <1>29, Sessions, <1>3, <1>5, ReturnTypes, FailTypes, AdvanceTypes DEF
       Quit, Dialog, DialogTypes
  <2>2. CountTypes'
    BY <1>29, ServerTypes DEF Quit
  <2>3. ClientTypes'
    BY <1>29, BoundAssumption DEF Quit, ClientTypes
  <2>5. FlagTypes'
    BY <1>29, ServerFlags DEF Quit, FlagTypes
  <2>4. delivered' \in Seq(Delivery)
    BY <1>29 DEF Quit
  <2> QED
    BY <2>1, <2>2, <2>3, <2>4, <2>5
<1>30. CASE Break
  <2>1. DialogTypes'
    BY <1>30, Sessions, <1>3, <1>5, ReturnTypes, FailTypes, AdvanceTypes DEF
       Break, Dialog, DialogTypes
  <2>2. CountTypes'
    BY <1>30, BoundAssumption DEF Break, Disconnected, CountTypes, Fault,
       Served
  <2>3. ClientTypes'
    BY <1>30, BoundAssumption DEF Break, Disconnected, ClientTypes
  <2>5. FlagTypes'
    BY <1>30, ServerFlags DEF Break, Disconnected, FlagTypes
  <2>4. delivered' \in Seq(Delivery)
    BY <1>30, <1>4, AppendProperties DEF Break, Disconnected
  <2> QED
    BY <2>1, <2>2, <2>3, <2>4, <2>5
<1>31. CASE Hangup
  <2>1. DialogTypes'
    BY <1>31, Sessions, <1>3, <1>5, ReturnTypes, FailTypes, AdvanceTypes DEF
       Hangup, Dialog, DialogTypes
  <2>2. CountTypes'
    BY <1>31, BoundAssumption DEF Hangup, CountTypes, bounds
  <2>3. ClientTypes'
    BY <1>31, BoundAssumption DEF Hangup, ClientTypes
  <2>5. FlagTypes'
    BY <1>31, ServerFlags DEF Hangup, FlagTypes
  <2>4. delivered' \in Seq(Delivery)
    BY <1>31 DEF Hangup
  <2> QED
    BY <2>1, <2>2, <2>3, <2>4, <2>5
<1>32. CASE \E m \in Msg : Send(m)
  <2>1. DialogTypes'
    BY <1>32 DEF Send, DialogTypes, Dialog
  <2>2. CountTypes' /\ ClientTypes'
    BY <1>32 DEF Send, CountTypes, ClientTypes, bounds
  <2>3. delivered' \in Seq(Delivery) /\ FlagTypes'
    BY <1>32 DEF Send, FlagTypes, DialogTypes, Session
  <2> QED
    BY <2>1, <2>2, <2>3
<1>33. CASE UNCHANGED vars
  BY <1>33 DEF vars, bounds, DialogTypes, CountTypes, ClientTypes, FlagTypes
<1> QED
  BY <1>6, <1>7, <1>8, <1>9, <1>10, <1>11, <1>12, <1>13, <1>14, <1>15, <1>16,
     <1>17, <1>18, <1>19, <1>20, <1>21, <1>22, <1>23, <1>24, <1>25, <1>26,
     <1>27, <1>28, <1>29, <1>30, <1>31, <1>32, <1>33, <1>34 DEF Next, Step

\* Every step keeps the server's transaction in line with the client.
LEMMA EnvelopeKept ==
  ASSUME IInv, [Next]_vars
  PROVE  EnvelopeInv' /\ TlsInv' /\ Protected'
<1>1. CASE Connect
  BY <1>1, BoundAssumption, MessageAssumption DEF TypeOK, Session,
     EnvelopeInv, TlsInv, Protected, Dialog, IInv, Connect, NewSession,
     NoSession, Served
<1>2. CASE BadGreeting
  BY <1>2, BoundAssumption, MessageAssumption DEF TypeOK, Session,
     EnvelopeInv, TlsInv, Protected, Dialog, IInv, BadGreeting, Refused,
     CloseAndFail, Return, NewSession, NoSession
<1>3. CASE ConnectError
  BY <1>3, BoundAssumption, MessageAssumption DEF TypeOK, Session,
     EnvelopeInv, TlsInv, Protected, Dialog, IInv, ConnectError, Fault,
     CloseAndFail, Return, NoSession
<1>4. CASE Ehlo
  BY <1>4, BoundAssumption, MessageAssumption DEF TypeOK, Session,
     EnvelopeInv, TlsInv, Protected, Dialog, IInv, Ehlo, Features, Hello,
     Cleared, Advance, AfterHello, Refused, Served
<1>5. CASE EhloRefused
  BY <1>5, BoundAssumption, MessageAssumption DEF TypeOK, Session,
     EnvelopeInv, TlsInv, Protected, Dialog, IInv, EhloRefused, Refused,
     Advance, AfterHello, Down
<1>6. CASE Starttls
  BY <1>6, BoundAssumption, MessageAssumption DEF TypeOK, Session,
     EnvelopeInv, TlsInv, Protected, Dialog, IInv, Starttls, Advance,
     NewSession, NoSession, Served
<1>29. CASE StarttlsNoHost
  BY <1>29 DEF EnvelopeInv, TlsInv, Protected, StarttlsNoHost, Return
<1>7. CASE StarttlsFails
  BY <1>7, BoundAssumption, MessageAssumption DEF TypeOK, Session,
     EnvelopeInv, TlsInv, Protected, Dialog, IInv, StarttlsFails, Refused,
     Fail, Return, Down, NoSession
<1>8. CASE Auth
  BY <1>8, BoundAssumption, MessageAssumption DEF TypeOK, Session,
     EnvelopeInv, TlsInv, Protected, Dialog, IInv, Auth, Advance, Served
<1>9. CASE AuthRefused
  <2>1. \/ pc' = "idle"
        \/ /\ pc' = "login" /\ msg' = msg /\ offersTls' = offersTls
           /\ srv' \in {srv, Down(srv)}
    BY <1>9 DEF AuthRefused, Fail, Return, Advance
  <2>2. msg \in Msg /\ (~offersTls \/ srv.tls)
    BY <1>9 DEF AuthRefused, IInv, EnvelopeInv, Protected
  <2>3. Down(srv).tls = srv.tls
    BY DEF Down, IInv, TypeOK, Session
  <2> QED
    BY <2>1, <2>2, <2>3 DEF EnvelopeInv, TlsInv, Protected
<1>10. CASE NoAuth
  BY <1>10, BoundAssumption, MessageAssumption DEF TypeOK, Session,
     EnvelopeInv, TlsInv, Protected, Dialog, IInv, NoAuth, Fail, Return,
     Served, NoSession
<1>11. CASE Mail
  BY <1>11, BoundAssumption, MessageAssumption DEF TypeOK, Session,
     EnvelopeInv, TlsInv, Protected, Dialog, IInv, Mail, Advance, Served
<1>12. CASE MailRefused
  BY <1>12, BoundAssumption, MessageAssumption DEF TypeOK, Session,
     EnvelopeInv, TlsInv, Protected, Dialog, IInv, MailRefused, Refused,
     Served, Advance
<1>13. CASE MailUnsendable
  BY <1>13, BoundAssumption, MessageAssumption DEF TypeOK, Session,
     EnvelopeInv, TlsInv, Protected, Dialog, IInv, MailUnsendable, Unsendable,
     Return, Served, NoSession
<1>14. CASE RcptAccepted
  <2>1. /\ todo # <<>> /\ todo \in Seq(Rcpt) /\ srv \in Session
        /\ srv.rcpts \in Seq(Rcpt) /\ msg \in Msg /\ srv.from = msg
        /\ srv.rcpts \o todo = Recipients[msg]
    BY <1>14 DEF IInv, RcptAccepted, TypeOK, Session, EnvelopeInv
  <2>2. /\ Append(srv.rcpts, Head(todo)) \o todo' = Recipients[msg]
        /\ Append(srv.rcpts, Head(todo)) \in Seq(Rcpt)
    <3>1. todo' = Tail(todo)
      BY <1>14 DEF RcptAccepted
    <3>2. /\ Append(srv.rcpts, Head(todo)) \in Seq(Rcpt)
          /\ Append(srv.rcpts, Head(todo)) \o Tail(todo) = srv.rcpts \o todo
      BY <2>1, NextRecipient
    <3> QED
      BY <2>1, <3>1, <3>2
  <2>3. todo' = <<>> => Append(srv.rcpts, Head(todo)) = Recipients[msg]
    BY <2>2, ConcatEmptySeq
  <2>4. /\ srv'.from = srv.from /\ srv'.rcpts = Append(srv.rcpts, Head(todo))
        /\ srv'.tls = srv.tls /\ srv'.authed = srv.authed
        /\ pc' = (IF todo' = <<>> THEN "data" ELSE "rcpt")
        /\ msg' = msg /\ offersTls' = offersTls
    BY <1>14, <2>1 DEF RcptAccepted, Advance, Session
  <2>5. (~offersTls \/ srv.tls) /\ (Login => srv.authed)
    BY <1>14 DEF RcptAccepted, IInv, Protected
  <2> QED
    BY <2>1, <2>2, <2>3, <2>4, <2>5 DEF EnvelopeInv, TlsInv, Protected
<1>15. CASE RcptRefused
  BY <1>15, BoundAssumption, MessageAssumption DEF TypeOK, Session,
     EnvelopeInv, TlsInv, Protected, Dialog, IInv, RcptRefused, Refused,
     Advance
<1>16. CASE RcptUnsendable
  BY <1>16, BoundAssumption, MessageAssumption DEF TypeOK, Session,
     EnvelopeInv, TlsInv, Protected, Dialog, IInv, RcptUnsendable, Unsendable,
     Return, Served, NoSession
<1>17. CASE Data
  BY <1>17, BoundAssumption, MessageAssumption DEF TypeOK, Session,
     EnvelopeInv, TlsInv, Protected, Dialog, IInv, Data, Advance, Served
<1>18. CASE DataRefused
  BY <1>18, BoundAssumption, MessageAssumption DEF TypeOK, Session,
     EnvelopeInv, TlsInv, Protected, Dialog, IInv, DataRefused, Refused, Fail,
     Return, Down, NoSession
<1>19. CASE BodyAccepted
  BY <1>19, BoundAssumption, MessageAssumption DEF TypeOK, Session,
     EnvelopeInv, TlsInv, Protected, Dialog, IInv, BodyAccepted, Envelope,
     Advance, Cleared, Served
<1>20. CASE BodyRefused
  BY <1>20, BoundAssumption, MessageAssumption DEF TypeOK, Session,
     EnvelopeInv, TlsInv, Protected, Dialog, IInv, BodyRefused, Refused,
     Advance, Cleared
<1>21. CASE Bye
  BY <1>21, BoundAssumption, MessageAssumption DEF TypeOK, Session,
     EnvelopeInv, TlsInv, Protected, Dialog, IInv, Bye, Refused, CloseAndFail,
     Return, NoSession
<1>22. CASE Rset
  BY <1>22, BoundAssumption, MessageAssumption DEF TypeOK, Session,
     EnvelopeInv, TlsInv, Protected, Dialog, IInv, Rset, Fail, Return,
     Cleared, Served, NoSession
<1>23. CASE RsetRefused
  BY <1>23, BoundAssumption, MessageAssumption DEF TypeOK, Session,
     EnvelopeInv, TlsInv, Protected, Dialog, IInv, RsetRefused, Refused, Fail,
     Return, NoSession
<1>24. CASE Quit
  BY <1>24, BoundAssumption, MessageAssumption DEF TypeOK, Session,
     EnvelopeInv, TlsInv, Protected, Dialog, IInv, Quit, Return, NoSession,
     Served
<1>25. CASE Break
  BY <1>25, BoundAssumption, MessageAssumption DEF TypeOK, Session,
     EnvelopeInv, TlsInv, Protected, Dialog, IInv, Break, Disconnected, Fault,
     Served, Envelope, CloseAndFail, Return, NoSession
<1>26. CASE Hangup
  BY <1>26, BoundAssumption, MessageAssumption DEF TypeOK, Session,
     EnvelopeInv, TlsInv, Protected, Dialog, IInv, Hangup, Down, bounds
<1>27. CASE \E m \in Msg : Send(m)
  BY <1>27 DEF TypeOK, Session, EnvelopeInv, TlsInv, Protected, Dialog, IInv,
     Send, bounds
<1>28. CASE UNCHANGED vars
  BY <1>28 DEF TypeOK, Session, EnvelopeInv, TlsInv, Protected, Dialog, IInv,
     vars, bounds
<1> QED
  BY <1>1, <1>2, <1>3, <1>4, <1>5, <1>6, <1>7, <1>8, <1>9, <1>10, <1>11,
     <1>12, <1>13, <1>14, <1>15, <1>16, <1>17, <1>18, <1>19, <1>20, <1>21,
     <1>22, <1>23, <1>24, <1>25, <1>26, <1>27, <1>28, <1>29 DEF Next, Step

\* What the server accepts is the message, from its sender, for its recipients.
LEMMA DeliveredKept ==
  ASSUME IInv, [Next]_vars
  PROVE  AllOrNothing'
<1>1. \/ delivered' = delivered
      \/ pc = "body" /\ delivered' = Append(delivered, Envelope)
  BY DEF Next, Step, vars, bounds, Send, Connect, BadGreeting, ConnectError,
     Ehlo, EhloRefused, Starttls, StarttlsNoHost, StarttlsFails, Auth,
     AuthRefused, NoAuth, Mail, MailRefused, MailUnsendable, RcptAccepted, RcptRefused,
     RcptUnsendable, Data, DataRefused, BodyAccepted, BodyRefused, Bye, Rset,
     RsetRefused, Quit, Break, Hangup, Features, Disconnected, Unsendable
<1>2. CASE delivered' = delivered
  BY <1>2 DEF IInv, AllOrNothing
<1>3. CASE pc = "body" /\ delivered' = Append(delivered, Envelope)
  <2>1. delivered \in Seq(Delivery)
    BY DEF IInv, TypeOK
  <2>2. Envelope \in Delivery /\ Envelope.from = Envelope.body
        /\ Envelope.rcpts = Recipients[Envelope.body]
    BY <1>3 DEF IInv, TypeOK, Session, Delivery, EnvelopeInv, Envelope
  <2>3. /\ DOMAIN delivered' = 1 .. Len(delivered) + 1
        /\ \A i \in 1 .. Len(delivered) : delivered'[i] = delivered[i]
        /\ delivered'[Len(delivered) + 1] = Envelope
    BY <1>3, <2>1, <2>2, AppendProperties, LenProperties
  <2>4. DOMAIN delivered = 1 .. Len(delivered) /\ Len(delivered) \in Nat
    BY <2>1, LenProperties
  <2> QED
    BY <2>2, <2>3, <2>4 DEF IInv, AllOrNothing
<1> QED
  BY <1>1, <1>2, <1>3

-----------------------------------------------------------------------------
\* The inductive invariant holds in every reachable state.
THEOREM Invariant == Spec => []IInv
<1>1. Init => IInv
  <2> SUFFICES ASSUME Init PROVE IInv
    OBVIOUS
  <2>1. TypeOK /\ lost <= faults
    <3>1. delivered \in Seq(Delivery) /\ todo \in Seq(Rcpt)
      BY EmptySeq DEF Init
    <3>5. sock \in BOOLEAN /\ srv \in Session
      <4>1. NewSession("host") \in Session /\ NoSession \in Session
        BY Sessions
      <4>2. sock \in BOOLEAN /\ srv \in {NewSession("host"), NoSession}
        BY DEF Init
      <4> QED
        BY <4>1, <4>2
    <3>2. DialogTypes /\ client \in Clients
      BY <3>1, <3>5 DEF Init, DialogTypes
    <3>3. CountTypes /\ ClientTypes
      BY BoundAssumption DEF Init, CountTypes, ClientTypes
    <3>4. FlagTypes
      BY DEF Init, FlagTypes
    <3> QED
      BY <3>1, <3>2, <3>3, <3>4
         DEF TypeOK, DialogTypes, CountTypes, ClientTypes, FlagTypes
  <2>2. EnvelopeInv /\ TlsInv /\ Protected
    BY DEF Init, EnvelopeInv, TlsInv, Protected
  <2>3. AllOrNothing
    <3>1. DOMAIN delivered = {}
      BY DEF Init
    <3> QED
      BY <3>1 DEF AllOrNothing
  <2> QED
    BY <2>1, <2>2, <2>3 DEF IInv
<1>2. IInv /\ [Next]_vars => IInv'
  BY TypesKept, EnvelopeKept, DeliveredKept DEF IInv
<1> QED
  BY <1>1, <1>2, PTL DEF Spec

\* Every variable keeps its type: no list of methods, recipients or refusals
\* outgrows what SMTPMailer.send() started with.
THEOREM TypeCorrect == Spec => []TypeOK
<1>1. IInv => TypeOK
  BY DEF IInv
<1> QED
  BY <1>1, Invariant, PTL

\* The server accepts a message only from its sender and for exactly its
\* recipients, on new and on reused connections (SMTPClient.sendmail()).
THEOREM AllOrNobody == Spec => []AllOrNothing
<1>1. IInv => AllOrNothing
  BY DEF IInv
<1> QED
  BY <1>1, Invariant, PTL

\* Neither STARTTLS nor the login is skipped (SMTPMailer.send()).
THEOREM NeverUnprotected == Spec => []Protected
<1>1. IInv => Protected
  BY DEF IInv
<1> QED
  BY <1>1, Invariant, PTL

-----------------------------------------------------------------------------
(* Truthful: the answer of send() and what the server has taken.            *)

\* A message that is being sent has not been reported as sent.
UnsentInv == pc # "idle" => result[msg] # "sent"

\* The step tells nobody anything new.
NothingSaid ==
    /\ UNCHANGED <<delivered, lost>>
    /\ \A m \in Msg : Known(m)' = Known(m)

\* Another message accepted is one more with its body.
LEMMA TakenAppend ==
  ASSUME delivered \in Seq(Delivery), NEW d \in Delivery, NEW m \in Msg
  PROVE  /\ Taken(m) \in Nat
         /\ delivered' = Append(delivered, d) =>
              Taken(m)' = Taken(m) + (IF d.body = m THEN 1 ELSE 0)
<1> DEFINE n == Len(delivered)
           S == {i \in DOMAIN delivered : delivered[i].body = m}
<1>1. DOMAIN delivered = 1 .. n /\ n \in Nat
  BY LenProperties
<1>2. IsFiniteSet(S) /\ Cardinality(S) \in Nat
  <2>1. IsFiniteSet(1 .. n) /\ S \in SUBSET (1 .. n)
    BY <1>1, FS_Interval
  <2> HIDE DEF S
  <2> QED
    BY <2>1, FS_Subset, FS_CardinalityType
<1>3. ASSUME delivered' = Append(delivered, d)
      PROVE  Taken(m)' = Taken(m) + (IF d.body = m THEN 1 ELSE 0)
  <2>1. /\ DOMAIN delivered' = 1 .. n + 1 /\ delivered'[n + 1] = d
        /\ \A i \in 1 .. n : delivered'[i] = delivered[i]
    BY <1>1, <1>3, AppendProperties, LenProperties
  <2>2. S' = IF d.body = m THEN S \cup {n + 1} ELSE S
    BY <1>1, <2>1
  <2>3. n + 1 \notin S
    BY <1>1
  <2>4. Cardinality(S \cup {n + 1}) = Cardinality(S) + 1
    BY <1>2, <2>3, FS_AddElement
  <2>5. Taken(m)' = Cardinality(S') /\ Taken(m) = Cardinality(S)
    BY DEF Taken
  <2> HIDE DEF S
  <2> QED
    BY <1>2, <2>2, <2>4, <2>5
<1> QED
  BY <1>2, <1>3 DEF Taken

\* Only the reply to the data, and what takes its place, says something new.
LEMMA Saying ==
  ASSUME IInv, UnsentInv, [Next]_vars
  PROVE  /\ UnsentInv'
         /\ \/ NothingSaid
            \/ BodyAccepted
            \/ pc = "body" /\ Disconnected /\ CloseAndFail
<1> USE DEF IInv, TypeOK, EnvelopeInv, UnsentInv, NothingSaid, Known, Dialog
<1>1. ASSUME NEW v \in {"failed", "raised"}, NEW open \in BOOLEAN, NEW s \in Session,
             pc \notin {"idle", "quit"}, Return(v, open, s)
      PROVE  UnsentInv' /\ \A m \in Msg : Known(m)' = Known(m)
  BY <1>1 DEF Return
<1>2. ASSUME NEW next \in Dialog \ {"quit"}, NEW s \in Session,
             pc \notin {"idle", "quit"}, Advance(next, s)
      PROVE  UnsentInv' /\ \A m \in Msg : Known(m)' = Known(m)
  BY <1>2 DEF Advance
<1>3. ASSUME NEW m \in Msg, Send(m)
      PROVE  UnsentInv' /\ NothingSaid
  BY <1>3 DEF Send
<1>4. CASE Connect \/ BadGreeting \/ ConnectError
  <2>1. NoSession \in Session
    BY Sessions
  <2> QED
    BY <1>1, <1>4, <2>1 DEF Connect, BadGreeting, ConnectError, CloseAndFail
<1>5. CASE Ehlo \/ EhloRefused \/ Starttls
  BY <1>5 DEF Ehlo, EhloRefused, Starttls, Features, Advance, AfterHello
<1>6. CASE StarttlsFails \/ NoAuth \/ DataRefused \/ Rset \/ RsetRefused
  <2>1. \E s : Return("failed", TRUE, s)
    BY <1>6 DEF StarttlsFails, NoAuth, DataRefused, Rset, RsetRefused, Fail
  <2>2. pc \notin {"idle", "quit"} /\ UNCHANGED <<delivered, lost>>
    BY <1>6 DEF StarttlsFails, NoAuth, DataRefused, Rset, RsetRefused
  <2> QED
    BY <2>1, <2>2 DEF Return
<1>7. CASE Auth \/ AuthRefused
  BY <1>7 DEF Auth, AuthRefused, Fail, Return, Advance
<1>8. CASE \/ Mail \/ MailRefused \/ RcptAccepted \/ RcptRefused
           \/ Data \/ BodyRefused
  BY <1>8 DEF Mail, MailRefused, RcptAccepted, RcptRefused, Data, BodyRefused, Advance
<1>9. CASE MailUnsendable \/ RcptUnsendable \/ StarttlsNoHost
  BY <1>9 DEF MailUnsendable, RcptUnsendable, Unsendable, StarttlsNoHost, Return
<1>10. CASE BodyAccepted
  BY <1>10 DEF BodyAccepted, Advance
<1>11. CASE Bye
  BY <1>11 DEF Bye, CloseAndFail, Return
<1>12. CASE Quit
  BY <1>12 DEF Quit, Return
<1>13. CASE Break
  BY <1>13 DEF Break, Disconnected, CloseAndFail, Return
<1>14. CASE Hangup
  BY <1>14 DEF Hangup
<1>15. CASE UNCHANGED vars
  BY <1>15 DEF vars
<1> QED
  BY <1>3, <1>4, <1>5, <1>6, <1>7, <1>8, <1>9, <1>10, <1>11, <1>12, <1>13, <1>14, <1>15
  DEF Next, Step

\* One message more that is accepted, and either its sender is told or the
\* reply is lost.
LEMMA TruthKept ==
  ASSUME IInv, UnsentInv, Truthful, [Next]_vars
  PROVE  Truthful'
<1>1. /\ delivered \in Seq(Delivery) /\ lost \in Nat
  BY BoundAssumption DEF IInv, TypeOK
<1>2. \A m \in Msg : Taken(m) \in Nat
  <2>1. [from |-> NoMsg, rcpts |-> <<>>, body |-> NoMsg] \in Delivery
    BY Sessions DEF Delivery
  <2> QED
    BY <1>1, <2>1, TakenAppend
<1>3. CASE NothingSaid
  BY <1>2, <1>3 DEF NothingSaid, Truthful, Taken
<1>4. CASE BodyAccepted \/ (pc = "body" /\ Disconnected /\ CloseAndFail)
  <2>1. /\ pc = "body" /\ msg \in Msg /\ ~Known(msg)
        /\ Envelope \in Delivery /\ Envelope.body = msg
    BY <1>4 DEF BodyAccepted, IInv, TypeOK, EnvelopeInv, UnsentInv, Known, Envelope,
       Session, Delivery
  <2>2. \A m \in Msg : m # msg => Known(m)' = Known(m)
    BY <1>4, <2>1 DEF BodyAccepted, Advance, CloseAndFail, Return, Known, IInv, TypeOK
  <2>3. CASE BodyAccepted
    <3>1. Known(msg)' /\ UNCHANGED <<lost, msg>> /\ delivered' = Append(delivered, Envelope)
      BY <2>3 DEF BodyAccepted, Advance, Known
    <3>2. \A m \in Msg : Taken(m)' = Taken(m) + (IF m = msg THEN 1 ELSE 0)
      BY <1>1, <2>1, <3>1, TakenAppend
    <3>3. \A m \in Msg : Known(m)' <=> Known(m) \/ m = msg
      BY <2>2, <2>1, <3>1 DEF Known
    <3> QED
      BY <1>1, <1>2, <2>1, <3>1, <3>2, <3>3 DEF Truthful
  <2>4. CASE Disconnected /\ CloseAndFail
    <3>1. \A m \in Msg : Known(m)' <=> Known(m)
      BY <2>1, <2>2, <2>4 DEF CloseAndFail, Return, Known, IInv, TypeOK
    <3>2. CASE UNCHANGED <<delivered, lost>>
      BY <1>2, <3>1, <3>2 DEF Truthful, Taken
    <3>3. CASE lost' = lost + 1 /\ delivered' = Append(delivered, Envelope)
      <4>1. \A m \in Msg : Taken(m)' = Taken(m) + (IF m = msg THEN 1 ELSE 0)
        BY <1>1, <2>1, <3>3, TakenAppend
      <4> QED
        BY <1>1, <1>2, <3>1, <3>3, <4>1 DEF Truthful
    <3> QED
      BY <2>4, <3>2, <3>3 DEF Disconnected
  <2> QED
    BY <1>4, <2>3, <2>4
<1> QED
  BY <1>3, <1>4, Saying

\* send() returns True only for what the server accepted, and hides no more
\* accepted messages than replies were lost (SMTPMailer.send(), whatever QUIT
\* does): on any number of messages, new connections or the same one.
THEOREM TellsTheTruth == Spec => []Truthful
<1>1. Init => UnsentInv /\ Truthful
  <2> SUFFICES ASSUME Init PROVE UnsentInv /\ Truthful
    OBVIOUS
  <2>1. ASSUME NEW m \in Msg PROVE ~Known(m) /\ Taken(m) = 0
    <3>1. {i \in DOMAIN delivered : delivered[i].body = m} = {}
      BY DEF Init
    <3> QED
      BY <3>1, FS_EmptySet DEF Init, Known, Taken
  <2>2. UnsentInv /\ lost = 0
    BY DEF Init, UnsentInv
  <2> QED
    BY <2>1, <2>2 DEF Truthful
<1>2. IInv /\ UnsentInv /\ Truthful /\ [Next]_vars => UnsentInv' /\ Truthful'
  BY Saying, TruthKept
<1> QED
  BY <1>1, <1>2, Invariant, PTL DEF Spec

-----------------------------------------------------------------------------
(* CleanSendSucceeds: nothing is carried over from one message to the next. *)

\* Only a client with a socket has a server.  As long as that has refused nothing, the connection is up, there is a
\* method to log in with, and the server expects a MAIL.
CleanInv ==
    /\ pc # "idle" => msg \in Msg
    /\ pc = "connect" => ~sock
    /\ pc \in Dialog => sock
    /\ ~sock => srv.at = "nowhere"
    /\ ~troubled =>
         /\ pc \in Dialog => srv.up
         /\ pc # "rset"
         /\ pc = "login" => auths > 0
         /\ pc \in {"login", "mail"} => Expected

\* The send that ends here was successful, or its exception has its reason.
Explained == \/ result'[msg] = "sent"
             \/ result'[msg] = "raised" /\ ~(Encodable(msg) /\ HasHost)

\* A recipient that has yet to be told is a recipient of the message.
LEMMA NextIsRecipient ==
  ASSUME IInv, pc = "rcpt"
  PROVE  \E i \in DOMAIN Recipients[msg] : Recipients[msg][i] = Head(todo)
<1>1. /\ srv.rcpts \in Seq(Rcpt) /\ todo \in Seq(Rcpt) /\ todo # <<>>
      /\ srv.rcpts \o todo = Recipients[msg]
  BY DEF IInv, TypeOK, EnvelopeInv, Session
<1>2. /\ Len(srv.rcpts) \in Nat /\ Len(todo) \in Nat /\ Len(todo) > 0
      /\ Head(todo) = todo[1]
  BY <1>1, HeadTailProperties, LenProperties, EmptySeq
<1>3. /\ Len(srv.rcpts) + 1 \in DOMAIN (srv.rcpts \o todo)
      /\ (srv.rcpts \o todo)[Len(srv.rcpts) + 1] = todo[1]
  BY <1>1, <1>2, ConcatProperties, LenProperties
<1> QED
  BY <1>1, <1>2, <1>3

\* A clean send goes on cleanly, and ends with what it should.
LEMMA CleanStep ==
  ASSUME IInv, CleanInv, [Next]_vars
  PROVE  /\ CleanInv'
         /\ pc # "idle" /\ pc' = "idle" /\ ~troubled' /\ srv.at = "host" => Explained
<1> DEFINE Goal ==
             /\ CleanInv'
             /\ pc # "idle" /\ pc' = "idle" /\ ~troubled' /\ srv.at = "host" => Explained
<1> USE DEF bounds, Dialog, Refused, Served, Fault
<1>1. /\ pc \in Dialog \cup {"idle", "connect"} /\ srv \in Session /\ troubled \in BOOLEAN
      /\ sock \in BOOLEAN
      /\ auths \in 0 .. MaxAuths /\ MaxAuths \in Nat
      /\ result \in [Msg -> {"none", "sent", "failed", "raised"}]
  BY BoundAssumption DEF IInv, TypeOK
<1>2. \A v, open, s : Return(v, open, s) /\ msg \in Msg => pc' = "idle" /\ result'[msg] = v
  BY <1>1 DEF Return
<1>3. ASSUME NEW v, NEW open, NEW s, Return(v, open, s), pc # "idle",
             \/ troubled' \/ srv.at # "host" \/ v = "sent"
             \/ v = "raised" /\ ~(Encodable(msg) /\ HasHost)
      PROVE  Goal
  <2>1. CleanInv'
    BY <1>2, <1>3 DEF CleanInv, Return, NoSession
  <2> QED
    BY <1>2, <1>3, <2>1 DEF Explained, CleanInv
<1>4. \A s \in Session : /\ Hello(Cleared(s)).hello /\ Hello(Cleared(s)).from = NoMsg
                         /\ Hello(Cleared(s)).up = s.up
                         /\ [s EXCEPT !.authed = TRUE].hello = s.hello
                         /\ [s EXCEPT !.authed = TRUE].from = s.from
                         /\ [s EXCEPT !.authed = TRUE].up = s.up
                         /\ Cleared(s).up = s.up
                         /\ \A m : [s EXCEPT !.from = m, !.rcpts = <<>>].up = s.up
                         /\ \A q : [s EXCEPT !.rcpts = q].up = s.up
  BY DEF Hello, Cleared, Session
<1>5. \A p : NewSession(p).up /\ [NewSession(p) EXCEPT !.tls = TRUE].up
  BY DEF NewSession, NoSession
<1>6. CASE \E m \in Msg : Send(m)
  BY <1>1, <1>6 DEF Send, CleanInv
<1>7. CASE Connect \/ BadGreeting \/ ConnectError
  <2>1. CASE Connect
    BY <1>5, <2>1 DEF Connect, CleanInv
  <2>2. CASE ConnectError
    <3>1. srv.at # "host" /\ pc # "idle"
      BY <2>2 DEF ConnectError, CleanInv
    <3> QED
      BY <1>3, <2>2, <3>1 DEF ConnectError, CloseAndFail
  <2>3. CASE BadGreeting /\ Reuse
    BY <2>3 DEF BadGreeting, CleanInv
  <2>4. CASE BadGreeting /\ ~Reuse
    BY <1>3, <2>4 DEF BadGreeting, CloseAndFail
  <2> QED
    BY <1>7, <2>1, <2>2, <2>3, <2>4
<1>8. CASE Ehlo
  <2>1. PICK tls \in BOOLEAN, n \in 0 .. MaxAuths : Features(tls, n, Hello(Cleared(srv)))
    BY <1>8 DEF Ehlo
  <2>2. /\ pc' \in {"starttls", "login", "mail"} /\ srv' = Hello(Cleared(srv)) /\ msg' = msg
        /\ auths' = n /\ pc \in Dialog /\ srv.up /\ sock' = sock
        /\ pc' = "login" /\ n = 0 => troubled'
    BY <1>8, <2>1 DEF Ehlo, Features, Advance, AfterHello
  <2> QED
    BY <1>1, <1>4, <2>1, <2>2 DEF CleanInv, Expected
<1>9. CASE EhloRefused
  BY <1>9 DEF EhloRefused, Advance, AfterHello, CleanInv
<1>10. CASE Starttls
  BY <1>5, <1>10 DEF Starttls, Advance, CleanInv
<1>11. CASE StarttlsFails
  BY <1>3, <1>11 DEF StarttlsFails, Fail
<1>12. CASE Auth
  BY <1>1, <1>4, <1>12 DEF Auth, Advance, CleanInv, Expected
<1>13. CASE AuthRefused
  <2>1. CASE auths = 1
    BY <1>3, <1>13, <2>1 DEF AuthRefused, Fail
  <2>2. CASE auths # 1
    BY <1>13, <2>2 DEF AuthRefused, Advance, CleanInv
  <2> QED
    BY <2>1, <2>2
<1>14. CASE NoAuth
  <2>1. troubled /\ troubled' = troubled /\ pc # "idle"
    BY <1>1, <1>14 DEF NoAuth, CleanInv
  <2>2. Return("failed", TRUE, IF pc = "rset" THEN Cleared(srv) ELSE srv)
    BY <1>14 DEF NoAuth, Fail
  <2> QED
    BY <1>3, <2>1, <2>2
<1>15. CASE Mail \/ RcptAccepted \/ Data \/ BodyAccepted
  <2>1. /\ pc' \in {"rcpt", "data", "body", "quit"} /\ srv.up /\ srv'.up /\ msg' = msg
        /\ troubled' = troubled /\ pc \in Dialog /\ sock' = sock
    <3>1. CASE Mail
      BY <1>1, <1>4, <3>1 DEF Mail, Advance
    <3>2. CASE RcptAccepted
      <4>1. /\ srv' = [srv EXCEPT !.rcpts = Append(srv.rcpts, Head(todo))] /\ srv.up
            /\ pc = "rcpt" /\ pc' \in {"data", "rcpt"} /\ UNCHANGED <<msg, troubled, sock>>
        BY <3>2 DEF RcptAccepted, Advance
      <4>2. srv'.up
        BY <1>1, <4>1 DEF Session
      <4> QED
        BY <4>1, <4>2
    <3>3. CASE Data
      BY <1>1, <1>4, <3>3 DEF Data, Advance
    <3>4. CASE BodyAccepted
      BY <1>1, <1>4, <3>4 DEF BodyAccepted, Advance
    <3> QED
      BY <1>15, <3>1, <3>2, <3>3, <3>4
  <2> QED
    BY <2>1 DEF CleanInv
<1>16. CASE MailRefused
  <2>1. troubled' /\ pc' = "rset" /\ msg' = msg /\ sock' = sock /\ pc \in Dialog
    BY <1>1, <1>16 DEF MailRefused, Advance, CleanInv
  <2> QED
    BY <2>1 DEF CleanInv
<1>17. CASE MailUnsendable \/ RcptUnsendable \/ StarttlsNoHost
  <2>1. CASE MailUnsendable
    BY <1>3, <2>1 DEF MailUnsendable, Unsendable, Encodable
  <2>2. CASE RcptUnsendable
    BY <1>3, <2>2, NextIsRecipient DEF RcptUnsendable, Unsendable, Encodable
  <2>3. CASE StarttlsNoHost
    BY <1>3, <2>3 DEF StarttlsNoHost
  <2> QED
    BY <1>17, <2>1, <2>2, <2>3
<1>18. CASE RcptRefused \/ BodyRefused
  BY <1>18 DEF RcptRefused, BodyRefused, Advance, CleanInv
<1>19. CASE DataRefused \/ Bye \/ RsetRefused
  BY <1>3, <1>19 DEF DataRefused, Bye, RsetRefused, Fail, CloseAndFail
<1>20. CASE Rset
  <2>1. troubled /\ troubled' = troubled /\ pc # "idle"
    BY <1>1, <1>20 DEF Rset, CleanInv
  <2>2. Return("failed", TRUE, IF pc = "rset" THEN Cleared(srv) ELSE srv)
    BY <1>20 DEF Rset, Fail
  <2> QED
    BY <1>3, <2>1, <2>2
<1>21. CASE Quit
  BY <1>3, <1>21 DEF Quit
<1>22. CASE Break
  <2>1. troubled' /\ pc # "idle"
    BY <1>1, <1>22 DEF Break, Disconnected, CleanInv
  <2>2. \E v, open, s : Return(v, open, s)
    BY <1>22 DEF Break, CloseAndFail
  <2> QED
    BY <1>3, <2>1, <2>2
<1>23. CASE Hangup
  BY <1>1, <1>23 DEF Hangup, Down, Session, CleanInv
<1>24. CASE UNCHANGED vars
  BY <1>24 DEF vars, CleanInv, Expected
<1> QED
  BY <1>6, <1>7, <1>8, <1>9, <1>10, <1>11, <1>12, <1>13, <1>14, <1>15, <1>16, <1>17, <1>18,
     <1>19, <1>20, <1>21, <1>22, <1>23, <1>24 DEF Next, Step

\* If its server refuses nothing while a message is sent, and the connection
\* holds, it is sent, whatever the messages before it have met on the same
\* connection, or an exception says that an address is not ASCII or that the
\* client cannot do STARTTLS (SMTPMailer.send()).
THEOREM NothingCarriedOver == Spec => CleanSendSucceeds
<1>1. Init => CleanInv
  BY DEF Init, CleanInv, Dialog, NoSession
<1>2. IInv /\ CleanInv /\ [Next]_vars => CleanInv'
  BY CleanStep
<1>3. IInv /\ CleanInv /\ [Next]_vars =>
        [pc # "idle" /\ pc' = "idle" /\ ~troubled' /\ srv.at = "host" => Explained]_vars
  BY CleanStep
<1> QED
  BY <1>1, <1>2, <1>3, Invariant, PTL DEF Spec, CleanSendSucceeds, Explained

-----------------------------------------------------------------------------
(* SMTPSession implements Attempt: a dialog is one attempt.                 *)

\* Between two attempts there is no message.
NoneInv == pc = "idle" => msg = NoMsg

\* The next command, whatever it is, is none of the attempt's business.
LEMMA StillTrying ==
  ASSUME NEW next \in Dialog \ {"quit"}, NEW s, Advance(next, s), pc # "quit",
         UNCHANGED <<delivered, lost>>
  PROVE  NoneInv' /\ UNCHANGED Attempts!vars
  BY DEF Attempts!vars, Advance, NoneInv, Dialog

\* send() ends before the server has said that it took the message.
LEMMA GivingUp ==
  ASSUME msg \in Msg, pc # "quit", NEW value \in {"failed", "raised"}, NEW open,
         NEW s, Return(value, open, s), UNCHANGED <<delivered, lost>>
  PROVE  NoneInv' /\ Attempts!Next
<1>1. Attempts!GiveUp /\ NoneInv'
  BY MessageAssumption DEF Attempts!GiveUp, Attempts!End, Return, NoneInv
<1> QED
  BY <1>1 DEF Attempts!Next

\* What the server can take of a message is all of it.
LEMMA TakesAll ==
  ASSUME IInv, pc = "body"
  PROVE  msg \in Msg /\ Envelope = Attempts!Whole(msg)
  BY DEF IInv, EnvelopeInv, Envelope, Attempts!Whole

\* Every step of a dialog is a step of the attempt, or none.
LEMMA AttemptStep ==
  ASSUME IInv, NoneInv, [Next]_vars
  PROVE  NoneInv' /\ [Attempts!Next]_(Attempts!vars)
<1> SUFFICES NoneInv' /\ (Attempts!Next \/ UNCHANGED Attempts!vars)
  OBVIOUS
<1>1. pc # "idle" => msg \in Msg
  BY DEF IInv, EnvelopeInv
<1>2. AfterHello \in Dialog \ {"quit"}
  BY DEF AfterHello, Dialog
<1>3. ASSUME NEW m \in Msg, Send(m)
      PROVE  NoneInv' /\ Attempts!Next
  <2>1. Attempts!Begin(m) /\ NoneInv'
    BY <1>3 DEF Send, Attempts!Begin, NoneInv
  <2> QED
    BY <1>3, <2>1 DEF Attempts!Next
<1>4. CASE Connect \/ (BadGreeting /\ Reuse)
  BY <1>4 DEF Connect, BadGreeting, Attempts!vars, NoneInv
<1>5. CASE ConnectError \/ (BadGreeting /\ ~Reuse)
  BY <1>1, <1>5, GivingUp DEF ConnectError, BadGreeting, CloseAndFail
<1>6. CASE Ehlo \/ EhloRefused \/ Starttls
  <2>1. PICK next \in Dialog \ {"quit"} : \E s : Advance(next, s)
    BY <1>2, <1>6 DEF Ehlo, EhloRefused, Starttls, Features, Dialog
  <2>2. pc # "quit" /\ UNCHANGED <<delivered, lost>>
    BY <1>6 DEF Ehlo, EhloRefused, Starttls, Features
  <2> QED
    BY <2>1, <2>2, StillTrying
<1>7. CASE \/ Auth \/ Mail \/ MailRefused \/ RcptAccepted \/ RcptRefused
           \/ Data \/ BodyRefused \/ (AuthRefused /\ auths # 1)
  <2>1. PICK next \in Dialog \ {"quit"} : \E s : Advance(next, s)
    BY <1>7 DEF Auth, AuthRefused, Mail, MailRefused, RcptAccepted, RcptRefused,
       Data, BodyRefused, Dialog
  <2>2. pc # "quit" /\ UNCHANGED <<delivered, lost>>
    BY <1>7 DEF Auth, AuthRefused, Mail, MailRefused, RcptAccepted, RcptRefused,
       Data, BodyRefused
  <2> QED
    BY <2>1, <2>2, StillTrying
<1>8. CASE \/ StarttlsFails \/ NoAuth \/ DataRefused \/ Rset \/ RsetRefused
           \/ (AuthRefused /\ auths = 1)
  <2>1. PICK s : Return("failed", TRUE, s)
    BY <1>8 DEF StarttlsFails, AuthRefused, NoAuth, DataRefused, Rset, RsetRefused, Fail
  <2>2. pc \notin {"idle", "quit"} /\ UNCHANGED <<delivered, lost>>
    BY <1>8 DEF StarttlsFails, AuthRefused, NoAuth, DataRefused, Rset, RsetRefused
  <2> QED
    BY <1>1, <2>1, <2>2, GivingUp
<1>9. CASE MailUnsendable \/ RcptUnsendable \/ StarttlsNoHost
  BY <1>1, <1>9, GivingUp DEF MailUnsendable, RcptUnsendable, Unsendable, StarttlsNoHost
<1>10. CASE BodyAccepted
  <2>1. Attempts!Take /\ NoneInv'
    BY <1>10, TakesAll, MessageAssumption
       DEF BodyAccepted, Advance, Attempts!Take, NoneInv
  <2> QED
    BY <2>1 DEF Attempts!Next
<1>11. CASE Bye
  BY <1>1, <1>11, GivingUp DEF Bye, CloseAndFail
<1>12. CASE Quit \/ (Break /\ pc = "quit")
  <2>1. /\ pc = "quit" /\ Return("sent", FALSE, NoSession)
        /\ UNCHANGED <<delivered, lost>>
    BY <1>12 DEF Quit, Break, Disconnected
  <2>2. Attempts!Succeed /\ NoneInv'
    BY <1>1, <2>1, MessageAssumption DEF Return, Attempts!Succeed, Attempts!End, NoneInv
  <2> QED
    BY <2>2 DEF Attempts!Next
<1>13. CASE Break /\ pc # "quit"
  <2>1. /\ Return("failed", FALSE, NoSession) /\ pc # "idle"
        /\ \/ UNCHANGED <<delivered, lost>>
           \/ /\ pc = "body" /\ srv.up /\ lost' = lost + 1
              /\ delivered' = Append(delivered, Envelope)
    BY <1>13 DEF Break, Disconnected, CloseAndFail, Dialog
  <2>2. CASE UNCHANGED <<delivered, lost>>
    BY <1>1, <1>13, <2>1, <2>2, GivingUp
  <2>3. CASE ~UNCHANGED <<delivered, lost>>
    <3>1. faults < MaxFaults
      BY <1>13, <2>1, <2>3 DEF Break, Disconnected, Fault
    <3>2. lost < MaxFaults
      BY <3>1, BoundAssumption DEF IInv, TypeOK
    <3>3. Attempts!TakeUnheard /\ NoneInv'
      BY <1>13, <2>1, <2>3, <3>2, TakesAll, MessageAssumption
         DEF Return, Attempts!TakeUnheard, Attempts!End, NoneInv
    <3> QED
      BY <3>3 DEF Attempts!Next
  <2> QED
    BY <2>2, <2>3
<1>14. CASE Hangup
  BY <1>14 DEF Hangup, Attempts!vars, NoneInv
<1>15. CASE UNCHANGED vars
  BY <1>15 DEF vars, Attempts!vars, NoneInv
<1> QED
  BY <1>3, <1>4, <1>5, <1>6, <1>7, <1>8, <1>9, <1>10, <1>11, <1>12, <1>13, <1>14, <1>15
     DEF Next, Step

\* SMTPMailer.send() is an attempt at sending the message whole, once, and its
\* result is what the server has said: QUIT and the connection's later fate
\* change nothing, on one connection or many.
THEOREM OneAttempt == Spec => Implements
<1>1. Init => NoneInv /\ Attempts!Init
  BY DEF Init, NoneInv, Attempts!Init
<1>2. IInv /\ NoneInv /\ [Next]_vars => NoneInv' /\ [Attempts!Next]_(Attempts!vars)
  BY AttemptStep
<1> QED
  BY <1>1, <1>2, Invariant, PTL DEF Spec, Implements, Attempts!Spec
=============================================================================
