----------------------------- MODULE SMTPSession -----------------------------
(***************************************************************************)
(* SMTPMailer.send() and the SMTP client below it, talking to a server.    *)
(* The mailer makes a new client for every message, as the programs of     *)
(* this repository have it, or was given one by an application (Reuse) and *)
(* sends all messages with that client, whatever state the message before  *)
(* left it in.  One action is one command and its reply: the client never  *)
(* sends a command before it has the reply to the last one.                *)
(*                                                                         *)
(* The server (srv) is external.  It follows the protocol, refuses what it *)
(* likes, and offers what it likes.  There are two: the one that is meant, *)
(* and whatever listens where connect() goes if it is not told where.      *)
(***************************************************************************)
EXTENDS Sequences, Naturals, FiniteSets

CONSTANTS Msg,          \* messages; also stands for the sender of each
          NoMsg,        \* no message, no sender
          Rcpt,         \* recipient addresses
          Recipients,   \* Recipients[m]: the recipients of m, in order
          Unencodable,  \* senders and recipients that are not ASCII
          Clients,      \* clients the mailer may have, see Client
          Login,        \* username and password are configured
          MaxAuths,     \* bound: authentication methods a server offers
          MaxRefusals,  \* bound: commands the server refuses at will
          MaxFaults     \* bound: connections that break

\* "new":       SMTPMailer(hostname) makes one for each message
\* The others are given to it, SMTPMailer(client=...):
\* "named":     made with the server's name, which connects it
\* "connected": made without a name and connected by connect(name)
\* "bare":      made without a name and not connected
Client == {"new", "named", "connected", "bare"}

ASSUME MessageAssumption ==
    /\ NoMsg \notin Msg
    /\ Recipients \in [Msg -> Seq(Rcpt)]
    /\ \A m \in Msg : Recipients[m] # <<>>
ASSUME ModeAssumption  == Clients \subseteq Client /\ Login \in BOOLEAN
ASSUME BoundAssumption ==
    MaxAuths \in Nat \ {0} /\ MaxRefusals \in Nat /\ MaxFaults \in Nat

VARIABLES client,     \* the mailer's client
          pc,         \* the command that comes next, "idle" between messages
          msg,        \* the message being sent
          todo,       \* its recipients the server has not been told
          sock,       \* the client has a socket
          offersTls,  \* "starttls" is in esmtp_features
          auths,      \* methods of esmtp_features["auth"] left to try
          result,     \* result[m]: what the last send() of m returned
          srv,        \* the server's side of the connection
          delivered,  \* what the server has accepted, in order (history)
          refusals,   \* commands refused at will so far
          faults,     \* broken connections so far
          lost,       \* accepted messages whose reply got lost (history)
          troubled    \* the current send() met a refusal or a fault (history)

bounds == <<refusals, faults>>
vars == <<client, pc, msg, todo, sock, offersTls, auths, result, srv, delivered,
          lost, bounds, troubled>>

Reuse == client # "new"
\* The client knows the name the certificate is for.
HasHost == client \in {"new", "named"}

\* at: the server that is meant, the one at "localhost", or none
NoSession == [at |-> "nowhere", up |-> FALSE, tls |-> FALSE, hello |-> FALSE,
              authed |-> FALSE, from |-> NoMsg, rcpts |-> <<>>]
NewSession(place) == [NoSession EXCEPT !.at = place, !.up = TRUE]

\* The transaction is forgotten: EHLO, RSET, and the end of DATA do that.
Cleared(s) == [s EXCEPT !.from = NoMsg, !.rcpts = <<>>]
\* After 421 the server closes the connection.
Down(s) == [s EXCEPT !.up = FALSE]

Init ==
    /\ client \in Clients
    /\ pc = "idle"
    /\ msg = NoMsg
    /\ todo = <<>>
    /\ sock = (client \in {"named", "connected"})
    /\ offersTls = FALSE
    /\ auths = 0
    /\ result = [m \in Msg |-> "none"]
    /\ srv = IF sock THEN NewSession("host") ELSE NoSession
    /\ delivered = <<>>
    /\ refusals = 0
    /\ faults = 0
    /\ lost = 0
    /\ troubled = FALSE

-----------------------------------------------------------------------------
(* How a step ends. *)

\* On to the next command.
Advance(next, session) ==
    /\ pc' = next
    /\ srv' = session
    /\ UNCHANGED <<msg, sock, result>>

\* send() is over.  A client made for this message goes with its connection.
Return(value, open, session) ==
    /\ pc' = "idle"
    /\ msg' = NoMsg
    /\ todo' = <<>>
    /\ result' = [result EXCEPT ![msg] = value]
    /\ sock' = (Reuse /\ open)
    /\ srv' = IF Reuse /\ open THEN session ELSE NoSession

\* An SMTPException or OSError is caught; the connection is left as it is.
Fail(session) == Return("failed", TRUE, session)
\* ... or was closed before it was raised.
CloseAndFail == Return("failed", FALSE, NoSession)

Served == UNCHANGED <<refusals, faults, troubled>>

Refused ==
    /\ refusals < MaxRefusals
    /\ refusals' = refusals + 1
    /\ troubled' = TRUE
    /\ UNCHANGED faults

Fault ==
    /\ faults < MaxFaults
    /\ faults' = faults + 1
    /\ troubled' = TRUE
    /\ UNCHANGED refusals

\* What follows the greeting.
AfterHello == IF Login THEN "login" ELSE "mail"

\* Not ASCII: the UnicodeEncodeError of send() is a ValueError, which
\* SMTPMailer.send() does not catch.  Nothing is transmitted.
Unsendable ==
    /\ Return("raised", TRUE, srv)
    /\ Served
    /\ UNCHANGED <<offersTls, auths, delivered, lost>>

-----------------------------------------------------------------------------
(* SMTPMailer.send(): connect, EHLO, STARTTLS, AUTH *)

\* Messages that were not sent are tried again.
Send(m) ==
    /\ pc = "idle"
    /\ result[m] # "sent"
    /\ msg' = m
    /\ pc' = IF sock THEN "ehlo" ELSE "connect"
    /\ troubled' = (sock /\ ~srv.up)
    /\ UNCHANGED <<todo, sock, offersTls, auths, result, srv, delivered, lost,
                   bounds>>

\* A given client is told to connect(), but not where: to localhost then.
Place == IF Reuse THEN "localhost" ELSE "host"

Connect ==
    /\ pc = "connect"
    /\ pc' = "ehlo"
    /\ sock' = TRUE
    /\ srv' = NewSession(Place)
    /\ Served
    /\ UNCHANGED <<msg, todo, offersTls, auths, result, delivered, lost>>

\* A greeting other than 220: the constructor closes the connection and
\* raises, a connect() of an existing client leaves it to its caller, who
\* does not look.
BadGreeting ==
    /\ pc = "connect"
    /\ Refused
    /\ IF Reuse
         THEN /\ pc' = "ehlo"
              /\ sock' = TRUE
              /\ srv' = NewSession(Place)
              /\ UNCHANGED <<msg, todo, result>>
         ELSE CloseAndFail
    /\ UNCHANGED <<offersTls, auths, delivered, lost>>

\* It is no fault if nobody listens at localhost.
ConnectError ==
    /\ pc = "connect"
    /\ IF Reuse THEN Served ELSE Fault
    /\ CloseAndFail
    /\ UNCHANGED <<offersTls, auths, delivered, lost>>

\* esmtp_features as of now.  Not to offer AUTH to a client that needs it is a
\* refusal of the server.
Features(tls, n, session) ==
    /\ offersTls' = (tls /\ ~srv.tls)
    /\ auths' = n
    /\ Advance(IF pc = "ehlo" /\ offersTls' THEN "starttls" ELSE AfterHello,
               session)
    /\ IF pc' = "login" /\ n = 0 THEN Refused ELSE Served
    /\ UNCHANGED <<todo, delivered, lost>>

Hello(s) == [s EXCEPT !.hello = TRUE]

\* Mutant: EHLO only on a new connection.
EhloOnce ==
    /\ pc \in {"ehlo", "ehloTls"}
    /\ srv.up
    /\ IF srv.hello
         THEN /\ Advance(AfterHello, srv)
              /\ Served
              /\ UNCHANGED <<todo, offersTls, auths, delivered, lost>>
         ELSE \E tls \in BOOLEAN, n \in 0 .. MaxAuths :
                Features(tls, n, Hello(srv))

\* Mutant: ehlo() does not start with empty esmtp_features, methods add up.
EhloAddsUp ==
    /\ pc \in {"ehlo", "ehloTls"}
    /\ srv.up
    /\ \E tls \in BOOLEAN, n \in 0 .. MaxAuths :
         Features(tls, auths + n, Hello(Cleared(srv)))

Ehlo ==
    /\ pc \in {"ehlo", "ehloTls"}
    /\ srv.up
    /\ \E tls \in BOOLEAN, n \in 0 .. MaxAuths :
         Features(tls, n, Hello(Cleared(srv)))

\* ehlo() returns the code, nobody looks at it.  As ehlo_resp is set, no
\* ehlo_or_helo_if_needed() will ever try HELO.
EhloRefused ==
    /\ pc \in {"ehlo", "ehloTls"}
    /\ srv.up
    /\ Refused
    /\ offersTls' = FALSE
    /\ auths' = 0
    /\ \E s \in {srv, Down(srv)} : Advance(AfterHello, s)
    /\ UNCHANGED <<todo, delivered, lost>>

Starttls ==
    /\ pc = "starttls"
    /\ srv.up
    /\ HasHost
    /\ offersTls' = FALSE
    /\ auths' = 0
    /\ Advance("ehloTls", [NewSession(srv.at) EXCEPT !.tls = TRUE])
    /\ Served
    /\ UNCHANGED <<todo, delivered, lost>>

\* After the 220 wrap_socket() raises a ValueError for the name "", which send()
\* does not catch.  The socket is closed but still there.
StarttlsNoHost ==
    /\ pc = "starttls"
    /\ srv.up
    /\ ~HasHost
    /\ Return("raised", TRUE, Down(srv))
    /\ Served
    /\ UNCHANGED <<offersTls, auths, delivered, lost>>

\* Mutant: without TLS then.
StarttlsOptional ==
    /\ pc = "starttls"
    /\ srv.up
    /\ Refused
    /\ Advance(AfterHello, srv)
    /\ UNCHANGED <<todo, offersTls, auths, delivered, lost>>

\* Refused, or the handshake failed: then the socket is dead but still there.
StarttlsFails ==
    /\ pc = "starttls"
    /\ srv.up
    /\ Refused
    /\ \E s \in {srv, Down(srv)} : Fail(s)
    /\ UNCHANGED <<offersTls, auths, delivered, lost>>

\* 235, or 503 from a server that has authenticated the client before.
Auth ==
    /\ pc = "login"
    /\ auths > 0
    /\ srv.up
    /\ Advance("mail", [srv EXCEPT !.authed = TRUE])
    /\ Served
    /\ UNCHANGED <<todo, offersTls, auths, delivered, lost>>

\* The next method, if there is one.
AuthRefused ==
    /\ pc = "login"
    /\ auths > 0
    /\ srv.up
    /\ Refused
    /\ auths' = auths - 1
    /\ \E s \in {srv, Down(srv)} :
         IF auths = 1 THEN Fail(s) ELSE Advance("login", s) /\ UNCHANGED todo
    /\ UNCHANGED <<offersTls, delivered, lost>>

\* SMTPNotSupportedError, or no suitable method: no command is sent.
NoAuth ==
    /\ pc = "login"
    /\ auths = 0
    /\ Fail(srv)
    /\ Served
    /\ UNCHANGED <<offersTls, auths, delivered, lost>>

-----------------------------------------------------------------------------
(* SMTPClient.sendmail() *)

\* A server may answer a MAIL it did not expect (no EHLO, or in the middle of
\* a transaction) with 503, or start a new transaction.
Expected == srv.hello /\ srv.from = NoMsg

Mail ==
    /\ pc = "mail"
    /\ srv.up
    /\ msg \notin Unencodable
    /\ Advance("rcpt", [srv EXCEPT !.from = msg, !.rcpts = <<>>])
    /\ todo' = Recipients[msg]
    /\ Served
    /\ UNCHANGED <<offersTls, auths, delivered, lost>>

MailRefused ==
    /\ pc = "mail"
    /\ srv.up
    /\ msg \notin Unencodable
    /\ IF Expected THEN Refused ELSE Served
    /\ Advance("rset", srv)
    /\ UNCHANGED <<todo, offersTls, auths, delivered, lost>>

MailUnsendable ==
    /\ pc = "mail"
    /\ msg \in Unencodable
    /\ Unsendable

RcptAccepted ==
    /\ pc = "rcpt"
    /\ srv.up
    /\ Head(todo) \notin Unencodable
    /\ todo' = Tail(todo)
    /\ Advance(IF todo' = <<>> THEN "data" ELSE "rcpt",
               [srv EXCEPT !.rcpts = Append(@, Head(todo))])
    /\ Served
    /\ UNCHANGED <<offersTls, auths, delivered, lost>>

\* Mutant: as smtplib does it, the others get their mail.
RcptSkipped ==
    /\ pc = "rcpt"
    /\ srv.up
    /\ Head(todo) \notin Unencodable
    /\ Refused
    /\ todo' = Tail(todo)
    /\ Advance(IF todo' # <<>> THEN "rcpt"
               ELSE IF srv.rcpts = <<>> THEN "rset" ELSE "data", srv)
    /\ UNCHANGED <<offersTls, auths, delivered, lost>>

\* One refused recipient is enough.
RcptRefused ==
    /\ pc = "rcpt"
    /\ srv.up
    /\ Head(todo) \notin Unencodable
    /\ Refused
    /\ Advance("rset", srv)
    /\ UNCHANGED <<todo, offersTls, auths, delivered, lost>>

RcptUnsendable ==
    /\ pc = "rcpt"
    /\ Head(todo) \in Unencodable
    /\ Unsendable

Data ==
    /\ pc = "data"
    /\ srv.up
    /\ Advance("body", srv)
    /\ Served
    /\ UNCHANGED <<todo, offersTls, auths, delivered, lost>>

\* data() raises by itself: no RSET, and no close() after 421.
DataRefused ==
    /\ pc = "data"
    /\ srv.up
    /\ Refused
    /\ \E s \in {srv, Down(srv)} : Fail(s)
    /\ UNCHANGED <<offersTls, auths, delivered, lost>>

Envelope == [from |-> srv.from, rcpts |-> srv.rcpts, body |-> msg]

BodyAccepted ==
    /\ pc = "body"
    /\ srv.up
    /\ delivered' = Append(delivered, Envelope)
    /\ Advance("quit", Cleared(srv))
    /\ Served
    /\ UNCHANGED <<todo, offersTls, auths, lost>>

\* Mutant: the reply to the data is not looked at.
BodyIgnored ==
    /\ pc = "body"
    /\ srv.up
    /\ Refused
    /\ Advance("quit", Cleared(srv))
    /\ UNCHANGED <<todo, offersTls, auths, delivered, lost>>

BodyRefused ==
    /\ pc = "body"
    /\ srv.up
    /\ Refused
    /\ Advance("rset", Cleared(srv))
    /\ UNCHANGED <<todo, offersTls, auths, delivered, lost>>

\* 421: close().
Bye ==
    /\ pc \in {"mail", "rcpt", "body"}
    /\ srv.up
    /\ pc = "mail" => msg \notin Unencodable
    /\ pc = "rcpt" => Head(todo) \notin Unencodable
    /\ Refused
    /\ CloseAndFail
    /\ UNCHANGED <<offersTls, auths, delivered, lost>>

\* _rset(): no reply of the server changes what sendmail() raises next.
Rset ==
    /\ pc = "rset"
    /\ srv.up
    /\ Fail(Cleared(srv))
    /\ Served
    /\ UNCHANGED <<offersTls, auths, delivered, lost>>

RsetRefused ==
    /\ pc = "rset"
    /\ srv.up
    /\ Refused
    /\ Fail(srv)
    /\ UNCHANGED <<offersTls, auths, delivered, lost>>

\* Whatever the server answers, the client forgets all and closes.
Quit ==
    /\ pc = "quit"
    /\ srv.up
    /\ Return("sent", FALSE, NoSession)
    /\ offersTls' = FALSE
    /\ auths' = 0
    /\ Served
    /\ UNCHANGED <<delivered, lost>>

-----------------------------------------------------------------------------
(* The connection *)

Dialog == {"ehlo", "ehloTls", "starttls", "login", "mail", "rcpt", "data",
           "body", "rset", "quit"}

\* End of file, an error or a timeout while a command is sent or its reply is
\* read: close() and SMTPServerDisconnected.  The server may have taken the
\* message all the same.
Disconnected ==
    /\ pc \in Dialog
    /\ pc = "mail" => msg \notin Unencodable
    /\ pc = "rcpt" => Head(todo) \notin Unencodable
    /\ pc = "login" => auths > 0
    /\ IF srv.up THEN Fault ELSE Served
    /\ \/ UNCHANGED <<delivered, lost>>
       \/ /\ pc = "body" /\ srv.up
          /\ delivered' = Append(delivered, Envelope)
          /\ lost' = lost + 1
    /\ UNCHANGED <<offersTls, auths>>

\* Mutant: the message counts as sent only after quit().
QuitMustSucceed == Disconnected /\ CloseAndFail

\* Mutant: a connection that breaks in DATA is made again, and the message sent
\* again, within one send().
TryAgain ==
    /\ Disconnected
    /\ \/ /\ pc = "body"
          /\ pc' = "connect"
          /\ sock' = FALSE
          /\ srv' = NoSession
          /\ UNCHANGED <<msg, todo, result>>
       \/ pc = "quit" /\ Return("sent", FALSE, NoSession)
       \/ pc \notin {"body", "quit"} /\ CloseAndFail

\* The value of the result is True before quit() is tried.
Break ==
    /\ Disconnected
    /\ IF pc = "quit" THEN Return("sent", FALSE, NoSession) ELSE CloseAndFail

\* The server drops a connection nobody uses.
Hangup ==
    /\ pc = "idle"
    /\ srv.up
    /\ faults < MaxFaults
    /\ faults' = faults + 1
    /\ srv' = Down(srv)
    /\ UNCHANGED <<pc, msg, todo, sock, offersTls, auths, result,
                   delivered, lost, refusals, troubled>>

-----------------------------------------------------------------------------
Step ==
    \/ Connect \/ BadGreeting \/ ConnectError
    \/ Ehlo \/ EhloRefused \/ Starttls \/ StarttlsNoHost \/ StarttlsFails
    \/ Auth \/ AuthRefused \/ NoAuth
    \/ Mail \/ MailRefused \/ MailUnsendable
    \/ RcptAccepted \/ RcptRefused \/ RcptUnsendable
    \/ Data \/ DataRefused \/ BodyAccepted \/ BodyRefused
    \/ Bye \/ Rset \/ RsetRefused \/ Quit \/ Break

Next == (Step \/ Hangup \/ \E m \in Msg : Send(m)) /\ UNCHANGED client

Spec == Init /\ [][Next]_vars

-----------------------------------------------------------------------------
(* Properties *)

Session == [at : {"host", "localhost", "nowhere"}, up : BOOLEAN, tls : BOOLEAN,
            hello : BOOLEAN, authed : BOOLEAN, from : Msg \cup {NoMsg},
            rcpts : Seq(Rcpt)]
Delivery == [from : Msg \cup {NoMsg}, rcpts : Seq(Rcpt),
             body : Msg \cup {NoMsg}]

\* Type invariant.
TypeOK ==
    /\ client \in Clients
    /\ pc \in Dialog \cup {"idle", "connect"}
    /\ msg \in Msg \cup {NoMsg}
    /\ todo \in Seq(Rcpt)
    /\ sock \in BOOLEAN
    /\ offersTls \in BOOLEAN
    /\ auths \in 0 .. MaxAuths
    /\ result \in [Msg -> {"none", "sent", "failed", "raised"}]
    /\ srv \in Session
    /\ delivered \in Seq(Delivery)
    /\ refusals \in 0 .. MaxRefusals
    /\ faults \in 0 .. MaxFaults
    /\ lost \in 0 .. MaxFaults
    /\ troubled \in BOOLEAN

\* The server accepts a message only from its own sender and for all of its
\* recipients, and nobody else's: none is left out because the server refused
\* it, none is left over from a message that failed on the same connection
\* (SMTPClient.sendmail(); src/README.md:293).
AllOrNothing ==
    \A i \in DOMAIN delivered :
        LET d == delivered[i]
        IN d.from = d.body /\ d.rcpts = Recipients[d.body]

\* How often the server accepted m, and whether send() has found out.
Taken(m) == Cardinality({i \in DOMAIN delivered : delivered[i].body = m})
Known(m) == result[m] = "sent" \/ (pc = "quit" /\ msg = m)

\* send() returns True only for a message the server has accepted, even if
\* QUIT fails; and it returns something else for an accepted message only if
\* the connection broke before the reply.  This is what QueueRunner takes a
\* delivery for: accepted, refused, or the reply lost.
Truthful ==
    \A m \in Msg : LET known == IF Known(m) THEN 1 ELSE 0
                   IN known <= Taken(m) /\ Taken(m) <= known + lost

\* Neither the password nor the message goes out in the clear to a server that
\* has just offered STARTTLS, and with a password configured no message is
\* sent without a login on the very connection.
Protected ==
    /\ pc \in {"login", "mail", "rcpt", "data", "body"} => ~offersTls \/ srv.tls
    /\ pc \in {"mail", "rcpt", "data", "body"} => (Login => srv.authed)

Encodable(m) ==
    m \notin Unencodable /\ \A i \in DOMAIN Recipients[m] :
                              Recipients[m][i] \notin Unencodable

\* On a connection to its server, if that neither refuses anything nor drops the
\* connection while a message is sent, the message is sent, or an exception says
\* why it cannot be: a connection that is used again carries over nothing from
\* the messages before that lets the next one fail.  (A given client that was
\* closed is not connected to its server again, but to localhost; of that
\* nothing is said here.)
CleanSendSucceeds ==
    [][ pc # "idle" /\ pc' = "idle" /\ ~troubled' /\ srv.at = "host"
          => \/ result'[msg] = "sent"
             \/ result'[msg] = "raised" /\ ~(Encodable(msg) /\ HasHost) ]_vars

\* What QueueRunner and MessageHandler take send() for: one attempt, in which
\* the server takes the whole message or nothing, at most once, and send()
\* returns True if the server has said so.  Once the reply to the data is read
\* the attempt can only end with True.
Attempts == INSTANCE Attempt WITH said <- pc = "quit"
Implements == Attempts!Spec

\* The client says hello before it sends a message: "If EHLO fails, HELO will
\* be tried" (lib/smtplib_py37.py:749-750).
HelloBeforeMail == pc = "mail" => srv.hello

-----------------------------------------------------------------------------
(* The inductive invariant behind AllOrNothing and Protected. *)

\* The server knows the sender and the recipients the client has told it so
\* far, and no others.
EnvelopeInv ==
    /\ pc # "idle" => msg \in Msg
    /\ pc \in {"rcpt", "data", "body"} => srv.from = msg
    /\ pc = "rcpt" => todo # <<>> /\ srv.rcpts \o todo = Recipients[msg]
    /\ pc \in {"data", "body"} => srv.rcpts = Recipients[msg]

TlsInv == pc = "ehloTls" => srv.tls

IInv == /\ TypeOK /\ EnvelopeInv /\ TlsInv /\ lost <= faults
        /\ AllOrNothing /\ Protected
=============================================================================
