---------------------------- MODULE CommandLine ----------------------------
(***************************************************************************)
(* One message from the command line to the server: mq-sendmail, mq-mail   *)
(* or mq-send-test from its arguments to its exit code, or an application  *)
(* that calls enqueue_message(), and then mq-run, which tries again what   *)
(* was queued, each time reading and rewriting the metadata of the file.   *)
(*                                                                         *)
(* Who may hold the file, crashes and the SMTP dialog are in QueueRunner,  *)
(* MessageHandler and SMTPSession; here a delivery attempt is one step.    *)
(***************************************************************************)
EXTENDS Aliases, Envelope, FiniteSets

CONSTANTS Calls,       \* the ways the program is called, see Call
          HeaderCases, \* messages and --set-... options, see HeaderCase
          Configs,     \* what the configuration may be, see Config
          NotAscii,    \* targets that cannot be encoded
          MaxAttempts, \* bound: failed attempts of mq-run
          MaxTime      \* bound: half seconds that pass

Tools == {"sendmail", "mail", "test", "app"}

\* recipients: of the arguments; inMessage: those in To, CC and BCC;
\* from: of the arguments
Call == [tool : Tools, recipients : Seq(Target), inMessage : SUBSET Target,
         read : BOOLEAN, from : Target \cup {None, NullSender}]

\* headers: of the message; wanted: the ones to be added
HeaderCase == [headers : [Header -> Values], wanted : SUBSET Header]

\* file:  the config file, and the log settings in it
\* from, smtp, queue: the settings "from", "smtp_..." and "queue_dir"
Config == [file : {"ok", "none", "notFound", "invalid", "noSection",
                   "noLogConfig", "badLogConfig", "noLogDir", "contradiction"},
           from : Target \cup {None}, smtp : {"ok", "noHost", "bad"},
           queue : BOOLEAN]

ASSUME CommandLineAssumption ==
    /\ Calls \subseteq Call
    /\ \A c \in Calls :
         /\ IsFiniteSet(c.inMessage)
         /\ c.from = NullSender => c.tool = "app"
         /\ c.tool = "app" => c.from # None
         /\ c.tool = "test" => c.recipients # <<>>
    /\ HeaderCases \subseteq HeaderCase
    /\ Configs \subseteq Config
    /\ NotAscii \subseteq Target
    /\ None \notin Nat \cup Target \cup Configs
    /\ NullSender \notin Target \cup {None}
    /\ Parts \in [Target -> Seq(Target)]
    /\ \A t \in Target : \A p \in Elements(Parts[t]) : Parts[p] = <<p>>
    /\ MaxAttempts \in Nat /\ MaxTime \in Nat

VARIABLES call,      \* how the program was called
          config,    \* its configuration, None before it is read
          pc,        \* how far it is
          to,        \* the recipients of the envelope
          from,      \* its sender
          wanted,    \* the headers that are to be added
          headers,   \* the headers of the message
          exit,      \* the exit code, None before the end
          sent,      \* what servers accepted (history)
          file,      \* the metadata in the queue, <<>> if nothing is there
          now,       \* the time
          queuedAt,  \* when the message was put into the queue (history)
          failures,  \* when mq-run failed to send it (history)
          lost       \* a server's answer was lost (history)

envelope == <<to, from>>
content  == <<wanted, headers>>
queue    == <<file, queuedAt, failures>>
server   == <<sent, lost>>
vars == <<aliasVars, call, config, pc, envelope, content, exit, server, queue, now>>

Init ==
    /\ LookupInit
    /\ call \in Calls
    /\ call.tool \in {"test", "app"} => given = <<>>
    /\ config = None
    /\ pc = "start"
    /\ to = <<>>
    /\ from = None
    /\ wanted = {}
    /\ headers = [h \in Header |-> <<>>]
    /\ exit = None
    /\ sent = <<>>
    /\ file = <<>>
    /\ now = 0
    /\ queuedAt = 0
    /\ failures = <<>>
    /\ lost = FALSE

-----------------------------------------------------------------------------
Goto(label) == pc' = label /\ UNCHANGED exit
Exit(code) == pc' = "exited" /\ exit' = code

\* An exception nobody catches ends the program with 1.
Traceback == Exit(1)

At(label, tools) == pc = label /\ call.tool \in tools

(* Whom the message is for *)

\* mq-sendmail without recipients and without -t.
Usage ==
    /\ At("start", {"sendmail"})
    /\ call.recipients = <<>> /\ ~call.read
    /\ Exit(2)
    /\ UNCHANGED <<aliasVars, call, config, envelope, content, server, queue, now>>

\* The file of --aliases cannot be opened.
NoAliasFile ==
    /\ At("start", {"sendmail", "mail"})
    /\ call.recipients # <<>> \/ call.read
    /\ Traceback
    /\ UNCHANGED <<aliasVars, call, config, envelope, content, server, queue, now>>

InMessage == IF call.read THEN call.inMessage ELSE {}
Orders(S) == {s \in [1 .. Cardinality(S) -> S] : Elements(s) = S}

\* Mutant: the message is read only if there are no arguments.
LookupEither ==
    /\ At("start", {"sendmail", "mail"})
    /\ call.recipients # <<>> \/ call.read
    /\ \E more \in Orders(InMessage) :
         Begin(IF call.recipients = <<>> THEN more ELSE call.recipients)
    /\ Goto("recipients")
    /\ UNCHANGED <<call, config, envelope, content, server, queue, now>>

\* _recipients_from_message() puts them into a set: they have any order.
LookupRecipients ==
    /\ At("start", {"sendmail", "mail"})
    /\ call.recipients # <<>> \/ call.read
    /\ \E more \in Orders(InMessage) :
         Begin(call.recipients \o more)
    /\ Goto("recipients")
    /\ UNCHANGED <<call, config, envelope, content, server, queue, now>>

\* mq-send-test takes --to as it is.
TestRecipient ==
    /\ At("start", {"test"})
    /\ to' = call.recipients
    /\ Goto("config")
    /\ UNCHANGED <<aliasVars, call, config, from, content, server, queue, now>>

LookingUp ==
    /\ pc \in {"recipients", "sender"}
    /\ Lookup
    /\ IF failed' THEN Traceback ELSE UNCHANGED <<pc, exit>>
    /\ UNCHANGED <<call, config, envelope, content, server, queue, now>>

GotRecipients ==
    /\ At("recipients", {"sendmail", "mail"})
    /\ End
    /\ to' = IF Result = <<>> /\ call.tool = "mail" THEN call.recipients ELSE Result
    /\ IF to' = <<>> THEN Exit(2) ELSE Goto("config")
    /\ UNCHANGED <<call, config, from, content, server, queue, now>>

-----------------------------------------------------------------------------
(* Configuration, sender, headers *)

\* init_app() asserts that there is a config file.  A section that is missing
\* is found where errors in the file are, not where 22 is.
ConfigError ==
    CASE config'.file = "none"          -> 1
      [] config'.file = "notFound"      -> 20
      [] config'.file = "invalid"       -> 21
      [] config'.file = "noSection"     -> 21
      [] config'.file = "noLogConfig"   -> 25
      [] config'.file = "badLogConfig"  -> 26
      [] config'.file = "noLogDir"      -> 27
      [] config'.file = "contradiction" -> 1

ReadConfig ==
    /\ pc = "config"
    /\ config' \in Configs
    /\ config'.file = "contradiction" => call.tool = "test"
    /\ IF config'.file = "ok" THEN Goto("from") ELSE Exit(ConfigError)
    /\ UNCHANGED <<aliasVars, call, envelope, content, server, queue, now>>

\* The sender of the arguments is looked up like the recipients.
LookupSender ==
    /\ At("from", {"sendmail", "mail"})
    /\ call.from # None
    /\ Begin(<<call.from>>)
    /\ Goto("sender")
    /\ UNCHANGED <<call, config, envelope, content, server, queue, now>>

GotSender ==
    /\ pc = "sender"
    /\ End
    /\ from' = IF Result = <<>> THEN call.from ELSE Head(Result)
    /\ Goto("headers")
    /\ UNCHANGED <<call, config, to, content, server, queue, now>>

DefaultSender ==
    /\ At("from", {"sendmail", "mail"})
    /\ call.from = None
    /\ from' = config.from
    /\ IF from' = None THEN Exit(81) ELSE Goto("headers")
    /\ UNCHANGED <<aliasVars, call, config, to, content, server, queue, now>>

\* mq-send-test would rather write to itself than give up.
TestSender ==
    /\ At("from", {"test"})
    /\ from' = IF call.from # None THEN call.from
               ELSE IF config.from # None THEN config.from ELSE Head(to)
    /\ Goto("headers")
    /\ UNCHANGED <<aliasVars, call, config, to, content, server, queue, now>>

\* The domain of a new Message-ID is that of the sender; one without "@" makes
\* split() return too little.  mq-mail wants all headers, mq-send-test has them.
AddHeaders ==
    /\ pc = "headers"
    /\ \E c \in HeaderCases :
         /\ call.tool = "mail" => c.wanted = Header /\ \A h \in Header : c.headers[h] = <<>>
         /\ call.tool = "test" => c.wanted = {} /\ \A h \in Header : c.headers[h] = <<"own">>
         /\ wanted' = c.wanted
         /\ headers' = WithExtra(c.headers, c.wanted)
         /\ IF /\ "Message-ID" \in c.wanted /\ Lacks(c.headers, "Message-ID")
               /\ from \notin Address
              THEN Traceback
              ELSE Goto("mailer")
    /\ UNCHANGED <<aliasVars, call, config, envelope, server, queue, now>>

\* init_smtp_mailer(): no host, or a setting SMTPMailer does not know.
InitMailer ==
    /\ pc = "mailer"
    /\ \/ config.smtp = "ok"     /\ Goto("smtp")
       \/ config.smtp = "noHost" /\ Exit(30)
       \/ config.smtp = "bad"    /\ Traceback
    /\ UNCHANGED <<aliasVars, call, config, envelope, content, server, queue, now>>

-----------------------------------------------------------------------------
(* send_message() *)

Encodable(sender, recipients) ==
    NotAscii \cap (Elements(recipients) \cup {sender}) = {}

\* queued: mq-run sends it, with what the file says
Mail(sender, recipients, queued) ==
    [from |-> sender, to |-> recipients, headers |-> headers, queued |-> queued]

FromFile == LET msg == Parse(file) IN Mail(msg.from, msg.to, TRUE)

\* msg_id is the first Message-ID without its brackets, which have to have
\* something in between.
MsgIdRaises ==
    headers["Message-ID"] # <<>> /\ Head(headers["Message-ID"]) = ""

\* Whoever has the message by now, its Message-ID is read for the log.
LogAndExit == IF MsgIdRaises THEN Traceback ELSE Exit(0)

SendAccepted ==
    /\ pc = "smtp"
    /\ Encodable(from, to)
    /\ sent' = Append(sent, Mail(from, to, FALSE))
    /\ LogAndExit
    /\ UNCHANGED <<aliasVars, call, config, envelope, content, lost, queue, now>>

\* The transport after SMTPMailer, if there is one.
NotSent ==
    IF config.queue /\ call.tool # "test" THEN Goto("enqueue") ELSE Exit(100)

SendRefused ==
    /\ pc = "smtp"
    /\ NotSent
    /\ UNCHANGED <<aliasVars, call, config, envelope, content, server, queue, now>>

SendReplyLost ==
    /\ pc = "smtp"
    /\ Encodable(from, to)
    /\ sent' = Append(sent, Mail(from, to, FALSE))
    /\ lost' = TRUE
    /\ NotSent
    /\ UNCHANGED <<aliasVars, call, config, envelope, content, queue, now>>

\* The client encodes an address when its turn comes, if it comes.
SendRaises ==
    /\ pc = "smtp"
    /\ ~Encodable(from, to)
    /\ Traceback
    /\ UNCHANGED <<aliasVars, call, config, envelope, content, server, queue, now>>

\* Mutant: no transport has sent it, so it is not sent.
EnqueueAs100 ==
    /\ pc = "enqueue"
    /\ Encodable(from, to)
    /\ file' = Serialize(from, to, now, None, 0)
    /\ queuedAt' = now
    /\ Exit(100)
    /\ UNCHANGED <<aliasVars, call, config, envelope, content, server, failures, now>>

Enqueue ==
    /\ pc = "enqueue"
    /\ Encodable(from, to)
    /\ file' = Serialize(from, to, now, None, 0)
    /\ queuedAt' = now
    /\ LogAndExit
    /\ UNCHANGED <<aliasVars, call, config, envelope, content, server, failures, now>>

\* An address that is not ASCII, a full disk: before there is a file.
EnqueueRaises ==
    /\ pc = "enqueue"
    /\ Traceback
    /\ UNCHANGED <<aliasVars, call, config, envelope, content, server, queue, now>>

\* An application puts its message into the queue without these tools.
AppCall ==
    /\ At("start", {"app"})
    /\ to' = call.recipients
    /\ from' = call.from
    /\ Goto("enqueue")
    /\ UNCHANGED <<aliasVars, call, config, content, server, queue, now>>

-----------------------------------------------------------------------------
(* mq-run with the file *)

Trying == pc = "exited" /\ file # <<>>

\* If mq-run then stops because of the Message-ID, the file is gone as well.
RunAccepted ==
    /\ Trying
    /\ sent' = Append(sent, FromFile)
    /\ file' = <<>>
    /\ UNCHANGED <<aliasVars, call, config, pc, envelope, content, exit, lost,
                   queuedAt, failures, now>>

\* delivery_failed(): everything is written anew, with one more retry.
RunFailed ==
    /\ Trying
    /\ Len(failures) < MaxAttempts
    /\ LET msg == Parse(file)
       IN file' = Serialize(msg.from, msg.to, msg.date, now, msg.retries + 1)
    /\ failures' = Append(failures, now)
    /\ \/ UNCHANGED server
       \/ /\ sent' = Append(sent, FromFile)
          /\ lost' = TRUE
    /\ UNCHANGED <<aliasVars, call, config, pc, envelope, content, exit, queuedAt, now>>

Tick ==
    /\ Trying \/ pc = "enqueue"
    /\ now < MaxTime
    /\ now' = now + 1
    /\ UNCHANGED <<aliasVars, call, config, pc, envelope, content, exit, server, queue>>

-----------------------------------------------------------------------------
Step ==
    \/ Usage \/ NoAliasFile \/ LookupRecipients \/ TestRecipient
    \/ LookingUp \/ GotRecipients
    \/ ReadConfig \/ LookupSender \/ GotSender \/ DefaultSender \/ TestSender
    \/ AddHeaders \/ InitMailer
    \/ SendAccepted \/ SendRefused \/ SendReplyLost \/ SendRaises
    \/ AppCall \/ Enqueue \/ EnqueueRaises

Next == Step \/ RunAccepted \/ RunFailed \/ Tick

\* A program that was started goes on.
Spec == Init /\ [][Next]_vars /\ WF_vars(Step)

-----------------------------------------------------------------------------
(* Properties *)

\* Type invariant.
TypeOK ==
    /\ given \in Files /\ system \in SystemFiles
    /\ start \in Seq(Target)
    /\ \A i \in DOMAIN stack : stack[i] \in [todo : Seq(Target), found : Seq(Address)]
    /\ seen \subseteq Target
    /\ failed \in BOOLEAN
    /\ call \in Calls
    /\ config \in Configs \cup {None}
    /\ pc \in {"start", "recipients", "config", "from", "sender", "headers",
               "mailer", "smtp", "enqueue", "exited"}
    /\ to \in Seq(Target)
    /\ from \in Target \cup {None, NullSender}
    /\ wanted \subseteq Header
    /\ \A h \in Header : headers[h] \in Values \cup {<<"added">>, <<"added", "">>}
    /\ exit \in {None, 0, 1, 2, 20, 21, 25, 26, 27, 30, 81, 100}
    /\ Len(sent) <= MaxAttempts + 2
    /\ \A i \in DOMAIN sent : Elements(sent[i].to) \subseteq Target
    /\ file # <<>> => DOMAIN Parse(file) = {"from", "to", "date", "last", "retries"}
    /\ now \in 0 .. MaxTime /\ queuedAt \in 0 .. MaxTime
    /\ failures \in Seq(0 .. MaxTime)
    /\ lost \in BOOLEAN

AllParts(S) == UNION {Elements(Parts[t]) : t \in S}

\* Whom the caller means: what his names stand for.  mq-mail writes to a name
\* itself if it stands for nothing.
Meant ==
    LET names == Elements(call.recipients) \cup InMessage
        addresses == Reachable(names) \cap Address
    IN IF call.tool \in {"test", "app"}
            \/ (call.tool = "mail" /\ addresses = {})
         THEN Elements(call.recipients) ELSE addresses

\* Which senders he may mean.
MeantSender ==
    LET default == IF config # None /\ config.from # None THEN {config.from}
                   ELSE IF call.tool = "test" THEN Elements(call.recipients)
                   ELSE {}
        addresses == Reachable({call.from}) \cap Address
    IN IF call.from = None THEN default
       ELSE IF call.tool \in {"test", "app"} \/ addresses = {} THEN {call.from}
       ELSE addresses

\* What a tool sends goes to everybody who is meant and to nobody else, from
\* the sender who is meant.  What comes from the queue does so, too, however
\* often mq-run has rewritten the file, but for what the file cannot say: an
\* address with a comma has become those around the comma, which nobody meant,
\* and the null sender ">".
Addressed ==
    LET recipients == Meant
        senders == MeantSender
        split == AllParts(recipients)
        stripped == {StripBrackets(s) : s \in senders}
    IN \A i \in DOMAIN sent :
         LET mail == sent[i]
         IN /\ ~mail.queued => Elements(mail.to) = recipients /\ mail.from \in senders
            /\ mail.queued  => Elements(mail.to) = split /\ mail.from \in stripped

\* The metadata in the queue tells the history of the message: when it was
\* queued, how often mq-run failed and when last, however often the file was
\* rewritten.
MetaKept ==
    file # <<>> =>
      LET msg == Parse(file)
      IN /\ msg.date = Seconds(queuedAt)
         /\ msg.retries = Len(failures)
         /\ msg.last = IF failures = <<>> THEN None
                       ELSE Seconds(failures[Len(failures)])

\* The exit code is true: after 0 a server or the queue has the message; after
\* any other one neither has it, unless an answer was lost or the Message-ID is
\* empty (the exception then comes too late); and there is nobody to write to
\* only if the names stand for nobody.
ExitTruthful ==
    /\ exit = 0 => sent # <<>> \/ file # <<>>
    /\ exit \notin {None, 0} =>
         (file = <<>> /\ (sent = <<>> \/ lost)) \/ (exit = 1 /\ MsgIdRaises)
    /\ exit = 2 => Meant = {}

\* What goes out, now or later, has each header that was asked for, no other
\* one that the author did not write, and what he wrote stands alone
\* (--set-date-header: "Add a "Date" header to the message (if not present)").
HeadersComplete ==
    \A i \in DOMAIN sent : \A h \in Header :
        LET lines == sent[i].headers[h]
        IN /\ h \in wanted => lines # <<>>
           /\ "added" \in Elements(lines) => h \in wanted
           /\ "own" \in Elements(lines) => lines = <<"own">>

\* "(if not present)", cli/mq_sendmail.py: what is added is the only line of
\* its name.  A header that is present but empty gets a second line.
AddedIfNotPresent ==
    \A i \in DOMAIN sent : \A h \in Header :
        LET lines == sent[i].headers[h]
        IN "added" \in Elements(lines) => lines = <<"added">>

\* Whatever is in the aliases file, the program ends.
Ends == <>(pc = "exited")
=============================================================================
