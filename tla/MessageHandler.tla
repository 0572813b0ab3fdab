--------------------------- MODULE MessageHandler ---------------------------
(***************************************************************************)
(* MessageHandler.send_message(): the transports are tried in order, the   *)
(* plugins hear of the result, the message object settles the file behind  *)
(* it, if there is one.  Workers call it with a message in memory          *)
(* (mq-sendmail, mq-mail, applications), with one they stored first        *)
(* (cookbook), and mq-run calls it with what it finds in the queue.  A     *)
(* MaildirBackend among the transports puts a new file into the queue.     *)
(*                                                                         *)
(* The SMTP dialog is one step (SMTPSession has its commands), and so is a *)
(* change of the queue directory (Maildir, QueueRunner): a file is taken   *)
(* from new/ under its lock, or somebody else has it.                      *)
(***************************************************************************)
EXTENDS Naturals, Sequences, FiniteSets

CONSTANTS Msg,          \* messages
          File,         \* names of files in the queue, used again and again
          Worker,       \* processes and threads
          NoMsg, NoFile,
          CallerLists,  \* the transports a caller's handler may have
          Configs,      \* the settings to look at, see Config
          NoLimit,      \* no plugin discards messages
          Faults,       \* kinds of faults that may happen
          MaxFaults,    \* bound: number of faults
          MaxRefusals   \* bound: refusals that are counted, see Refused

Transport == {"smtp", "maildir"}
FaultKind == {"crash", "replyLost", "exception", "diskError"}

\* limit:   a plugin discards messages with more retries, or NoLimit
\* handler: the transports of the handler mq-run works with
\* noId:    the messages that have an empty Message-ID header
\* outage:  the server may refuse for ever
Config == [limit : Nat \cup {NoLimit}, handler : Seq(Transport),
           noId : SUBSET Msg, outage : BOOLEAN]

ASSUME HandlerAssumption ==
    /\ NoMsg \notin Msg /\ NoFile \notin File
    /\ File \cap Worker = {}
    /\ IsFiniteSet(File) /\ IsFiniteSet(Worker)
    /\ CallerLists \subseteq Seq(Transport)
    /\ NoLimit \notin Nat
    /\ Configs \subseteq Config
    /\ MaxFaults \in Nat /\ MaxRefusals \in Nat
    /\ \A c \in Configs : c.limit # NoLimit => c.limit < MaxRefusals

VARIABLES config,    \* the settings, a member of Configs
          place,     \* place[f]: the folder of f, or "none"
          of,        \* of[f]: the message in f
          retries,   \* retries[f]: X-Retries in f
          pc,        \* pc[w]: how far w is in send_message()
          job,       \* job[w]: who called: "memory", "stored" or "run"
          msg,       \* msg[w]: the message
          file,      \* file[w]: the file behind the message
          left,      \* left[w]: the transports still to be tried
          count,     \* count[w]: msg.retries
          result,    \* result[w]: the SendResult so far
          told,      \* told[w]: the signals of this call (history)
          sent,      \* sent[m]: how often a server took m (history)
          refusals,  \* refusals[m]: failed attempts of m (history)
          discarded, \* messages a plugin discarded (history)
          answer,    \* answer[m]: what the caller of m was told (history)
          queued,    \* messages that were put into the queue (history)
          faults     \* number of faults so far

fileVars == <<place, of, retries>>
callVars == <<job, msg, file, left, count, result, told>>
history  == <<sent, refusals, discarded, answer, queued>>
vars == <<config, fileVars, pc, callVars, history, faults>>

Init ==
    /\ config \in Configs
    /\ place     = [f \in File |-> "none"]
    /\ of        = [f \in File |-> NoMsg]
    /\ retries   = [f \in File |-> 0]
    /\ pc        = [w \in Worker |-> "idle"]
    /\ job       = [w \in Worker |-> "none"]
    /\ msg       = [w \in Worker |-> NoMsg]
    /\ file      = [w \in Worker |-> NoFile]
    /\ left      = [w \in Worker |-> <<>>]
    /\ count     = [w \in Worker |-> 0]
    /\ result    = [w \in Worker |-> "failed"]
    /\ told      = [w \in Worker |-> <<>>]
    /\ sent      = [m \in Msg |-> 0]
    /\ refusals  = [m \in Msg |-> 0]
    /\ discarded = {}
    /\ answer    = [m \in Msg |-> "none"]
    /\ queued    = {}
    /\ faults    = 0

-----------------------------------------------------------------------------
Busy == {"prepare", "transport", "accepted", "finish", "failed"}

Held(f) == \E w \in Worker : pc[w] # "idle" /\ file[w] = f

Inject(kind) ==
    /\ kind \in Faults
    /\ faults < MaxFaults
    /\ faults' = faults + 1

Goto(w, label) == pc' = [pc EXCEPT ![w] = label]

\* Mutant: there is no SendResult before a transport has answered.
EnterUnset(w, kind, m, f, lists, n) ==
    /\ pc[w] = "idle"
    /\ Goto(w, "prepare")
    /\ job'    = [job EXCEPT ![w] = kind]
    /\ msg'    = [msg EXCEPT ![w] = m]
    /\ file'   = [file EXCEPT ![w] = f]
    /\ \E l \in lists : left' = [left EXCEPT ![w] = l]
    /\ count'  = [count EXCEPT ![w] = n]
    /\ result' = [result EXCEPT ![w] = "none"]
    /\ told'   = [told EXCEPT ![w] = <<>>]

\* w enters send_message() with m; f is the file it holds.
Enter(w, kind, m, f, lists, n) ==
    /\ pc[w] = "idle"
    /\ Goto(w, "prepare")
    /\ job'    = [job EXCEPT ![w] = kind]
    /\ msg'    = [msg EXCEPT ![w] = m]
    /\ file'   = [file EXCEPT ![w] = f]
    /\ \E l \in lists : left' = [left EXCEPT ![w] = l]
    /\ count'  = [count EXCEPT ![w] = n]
    /\ result' = [result EXCEPT ![w] = "failed"]
    /\ told'   = [told EXCEPT ![w] = <<>>]

\* w leaves send_message(): with a result, by an exception or by a kill.
Leave(w, r) ==
    /\ Goto(w, "idle")
    /\ answer' = IF job[w] = "run" THEN answer
                                   ELSE [answer EXCEPT ![msg[w]] = r]
    /\ job'    = [job EXCEPT ![w] = "none"]
    /\ msg'    = [msg EXCEPT ![w] = NoMsg]
    /\ file'   = [file EXCEPT ![w] = NoFile]
    /\ left'   = [left EXCEPT ![w] = <<>>]
    /\ count'  = [count EXCEPT ![w] = 0]
    /\ result' = [result EXCEPT ![w] = "failed"]
    /\ told'   = [told EXCEPT ![w] = <<>>]

\* A file name that is not in use gets a message.
NewFile(f, m, folder) ==
    /\ place[f] = "none"
    /\ place'   = [place EXCEPT ![f] = folder]
    /\ of'      = [of EXCEPT ![f] = m]
    /\ retries' = [retries EXCEPT ![f] = 0]

\* unlink() of the file behind the message of w; nothing in InMemoryMsg.
Unlink(w) ==
    IF file[w] = NoFile
      THEN UNCHANGED <<place, of>>
      ELSE /\ place' = [place EXCEPT ![file[w]] = "none"]
           /\ of' = [of EXCEPT ![file[w]] = NoMsg]

-----------------------------------------------------------------------------
(* Who calls send_message() *)

\* A message in memory (_wrap_msg(), or the InMemoryMsg of the tools).
Call(w, m) ==
    /\ answer[m] = "none"
    /\ Enter(w, "memory", m, NoFile, CallerLists, 0)
    /\ answer' = [answer EXCEPT ![m] = "pending"]
    /\ UNCHANGED <<config, fileVars, sent, refusals, discarded, queued, faults>>

\* enqueue_message(in_progress=True), then send_message().
CallStored(w, m) ==
    /\ answer[m] = "none"
    /\ \E f \in File :
         /\ NewFile(f, m, "cur")
         /\ Enter(w, "stored", m, f, CallerLists, 0)
    /\ answer' = [answer EXCEPT ![m] = "pending"]
    /\ queued' = queued \cup {m}
    /\ UNCHANGED <<config, sent, refusals, discarded, faults>>

\* mq-run with a path of new/: start_delivery() moves the file to cur/.  If
\* somebody has it, send_message() returns None and nothing happens.
Take(w, f) ==
    /\ place[f] = "new"
    /\ ~Held(f)
    /\ place' = [place EXCEPT ![f] = "cur"]
    /\ Enter(w, "run", of[f], f, {config.handler}, retries[f])
    /\ UNCHANGED <<config, of, retries, history, faults>>

\* unblock_stale_messages() of some mq-run: half an hour in cur/, no lock.
Unblock(f) ==
    /\ place[f] = "cur"
    /\ ~Held(f)
    /\ place' = [place EXCEPT ![f] = "new"]
    /\ UNCHANGED <<config, of, retries, pc, callVars, history, faults>>

-----------------------------------------------------------------------------
(* send_message() *)

\* Sender and recipients, from the arguments or from the message.
Prepare(w) ==
    /\ pc[w] = "prepare"
    /\ Goto(w, "transport")
    /\ UNCHANGED <<config, fileVars, callVars, history, faults>>

\* _msg_metadata(): arguments that contradict each other, that are missing or
\* unknown.  A stored message stays in cur/.
BadArguments(w) ==
    /\ pc[w] = "prepare"
    /\ job[w] # "run"
    /\ Leave(w, "raised")
    /\ UNCHANGED <<config, fileVars, sent, refusals, discarded, queued, faults>>

Trying(w, transport) ==
    /\ pc[w] = "transport"
    /\ left[w] # <<>>
    /\ Head(left[w]) = transport

\* Mutant: the loop goes on after the transport that has accepted.
AcceptedTwice(w) ==
    /\ Trying(w, "smtp")
    /\ sent' = [sent EXCEPT ![msg[w]] = @ + 1]
    /\ result' = [result EXCEPT ![w] = "sent"]
    /\ left' = [left EXCEPT ![w] = Tail(@)]
    /\ Goto(w, IF Len(left[w]) = 1 THEN "accepted" ELSE "transport")
    /\ UNCHANGED <<config, fileVars, job, msg, file, count, told,
                   refusals, discarded, answer, queued, faults>>

Accepted(w) ==
    /\ Trying(w, "smtp")
    /\ sent' = [sent EXCEPT ![msg[w]] = @ + 1]
    /\ result' = [result EXCEPT ![w] = "sent"]
    /\ Goto(w, "accepted")
    /\ UNCHANGED <<config, fileVars, job, msg, file, left, count, told,
                   refusals, discarded, answer, queued, faults>>

\* The next transport's turn.  Refusals are counted up to MaxRefusals.
NextTransport(w) ==
    /\ left' = [left EXCEPT ![w] = Tail(@)]
    /\ refusals' = [refusals EXCEPT ![msg[w]] =
                      IF @ < MaxRefusals THEN @ + 1 ELSE @]
    /\ UNCHANGED <<config, fileVars, pc, job, msg, file, count, result,
                   discarded, answer, queued>>

\* Mutant: the plugins hear of every transport that fails.
RefusedAndTold(w) ==
    /\ Trying(w, "smtp")
    /\ config.outage \/ refusals[msg[w]] < MaxRefusals
    /\ NextTransport(w)
    /\ told' = [told EXCEPT ![w] = Append(@, "failed")]
    /\ UNCHANGED <<sent, faults>>

Refused(w) ==
    /\ Trying(w, "smtp")
    /\ config.outage \/ refusals[msg[w]] < MaxRefusals
    /\ NextTransport(w)
    /\ UNCHANGED <<told, sent, faults>>

\* The server took the message, the connection broke before its answer came.
ReplyLost(w) ==
    /\ Trying(w, "smtp")
    /\ Inject("replyLost")
    /\ sent' = [sent EXCEPT ![msg[w]] = @ + 1]
    /\ NextTransport(w)
    /\ UNCHANGED told

\* MaildirBackend.send().  The queue log wants the Message-ID: an empty one
\* raises, and the file is in the queue already.
Enqueue(w) ==
    /\ Trying(w, "maildir")
    /\ \E f \in File : NewFile(f, msg[w], "new")
    /\ queued' = queued \cup {msg[w]}
    /\ IF msg[w] \in config.noId
         THEN /\ Leave(w, "raised")
         ELSE /\ result' = [result EXCEPT ![w] = "queued"]
              /\ Goto(w, "accepted")
              /\ UNCHANGED <<job, msg, file, left, count, told, answer>>
    /\ UNCHANGED <<config, sent, refusals, discarded, faults>>

\* Mutant: a failing transport is skipped without looking why it failed.
EnqueueErrorIgnored(w) ==
    /\ Trying(w, "maildir")
    /\ Inject("diskError")
    /\ result' = [result EXCEPT ![w] = "queued"]
    /\ Goto(w, "accepted")
    /\ UNCHANGED <<config, fileVars, job, msg, file, left, count, told, history>>

\* The disk is full (nothing is left, or a file in tmp/), or move_message()
\* gave None: enqueue_message() raises.
EnqueueError(w) ==
    /\ Trying(w, "maildir")
    /\ Inject("diskError")
    /\ \/ UNCHANGED fileVars
       \/ \E f \in File : NewFile(f, msg[w], "tmp")
    /\ Leave(w, "raised")
    /\ UNCHANGED <<config, sent, refusals, discarded, queued>>

\* A transport raises what SMTPMailer.send() does not catch, or a plugin
\* raises when it is told; the file has not been touched yet.
Exception(w) ==
    /\ pc[w] = "transport" \/ pc[w] = "accepted"
    /\ Inject("exception")
    /\ Leave(w, "raised")
    /\ UNCHANGED <<config, fileVars, sent, refusals, discarded, queued>>

\* The first truthy result: delivery_successful for the plugins.
NotifySuccess(w) ==
    /\ pc[w] = "accepted"
    /\ told' = [told EXCEPT ![w] = Append(@, "successful")]
    /\ Goto(w, "finish")
    /\ UNCHANGED <<config, fileVars, job, msg, file, left, count, result,
                   history, faults>>

\* Mutant: the file is removed for a result of any kind but "queued".
FinishSentOnly(w) ==
    /\ pc[w] = "finish"
    /\ IF result[w] = "sent" THEN Unlink(w) ELSE UNCHANGED <<place, of>>
    /\ Leave(w, result[w])
    /\ UNCHANGED <<config, retries, sent, refusals, discarded, queued, faults>>

\* msg.delivery_successful().  The delivery log wants the Message-ID, too.
Finish(w) ==
    /\ pc[w] = "finish"
    /\ Unlink(w)
    /\ Leave(w, IF result[w] = "sent" /\ msg[w] \in config.noId
                  THEN "raised" ELSE result[w])
    /\ UNCHANGED <<config, retries, sent, refusals, discarded, queued, faults>>

\* No transport has accepted: one more retry, delivery_failed for the plugins.
NotifyFailure(w) ==
    /\ pc[w] = "transport"
    /\ left[w] = <<>>
    /\ count' = [count EXCEPT ![w] = @ + 1]
    /\ told' = [told EXCEPT ![w] = Append(@, "failed")]
    /\ Goto(w, "failed")
    /\ UNCHANGED <<config, fileVars, job, msg, file, left, result,
                   history, faults>>

\* Mutant: at the limit instead of after it.
DiscardsAtLimit(n) == config.limit # NoLimit /\ n >= config.limit

\* What the plugins answer, by the example in the README.
Discards(n) == config.limit # NoLimit /\ n > config.limit

\* msg.delivery_failed(discard=True)
Discard(w) ==
    /\ pc[w] = "failed"
    /\ Discards(count[w])
    /\ Unlink(w)
    /\ discarded' = discarded \cup {msg[w]}
    /\ Leave(w, "discarded")
    /\ UNCHANGED <<config, retries, sent, refusals, queued, faults>>

\* Mutant: delivery_failed() removes the file.
PutBackUnlinks(w) ==
    /\ pc[w] = "failed"
    /\ ~Discards(count[w])
    /\ Unlink(w)
    /\ Leave(w, "failed")
    /\ UNCHANGED <<config, retries, sent, refusals, discarded, queued, faults>>

\* Mutant: the new metadata is not written.
PutBackAsBefore(w) ==
    /\ pc[w] = "failed"
    /\ ~Discards(count[w])
    /\ IF file[w] = NoFile
         THEN UNCHANGED place
         ELSE place' = [place EXCEPT ![file[w]] = "new"]
    /\ Leave(w, "failed")
    /\ UNCHANGED <<config, of, retries, sent, refusals, discarded, queued, faults>>

\* msg.delivery_failed(): the file gets its new metadata and goes to new/.
PutBack(w) ==
    /\ pc[w] = "failed"
    /\ ~Discards(count[w])
    /\ IF file[w] = NoFile
         THEN UNCHANGED <<place, retries>>
         ELSE /\ place' = [place EXCEPT ![file[w]] = "new"]
              /\ retries' = [retries EXCEPT ![file[w]] = count[w]]
    /\ Leave(w, "failed")
    /\ UNCHANGED <<config, of, sent, refusals, discarded, queued, faults>>

Crash(w) ==
    /\ pc[w] # "idle"
    /\ Inject("crash")
    /\ Leave(w, "killed")
    /\ UNCHANGED <<config, fileVars, sent, refusals, discarded, queued>>

-----------------------------------------------------------------------------
\* A step of send_message().
Step(w) ==
    \/ Prepare(w) \/ BadArguments(w)
    \/ Accepted(w) \/ Refused(w) \/ ReplyLost(w)
    \/ Enqueue(w) \/ EnqueueError(w) \/ Exception(w)
    \/ NotifySuccess(w) \/ Finish(w)
    \/ NotifyFailure(w) \/ Discard(w) \/ PutBack(w)

Next ==
    \/ \E w \in Worker : Step(w) \/ Crash(w)
    \/ \E w \in Worker, m \in Msg : Call(w, m) \/ CallStored(w, m)
    \/ \E w \in Worker, f \in File : Take(w, f)
    \/ \E f \in File : Unblock(f)

\* Calls come to an end; each mq-run tries every file it has listed, and cron
\* starts it again and again; time passes.
Fairness ==
    /\ \A w \in Worker : WF_vars(Step(w))
    /\ \A f \in File : SF_vars(\E w \in Worker : Take(w, f))
    /\ \A f \in File : WF_vars(Unblock(f))

Spec == Init /\ [][Next]_vars
FairSpec == Spec /\ Fairness

-----------------------------------------------------------------------------
(* Properties *)

Answers == {"none", "pending", "sent", "queued", "failed", "discarded",
            "raised", "killed"}

\* Type invariant.
TypeOK ==
    /\ config \in Configs
    /\ place \in [File -> {"none", "tmp", "new", "cur"}]
    /\ of \in [File -> Msg \cup {NoMsg}]
    /\ retries \in [File -> Nat]
    /\ pc \in [Worker -> Busy \cup {"idle"}]
    /\ job \in [Worker -> {"none", "memory", "stored", "run"}]
    /\ msg \in [Worker -> Msg \cup {NoMsg}]
    /\ file \in [Worker -> File \cup {NoFile}]
    /\ left \in [Worker -> Seq(Transport)]
    /\ count \in [Worker -> Nat]
    /\ result \in [Worker -> {"failed", "sent", "queued"}]
    /\ told \in [Worker -> Seq({"successful", "failed"})]
    /\ sent \in [Msg -> Nat]
    /\ refusals \in [Msg -> Nat]
    /\ discarded \subseteq Msg
    /\ answer \in [Msg -> Answers]
    /\ queued \subseteq Msg
    /\ faults \in 0 .. MaxFaults

\* The files with m in them that mq-run finds, now or when they are stale.
Copies(m) == {f \in File : of[f] = m /\ place[f] \in {"new", "cur"}}

\* w has had the answer of a transport that accepted.
Done(w) == pc[w] \in {"accepted", "finish"}

\* What can still lead to a delivery of m: files nobody has settled yet, and
\* calls with m in memory.
Sources(m) ==
    {f \in Copies(m) : ~\E w \in Worker : file[w] = f /\ Done(w)}
      \cup {w \in Worker : pc[w] # "idle" /\ ~Done(w)
                             /\ job[w] = "memory" /\ msg[w] = m}

\* Whichever transports a message goes through, in memory, as a file, as a
\* copy in the queue beside the file it was read from: servers get it again
\* only after a fault, and with every fault only once more.
NoSurplus ==
    \A m \in Msg \ config.noId :
        sent[m] + Cardinality(Sources(m)) <= 1 + faults

\* What send_message() returned is true (README: it "evaluates to True if the
\* message was sent via SMTP or queued for later delivery"), and a failure is
\* one: no copy is left over, and no server has the message, unless its answer
\* was lost.
AnswersTrue ==
    \A m \in Msg :
        /\ answer[m] = "sent" => sent[m] > 0
        /\ answer[m] = "queued" =>
             Copies(m) # {} \/ sent[m] > 0 \/ m \in discarded
        /\ answer[m] \in {"failed", "discarded"} /\ m \notin queued =>
             Copies(m) = {} /\ sent[m] <= faults

\* What was in the queue once is in it until it was delivered or discarded,
\* also when the file is replaced by a copy (MaildirBackend.send(), then
\* delivery_successful() of the message it was read from).
QueueKeeps ==
    \A m \in queued : Copies(m) # {} \/ sent[m] > 0 \/ m \in discarded

\* A plugin with a limit sees a number of retries that really were made: it
\* discards nothing before that many attempts have failed.
NotDiscardedEarly ==
    \A m \in discarded : config.limit # NoLimit /\ refusals[m] > config.limit

\* Before a file goes, and before a caller gets a result, the plugins were
\* told exactly once, and they were told the same.
PluginsToldTheSame ==
    [][\A w \in Worker : pc[w] # "idle" =>
         /\ file[w] # NoFile /\ place'[file[w]] # place[file[w]] =>
              told[w] = IF place'[file[w]] = "none" /\ result[w] # "failed"
                          THEN <<"successful">> ELSE <<"failed">>
         /\ job[w] # "run" /\ answer'[msg[w]] \in {"sent", "queued"} =>
              told[w] = <<"successful">>
         /\ job[w] # "run" /\ answer'[msg[w]] \in {"failed", "discarded"} =>
              told[w] = <<"failed">>]_vars

\* A call whose message was sent or queued says so (README: "was_sent"
\* evaluates to True if the message was sent via SMTP or queued for later
\* delivery).
TrueIfAccepted ==
    [][\A w \in Worker :
         /\ job[w] # "run" /\ faults' = faults
         /\ Done(w) \/ (pc[w] = "transport" /\ msg[w] \in queued' \ queued)
         => pc'[w] # "idle" \/ answer'[msg[w]] \in {"sent", "queued"}]_vars

\* Every message in the queue leaves it, if not by a delivery then because a
\* plugin gives up (README: "discarding queued messages after failed delivery
\* attempts (e.g. give up after 10 failed attempts)").
LeavesQueue == \A m \in Msg : m \in queued ~> Copies(m) = {}

\* What a caller is promised: see MailService.
Carried(m) ==
    \/ Copies(m) # {}
    \/ \E w \in Worker : pc[w] # "idle" /\ job[w] = "memory" /\ msg[w] = m
Promise == INSTANCE MailService
    WITH odd <- config.noId, carried <- {m \in Msg : Carried(m)}
Implements == Promise!Spec
=============================================================================
