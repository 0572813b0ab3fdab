# Verification of mailqueue-runner

mailqueue-runner keeps outgoing e-mails in a maildir-like directory and sends
them to an SMTP server. Applications put messages into the queue (or try to
send them right away and queue what could not be sent); `mq-run`, started by
cron, works the queue off. This directory holds TLA+ models of the program,
their TLC configurations and machine-checked proofs.

    tlc -config AllFaults.cfg MCQueueRunner    # one of the runs of section 4
    tlapm QueueRunnerProofs.tla                # one of the modules of section 5

## 1. Inventory

Paths are relative to `src/schwarz/mailqueue/`.

| Part | State | Operations | Talks to |
|------|-------|------------|----------|
| Maildir queue, locking (`maildir_utils.py`) | one file per message, links in `tmp/`, `new/`, `cur/`; `flock()` on the file | `create_maildir_directories`, `find_messages`, `lock_file`, `move_message` | the file system; every process |
| Queue runner, enqueueing (`queue_runner.py`) | lists of paths taken at the start of a run; an open, locked file per delivery; `X-Retries` in the file | `enqueue_message`, `inject_message_into_maildir`, `unblock_stale_messages`, `assemble_queue_with_new_messages`, `send_all_queued_messages`, `MaildirBackedMsg.*` | maildir, message handler |
| Message handler (`message_handler.py`) | none of its own; transports, plugins | `send_message`, `_msg_metadata`, `_notify_plugins`, `InMemoryMsg.*` | mailers, plugins, maildir |
| Mailer and SMTP client (`mailer.py`, `smtpclient.py`, `lib/smtplib_py37.py`) | a connection: socket, EHLO/HELO reply, debug level | `SMTPMailer.send`, `SMTPClient.sendmail`, `data`, `quit`, ... | the server |
| Envelope (`message_utils.py`) | none | parse and serialise the queue metadata and the message | queue runner, handler |
| Aliases (`aliases_parser.py`) | the aliases file | `lookup_adresses`, `_resolve_alias` | command line tools |
| Command line tools (`cli/*`, `mailflow_check.py`) | none | `mq-sendmail`, `mq-mail`, `mq-run`, `mq-send-test` | handler, queue runner, aliases |
| Configuration, logging (`app_helpers.py`) | a parsed file | `init_app`, `init_smtp_mailer` | everything |
| Plugins (`plugins.py`) | registered callbacks | `discard`, signals | message handler |

### What makes each part correct

- **Maildir.** Of several processes that want the same file at most one gets
  it, also when the file is moved or deleted between the system calls of
  `lock_file()`. `move_message()` moves a file or leaves it alone, and a caller
  that gets `None` has lost nothing.
- **Queue runner.** A stored message leaves the queue only by delivery or by a
  plugin's decision, it leaves it at last, and it is delivered once unless a
  crash, an error or a lost reply makes that impossible to know. Every failed
  attempt is counted. Nobody ever reads a half-written file.
- **Message handler.** The transports are tried in order until one accepts;
  what the caller is told, what the plugins are told and what becomes of the
  file agree, and a message that exists twice for a moment (in memory and in
  the queue, or as a file and its copy) is not delivered twice for that.
- **Mailer and client.** A mail goes to all recipients or to none; a connection
  that is used again does not carry anything over from a failed message; the
  result says what the server has said.
- **Envelope.** However often the file is rewritten, its metadata say who the
  message is from and for, when it was queued, how often it failed and when.
- **Aliases.** The result is the set of addresses reachable from an alias.
- **Command line tools.** The message goes to whom the caller means, now or
  later; the exit code is 0 exactly if it was sent or queued; the tool ends.

### What is hard here

There is no daemon and no central state: any number of `mq-run` processes and
applications share the directory. A process can be killed between any two
system calls. `mq-run` works from listings that are old when it uses them. An
SMTP server that has accepted a message may not be able to say so. The only
copy of a message is moved by two system calls and overwritten in place to
record a failure. `hazards` in `PROJECT.json` lists the places.

## 2. Plan

In the order of importance. All of it is written.

1. `Maildir`, `QueueRunner`: the shared directory and the processes on it.
   `DeliveryQueue`: what they promise.
2. `SMTPSession`: `SMTPMailer.send()` and `SMTPClient` against a server, with
   a connection that may be used for several messages.
   `Attempt`: what its callers take it for.
3. `MessageHandler`: several transports (SMTP, the queue as fallback), the
   plugins, messages in memory and in files. `MailService`: what it promises.
4. `Aliases` and `Envelope`, composed by `CommandLine`: from the arguments of a
   tool to its exit code, and what `mq-run` then makes of the file.
5. Proofs about each of them (section 5).

The models overlap where they meet. What is one step in one of them is a
dialog in another:

| Step | Detailed in |
|------|-------------|
| `SendAccepted`, `SendRefused`, `ReplyLost` of `QueueRunner` and `CommandLine`, `Accepted`, `Refused`, `ReplyLost` of `MessageHandler` | `SMTPSession` (its results: `True`, `False`, accepted without a reply) |
| `Take`, `PutBack`, `Enqueue`, `Unblock` of `MessageHandler` | `Maildir`, `QueueRunner` (`lock_file()`, `move_message()`, the rewrite of a file) |
| `Enqueue`, `RunAccepted`, `RunFailed` of `CommandLine` | `MessageHandler`, `QueueRunner` |
| `retries` of `QueueRunner`, `MessageHandler` | `Envelope` (what else is written with it) |

Abstract specifications: `DeliveryQueue` for the queue, `Attempt` for one
`SMTPMailer.send()`, `MailService` for `send_message()`. The steps in the first
row of the table are the ones of `Attempt`: `Take` and `Succeed`, `GiveUp`,
`TakeUnheard`.

## 3. The modules

### Maildir

Python's `Maildir` gives every message file a unique name, and the program
keeps that name when it moves the file from folder to folder by `link()` and
`unlink()`. A message `m` is therefore one inode: `at[m]` is the set of folders
with a link to it, `body[m]` says how much of its content is right, `lock[m]`
is who holds the `flock()`. A process has a program counter `pc[p]` named after
the system call it makes next, and the message and call it is busy with
(`file[p]`, `job[p]`).

| Action | Code (`maildir_utils.py`) |
|--------|------|
| `LockStat`, `LockOpen`, `FlockTaken`, `FlockBusy`, `LockCheck` | the system calls of `lock_file(path, timeout=0)`: `stat`, `open`, `flock`, again up to three times, `stat` of the path once it is locked |
| `Link`, `Unlink`, `LinkError`, `UnlinkError` | `atomic_rename(overwrite=False)` in `move_message()`; any `OSError` gives `None`, also one of the `unlink()` after a successful `link()`: the file is in both folders then |
| `Close` | `LockedFile.close()` |
| `Age` | half an hour without a change passes (`is_stale_msg()`) |

`Src`, `Dst` and `AfterMove` describe the five callers of `move_message()`. A
caller that got `None` goes on as the code does (`AfterNone`): a runner with its
next message; `enqueue_message()` returns `None` or, with `return_msg`, raises.

### QueueRunner

Extends `Maildir` by the processes. An application (`Apps`) writes a message to
`tmp/` and moves it to `new/` (`enqueue_message()`), or to `cur/` and sends it
itself (`in_progress=True`, the cookbook of the README). A runner (`Runners`)
lists `cur/`, moves the stale messages back, lists `new/` and tries to deliver
what it found; its listings (`todo[p]`) are as old as they are in the program.

| Action | Code (`queue_runner.py`, `message_handler.py`) |
|--------|------|
| `Submit`, `Write`, `WriteError` | `enqueue_message()`, `inject_message_into_maildir()`; a failing `write()` removes the file, a failing `fsync()` leaves it in `tmp/` |
| `StartRun`, `Unblock`, `ListNew`, `Get`, `EndRun` | `send_all_queued_messages()` with its helpers |
| `Parse` | `parse_message_envelope()` on first use of the file |
| `SendAccepted`, `SendRefused`, `ReplyLost` | `transport.send()` |
| `DeliveryError` | a plugin or the transport raises what `send_message()` does not expect |
| `Remove`, `Discard`, `Rewrite`, `Flush`, `FlushError` | `delivery_successful()`, `delivery_failed()` of `MaildirBackedMsg` |
| `DeleteError` | `os.unlink()` fails after a delivery, which `_remove_message()` ignores, or for a message to be discarded, which raises; the file stays in `cur/` |
| `Unwind` | an exception nobody catches |
| `Crash` | the process is killed, at any program counter in `CrashPoints` |

`seen` and `retries` are `X-Retries` in memory and in the file. `sent`,
`failures` and `discarded` are history variables that only the properties read.
Everything that may go wrong apart from a refusal is a fault: it increases
`faults`, is switched on by `Faults` and bounded by `MaxFaults`.

### DeliveryQueue

What a user of the queue is promised, without processes, folders and locks: a
message enters once, leaves after it was delivered or discarded, and is
delivered or discarded a second time only after a fault. `Implements` in
`QueueRunner` instantiates it with `queue` as the messages in `new/` or `cur/`.

### SMTPSession

`SMTPMailer.send()`, `SMTPClient` and the part of `smtplib_py37.py` below them.
The client sends a command only after it has read the reply to the last one, so
one action is one command together with its reply. `pc` is the next command,
`sock` says whether the client has a socket, `offersTls` and `auths` are
`esmtp_features`, `result[m]` is what `send()` has returned (or raised).

`client` says what the mailer works with. With `"new"` it makes a client for
each message, as all programs of the repository have it. Otherwise it was given
one (`SMTPMailer(client=...)`), and all messages go over it, in whatever state
the message before has left it. `"named"` was made with the name of its server
and so is connected, `"connected"` was made without a name and connected by
`connect(name)`, `"bare"` was not connected at all. When a given client has no
socket, be it because `quit()` or an error closed it, `send()` calls
`client.connect()` without arguments, and that is `localhost`: `srv.at` is
`"host"` for the server that is meant and `"localhost"` for the other one. A
client without a name cannot do STARTTLS (`StarttlsNoHost`): `wrap_socket()`
raises a `ValueError` for the name `""`, which `send()` does not catch.

| Action | Code |
|--------|------|
| `Send`, `Connect`, `BadGreeting`, `ConnectError` | `init_smtp_client()` or `client.connect()` in `SMTPMailer.send()`, if the client has no socket |
| `Ehlo`, `EhloRefused` | `client.ehlo()`, whose result nobody looks at; `starttls()` is followed by another one |
| `Starttls`, `StarttlsNoHost`, `StarttlsFails`, `Auth`, `AuthRefused`, `NoAuth` | `starttls()`, `login()` |
| `Mail...`, `Rcpt...`, `Data...`, `Body...`, `Bye` | `SMTPClient.sendmail()` and `data()`: the reply is the right one, another one, or 421 |
| `Rset`, `RsetRefused` | `_rset()` after a refusal |
| `Quit` | `client.quit()` after the result is known |
| `MailUnsendable`, `RcptUnsendable` | the `UnicodeEncodeError` of an address that is not ASCII |
| `Break` (`Disconnected`), `Hangup` | end of file, error or timeout of the socket |

The server `srv` is external. It knows whether the connection is `up`, uses
`tls`, had a `hello`, is `authed`, and the sender and recipients of the current
transaction. EHLO, RSET and the end of the data clear the transaction, STARTTLS
makes a new session. It may refuse any command (`MaxRefusals`), offer STARTTLS
and any number of authentication methods, answer a MAIL it did not expect in
either way, break the connection (`MaxFaults`) and accept a message without
being able to say so.

Merged or left out: the challenges inside one AUTH; replies that are no SMTP
(code -1, line too long) count as a refusal or as a broken connection; HELO is
never sent, as `ehlo()` leaves its reply in `ehlo_resp` even if it was refused.

### Attempt

What `SMTPMailer.send()` is for its callers, without connections, commands and
replies: the server takes the whole message or nothing of it, once at most, and
the result is `True` exactly if it has said so. `Implements` in `SMTPSession`
keeps `msg`, `result`, `delivered` and `lost`; `said` is `pc = "quit"`, as
nothing after the reply to the data changes the result. A client that sends
again by itself after a broken connection keeps `Truthful` and breaks this one
(mutant `TryAgain`).

### MessageHandler

`send_message()` as it is called by any number of workers: with a message in
memory (`job[w] = "memory"`: `_wrap_msg()` and the tools), with one that was
stored first (`"stored"`: the cookbook), and by `mq-run` with a file of the
queue (`"run"`). `left[w]` are the transports still to be tried, `result[w]` the
`SendResult`, `told[w]` the signals plugins got. `File` are names of files, used
again when a file is gone; the loop over the transports is the one of the code.

| Action | Code (`message_handler.py`, `queue_runner.py`) |
|--------|------|
| `Call`, `CallStored`, `Take` | the three callers; `start_delivery()` |
| `Unblock` | a stale file goes back to `new/` |
| `Prepare`, `BadArguments` | `_msg_metadata()`: sender and recipients, `ValueError` |
| `Accepted`, `Refused`, `ReplyLost` | `SMTPMailer.send()` |
| `Enqueue`, `EnqueueError` | `MaildirBackend.send()`, which logs the Message-ID after the file is there |
| `Exception` | a transport or a plugin raises |
| `NotifySuccess`, `Finish` | `_notify_plugins()`, `delivery_successful()`, the delivery log |
| `NotifyFailure`, `Discard`, `PutBack` | `msg.retries += 1`, the plugins' answer, `delivery_failed()` |
| `Crash` | the process is killed between any two of these |

`config` is chosen once: the limit of the plugin in the README's example, the
transports of `mq-run`, whether the Message-ID header is empty, whether the
server may refuse for ever.

### MailService

What whoever calls `send_message()` is promised, without transports, files and
processes: a message is carried from the call until it is settled, a server
gets it again only after a fault, and the answer fits what happened.
`Implements` in `MessageHandler` maps "carried" to: there is a copy in the
queue, or a call has the message in memory.

### Aliases

`_resolve_alias()` calls itself; the calls in progress are a stack of frames,
each with what it still has to look at and what it has found. `lookup_adresses()`
is the oldest frame. A call beyond `MaxDepth` is Python's `RecursionError`.

| Action | Code (`aliases_parser.py`) |
|--------|------|
| `Begin`, `End` | `lookup_adresses()` is called and returns |
| `AddAddress`, `SkipName`, `Resolve`, `Return` | the loop over targets, `_extend()`, the recursive call |
| `TooDeep` | `RecursionError` |

`Reachable` is the reference definition: the least set closed under the table.

### Envelope

What `serialize_message_with_queue_data()` writes and
`parse_message_envelope()` reads, as a function from header names to values:
dates lose what is below a second, recipients are split at every comma, the
empty sender `<>` is read as `>`. `WithExtra` is `autogenerate_headers()`.

### CommandLine

One message: a tool from its arguments to its exit code, or an application's
`enqueue_message()`, then any number of attempts of `mq-run`, each of which
reads the metadata and writes them anew.

| Action | Code (`cli/mq_sendmail.py`, `mq_mail.py`, `send_test_message.py`, `app_helpers.py`) |
|--------|------|
| `Usage`, `NoAliasFile` | `mq-sendmail` without recipients; `open()` fails |
| `LookupRecipients`, `LookingUp`, `GotRecipients`, `TestRecipient` | recipients of the arguments and, with `-t`, of the message (a set, in any order), through the aliases |
| `ReadConfig`, `InitMailer` | `init_app()`, `init_smtp_mailer()` and their exit codes |
| `LookupSender`, `GotSender`, `DefaultSender`, `TestSender` | the sender of the envelope |
| `AddHeaders` | `autogenerate_headers()` |
| `SendAccepted`, `SendRefused`, `SendReplyLost`, `SendRaises`, `Enqueue`, `EnqueueRaises` | `send_message()` with the transports of the tool |
| `AppCall` | `enqueue_message()` of an application |
| `RunAccepted`, `RunFailed`, `Tick` | `mq-run` with the file; time passes |

## 4. The runs

| Run | Shows |
|-----|-------|
| `AllFaults` | the safety properties, `IInv` of the proofs and the refinement of `DeliveryQueue` under every kind of fault |
| `TwoMessages` | the same promises with two messages, so that a listing gets old while it is worked off |
| `Drains` | files in the queue are complete and in one folder, and each leaves the queue, unless a process is killed inside a move or a rewrite |
| `Session` | all properties of the session and the refinement of `Attempt`, with new clients and with given ones |
| `Service` | callers, plugins and the queue agree on every message, whatever the transports do; the refinement of `MailService`; every message leaves the queue |
| `CommandLine` | a message goes to whom it is meant for, exit code and metadata are true, lookups are right and end |
| `LockRace`, `CrashInMove`, `CrashInRewrite`, `SessionHelo`, `EmptyMessageId`, `HeadersDoubled` | the findings below |

(Names of the `.cfg` files; `PROJECT.json` has the same names in lower case.)

**Bounds of the queue.** Two `mq-run` and one application: the properties are
about a message and the process that interferes with its owner; whether a
second interferer changes anything is what the proofs settle for any number. One
message is enough where the question is who works on it, two make a listing
that outlives the first delivery. `MaxFaults = 2` (1 with two messages) is one
fault and another while its consequences are being dealt with; `MaxFailures` of
1 or 2 is a refusal, and a refusal of a message that was refused before.
`NrTries` is 3 as in the code. `CrashPoints` is where processes may be killed,
anywhere but in `Drains` (see there), in `TwoMessages` (during a delivery; kills
elsewhere are what `AllFaults` is for) and in the runs of two findings.
`LargeFiles` lets the rewriting of a file take several `write()`.
`TwoMessages` uses the symmetry of messages and of runners; it checks invariants
only.

**Bounds of the session.** Four messages that share recipients, so that
recipients left over from one could hide in the next; one of them has a sender
that is not ASCII, another one such a recipient after one that is accepted. Two
refusals and two broken connections in all, which is one failure of a message
and one of the message after it; two authentication methods, the second to be
tried after the first. The mailer's own clients and both kinds of connected
ones; one that is not connected is what a `"connected"` one becomes when it is
closed. 2.2 million states.

**Bounds of the handler.** One message: calls do not share anything but the
queue, and that is about one message at a time. Two workers are a caller and an
`mq-run`, or two `mq-run`. Four file names: the message can be in a file, in its
copy, and in a file in `tmp/` after each of the two faults of `MaxFaults`, and
still find a name that is free. The callers have a server, a server and the
queue, or two servers. The settings (`MC_Configs`): no plugin or one that gives
up at once, with a server that accepts in the end; `mq-run` with the queue as
fallback; a server that never accepts and a plugin that gives up after one
retry; a message with an empty Message-ID. 154,000 states.

**Bounds of the command line.** Two names, of which each may stand for itself,
the other, or addresses, twice or in both, in the given file, in
`/etc/aliases` or in none; `MaxDepth` is 3, which an acyclic table of two
names needs (`lookup_adresses()` and a call for each name), so that giving up is
always due to a cycle. Four addresses: two plain ones, one that is not ASCII and
one with a comma. Each tool with and without sender, a mistake of every kind in the configuration, headers that are
missing, empty or there. Two failures of `mq-run` and two half seconds are one
rewrite of a rewritten file, and times that are rounded. 324,000 states.

**Deadlock** is checked except where the system may stop: in `Service` and
`EmptyMessageId` once the only message is settled, in `CommandLine` and
`HeadersDoubled` once the tool has exited and nothing is in the queue. (In
`Session` there is always a message that can be tried again.)

**Fairness.** A process that was started goes on (`WF_vars(Step(p))`): all its
steps are system calls, and the SMTP dialog has a timeout. cron starts `mq-run`
again and again (`WF_vars(StartRun(p))`), and time passes (`Age`). Nothing is
assumed about applications. After `MaxFailures` refusals the server takes the
message: "eventually" means once the server does. Nothing is assumed of
`SMTPSession`, which has safety properties only: `mq-run` tries a message again,
but with a new client in a new process, and nothing in the program makes an
application try again with the client it gave. In `Service` a call of `send_message()` comes to
an end (`WF_vars(Step(w))`), a file that is in `new/` again and again is taken
(`SF_vars(\E w : Take(w, f))`: each `mq-run` goes through all it has listed, but
another one may have the file just then), and what lies in `cur/` gets stale
(`WF_vars(Unblock(f))`). With `outage` nothing is assumed about the server:
`LeavesQueue` then rests on the plugin that gives up. In `CommandLine` a tool
that was started goes on (`WF_vars(Step)`).

**Mutants.** A definition marked "Mutant" is an action with a plausible mistake
in it; `mutants` in `PROJECT.json` says which action it replaces and which
property it then violates. No specification uses them.

### What the runs found

- `LockRace`: `lock_file()` raises `FileNotFoundError` if the file is moved or
  deleted between its `os.stat()` and its `open()`; the whole `mq-run` ends.
  The comment in the function says that it prevents just that race.
- `CrashInMove`: a kill between `link()` and `unlink()` leaves a message in
  `new/` and `cur/`. Every later attempt to move it fails with `EEXIST`, and it
  stays there for ever.
- `CrashInRewrite`: `delivery_failed()` overwrites the only copy of the message
  in place; a kill half-way leaves a damaged message in the queue.
- `SessionHelo`: a server that refuses EHLO is sent MAIL without a HELO.
- `EmptyMessageId`: a Message-ID header that is there but empty makes
  `strip_brackets()` raise, in the log that is written after the message was
  sent or queued. The caller gets an exception for a message that is on its way
  (and `NoSurplus` leaves such messages out: `mq-run` sends them again).
  `mq-sendmail` exits with 1 then, though the server or the queue has the
  message; `ExitTruthful` allows for it, and for no other exit code.
- `HeadersDoubled`: `--set-to-header` and its like add a header "(if not
  present)", but one that is present and empty counts as absent, and the message
  goes out with two of that name.

`Unblock` shows another end of a run: `is_stale_msg()` raises if a message of
the listing of `cur/` has been delivered since. The repository promises nothing
here, and the next run makes up for it (`QueueDrains`).

### What else was seen

Behaviour that the models contain and no run calls a violation, as nothing in
the repository promises otherwise, or the promise is too vague:

- If `mq-run` is given a handler with the queue as fallback, every failed
  attempt makes a new file that starts with no retries; a plugin with a limit
  then never gives up. `LeavesQueue` holds for this setting only because the
  server accepts in the end.
- The plugin of the README (lines 203-204) that gives up "after 10 failed
  attempts" tests `retries > 10`, which is true at the eleventh
  (`NotDiscardedEarly` says "more than").
- `send_message()` of a stored message answers "failed" although the message
  stays in the queue and `mq-run` may deliver it (`AnswersTrue` says nothing of
  such an answer for messages in `queued`).
- A given client that was closed is connected again to `localhost:25` instead of
  its server (`mailer.py:47`, `smtpclient.py:83`). The next message then goes to
  whatever listens there, or fails with nothing refused. `CleanSendSucceeds` is
  about connections to the client's own server for that reason. The programs of
  the repository make a new client for each message.
- An `unlink()` that fails after the `link()` of a move leaves the file in both
  folders, where it stays like the one of `CrashInMove`; `enqueue_message()` has
  returned `None` for a message that is in the queue. If the `unlink()` after a
  delivery fails, the message is delivered again (`NoUnexplainedDuplicate` counts
  that as a fault).
- An alias file without a usable line counts as none, and `/etc/aliases` is
  read. A recipient that stands for nothing is dropped, with exit code 0 if
  there is another.
- A sender without `@` ends `autogenerate_headers()` with a `ValueError`
  (`message_utils.py:197`).
- The null sender of `enqueue_message()` is `>` once the file was parsed, and a
  recipient with a comma in it becomes the ones around the comma, whom nobody
  meant. `Addressed` demands the very recipients and sender of what a tool sends
  itself, and says just this of what comes from the queue.
- A config file without the section ends with 21, as `NoSectionError` is caught
  with the errors in the file (`app_helpers.py:108`); exit code 22 (lines
  133-136) is never used. Without any config file `init_app()` fails its
  assertion (line 23).

## 5. The proofs

| Theorem | For all instances |
|---------|-------------------|
| `QueueRunnerProofs!TypeCorrect` | `Spec => []TypeOK` |
| `QueueRunnerProofs!Exclusive` | `Spec => []ExclusiveDelivery` |
| `QueuePromiseProofs!NoDuplicates` | `Spec => []NoUnexplainedDuplicate` |
| `QueuePromiseProofs!NothingLost` | `Spec => []NeverLost` |
| `QueuePromiseProofs!Refinement` | `Spec => Implements` (`DeliveryQueue`) |
| `QueueFileProofs!Invariant` | `Spec => []IInv` |
| `QueueFileProofs!LockHolderOnly` | `Spec => OnlyByLockHolder` |
| `QueueFileProofs!FailuresCounted` | `Spec => []RetriesCounted` |
| `QueueFileProofs!InBothWhileMoved` | `Spec => []InBothOnlyWhileMoved`, if nobody is killed between link and unlink and no system call fails (`"diskError"`) |
| `QueueFileProofs!StoredIsWhole` | `Spec => []StoredWhole`, if nobody is killed, and no disk full, in a rewrite |
| `QueueFileProofs!Undisturbed` | `Spec => []AppsUndisturbed` |
| `SMTPSessionProofs!TypeCorrect` | `Spec => []TypeOK` |
| `SMTPSessionProofs!AllOrNobody` | `Spec => []AllOrNothing` |
| `SMTPSessionProofs!NeverUnprotected` | `Spec => []Protected` |
| `SMTPSessionProofs!TellsTheTruth` | `Spec => []Truthful` |
| `SMTPSessionProofs!NothingCarriedOver` | `Spec => CleanSendSucceeds` |
| `SMTPSessionProofs!OneAttempt` | `Spec => Implements` (`Attempt`) |
| `MessageHandlerProofs!CallsApart`, `History` | `Spec => []Inv`, `Spec => [](Inv /\ HistInv)` |
| `MessageHandlerProofs!TypeCorrect` | `Spec => []TypeOK` |
| `MessageHandlerProofs!KeptInQueue` | `Spec => []QueueKeeps` |
| `MessageHandlerProofs!TrueAnswers` | `Spec => []AnswersTrue` |
| `MessageHandlerProofs!PluginsFirst` | `Spec => PluginsToldTheSame` |
| `MessageHandlerProofs!OncePerFault` | `Spec => []NoSurplus` |
| `MessageHandlerProofs!NotEarly` | `Spec => []NotDiscardedEarly`, if no handler is without transports |
| `MailServiceProofs!KeepsThePromise` | `Spec => Implements` (`MailService`) |
| `CommandLineProofs!LookupTheorem` | `Spec => []LookupComplete` |
| `CommandLineProofs!MetaTheorem` | `Spec => []MetaKept` |
| `CommandLineProofs!ExitTheorem` | `Spec => []ExitTruthful` |
| `MessageProofs!TypeTheorem` | `Spec => []TypeOK` |
| `MessageProofs!HeadersTheorem` | `Spec => []HeadersComplete` |
| `MessageProofs!AddressTheorem` | `Spec => []Addressed` |
| `MessageProofs!LooksUp` | `Spec => LookupSpec` (`Aliases`) |
| `MessageProofs!GivesUpTheorem` | `Spec => []GivesUpOnlyOnCycle`, if there are fewer aliases than calls Python nests |

They hold for any sets of messages, processes and aliases, any faults and any
bounds. Assumed is what the ASSUMEs of the modules say: sets do not overlap,
bounds are natural numbers, a message has a recipient, files and workers of
`MessageHandler` are finitely many (their numbers are added), and in `Service` a
plugin's limit is below the bound on counted refusals; for the command line see
below. TLC evaluates them in every run. The conditions in the table are
conditions on the environment that the runs show to be needed (`CrashInMove`,
`CrashInRewrite`; an `unlink()` that fails does what a kill before it does), on
the alias tables (`GivesUpTheorem`), or, for `NotEarly`, one that every handler
of the program meets: an attempt without transports fails without a refusal.

**The queue.** `ExclusiveDelivery` is not inductive: a process may work on a
message because it holds its lock, and it holds the lock because nobody but the
holder releases it. `LockInv` says so, and needs only the types.
`NoUnexplainedDuplicate` and `NeverLost` need more (`IInv` in `QueueRunner`):
where the file of a lock holder is (`PlaceInv`), that a message under way from
`tmp/` is known to its sender only and was never delivered (`FreshInv`,
`UnusedInv`), and that a message which was settled once more than there were
faults is out of the queue, or with the process that is about to remove it
(`SettledInv`). Most steps are *calm*: they change nothing of this. The others
touch the queue (a link, an unlink, a delivery, a lost reply, a removal, a
discard, a failed write) or bring a new message, and each is made by a process
that is alone with its message (`Apart`); for these it is enough to look at
that one message (`SoundSafe`). The refinement uses the same invariant and the
same split.

`QueueFileProofs` builds on it and divides the steps once more: a *plain* step
changes no file of the queue, a *deed* does, and its process holds the lock. So
`OnlyByLockHolder` follows, and the invariants about files (`BothInv`,
`WholeInv`, `CountInv`) are looked at for one message and one process only.
`AppsUndisturbed` needs to know what other processes cannot do to a message an
application holds: who holds a lock works on that file (`LockedInv`), a file in `tmp/` is
known to its writer only (`HiddenInv`), and applications do neither of the things
that may fail for a runner, unblocking and taking out of `new/` (`AppJobInv`).

**The session.** `AllOrNothing` is about messages the server has accepted. What
makes it true is that the server's transaction is, at every point where it
could be completed, what this `send()` has told the server (`EnvelopeInv`): the
sender after MAIL, and recipients that together with those still to be told
make the recipients of the message. MAIL starts it afresh, so nothing of an
earlier message needs to be assumed. `Protected` follows as `esmtp_features` is
emptied by STARTTLS and filled again by EHLO only. `Truthful` counts what was
accepted against the result, and needs to know that a message that is being sent
has not been reported as sent (`UnsentInv`).
`CleanSendSucceeds` is about a client whose state somebody else has left:
`CleanInv` says that on a connection to the client's own server, as long as that
has refused nothing, the connection is up, a method to log in with is left, and
the server expects the next command. The only other end is an exception that
`Explained` explains: an address that is not ASCII or, with STARTTLS, a client
without a name.

**The handler.** `Inv` keeps calls apart: a call has a file unless its message is
in memory, that file is in `cur/` with the message in it, and no other call has
it (`CallInv`, `OwnInv`, `FileInv`). `HistInv` relates the history: what was answered to what
there is (`AnswerInv`), what is in the queue to what was (`FilesInv`), a call
that has its result to the server that took the message or the file that has it
(`DoneInv`), the caller's call to its answer (`CallerInv`). `NoSurplus` is
inductive with these: a transport that accepts uses up the one source it worked
on, `MaildirBackend` replaces it by another, and only a fault leaves one over.
For `NotDiscardedEarly` the counters in the file and in memory are covered by
refusals (`SeenInv`), and for the plugins `told` follows from the program counter
(`ToldInv`).

The refinement maps `Accepted` and `ReplyLost` to `Deliver`, the end of a
caller's call to `Reply`, the end of one of `mq-run` to `Settle` or `Fault`, and
everything else to a stutter.

**The command line.** `LookupInv` says that what is found and what is still on
the stack covers everything the names stand for, that both hold only what they
stand for, and that no frame has an address twice; at the end of a lookup
nothing is left on the stack. `MetaInv` is `MetaKept` with the types it needs, and holds as rounding a rounded
time changes nothing; `ExitInv` follows the program counter to the exit code.

`MessageProofs` is about the message. `Basics` collects what the program knows
where it is (types, the configuration, whom a lookup is about). `HeadersInv` says
that the headers that were asked for are there and that what the author wrote
stands alone; an empty header may have got a second line, which is the finding
of `HeadersDoubled`. `AddressInv` says whom a message is for three times: of the
envelope as soon as it is complete and of direct mail they are the very
recipients and sender, of what `mq-run` would read from the file they are what
the file can say of them (`Reread`), and all that was sent is one or the other
(`Right`). Recipients are split at commas when they are read, and as the parts
have no commas (`PartsOfParts`), writing and reading a file again changes
nothing any more. `CountInv` bounds how often a message goes out by the attempts
that were made, as every failure of `mq-run` has a place in `failures`.

`GivesUpOnlyOnCycle` is a pigeonhole argument. `DepthInv` says that there is a
chain of aliases below the call on top of the stack, each of which stands for
the next ones (`Chain`), and that what is left to do belongs to it (`Grounded`).
If no alias stood for itself, all those on the chain would be different, so
there would be no more calls than aliases. Hence the condition `FewAliases`,
which the run meets: a long chain of aliases does exhaust Python's stack.
`LooksUp` is the composition: of all the program does, only lookups touch the
variables of `Aliases`, so what is proved of `LookupSpec` holds in it.

What these proofs needed of the constants is in `CommandLineAssumption`: an
application gives a sender, `mq-send-test` a recipient, as their signature and
argument parser require, and a part of a part is that part. They also showed a
mistake in the model: two arms of a `CASE` in the choice of the sender of
`mq-send-test` overlapped, and TLA+ does not say which of them is taken, where
TLC and Python take the first. It is an `IF` now.

**Only model-checked**: liveness (`QueueDrains`, `LeavesQueue`, `Ends`), which is out of the prover's reach. All the other properties of the
passing runs are theorems. Where induction over data was needed (the recursive
`FlattenSeq` that joins the split recipients) it goes over a set of numbers
(`AllNumbers`), whose least missing element the well-foundedness of `<` gives. No
module that holds theorems declares or reaches a RECURSIVE operator.

## 6. What is not modelled

- Windows: `maildir_utils.py` works there without locks.
- In `MessageHandler`, a disk error other than that of storing a message: a
  failing unlink or rewrite is a fault of `QueueRunner` and `Maildir` only.
- What is logged (`SMTPClient` keeps a log of the conversation, whose debug level
  is not restored after an exception) and printed, but for the two log messages
  that can raise; how options are parsed; how `mq-run` handles its own
  arguments; packaging, the helpers of the test suite, `DebugMailer`, and the
  value types of `compat.py` and the like: they have no state that takes part
  in a delivery.
- MIME, line endings, character sets and the syntax of the alias file: a text is
  a value, a line an alias and its targets.
- Commands of `smtplib_py37.py` that the program never uses (VRFY, EXPN, HELP,
  NOOP, LMTP), and PuzzlePluginSystem, boltons, portalocker and Python's
  `mailbox.Maildir`, which are external and modelled by what they do here.
