----------------------------- MODULE QueueRunner -----------------------------
(***************************************************************************)
(* The processes around the queue directory: applications that enqueue     *)
(* messages (enqueue_message(), with in_progress=True followed by          *)
(* MessageHandler.send_message() on the stored message) and mq-run         *)
(* processes, which unblock stale messages, list new/ and try to deliver   *)
(* what they found.  Several mq-run may overlap: cron starts the next one  *)
(* whether or not the previous one is done.                                *)
(*                                                                         *)
(* The SMTP dialog is one step here: accepted, refused, or accepted with   *)
(* the answer lost.                                                        *)
(***************************************************************************)
EXTENDS Maildir

CONSTANTS MaxFailures,  \* bound: how often the server refuses a message
          MayDiscard,   \* a plugin may answer MQAction.DISCARD
          LargeFiles,   \* rewriting a file takes more than one write()
          CrashPoints   \* where a process may be killed, a subset of Busy

\* Where a process is in the middle of something.
Busy == {"write", "stat", "open", "flock", "check", "link", "unlink", "parse",
         "send", "sent", "failed", "flush", "close", "unblock", "get"}

ASSUME QueueAssumption ==
    /\ MaxFailures \in Nat
    /\ MayDiscard \in BOOLEAN
    /\ LargeFiles \in BOOLEAN
    /\ CrashPoints \subseteq Busy

VARIABLES todo,      \* todo[p]: what is left of p's last directory listing
          seen,      \* seen[p]: X-Retries as parsed by p
          retries,   \* retries[m]: X-Retries in the file of m
          sent,      \* sent[m]: how often the server took m (history)
          failures,  \* failures[m]: failed attempts a sender saw (history)
          discarded  \* messages a plugin discarded (history)

history == <<sent, failures, discarded>>
\* What no action of Maildir touches.
queueVars == <<todo, seen, retries, history>>
vars == <<dirVars, lock, procVars, faults, queueVars>>

Init ==
    /\ MaildirInit
    /\ todo      = [p \in Proc |-> {}]
    /\ seen      = [p \in Proc |-> 0]
    /\ retries   = [m \in Msg |-> 0]
    /\ sent      = [m \in Msg |-> 0]
    /\ failures  = [m \in Msg |-> 0]
    /\ discarded = {}

-----------------------------------------------------------------------------
(* enqueue_message() and inject_message_into_maildir() *)

\* Mutant: the message is written straight into new/.
SubmitIntoNew(p, m) ==
    /\ p \in Apps
    /\ pc[p] = "idle"
    /\ body[m] = "none"
    /\ at'   = [at EXCEPT ![m] = {"new"}]
    /\ body' = [body EXCEPT ![m] = "partial"]
    /\ file' = [file EXCEPT ![p] = m]
    /\ job'  = [job EXCEPT ![p] = "enqueue"]
    /\ Goto(p, "write")
    /\ UNCHANGED <<stale, stored, lock, tries, faults, queueVars>>

\* Maildir._create_tmp(); a name is used once.
Submit(p, m) ==
    /\ p \in Apps
    /\ pc[p] = "idle"
    /\ body[m] = "none"
    /\ at'   = [at EXCEPT ![m] = {"tmp"}]
    /\ body' = [body EXCEPT ![m] = "partial"]
    /\ file' = [file EXCEPT ![p] = m]
    /\ \E j \in {"enqueue", "submit"} : job' = [job EXCEPT ![p] = j]
    /\ Goto(p, "write")
    /\ UNCHANGED <<stale, stored, lock, tries, faults, queueVars>>

\* write(), fsync(), close(); then move_message() by path.
Write(p) ==
    /\ pc[p] = "write"
    /\ body' = [body EXCEPT ![file[p]] = "whole"]
    /\ Goto(p, "stat")
    /\ UNCHANGED <<at, stale, stored, lock, file, job, tries, faults, queueVars>>

\* A failing write() removes the file, a failing fsync() leaves it in tmp/.
WriteError(p) ==
    /\ pc[p] = "write"
    /\ Inject("diskError")
    /\ at' \in {[at EXCEPT ![file[p]] = {}], at}
    /\ Goto(p, "raised")
    /\ UNCHANGED <<body, stale, stored, lock, file, job, tries, queueVars>>

-----------------------------------------------------------------------------
(* send_all_queued_messages() *)

InFolder(f) == {m \in Msg : f \in at[m]}

\* Mutant: mq-run does not look into cur/.
StartRunWithoutUnblock(p) ==
    /\ p \in Runners
    /\ pc[p] = "idle"
    /\ todo' = [todo EXCEPT ![p] = {}]
    /\ Goto(p, "unblock")
    /\ UNCHANGED <<dirVars, lock, file, job, tries, faults,
                   seen, retries, history>>

\* cron starts mq-run; the listing of cur/ is taken once.
StartRun(p) ==
    /\ p \in Runners
    /\ pc[p] = "idle"
    /\ todo' = [todo EXCEPT ![p] = InFolder("cur")]
    /\ Goto(p, "unblock")
    /\ UNCHANGED <<dirVars, lock, file, job, tries, faults,
                   seen, retries, history>>

\* unblock_stale_messages(): is_stale_msg() stats a file that may have gone
\* since the listing; nothing catches that error.
Unblock(p) ==
    /\ pc[p] = "unblock"
    /\ \E m \in todo[p] :
         /\ todo' = [todo EXCEPT ![p] = @ \ {m}]
         /\ \/ /\ "cur" \notin at[m]
               /\ Goto(p, "raised")
               /\ UNCHANGED <<file, job>>
            \/ /\ "cur" \in at[m] /\ stale[m]
               /\ StartMove(p, m, "unblock")
            \/ /\ "cur" \in at[m] /\ ~stale[m]
               /\ UNCHANGED <<pc, file, job>>
    /\ UNCHANGED <<dirVars, lock, tries, faults, seen, retries, history>>

\* assemble_queue_with_new_messages()
ListNew(p) ==
    /\ pc[p] = "unblock"
    /\ todo[p] = {}
    /\ todo' = [todo EXCEPT ![p] = InFolder("new")]
    /\ Goto(p, "get")
    /\ UNCHANGED <<dirVars, lock, file, job, tries, faults,
                   seen, retries, history>>

\* The next path of the queue goes to start_delivery().
Get(p) ==
    /\ pc[p] = "get"
    /\ \E m \in todo[p] :
         /\ todo' = [todo EXCEPT ![p] = @ \ {m}]
         /\ StartMove(p, m, "start")
    /\ UNCHANGED <<dirVars, lock, tries, faults, seen, retries, history>>

\* queue.Empty: mq-run is done.
EndRun(p) ==
    /\ pc[p] = "get"
    /\ todo[p] = {}
    /\ Goto(p, "idle")
    /\ UNCHANGED <<dirVars, lock, file, job, tries, faults, queueVars>>

-----------------------------------------------------------------------------
(* MessageHandler.send_message() on a MaildirBackedMsg *)

\* Mutant: X-Retries of the file is not read back.
ParseWithoutRetries(p) ==
    /\ pc[p] = "parse"
    /\ seen' = [seen EXCEPT ![p] = 0]
    /\ Goto(p, "send")
    /\ UNCHANGED <<dirVars, lock, file, job, tries, faults,
                   todo, retries, history>>

\* parse_message_envelope(): a file that was cut or overwritten half-way has
\* the end marker of its queue metadata or raises a ValueError.
Parse(p) ==
    /\ pc[p] = "parse"
    /\ seen' = [seen EXCEPT ![p] = retries[file[p]]]
    /\ \/ Goto(p, "send")
       \/ body[file[p]] # "whole" /\ Goto(p, "raised")
    /\ UNCHANGED <<dirVars, lock, file, job, tries, faults,
                   todo, retries, history>>

SendAccepted(p) ==
    /\ pc[p] = "send"
    /\ sent' = [sent EXCEPT ![file[p]] = @ + 1]
    /\ Goto(p, "sent")
    /\ UNCHANGED <<dirVars, lock, file, job, tries, faults,
                   todo, seen, retries, failures, discarded>>

\* Mutant: a refusal is handled like a success.
RefusedIsSent(p) ==
    /\ pc[p] = "send"
    /\ failures[file[p]] < MaxFailures
    /\ failures' = [failures EXCEPT ![file[p]] = @ + 1]
    /\ Goto(p, "sent")
    /\ UNCHANGED <<dirVars, lock, file, job, tries, faults,
                   todo, seen, retries, sent, discarded>>

SendRefused(p) ==
    /\ pc[p] = "send"
    /\ failures[file[p]] < MaxFailures
    /\ failures' = [failures EXCEPT ![file[p]] = @ + 1]
    /\ Goto(p, "failed")
    /\ UNCHANGED <<dirVars, lock, file, job, tries, faults,
                   todo, seen, retries, sent, discarded>>

\* The server took the message, the connection broke before its answer came.
ReplyLost(p) ==
    /\ pc[p] = "send"
    /\ Inject("replyLost")
    /\ sent' = [sent EXCEPT ![file[p]] = @ + 1]
    /\ failures' = [failures EXCEPT ![file[p]] = @ + 1]
    /\ Goto(p, "failed")
    /\ UNCHANGED <<dirVars, lock, file, job, tries,
                   todo, seen, retries, discarded>>

\* The transport raises what send_message() does not expect, or a plugin does;
\* the plugins are told before the file is touched.  The file stays in cur/.
DeliveryError(p) ==
    /\ pc[p] \in {"send", "sent", "failed"}
    /\ Inject("exception")
    /\ Goto(p, "raised")
    /\ UNCHANGED <<dirVars, lock, file, job, tries, queueVars>>

\* Mutant: LockedFile.name still is the path in new/.
RemoveOldPath(p) ==
    /\ pc[p] = "sent"
    /\ at' = [at EXCEPT ![file[p]] = @ \ {"new"}]
    /\ Goto(p, "close")
    /\ UNCHANGED <<body, stale, stored, lock, file, job, tries, faults,
                   queueVars>>

\* _remove_message(): unlink() first, the lock goes with the close() after it.
Remove(p) ==
    /\ pc[p] = "sent"
    /\ at' = [at EXCEPT ![file[p]] = @ \ {"cur"}]
    /\ Goto(p, "close")
    /\ UNCHANGED <<body, stale, stored, lock, file, job, tries, faults,
                   queueVars>>

\* _delete_message(): here nothing catches it if the file is gone.
Discard(p) ==
    /\ pc[p] = "failed"
    /\ MayDiscard
    /\ IF "cur" \in at[file[p]]
         THEN /\ at' = [at EXCEPT ![file[p]] = @ \ {"cur"}]
              /\ discarded' = discarded \cup {file[p]}
              /\ Goto(p, "close")
         ELSE Goto(p, "raised") /\ UNCHANGED <<at, discarded>>
    /\ UNCHANGED <<body, stale, stored, lock, file, job, tries, faults,
                   todo, seen, retries, sent, failures>>

\* unlink() fails: _remove_message() goes on as if it had not, _delete_message()
\* raises; in both cases the file stays in cur/.
DeleteError(p) ==
    /\ \/ pc[p] = "sent" /\ Goto(p, "close")
       \/ pc[p] = "failed" /\ MayDiscard /\ Goto(p, "raised")
    /\ Inject("diskError")
    /\ UNCHANGED <<dirVars, lock, file, job, tries, queueVars>>

\* delivery_failed(): the file is overwritten in place.  The metadata at its
\* start has grown, so everything in it moves.
Rewrite(p) ==
    /\ pc[p] = "failed"
    /\ stale' = [stale EXCEPT ![file[p]] = FALSE]
    /\ retries' = [retries EXCEPT ![file[p]] = seen[p] + 1]
    /\ IF LargeFiles
         THEN /\ body' = [body EXCEPT ![file[p]] =
                            IF @ = "whole" THEN "rewriting" ELSE @]
              /\ Goto(p, "flush") /\ UNCHANGED job
         ELSE /\ job' = [job EXCEPT ![p] = "back"]
              /\ Goto(p, "link") /\ UNCHANGED body
    /\ UNCHANGED <<at, stored, lock, file, tries, faults, todo, seen, history>>

\* The last write() of the file, then _move_message_back_to_new().
Flush(p) ==
    /\ pc[p] = "flush"
    /\ body' = [body EXCEPT ![file[p]] = IF @ = "rewriting" THEN "whole" ELSE @]
    /\ job' = [job EXCEPT ![p] = "back"]
    /\ Goto(p, "link")
    /\ UNCHANGED <<at, stale, stored, lock, file, tries, faults, queueVars>>

\* No space left on the device half-way.
FlushError(p) ==
    /\ pc[p] = "flush"
    /\ Inject("diskFull")
    /\ body' = [body EXCEPT ![file[p]] = "torn"]
    /\ Goto(p, "raised")
    /\ UNCHANGED <<at, stale, stored, lock, file, job, tries, queueVars>>

-----------------------------------------------------------------------------
\* Nothing catches the exception: the process ends, or an application drops
\* the message object; either way the file is closed.
Unwind(p) ==
    /\ pc[p] = "raised"
    /\ Leave(p, "idle")
    /\ todo' = [todo EXCEPT ![p] = {}]
    /\ UNCHANGED <<dirVars, faults, seen, retries, history>>

\* The process is killed: the kernel closes its files and drops its locks.
Crash(p) ==
    /\ pc[p] \in CrashPoints
    /\ Inject("crash")
    /\ body' = IF pc[p] = "flush" THEN [body EXCEPT ![file[p]] = "torn"] ELSE body
    /\ Leave(p, "idle")
    /\ todo' = [todo EXCEPT ![p] = {}]
    /\ UNCHANGED <<at, stale, stored, seen, retries, history>>

-----------------------------------------------------------------------------
\* A step a process takes by itself once it has started.
Step(p) ==
    \/ Write(p)
    \/ (MoveMessage(p) \/ Close(p)) /\ UNCHANGED queueVars
    \/ Unblock(p) \/ ListNew(p) \/ Get(p) \/ EndRun(p)
    \/ Parse(p) \/ SendAccepted(p) \/ SendRefused(p) \/ ReplyLost(p)
    \/ Remove(p) \/ Discard(p) \/ Rewrite(p) \/ Flush(p)
    \/ WriteError(p) \/ FlushError(p) \/ DeliveryError(p) \/ DeleteError(p)
    \/ Unwind(p)

Next ==
    \/ \E p \in Proc : Step(p) \/ StartRun(p) \/ Crash(p)
    \/ \E p \in Apps, m \in Msg : Submit(p, m)
    \/ \E m \in Msg : Age(m) /\ UNCHANGED queueVars

\* A started process keeps running, cron keeps starting mq-run, time passes.
\* MaxFailures makes the server accept a message at last.
Fairness ==
    /\ \A p \in Proc : WF_vars(Step(p))
    /\ \A p \in Runners : WF_vars(StartRun(p))
    /\ \A m \in Msg : WF_vars(Age(m) /\ UNCHANGED queueVars)

Spec == Init /\ [][Next]_vars
FairSpec == Spec /\ Fairness

-----------------------------------------------------------------------------
(* Properties *)

Pc == Busy \cup {"idle", "raised"}

\* Type invariant.
TypeOK ==
    /\ at \in [Msg -> SUBSET Folder]
    /\ body \in [Msg -> Body]
    /\ stale \in [Msg -> BOOLEAN]
    /\ lock \in [Msg -> Proc \cup {Nobody}]
    /\ stored \subseteq Msg
    /\ pc \in [Proc -> Pc]
    /\ file \in [Proc -> Msg \cup {NoMsg}]
    /\ job \in [Proc -> Job \cup {"none"}]
    /\ tries \in [Proc -> 0 .. NrTries - 1]
    /\ faults \in 0 .. MaxFaults
    /\ todo \in [Proc -> SUBSET Msg]
    /\ seen \in [Proc -> Nat]
    /\ retries \in [Msg -> Nat]
    /\ sent \in [Msg -> Nat]
    /\ failures \in [Msg -> Nat]
    /\ discarded \subseteq Msg

Queued(m) == at[m] \cap {"new", "cur"} # {}

\* p is between start_delivery() and the end of the delivery.
Delivering(p) == pc[p] \in {"parse", "send", "sent", "failed", "flush"}

\* Two processes never work on the delivery of the same message, whatever
\* they listed, unblocked or opened before (lock_file() in move_message()).
ExclusiveDelivery ==
    \A p, q \in Proc : Delivering(p) /\ Delivering(q) /\ file[p] = file[q]
                       => p = q

\* How often m came to an end.
Settled(m) == sent[m] + (IF m \in discarded THEN 1 ELSE 0)

\* The server gets a message again, or a plugin discards a message the server
\* has, only when something went wrong: every surplus end of a message is paid
\* for by a fault.
NoUnexplainedDuplicate == \A m \in Msg : Settled(m) <= 1 + faults

\* A message whose enqueue_message() succeeded stays in the queue until it was
\* delivered or a plugin discarded it.
NeverLost ==
    \A m \in stored : Queued(m) \/ sent[m] > 0 \/ m \in discarded

\* Nobody finds a half-written file in new/ or cur/: the data is complete
\* unless the holder of the lock is just rewriting it.
StoredWhole ==
    \A m \in Msg : Queued(m) =>
        \/ body[m] = "whole"
        \/ \E p \in Proc : lock[m] = p /\ file[p] = m /\ pc[p] = "flush"

\* A message is listed in both folders only while its lock holder is between
\* link() and unlink() (comment in move_message()).
InBothOnlyWhileMoved ==
    \A m \in Msg : {"new", "cur"} \subseteq at[m] =>
        \E p \in Proc : lock[m] = p /\ pc[p] = "unlink"

\* Every refusal ends up in X-Retries, but for one that is being recorded,
\* those a fault kept from being recorded, and that of a discarded message;
\* and nothing else is counted.
RetriesCounted ==
    \A m \in Msg \ discarded :
        LET recording == {p \in Proc : file[p] = m /\ pc[p] = "failed"}
        IN /\ retries[m] <= failures[m]
           /\ failures[m] <= retries[m] + faults
                             + (IF recording = {} THEN 0 ELSE 1)

\* A file in the queue changes, or changes its place, only by a step of the
\* process that holds its lock.
OnlyByLockHolder ==
    [][\A m \in Msg : (Queued(m) /\ (at'[m] # at[m] \/ body'[m] # body[m]))
          => \E p \in Proc : lock[m] = p /\ file[p] = m /\ pc'[p] # pc[p]]_vars

\* A running mq-run never disturbs an application: enqueue_message(), and the
\* delivery of a message the application holds in cur/, only fail by a fault.
AppsUndisturbed == \A p \in Apps : pc[p] = "raised" => faults > 0

\* lock_file() survives that another process deletes or moves the file while
\* it tries to lock it (comment in lock_file(): "prevent race condition when
\* trying to lock file which is deleted by another process").
LockSurvivesDeletion ==
    [][\A p \in Proc : pc[p] = "open" => pc'[p] # "raised"]_vars

\* Every message that gets into the queue leaves it: delivered or discarded.
QueueDrains == \A m \in Msg : m \in stored ~> ~Queued(m)

\* What the queue promises, whatever the processes do: see DeliveryQueue.
Promise == INSTANCE DeliveryQueue WITH queue <- {m \in Msg : Queued(m)}
Implements == Promise!Spec

-----------------------------------------------------------------------------
(* The inductive invariant behind NoUnexplainedDuplicate, NeverLost and     *)
(* Implements.                                                              *)

\* p works on a file, p is in move_message(), p has passed flock().
WithFile(p) == pc[p] \in Busy \ {"unblock", "get"}
InMove(p)   == pc[p] \in {"write", "stat", "open", "flock", "check", "link",
                          "unlink"}
Holding(p)  == pc[p] \in {"check", "link", "unlink", "parse", "send", "sent",
                          "failed", "flush", "close"}
\* p brings a new message into the queue.
Fresh(p) == InMove(p) /\ job[p] \in {"enqueue", "submit"}

WorkInv ==
    \A p \in Proc : /\ InMove(p) => job[p] \in Job
                    /\ WithFile(p) => file[p] \in Msg

LockInv == \A p \in Proc : Holding(p) => lock[file[p]] = p

\* p has its file in cur/, and nowhere else.
Placed(p) == Delivering(p) \/ (pc[p] = "link" /\ job[p] = "back")

\* Where the file of a lock holder is.
PlaceInv ==
    \A p \in Proc :
        /\ Placed(p) => "cur" \in at[file[p]] /\ "new" \notin at[file[p]]
        /\ pc[p] = "unlink" => {Src[job[p]], Dst[job[p]]} \subseteq at[file[p]]
        /\ pc[p] = "sent" => sent[file[p]] > 0
        /\ job[p] = "back" => pc[p] \in {"link", "unlink", "close"}
        /\ pc[p] = "write" => Fresh(p)

\* A new message is known to nobody but its sender until it is linked.
FreshInv ==
    \A p \in Proc : Fresh(p) =>
        /\ body[file[p]] # "none"
        /\ Settled(file[p]) = 0
        /\ at[file[p]] = {"tmp"} \cup
                         (IF pc[p] = "unlink" THEN {Dst[job[p]]} ELSE {})
        /\ \A q \in Proc : Fresh(q) /\ file[q] = file[p] => q = p

\* A name that is not in use has no past.
UnusedInv ==
    \A m \in Msg : body[m] = "none" => at[m] = {} /\ Settled(m) = 0

\* One settlement more than there were faults: it is the last one.
SettledInv ==
    \A m \in Msg :
        \/ Settled(m) <= faults
        \/ /\ Settled(m) = faults + 1
           /\ ~Queued(m) \/ \E p \in Proc : pc[p] = "sent" /\ file[p] = m

IInv == /\ WorkInv /\ LockInv /\ PlaceInv
        /\ FreshInv /\ UnusedInv /\ SettledInv /\ NeverLost
=============================================================================
