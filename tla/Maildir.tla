------------------------------ MODULE Maildir ------------------------------
(***************************************************************************)
(* The maildir queue directory and the two operations every process uses   *)
(* on it: lock_file() and move_message() of maildir_utils.py.  Every       *)
(* action is one system call, so that calls of different processes         *)
(* interleave between them.                                                *)
(*                                                                         *)
(* A message file keeps its name for life (Python's Maildir makes it       *)
(* unique) and moves by link()+unlink(), so all its directory entries are  *)
(* links to one inode: the set of folders that hold a link, the data and   *)
(* the lock of that inode describe the file completely.                    *)
(***************************************************************************)
EXTENDS Naturals

CONSTANTS Msg,        \* message files
          Runners,    \* mq-run processes (cron may start several at a time)
          Apps,       \* processes that put messages into the queue
          Nobody,     \* the holder of a free lock
          NoMsg,      \* the message of a process that handles none
          Faults,     \* which faults the environment may inject, see FaultKind
          MaxFaults   \* bound: number of injected faults

Proc      == Runners \cup Apps
FaultKind == {"crash", "diskError", "diskFull", "replyLost", "exception"}

ASSUME ProcAssumption  == Runners \cap Apps = {} /\ Nobody \notin Proc
ASSUME MsgAssumption   == NoMsg \notin Msg
ASSUME FaultAssumption == Faults \subseteq FaultKind /\ MaxFaults \in Nat

VARIABLES at,      \* at[m]: the folders that hold a link to m
          body,    \* body[m]: how much of the data in the file is right
          stale,   \* stale[m]: no write, link or unlink in the last 30 minutes
          lock,    \* lock[m]: holder of the flock() on the inode of m
          stored,  \* the messages whose move out of tmp/ has completed
          pc,      \* pc[p]: the system call p makes next
          file,    \* file[p]: the message p works on
          job,     \* job[p]: the move_message() call p is in
          tries,   \* tries[p]: failed attempts of lock_file()'s loop
          faults   \* number of faults injected so far

dirVars  == <<at, body, stale, stored>>
procVars == <<pc, file, job, tries>>

Folder == {"tmp", "new", "cur"}
Body   == {"none", "partial", "whole", "rewriting", "torn"}

\* The callers of move_message(): enqueue_message() into new/ or, with
\* in_progress, into cur/ ("submit"); unblock_stale_messages();
\* start_delivery(); _move_message_back_to_new().
Src == [enqueue |-> "tmp", submit |-> "tmp", unblock |-> "cur",
        start   |-> "new", back   |-> "cur"]
Dst == [enqueue |-> "new", submit |-> "cur", unblock |-> "new",
        start   |-> "cur", back   |-> "new"]
\* Calls that keep the LockedFile (open_file=True, or their own file) go on
\* with it, the others close it.
AfterMove == [enqueue |-> "close", submit |-> "parse", unblock |-> "close",
              start   |-> "parse", back   |-> "close"]
Job == DOMAIN Src

HasSrc(p) == Src[job[p]] \in at[file[p]]
HasDst(p) == Dst[job[p]] \in at[file[p]]

-----------------------------------------------------------------------------
(* Where control goes when a call is over. *)

Goto(p, l) == pc' = [pc EXCEPT ![p] = l]

\* The next thing p does when it is done with a message.
Resume(p) == IF p \in Apps THEN "idle"
             ELSE IF job[p] = "unblock" THEN "unblock" ELSE "get"

\* Where p goes when move_message() returned None: a runner turns to its next
\* message; enqueue_message() returns None, or fails with an AttributeError
\* when it must return the message (return_msg).
AfterNone(p) == IF job[p] = "enqueue" THEN {"idle", "raised"}
                ELSE IF job[p] = "submit" THEN {"raised"}
                ELSE {Resume(p)}

Released(p) == [m \in Msg |-> IF lock[m] = p THEN Nobody ELSE lock[m]]

\* p lets go of its message: the file is closed and with it the lock released.
Leave(p, l) ==
    /\ lock'  = Released(p)
    /\ file'  = [file EXCEPT ![p] = NoMsg]
    /\ job'   = [job EXCEPT ![p] = "none"]
    /\ tries' = [tries EXCEPT ![p] = 0]
    /\ Goto(p, l)

ReturnNone(p) == \E l \in AfterNone(p) : Leave(p, l)

\* move_message(file_, target_folder) starts with lock_file() unless the
\* caller holds the lock already.
StartMove(p, m, j) ==
    /\ file' = [file EXCEPT ![p] = m]
    /\ job'  = [job EXCEPT ![p] = j]
    /\ Goto(p, "stat")

Inject(kind) ==
    /\ kind \in Faults
    /\ faults < MaxFaults
    /\ faults' = faults + 1

Close(p) ==
    /\ pc[p] = "close"
    /\ Leave(p, Resume(p))
    /\ UNCHANGED <<dirVars, faults>>

-----------------------------------------------------------------------------
(* lock_file(path, timeout=0) *)

NrTries == 3

\* os.stat(path): no file, no lock.
LockStat(p) ==
    /\ pc[p] = "stat"
    /\ IF HasSrc(p)
         THEN Goto(p, "open") /\ UNCHANGED <<lock, file, job, tries>>
         ELSE ReturnNone(p)
    /\ UNCHANGED <<dirVars, faults>>

\* lock.acquire() opens the file with mode "rb+".  The handler around it only
\* expects a LockException: a FileNotFoundError leaves lock_file().
LockOpen(p) ==
    /\ pc[p] = "open"
    /\ Goto(p, IF HasSrc(p) THEN "flock" ELSE "raised")
    /\ UNCHANGED <<dirVars, lock, file, job, tries, faults>>

\* Mutant: nobody asks for the lock.
FlockIgnored(p) ==
    /\ pc[p] = "flock"
    /\ lock' = [lock EXCEPT ![file[p]] = p]
    /\ Goto(p, "check")
    /\ UNCHANGED <<dirVars, file, job, tries, faults>>

FlockTaken(p) ==
    /\ pc[p] = "flock"
    /\ lock[file[p]] = Nobody
    /\ lock' = [lock EXCEPT ![file[p]] = p]
    /\ Goto(p, "check")
    /\ UNCHANGED <<dirVars, file, job, tries, faults>>

\* Mutant: one attempt too many.
FlockBusyOnceMore(p) ==
    /\ pc[p] = "flock"
    /\ lock[file[p]] # Nobody
    /\ IF tries[p] < NrTries
         THEN /\ tries' = [tries EXCEPT ![p] = @ + 1]
              /\ Goto(p, "open")
              /\ UNCHANGED <<lock, file, job>>
         ELSE ReturnNone(p)
    /\ UNCHANGED <<dirVars, faults>>

\* LockException: open the path again, NrTries times in all.
FlockBusy(p) ==
    /\ pc[p] = "flock"
    /\ lock[file[p]] # Nobody
    /\ IF tries[p] + 1 < NrTries
         THEN /\ tries' = [tries EXCEPT ![p] = @ + 1]
              /\ Goto(p, "open")
              /\ UNCHANGED <<lock, file, job>>
         ELSE ReturnNone(p)
    /\ UNCHANGED <<dirVars, faults>>

\* os.stat(path) again: the lock counts only if the locked inode still has
\* that path.  (One inode per name: it is the same inode or there is none.)
LockCheck(p) ==
    /\ pc[p] = "check"
    /\ IF HasSrc(p)
         THEN Goto(p, "link") /\ UNCHANGED <<lock, file, job, tries>>
         ELSE ReturnNone(p)
    /\ UNCHANGED <<dirVars, faults>>

-----------------------------------------------------------------------------
(* move_message(): atomic_rename(overwrite=False) is link() and unlink(). *)

Link(p) ==
    /\ pc[p] = "link"
    /\ IF HasSrc(p) /\ ~HasDst(p)
         THEN /\ at' = [at EXCEPT ![file[p]] = @ \cup {Dst[job[p]]}]
              /\ stale' = [stale EXCEPT ![file[p]] = FALSE]
              /\ Goto(p, "unlink")
              /\ UNCHANGED <<lock, file, job, tries>>
         ELSE ReturnNone(p) /\ UNCHANGED <<at, stale>>
    /\ UNCHANGED <<body, stored, faults>>

\* Any other OSError of link() is swallowed as well.
LinkError(p) ==
    /\ pc[p] = "link"
    /\ Inject("diskError")
    /\ ReturnNone(p)
    /\ UNCHANGED dirVars

\* Mutant: a copy instead of a move.
KeepSource(p) ==
    /\ pc[p] = "unlink"
    /\ stored' = stored \cup {file[p]}
    /\ Goto(p, AfterMove[job[p]])
    /\ UNCHANGED <<at, body, stale, lock, file, job, tries, faults>>

\* Mutant: the new link is removed.
UnlinkTarget(p) ==
    /\ pc[p] = "unlink"
    /\ at' = [at EXCEPT ![file[p]] = @ \ {Dst[job[p]]}]
    /\ stored' = stored \cup {file[p]}
    /\ Goto(p, AfterMove[job[p]])
    /\ UNCHANGED <<body, stale, lock, file, job, tries, faults>>

Unlink(p) ==
    /\ pc[p] = "unlink"
    /\ IF HasSrc(p)
         THEN /\ at' = [at EXCEPT ![file[p]] = @ \ {Src[job[p]]}]
              /\ stale' = [stale EXCEPT ![file[p]] = FALSE]
              /\ stored' = stored \cup {file[p]}
              /\ Goto(p, AfterMove[job[p]])
              /\ UNCHANGED <<lock, file, job, tries>>
         ELSE ReturnNone(p) /\ UNCHANGED <<at, stale, stored>>
    /\ UNCHANGED <<body, faults>>

\* An OSError of unlink() is swallowed like one of link(): the caller gets None,
\* and the file is in both folders.
UnlinkError(p) ==
    /\ pc[p] = "unlink"
    /\ Inject("diskError")
    /\ ReturnNone(p)
    /\ UNCHANGED dirVars

MoveMessage(p) ==
    \/ LockStat(p) \/ LockOpen(p) \/ FlockTaken(p) \/ FlockBusy(p)
    \/ LockCheck(p) \/ Link(p) \/ LinkError(p) \/ Unlink(p) \/ UnlinkError(p)

-----------------------------------------------------------------------------
\* Time: half an hour passes without a change of m (only asked for in cur/).
Age(m) ==
    /\ "cur" \in at[m]
    /\ ~stale[m]
    /\ stale' = [stale EXCEPT ![m] = TRUE]
    /\ UNCHANGED <<at, body, stored, lock, procVars, faults>>

MaildirInit ==
    /\ at     = [m \in Msg |-> {}]
    /\ body   = [m \in Msg |-> "none"]
    /\ stale  = [m \in Msg |-> FALSE]
    /\ lock   = [m \in Msg |-> Nobody]
    /\ stored = {}
    /\ pc     = [p \in Proc |-> "idle"]
    /\ file   = [p \in Proc |-> NoMsg]
    /\ job    = [p \in Proc |-> "none"]
    /\ tries  = [p \in Proc |-> 0]
    /\ faults = 0
=============================================================================
