-------------------------- MODULE QueueFileProofs --------------------------
(***************************************************************************)
(* TLAPS proofs about the files of the queue: who changes them, that they  *)
(* are whole and in one folder, that the retries in them are counted, and  *)
(* that the mq-run processes never disturb an application.                 *)
(***************************************************************************)
EXTENDS QueuePromiseProofs

\* Where the file of every lock holder is, what is known of a new message, and
\* that one settlement more than there were faults is the last one: it holds
\* in every reachable state, wherever processes are killed.
THEOREM Invariant == Spec => []IInv
<1>1. Inv => IInv
  BY DEF Inv
<1> QED
  BY <1>1, InvAlways, PTL

-----------------------------------------------------------------------------
(* Steps that matter to none of the properties below.                       *)

\* Where p does something with the content of its file.
Inside == {"send", "failed", "flush"}

\* p changes neither files nor counters, and is nowhere near that; between
\* link() and unlink() only a failing unlink() is such a step.
Plain(p) ==
    /\ UNCHANGED <<at, body, retries, failures, discarded>>
    /\ faults' \in {faults, faults + 1}
    /\ OnlyMoves(p)
    /\ \A q \in Proc : q # p => seen'[q] = seen[q]
    /\ \A m \in Msg, q \in Proc : q # p /\ lock[m] = q => lock'[m] = q
    /\ pc[p] \notin Inside /\ pc'[p] \notin Inside \cup {"write", "unlink"}
    /\ pc[p] = "unlink" => UnlinkError(p) /\ ~Fresh(p)'
    /\ Fresh(p)' => Fresh(p) /\ file'[p] = file[p] /\ pc[p] # "write"

\* Leaving a message that is not being changed is plain.
LEMMA LeavePlain ==
  ASSUME Inv, NEW p \in Proc, NEW l \in Left, Leave(p, l),
         UNCHANGED <<at, body, retries, failures, discarded, seen>>,
         faults' \in {faults, faults + 1}, pc[p] \notin Inside,
         pc[p] = "unlink" => UnlinkError(p)
  PROVE  Plain(p)
  BY DEF Leave, Released, Goto, Left, Plain, OnlyMoves, Fresh, InMove, Inside,
         Inv, TypeInv, TypeOK

\* So is a move_message() that returned None.
LEMMA ReturnNonePlain ==
  ASSUME Inv, NEW p \in Proc, ReturnNone(p),
         UNCHANGED <<at, body, retries, failures, discarded, seen>>,
         faults' \in {faults, faults + 1}, pc[p] \notin Inside,
         pc[p] = "unlink" => UnlinkError(p)
  PROVE  Plain(p)
  BY LeavePlain, ReturnNoneLeaves

\* Most steps of lock_file() and move_message() are plain.
LEMMA MovePlain ==
  ASSUME Inv, NEW p \in Proc, UNCHANGED queueVars,
         LockStat(p) \/ LockOpen(p) \/ FlockTaken(p) \/ FlockBusy(p)
           \/ LockCheck(p) \/ LinkError(p) \/ UnlinkError(p) \/ Close(p)
           \/ (Link(p) /\ ~(HasSrc(p) /\ ~HasDst(p)))
  PROVE  Plain(p)
<1> USE DEF Goto, dirVars, queueVars, history, Plain, OnlyMoves, Fresh, InMove,
            Inside, Inv, TypeInv, TypeOK
<1>1. CASE LockStat(p)
  BY <1>1, ReturnNonePlain DEF LockStat
<1>2. CASE LockOpen(p)
  BY <1>2 DEF LockOpen
<1>3. CASE FlockTaken(p)
  BY <1>3, ProcAssumption DEF FlockTaken
<1>4. CASE FlockBusy(p)
  BY <1>4, ReturnNonePlain DEF FlockBusy
<1>5. CASE LockCheck(p)
  BY <1>5, ReturnNonePlain DEF LockCheck
<1>6. CASE LinkError(p)
  BY <1>6, ReturnNonePlain DEF LinkError, Inject
<1>6b. CASE UnlinkError(p)
  BY <1>6b, ReturnNonePlain DEF UnlinkError, Inject
<1>7. CASE Close(p)
  BY <1>7, LeavePlain DEF Close, Left, Resume
<1>8. CASE Link(p) /\ ~(HasSrc(p) /\ ~HasDst(p))
  BY <1>8, ReturnNonePlain DEF Link
<1> QED
  BY <1>1, <1>2, <1>3, <1>4, <1>5, <1>6, <1>6b, <1>7, <1>8

\* The steps between two messages are plain.
LEMMA RunPlain ==
  ASSUME Inv, NEW p \in Proc,
         Unblock(p) \/ ListNew(p) \/ Get(p) \/ EndRun(p) \/ StartRun(p) \/ Unwind(p)
  PROVE  Plain(p)
<1> USE DEF Goto, dirVars, queueVars, history, Plain, OnlyMoves, Fresh, InMove,
            Inside, Inv, TypeInv, TypeOK, StartMove
<1>1. CASE Unblock(p)
  BY <1>1 DEF Unblock
<1>2. CASE ListNew(p) \/ EndRun(p) \/ StartRun(p)
  BY <1>2 DEF ListNew, EndRun, StartRun
<1>3. CASE Get(p)
  BY <1>3 DEF Get
<1>4. CASE Unwind(p)
  BY <1>4, LeavePlain DEF Unwind, Left
<1> QED
  BY <1>1, <1>2, <1>3, <1>4

\* The steps that are left.
Deed(p) ==
    \/ Write(p) \/ WriteError(p)
    \/ (Link(p) /\ HasSrc(p) /\ ~HasDst(p)) /\ UNCHANGED queueVars
    \/ Unlink(p) /\ UNCHANGED queueVars
    \/ Parse(p) \/ SendAccepted(p) \/ SendRefused(p) \/ ReplyLost(p)
    \/ DeliveryError(p) \/ DeleteError(p) \/ Remove(p) \/ Discard(p)
    \/ Rewrite(p) \/ Flush(p) \/ FlushError(p) \/ Crash(p)

\* Nothing happens but that time passes.
Idle == UNCHANGED <<at, body, lock, pc, file, job, faults, seen, retries,
                    failures, discarded>>

\* Every step is plain, a deed, a new message, or the passing of time.
LEMMA PlainOrDeed ==
  ASSUME Inv, [Next]_vars
  PROVE  \/ \E p \in Proc : Plain(p) \/ Deed(p)
         \/ \E p \in Apps, m \in Msg : Submit(p, m)
         \/ Idle
<1>1. ASSUME NEW p \in Proc, Step(p) \/ StartRun(p) \/ Crash(p)
      PROVE  Plain(p) \/ Deed(p)
  BY <1>1, MovePlain, RunPlain DEF Step, MoveMessage, Deed
<1>2. ASSUME NEW m \in Msg, Age(m) /\ UNCHANGED queueVars
      PROVE  Idle
  BY <1>2 DEF Age, Idle, procVars, queueVars, history
<1>3. CASE UNCHANGED vars
  BY <1>3 DEF vars, dirVars, procVars, queueVars, history, Idle
<1> QED
  BY <1>1, <1>2, <1>3 DEF Next

-----------------------------------------------------------------------------
(* Only the holder of its lock changes a file in the queue.                 *)

\* A deed that changes a queued file is one of its lock holder.
LEMMA HolderChanges ==
  ASSUME Inv, NEW p \in Proc, Deed(p), NEW m \in Msg, Queued(m),
         at'[m] # at[m] \/ body'[m] # body[m]
  PROVE  lock[m] = p /\ file[p] = m /\ pc'[p] # pc[p]
<1> USE DEF Goto, dirVars, queueVars, history
<1>1. /\ pc \in [Proc -> Pc] /\ at \in [Msg -> SUBSET Folder] /\ body \in [Msg -> Body]
      /\ file \in [Proc -> Msg \cup {NoMsg}]
  BY DEF Inv, TypeInv, TypeOK
<1>2. ASSUME pc[p] = "write"
      PROVE  file[p] # m
  BY <1>2 DEF Inv, IInv, PlaceInv, FreshInv, Queued
<1>3. CASE Write(p) \/ WriteError(p)
  BY <1>1, <1>2, <1>3 DEF Write, WriteError
<1>4. CASE Link(p) /\ HasSrc(p) /\ ~HasDst(p)
  BY <1>1, <1>4 DEF Link, Inv, IInv, LockInv, Holding
<1>5. CASE Unlink(p)
  BY <1>1, <1>5 DEF Unlink, Inv, IInv, LockInv, Holding, PlaceInv, HasSrc, ReturnNone, Leave,
     AfterMove, TypeInv, WorkInv, InMove, Job, Src
<1>6. CASE \/ Parse(p) \/ SendAccepted(p) \/ SendRefused(p) \/ ReplyLost(p)
           \/ DeliveryError(p) \/ DeleteError(p)
  BY <1>6 DEF Parse, SendAccepted, SendRefused, ReplyLost, DeliveryError, DeleteError
<1>7. CASE Remove(p) \/ Discard(p)
  BY <1>1, <1>7 DEF Remove, Discard, Inv, IInv, LockInv, Holding
<1>8. CASE Rewrite(p) \/ Flush(p) \/ FlushError(p)
  BY <1>1, <1>8 DEF Rewrite, Flush, FlushError, Inv, IInv, LockInv, Holding
<1>9. CASE Crash(p)
  BY <1>1, <1>9 DEF Crash, Leave, Inv, IInv, LockInv, Holding
<1> QED
  BY <1>3, <1>4, <1>5, <1>6, <1>7, <1>8, <1>9 DEF Deed

\* A file in the queue, and the place it is at, changes only by a step of the
\* process that has locked it (lock_file() before every move and rewrite).
THEOREM LockHolderOnly == Spec => OnlyByLockHolder
<1> DEFINE A == \A m \in Msg : (Queued(m) /\ (at'[m] # at[m] \/ body'[m] # body[m]))
                  => \E p \in Proc : lock[m] = p /\ file[p] = m /\ pc'[p] # pc[p]
<1>1. ASSUME Inv, [Next]_vars
      PROVE  A
  <2>1. CASE \E p \in Proc : Plain(p)
    BY <2>1 DEF Plain
  <2>2. CASE \E p \in Proc : Deed(p)
    BY <1>1, <2>2, HolderChanges
  <2>3. CASE \E p \in Apps, m \in Msg : Submit(p, m)
    <3>1. PICK p \in Apps, m \in Msg : Submit(p, m)
      BY <2>3
    <3>2. ~Queued(m)
      BY <1>1, <3>1 DEF Submit, Inv, IInv, UnusedInv, Queued
    <3> QED
      BY <1>1, <3>1, <3>2 DEF Submit, Inv, TypeInv, TypeOK
  <2>4. CASE Idle
    BY <2>4 DEF Idle
  <2> QED
    BY <1>1, <2>1, <2>2, <2>3, <2>4, PlainOrDeed
<1>2. Inv /\ [Next]_vars => [A]_vars
  BY <1>1
<1> QED
  BY <1>2, InvAlways, PTL DEF Spec, OnlyByLockHolder

-----------------------------------------------------------------------------
(* In both folders only between link() and unlink().                        *)

\* A file in both folders is the one its lock holder is just moving.
BothInv == \A m \in Msg : {"new", "cur"} \subseteq at[m] =>
             \E p \in Proc : lock[m] = p /\ file[p] = m /\ pc[p] = "unlink"

\* The steps of p leave the lock of another process alone, and where it is.
LEMMA DeedOfOther ==
  ASSUME Inv, NEW p \in Proc, Deed(p), NEW q \in Proc, q # p,
         NEW m \in Msg, lock[m] = q
  PROVE  lock'[m] = q /\ file'[q] = file[q] /\ pc'[q] = pc[q] /\ seen'[q] = seen[q]
<1> USE DEF Goto, dirVars, queueVars, history
<1>1. /\ pc \in [Proc -> Pc] /\ file \in [Proc -> Msg \cup {NoMsg}]
      /\ seen \in [Proc -> Nat]
  BY DEF Inv, TypeInv, TypeOK
<1>2. CASE Write(p) \/ WriteError(p) \/ Parse(p) \/ SendAccepted(p)
  BY <1>1, <1>2 DEF Write, WriteError, Parse, SendAccepted
<1>3. CASE Link(p) /\ HasSrc(p) /\ ~HasDst(p) /\ UNCHANGED queueVars
  BY <1>1, <1>3 DEF Link
<1>4. CASE Unlink(p) /\ UNCHANGED queueVars
  BY <1>1, <1>4 DEF Unlink, ReturnNone, Leave, Released
<1>5. CASE \/ SendRefused(p) \/ ReplyLost(p) \/ DeliveryError(p) \/ DeleteError(p)
           \/ Remove(p) \/ Discard(p)
  BY <1>1, <1>5 DEF SendRefused, ReplyLost, DeliveryError, DeleteError, Remove, Discard
<1>6. CASE Rewrite(p) \/ Flush(p) \/ FlushError(p)
  BY <1>1, <1>6 DEF Rewrite, Flush, FlushError
<1>7. CASE Crash(p)
  BY <1>1, <1>7 DEF Crash, Leave, Released
<1> QED
  BY <1>2, <1>3, <1>4, <1>5, <1>6, <1>7 DEF Deed

\* Every step keeps it, unless a process is killed between the two calls or
\* the second one fails.
LEMMA BothStep ==
  ASSUME Inv, BothInv, [Next]_vars, "unlink" \notin CrashPoints, "diskError" \notin Faults
  PROVE  BothInv'
<1> USE DEF Goto, dirVars, queueVars, history
<1>1. /\ pc \in [Proc -> Pc] /\ at \in [Msg -> SUBSET Folder]
      /\ file \in [Proc -> Msg \cup {NoMsg}] /\ Nobody \notin Proc
  BY ProcAssumption DEF Inv, TypeInv, TypeOK
<1>2. SUFFICES ASSUME NEW m \in Msg, {"new", "cur"} \subseteq at'[m]
               PROVE  \E p \in Proc : lock'[m] = p /\ file'[p] = m /\ pc'[p] = "unlink"
  BY DEF BothInv
<1>3. CASE Idle
  BY <1>2, <1>3 DEF Idle, BothInv
<1>4. ASSUME NEW p \in Apps, NEW x \in Msg, Submit(p, x)
      PROVE  \E q \in Proc : lock'[m] = q /\ file'[q] = m /\ pc'[q] = "unlink"
  <2>1. m # x
    BY <1>1, <1>2, <1>4 DEF Submit
  <2>2. PICK q \in Proc : lock[m] = q /\ file[q] = m /\ pc[q] = "unlink"
    BY <1>1, <1>2, <1>4, <2>1 DEF Submit, BothInv
  <2> QED
    BY <1>1, <1>4, <2>2 DEF Submit
<1>5. ASSUME NEW p \in Proc, Plain(p)
      PROVE  \E q \in Proc : lock'[m] = q /\ file'[q] = m /\ pc'[q] = "unlink"
  <2>1. PICK q \in Proc : lock[m] = q /\ file[q] = m /\ pc[q] = "unlink"
    BY <1>2, <1>5 DEF Plain, BothInv
  <2>2. ~UnlinkError(p)
    BY DEF UnlinkError, Inject
  <2> QED
    BY <1>5, <2>1, <2>2 DEF Plain, OnlyMoves
<1>6. ASSUME NEW p \in Proc, Deed(p)
      PROVE  \E q \in Proc : lock'[m] = q /\ file'[q] = m /\ pc'[q] = "unlink"
  <2>1. CASE Link(p) /\ HasSrc(p) /\ ~HasDst(p) /\ file[p] = m
    <3>1. lock[m] = p
      BY <2>1 DEF Link, Inv, IInv, LockInv, Holding
    <3> QED
      BY <1>1, <2>1, <3>1 DEF Link
  <2>2. CASE Unlink(p) /\ file[p] = m
    <3>1. /\ pc[p] = "unlink" /\ job[p] \in Job
          /\ {Src[job[p]], Dst[job[p]]} \subseteq at[m]
      BY <2>2 DEF Unlink, Inv, IInv, PlaceInv, TypeInv, WorkInv, InMove
    <3>2. at'[m] = at[m] \ {Src[job[p]]}
      BY <1>1, <2>2, <3>1 DEF Unlink, HasSrc
    <3>3. Src[job[p]] = "tmp"
      BY <1>2, <3>1, <3>2 DEF Job, Src
    <3>4. Fresh(p)
      BY <3>1, <3>3, FreshSource DEF InMove
    <3>5. at[m] = {"tmp", Dst[job[p]]}
      BY <2>2, <3>1, <3>4 DEF Inv, IInv, FreshInv
    <3> QED
      BY <1>2, <3>2, <3>5
  <2>3. CASE ~(Link(p) /\ HasSrc(p) /\ ~HasDst(p) /\ file[p] = m) /\ ~(Unlink(p) /\ file[p] = m)
    <3>1. at'[m] \subseteq at[m]
      <4> USE <1>1, <2>3
      <4>1. CASE Write(p) \/ WriteError(p)
        BY <4>1 DEF Write, WriteError
      <4>2. CASE Link(p) /\ HasSrc(p) /\ ~HasDst(p)
        BY <4>2 DEF Link
      <4>3. CASE Unlink(p)
        BY <4>3 DEF Unlink
      <4>4. CASE \/ Parse(p) \/ SendAccepted(p) \/ SendRefused(p) \/ ReplyLost(p)
                 \/ DeliveryError(p) \/ DeleteError(p) \/ Remove(p) \/ Discard(p)
        BY <4>4 DEF Parse, SendAccepted, SendRefused, ReplyLost, DeliveryError, DeleteError,
           Remove, Discard
      <4>5. CASE Rewrite(p) \/ Flush(p) \/ FlushError(p) \/ Crash(p)
        BY <4>5 DEF Rewrite, Flush, FlushError, Crash
      <4> QED
        BY <1>6, <4>1, <4>2, <4>3, <4>4, <4>5 DEF Deed
    <3>2. PICK q \in Proc : lock[m] = q /\ file[q] = m /\ pc[q] = "unlink"
      BY <1>2, <3>1 DEF BothInv
    <3>3. CASE q = p
      <4>1. Unlink(p)
        BY <1>1, <1>6, <3>2, <3>3 DEF Deed, Write, WriteError, Link, Parse, SendAccepted,
           SendRefused, ReplyLost, DeliveryError, DeleteError, Remove, Discard, Rewrite, Flush,
           FlushError, Crash
      <4> QED
        BY <2>3, <3>2, <3>3, <4>1
    <3>4. CASE q # p
      BY <1>6, <3>2, <3>4, DeedOfOther
    <3> QED
      BY <3>3, <3>4
  <2> QED
    BY <2>1, <2>2, <2>3
<1> QED
  BY <1>3, <1>4, <1>5, <1>6, PlainOrDeed

\* A message is in both folders only while its lock holder is between link()
\* and unlink(), if no process is killed right there and no system call fails
\* for a reason of its own: move_message() ignores an error of that unlink().
THEOREM InBothWhileMoved ==
  ASSUME "unlink" \notin CrashPoints, "diskError" \notin Faults
  PROVE  Spec => []InBothOnlyWhileMoved
<1>1. Init => BothInv
  BY DEF Init, MaildirInit, BothInv
<1>2. Inv /\ BothInv /\ [Next]_vars => BothInv'
  BY BothStep
<1>3. BothInv => InBothOnlyWhileMoved
  BY DEF BothInv, InBothOnlyWhileMoved
<1> QED
  BY <1>1, <1>2, <1>3, InvAlways, PTL DEF Spec

-----------------------------------------------------------------------------
(* Nobody finds half a message.                                             *)

\* p is rewriting the file of m, which nobody else may look at.
Rewriting(p, m) == lock[m] = p /\ file[p] = m /\ pc[p] = "flush" /\ body[m] = "rewriting"

\* What is in the queue is whole, and so is what is about to enter it.
WholeInv ==
    /\ \A m \in Msg : Queued(m) => body[m] = "whole" \/ \E p \in Proc : Rewriting(p, m)
    /\ \A p \in Proc : Fresh(p) /\ pc[p] # "write" => body[file[p]] = "whole"

\* The steps that write to a file are those of its only user.
LEMMA WholeDeed ==
  ASSUME Inv, WholeInv, NEW p \in Proc, Deed(p),
         ~FlushError(p), Crash(p) => pc[p] # "flush"
  PROVE  WholeInv'
<1> USE DEF Goto, dirVars, queueVars, history
<1>1. /\ pc \in [Proc -> Pc] /\ at \in [Msg -> SUBSET Folder] /\ body \in [Msg -> Body]
      /\ file \in [Proc -> Msg \cup {NoMsg}] /\ job \in [Proc -> Job \cup {"none"}]
  BY DEF Inv, TypeInv, TypeOK
<1>2. ~FlushError(p) /\ (Crash(p) => pc[p] # "flush")
  OBVIOUS
<1>3. OnlyMoves(p)
  BY <1>1 DEF Deed, OnlyMoves, Write, WriteError, Link, Unlink, Parse, SendAccepted,
     SendRefused, ReplyLost, DeliveryError, DeleteError, Remove, Discard, Rewrite, Flush, FlushError,
     Crash, Leave, ReturnNone
<1>4. ASSUME NEW q \in Proc, NEW m \in Msg, Rewriting(q, m), q # p, body'[m] = body[m]
      PROVE  Rewriting(q, m)'
  BY <1>4, DeedOfOther DEF Rewriting
<1>5. CASE Write(p) \/ WriteError(p)
  <2>1. Fresh(p) /\ ~Queued(file[p]) /\ at[file[p]] = {"tmp"} /\ file[p] \in Msg
    BY <1>5, Typed DEF Write, WriteError, Inv, IInv, PlaceInv, FreshInv, Queued,
       WithFile, Busy
  <2>2. ASSUME NEW m \in Msg, Queued(m)'
        PROVE  Queued(m) /\ m # file[p] /\ body'[m] = body[m]
    BY <1>1, <1>5, <2>1, <2>2 DEF Write, WriteError, Queued
  <2>3. pc[p] = "write"
    BY <1>5 DEF Write, WriteError
  <2>4. ASSUME NEW m \in Msg, NEW q \in Proc, Rewriting(q, m), body'[m] = body[m]
        PROVE  Rewriting(q, m)'
    BY <1>4, <2>3, <2>4 DEF Rewriting
  <2>5. \/ body'[file[p]] = "whole" /\ file' = file
        \/ ~Fresh(p)'
    BY <1>1, <1>5, <2>1 DEF Write, WriteError, Fresh, InMove
  <2>6. \A q \in Proc : q # p /\ Fresh(q) => file[q] # file[p]
    BY <2>1 DEF Inv, IInv, FreshInv
  <2>7. ASSUME NEW q \in Proc, q # p, Fresh(q)', pc'[q] # "write"
        PROVE  body'[file'[q]] = "whole"
    <3>1. Fresh(q) /\ pc[q] # "write" /\ file'[q] = file[q] /\ file[q] \in Msg
      BY <1>3, <2>7, Typed DEF OnlyMoves, Fresh, InMove, WithFile, Busy
    <3> QED
      BY <1>1, <1>5, <2>6, <2>7, <3>1 DEF Write, WriteError, WholeInv
  <2> QED
    BY <2>2, <2>4, <2>5, <2>7 DEF WholeInv
<1>6. CASE Link(p) /\ HasSrc(p) /\ ~HasDst(p) /\ UNCHANGED queueVars
  <2>1. file[p] \in Msg /\ job[p] \in Job
    BY <1>6 DEF Link, Inv, TypeInv, WorkInv, InMove, WithFile, Busy
  <2>2. ~Queued(file[p]) => body[file[p]] = "whole"
    <3> SUFFICES ASSUME ~Queued(file[p]) PROVE Fresh(p) /\ pc[p] # "write"
      BY DEF WholeInv
    <3>1. Src[job[p]] = "tmp"
      BY <1>6, <2>1 DEF HasSrc, Queued, Job, Src
    <3> QED
      BY <1>6, <3>1, FreshSource DEF Link, InMove
  <2> QED
    BY <1>1, <1>3, <1>4, <1>6, <2>1, <2>2 DEF Link, WholeInv, Queued, Fresh, InMove,
       OnlyMoves, Rewriting
<1>7. CASE Unlink(p) /\ UNCHANGED queueVars
  <2>1. file[p] \in Msg /\ job[p] \in Job /\ HasSrc(p)
    BY <1>7 DEF Unlink, Inv, IInv, TypeInv, WorkInv, InMove, WithFile, Busy, PlaceInv, HasSrc
  <2>2. pc'[p] \in {"close", "parse"}
    BY <1>1, <1>7, <2>1, SrcFact DEF Unlink
  <2> QED
    BY <1>1, <1>3, <1>4, <1>7, <2>1, <2>2 DEF Unlink, WholeInv, Queued, Fresh, InMove,
       OnlyMoves, Rewriting
<1>8. CASE \/ Parse(p) \/ SendAccepted(p) \/ SendRefused(p) \/ ReplyLost(p)
           \/ DeliveryError(p) \/ DeleteError(p) \/ Remove(p) \/ Discard(p)
  <2>1. /\ UNCHANGED <<body, file, job>> /\ pc[p] # "flush" /\ ~Fresh(p)' 
        /\ \A m \in Msg : at'[m] \subseteq at[m]
    BY <1>1, <1>8 DEF Parse, SendAccepted, SendRefused, ReplyLost, DeliveryError,
       DeleteError, Remove, Discard, Fresh, InMove
  <2> QED
    BY <1>3, <1>4, <2>1 DEF WholeInv, Queued, Fresh, InMove, OnlyMoves, Rewriting
<1>9. CASE Rewrite(p) \/ Flush(p)
  <2>1. /\ file[p] \in Msg /\ lock[file[p]] = p /\ Queued(file[p])
    BY <1>9 DEF Rewrite, Flush, Inv, IInv, LockInv, Holding, PlaceInv, Placed, Delivering,
       TypeInv, WorkInv, WithFile, Busy, Queued
  <2>2. Apart(p, file[p])
    BY <1>9, ActingApart DEF Acting, Placed, Delivering, Rewrite, Flush
  <2>3. /\ Rewrite(p) => body[file[p]] = "whole"
        /\ Flush(p) => body[file[p]] \in {"whole", "rewriting"}
    BY <1>9, <2>1 DEF Rewrite, Flush, WholeInv, Rewriting
  <2>4. /\ UNCHANGED <<at, lock, file>> /\ ~Fresh(p)'
        /\ \A m \in Msg : m # file[p] => body'[m] = body[m]
    BY <1>1, <1>9 DEF Rewrite, Flush, Fresh, InMove
  <2>5. body'[file[p]] = "whole" \/ Rewriting(p, file[p])'
    BY <1>1, <1>9, <2>1, <2>3 DEF Rewrite, Flush, Rewriting
  <2>6. ASSUME NEW m \in Msg, Queued(m)'
        PROVE  body'[m] = "whole" \/ \E q \in Proc : Rewriting(q, m)'
    <3>1. CASE m = file[p]
      BY <2>4, <2>5, <3>1 DEF Rewriting
    <3>2. CASE m # file[p]
      BY <1>4, <2>4, <2>6, <3>2 DEF WholeInv, Queued, Rewriting
    <3> QED
      BY <3>1, <3>2
  <2> QED
    BY <1>3, <2>1, <2>2, <2>4, <2>6, Typed DEF WholeInv, Apart, WithFile, Busy, Fresh, InMove, OnlyMoves
<1>10. CASE Crash(p)
  <2>1. /\ UNCHANGED <<at, body>> /\ pc'[p] = "idle"
    BY <1>1, <1>2, <1>10 DEF Crash, Leave
  <2> QED
    BY <1>2, <1>3, <1>4, <1>10, <2>1 DEF WholeInv, Queued, Fresh, InMove, OnlyMoves, Rewriting
<1> QED
  BY <1>2, <1>5, <1>6, <1>7, <1>8, <1>9, <1>10 DEF Deed

\* ... and so does every step that is not a rewrite cut short.
LEMMA WholeStep ==
  ASSUME Inv, WholeInv, [Next]_vars,
         \A p \in Proc : ~FlushError(p) /\ (Crash(p) => pc[p] # "flush")
  PROVE  WholeInv'
<1>1. ASSUME NEW p \in Proc, Plain(p)
      PROVE  WholeInv'
  <2>1. ASSUME NEW q \in Proc, NEW m \in Msg, Rewriting(q, m)
        PROVE  Rewriting(q, m)'
    BY <1>1, <2>1 DEF Plain, OnlyMoves, Inside, Rewriting
  <2> QED
    BY <1>1, <2>1 DEF Plain, OnlyMoves, WholeInv, Queued, Fresh, InMove
<1>2. ASSUME NEW p \in Apps, NEW x \in Msg, Submit(p, x)
      PROVE  WholeInv'
  <2>1. /\ pc[p] = "idle" /\ body[x] = "none" /\ at' = [at EXCEPT ![x] = {"tmp"}]
        /\ body' = [body EXCEPT ![x] = "partial"] /\ file' = [file EXCEPT ![p] = x]
        /\ pc' = [pc EXCEPT ![p] = "write"] /\ lock' = lock
        /\ \A q \in Proc : q # p => job'[q] = job[q]
    BY <1>2 DEF Submit, Goto, Inv, TypeInv, TypeOK
  <2>2. at[x] = {} /\ \A q \in Proc : Fresh(q) => file[q] # x
    BY <2>1 DEF Inv, IInv, UnusedInv, FreshInv
  <2>3. \A m \in Msg : Queued(m)' => m # x /\ Queued(m)
    BY <2>1 DEF Inv, TypeInv, TypeOK, Queued
  <2>4. \A m \in Msg, q \in Proc : m # x /\ Rewriting(q, m) => Rewriting(q, m)'
    BY <2>1 DEF Inv, TypeInv, TypeOK, Rewriting
  <2>5. \A q \in Proc : Fresh(q)' /\ pc'[q] # "write" => body'[file'[q]] = "whole"
    BY <2>1, <2>2, Typed DEF WholeInv, Inv, TypeInv, TypeOK, Fresh, InMove
  <2> QED
    BY <2>1, <2>3, <2>4, <2>5 DEF WholeInv, Inv, TypeInv, TypeOK
<1>3. CASE Idle
  BY <1>3 DEF Idle, WholeInv, Queued, Fresh, InMove, Rewriting
<1> QED
  BY <1>1, <1>2, <1>3, PlainOrDeed, WholeDeed

\* Every message in new/ or cur/ is whole, but for the one its lock holder is
\* rewriting: write() and fsync() before the move out of tmp/, the lock around
\* the rewrite.  If a rewrite can be cut short, by a kill or by a full disk,
\* this does not hold.
THEOREM StoredIsWhole ==
  ASSUME "flush" \notin CrashPoints, "diskFull" \notin Faults
  PROVE  Spec => []StoredWhole
<1>1. Init => WholeInv
  BY DEF Init, MaildirInit, WholeInv, Queued, Fresh, InMove
<1>2. Inv /\ WholeInv /\ [Next]_vars => WholeInv'
  BY WholeStep DEF FlushError, Inject, Crash
<1>3. WholeInv => StoredWhole
  BY DEF WholeInv, StoredWhole, Rewriting
<1> QED
  BY <1>1, <1>2, <1>3, InvAlways, PTL DEF Spec

-----------------------------------------------------------------------------
(* Failed attempts are counted.                                             *)

Recording(m) == {p \in Proc : file[p] = m /\ pc[p] = "failed"}

\* What a process knows of the retries of its message is what the file says,
\* until it writes them.
CountInv ==
    /\ \A p \in Proc : pc[p] \in {"send", "failed"} => seen[p] = retries[file[p]]
    /\ \A p \in Proc : pc[p] = "failed" => retries[file[p]] < failures[file[p]]
    /\ \A m \in Msg : retries[m] <= failures[m]
    /\ \A m \in Msg \ discarded :
         failures[m] <= retries[m] + faults + (IF Recording(m) = {} THEN 0 ELSE 1)

\* A step that neither records a failure nor counts one keeps the count, if a
\* fault is what stops p from recording.
LEMMA CountKept ==
  ASSUME Inv, CountInv, NEW p \in Proc, OnlyMoves(p), faults' \in {faults, faults + 1},
         UNCHANGED <<retries, failures, discarded>>,
         \A q \in Proc : q # p => seen'[q] = seen[q],
         pc'[p] # "failed", pc[p] = "failed" => faults' = faults + 1,
         pc'[p] = "send" => seen'[p] = retries[file'[p]]
  PROVE  CountInv'
<1>1. /\ retries \in [Msg -> Nat] /\ failures \in [Msg -> Nat] /\ faults \in Nat
  BY DEF Inv, TypeInv, TypeOK
<1>2. ASSUME NEW m \in Msg \ discarded
      PROVE  failures[m] <= retries[m] + faults' + (IF Recording(m)' = {} THEN 0 ELSE 1)
  <2>1. Recording(m) = {} => Recording(m)' = {}
    BY DEF Recording, OnlyMoves
  <2>2. Recording(m)' = {} => Recording(m) = {} \/ faults' = faults + 1
    BY DEF Recording, OnlyMoves
  <2> QED
    BY <1>1, <2>1, <2>2 DEF CountInv
<1> QED
  BY <1>2 DEF CountInv, OnlyMoves

\* Every deed keeps it: each failure is recorded by the one that saw it.
LEMMA CountDeed ==
  ASSUME Inv, CountInv, NEW p \in Proc, Deed(p)
  PROVE  CountInv'
<1> USE DEF Goto, dirVars, queueVars, history
<1>1. /\ pc \in [Proc -> Pc] /\ file \in [Proc -> Msg \cup {NoMsg}]
      /\ seen \in [Proc -> Nat] /\ faults \in Nat
      /\ retries \in [Msg -> Nat] /\ failures \in [Msg -> Nat]
  BY DEF Inv, TypeInv, TypeOK
<1>2. OnlyMoves(p) /\ \A q \in Proc : q # p => seen'[q] = seen[q]
  BY <1>1 DEF Deed, OnlyMoves, Write, WriteError, Link, Unlink, Parse, SendAccepted,
     SendRefused, ReplyLost, DeliveryError, DeleteError, Remove, Discard, Rewrite, Flush,
     FlushError, Crash, Leave, ReturnNone, Inv, TypeInv, TypeOK
<1>3. CASE Write(p) \/ WriteError(p) \/ SendAccepted(p) \/ Remove(p) \/ Flush(p)
           \/ FlushError(p) \/ DeliveryError(p) \/ DeleteError(p)
  BY <1>1, <1>2, <1>3, CountKept DEF Write, WriteError, SendAccepted, Remove, Flush,
     FlushError, DeliveryError, DeleteError, Inject
<1>4. CASE Parse(p)
  BY <1>1, <1>2, <1>4, CountKept DEF Parse
<1>5. CASE Link(p) /\ HasSrc(p) /\ ~HasDst(p) /\ UNCHANGED queueVars
  BY <1>1, <1>2, <1>5, CountKept DEF Link
<1>6. CASE Unlink(p) /\ UNCHANGED queueVars
  <2>1. HasSrc(p) /\ job[p] \in Job
    BY <1>6 DEF Unlink, Inv, IInv, PlaceInv, HasSrc, TypeInv, WorkInv, InMove
  <2>2. pc'[p] \in {"close", "parse"}
    BY <1>1, <1>6, <2>1, SrcFact DEF Unlink
  <2> QED
    BY <1>2, <1>6, <2>1, <2>2, CountKept DEF Unlink
<1>7. CASE Crash(p)
  BY <1>1, <1>2, <1>7, CountKept DEF Crash, Leave, Inject
<1>8. CASE SendRefused(p) \/ ReplyLost(p) \/ Discard(p) \/ Rewrite(p)
  <2>1. /\ pc[p] \in {"send", "failed"} /\ file[p] \in Msg /\ UNCHANGED <<file, seen>>
    BY <1>8, Typed DEF SendRefused, ReplyLost, Discard, Rewrite, WithFile, Busy
  <2>2. \A q \in Proc : q # p /\ file[q] = file[p] => pc[q] \notin {"send", "failed"}
    BY <2>1, ActingApart DEF Acting, Apart, Placed, Delivering
  <2>3. "cur" \in at[file[p]]
    BY <2>1 DEF Inv, IInv, PlaceInv, Placed, Delivering
  <2>4. \A m \in Msg : m # file[p] => Recording(m)' = Recording(m)
    BY <1>2, <2>1 DEF Recording, OnlyMoves
  <2>5. CASE SendRefused(p) \/ ReplyLost(p)
    <3>1. /\ pc[p] = "send" /\ pc' = [pc EXCEPT ![p] = "failed"]
          /\ failures' = [failures EXCEPT ![file[p]] = @ + 1]
          /\ UNCHANGED <<retries, discarded>> /\ faults' \in {faults, faults + 1}
      BY <2>5 DEF SendRefused, ReplyLost, Inject
    <3>2. Recording(file[p]) = {} /\ Recording(file[p])' # {}
      BY <1>1, <2>1, <2>2, <3>1 DEF Recording
    <3>3. ASSUME NEW m \in Msg \ discarded
          PROVE  failures'[m] <= retries[m] + faults' + (IF Recording(m)' = {} THEN 0 ELSE 1)
      <4>1. CASE m = file[p]
        BY <1>1, <2>1, <3>1, <3>2, <4>1 DEF CountInv
      <4>2. CASE m # file[p]
        BY <1>1, <2>1, <2>4, <3>1, <4>2 DEF CountInv
      <4> QED
        BY <4>1, <4>2
    <3>4. \A q \in Proc : pc'[q] \in {"send", "failed"} => seen[q] = retries[file[q]]
      BY <1>1, <3>1 DEF CountInv
    <3>5. \A q \in Proc : pc'[q] = "failed" => retries[file[q]] < failures'[file[q]]
      BY <1>1, <2>1, <3>1, Typed DEF CountInv, WithFile, Busy
    <3>6. \A m \in Msg : retries[m] <= failures'[m]
      BY <1>1, <3>1 DEF CountInv
    <3> QED
      BY <2>1, <3>1, <3>3, <3>4, <3>5, <3>6 DEF CountInv
  <2>6. CASE Discard(p)
    <3>1. /\ pc[p] = "failed" /\ pc' = [pc EXCEPT ![p] = "close"]
          /\ discarded' = discarded \cup {file[p]}
          /\ UNCHANGED <<retries, failures, faults>>
      BY <2>3, <2>6 DEF Discard
    <3>2. \A m \in Msg \ discarded' : m # file[p] /\ m \notin discarded
      BY <3>1
    <3> QED
      BY <1>1, <2>1, <2>4, <3>1, <3>2 DEF CountInv
  <2>7. CASE Rewrite(p)
    <3>1. /\ pc[p] = "failed" /\ pc'[p] \in {"flush", "link"}
          /\ retries' = [retries EXCEPT ![file[p]] = seen[p] + 1]
          /\ UNCHANGED <<discarded, failures, faults>>
      BY <1>1, <2>7 DEF Rewrite
    <3>2. retries'[file[p]] = retries[file[p]] + 1
      BY <1>1, <2>1, <3>1 DEF CountInv
    <3>3. ASSUME NEW m \in Msg \ discarded
          PROVE  failures[m] <= retries'[m] + faults + (IF Recording(m)' = {} THEN 0 ELSE 1)
      <4>1. CASE m = file[p]
        BY <1>1, <2>1, <3>1, <3>2, <4>1 DEF CountInv
      <4>2. CASE m # file[p]
        BY <1>1, <2>1, <2>4, <3>1, <4>2 DEF CountInv
      <4> QED
        BY <4>1, <4>2
    <3>4. ASSUME NEW q \in Proc, pc'[q] \in {"send", "failed"}
          PROVE  pc[q] = pc'[q] /\ file[q] # file[p] /\ file[q] \in Msg
      BY <1>2, <2>2, <3>1, <3>4, Typed DEF OnlyMoves, WithFile, Busy
    <3>5. \A m \in Msg : retries'[m] <= failures[m]
      BY <1>1, <2>1, <3>1, <3>2 DEF CountInv
    <3> QED
      BY <1>1, <2>1, <3>1, <3>3, <3>4, <3>5 DEF CountInv
  <2> QED
    BY <1>8, <2>5, <2>6, <2>7
<1> QED
  BY <1>3, <1>4, <1>5, <1>6, <1>7, <1>8 DEF Deed

\* ... and so does every other step.
LEMMA CountStep ==
  ASSUME Inv, CountInv, [Next]_vars
  PROVE  CountInv'
<1>1. ASSUME NEW p \in Proc, Plain(p)
      PROVE  CountInv'
  BY <1>1, CountKept DEF Plain, Inside
<1>2. ASSUME NEW p \in Apps, NEW x \in Msg, Submit(p, x)
      PROVE  CountInv'
  <2>1. /\ pc[p] = "idle" /\ pc' = [pc EXCEPT ![p] = "write"]
        /\ file' = [file EXCEPT ![p] = x] /\ p \in Proc
        /\ \A q \in Proc : q # p => job'[q] = job[q]
        /\ UNCHANGED <<retries, failures, discarded, seen, faults>>
    BY <1>2 DEF Submit, Goto, queueVars, history, Inv, TypeInv, TypeOK, Proc
  <2> QED
    BY <2>1, CountKept DEF Inv, TypeInv, TypeOK, OnlyMoves
<1>3. CASE Idle
  BY <1>3 DEF Idle, CountInv, Recording
<1> QED
  BY <1>1, <1>2, <1>3, PlainOrDeed, CountDeed

\* X-Retries of a message tells how often it failed: no failure is counted
\* twice, and one is missing only while it is being recorded or because of a
\* fault (delivery_failed(), parse_message_envelope()).
THEOREM FailuresCounted == Spec => []RetriesCounted
<1>1. Init => CountInv
  BY FaultAssumption DEF Init, MaildirInit, CountInv, Recording
<1>2. Inv /\ CountInv /\ [Next]_vars => CountInv'
  BY CountStep
<1>3. Inv /\ CountInv => RetriesCounted
  BY DEF CountInv, RetriesCounted, Recording
<1> QED
  BY <1>1, <1>2, <1>3, InvAlways, PTL DEF Spec

-----------------------------------------------------------------------------
(* Applications.  A message that is only in tmp/ is hidden, no mq-run has  *)
(* listed it; so nobody else asks for its lock.  Once it is in cur/ the    *)
(* application holds the lock, and without a fault the file is whole.      *)


\* Who holds a lock works on that file, until it closes it.
LockedInv ==
    \A m \in Msg, p \in Proc : lock[m] = p =>
        file[p] = m /\ (Holding(p) \/ pc[p] = "raised")

\* p brings a message in that is in tmp/ only.
Bringing(p) == Fresh(p) /\ pc[p] # "unlink"

\* A file nobody has linked yet is known to its writer only.
HiddenInv ==
    /\ \A m \in Msg, p \in Proc : body[m] = "none" => file[p] # m /\ m \notin todo[p]
    /\ \A p, q \in Proc : Bringing(p) =>
         file[p] \notin todo[q] /\ (q # p => file[q] # file[p])

\* Applications neither unblock messages nor take them out of new/.
AppJobInv ==
    \A p \in Apps : pc[p] \notin {"unblock", "get"} /\ job[p] \notin {"unblock", "start"}

-----------------------------------------------------------------------------
(* LockedInv                                                                *)

\* Closing a file leaves the other locks where they are.
LEMMA LeaveLocked ==
  ASSUME Inv, LockedInv, NEW p \in Proc, NEW l \in Left, Leave(p, l)
  PROVE  LockedInv'
<1> SUFFICES ASSUME NEW m \in Msg, NEW q \in Proc, lock'[m] = q
             PROVE  file'[q] = m /\ (Holding(q) \/ pc[q] = "raised")'
  BY DEF LockedInv
<1>1. q # p /\ lock[m] = q
  BY ProcAssumption DEF Leave, Released
<1> QED
  BY <1>1 DEF Leave, Goto, LockedInv, Holding, Inv, TypeInv, TypeOK

\* So does a move_message() that returned None.
LEMMA ReturnNoneLocked ==
  ASSUME Inv, LockedInv, NEW p \in Proc, ReturnNone(p)
  PROVE  LockedInv'
  BY LeaveLocked, ReturnNoneLeaves

\* Every step keeps the holder of a lock with its file.
LEMMA LockedStep ==
  ASSUME Inv, LockedInv, [Next]_vars
  PROVE  LockedInv'
<1> USE DEF Goto, LockedInv, Holding, Inv, TypeInv, TypeOK, procVars
<1>1. ASSUME NEW p \in Proc,
             \/ LockStat(p) \/ FlockBusy(p) \/ LockCheck(p)
             \/ LinkError(p) \/ UnlinkError(p)
      PROVE  LockedInv'
  BY <1>1, ReturnNoneLocked DEF LockStat, FlockBusy, LockCheck, LinkError, UnlinkError
<1>2. ASSUME NEW p \in Proc, LockOpen(p)
      PROVE  LockedInv'
  BY <1>2 DEF LockOpen
<1>3. ASSUME NEW p \in Proc, FlockTaken(p)
      PROVE  LockedInv'
  BY <1>3, Typed DEF FlockTaken, WithFile, Busy
<1>4. ASSUME NEW p \in Proc, Link(p)
      PROVE  LockedInv'
  BY <1>4, ReturnNoneLocked DEF Link
<1>5. ASSUME NEW p \in Proc, Unlink(p)
      PROVE  LockedInv'
  <2>1. CASE HasSrc(p)
    <3>1. pc'[p] \in {"close", "parse"}
      BY <1>5, <2>1, SrcFact DEF Unlink, WorkInv, InMove
    <3> QED
      BY <1>5, <2>1, <3>1 DEF Unlink
  <2>2. CASE ~HasSrc(p)
    BY <1>5, <2>2, ReturnNoneLocked DEF Unlink
  <2> QED
    BY <2>1, <2>2
<1>6. ASSUME NEW p \in Proc, Close(p) \/ Unwind(p) \/ Crash(p)
      PROVE  LockedInv'
  BY <1>6, LeaveLocked DEF Close, Unwind, Crash, Resume, Left
<1>7. ASSUME NEW p \in Proc,
             Write(p) \/ WriteError(p) \/ ListNew(p) \/ EndRun(p) \/ StartRun(p)
      PROVE  LockedInv'
  BY <1>7 DEF Write, WriteError, ListNew, EndRun, StartRun
<1>8. ASSUME NEW p \in Proc, Unblock(p) \/ Get(p)
      PROVE  LockedInv'
  BY <1>8 DEF Unblock, Get, StartMove
<1>9. ASSUME NEW p \in Proc,
             \/ Parse(p) \/ SendAccepted(p) \/ SendRefused(p) \/ ReplyLost(p)
             \/ DeliveryError(p) \/ DeleteError(p) \/ Remove(p) \/ Discard(p)
      PROVE  LockedInv'
  BY <1>9 DEF Parse, SendAccepted, SendRefused, ReplyLost, DeliveryError, DeleteError,
     Remove, Discard
<1>10. ASSUME NEW p \in Proc, Rewrite(p) \/ Flush(p) \/ FlushError(p)
       PROVE  LockedInv'
  BY <1>10 DEF Rewrite, Flush, FlushError
<1>11. ASSUME NEW p \in Apps, NEW m \in Msg, Submit(p, m)
       PROVE  LockedInv'
  BY <1>11 DEF Submit, Proc
<1>12. ASSUME NEW m \in Msg, Age(m)
       PROVE  LockedInv'
  BY <1>12 DEF Age
<1>13. CASE UNCHANGED vars
  BY <1>13 DEF vars
<1> QED
  BY <1>1, <1>2, <1>3, <1>4, <1>5, <1>6, <1>7, <1>8, <1>9, <1>10, <1>11, <1>12, <1>13
  DEF Next, Step, MoveMessage

-----------------------------------------------------------------------------
(* HiddenInv                                                                *)

\* p learns of no file that is hidden.
Discreet(p) ==
    /\ \A q \in Proc : q # p => todo'[q] = todo[q]
    /\ todo'[p] \subseteq todo[p] \cup {m \in Msg : Queued(m)}
    /\ file'[p] \in {file[p], NoMsg} \cup todo[p]

\* No step lists a file that is not in new/ or cur/.
LEMMA StepDiscreet ==
  ASSUME Inv, NEW p \in Proc, Step(p) \/ StartRun(p) \/ Crash(p)
  PROVE  Discreet(p)
<1> USE DEF Goto, Inv, TypeInv, TypeOK, Discreet, queueVars
<1>1. CASE (MoveMessage(p) \/ Close(p)) /\ UNCHANGED queueVars
  <2>1. file'[p] \in {file[p], NoMsg}
    BY <1>1 DEF MoveMessage, LockStat, LockOpen, FlockTaken, FlockBusy, LockCheck, Link,
       LinkError, Unlink, UnlinkError, Close, ReturnNone, Leave
  <2> QED
    BY <1>1, <2>1
<1>2. CASE Unblock(p) \/ Get(p)
  BY <1>2 DEF Unblock, Get, StartMove
<1>3. CASE ListNew(p) \/ EndRun(p) \/ StartRun(p)
  BY <1>3 DEF ListNew, EndRun, StartRun, InFolder, Queued
<1>4. CASE Write(p) \/ WriteError(p) \/ Rewrite(p) \/ Flush(p) \/ FlushError(p)
  BY <1>4 DEF Write, WriteError, Rewrite, Flush, FlushError
<1>5. CASE \/ Parse(p) \/ SendAccepted(p) \/ SendRefused(p) \/ ReplyLost(p)
           \/ DeliveryError(p) \/ DeleteError(p) \/ Remove(p) \/ Discard(p)
  BY <1>5 DEF Parse, SendAccepted, SendRefused, ReplyLost, DeliveryError, DeleteError,
     Remove, Discard
<1>6. CASE Unwind(p) \/ Crash(p)
  BY <1>6 DEF Unwind, Crash, Leave
<1> QED
  BY <1>1, <1>2, <1>3, <1>4, <1>5, <1>6 DEF Step

\* A discreet step keeps what is hidden.
LEMMA HiddenKept ==
  ASSUME Inv, HiddenInv, NEW p \in Proc, Discreet(p), OnlyMoves(p),
         \A m \in Msg : body'[m] = "none" => body[m] = "none",
         Bringing(p)' => Bringing(p) /\ file'[p] = file[p]
  PROVE  HiddenInv'
<1>1. \A q \in Proc : Bringing(q)' => Bringing(q) /\ file'[q] = file[q] /\ file[q] \in Msg
  BY Typed DEF OnlyMoves, Bringing, Fresh, InMove, WithFile, Busy
<1>2. \A q \in Proc : Bringing(q) => ~Queued(file[q])
  BY DEF Bringing, Inv, IInv, FreshInv, Queued
<1>3. \A m \in Msg : body[m] = "none" => ~Queued(m)
  BY DEF Inv, IInv, UnusedInv, Queued
<1>4. \A q \in Proc : /\ todo'[q] \subseteq todo[q] \cup {m \in Msg : Queued(m)}
                      /\ file'[q] \in {file[q], NoMsg} \cup todo[q]
  BY DEF Discreet, OnlyMoves
<1>5. ASSUME NEW m \in Msg, NEW q \in Proc, body'[m] = "none"
      PROVE  file'[q] # m /\ m \notin todo'[q]
  BY <1>3, <1>4, <1>5, MsgAssumption DEF HiddenInv
<1>6. ASSUME NEW q \in Proc, NEW r \in Proc, Bringing(q)'
      PROVE  file'[q] \notin todo'[r] /\ (r # q => file'[r] # file'[q])
  BY <1>1, <1>2, <1>4, <1>6, MsgAssumption DEF HiddenInv
<1> QED
  BY <1>5, <1>6 DEF HiddenInv

\* Every step keeps a new message hidden until it is linked.
LEMMA HiddenStep ==
  ASSUME Inv, HiddenInv, [Next]_vars
  PROVE  HiddenInv'
<1>1. ASSUME NEW p \in Proc, Step(p) \/ StartRun(p) \/ Crash(p)
      PROVE  HiddenInv'
  <2>1. Discreet(p)
    BY <1>1, StepDiscreet
  <2>2. CASE Plain(p)
    BY <2>1, <2>2, HiddenKept DEF Plain, Inside, Bringing
  <2>3. CASE Deed(p)
    <3>1. OnlyMoves(p)
      BY <2>3 DEF Deed, OnlyMoves, Write, WriteError, Link, Unlink, Parse, SendAccepted,
         SendRefused, ReplyLost, DeliveryError, DeleteError, Remove, Discard, Rewrite,
         Flush, FlushError, Crash, Leave, ReturnNone, Goto, Inv, TypeInv, TypeOK
    <3>2. \A m \in Msg : body'[m] = "none" => body[m] = "none"
      BY <2>3 DEF Deed, Write, WriteError, Link, Unlink, Parse, SendAccepted,
         SendRefused, ReplyLost, DeliveryError, DeleteError, Remove, Discard, Rewrite,
         Flush, FlushError, Crash, dirVars, Inv, TypeInv, TypeOK
    <3>3. CASE Unlink(p)
      <4>1. pc'[p] \notin {"write", "stat", "open", "flock", "check", "link"}
        BY <3>3, SrcFact DEF Unlink, ReturnNone, Leave, AfterNone, Resume, Goto, Inv,
           TypeInv, TypeOK, WorkInv, InMove
      <4> QED
        BY <2>1, <3>1, <3>2, <4>1, HiddenKept DEF Bringing, Fresh, InMove
    <3>4. CASE ~Unlink(p)
      <4>1. Bringing(p)' => Bringing(p) /\ file'[p] = file[p]
        BY <2>3, <3>4 DEF Deed, Write, WriteError, Link, Parse, SendAccepted,
           SendRefused, ReplyLost, DeliveryError, DeleteError, Remove, Discard, Rewrite,
           Flush, FlushError, Crash, Leave, Goto, Bringing, Fresh, InMove, Inv, TypeInv, TypeOK
      <4> QED
        BY <2>1, <3>1, <3>2, <4>1, HiddenKept
    <3> QED
      BY <3>3, <3>4
  <2> QED
    BY <1>1, <2>2, <2>3, MovePlain, RunPlain DEF Step, MoveMessage, Deed
<1>2. ASSUME NEW p \in Apps, NEW x \in Msg, Submit(p, x)
      PROVE  HiddenInv'
  <2>1. /\ pc[p] = "idle" /\ body[x] = "none" /\ body' = [body EXCEPT ![x] = "partial"]
        /\ file' = [file EXCEPT ![p] = x] /\ pc' = [pc EXCEPT ![p] = "write"]
        /\ \A q \in Proc : q # p => job'[q] = job[q]
        /\ todo' = todo /\ p \in Proc
    BY <1>2 DEF Submit, Goto, queueVars, Inv, TypeInv, TypeOK, Proc
  <2>2. \A q \in Proc : file[q] # x /\ x \notin todo[q]
    BY <2>1 DEF HiddenInv
  <2>3. \A q \in Proc : q # p => file'[q] = file[q] /\ (Bringing(q)' => Bringing(q))
    BY <2>1 DEF Bringing, Fresh, InMove, Inv, TypeInv, TypeOK
  <2>4. file'[p] = x
    BY <2>1 DEF Inv, TypeInv, TypeOK
  <2>5. ASSUME NEW m \in Msg, NEW q \in Proc, body'[m] = "none"
        PROVE  file'[q] # m /\ m \notin todo'[q]
    <3>1. m # x /\ body[m] = "none"
      BY <2>1, <2>5 DEF Inv, TypeInv, TypeOK
    <3> QED
      BY <2>1, <2>3, <2>4, <3>1 DEF HiddenInv
  <2>6. ASSUME NEW q \in Proc, NEW r \in Proc, Bringing(q)'
        PROVE  file'[q] \notin todo'[r] /\ (r # q => file'[r] # file'[q])
    BY <2>1, <2>2, <2>3, <2>4, <2>6 DEF HiddenInv
  <2> QED
    BY <2>5, <2>6 DEF HiddenInv
<1>3. ASSUME NEW m \in Msg, Age(m) /\ UNCHANGED queueVars
      PROVE  HiddenInv'
  BY <1>3 DEF Age, procVars, queueVars, HiddenInv, Bringing, Fresh, InMove
<1>4. CASE UNCHANGED vars
  BY <1>4 DEF vars, dirVars, procVars, queueVars, HiddenInv, Bringing, Fresh, InMove
<1> QED
  BY <1>1, <1>2, <1>3, <1>4 DEF Next

-----------------------------------------------------------------------------
(* AppsUndisturbed                                                          *)

\* No step makes an application work like mq-run.
LEMMA AppJobStep ==
  ASSUME Inv, AppJobInv, [Next]_vars
  PROVE  AppJobInv'
<1> USE DEF Goto, AppJobInv, Inv, TypeInv, TypeOK, Proc, procVars
<1>1. ASSUME NEW p \in Proc, NEW l \in Left, Leave(p, l), p \in Apps => l \in {"idle", "raised"}
      PROVE  AppJobInv'
  BY <1>1 DEF Leave
<1>2. ASSUME NEW p \in Proc, ReturnNone(p)
      PROVE  AppJobInv'
  BY <1>1, <1>2 DEF ReturnNone, AfterNone, Resume, Left
<1>3. ASSUME NEW p \in Proc, MoveMessage(p) \/ Close(p)
      PROVE  AppJobInv'
  <2>1. CASE Unlink(p) /\ HasSrc(p)
    <3>1. pc'[p] \in {"close", "parse"}
      BY <2>1, SrcFact DEF Unlink, WorkInv, InMove
    <3> QED
      BY <2>1, <3>1 DEF Unlink
  <2>2. CASE Close(p)
    BY <2>2, <1>1 DEF Close, Resume, Left
  <2>3. CASE MoveMessage(p) /\ ~(Unlink(p) /\ HasSrc(p))
    BY <2>3, <1>2 DEF MoveMessage, LockStat, LockOpen, FlockTaken, FlockBusy, LockCheck,
       Link, LinkError, Unlink, UnlinkError
  <2> QED
    BY <1>3, <2>1, <2>2, <2>3
<1>4. ASSUME NEW p \in Proc,
             Unblock(p) \/ ListNew(p) \/ Get(p) \/ EndRun(p) \/ StartRun(p)
      PROVE  AppJobInv'
  BY <1>4, ProcAssumption DEF Unblock, ListNew, Get, EndRun, StartRun, StartMove
<1>5. ASSUME NEW p \in Proc,
             Write(p) \/ WriteError(p) \/ Rewrite(p) \/ Flush(p) \/ FlushError(p)
      PROVE  AppJobInv'
  BY <1>5 DEF Write, WriteError, Rewrite, Flush, FlushError
<1>6. ASSUME NEW p \in Proc,
             \/ Parse(p) \/ SendAccepted(p) \/ SendRefused(p) \/ ReplyLost(p)
             \/ DeliveryError(p) \/ DeleteError(p) \/ Remove(p) \/ Discard(p)
      PROVE  AppJobInv'
  BY <1>6 DEF Parse, SendAccepted, SendRefused, ReplyLost, DeliveryError, DeleteError,
     Remove, Discard
<1>7. ASSUME NEW p \in Proc, Unwind(p) \/ Crash(p)
      PROVE  AppJobInv'
  BY <1>7, <1>1 DEF Unwind, Crash, Left
<1>8. ASSUME NEW p \in Apps, NEW m \in Msg, Submit(p, m)
      PROVE  AppJobInv'
  BY <1>8 DEF Submit
<1>9. ASSUME NEW m \in Msg, Age(m)
      PROVE  AppJobInv'
  BY <1>9 DEF Age
<1>10. CASE UNCHANGED vars
  BY <1>10 DEF vars
<1> QED
  BY <1>3, <1>4, <1>5, <1>6, <1>7, <1>8, <1>9, <1>10 DEF Next, Step

\* No step takes a fault back.
LEMMA FaultsGrow ==
  ASSUME Inv, [Next]_vars
  PROVE  faults' \in {faults, faults + 1}
<1>1. ASSUME NEW p \in Proc, Deed(p)
      PROVE  faults' \in {faults, faults + 1}
  BY <1>1 DEF Deed, Write, WriteError, Link, Unlink, Parse, SendAccepted, SendRefused,
     ReplyLost, DeliveryError, DeleteError, Remove, Discard, Rewrite, Flush, FlushError,
     Crash, Inject
<1>2. ASSUME NEW p \in Apps, NEW m \in Msg, Submit(p, m)
      PROVE  faults' \in {faults, faults + 1}
  BY <1>2 DEF Submit
<1> QED
  BY <1>1, <1>2, PlainOrDeed DEF Plain, Idle

\* Why no application sees an exception without a fault.
AppInv ==
    /\ LockedInv /\ HiddenInv /\ AppJobInv
    /\ faults = 0 => WholeInv
    /\ AppsUndisturbed

\* Where a message of an application is when it has only been in tmp/.
LEMMA BringingFacts ==
  ASSUME Inv, AppInv, NEW p \in Apps, pc[p] \in {"stat", "open", "flock", "check"}
  PROVE  HasSrc(p) /\ (pc[p] = "flock" => lock[file[p]] = Nobody)
<1>1. p \in Proc /\ InMove(p) /\ job[p] \in Job
  BY DEF Proc, InMove, Inv, TypeInv, WorkInv
<1>2. job[p] \in {"enqueue", "submit"}
  BY <1>1 DEF AppInv, AppJobInv, Inv, IInv, PlaceInv, Job, Src
<1>3. Bringing(p) /\ at[file[p]] = {"tmp"} /\ file[p] \in Msg
  BY <1>1, <1>2, Typed DEF Bringing, Fresh, Inv, IInv, FreshInv, WithFile, Busy
<1>4. HasSrc(p)
  BY <1>2, <1>3 DEF HasSrc, Src
<1>5. ASSUME pc[p] = "flock", lock[file[p]] # Nobody PROVE FALSE
  <2>1. PICK q \in Proc : lock[file[p]] = q
    BY <1>3, <1>5 DEF Inv, TypeInv, TypeOK
  <2>2. file[q] = file[p] /\ (Holding(q) \/ pc[q] = "raised")
    BY <1>3, <2>1 DEF AppInv, LockedInv
  <2>3. q = p
    BY <1>1, <1>3, <2>2 DEF AppInv, HiddenInv
  <2> QED
    BY <1>5, <2>2, <2>3 DEF Holding
<1> QED
  BY <1>4, <1>5

\* Without a fault no step takes an application to an exception.
LEMMA AppRaised ==
  ASSUME Inv, AppInv, [Next]_vars, NEW p \in Apps, pc'[p] = "raised", pc[p] # "raised",
         faults = 0, faults' = 0
  PROVE  FALSE
<1> USE DEF Goto, dirVars, queueVars, history, procVars
<1>1. /\ pc \in [Proc -> Pc] /\ p \in Proc /\ p \notin Runners /\ WholeInv
  BY ProcAssumption DEF Inv, TypeInv, TypeOK, Proc, AppInv
<1>2. Step(p)
  <2>1. ASSUME NEW q \in Proc, Step(q) \/ StartRun(q) \/ Crash(q), q # p
        PROVE  FALSE
    <3>1. OnlyMoves(q)
      <4>1. CASE Plain(q)
        BY <4>1 DEF Plain
      <4>2. CASE Deed(q)
        BY <4>2 DEF Deed, OnlyMoves, Write, WriteError, Link, Unlink, Parse, SendAccepted,
           SendRefused, ReplyLost, DeliveryError, DeleteError, Remove, Discard, Rewrite,
           Flush, FlushError, Crash, Leave, ReturnNone, Inv, TypeInv, TypeOK
      <4> QED
        BY <2>1, <4>1, <4>2, MovePlain, RunPlain DEF Step, MoveMessage, Deed
    <3> QED
      BY <1>1, <2>1, <3>1 DEF OnlyMoves
  <2>2. ~StartRun(p) /\ ~Crash(p)
    BY <1>1 DEF StartRun, Crash, Inject, Leave
  <2>3. ASSUME NEW q \in Apps, NEW m \in Msg, Submit(q, m)
        PROVE  FALSE
    BY <1>1, <2>3 DEF Submit
  <2>4. ASSUME NEW m \in Msg, Age(m)
        PROVE  FALSE
    BY <2>4 DEF Age
  <2>5. CASE UNCHANGED vars
    BY <2>5 DEF vars
  <2> QED
    BY <2>1, <2>2, <2>3, <2>4, <2>5 DEF Next
<1>3. /\ ~WriteError(p) /\ ~FlushError(p) /\ ~DeliveryError(p)
      /\ ~DeleteError(p) /\ ~LinkError(p) /\ ~UnlinkError(p)
  BY DEF WriteError, FlushError, DeliveryError, DeleteError, LinkError, UnlinkError, Inject
<1>4. ~Unblock(p) /\ ~ListNew(p) /\ ~Get(p) /\ ~EndRun(p)
  BY DEF Unblock, ListNew, Get, EndRun, AppInv, AppJobInv
<1>5. ~LockStat(p) /\ ~LockOpen(p) /\ ~FlockBusy(p) /\ ~LockCheck(p)
  BY <1>1, BringingFacts DEF LockStat, LockOpen, FlockBusy, LockCheck
<1>6. ~FlockTaken(p) /\ ~Write(p) /\ ~SendAccepted(p) /\ ~SendRefused(p)
      /\ ~ReplyLost(p) /\ ~Remove(p) /\ ~Rewrite(p) /\ ~Flush(p)
  BY <1>1 DEF FlockTaken, Write, SendAccepted, SendRefused, ReplyLost, Remove, Rewrite, Flush
<1>7. ~Close(p) /\ ~Unwind(p)
  BY <1>1 DEF Close, Unwind, Leave, Resume
<1>8. ~Link(p)
  <2> SUFFICES ASSUME Link(p) PROVE FALSE
    OBVIOUS
  <2>1. pc[p] = "link" /\ job[p] \in {"enqueue", "submit", "back"}
    BY <1>1 DEF Link, AppInv, AppJobInv, Inv, TypeInv, WorkInv, InMove, Job, Src
  <2>2. CASE job[p] = "back"
    BY <1>1, <2>1, <2>2 DEF Link, ReturnNone, AfterNone, Resume, Leave
  <2>3. CASE job[p] # "back"
    <3>1. at[file[p]] = {"tmp"}
      BY <1>1, <2>1, <2>3 DEF Inv, IInv, FreshInv, Fresh, InMove
    <3>2. HasSrc(p) /\ ~HasDst(p)
      BY <2>1, <2>3, <3>1 DEF HasSrc, HasDst, Src, Dst
    <3> QED
      BY <1>1, <2>1, <3>2 DEF Link
  <2> QED
    BY <2>2, <2>3
<1>9. ~Unlink(p)
  <2> SUFFICES ASSUME Unlink(p) PROVE FALSE
    OBVIOUS
  <2>1. pc[p] = "unlink" /\ job[p] \in Job /\ HasSrc(p)
    BY <1>1 DEF Unlink, Inv, IInv, TypeInv, WorkInv, InMove, PlaceInv, HasSrc
  <2> QED
    BY <1>1, <2>1, SrcFact DEF Unlink
<1>10. ~Parse(p)
  <2> SUFFICES ASSUME Parse(p) PROVE FALSE
    OBVIOUS
  <2>1. /\ pc[p] = "parse" /\ body[file[p]] # "whole" /\ file[p] \in Msg
        /\ lock[file[p]] = p /\ Queued(file[p])
    BY <1>1, Typed DEF Parse, WithFile, Busy, Inv, IInv, LockInv, Holding, PlaceInv, Placed,
       Delivering, Queued
  <2> QED
    BY <1>1, <2>1 DEF WholeInv, Rewriting
<1>11. ~Discard(p)
  BY <1>1 DEF Discard, Inv, IInv, PlaceInv, Placed, Delivering
<1> QED
  BY <1>2, <1>3, <1>4, <1>5, <1>6, <1>7, <1>8, <1>9, <1>10, <1>11 DEF Step, MoveMessage

\* AppInv is inductive.
LEMMA AppStep ==
  ASSUME Inv, AppInv, [Next]_vars
  PROVE  AppInv'
<1>1. faults \in Nat /\ faults' \in {faults, faults + 1}
  BY FaultsGrow DEF Inv, TypeInv, TypeOK
<1>2. LockedInv' /\ HiddenInv' /\ AppJobInv'
  BY LockedStep, HiddenStep, AppJobStep DEF AppInv
<1>3. faults' = 0 => WholeInv'
  <2> SUFFICES ASSUME faults' = 0 PROVE WholeInv'
    OBVIOUS
  <2>1. \A p \in Proc : ~FlushError(p) /\ (Crash(p) => pc[p] # "flush")
    BY <1>1 DEF FlushError, Crash, Inject
  <2> QED
    BY <1>1, <2>1, WholeStep DEF AppInv
<1>4. ASSUME NEW p \in Apps, pc'[p] = "raised"
      PROVE  faults' > 0
  <2>1. CASE pc[p] = "raised"
    BY <1>1, <2>1 DEF AppInv, AppsUndisturbed
  <2>2. CASE pc[p] # "raised"
    BY <1>1, <1>4, <2>2, AppRaised
  <2> QED
    BY <2>1, <2>2
<1> QED
  BY <1>2, <1>3, <1>4 DEF AppInv, AppsUndisturbed

\* However many mq-run unblock, list, lock and move messages at the same time:
\* enqueue_message(), and the delivery of a message the application itself
\* holds in cur/, raise an exception only when something else went wrong.
THEOREM Undisturbed == Spec => []AppsUndisturbed
<1>1. Init => AppInv
  BY MsgAssumption, ProcAssumption
  DEF Init, MaildirInit, AppInv, LockedInv, HiddenInv, AppJobInv, WholeInv, AppsUndisturbed,
      Bringing, Fresh, InMove, Queued, Proc
<1>2. Inv /\ AppInv /\ [Next]_vars => AppInv'
  BY AppStep
<1>3. AppInv => AppsUndisturbed
  BY DEF AppInv
<1> QED
  BY <1>1, <1>2, <1>3, InvAlways, PTL DEF Spec
=============================================================================
