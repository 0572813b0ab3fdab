-------------------------- MODULE QueueRunnerProofs --------------------------
(***************************************************************************)
(* What TLAPS proves about QueueRunner, for any number of messages,        *)
(* applications, mq-run processes and faults.                              *)
(***************************************************************************)
EXTENDS QueueRunner, TLAPS

\* Every move_message() call goes from one of the three folders to new/ or cur/.
LEMMA SrcFact == \A j \in Job : Src[j] \in Folder /\ Dst[j] \in {"new", "cur"}
                                /\ AfterMove[j] \in {"close", "parse"}
  BY DEF Job, Src, Dst, AfterMove, Folder

-----------------------------------------------------------------------------
(* Type correctness.  It needs to know that a process in move_message() has *)
(* a message and knows its folders.                                         *)

TypeInv == TypeOK /\ WorkInv

\* The part of TypeInv about the processes and their locks.
ProcTyped == /\ lock \in [Msg -> Proc \cup {Nobody}]
             /\ pc \in [Proc -> Pc]
             /\ file \in [Proc -> Msg \cup {NoMsg}]
             /\ job \in [Proc -> Job \cup {"none"}]
             /\ tries \in [Proc -> 0 .. NrTries - 1]
             /\ WorkInv

\* Where a process goes when it leaves its message.
Left == {"idle", "raised", "unblock", "get"}

\* Letting go of a message keeps the types of the process variables.
LEMMA LeaveTyped ==
  ASSUME TypeInv, NEW p \in Proc, NEW l \in Left, Leave(p, l)
  PROVE  ProcTyped'
  BY DEF TypeInv, TypeOK, WorkInv, InMove, WithFile, Busy, Pc, Left, ProcTyped,
         Leave, Released, Goto, NrTries

\* A call that returned None lets go of its message.
LEMMA ReturnNoneLeaves ==
  ASSUME NEW p \in Proc, ReturnNone(p)
  PROVE  \E l \in Left : Leave(p, l)
  BY DEF ReturnNone, AfterNone, Resume, Left

\* ... and so keeps the types, too.
LEMMA ReturnNoneTyped ==
  ASSUME TypeInv, NEW p \in Proc, ReturnNone(p)
  PROVE  ProcTyped'
  BY LeaveTyped, ReturnNoneLeaves

\* The types hold in the initial state.
LEMMA TypeInit == Init => TypeInv
  BY ProcAssumption, FaultAssumption
  DEF Init, MaildirInit, TypeInv, TypeOK, WorkInv, InMove, WithFile, Busy, Pc,
      Body, Job, NrTries

\* Every step keeps the types.
LEMMA TypeStep == TypeInv /\ [Next]_vars => TypeInv'
<1> SUFFICES ASSUME TypeInv, [Next]_vars PROVE TypeInv'
  OBVIOUS
<1> USE DEF TypeInv, TypeOK, WorkInv, InMove, WithFile, Busy, Pc, Goto,
            ProcTyped, dirVars, procVars, queueVars, history
<1>1. ASSUME NEW p \in Proc, Write(p) PROVE TypeInv'
  BY <1>1 DEF Write, Body
<1>2. ASSUME NEW p \in Proc, LockStat(p) /\ UNCHANGED queueVars PROVE TypeInv'
  BY <1>2, ReturnNoneTyped DEF LockStat
<1>3. ASSUME NEW p \in Proc, LockOpen(p) /\ UNCHANGED queueVars PROVE TypeInv'
  BY <1>3 DEF LockOpen
<1>4. ASSUME NEW p \in Proc, FlockTaken(p) /\ UNCHANGED queueVars PROVE TypeInv'
  BY <1>4 DEF FlockTaken
<1>5. ASSUME NEW p \in Proc, FlockBusy(p) /\ UNCHANGED queueVars PROVE TypeInv'
  BY <1>5, ReturnNoneTyped DEF FlockBusy, NrTries
<1>6. ASSUME NEW p \in Proc, LockCheck(p) /\ UNCHANGED queueVars PROVE TypeInv'
  BY <1>6, ReturnNoneTyped DEF LockCheck
<1>7. ASSUME NEW p \in Proc, Link(p) /\ UNCHANGED queueVars PROVE TypeInv'
  <2>1. job[p] \in Job /\ file[p] \in Msg
    BY <1>7 DEF Link
  <2>2. CASE HasSrc(p) /\ ~HasDst(p)
    <3>1. Dst[job[p]] \in Folder /\ AfterMove[job[p]] \in {"close", "parse"}
      BY <2>1, SrcFact DEF Folder
    <3>2. at' \in [Msg -> SUBSET Folder]
      BY <1>7, <2>1, <2>2, <3>1, SrcFact DEF Link
    <3>3. ProcTyped'
      BY <1>7, <2>1, <2>2, <3>1 DEF Link
    <3>4. stored' \subseteq Msg /\ stale' \in [Msg -> BOOLEAN]
      BY <1>7, <2>1, <2>2 DEF Link
    <3>5. QED
      BY <1>7, <3>2, <3>3, <3>4 DEF Link
  <2>3. CASE ~(HasSrc(p) /\ ~HasDst(p))
    BY <1>7, <2>3, ReturnNoneTyped DEF Link
  <2>4. QED
    BY <2>2, <2>3
<1>8. ASSUME NEW p \in Proc, LinkError(p) /\ UNCHANGED queueVars PROVE TypeInv'
  BY <1>8, ReturnNoneTyped, FaultAssumption DEF LinkError, Inject
<1>8b. ASSUME NEW p \in Proc, UnlinkError(p) /\ UNCHANGED queueVars PROVE TypeInv'
  BY <1>8b, ReturnNoneTyped, FaultAssumption DEF UnlinkError, Inject
<1>9. ASSUME NEW p \in Proc, Unlink(p) /\ UNCHANGED queueVars PROVE TypeInv'
  <2>1. job[p] \in Job /\ file[p] \in Msg
    BY <1>9 DEF Unlink
  <2>2. CASE HasSrc(p)
    <3>1. Dst[job[p]] \in Folder /\ AfterMove[job[p]] \in {"close", "parse"}
      BY <2>1, SrcFact DEF Folder
    <3>2. at' \in [Msg -> SUBSET Folder]
      BY <1>9, <2>1, <2>2, <3>1, SrcFact DEF Unlink
    <3>3. ProcTyped'
      BY <1>9, <2>1, <2>2, <3>1 DEF Unlink
    <3>4. stored' \subseteq Msg /\ stale' \in [Msg -> BOOLEAN]
      BY <1>9, <2>1, <2>2 DEF Unlink
    <3>5. QED
      BY <1>9, <3>2, <3>3, <3>4 DEF Unlink
  <2>3. CASE ~(HasSrc(p))
    BY <1>9, <2>3, ReturnNoneTyped DEF Unlink
  <2>4. QED
    BY <2>2, <2>3
<1>10. ASSUME NEW p \in Proc, Close(p) /\ UNCHANGED queueVars PROVE TypeInv'
  BY <1>10, LeaveTyped DEF Close, Resume, Left
<1>11. ASSUME NEW p \in Proc, Unblock(p) PROVE TypeInv'
  BY <1>11 DEF Unblock, StartMove, Job, Src
<1>12. ASSUME NEW p \in Proc, ListNew(p) PROVE TypeInv'
  BY <1>12 DEF ListNew, InFolder
<1>13. ASSUME NEW p \in Proc, Get(p) PROVE TypeInv'
  BY <1>13 DEF Get, StartMove, Job, Src
<1>14. ASSUME NEW p \in Proc, EndRun(p) PROVE TypeInv'
  BY <1>14 DEF EndRun
<1>15. ASSUME NEW p \in Proc, Parse(p) PROVE TypeInv'
  BY <1>15 DEF Parse
<1>16. ASSUME NEW p \in Proc, SendAccepted(p) PROVE TypeInv'
  BY <1>16 DEF SendAccepted
<1>17. ASSUME NEW p \in Proc, SendRefused(p) PROVE TypeInv'
  BY <1>17 DEF SendRefused
<1>18. ASSUME NEW p \in Proc, ReplyLost(p) PROVE TypeInv'
  BY <1>18, FaultAssumption DEF ReplyLost, Inject
<1>19. ASSUME NEW p \in Proc, Remove(p) PROVE TypeInv'
  BY <1>19 DEF Remove
<1>20. ASSUME NEW p \in Proc, Discard(p) PROVE TypeInv'
  BY <1>20 DEF Discard
<1>21. ASSUME NEW p \in Proc, Rewrite(p) PROVE TypeInv'
  BY <1>21 DEF Rewrite, Job, Src, Body
<1>22. ASSUME NEW p \in Proc, Flush(p) PROVE TypeInv'
  BY <1>22 DEF Flush, Job, Src, Body
<1>23. ASSUME NEW p \in Proc, WriteError(p) PROVE TypeInv'
  BY <1>23, FaultAssumption DEF WriteError, Inject
<1>24. ASSUME NEW p \in Proc, FlushError(p) PROVE TypeInv'
  BY <1>24, FaultAssumption DEF FlushError, Inject, Body
<1>25. ASSUME NEW p \in Proc, DeliveryError(p) PROVE TypeInv'
  BY <1>25, FaultAssumption DEF DeliveryError, Inject
<1>25b. ASSUME NEW p \in Proc, DeleteError(p) PROVE TypeInv'
  BY <1>25b, FaultAssumption DEF DeleteError, Inject
<1>26. ASSUME NEW p \in Proc, Unwind(p) PROVE TypeInv'
  BY <1>26, LeaveTyped DEF Unwind, Left
<1>27. ASSUME NEW p \in Proc, StartRun(p) PROVE TypeInv'
  BY <1>27 DEF StartRun, InFolder
<1>28. ASSUME NEW p \in Proc, Crash(p) PROVE TypeInv'
  BY <1>28, LeaveTyped, FaultAssumption DEF Crash, Inject, Body, Left
<1>29. ASSUME NEW p \in Proc, NEW m \in Msg, Submit(p, m) PROVE TypeInv'
  BY <1>29 DEF Submit, Body, Folder, Job, Src
<1>30. ASSUME NEW m \in Msg, Age(m) /\ UNCHANGED queueVars PROVE TypeInv'
  BY <1>30 DEF Age
<1>31. CASE UNCHANGED vars
  BY <1>31 DEF vars
<1>32. QED
  BY <1>1, <1>2, <1>3, <1>4, <1>5, <1>6, <1>7, <1>8, <1>8b, <1>9, <1>10, <1>11,
     <1>12, <1>13, <1>14, <1>15, <1>16, <1>17, <1>18, <1>19, <1>20, <1>21,
     <1>22, <1>23, <1>24, <1>25, <1>25b, <1>26, <1>27, <1>28, <1>29, <1>30, <1>31
  DEF Next, Step, MoveMessage, Proc

\* Every variable keeps its type, for any number of processes and messages.
THEOREM TypeCorrect == Spec => []TypeOK
<1>1. Spec => []TypeInv
  BY TypeInit, TypeStep, PTL DEF Spec
<1>2. TypeInv => TypeOK
  BY DEF TypeInv
<1>3. QED
  BY <1>1, <1>2, PTL

-----------------------------------------------------------------------------
(* The lock: whoever has passed flock() holds it until close().             *)

\* Letting go of a message releases no lock of another process.
LEMMA LeaveLock ==
  ASSUME TypeInv, LockInv, NEW p \in Proc, NEW l \in Left, Leave(p, l)
  PROVE  LockInv'
<1> SUFFICES ASSUME NEW q \in Proc, Holding(q)' PROVE lock'[file'[q]] = q
  BY DEF LockInv
<1>1. q # p
  BY DEF Leave, Goto, Left, Holding, TypeInv, TypeOK
<1>2. Holding(q) /\ file'[q] = file[q]
  BY <1>1 DEF Leave, Goto, Holding, TypeInv, TypeOK
<1>3. lock[file[q]] = q /\ file[q] \in Msg
  BY <1>2 DEF LockInv, TypeInv, WorkInv, WithFile, Holding, Busy
<1>4. QED
  BY <1>1, <1>2, <1>3 DEF Leave, Released

\* Neither does a move_message() that returns None.
LEMMA ReturnNoneLock ==
  ASSUME TypeInv, LockInv, NEW p \in Proc, ReturnNone(p)
  PROVE  LockInv'
  BY LeaveLock, ReturnNoneLeaves

\* No process starts with a lock to hold.
LEMMA LockInit == Init => LockInv
  BY DEF Init, MaildirInit, LockInv, Holding

\* A process beyond flock() keeps its lock, whatever the others do.
LEMMA LockStep == TypeInv /\ LockInv /\ [Next]_vars => LockInv'
<1> SUFFICES ASSUME TypeInv, LockInv, [Next]_vars PROVE LockInv'
  OBVIOUS
<1> USE DEF Goto, procVars
<1>1. ASSUME NEW p \in Proc, Write(p) PROVE LockInv'
  BY <1>1 DEF Write, LockInv, Holding, TypeInv, TypeOK
<1>2. ASSUME NEW p \in Proc, LockStat(p) /\ UNCHANGED queueVars PROVE LockInv'
  BY <1>2, ReturnNoneLock DEF LockStat, LockInv, Holding, TypeInv, TypeOK
<1>3. ASSUME NEW p \in Proc, LockOpen(p) /\ UNCHANGED queueVars PROVE LockInv'
  BY <1>3 DEF LockOpen, LockInv, Holding, TypeInv, TypeOK
<1>4. ASSUME NEW p \in Proc, FlockTaken(p) /\ UNCHANGED queueVars PROVE LockInv'
  BY <1>4, ProcAssumption DEF FlockTaken, LockInv, Holding, TypeInv, TypeOK,
     WorkInv, WithFile, Busy
<1>5. ASSUME NEW p \in Proc, FlockBusy(p) /\ UNCHANGED queueVars PROVE LockInv'
  BY <1>5, ReturnNoneLock DEF FlockBusy, LockInv, Holding, TypeInv, TypeOK
<1>6. ASSUME NEW p \in Proc, LockCheck(p) /\ UNCHANGED queueVars PROVE LockInv'
  BY <1>6, ReturnNoneLock DEF LockCheck, LockInv, Holding, TypeInv, TypeOK
<1>7. ASSUME NEW p \in Proc, Link(p) /\ UNCHANGED queueVars PROVE LockInv'
  BY <1>7, ReturnNoneLock DEF Link, LockInv, Holding, TypeInv, TypeOK
<1>8. ASSUME NEW p \in Proc, LinkError(p) /\ UNCHANGED queueVars PROVE LockInv'
  BY <1>8, ReturnNoneLock DEF LinkError, LockInv, Holding, TypeInv, TypeOK
<1>8b. ASSUME NEW p \in Proc, UnlinkError(p) /\ UNCHANGED queueVars PROVE LockInv'
  BY <1>8b, ReturnNoneLock DEF UnlinkError, LockInv, Holding, TypeInv, TypeOK
<1>9. ASSUME NEW p \in Proc, Unlink(p) /\ UNCHANGED queueVars PROVE LockInv'
  BY <1>9, ReturnNoneLock DEF Unlink, LockInv, Holding, TypeInv, TypeOK
<1>10. ASSUME NEW p \in Proc, Close(p) /\ UNCHANGED queueVars PROVE LockInv'
  BY <1>10, LeaveLock DEF Close, Left, Resume
<1>11. ASSUME NEW p \in Proc, Unblock(p) PROVE LockInv'
  BY <1>11 DEF Unblock, LockInv, Holding, TypeInv, TypeOK, StartMove
<1>12. ASSUME NEW p \in Proc, ListNew(p) PROVE LockInv'
  BY <1>12 DEF ListNew, LockInv, Holding, TypeInv, TypeOK
<1>13. ASSUME NEW p \in Proc, Get(p) PROVE LockInv'
  BY <1>13 DEF Get, LockInv, Holding, TypeInv, TypeOK, StartMove
<1>14. ASSUME NEW p \in Proc, EndRun(p) PROVE LockInv'
  BY <1>14 DEF EndRun, LockInv, Holding, TypeInv, TypeOK
<1>15. ASSUME NEW p \in Proc, Parse(p) PROVE LockInv'
  BY <1>15 DEF Parse, LockInv, Holding, TypeInv, TypeOK
<1>16. ASSUME NEW p \in Proc, SendAccepted(p) PROVE LockInv'
  BY <1>16 DEF SendAccepted, LockInv, Holding, TypeInv, TypeOK
<1>17. ASSUME NEW p \in Proc, SendRefused(p) PROVE LockInv'
  BY <1>17 DEF SendRefused, LockInv, Holding, TypeInv, TypeOK
<1>18. ASSUME NEW p \in Proc, ReplyLost(p) PROVE LockInv'
  BY <1>18 DEF ReplyLost, LockInv, Holding, TypeInv, TypeOK
<1>19. ASSUME NEW p \in Proc, Remove(p) PROVE LockInv'
  BY <1>19 DEF Remove, LockInv, Holding, TypeInv, TypeOK
<1>20. ASSUME NEW p \in Proc, Discard(p) PROVE LockInv'
  BY <1>20 DEF Discard, LockInv, Holding, TypeInv, TypeOK
<1>21. ASSUME NEW p \in Proc, Rewrite(p) PROVE LockInv'
  BY <1>21 DEF Rewrite, LockInv, Holding, TypeInv, TypeOK
<1>22. ASSUME NEW p \in Proc, Flush(p) PROVE LockInv'
  BY <1>22 DEF Flush, LockInv, Holding, TypeInv, TypeOK
<1>23. ASSUME NEW p \in Proc, WriteError(p) PROVE LockInv'
  BY <1>23 DEF WriteError, LockInv, Holding, TypeInv, TypeOK
<1>24. ASSUME NEW p \in Proc, FlushError(p) PROVE LockInv'
  BY <1>24 DEF FlushError, LockInv, Holding, TypeInv, TypeOK
<1>25. ASSUME NEW p \in Proc, DeliveryError(p) PROVE LockInv'
  BY <1>25 DEF DeliveryError, LockInv, Holding, TypeInv, TypeOK
<1>25b. ASSUME NEW p \in Proc, DeleteError(p) PROVE LockInv'
  BY <1>25b DEF DeleteError, LockInv, Holding, TypeInv, TypeOK
<1>26. ASSUME NEW p \in Proc, Unwind(p) PROVE LockInv'
  BY <1>26, LeaveLock DEF Unwind, Left
<1>27. ASSUME NEW p \in Proc, StartRun(p) PROVE LockInv'
  BY <1>27 DEF StartRun, LockInv, Holding, TypeInv, TypeOK
<1>28. ASSUME NEW p \in Proc, Crash(p) PROVE LockInv'
  BY <1>28, LeaveLock DEF Crash, Left
<1>29. ASSUME NEW p \in Proc, NEW m \in Msg, Submit(p, m) PROVE LockInv'
  BY <1>29 DEF Submit, LockInv, Holding, TypeInv, TypeOK
<1>30. ASSUME NEW m \in Msg, Age(m) /\ UNCHANGED queueVars PROVE LockInv'
  BY <1>30 DEF Age, LockInv, Holding
<1>31. CASE UNCHANGED vars
  BY <1>31 DEF vars, LockInv, Holding
<1>32. QED
  BY <1>1, <1>2, <1>3, <1>4, <1>5, <1>6, <1>7, <1>8, <1>8b, <1>9, <1>10, <1>11,
     <1>12, <1>13, <1>14, <1>15, <1>16, <1>17, <1>18, <1>19, <1>20, <1>21,
     <1>22, <1>23, <1>24, <1>25, <1>25b, <1>26, <1>27, <1>28, <1>29, <1>30, <1>31
  DEF Next, Step, MoveMessage, Proc

\* Two processes never work on the delivery of the same message, however many
\* mq-run overlap and whoever crashes (lock_file(), move_message()).
THEOREM Exclusive == Spec => []ExclusiveDelivery
<1>1. Spec => [](TypeInv /\ LockInv)
  BY TypeInit, TypeStep, LockInit, LockStep, PTL DEF Spec
<1>2. LockInv => ExclusiveDelivery
  BY DEF LockInv, ExclusiveDelivery, Delivering, Holding
<1>3. QED
  BY <1>1, <1>2, PTL
=============================================================================
