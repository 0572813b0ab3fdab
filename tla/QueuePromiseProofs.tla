------------------------- MODULE QueuePromiseProofs -------------------------
(***************************************************************************)
(* TLAPS proofs that QueueRunner loses no message, delivers none twice     *)
(* without a fault, and implements DeliveryQueue.                          *)
(*                                                                         *)
(* The argument: most steps are calm, they move a process along but change *)
(* nothing the invariant is about.  What is left are the steps that touch  *)
(* the queue, each made by a process that is alone with its message.       *)
(***************************************************************************)
EXTENDS QueueRunnerProofs

Inv == TypeInv /\ IInv

-----------------------------------------------------------------------------
(* Being alone with a message.                                              *)

\* p is at a step that changes where its file is, or whether it is settled.
Acting(p) == Placed(p) \/ pc[p] = "unlink" \/ (pc[p] = "link" /\ HasSrc(p))

\* A process that moves a message out of tmp/ is the one that wrote it.
LEMMA FreshSource ==
  ASSUME Inv, NEW p \in Proc, InMove(p), Src[job[p]] = "tmp"
  PROVE  Fresh(p)
  BY DEF Inv, TypeInv, WorkInv, Fresh, Job, Src

\* While a process acts on a message nobody else holds or enqueues it.
LEMMA ActingAlone ==
  ASSUME Inv, NEW p \in Proc, NEW q \in Proc, Acting(p), q # p,
         file[q] = file[p]
  PROVE  ~Holding(q) /\ ~Fresh(q)
<1>1. Holding(p)
  BY DEF Acting, Placed, Delivering, Holding
<1>2. ~Holding(q)
  BY <1>1 DEF Inv, IInv, LockInv
<1>3. ASSUME Fresh(q) PROVE FALSE
  <2>1. at[file[p]] = {"tmp"}
    BY <1>2, <1>3 DEF Inv, IInv, FreshInv, Holding
  <2>2. ~Fresh(p)
    BY <1>3 DEF Inv, IInv, FreshInv
  <2>3. CASE Placed(p)
    BY <2>1, <2>3 DEF Inv, IInv, PlaceInv
  <2>4. CASE pc[p] = "unlink"
    <3>1. job[p] \in Job
      BY <2>4 DEF Inv, TypeInv, WorkInv, InMove
    <3>2. Dst[job[p]] \in {"new", "cur"} /\ Dst[job[p]] \in at[file[p]]
      BY <2>4, <3>1, SrcFact DEF Inv, IInv, PlaceInv
    <3>3. QED
      BY <2>1, <3>2
  <2>5. CASE pc[p] = "link" /\ HasSrc(p)
    BY <2>1, <2>2, <2>5, FreshSource DEF HasSrc, InMove
  <2>6. QED
    BY <2>3, <2>4, <2>5 DEF Acting
<1>4. QED
  BY <1>2, <1>3

-----------------------------------------------------------------------------
(* Calm steps.                                                              *)

\* Nobody but p moves.
OnlyMoves(p) == \A q \in Proc : q # p => /\ pc'[q] = pc[q]
                                         /\ file'[q] = file[q]
                                         /\ job'[q] = job[q]

\* No message changes its place or is settled, and p gets no nearer to it.
Calm(p) ==
    /\ UNCHANGED <<at, sent, discarded, stored>>
    /\ faults' \in {faults, faults + 1}
    /\ \A m \in Msg : body'[m] = "none" <=> body[m] = "none"
    /\ OnlyMoves(p)
    /\ pc'[p] \notin {"unlink", "sent", "write"}
    /\ Placed(p)' => Placed(p) /\ file'[p] = file[p]
    /\ Fresh(p)' => Fresh(p) /\ file'[p] = file[p] /\ pc[p] # "unlink"
    /\ job'[p] = "back" => pc'[p] \in {"link", "unlink", "close"}
    /\ pc[p] = "sent" => faults' = faults + 1

Safe == PlaceInv /\ FreshInv /\ UnusedInv /\ SettledInv /\ NeverLost

\* A step that changes nothing of the queue keeps the invariant.
LEMMA CalmSafe ==
  ASSUME Inv, NEW p \in Proc, Calm(p), TypeInv'
  PROVE  Safe'
<1> USE DEF Calm, OnlyMoves
<1>1. PlaceInv'
  BY DEF Inv, IInv, PlaceInv, Placed, Delivering, Fresh, InMove
<1>2. \A m \in Msg : Settled(m)' = Settled(m)
  BY DEF Settled
<1>3. FreshInv'
  <2> SUFFICES ASSUME NEW q \in Proc, Fresh(q)'
               PROVE /\ body'[file'[q]] # "none"
                     /\ Settled(file[q])' = 0
                     /\ at'[file'[q]] = {"tmp"} \cup
                           (IF pc'[q] = "unlink" THEN {Dst[job'[q]]} ELSE {})
                     /\ \A r \in Proc : Fresh(r)' /\ file'[r] = file'[q] => r = q
    BY DEF FreshInv
  <2>1. \A r \in Proc : Fresh(r)' => Fresh(r) /\ file'[r] = file[r]
    BY DEF Fresh, InMove
  <2>2. file[q] \in Msg
    BY <2>1 DEF Inv, TypeInv, WorkInv, WithFile, Fresh, InMove, Busy
  <2>3. CASE q = p
    BY <1>2, <2>1, <2>2, <2>3 DEF Inv, IInv, FreshInv
  <2>4. CASE q # p
    BY <1>2, <2>1, <2>2, <2>4 DEF Inv, IInv, FreshInv
  <2>5. QED
    BY <2>3, <2>4
<1>4. UnusedInv'
  BY <1>2 DEF Inv, IInv, UnusedInv
<1>5. SettledInv'
  <2> SUFFICES ASSUME NEW m \in Msg
               PROVE \/ Settled(m)' <= faults'
                     \/ /\ Settled(m)' = faults' + 1
                        /\ \/ ~Queued(m)'
                           \/ \E q \in Proc : pc'[q] = "sent" /\ file'[q] = m
    BY DEF SettledInv
  <2>1. Settled(m)' = Settled(m) /\ Settled(m) \in Nat /\ faults \in Nat
    BY <1>2 DEF Settled, Inv, TypeInv, TypeOK
  <2>2. Queued(m)' = Queued(m)
    BY DEF Queued
  <2>3. CASE Settled(m) <= faults \/ faults' = faults + 1
    BY <2>1, <2>2, <2>3 DEF Inv, IInv, SettledInv
  <2>4. CASE Settled(m) = faults + 1 /\ faults' = faults
    BY <2>1, <2>2, <2>4 DEF Inv, IInv, SettledInv
  <2>5. QED
    BY <2>1, <2>3, <2>4 DEF Inv, IInv, SettledInv
<1>6. NeverLost'
  BY DEF Inv, IInv, NeverLost, Queued
<1>7. QED
  BY <1>1, <1>3, <1>4, <1>5, <1>6 DEF Safe

\* Leaving a message is calm, unless the server has just taken it.
LEMMA LeaveCalm ==
  ASSUME Inv, NEW p \in Proc, NEW l \in Left, Leave(p, l),
         UNCHANGED <<at, sent, discarded, stored>>,
         faults' \in {faults, faults + 1},
         \A m \in Msg : body'[m] = "none" <=> body[m] = "none",
         pc[p] = "sent" => faults' = faults + 1
  PROVE  Calm(p)
  BY DEF Leave, Goto, Left, Calm, OnlyMoves, Placed, Delivering, Fresh, InMove,
         Inv, TypeInv, TypeOK

\* A move_message() that returns None changes nothing of the queue.
LEMMA ReturnNoneCalm ==
  ASSUME Inv, NEW p \in Proc, ReturnNone(p), pc[p] # "sent",
         UNCHANGED <<at, body, sent, discarded, stored>>,
         faults' \in {faults, faults + 1}
  PROVE  Calm(p)
  BY LeaveCalm, ReturnNoneLeaves

\* All steps but Submit and those that touch the queue are calm.
LEMMA StepCalm ==
  ASSUME Inv, NEW p \in Proc
  PROVE  /\ Write(p) => Calm(p)
         /\ LockStat(p) /\ UNCHANGED queueVars => Calm(p)
         /\ LockOpen(p) /\ UNCHANGED queueVars => Calm(p)
         /\ FlockTaken(p) /\ UNCHANGED queueVars => Calm(p)
         /\ FlockBusy(p) /\ UNCHANGED queueVars => Calm(p)
         /\ LockCheck(p) /\ UNCHANGED queueVars => Calm(p)
         /\ Link(p) /\ UNCHANGED queueVars /\ ~(HasSrc(p) /\ ~HasDst(p)) => Calm(p)
         /\ LinkError(p) /\ UNCHANGED queueVars => Calm(p)
         /\ UnlinkError(p) /\ UNCHANGED queueVars => Calm(p)
         /\ Unlink(p) /\ UNCHANGED queueVars /\ ~HasSrc(p) => Calm(p)
         /\ Close(p) /\ UNCHANGED queueVars => Calm(p)
         /\ Unblock(p) => Calm(p)
         /\ ListNew(p) => Calm(p)
         /\ Get(p) => Calm(p)
         /\ EndRun(p) => Calm(p)
         /\ Parse(p) => Calm(p)
         /\ SendRefused(p) => Calm(p)
         /\ Discard(p) /\ "cur" \notin at[file[p]] => Calm(p)
         /\ Rewrite(p) => Calm(p)
         /\ Flush(p) => Calm(p)
         /\ FlushError(p) => Calm(p)
         /\ DeliveryError(p) => Calm(p)
         /\ DeleteError(p) => Calm(p)
         /\ Unwind(p) => Calm(p)
         /\ StartRun(p) => Calm(p)
         /\ Crash(p) => Calm(p)
<1> USE DEF Inv, TypeInv, TypeOK, Calm, OnlyMoves, Placed, Delivering, Fresh,
            InMove, Goto, dirVars, procVars, queueVars, history
<1>a. job[p] = "back" => pc[p] \in {"link", "unlink", "close"}
  BY DEF IInv, PlaceInv
<1>b. pc[p] \in {"write", "flush"} => file[p] \in Msg /\ body[file[p]] # "none"
  BY DEF IInv, PlaceInv, FreshInv, UnusedInv, WorkInv, WithFile, Busy
<1>1. ASSUME Write(p) PROVE Calm(p)
  <2>1. \A m \in Msg : body'[m] = "none" <=> body[m] = "none"
    BY <1>1, <1>b DEF Write
  <2>2. QED
    BY <1>a, <1>1, <2>1 DEF Write, Inject
<1>2. ASSUME LockStat(p) /\ UNCHANGED queueVars PROVE Calm(p)
  BY <1>a, <1>2, ReturnNoneCalm DEF LockStat
<1>3. ASSUME LockOpen(p) /\ UNCHANGED queueVars PROVE Calm(p)
  BY <1>a, <1>3 DEF LockOpen
<1>4. ASSUME FlockTaken(p) /\ UNCHANGED queueVars PROVE Calm(p)
  BY <1>a, <1>4 DEF FlockTaken
<1>5. ASSUME FlockBusy(p) /\ UNCHANGED queueVars PROVE Calm(p)
  BY <1>a, <1>5, ReturnNoneCalm DEF FlockBusy
<1>6. ASSUME LockCheck(p) /\ UNCHANGED queueVars PROVE Calm(p)
  <2>1. CASE HasSrc(p)
    BY <1>a, <1>6, <2>1 DEF LockCheck
  <2>2. CASE ~HasSrc(p)
    BY <1>6, <2>2, ReturnNoneCalm DEF LockCheck
  <2>3. QED
    BY <2>1, <2>2
<1>7. ASSUME Link(p) /\ UNCHANGED queueVars /\ ~(HasSrc(p) /\ ~HasDst(p)) PROVE Calm(p)
  BY <1>a, <1>7, ReturnNoneCalm DEF Link
<1>8. ASSUME LinkError(p) /\ UNCHANGED queueVars PROVE Calm(p)
  BY <1>a, <1>8, ReturnNoneCalm DEF LinkError, Inject
<1>26. ASSUME UnlinkError(p) /\ UNCHANGED queueVars PROVE Calm(p)
  BY <1>a, <1>26, ReturnNoneCalm DEF UnlinkError, Inject
<1>9. ASSUME Unlink(p) /\ UNCHANGED queueVars /\ ~HasSrc(p) PROVE Calm(p)
  BY <1>a, <1>9, ReturnNoneCalm DEF Unlink
<1>10. ASSUME Close(p) /\ UNCHANGED queueVars PROVE Calm(p)
  BY <1>a, <1>10, LeaveCalm DEF Close, Resume, Left
<1>11. ASSUME Unblock(p) PROVE Calm(p)
  BY <1>a, <1>11 DEF Unblock, StartMove
<1>12. ASSUME ListNew(p) PROVE Calm(p)
  BY <1>a, <1>12 DEF ListNew
<1>13. ASSUME Get(p) PROVE Calm(p)
  BY <1>a, <1>13 DEF Get, StartMove
<1>14. ASSUME EndRun(p) PROVE Calm(p)
  BY <1>a, <1>14 DEF EndRun
<1>15. ASSUME Parse(p) PROVE Calm(p)
  BY <1>a, <1>15 DEF Parse
<1>16. ASSUME SendRefused(p) PROVE Calm(p)
  BY <1>a, <1>16 DEF SendRefused
<1>17. ASSUME Discard(p) /\ "cur" \notin at[file[p]] PROVE Calm(p)
  BY <1>a, <1>17 DEF Discard
<1>18. ASSUME Rewrite(p) PROVE Calm(p)
  BY <1>a, <1>18 DEF Rewrite, WorkInv, WithFile, Busy
<1>19. ASSUME Flush(p) PROVE Calm(p)
  BY <1>a, <1>19 DEF Flush, WorkInv, WithFile, Busy
<1>20. ASSUME FlushError(p) PROVE Calm(p)
  <2>1. \A m \in Msg : body'[m] = "none" <=> body[m] = "none"
    BY <1>20, <1>b DEF FlushError
  <2>2. QED
    BY <1>a, <1>20, <2>1 DEF FlushError, Inject
<1>21. ASSUME DeliveryError(p) PROVE Calm(p)
  BY <1>a, <1>21 DEF DeliveryError, Inject
<1>27. ASSUME DeleteError(p) PROVE Calm(p)
  BY <1>a, <1>27 DEF DeleteError, Inject
<1>22. ASSUME Unwind(p) PROVE Calm(p)
  BY <1>a, <1>22, LeaveCalm DEF Unwind, Left
<1>23. ASSUME StartRun(p) PROVE Calm(p)
  BY <1>a, <1>23 DEF StartRun
<1>24. ASSUME Crash(p) PROVE Calm(p)
  <2>1. \A m \in Msg : body'[m] = "none" <=> body[m] = "none"
    BY <1>24, <1>b DEF Crash
  <2>2. QED
    BY <1>a, <1>24, <2>1, LeaveCalm DEF Crash, Inject, Left
<1>25. QED
  BY <1>1, <1>2, <1>3, <1>4, <1>5, <1>6, <1>7, <1>8, <1>9, <1>10, <1>11,
     <1>12, <1>13, <1>14, <1>15, <1>16, <1>17, <1>18, <1>19, <1>20, <1>21,
     <1>22, <1>23, <1>24, <1>26, <1>27
-----------------------------------------------------------------------------
(* The steps that are not calm.                                             *)

\* The types the arithmetic below needs.
LEMMA Typed ==
  ASSUME Inv
  PROVE  /\ \A m \in Msg : Settled(m) \in Nat
         /\ faults \in Nat
         /\ \A p \in Proc : WithFile(p) => file[p] \in Msg
         /\ \A p \in Proc : InMove(p) => job[p] \in Job /\ Dst[job[p]] \in {"new", "cur"}
  BY SrcFact DEF Inv, TypeInv, TypeOK, WorkInv, Settled

\* No process but p is at a step where the invariant says something about m.
Apart(p, m) ==
    \A q \in Proc : q # p /\ file[q] = m =>
        ~Placed(q) /\ pc[q] \notin {"unlink", "sent", "write"} /\ ~Fresh(q)

\* A process that acts on a message is alone with it.
LEMMA ActingApart ==
  ASSUME Inv, NEW p \in Proc, Acting(p)
  PROVE  Apart(p, file[p])
  BY ActingAlone
  DEF Apart, Placed, Delivering, Holding, Inv, IInv, PlaceInv, Fresh, InMove

\* A new file belongs to one process, and has no past.
LEMMA WriteApart ==
  ASSUME Inv, NEW p \in Proc, pc[p] = "write"
  PROVE  Apart(p, file[p])
<1>1. Fresh(p) /\ at[file[p]] = {"tmp"}
  BY DEF Inv, IInv, PlaceInv, FreshInv
<1>2. SUFFICES ASSUME NEW q \in Proc, q # p, file[q] = file[p]
               PROVE ~Placed(q) /\ pc[q] \notin {"unlink", "sent", "write"} /\ ~Fresh(q)
  BY DEF Apart
<1>3. ~Fresh(q) /\ ~Placed(q)
  BY <1>1, <1>2 DEF Inv, IInv, FreshInv, PlaceInv
<1>4. pc[q] # "unlink"
  BY <1>1, <1>2, Typed DEF Inv, IInv, PlaceInv, InMove
<1>5. QED
  BY <1>3, <1>4 DEF Placed, Delivering, Inv, IInv, PlaceInv

\* Nobody works on a message that does not exist.
LEMMA UnusedApart ==
  ASSUME Inv, NEW p \in Proc, NEW m \in Msg, body[m] = "none"
  PROVE  Apart(p, m)
<1>1. at[m] = {}
  BY DEF Inv, IInv, UnusedInv
<1>2. SUFFICES ASSUME NEW q \in Proc, file[q] = m
               PROVE ~Placed(q) /\ pc[q] \notin {"unlink", "sent", "write"} /\ ~Fresh(q)
  BY DEF Apart
<1>3. QED
  BY <1>1, <1>2 DEF Inv, IInv, PlaceInv, FreshInv, Placed, Delivering

\* Nothing happens to any other message than m.
OnlyTouches(m) ==
    \A x \in Msg \ {m} :
        /\ at'[x] = at[x] /\ body'[x] = body[x] /\ sent'[x] = sent[x]
        /\ x \in discarded' <=> x \in discarded
        /\ x \in stored' <=> x \in stored

\* What p must have done to its message m.
Sound(p, m) ==
    /\ body'[m] # "none"
    /\ Placed(p)' => "cur" \in at'[m] /\ "new" \notin at'[m]
    /\ pc'[p] = "unlink" => {Src[job'[p]], Dst[job'[p]]} \subseteq at'[m]
    /\ pc'[p] = "sent" => sent'[m] > 0
    /\ job'[p] = "back" => pc'[p] \in {"link", "unlink", "close"}
    /\ pc'[p] = "write" => Fresh(p)'
    /\ Fresh(p)' => /\ Settled(m)' = 0
                    /\ at'[m] = {"tmp"} \cup
                         (IF pc'[p] = "unlink" THEN {Dst[job'[p]]} ELSE {})
    /\ \/ Settled(m)' <= faults'
       \/ Settled(m)' = faults' + 1 /\ (~Queued(m)' \/ pc'[p] = "sent")
    /\ m \in stored' => Queued(m)' \/ sent'[m] > 0 \/ m \in discarded'

\* A process that is alone with its message answers only for that message: if
\* what it does there is sound, the invariant holds for all.
LEMMA SoundSafe ==
  ASSUME Inv, TypeInv', NEW p \in Proc, NEW m \in Msg,
         Apart(p, m), OnlyMoves(p), OnlyTouches(m), Sound(p, m),
         file'[p] = m, faults' >= faults,
         pc[p] = "sent" => file[p] = m
  PROVE  Safe'
<1>1. \A x \in Msg \ {m} : Settled(x)' = Settled(x) /\ Queued(x)' = Queued(x)
  BY DEF OnlyTouches, Settled, Queued
<1>2. ASSUME NEW q \in Proc, q # p
      PROVE  /\ Placed(q)' = Placed(q) /\ Fresh(q)' = Fresh(q)
             /\ pc'[q] = pc[q] /\ file'[q] = file[q] /\ job'[q] = job[q]
  BY <1>2 DEF OnlyMoves, Placed, Delivering, Fresh, InMove
<1>3. ASSUME NEW q \in Proc, q # p, Placed(q) \/ Fresh(q) \/ pc[q] \in {"unlink", "sent", "write"}
      PROVE  file[q] \in Msg \ {m}
  BY <1>3, Typed DEF Apart, Placed, Delivering, Fresh, InMove, WithFile, Busy
<1>4. PlaceInv'
  <2> SUFFICES ASSUME NEW q \in Proc
               PROVE /\ Placed(q)' => "cur" \in at'[file'[q]] /\ "new" \notin at'[file'[q]]
                     /\ pc'[q] = "unlink" => {Src[job'[q]], Dst[job'[q]]} \subseteq at'[file'[q]]
                     /\ pc'[q] = "sent" => sent'[file'[q]] > 0
                     /\ job'[q] = "back" => pc'[q] \in {"link", "unlink", "close"}
                     /\ pc'[q] = "write" => Fresh(q)'
    BY DEF PlaceInv
  <2>1. CASE q = p
    BY <2>1 DEF Sound
  <2>2. CASE q # p
    BY <2>2, <1>2, <1>3 DEF Inv, IInv, PlaceInv, OnlyTouches
  <2>3. QED
    BY <2>1, <2>2
<1>5. FreshInv'
  <2> SUFFICES ASSUME NEW q \in Proc, Fresh(q)'
               PROVE /\ body'[file'[q]] # "none"
                     /\ Settled(file[q])' = 0
                     /\ at'[file'[q]] = {"tmp"} \cup
                           (IF pc'[q] = "unlink" THEN {Dst[job'[q]]} ELSE {})
                     /\ \A r \in Proc : Fresh(r)' /\ file'[r] = file'[q] => r = q
    BY DEF FreshInv
  <2>1. CASE q = p
    <3>1. body'[m] # "none" /\ Settled(m)' = 0
          /\ at'[m] = {"tmp"} \cup (IF pc'[p] = "unlink" THEN {Dst[job'[p]]} ELSE {})
      BY <2>1 DEF Sound
    <3>2. Settled(file[q])' = Settled(m)'
      BY <2>1 DEF Settled
    <3>3. \A r \in Proc : Fresh(r)' /\ file'[r] = file'[q] => r = q
      BY <2>1, <1>2, <1>3
    <3>4. QED
      BY <2>1, <3>1, <3>2, <3>3
  <2>2. CASE q # p
    <3>1. file[q] \in Msg \ {m} /\ Fresh(q) /\ file'[q] = file[q]
      BY <2>2, <1>2, <1>3
    <3>2. Settled(file[q])' = 0
      BY <3>1, <1>1 DEF Settled, Inv, IInv, FreshInv
    <3>3. \A r \in Proc : Fresh(r)' /\ file'[r] = file'[q] => r = q
      BY <2>2, <3>1, <1>2, <1>3 DEF Inv, IInv, FreshInv
    <3>4. QED
      BY <2>2, <3>1, <3>2, <3>3, <1>2 DEF Inv, IInv, FreshInv, OnlyTouches
  <2>3. QED
    BY <2>1, <2>2
<1>6. UnusedInv'
  BY <1>1 DEF Inv, IInv, UnusedInv, OnlyTouches, Sound
<1>7. SettledInv'
  <2> SUFFICES ASSUME NEW x \in Msg
               PROVE \/ Settled(x)' <= faults'
                     \/ /\ Settled(x)' = faults' + 1
                        /\ \/ ~Queued(x)'
                           \/ \E q \in Proc : pc'[q] = "sent" /\ file'[q] = x
    BY DEF SettledInv
  <2>1. CASE x = m
    BY <2>1 DEF Sound
  <2>2. CASE x # m
    <3>1. \A q \in Proc : pc[q] = "sent" /\ file[q] = x => pc'[q] = "sent" /\ file'[q] = x
      BY <2>2, <1>2
    <3>2. faults' \in Nat /\ faults \in Nat /\ Settled(x) \in Nat
      BY Typed DEF TypeInv, TypeOK
    <3>3. Settled(x)' = Settled(x) /\ Queued(x)' = Queued(x)
      BY <2>2, <1>1
    <3>4. CASE Settled(x) <= faults'
      BY <3>3, <3>4
    <3>5. CASE ~(Settled(x) <= faults')
      <4>1. faults' = faults /\ Settled(x) = faults + 1
        BY <3>2, <3>5 DEF Inv, IInv, SettledInv
      <4>2. ~(Settled(x) <= faults)
        BY <4>1, <3>2
      <4>3. QED
        BY <4>1, <4>2, <3>1, <3>3 DEF Inv, IInv, SettledInv
    <3>6. QED
      BY <3>4, <3>5
  <2>3. QED
    BY <2>1, <2>2
<1>8. NeverLost'
  <2> SUFFICES ASSUME NEW x \in stored'
               PROVE Queued(x)' \/ sent'[x] > 0 \/ x \in discarded'
    BY DEF NeverLost
  <2>1. x \in Msg
    BY DEF TypeInv, TypeOK
  <2>2. CASE x = m
    BY <2>2 DEF Sound
  <2>3. CASE x # m
    BY <2>1, <2>3, <1>1 DEF OnlyTouches, Inv, IInv, NeverLost
  <2>4. QED
    BY <2>2, <2>3
<1>9. QED
  BY <1>4, <1>5, <1>6, <1>7, <1>8 DEF Safe
\* link() keeps the invariant.
LEMMA LinkSafe ==
  ASSUME Inv, TypeInv', NEW p \in Proc, NEW m \in Msg, file[p] = m,
         Link(p), UNCHANGED queueVars, HasSrc(p), ~HasDst(p)
  PROVE  Safe'
<1>1. /\ pc[p] = "link" /\ job[p] \in Job /\ Dst[job[p]] \in {"new", "cur"}
      /\ at' = [at EXCEPT ![m] = @ \cup {Dst[job[p]]}]
      /\ pc' = [pc EXCEPT ![p] = "unlink"]
      /\ UNCHANGED <<body, stored, file, job, faults, sent, discarded>>
  BY Typed DEF Link, Goto, queueVars, history, InMove
<1>2. Apart(p, m)
  BY <1>1, ActingApart DEF Acting
<1>3. OnlyMoves(p) /\ OnlyTouches(m)
  BY <1>1 DEF OnlyMoves, OnlyTouches, Inv, TypeInv, TypeOK
<1>4. /\ at'[m] = at[m] \cup {Dst[job[p]]} /\ pc'[p] = "unlink"
      /\ Settled(m)' = Settled(m) /\ Queued(m)'
  BY <1>1 DEF Inv, TypeInv, TypeOK, Settled, Queued
<1>5. body[m] # "none"
  BY DEF Inv, IInv, UnusedInv, HasSrc
<1>6. Settled(m) <= faults
  <2>1. CASE Queued(m)
    <3>1. \A q \in Proc : pc[q] = "sent" => file[q] # m
      BY <1>1, <1>2 DEF Apart
    <3>2. QED
      BY <2>1, <3>1 DEF Inv, IInv, SettledInv
  <2>2. CASE ~Queued(m)
    <3>1. Src[job[p]] = "tmp"
      BY <2>2, <1>1 DEF HasSrc, Queued, Job, Src
    <3>2. Settled(m) = 0
      BY <3>1, <1>1, FreshSource DEF InMove, Inv, IInv, FreshInv
    <3>3. QED
      BY <3>2, Typed
  <2>3. QED
    BY <2>1, <2>2
<1>7. Fresh(p)' => Settled(m) = 0 /\ at[m] = {"tmp"}
  BY <1>1 DEF Fresh, InMove, Inv, IInv, FreshInv
<1>8. Sound(p, m)
  BY <1>1, <1>4, <1>5, <1>6, <1>7
  DEF Sound, HasSrc, Placed, Delivering
<1>9. QED
  BY <1>1, <1>2, <1>3, <1>8, SoundSafe, Typed

\* unlink() at the end of a move keeps it.
LEMMA UnlinkSafe ==
  ASSUME Inv, TypeInv', NEW p \in Proc, NEW m \in Msg, file[p] = m,
         Unlink(p), UNCHANGED queueVars, HasSrc(p)
  PROVE  Safe'
<1>1. /\ pc[p] = "unlink" /\ job[p] \in Job /\ Dst[job[p]] \in {"new", "cur"}
      /\ at' = [at EXCEPT ![m] = @ \ {Src[job[p]]}]
      /\ pc' = [pc EXCEPT ![p] = AfterMove[job[p]]]
      /\ stored' = stored \cup {m}
      /\ UNCHANGED <<body, file, job, faults, sent, discarded>>
  BY Typed DEF Unlink, Goto, queueVars, history, InMove
<1>2. Apart(p, m)
  BY <1>1, ActingApart DEF Acting
<1>3. OnlyMoves(p) /\ OnlyTouches(m)
  BY <1>1 DEF OnlyMoves, OnlyTouches, Inv, TypeInv, TypeOK
<1>4. {Src[job[p]], Dst[job[p]]} \subseteq at[m]
  BY <1>1 DEF Inv, IInv, PlaceInv
<1>5. /\ at'[m] = at[m] \ {Src[job[p]]} /\ pc'[p] = AfterMove[job[p]]
      /\ Settled(m)' = Settled(m)
  BY <1>1 DEF Inv, TypeInv, TypeOK, Settled
<1>6. Queued(m) /\ Queued(m)'
  BY <1>1, <1>4, <1>5 DEF Queued, Job, Src, Dst
<1>7. body[m] # "none"
  BY <1>4 DEF Inv, IInv, UnusedInv
<1>8. Settled(m) <= faults
  <2>1. \A q \in Proc : pc[q] = "sent" => file[q] # m
    BY <1>1, <1>2 DEF Apart
  <2>2. QED
    BY <2>1, <1>6 DEF Inv, IInv, SettledInv
<1>9. Placed(p)' => "cur" \in at'[m] /\ "new" \notin at'[m]
  <2>1. SUFFICES ASSUME Placed(p)' PROVE "cur" \in at'[m] /\ "new" \notin at'[m]
    OBVIOUS
  <2>2. job[p] \in {"start", "submit"}
    BY <2>1, <1>1, <1>5 DEF Placed, Delivering, Job, Src, AfterMove
  <2>3. job[p] = "submit" => at[m] = {"tmp", "cur"}
    BY <1>1 DEF Fresh, InMove, Inv, IInv, FreshInv, Dst
  <2>4. QED
    BY <2>2, <2>3, <1>4, <1>5 DEF Src, Dst
<1>10. pc'[p] \in {"close", "parse"} /\ (job[p] = "back" => pc'[p] = "close")
  BY <1>1, <1>5, SrcFact DEF AfterMove
<1>11. Sound(p, m)
  BY <1>1, <1>5, <1>6, <1>7, <1>8, <1>9, <1>10
  DEF Sound, Fresh, InMove
<1>12. QED
  BY <1>1, <1>2, <1>3, <1>11, SoundSafe, Typed

\* While p is in send_message() nobody else settles its message.
LEMMA DeliveringFacts ==
  ASSUME Inv, NEW p \in Proc, NEW m \in Msg, file[p] = m, Delivering(p)
  PROVE  /\ Apart(p, m)
         /\ "cur" \in at[m] /\ "new" \notin at[m]
         /\ body[m] # "none"
         /\ job[p] # "back"
         /\ pc[p] # "sent" => Settled(m) <= faults
         /\ pc[p] = "sent" => Settled(m) <= faults + 1 /\ sent[m] > 0
<1>1. Apart(p, m)
  BY ActingApart DEF Acting, Placed
<1>2. "cur" \in at[m] /\ "new" \notin at[m] /\ job[p] # "back"
  BY DEF Inv, IInv, PlaceInv, Placed, Delivering
<1>3. body[m] # "none" /\ Queued(m)
  BY <1>2 DEF Inv, IInv, UnusedInv, Queued
<1>4. ASSUME pc[p] # "sent" PROVE Settled(m) <= faults
  BY <1>1, <1>3, <1>4 DEF Apart, Inv, IInv, SettledInv
<1>5. ASSUME pc[p] = "sent" PROVE Settled(m) <= faults + 1 /\ sent[m] > 0
  BY <1>5, Typed DEF Inv, IInv, SettledInv, PlaceInv
<1>6. QED
  BY <1>1, <1>2, <1>3, <1>4, <1>5

\* A message the server takes, with or without a reply, keeps it.
LEMMA SendSafe ==
  ASSUME Inv, TypeInv', NEW p \in Proc, NEW m \in Msg, file[p] = m,
         SendAccepted(p) \/ ReplyLost(p)
  PROVE  Safe'
<1>1. /\ pc[p] = "send"
      /\ sent' = [sent EXCEPT ![m] = @ + 1]
      /\ UNCHANGED <<at, body, stored, file, job, discarded>>
      /\ \/ pc' = [pc EXCEPT ![p] = "sent"] /\ faults' = faults
         \/ pc' = [pc EXCEPT ![p] = "failed"] /\ faults' = faults + 1
  BY DEF SendAccepted, ReplyLost, Inject, Goto, dirVars
<1>2. /\ Apart(p, m) /\ "cur" \in at[m] /\ "new" \notin at[m]
      /\ body[m] # "none" /\ job[p] # "back" /\ Settled(m) <= faults
  BY <1>1, DeliveringFacts DEF Delivering
<1>3. OnlyMoves(p) /\ OnlyTouches(m)
  BY <1>1 DEF OnlyMoves, OnlyTouches, Inv, TypeInv, TypeOK
<1>4. sent[m] \in Nat /\ sent'[m] = sent[m] + 1
  BY <1>1 DEF Inv, TypeInv, TypeOK
<1>5. Settled(m)' = Settled(m) + 1 /\ Settled(m)' <= faults + 1 /\ faults \in Nat
  BY <1>1, <1>2, <1>4, Typed DEF Settled
<1>6. \/ pc'[p] = "sent" /\ faults' = faults
      \/ pc'[p] = "failed" /\ faults' = faults + 1
  BY <1>1 DEF Inv, TypeInv, TypeOK
<1>7. \/ Settled(m)' <= faults'
      \/ Settled(m)' = faults' + 1 /\ pc'[p] = "sent"
  BY <1>5, <1>6, Typed
<1>8. Sound(p, m)
  BY <1>1, <1>2, <1>4, <1>6, <1>7 DEF Sound, Fresh, InMove
<1>9. QED
  BY <1>1, <1>2, <1>3, <1>5, <1>6, <1>8, SoundSafe

\* The removal of a delivered message keeps it.
LEMMA RemoveSafe ==
  ASSUME Inv, TypeInv', NEW p \in Proc, NEW m \in Msg, file[p] = m, Remove(p)
  PROVE  Safe'
<1>1. /\ pc[p] = "sent"
      /\ at' = [at EXCEPT ![m] = @ \ {"cur"}]
      /\ pc' = [pc EXCEPT ![p] = "close"]
      /\ UNCHANGED <<body, stored, file, job, faults, sent, discarded>>
  BY DEF Remove, Goto, queueVars, history
<1>2. /\ Apart(p, m) /\ "new" \notin at[m] /\ body[m] # "none"
      /\ job[p] # "back" /\ Settled(m) <= faults + 1 /\ sent[m] > 0
  BY <1>1, DeliveringFacts DEF Delivering
<1>3. OnlyMoves(p) /\ OnlyTouches(m)
  BY <1>1 DEF OnlyMoves, OnlyTouches, Inv, TypeInv, TypeOK
<1>4. Settled(m)' = Settled(m) /\ ~Queued(m)' /\ pc'[p] = "close"
  BY <1>1, <1>2 DEF Inv, TypeInv, TypeOK, Settled, Queued
<1>5. Settled(m)' <= faults' \/ Settled(m)' = faults' + 1
  BY <1>1, <1>2, <1>4, Typed
<1>6. Sound(p, m)
  BY <1>1, <1>2, <1>4, <1>5 DEF Sound, Fresh, InMove, Placed, Delivering
<1>7. QED
  BY <1>1, <1>2, <1>3, <1>6, SoundSafe, Typed

\* The removal of a discarded message keeps it.
LEMMA DiscardSafe ==
  ASSUME Inv, TypeInv', NEW p \in Proc, NEW m \in Msg, file[p] = m,
         Discard(p), "cur" \in at[m]
  PROVE  Safe'
<1>1. /\ pc[p] = "failed"
      /\ at' = [at EXCEPT ![m] = @ \ {"cur"}]
      /\ discarded' = discarded \cup {m}
      /\ pc' = [pc EXCEPT ![p] = "close"]
      /\ UNCHANGED <<body, stored, file, job, faults, sent>>
  BY DEF Discard, Goto
<1>2. /\ Apart(p, m) /\ "new" \notin at[m] /\ body[m] # "none"
      /\ job[p] # "back" /\ Settled(m) <= faults
  BY <1>1, DeliveringFacts DEF Delivering
<1>3. OnlyMoves(p) /\ OnlyTouches(m)
  BY <1>1 DEF OnlyMoves, OnlyTouches, Inv, TypeInv, TypeOK
<1>4. ~Queued(m)' /\ pc'[p] = "close" /\ m \in discarded'
  BY <1>1, <1>2 DEF Inv, TypeInv, TypeOK, Queued
<1>5. Settled(m)' \in {Settled(m), Settled(m) + 1}
  BY <1>1 DEF Settled, Inv, TypeInv, TypeOK
<1>6. Settled(m)' <= faults' \/ Settled(m)' = faults' + 1
  BY <1>1, <1>2, <1>5, Typed
<1>7. Sound(p, m)
  BY <1>1, <1>2, <1>4, <1>6 DEF Sound, Fresh, InMove, Placed, Delivering
<1>8. QED
  BY <1>1, <1>2, <1>3, <1>7, SoundSafe, Typed

\* A message that could not be written to tmp/ was never stored.
LEMMA WriteErrorSafe ==
  ASSUME Inv, TypeInv', NEW p \in Proc, NEW m \in Msg, file[p] = m, WriteError(p)
  PROVE  Safe'
<1>1. /\ pc[p] = "write"
      /\ at' \in {[at EXCEPT ![m] = {}], at}
      /\ pc' = [pc EXCEPT ![p] = "raised"]
      /\ faults' = faults + 1
      /\ UNCHANGED <<body, stored, file, job, sent, discarded>>
  BY DEF WriteError, Goto, Inject, queueVars, history
<1>2. Fresh(p) /\ job[p] # "back"
  BY <1>1 DEF Inv, IInv, PlaceInv
<1>3. body[m] # "none" /\ Settled(m) = 0 /\ at[m] = {"tmp"}
  BY <1>1, <1>2 DEF Inv, IInv, FreshInv
<1>4. Apart(p, m)
  BY <1>1, WriteApart
<1>5. OnlyMoves(p) /\ OnlyTouches(m)
  BY <1>1 DEF OnlyMoves, OnlyTouches, Inv, TypeInv, TypeOK
<1>6. pc'[p] = "raised" /\ Settled(m)' = 0
  BY <1>1, <1>3 DEF Settled, Inv, TypeInv, TypeOK
<1>7. m \in stored' => sent'[m] > 0 \/ m \in discarded'
  BY <1>1, <1>3 DEF Inv, IInv, NeverLost, Queued
<1>8. Sound(p, m)
  BY <1>1, <1>2, <1>3, <1>6, <1>7, Typed
  DEF Sound, Fresh, InMove, Placed, Delivering
<1>9. QED
  BY <1>1, <1>4, <1>5, <1>8, SoundSafe, Typed

\* A new message in tmp/ keeps the invariant.
LEMMA SubmitSafe ==
  ASSUME Inv, TypeInv', NEW p \in Proc, NEW m \in Msg, Submit(p, m)
  PROVE  Safe'
<1>1. PICK j \in {"enqueue", "submit"} : job' = [job EXCEPT ![p] = j]
  BY DEF Submit
<1>2. /\ pc[p] = "idle" /\ body[m] = "none"
      /\ at' = [at EXCEPT ![m] = {"tmp"}]
      /\ body' = [body EXCEPT ![m] = "partial"]
      /\ file' = [file EXCEPT ![p] = m]
      /\ pc' = [pc EXCEPT ![p] = "write"]
      /\ UNCHANGED <<stored, faults, sent, discarded>>
  BY DEF Submit, Goto, queueVars, history
<1>3. Settled(m) = 0 /\ at[m] = {}
  BY <1>2 DEF Inv, IInv, UnusedInv
<1>4. Apart(p, m)
  BY <1>2, UnusedApart
<1>5. OnlyMoves(p) /\ OnlyTouches(m)
  BY <1>1, <1>2 DEF OnlyMoves, OnlyTouches, Inv, TypeInv, TypeOK
<1>6. /\ at'[m] = {"tmp"} /\ body'[m] = "partial" /\ file'[p] = m
      /\ pc'[p] = "write" /\ job'[p] = j /\ Settled(m)' = 0
  BY <1>1, <1>2, <1>3 DEF Settled, Inv, TypeInv, TypeOK
<1>7. m \notin stored'
  BY <1>2, <1>3, Typed DEF Inv, IInv, NeverLost, Queued, Settled, TypeInv,
     TypeOK
<1>8. Sound(p, m)
  BY <1>2, <1>6, <1>7, Typed DEF Sound, Fresh, InMove, Placed, Delivering
<1>9. QED
  BY <1>2, <1>4, <1>5, <1>6, <1>8, SoundSafe, Typed

-----------------------------------------------------------------------------
(* The theorems.                                                            *)

\* The invariant holds in the initial state.
LEMMA InvInit == Init => Inv
<1> SUFFICES ASSUME Init PROVE Inv
  OBVIOUS
<1>1. TypeInv /\ LockInv
  BY TypeInit, LockInit
<1>2. PlaceInv /\ FreshInv
  BY DEF Init, MaildirInit, PlaceInv, FreshInv, Placed, Delivering, Fresh,
     InMove
<1>3. UnusedInv /\ SettledInv /\ NeverLost
  BY DEF Init, MaildirInit, UnusedInv, SettledInv, NeverLost, Settled
<1>4. QED
  BY <1>1, <1>2, <1>3 DEF Inv, IInv, TypeInv

\* Every step of a process is calm, or touches the queue.
Touches(p) ==
    \/ Link(p) /\ UNCHANGED queueVars /\ HasSrc(p) /\ ~HasDst(p)
    \/ Unlink(p) /\ UNCHANGED queueVars /\ HasSrc(p)
    \/ SendAccepted(p) \/ ReplyLost(p) \/ Remove(p) \/ WriteError(p)
    \/ Discard(p) /\ "cur" \in at[file[p]]

\* What is not the step of a process: time, and stuttering.
Quiet == UNCHANGED <<at, body, stored, pc, file, job, faults, sent, discarded>>

\* Every step is calm, touches the queue, brings a new message, or is no
\* process's step.
LEMMA StepKinds ==
  ASSUME Inv, [Next]_vars
  PROVE  \/ \E p \in Proc : Calm(p) \/ Touches(p)
         \/ \E p \in Proc, m \in Msg : Submit(p, m)
         \/ Quiet
<1>1. ASSUME NEW p \in Proc, Step(p) \/ StartRun(p) \/ Crash(p)
      PROVE  Calm(p) \/ Touches(p)
  BY <1>1, StepCalm DEF Step, MoveMessage, Touches
<1>2. ASSUME NEW m \in Msg, Age(m) /\ UNCHANGED queueVars PROVE Quiet
  BY <1>2 DEF Age, Quiet, procVars, queueVars, history
<1>3. CASE UNCHANGED vars
  BY <1>3 DEF vars, dirVars, procVars, queueVars, history, Quiet
<1>4. QED
  BY <1>1, <1>2, <1>3 DEF Next, Proc

\* The steps that touch the queue keep the invariant.
LEMMA TouchSafe ==
  ASSUME Inv, TypeInv', NEW p \in Proc, Touches(p)
  PROVE  Safe'
<1>1. file[p] \in Msg
  BY Typed
  DEF Touches, Link, Unlink, SendAccepted, ReplyLost, Remove, WriteError, Discard,
      WithFile, Busy
<1>2. QED
  BY <1>1, LinkSafe, UnlinkSafe, SendSafe, RemoveSafe, WriteErrorSafe,
     DiscardSafe DEF Touches

\* The passing of time, and stuttering, keep the invariant.
LEMMA QuietSafe ==
  ASSUME Inv, Quiet
  PROVE  Safe'
<1>1. \A m \in Msg : Settled(m)' = Settled(m) /\ Queued(m)' = Queued(m)
  BY DEF Quiet, Settled, Queued
<1>2. \A p \in Proc : Placed(p)' = Placed(p) /\ Fresh(p)' = Fresh(p)
  BY DEF Quiet, Placed, Delivering, Fresh, InMove
<1>3. PlaceInv'
  BY <1>2 DEF Quiet, Inv, IInv, PlaceInv
<1>4. FreshInv'
  <2>1. \A p \in Proc : Fresh(p) => Settled(file[p])' = Settled(file[p])
    BY DEF Quiet, Settled
  <2>2. QED
    BY <1>2, <2>1 DEF Quiet, Inv, IInv, FreshInv
<1>5. UnusedInv' /\ SettledInv'
  BY <1>1 DEF Quiet, Inv, IInv, UnusedInv, SettledInv
<1>6. NeverLost'
  BY DEF Quiet, Inv, IInv, NeverLost, Queued
<1>7. QED
  BY <1>3, <1>4, <1>5, <1>6 DEF Safe

\* The invariant is inductive.
LEMMA InvStep == Inv /\ [Next]_vars => Inv'
<1> SUFFICES ASSUME Inv, [Next]_vars PROVE Inv'
  OBVIOUS
<1>1. TypeInv' /\ LockInv'
  BY TypeStep, LockStep DEF Inv, IInv
<1>2. Safe'
  BY <1>1, StepKinds, CalmSafe, TouchSafe, SubmitSafe, QuietSafe
<1>3. QED
  BY <1>1, <1>2 DEF Inv, IInv, Safe, TypeInv

\* The invariant holds in every reachable state.
LEMMA InvAlways == Spec => []Inv
  BY InvInit, InvStep, PTL DEF Spec

\* A message is delivered again, or discarded after a delivery, at most once
\* for every crash, lost reply, plugin or disk error there was: without any,
\* exactly-once, for any number of overlapping mq-run.
THEOREM NoDuplicates == Spec => []NoUnexplainedDuplicate
<1>1. Inv => NoUnexplainedDuplicate
  <2> SUFFICES ASSUME Inv, NEW m \in Msg PROVE Settled(m) <= 1 + faults
    BY DEF NoUnexplainedDuplicate
  <2>1. QED
    BY Typed DEF Inv, IInv, SettledInv
<1>2. QED
  BY <1>1, InvAlways, PTL

\* Once enqueue_message() has succeeded a message is in the queue until it was
\* delivered or discarded, wherever processes crash.
THEOREM NothingLost == Spec => []NeverLost
<1>1. Inv => NeverLost
  BY DEF Inv, IInv
<1>2. QED
  BY <1>1, InvAlways, PTL

-----------------------------------------------------------------------------
(* Refinement: every step is a step of DeliveryQueue, or a stutter.         *)

\* An empty maildir is an empty queue.
LEMMA RefinementInit == Init => Promise!Init
  BY DEF Init, MaildirInit, Promise!Init, Queued

\* The mapped queue.
Q == {x \in Msg : Queued(x)}

\* What becomes of the queue when the links of one message change.
LEMMA QueueChange ==
  ASSUME NEW m \in Msg, at \in [Msg -> SUBSET Folder],
         NEW S \in SUBSET Folder, at' = [at EXCEPT ![m] = S]
  PROVE  Q' = IF S \cap {"new", "cur"} # {} THEN Q \cup {m} ELSE Q \ {m}
<1>1. \A x \in Msg : at'[x] = IF x = m THEN S ELSE at[x]
  OBVIOUS
<1>2. QED
  BY <1>1 DEF Q, Queued

\* A stutter, or a fault and nothing else.
LEMMA OnlyFaults ==
  ASSUME Inv', Q' = Q, UNCHANGED <<sent, discarded>>,
         faults' \in {faults, faults + 1}, faults \in Nat
  PROVE  [Promise!Next]_(Promise!vars)
<1>1. faults' <= MaxFaults
  BY FaultAssumption DEF Inv, TypeInv, TypeOK
<1>2. CASE faults' = faults
  BY <1>2 DEF Promise!vars, Q
<1>3. CASE faults' = faults + 1
  <2>1. faults < MaxFaults
    BY <1>1, <1>3, FaultAssumption
  <2>2. Promise!Fault
    BY <1>3, <2>1 DEF Promise!Fault, Q
  <2>3. QED
    BY <2>2 DEF Promise!Next
<1>4. QED
  BY <1>2, <1>3

\* Each step that touches the queue is a step of DeliveryQueue, or a stutter.
LEMMA TouchImplements ==
  ASSUME Inv, Inv', NEW p \in Proc, NEW m \in Msg, file[p] = m, Touches(p)
  PROVE  [Promise!Next]_(Promise!vars)
<1>1. /\ at \in [Msg -> SUBSET Folder] /\ faults \in Nat
      /\ faults' \in 0 .. MaxFaults /\ Settled(m) \in Nat
      /\ sent \in [Msg -> Nat]
  BY Typed DEF Inv, TypeInv, TypeOK
<1>2. Promise!Settled(m) = Settled(m)
  BY DEF Promise!Settled, Settled
<1>3. ASSUME Link(p), UNCHANGED queueVars, HasSrc(p), ~HasDst(p)
      PROVE  [Promise!Next]_(Promise!vars)
  <2>1. /\ pc[p] = "link" /\ job[p] \in Job /\ Dst[job[p]] \in {"new", "cur"}
        /\ at' = [at EXCEPT ![m] = at[m] \cup {Dst[job[p]]}]
        /\ UNCHANGED <<faults, sent, discarded>>
    BY <1>3, Typed DEF Link, queueVars, history, InMove
  <2>2. Q' = Q \cup {m}
    <3>1. at[m] \cup {Dst[job[p]]} \in SUBSET Folder
      BY <2>1, <1>1 DEF Folder
    <3>2. (at[m] \cup {Dst[job[p]]}) \cap {"new", "cur"} # {}
      BY <2>1
    <3>3. PICK S \in SUBSET Folder : /\ S \cap {"new", "cur"} # {}
                                    /\ at' = [at EXCEPT ![m] = S]
      BY <2>1, <3>1, <3>2
    <3>4. QED
      BY <1>1, <3>3, QueueChange
  <2>3. CASE Queued(m)
    BY <2>1, <2>2, <2>3, <1>1, OnlyFaults DEF Q
  <2>4. CASE ~Queued(m)
    <3>1. Src[job[p]] = "tmp"
      BY <2>4, <2>1, <1>3 DEF HasSrc, Queued, Job, Src
    <3>2. Settled(m) = 0
      BY <3>1, <2>1, FreshSource DEF InMove, Inv, IInv, FreshInv
    <3>3. Promise!Enter(m)
      BY <2>1, <2>2, <2>4, <3>2, <1>2 DEF Promise!Enter, Q
    <3>4. QED
      BY <3>3 DEF Promise!Next
  <2>5. QED
    BY <2>3, <2>4
<1>4. ASSUME Unlink(p), UNCHANGED queueVars, HasSrc(p)
      PROVE  [Promise!Next]_(Promise!vars)
  <2>1. /\ pc[p] = "unlink" /\ job[p] \in Job /\ Dst[job[p]] \in {"new", "cur"}
        /\ at' = [at EXCEPT ![m] = at[m] \ {Src[job[p]]}]
        /\ UNCHANGED <<faults, sent, discarded>>
    BY <1>4, Typed DEF Unlink, queueVars, history, InMove
  <2>2. Dst[job[p]] \in at[m] \ {Src[job[p]]}
    BY <2>1 DEF Inv, IInv, PlaceInv, Job, Src, Dst
  <2>3. Q' = Q \cup {m} /\ m \in Q
    BY <2>1, <2>2, <1>1, QueueChange DEF Q, Queued
  <2>4. QED
    BY <2>1, <2>3, <1>1, OnlyFaults
<1>5. ASSUME SendAccepted(p) \/ ReplyLost(p)
      PROVE  [Promise!Next]_(Promise!vars)
  <2>1. /\ pc[p] = "send"
        /\ sent' = [sent EXCEPT ![m] = @ + 1]
        /\ UNCHANGED <<at, discarded>>
        /\ faults' \in {faults, faults + 1}
    BY <1>5 DEF SendAccepted, ReplyLost, Inject, dirVars
  <2>2. "cur" \in at[m] /\ Settled(m) <= faults
    BY <2>1, DeliveringFacts DEF Delivering
  <2>3. Q' = Q /\ m \in Q
    BY <2>1, <2>2 DEF Q, Queued
  <2>4. Promise!Deliver(m)
    BY <2>1, <2>2, <2>3, <1>1, <1>2 DEF Promise!Deliver, Q
  <2>5. QED
    BY <2>4 DEF Promise!Next
<1>6. ASSUME Remove(p)
      PROVE  [Promise!Next]_(Promise!vars)
  <2>1. /\ pc[p] = "sent"
        /\ at' = [at EXCEPT ![m] = at[m] \ {"cur"}]
        /\ UNCHANGED <<sent, discarded, faults>>
    BY <1>6 DEF Remove, queueVars, history
  <2>2. "cur" \in at[m] /\ "new" \notin at[m] /\ sent[m] > 0
    BY <2>1, DeliveringFacts DEF Delivering
  <2>3. Q' = Q \ {m} /\ m \in Q
    BY <2>1, <2>2, <1>1, QueueChange DEF Q, Queued
  <2>4. Settled(m) > 0
    BY <2>2, <1>1 DEF Settled
  <2>5. Promise!Remove(m)
    BY <2>1, <2>3, <2>4, <1>2 DEF Promise!Remove, Q
  <2>6. QED
    BY <2>5 DEF Promise!Next
<1>7. ASSUME Discard(p), "cur" \in at[m]
      PROVE  [Promise!Next]_(Promise!vars)
  <2>1. /\ pc[p] = "failed"
        /\ at' = [at EXCEPT ![m] = at[m] \ {"cur"}]
        /\ discarded' = discarded \cup {m}
        /\ UNCHANGED <<sent, faults>>
    BY <1>7 DEF Discard
  <2>2. "new" \notin at[m] /\ Settled(m) <= faults
    BY <2>1, DeliveringFacts DEF Delivering
  <2>3. Q' = Q \ {m} /\ m \in Q
    BY <2>1, <2>2, <1>1, <1>7, QueueChange DEF Q, Queued
  <2>4. Promise!Discard(m)
    BY <2>1, <2>2, <2>3, <1>2 DEF Promise!Discard, Q
  <2>5. QED
    BY <2>4 DEF Promise!Next
<1>8. ASSUME WriteError(p)
      PROVE  [Promise!Next]_(Promise!vars)
  <2>1. /\ pc[p] = "write" /\ faults' = faults + 1
        /\ at' \in {[at EXCEPT ![m] = {}], at}
        /\ UNCHANGED <<sent, discarded>>
    BY <1>8 DEF WriteError, Inject, queueVars, history
  <2>2. at[m] = {"tmp"}
    BY <2>1 DEF Inv, IInv, PlaceInv, FreshInv
  <2>3. Q' = Q
    BY <2>1, <2>2, <1>1, QueueChange DEF Q, Queued
  <2>4. QED
    BY <2>1, <2>3, <1>1, OnlyFaults
<1>9. QED
  BY <1>3, <1>4, <1>5, <1>6, <1>7, <1>8 DEF Touches

\* Every step is a step of DeliveryQueue, or a stutter.
LEMMA RefinementStep ==
  ASSUME Inv, Inv', [Next]_vars
  PROVE  [Promise!Next]_(Promise!vars)
<1>1. faults \in Nat /\ at \in [Msg -> SUBSET Folder]
  BY Typed DEF Inv, TypeInv, TypeOK
<1>2. ASSUME NEW p \in Proc, Calm(p) PROVE [Promise!Next]_(Promise!vars)
  <2>1. Q' = Q
    BY <1>2 DEF Calm, Q, Queued
  <2>2. QED
    BY <1>1, <1>2, <2>1, OnlyFaults DEF Calm
<1>3. ASSUME NEW p \in Proc, Touches(p) PROVE [Promise!Next]_(Promise!vars)
  <2>1. file[p] \in Msg
    BY <1>3, Typed
    DEF Touches, Link, Unlink, SendAccepted, ReplyLost, Remove, WriteError, Discard,
        WithFile, Busy
  <2>2. QED
    BY <1>3, <2>1, TouchImplements
<1>4. ASSUME NEW p \in Proc, NEW m \in Msg, Submit(p, m)
      PROVE  [Promise!Next]_(Promise!vars)
  <2>1. body[m] = "none" /\ at' = [at EXCEPT ![m] = {"tmp"}]
        /\ UNCHANGED <<sent, discarded, faults>>
    BY <1>4 DEF Submit, queueVars, history
  <2>2. at[m] = {}
    BY <2>1 DEF Inv, IInv, UnusedInv
  <2>3. Q' = Q
    BY <2>1, <2>2, <1>1, QueueChange DEF Q, Queued, Folder
  <2>4. QED
    BY <1>1, <2>1, <2>3, OnlyFaults
<1>5. CASE Quiet
  <2>1. Q' = Q
    BY <1>5 DEF Quiet, Q, Queued
  <2>2. QED
    BY <1>1, <1>5, <2>1, OnlyFaults DEF Quiet
<1>6. QED
  BY <1>2, <1>3, <1>4, <1>5, StepKinds

\* QueueRunner implements DeliveryQueue: seen from outside, with all system
\* calls, locks, crashes and retries hidden, there is a queue that messages
\* enter once and leave settled.
THEOREM Refinement == Spec => Implements
<1>1. Inv /\ Inv' /\ [Next]_vars => [Promise!Next]_(Promise!vars)
  BY RefinementStep
<1>2. QED
  BY <1>1, RefinementInit, InvAlways, PTL DEF Spec, Implements, Promise!Spec
=============================================================================
