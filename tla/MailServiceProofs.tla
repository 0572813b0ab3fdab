--------------------------- MODULE MailServiceProofs ---------------------------
(***************************************************************************)
(* MessageHandler keeps the promise of MailService: what the transports,   *)
(* the files and the processes do is, seen from outside, a message handed  *)
(* over, delivered, answered for and settled.                              *)
(*                                                                         *)
(* A step of a call is a Deliver when a server takes the message, a Reply  *)
(* when a caller's call ends, a Settle when mq-run removes the last file   *)
(* of a message, a Fault when mq-run's call fails, and else no step.       *)
(***************************************************************************)
EXTENDS MessageHandlerProofs

CarriedSet == {m \in Msg : Carried(m)}

BusyCarried == \A w \in Worker : pc[w] # "idle" => Carried(msg[w])

\* Whoever works on a message has it in memory or has its file.
LEMMA CarriedWhileBusy == Inv => BusyCarried
  BY HandlerAssumption DEF Inv, TypeOK, CallInv, BusyCarried, Carried, Copies

\* A step of a call changes files of its own message only.
LEMMA OwnFiles ==
  ASSUME Inv, NEW w \in Worker, Step(w) \/ Crash(w), NEW m \in Msg, m # msg[w]
  PROVE  Copies(m)' = Copies(m)
<1> USE DEF fileVars
<1>1. /\ pc[w] # "idle" => /\ msg[w] \in Msg
                           /\ file[w] # NoFile => file[w] \in File /\ of[file[w]] = msg[w]
      /\ NoMsg \notin Msg
      /\ place \in [File -> {"none", "tmp", "new", "cur"}] /\ of \in [File -> Msg \cup {NoMsg}]
  BY HandlerAssumption DEF Inv, TypeOK, CallInv
<1>2. CASE UNCHANGED <<place, of>>
  BY <1>2 DEF Copies
<1>3. CASE \E f \in File, folder \in {"tmp", "new"} : NewFile(f, msg[w], folder) /\ pc[w] # "idle"
  <2>1. PICK f \in File, folder \in {"tmp", "new"} : NewFile(f, msg[w], folder) /\ pc[w] # "idle"
    BY <1>3
  <2>2. /\ place[f] = "none" /\ of'[f] = msg[w]
        /\ \A g \in File : g # f => place'[g] = place[g] /\ of'[g] = of[g]
    BY <1>1, <2>1, NewFileTypes
  <2> QED
    BY <2>2 DEF Copies
<1>4. CASE Unlink(w) /\ pc[w] # "idle"
  BY <1>1, <1>2, <1>4 DEF Unlink, Copies
<1>5. CASE PutBack(w)
  BY <1>1, <1>5 DEF PutBack, Copies
<1>6. CASE Enqueue(w) \/ EnqueueError(w)
  BY <1>2, <1>3, <1>6 DEF Enqueue, EnqueueError, Trying
<1>7. CASE Finish(w) \/ Discard(w)
  BY <1>4, <1>7 DEF Finish, Discard
<1> QED
  BY <1>2, <1>5, <1>6, <1>7 DEF Step, Crash, Prepare, BadArguments, Accepted, Refused,
     ReplyLost, NextTransport, Exception, NotifySuccess, NotifyFailure

\* The service goes on carrying the other messages; whether it still carries
\* this one can be seen.
LEMMA CarriedStep ==
  ASSUME Inv, NEW w \in Worker, Step(w) \/ Crash(w), NEW m \in Msg, m = msg[w],
         pc[w] # "idle", pc'[w] # "idle" => msg'[w] = m
  PROVE  /\ m \in CarriedSet
         /\ CarriedSet' \in {CarriedSet, CarriedSet \ {m}}
         /\ Carried(m)' <=> m \in CarriedSet'
<1>1. \A v \in Worker : v # w => pc'[v] = pc[v] /\ job'[v] = job[v] /\ msg'[v] = msg[v]
  BY OnlyCall
<1>2. m \in CarriedSet
  BY CarriedWhileBusy DEF BusyCarried, CarriedSet
<1>3. ASSUME NEW x \in Msg, x # m
      PROVE  Carried(x)' <=> Carried(x)
  <2>1. Copies(x)' = Copies(x)
    BY <1>3, OwnFiles
  <2> QED
    BY <1>1, <1>3, <2>1 DEF Carried
<1>4. Carried(m)' <=> m \in CarriedSet'
  BY DEF CarriedSet
<1> QED
  BY <1>2, <1>3, <1>4 DEF CarriedSet

\* The end of a caller's call is an answer that fits.
LEMMA ReplyRefines ==
  ASSUME Inv, HistInv, Inv', HistInv', NEW w \in Worker, Step(w) \/ Crash(w),
         NEW m \in Msg, m = msg[w], pc[w] # "idle", job[w] # "run",
         NEW r \in Promise!Answer, Leave(w, r), config' = config, sent' = sent,
         faults' \in {faults, faults + 1}, discarded' \in {discarded, discarded \cup {m}},
         r = "sent" => sent[m] > 0,
         r = "queued" => m \in queued',
         r = "failed" => Carried(m)' \/ sent[m] <= faults,
         IF r = "discarded" THEN m \in discarded' ELSE discarded' = discarded
  PROVE  Promise!Reply(m)
<1>1. pc'[w] = "idle" /\ answer' = [answer EXCEPT ![m] = r]
  BY DEF Leave, Goto, Inv, TypeOK
<1>2. /\ m \in CarriedSet /\ CarriedSet' \in {CarriedSet, CarriedSet \ {m}}
      /\ Carried(m)' <=> m \in CarriedSet'
  BY <1>1, CarriedStep
<1>3. answer[m] = "pending"
  BY DEF HistInv, CallerInv
<1>4. faults' \in {faults, faults + 1} \cap 0 .. MaxFaults
  BY DEF Inv, TypeOK
<1>5. m \in queued' => m \in CarriedSet' \/ sent[m] > 0 \/ m \in discarded'
  BY DEF HistInv, FilesInv, Stays, Carried, Copies, CarriedSet
<1>6. Promise!Fits(m, r, m \in CarriedSet')
  BY <1>2, <1>5 DEF Promise!Fits, Promise!Answer
<1> QED
  BY <1>1, <1>2, <1>3, <1>4, <1>6 DEF Promise!Reply, CarriedSet

\* A call that goes on and a server has not heard of is no step.
LEMMA NoStep ==
  ASSUME Inv, Inv', NEW w \in Worker, Step(w) \/ Crash(w), pc[w] # "idle", pc'[w] # "idle",
         msg'[w] = msg[w], UNCHANGED <<config, sent, discarded, answer, faults>>
  PROVE  UNCHANGED Promise!vars
<1>1. PICK m \in Msg : m = msg[w]
  BY DEF Inv, CallInv
<1>2. Carried(m)'
  <2>1. BusyCarried'
    BY CarriedWhileBusy, PTL
  <2> QED
    BY <1>1, <2>1 DEF BusyCarried
<1>3. CarriedSet' = CarriedSet
  BY <1>1, <1>2, CarriedStep
<1> QED
  BY <1>3 DEF Promise!vars, CarriedSet

\* A server takes the message.
LEMMA DeliverRefines ==
  ASSUME Inv, NoSurplus, Inv', NEW w \in Worker, Accepted(w) \/ ReplyLost(w)
  PROVE  \E m \in Msg : Promise!Deliver(m)
<1>1. /\ pc[w] = "transport" /\ pc'[w] # "idle" /\ UNCHANGED <<config, file, job, msg, discarded, answer>>
      /\ sent' = [sent EXCEPT ![msg[w]] = @ + 1]
      /\ faults' \in {faults, faults + 1}
  BY DEF Accepted, ReplyLost, NextTransport, Trying, Inject, Goto, Inv, TypeOK, history
<1>2. PICK m \in Msg : m = msg[w]
  BY <1>1 DEF Inv, CallInv
<1>3. m \in CarriedSet /\ CarriedSet' = CarriedSet
  <2>1. BusyCarried'
    BY CarriedWhileBusy, PTL
  <2>2. Carried(m)'
    BY <1>1, <1>2, <2>1 DEF BusyCarried
  <2> QED
    BY <1>1, <1>2, <2>2, CarriedStep DEF Step
<1>4. m \in config.noId \/ sent[m] <= faults
  <2>1. Sources(m) # {} /\ IsFiniteSet(Sources(m)) /\ Cardinality(Sources(m)) \in Nat
    BY <1>1, <1>2, OwnSource, SourceCount
  <2>2. Cardinality(Sources(m)) # 0
    BY <2>1, FS_EmptySet
  <2> QED
    BY <2>1, <2>2 DEF NoSurplus, Inv, TypeOK
<1>5. faults' \in {faults, faults + 1} \cap 0 .. MaxFaults
  BY <1>1 DEF Inv, TypeOK
<1>6. Promise!Deliver(m)
  BY <1>1, <1>2, <1>3, <1>4, <1>5 DEF Promise!Deliver, CarriedSet
<1> QED
  BY <1>6

\* A caller's call ends.
LEMMA CallerEnds ==
  ASSUME Inv, HistInv, Inv', HistInv', NEW w \in Worker, job[w] # "run", pc'[w] = "idle",
         \/ BadArguments(w) \/ Exception(w) \/ Crash(w) \/ Enqueue(w) \/ EnqueueError(w)
         \/ Finish(w) \/ Discard(w) \/ PutBack(w)
  PROVE  \E m \in Msg : Promise!Reply(m)
<1> USE DEF fileVars, callVars, history
<1>1. pc[w] # "idle" /\ (Step(w) \/ Crash(w))
  BY DEF BadArguments, Exception, Crash, Enqueue, EnqueueError, Finish, Discard, PutBack,
     Trying, Step
<1>2. PICK m \in Msg : m = msg[w]
  BY <1>1 DEF Inv, CallInv
<1>3. {"raised", "killed", "sent", "queued", "failed", "discarded"} \subseteq Promise!Answer
  BY DEF Promise!Answer
<1>4. CASE BadArguments(w) \/ Exception(w) \/ Crash(w) \/ Enqueue(w) \/ EnqueueError(w)
  <2>1. /\ \E r \in {"raised", "killed"} : Leave(w, r)
        /\ UNCHANGED <<config, sent, discarded>> /\ faults' \in {faults, faults + 1}
    <3>1. CASE Enqueue(w)
      <4>1. msg[w] \in config.noId
        BY <1>1, <3>1 DEF Enqueue, Goto, Inv, TypeOK
      <4> QED
        BY <3>1, <4>1 DEF Enqueue
    <3> QED
      BY <1>4, <3>1 DEF BadArguments, Exception, Crash, EnqueueError, Inject
  <2> QED
    BY <1>1, <1>2, <1>3, <2>1, ReplyRefines
<1>5. CASE Finish(w)
  <2>1. /\ Leave(w, result[w]) \/ Leave(w, "raised")
        /\ UNCHANGED <<config, sent, discarded, queued, faults>> /\ Done(w)
    BY <1>5 DEF Finish, Done
  <2>2. \/ result[w] = "sent" /\ sent[m] > 0
        \/ result[w] = "queued" /\ m \in queued
    BY <1>2, <2>1 DEF HistInv, DoneInv
  <2> QED
    BY <1>1, <1>2, <1>3, <2>1, <2>2, ReplyRefines
<1>6. CASE Discard(w)
  <2>1. /\ Leave(w, "discarded") /\ discarded' = discarded \cup {m}
        /\ UNCHANGED <<config, sent, faults>>
    BY <1>2, <1>6 DEF Discard
  <2> QED
    BY <1>1, <1>2, <1>3, <2>1, ReplyRefines
<1>7. CASE PutBack(w)
  <2>1. /\ Leave(w, "failed") /\ UNCHANGED <<config, of, sent, discarded, faults>>
        /\ pc[w] = "failed"
    BY <1>7 DEF PutBack
  <2>2. CASE file[w] = NoFile
    <3>1. job[w] = "memory" /\ ~Done(w)
      BY <2>1, <2>2 DEF Done, Inv, CallInv
    <3>2. sent[m] <= faults
      BY <1>1, <1>2, <3>1 DEF HistInv, CallerInv
    <3> QED
      BY <1>1, <1>2, <1>3, <2>1, <3>2, ReplyRefines
  <2>3. CASE file[w] # NoFile
    <3>1. file[w] \in File /\ of[file[w]] = m
      BY <1>1, <1>2, <2>3 DEF Inv, TypeOK, CallInv
    <3>2. place'[file[w]] = "new" /\ of'[file[w]] = m
      BY <1>7, <2>1, <2>3, <3>1, PutBackTypes
    <3>3. Carried(m)'
      BY <3>1, <3>2 DEF Carried, Copies
    <3> QED
      BY <1>1, <1>2, <1>3, <2>1, <3>3, ReplyRefines
  <2> QED
    BY <2>2, <2>3
<1> QED
  BY <1>4, <1>5, <1>6, <1>7

\* A call of mq-run ends.
LEMMA RunEnds ==
  ASSUME Inv, HistInv, Inv', HistInv', NEW w \in Worker, job[w] = "run", pc'[w] = "idle",
         \/ Exception(w) \/ Crash(w) \/ Enqueue(w) \/ EnqueueError(w)
         \/ Finish(w) \/ Discard(w) \/ PutBack(w)
  PROVE  Promise!Next \/ UNCHANGED Promise!vars
<1> USE DEF fileVars, callVars, history
<1>1. pc[w] # "idle" /\ (Step(w) \/ Crash(w))
  BY DEF Exception, Crash, Enqueue, EnqueueError, Finish, Discard, PutBack, Trying, Step
<1>2. PICK m \in Msg : m = msg[w]
  BY <1>1 DEF Inv, CallInv
<1>3. /\ file[w] \in File /\ place[file[w]] = "cur" /\ of[file[w]] = m
      /\ m \in queued /\ answer[m] # "none"
  <2>1. file[w] \in File /\ place[file[w]] = "cur" /\ of[file[w]] = m
    BY <1>1, <1>2 DEF Inv, TypeOK, CallInv
  <2> QED
    BY <2>1 DEF HistInv, FilesInv, CallerInv
<1>4. /\ m \in CarriedSet /\ CarriedSet' \in {CarriedSet, CarriedSet \ {m}}
      /\ Carried(m)' <=> m \in CarriedSet'
  BY <1>1, <1>2, CarriedStep
<1>5. \A r : Leave(w, r) => answer' = answer
  BY DEF Leave
<1>6. \A f \in File : place'[f] \in {"new", "cur"} /\ of'[f] = m => Carried(m)'
  BY DEF Carried, Copies
<1>7. CASE Exception(w) \/ Crash(w) \/ EnqueueError(w)
  <2>1. /\ UNCHANGED <<config, sent, discarded, answer>>
        /\ faults' = faults + 1 /\ faults < MaxFaults
    BY <1>5, <1>7 DEF Exception, Crash, EnqueueError, Inject
  <2>2. place'[file[w]] = "cur" /\ of'[file[w]] = m
    <3>1. CASE \E f \in File : NewFile(f, msg[w], "tmp")
      BY <1>2, <1>3, <3>1, NewFileTypes
    <3> QED
      BY <1>3, <1>7, <3>1 DEF Exception, Crash, EnqueueError
  <2>3. CarriedSet' = CarriedSet
    BY <1>3, <1>4, <1>6, <2>2
  <2> QED
    BY <2>1, <2>3 DEF Promise!Next, Promise!Fault, CarriedSet
<1>8. CASE Enqueue(w)
  <2>1. msg[w] \in config.noId
    BY <1>1, <1>8 DEF Enqueue, Goto, Inv, TypeOK
  <2>2. /\ UNCHANGED <<config, sent, discarded, faults, answer>>
        /\ \E f \in File : NewFile(f, m, "new")
    BY <1>2, <1>5, <1>8, <2>1 DEF Enqueue
  <2>3. CarriedSet' = CarriedSet
    BY <1>4, <1>6, <2>2, NewFileTypes
  <2> QED
    BY <2>2, <2>3 DEF Promise!vars, CarriedSet
<1>9. CASE PutBack(w)
  <2>1. UNCHANGED <<config, sent, discarded, faults, answer>>
    BY <1>5, <1>9 DEF PutBack
  <2>2. place'[file[w]] = "new" /\ of'[file[w]] = m
    BY <1>3, <1>9, PutBackTypes, HandlerAssumption
  <2>3. CarriedSet' = CarriedSet
    BY <1>3, <1>4, <1>6, <2>2
  <2> QED
    BY <2>1, <2>3 DEF Promise!vars, CarriedSet
<1>10. CASE Finish(w)
  <2>1. UNCHANGED <<config, sent, discarded, queued, faults, answer>>
    BY <1>5, <1>10 DEF Finish
  <2>2. Carried(m)' \/ sent[m] > 0 \/ m \in discarded'
    BY <1>3, <1>6, <2>1 DEF HistInv, FilesInv, Stays
  <2>3. CASE Carried(m)'
    <3>1. CarriedSet' = CarriedSet
      BY <1>4, <2>3
    <3> QED
      BY <2>1, <3>1 DEF Promise!vars, CarriedSet
  <2>4. CASE sent[m] > 0 \/ m \in discarded'
    <3>1. Promise!Settle(m)
      BY <1>3, <1>4, <2>1, <2>4 DEF Promise!Settle, CarriedSet
    <3> QED
      BY <3>1 DEF Promise!Next
  <2> QED
    BY <2>2, <2>3, <2>4
<1>11. CASE Discard(w)
  <2>1. UNCHANGED <<config, sent, faults, answer>> /\ discarded' = discarded \cup {m}
    BY <1>2, <1>5, <1>11 DEF Discard
  <2>2. Promise!Settle(m)
    BY <1>3, <1>4, <2>1 DEF Promise!Settle, CarriedSet
  <2> QED
    BY <2>2 DEF Promise!Next
<1> QED
  BY <1>7, <1>8, <1>9, <1>10, <1>11

\* A call begins: with a new message it is handed over, with one of the queue
\* nothing changes.
LEMMA BeginRefines ==
  ASSUME Inv, HistInv, Inv', NEW w \in Worker,
         \/ \E m \in Msg : Call(w, m) \/ CallStored(w, m)
         \/ \E f \in File : Take(w, f)
  PROVE  Promise!Next \/ UNCHANGED Promise!vars
<1> USE DEF fileVars, callVars, history
<1>1. BusyCarried'
  BY CarriedWhileBusy, PTL
<1>2. ASSUME NEW kind, NEW m, NEW f, NEW lists, NEW n, Enter(w, kind, m, f, lists, n)
      PROVE  /\ pc[w] = "idle" /\ pc'[w] = "prepare" /\ msg'[w] = m /\ job'[w] = kind
             /\ \A v \in Worker : v # w => pc'[v] = pc[v] /\ job'[v] = job[v] /\ msg'[v] = msg[v]
  BY <1>2 DEF Enter, Goto, Inv, TypeOK
<1>3. ASSUME NEW m \in Msg, Call(w, m) \/ CallStored(w, m)
      PROVE  Promise!Next
  <2>1. /\ answer[m] = "none" /\ answer' = [answer EXCEPT ![m] = "pending"]
        /\ UNCHANGED <<config, sent, discarded, faults>>
    BY <1>3 DEF Call, CallStored
  <2>2. /\ pc[w] = "idle" /\ pc'[w] = "prepare" /\ msg'[w] = m
        /\ \A v \in Worker : v # w => pc'[v] = pc[v] /\ job'[v] = job[v] /\ msg'[v] = msg[v]
    BY <1>2, <1>3 DEF Call, CallStored
  <2>3. Carried(m)'
    BY <1>1, <2>2 DEF BusyCarried
  <2>4. ASSUME NEW x \in Msg, x # m
        PROVE  Carried(x)' <=> Carried(x)
    <3>1. Copies(x)' = Copies(x)
      <4>1. CASE Call(w, m)
        BY <4>1 DEF Call, Copies
      <4>2. CASE CallStored(w, m)
        <5>1. PICK f \in File : NewFile(f, m, "cur")
          BY <4>2 DEF CallStored
        <5>2. /\ place[f] = "none" /\ of'[f] = m
              /\ \A g \in File : g # f => place'[g] = place[g] /\ of'[g] = of[g]
          BY <5>1, NewFileTypes
        <5> QED
          BY <2>4, <5>2 DEF Copies
      <4> QED
        BY <1>3, <4>1, <4>2
    <3> QED
      BY <2>2, <2>4, <3>1 DEF Carried
  <2>5. CarriedSet' = CarriedSet \cup {m}
    BY <2>3, <2>4 DEF CarriedSet
  <2>6. Promise!Call(m)
    BY <2>1, <2>5 DEF Promise!Call, CarriedSet
  <2> QED
    BY <2>6 DEF Promise!Next
<1>4. ASSUME NEW f \in File, Take(w, f)
      PROVE  UNCHANGED Promise!vars
  <2>1. /\ place[f] = "new" /\ place' = [place EXCEPT ![f] = "cur"]
        /\ UNCHANGED <<config, of, sent, discarded, answer, faults>>
    BY <1>4 DEF Take
  <2>2. /\ pc[w] = "idle" /\ job'[w] = "run"
        /\ \A v \in Worker : v # w => pc'[v] = pc[v] /\ job'[v] = job[v] /\ msg'[v] = msg[v]
    BY <1>2, <1>4 DEF Take
  <2>3. \A x : Copies(x)' = Copies(x)
    BY <2>1 DEF Copies, Inv, TypeOK
  <2>4. CarriedSet' = CarriedSet
    BY <2>2, <2>3 DEF CarriedSet, Carried
  <2> QED
    BY <2>1, <2>4 DEF Promise!vars, CarriedSet
<1> QED
  BY <1>3, <1>4

\* Every step of the system is one of the service, or none.
LEMMA NextRefines ==
  ASSUME Inv, HistInv, NoSurplus, Inv', HistInv', [Next]_vars
  PROVE  Promise!Next \/ UNCHANGED Promise!vars
<1> USE DEF fileVars, callVars, history
<1>1. ASSUME NEW w \in Worker, Step(w) \/ Crash(w)
      PROVE  Promise!Next \/ UNCHANGED Promise!vars
  <2>1. CASE Accepted(w) \/ ReplyLost(w)
    BY <2>1, DeliverRefines DEF Promise!Next
  <2>2. CASE Prepare(w) \/ Refused(w) \/ NotifySuccess(w) \/ NotifyFailure(w)
    <3>1. /\ pc[w] # "idle" /\ pc'[w] # "idle" /\ msg' = msg
          /\ UNCHANGED <<config, sent, discarded, answer, faults>>
      BY <2>2 DEF Prepare, Refused, NotifySuccess, NotifyFailure, NextTransport, Trying,
         Goto, Inv, TypeOK
    <3> QED
      BY <1>1, <3>1, NoStep
  <2>3. CASE Enqueue(w) /\ pc'[w] # "idle"
    <3>1. msg[w] \notin config.noId
      BY <2>3 DEF Enqueue, Leave, Goto, Inv, TypeOK
    <3>2. /\ pc[w] # "idle" /\ msg' = msg
          /\ UNCHANGED <<config, sent, discarded, answer, faults>>
      BY <2>3, <3>1 DEF Enqueue, Trying
    <3> QED
      BY <1>1, <2>3, <3>2, NoStep
  <2>4. CASE \/ BadArguments(w) \/ Exception(w) \/ Crash(w) \/ EnqueueError(w)
             \/ Enqueue(w) /\ pc'[w] = "idle"
             \/ Finish(w) \/ Discard(w) \/ PutBack(w)
    <3>1. pc'[w] = "idle"
      BY <2>4 DEF BadArguments, Exception, Crash, EnqueueError, Finish, Discard, PutBack,
         Leave, Goto, Inv, TypeOK
    <3>2. BadArguments(w) => job[w] # "run"
      BY DEF BadArguments
    <3> QED
      BY <2>4, <3>1, <3>2, CallerEnds, RunEnds DEF Promise!Next
  <2> QED
    BY <1>1, <2>1, <2>2, <2>3, <2>4 DEF Step
<1>2. ASSUME NEW f \in File, Unblock(f)
      PROVE  UNCHANGED Promise!vars
  <2>1. /\ place[f] = "cur" /\ place' = [place EXCEPT ![f] = "new"]
        /\ UNCHANGED <<config, of, pc, job, msg, sent, discarded, answer, faults>>
    BY <1>2 DEF Unblock
  <2>2. \A x : Copies(x)' = Copies(x)
    BY <2>1 DEF Copies, Inv, TypeOK
  <2>3. CarriedSet' = CarriedSet
    BY <2>1, <2>2 DEF CarriedSet, Carried
  <2> QED
    BY <2>1, <2>3 DEF Promise!vars, CarriedSet
<1>3. CASE UNCHANGED vars
  BY <1>3 DEF vars, Promise!vars, Carried, Copies
<1> QED
  BY <1>1, <1>2, <1>3, BeginRefines DEF Next

\* MessageHandler implements MailService.
THEOREM KeepsThePromise == Spec => Implements
<1>1. Init => Promise!Init
  BY HandlerAssumption DEF Init, Promise!Init, Carried, Copies, Config
<1>2. Inv /\ HistInv /\ NoSurplus /\ (Inv /\ HistInv)' /\ [Next]_vars
        => [Promise!Next]_(Promise!vars)
  BY NextRefines
<1> QED
  BY <1>1, <1>2, History, OncePerFault, PTL DEF Spec, Implements, Promise!Spec
=============================================================================
