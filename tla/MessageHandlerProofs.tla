------------------------ MODULE MessageHandlerProofs ------------------------
(***************************************************************************)
(* What TLAPS proves about MessageHandler, for any number of messages,     *)
(* workers, files, transports and faults.                                  *)
(*                                                                         *)
(* The argument: a file in cur/ is held by one call at most, and a call    *)
(* that holds one works on the message in it; so whatever a transport      *)
(* does to a message, exactly one file or one call in memory answers for   *)
(* it.                                                                     *)
(***************************************************************************)
EXTENDS MessageHandler, SequenceTheorems, FiniteSetTheorems, TLAPS

-----------------------------------------------------------------------------
(* Types.  They need to know that a call has a message, and a file unless   *)
(* it is one in memory.                                                     *)

CallInv ==
    \A w \in Worker :
        /\ pc[w] = "idle" => file[w] = NoFile
        /\ pc[w] # "idle" => msg[w] \in Msg /\ job[w] # "none"
                             /\ (job[w] = "memory" <=> file[w] = NoFile)
        /\ file[w] # NoFile => place[file[w]] = "cur" /\ of[file[w]] = msg[w]

\* Nobody else has the file.
OwnInv == \A v, w \in Worker : file[v] = file[w] /\ file[w] # NoFile => v = w

FileInv == \A f \in File : place[f] # "none" => of[f] \in Msg

Inv == TypeOK /\ CallInv /\ OwnInv /\ FileInv

\* A settings record has a handler and a set of messages without an id.
LEMMA ConfigTyped ==
  ASSUME Inv
  PROVE  /\ config.handler \in Seq(Transport)
         /\ config.limit \in Nat \cup {NoLimit}
         /\ config.limit # NoLimit => config.limit < MaxRefusals
  BY HandlerAssumption DEF Inv, TypeOK, Config

\* The first half of the types: files and calls.
CallTypes ==
    /\ place \in [File -> {"none", "tmp", "new", "cur"}]
    /\ of \in [File -> Msg \cup {NoMsg}]
    /\ pc \in [Worker -> Busy \cup {"idle"}]
    /\ job \in [Worker -> {"none", "memory", "stored", "run"}]
    /\ msg \in [Worker -> Msg \cup {NoMsg}]
    /\ file \in [Worker -> File \cup {NoFile}]
    /\ CallInv /\ OwnInv /\ FileInv

\* The second half: what a call has found out, and history.
ResultTypes ==
    /\ config \in Configs
    /\ retries \in [File -> Nat]
    /\ left \in [Worker -> Seq(Transport)]
    /\ count \in [Worker -> Nat]
    /\ result \in [Worker -> {"failed", "sent", "queued"}]
    /\ told \in [Worker -> Seq({"successful", "failed"})]
    /\ sent \in [Msg -> Nat]
    /\ refusals \in [Msg -> Nat]
    /\ discarded \subseteq Msg
    /\ answer \in [Msg -> Answers]
    /\ queued \subseteq Msg
    /\ faults \in 0 .. MaxFaults

\* A call goes on, with the message and the file it has.
LEMMA GoOnTypes ==
  ASSUME Inv, NEW w \in Worker, pc[w] # "idle", NEW label \in Busy, Goto(w, label),
         UNCHANGED <<job, msg, file>>,
         place' \in [File -> {"none", "tmp", "new", "cur"}],
         of' \in [File -> Msg \cup {NoMsg}], FileInv',
         \A f \in File : place[f] = "cur" => place'[f] = "cur" /\ of'[f] = of[f]
  PROVE  CallTypes'
<1>1. pc' = [pc EXCEPT ![w] = label]
  BY DEF Goto
<1>2. CallInv'
  <2> SUFFICES ASSUME NEW v \in Worker
               PROVE  /\ pc'[v] = "idle" => file[v] = NoFile
                      /\ pc'[v] # "idle" => msg[v] \in Msg /\ job[v] # "none"
                                             /\ (job[v] = "memory" <=> file[v] = NoFile)
                      /\ file[v] # NoFile => place'[file[v]] = "cur" /\ of'[file[v]] = msg[v]
    BY DEF CallInv
  <2>1. pc'[v] = "idle" <=> pc[v] = "idle"
    BY <1>1 DEF Inv, TypeOK, Busy
  <2>2. file[v] \in File \cup {NoFile}
    BY DEF Inv, TypeOK
  <2> QED
    BY <2>1, <2>2 DEF Inv, CallInv
<1>3. pc' \in [Worker -> Busy \cup {"idle"}]
  BY <1>1 DEF Inv, TypeOK
<1> QED
  BY <1>2, <1>3 DEF Inv, TypeOK, CallTypes, OwnInv

\* A call ends; the files of the others stay what they are.
LEMMA LeaveCall ==
  ASSUME Inv, NEW w \in Worker, NEW r, Leave(w, r),
         place' \in [File -> {"none", "tmp", "new", "cur"}],
         of' \in [File -> Msg \cup {NoMsg}], FileInv',
         \A f \in File : f # file[w] /\ place[f] = "cur" =>
                            place'[f] = "cur" /\ of'[f] = of[f]
  PROVE  CallTypes'
<1>1. /\ pc' = [pc EXCEPT ![w] = "idle"] /\ job' = [job EXCEPT ![w] = "none"]
      /\ msg' = [msg EXCEPT ![w] = NoMsg] /\ file' = [file EXCEPT ![w] = NoFile]
  BY DEF Leave, Goto
<1>2. /\ pc' \in [Worker -> Busy \cup {"idle"}]
      /\ job' \in [Worker -> {"none", "memory", "stored", "run"}]
      /\ msg' \in [Worker -> Msg \cup {NoMsg}] /\ file' \in [Worker -> File \cup {NoFile}]
  BY <1>1 DEF Inv, TypeOK
<1>3. /\ pc'[w] = "idle" /\ file'[w] = NoFile
      /\ \A v \in Worker : v # w => /\ pc'[v] = pc[v] /\ job'[v] = job[v]
                                     /\ msg'[v] = msg[v] /\ file'[v] = file[v]
  BY <1>1 DEF Inv, TypeOK
<1>4. OwnInv'
  BY <1>3 DEF Inv, OwnInv
<1>5. \A v \in Worker : v # w /\ file[v] # NoFile =>
        file[v] \in File /\ file[v] # file[w] /\ place[file[v]] = "cur"
  BY DEF Inv, TypeOK, OwnInv, CallInv
<1>6. CallInv'
  BY <1>3, <1>5 DEF Inv, CallInv
<1> QED
  BY <1>2, <1>4, <1>6 DEF CallTypes

\* A file more, under a name that was not in use.
LEMMA NewFileTypes ==
  ASSUME Inv, NEW f \in File, NEW m \in Msg, NEW folder \in {"tmp", "new", "cur"},
         NewFile(f, m, folder)
  PROVE  /\ place' \in [File -> {"none", "tmp", "new", "cur"}]
         /\ of' \in [File -> Msg \cup {NoMsg}] /\ FileInv'
         /\ retries' \in [File -> Nat]
         /\ place[f] = "none" /\ place'[f] = folder /\ of'[f] = m /\ retries'[f] = 0
         /\ \A g \in File : g # f => /\ place'[g] = place[g] /\ of'[g] = of[g]
                                      /\ retries'[g] = retries[g]
  BY DEF NewFile, Inv, TypeOK, FileInv

\* The file of a call is gone.
LEMMA UnlinkTypes ==
  ASSUME Inv, NEW w \in Worker, Unlink(w)
  PROVE  /\ place' \in [File -> {"none", "tmp", "new", "cur"}]
         /\ of' \in [File -> Msg \cup {NoMsg}] /\ FileInv'
         /\ file[w] # NoFile => place'[file[w]] = "none"
         /\ \A g \in File : g # file[w] => place'[g] = place[g] /\ of'[g] = of[g]
<1>1. CASE file[w] = NoFile
  BY <1>1 DEF Unlink, Inv, TypeOK, FileInv
<1>2. CASE file[w] # NoFile
  BY <1>2 DEF Unlink, Inv, TypeOK, FileInv
<1> QED
  BY <1>1, <1>2

\* The file of a call is back in new/.
LEMMA PutBackTypes ==
  ASSUME Inv, NEW w \in Worker, PutBack(w)
  PROVE  /\ place' \in [File -> {"none", "tmp", "new", "cur"}]
         /\ of' = of /\ FileInv'
         /\ file[w] # NoFile => place'[file[w]] = "new" /\ retries'[file[w]] = count[w]
         /\ retries' \in [File -> Nat]
         /\ \A g \in File : g # file[w] => place'[g] = place[g] /\ retries'[g] = retries[g]
<1>1. CASE file[w] = NoFile
  BY <1>1 DEF PutBack, Inv, TypeOK, FileInv
<1>2. CASE file[w] # NoFile
  <2>1. file[w] \in File /\ of[file[w]] \in Msg /\ count[w] \in Nat
    BY <1>2 DEF PutBack, Inv, TypeOK, CallInv
  <2>2. /\ place' = [place EXCEPT ![file[w]] = "new"] /\ of' = of
        /\ retries' = [retries EXCEPT ![file[w]] = count[w]]
    BY <1>2 DEF PutBack
  <2>3. FileInv'
    BY <2>1, <2>2 DEF Inv, TypeOK, FileInv
  <2> QED
    BY <2>1, <2>2, <2>3 DEF Inv, TypeOK
<1> QED
  BY <1>1, <1>2

\* Files and calls: each step of a call.
LEMMA CallStep ==
  ASSUME Inv, NEW w \in Worker, Step(w) \/ Crash(w)
  PROVE  CallTypes'
<1>1. /\ place \in [File -> {"none", "tmp", "new", "cur"}]
      /\ of \in [File -> Msg \cup {NoMsg}] /\ FileInv
      /\ pc[w] # "idle" => msg[w] \in Msg
  BY DEF Inv, TypeOK, CallInv
<1>2. ASSUME UNCHANGED <<place, of>> PROVE FileInv'
  BY <1>1, <1>2 DEF FileInv
<1>3. CASE BadArguments(w) \/ Exception(w) \/ Crash(w)
  <2>1. UNCHANGED <<place, of>> /\ \E r : Leave(w, r)
    BY <1>3 DEF BadArguments, Exception, Crash, fileVars
  <2> QED
    BY <1>1, <1>2, <2>1, LeaveCall
<1>4. CASE \/ Prepare(w) \/ Accepted(w) \/ Refused(w) \/ ReplyLost(w)
           \/ NotifySuccess(w) \/ NotifyFailure(w)
  <2>1. /\ UNCHANGED <<place, of, job, msg, file>> /\ pc[w] # "idle"
        /\ \E label \in Busy : Goto(w, label)
    BY <1>4 DEF Prepare, Accepted, Refused, ReplyLost, NextTransport, NotifySuccess,
       NotifyFailure, Trying, Busy, Goto, fileVars, callVars, Inv, TypeOK
  <2> QED
    BY <1>1, <1>2, <2>1, GoOnTypes
<1>5. CASE Enqueue(w)
  <2>1. PICK f \in File : NewFile(f, msg[w], "new")
    BY <1>5 DEF Enqueue
  <2>2. pc[w] = "transport" /\ msg[w] \in Msg
    BY <1>1, <1>5 DEF Enqueue, Trying
  <2>3. CASE msg[w] \in config.noId
    BY <1>5, <2>1, <2>2, <2>3, NewFileTypes, LeaveCall DEF Enqueue
  <2>4. CASE msg[w] \notin config.noId
    <3>1. Goto(w, "accepted") /\ UNCHANGED <<job, msg, file>>
      BY <1>5, <2>4 DEF Enqueue
    <3> QED
      BY <2>1, <2>2, <3>1, NewFileTypes, GoOnTypes DEF Busy
  <2> QED
    BY <2>3, <2>4
<1>6. CASE EnqueueError(w)
  <2>1. pc[w] = "transport" /\ msg[w] \in Msg /\ Leave(w, "raised")
    BY <1>1, <1>6 DEF EnqueueError, Trying
  <2>2. CASE UNCHANGED fileVars
    BY <1>1, <1>2, <2>1, <2>2, LeaveCall DEF fileVars
  <2>3. CASE \E f \in File : NewFile(f, msg[w], "tmp")
    BY <2>1, <2>3, NewFileTypes, LeaveCall
  <2> QED
    BY <1>6, <2>2, <2>3 DEF EnqueueError
<1>7. CASE Finish(w) \/ Discard(w)
  <2>1. Unlink(w) /\ \E r : Leave(w, r)
    BY <1>7 DEF Finish, Discard
  <2> QED
    BY <2>1, UnlinkTypes, LeaveCall
<1>8. CASE PutBack(w)
  <2>1. Leave(w, "failed")
    BY <1>8 DEF PutBack
  <2> QED
    BY <1>1, <1>8, <2>1, PutBackTypes, LeaveCall
<1> QED
  BY <1>3, <1>4, <1>5, <1>6, <1>7, <1>8 DEF Step

\* A call begins, with a file nobody holds or with none.
LEMMA EnterTypes ==
  ASSUME Inv, NEW w \in Worker, NEW kind \in {"memory", "stored", "run"}, NEW m \in Msg,
         NEW f \in File \cup {NoFile}, NEW lists, NEW n, Enter(w, kind, m, f, lists, n),
         kind = "memory" <=> f = NoFile,
         \A v \in Worker : f # NoFile => file[v] # f,
         place' \in [File -> {"none", "tmp", "new", "cur"}],
         of' \in [File -> Msg \cup {NoMsg}], FileInv',
         f # NoFile => place'[f] = "cur" /\ of'[f] = m,
         \A g \in File : g # f /\ place[g] = "cur" => place'[g] = "cur" /\ of'[g] = of[g]
  PROVE  CallTypes'
<1>1. /\ pc[w] = "idle" /\ pc' = [pc EXCEPT ![w] = "prepare"]
      /\ job' = [job EXCEPT ![w] = kind] /\ msg' = [msg EXCEPT ![w] = m]
      /\ file' = [file EXCEPT ![w] = f]
  BY DEF Enter, Goto
<1>2. /\ pc' \in [Worker -> Busy \cup {"idle"}]
      /\ job' \in [Worker -> {"none", "memory", "stored", "run"}]
      /\ msg' \in [Worker -> Msg \cup {NoMsg}] /\ file' \in [Worker -> File \cup {NoFile}]
  BY <1>1 DEF Inv, TypeOK, Busy
<1>3. /\ pc'[w] = "prepare" /\ job'[w] = kind /\ msg'[w] = m /\ file'[w] = f
      /\ \A v \in Worker : v # w => /\ pc'[v] = pc[v] /\ job'[v] = job[v]
                                     /\ msg'[v] = msg[v] /\ file'[v] = file[v]
  BY <1>1 DEF Inv, TypeOK
<1>4. OwnInv'
  BY <1>3 DEF Inv, OwnInv
<1>5. \A v \in Worker : file[v] # NoFile =>
        file[v] \in File /\ file[v] # f /\ place[file[v]] = "cur"
  BY DEF Inv, TypeOK, CallInv
<1>6. CallInv'
  BY <1>3, <1>5 DEF Inv, CallInv
<1> QED
  BY <1>2, <1>4, <1>6 DEF CallTypes

\* ... and each call of send_message().
LEMMA CallEnter ==
  ASSUME Inv, NEW w \in Worker,
         \/ \E m \in Msg : Call(w, m) \/ CallStored(w, m)
         \/ \E f \in File : Take(w, f)
  PROVE  CallTypes'
<1>1. /\ place \in [File -> {"none", "tmp", "new", "cur"}]
      /\ of \in [File -> Msg \cup {NoMsg}] /\ FileInv
      /\ \A v \in Worker : file[v] # NoFile => place[file[v]] = "cur"
      /\ NoFile \notin File
  BY HandlerAssumption DEF Inv, TypeOK, CallInv
<1>2. ASSUME NEW m \in Msg, Call(w, m)
      PROVE  CallTypes'
  <2>1. Enter(w, "memory", m, NoFile, CallerLists, 0) /\ UNCHANGED <<place, of>>
    BY <1>2 DEF Call, fileVars
  <2>2. FileInv'
    BY <1>1, <2>1 DEF FileInv
  <2> QED
    BY <1>1, <2>1, <2>2, EnterTypes
<1>3. ASSUME NEW m \in Msg, CallStored(w, m)
      PROVE  CallTypes'
  <2>1. PICK f \in File : NewFile(f, m, "cur") /\ Enter(w, "stored", m, f, CallerLists, 0)
    BY <1>3 DEF CallStored
  <2>2. place[f] = "none" /\ \A v \in Worker : file[v] # f
    BY <1>1, <2>1 DEF NewFile
  <2> QED
    BY <1>1, <2>1, <2>2, NewFileTypes, EnterTypes
<1>4. ASSUME NEW f \in File, Take(w, f)
      PROVE  CallTypes'
  <2>1. /\ place[f] = "new" /\ place' = [place EXCEPT ![f] = "cur"] /\ of' = of
        /\ Enter(w, "run", of[f], f, {config.handler}, retries[f])
    BY <1>4 DEF Take
  <2>2. of[f] \in Msg /\ \A v \in Worker : file[v] # f
    BY <1>1, <2>1 DEF FileInv
  <2>3. /\ place' \in [File -> {"none", "tmp", "new", "cur"}]
        /\ place'[f] = "cur" /\ \A g \in File : g # f => place'[g] = place[g]
    BY <1>1, <2>1
  <2>4. FileInv'
    BY <1>1, <2>1, <2>2, <2>3 DEF FileInv
  <2> QED
    BY <1>1, <2>1, <2>2, <2>3, <2>4, EnterTypes
<1> QED
  BY <1>2, <1>3, <1>4

\* What a call leaves behind has its type.
LEMMA LeaveTypes ==
  ASSUME Inv, NEW w \in Worker, NEW r \in Answers, Leave(w, r)
  PROVE  /\ left' \in [Worker -> Seq(Transport)]
         /\ count' \in [Worker -> Nat]
         /\ result' \in [Worker -> {"failed", "sent", "queued"}]
         /\ told' \in [Worker -> Seq({"successful", "failed"})]
         /\ answer' \in [Msg -> Answers]
<1>1. answer' \in [Msg -> Answers]
  <2>1. CASE job[w] = "run"
    BY <2>1 DEF Leave, Inv, TypeOK
  <2>2. CASE job[w] # "run"
    BY <2>2 DEF Leave, Inv, TypeOK
  <2> QED
    BY <2>1, <2>2
<1>2. <<>> \in Seq(Transport) /\ <<>> \in Seq({"successful", "failed"})
  BY EmptySeq
<1> QED
  BY <1>1, <1>2 DEF Leave, Inv, TypeOK

\* The rest, for each step.
LEMMA ResultStep ==
  ASSUME Inv, NEW w \in Worker, Step(w) \/ Crash(w)
  PROVE  ResultTypes'
<1> USE DEF Inv, TypeOK, fileVars, callVars, history, ResultTypes
<1>1. \A kind : Inject(kind) => faults' \in 0 .. MaxFaults
  BY HandlerAssumption DEF Inject
<1>2. {"raised", "killed", "discarded", "failed", "sent", "queued"} \subseteq Answers
  BY DEF Answers
<1>3. CASE Prepare(w)
  BY <1>3 DEF Prepare
<1>4. CASE BadArguments(w)
  BY <1>2, <1>4, LeaveTypes DEF BadArguments
<1>5. CASE Exception(w) \/ Crash(w)
  BY <1>1, <1>2, <1>5, LeaveTypes DEF Exception, Crash
<1>6. CASE Accepted(w)
  <2>1. sent' \in [Msg -> Nat]
    <3>1. sent[msg[w]] \in Nat /\ msg[w] \in Msg
      BY <1>6 DEF Accepted, Trying, CallInv
    <3> QED
      BY <1>6, <3>1 DEF Accepted
  <2>2. result' \in [Worker -> {"failed", "sent", "queued"}]
    BY <1>6 DEF Accepted
  <2> QED
    BY <1>6, <2>1, <2>2 DEF Accepted
<1>7. CASE Refused(w) \/ ReplyLost(w)
  <2>1. left[w] # <<>> /\ left[w] \in Seq(Transport)
    BY <1>7 DEF Refused, ReplyLost, Trying
  <2>2. Tail(left[w]) \in Seq(Transport)
    BY <2>1
  <2>3. NextTransport(w)
    BY <1>7 DEF Refused, ReplyLost
  <2>4. left' \in [Worker -> Seq(Transport)]
    BY <2>2, <2>3 DEF NextTransport
  <2>5. refusals' \in [Msg -> Nat]
    <3>1. refusals[msg[w]] \in Nat /\ msg[w] \in Msg
      BY <1>7 DEF Refused, ReplyLost, Trying, CallInv
    <3> QED
      BY <2>3, <3>1 DEF NextTransport
  <2>6. sent' \in [Msg -> Nat] /\ told' = told /\ faults' \in 0 .. MaxFaults
    BY <1>1, <1>7 DEF Refused, ReplyLost
  <2> QED
    BY <2>3, <2>4, <2>5, <2>6 DEF NextTransport
<1>8. CASE Enqueue(w)
  <2>1. msg[w] \in Msg
    BY <1>8 DEF Enqueue, Trying, CallInv
  <2>2. retries' \in [File -> Nat]
    BY <1>8, <2>1, NewFileTypes DEF Enqueue
  <2>3. queued' \subseteq Msg
    BY <1>8, <2>1 DEF Enqueue
  <2>4. UNCHANGED <<config, sent, refusals, discarded, faults>>
    BY <1>8 DEF Enqueue
  <2>5. CASE msg[w] \in config.noId
    BY <1>2, <1>8, <2>2, <2>3, <2>4, <2>5, LeaveTypes DEF Enqueue
  <2>6. CASE msg[w] \notin config.noId
    BY <1>8, <2>2, <2>3, <2>4, <2>6 DEF Enqueue
  <2> QED
    BY <2>5, <2>6
<1>9. CASE EnqueueError(w)
  <2>1. msg[w] \in Msg
    BY <1>9 DEF EnqueueError, Trying, CallInv
  <2>2. retries' \in [File -> Nat]
    BY <1>9, <2>1, NewFileTypes DEF EnqueueError
  <2> QED
    BY <1>1, <1>2, <1>9, <2>2, LeaveTypes DEF EnqueueError
<1>10. CASE NotifySuccess(w) \/ NotifyFailure(w)
  <2>1. /\ Append(told[w], "successful") \in Seq({"successful", "failed"})
        /\ Append(told[w], "failed") \in Seq({"successful", "failed"})
    OBVIOUS
  <2>2. told' \in [Worker -> Seq({"successful", "failed"})]
    BY <1>10, <2>1 DEF NotifySuccess, NotifyFailure
  <2>3. count' \in [Worker -> Nat]
    BY <1>10 DEF NotifySuccess, NotifyFailure
  <2> QED
    BY <1>10, <2>2, <2>3 DEF NotifySuccess, NotifyFailure
<1>11. CASE Finish(w)
  <2>1. \E r \in Answers : Leave(w, r)
    BY <1>2, <1>11 DEF Finish
  <2> QED
    BY <1>11, <2>1, LeaveTypes DEF Finish
<1>12. CASE Discard(w)
  <2>1. msg[w] \in Msg /\ Leave(w, "discarded")
    BY <1>12 DEF Discard, CallInv
  <2> QED
    BY <1>2, <1>12, <2>1, LeaveTypes DEF Discard
<1>13. CASE PutBack(w)
  BY <1>2, <1>13, LeaveTypes, PutBackTypes DEF PutBack
<1> QED
  BY <1>3, <1>4, <1>5, <1>6, <1>7, <1>8, <1>9, <1>10, <1>11, <1>12, <1>13 DEF Step

\* ... and for each call.
LEMMA ResultEnter ==
  ASSUME Inv, NEW w \in Worker,
         \/ \E m \in Msg : Call(w, m) \/ CallStored(w, m)
         \/ \E f \in File : Take(w, f)
  PROVE  ResultTypes'
<1> USE DEF Inv, TypeOK, Goto, fileVars, callVars, history, ResultTypes, Answers, Busy
<1>1. ASSUME NEW kind, NEW m, NEW f, NEW lists \in SUBSET Seq(Transport), NEW n \in Nat,
             Enter(w, kind, m, f, lists, n)
      PROVE  /\ left' \in [Worker -> Seq(Transport)] /\ count' \in [Worker -> Nat]
             /\ result' \in [Worker -> {"failed", "sent", "queued"}]
             /\ told' \in [Worker -> Seq({"successful", "failed"})]
  BY <1>1 DEF Enter
<1>2. ASSUME NEW m \in Msg, Call(w, m)
      PROVE  ResultTypes'
  BY <1>1, <1>2, HandlerAssumption DEF Call
<1>3. ASSUME NEW m \in Msg, CallStored(w, m)
      PROVE  ResultTypes'
  <2>1. retries' \in [File -> Nat]
    BY <1>3 DEF CallStored, NewFile
  <2>2. \E f \in File : Enter(w, "stored", m, f, CallerLists, 0)
    BY <1>3 DEF CallStored
  <2> QED
    BY <1>1, <1>3, <2>1, <2>2, HandlerAssumption DEF CallStored
<1>4. ASSUME NEW f \in File, Take(w, f)
      PROVE  ResultTypes'
  <2>1. {config.handler} \in SUBSET Seq(Transport) /\ retries[f] \in Nat
    BY ConfigTyped
  <2> QED
    BY <1>1, <1>4, <2>1 DEF Take
<1> QED
  BY <1>2, <1>3, <1>4

\* The invariant holds at the start and is kept.
LEMMA InvStep ==
  ASSUME Inv, [Next]_vars
  PROVE  Inv'
<1> USE DEF CallTypes, ResultTypes
<1>1. ASSUME NEW w \in Worker, Step(w) \/ Crash(w)
      PROVE  Inv'
  BY <1>1, CallStep, ResultStep DEF Inv, TypeOK
<1>2. ASSUME NEW w \in Worker, NEW m \in Msg, Call(w, m) \/ CallStored(w, m)
      PROVE  Inv'
  BY <1>2, CallEnter, ResultEnter DEF Inv, TypeOK
<1>3. ASSUME NEW w \in Worker, NEW f \in File, Take(w, f)
      PROVE  Inv'
  BY <1>3, CallEnter, ResultEnter DEF Inv, TypeOK
<1>4. ASSUME NEW f \in File, Unblock(f)
      PROVE  Inv'
  BY <1>4, HandlerAssumption
  DEF Unblock, Held, Inv, TypeOK, CallInv, OwnInv, FileInv, callVars, history
<1>5. CASE UNCHANGED vars
  BY <1>5 DEF vars, fileVars, callVars, history, Inv, TypeOK, CallInv, OwnInv, FileInv
<1> QED
  BY <1>1, <1>2, <1>3, <1>4, <1>5 DEF Next

\* A call has one message and one file, which nobody else has, in every
\* reachable state.
THEOREM CallsApart == Spec => []Inv
<1>1. Init => Inv
  BY HandlerAssumption
  DEF Init, Inv, TypeOK, CallInv, OwnInv, FileInv, Answers, Busy
<1> QED
  BY <1>1, InvStep, PTL DEF Spec

\* Every variable keeps its type.
THEOREM TypeCorrect == Spec => []TypeOK
<1>1. Inv => TypeOK
  BY DEF Inv
<1> QED
  BY <1>1, CallsApart, PTL

-----------------------------------------------------------------------------
(* What was in the queue, and what callers are told.                        *)

\* Callers hand a message over once and wait for their answer; while the
\* message is in memory only, no server has it but for a fault.
CallerInv ==
    /\ \A w \in Worker : pc[w] # "idle" /\ job[w] # "run" => answer[msg[w]] = "pending"
    /\ \A v, w \in Worker :
         /\ pc[v] # "idle" /\ job[v] # "run" /\ pc[w] # "idle" /\ job[w] # "run"
         /\ msg[v] = msg[w]
         => v = w
    /\ \A w \in Worker : pc[w] # "idle" /\ job[w] = "memory" /\ ~Done(w) =>
         msg[w] \notin queued /\ sent[msg[w]] <= faults
    /\ \A m \in Msg : answer[m] = "none" => sent[m] = 0 /\ m \notin queued

\* What a transport has answered is true.
DoneInv ==
    \A w \in Worker : Done(w) =>
        \/ result[w] = "sent" /\ sent[msg[w]] > 0
        \/ result[w] = "queued" /\ msg[w] \in queued

\* f holds m, and is not about to be removed in favour of a copy.
Stays(f, m) ==
    /\ of[f] = m /\ place[f] \in {"new", "cur"}
    /\ \A w \in Worker : file[w] = f /\ Done(w) => result[w] # "queued"

FilesInv ==
    /\ \A f \in File : place[f] \in {"new", "cur"} => of[f] \in queued
    /\ \A m \in queued : (\E f \in File : Stays(f, m)) \/ sent[m] > 0 \/ m \in discarded

AnswerInv ==
    \A m \in Msg :
        /\ answer[m] = "sent" => sent[m] > 0
        /\ answer[m] = "queued" => m \in queued
        /\ answer[m] \in {"failed", "discarded"} /\ m \notin queued => sent[m] <= faults

HistInv == CallerInv /\ DoneInv /\ FilesInv /\ AnswerInv

\* Only a call in memory works on a message that never was in the queue.
LEMMA InMemory ==
  ASSUME Inv, HistInv, NEW w \in Worker, pc[w] # "idle", msg[w] \notin queued
  PROVE  /\ job[w] = "memory" /\ file[w] = NoFile
         /\ \A v \in Worker : pc[v] # "idle" /\ msg[v] = msg[w] => v = w
<1>1. ASSUME NEW v \in Worker, pc[v] # "idle", msg[v] = msg[w]
      PROVE  job[v] = "memory" /\ file[v] = NoFile
  BY <1>1 DEF Inv, TypeOK, CallInv, HistInv, FilesInv
<1> QED
  BY <1>1 DEF HistInv, CallerInv

\* The end of a call is true to what became of its message.
LEMMA LeaveHist ==
  ASSUME Inv, HistInv, NEW w \in Worker, pc[w] # "idle",
         NEW r \in Answers \ {"none", "pending"}, Leave(w, r),
         sent' = sent, faults' \in {faults, faults + 1},
         queued \subseteq queued', queued' \subseteq queued \cup {msg[w]},
         r = "sent" => sent[msg[w]] > 0,
         r = "queued" => msg[w] \in queued',
         r \in {"failed", "discarded"} => msg[w] \in queued' \/ sent[msg[w]] <= faults
  PROVE  CallerInv' /\ DoneInv' /\ AnswerInv'
<1>1. /\ pc' = [pc EXCEPT ![w] = "idle"] /\ job' = [job EXCEPT ![w] = "none"]
      /\ msg' = [msg EXCEPT ![w] = NoMsg]
      /\ result' = [result EXCEPT ![w] = "failed"]
      /\ answer' = IF job[w] = "run" THEN answer ELSE [answer EXCEPT ![msg[w]] = r]
  BY DEF Leave, Goto
<1>2. /\ pc'[w] = "idle" /\ job'[w] = "none"
      /\ \A v \in Worker : v # w => /\ pc'[v] = pc[v] /\ job'[v] = job[v]
                                     /\ msg'[v] = msg[v] /\ result'[v] = result[v]
  BY <1>1 DEF Inv, TypeOK
<1>3. faults \in Nat /\ sent \in [Msg -> Nat] /\ \A v \in Worker : pc[v] # "idle" => msg[v] \in Msg
  BY DEF Inv, TypeOK, CallInv
<1>4. \A m \in Msg : m # msg[w] \/ job[w] = "run" => answer'[m] = answer[m]
  BY <1>1 DEF Inv, TypeOK
<1>5. job[w] # "run" => answer'[msg[w]] = r
  BY <1>1, <1>3 DEF Inv, TypeOK
<1>6. \A v \in Worker : Done(v)' => v # w /\ Done(v)
  BY <1>2 DEF Done
<1>7. CallerInv'
  <2>1. \A v \in Worker : pc'[v] # "idle" /\ job'[v] # "run" => answer'[msg'[v]] = "pending"
    BY <1>2, <1>3, <1>4 DEF HistInv, CallerInv
  <2>2. ASSUME NEW v \in Worker, pc'[v] # "idle", job'[v] = "memory", ~Done(v)'
        PROVE  msg'[v] \notin queued' /\ sent[msg'[v]] <= faults'
    <3>1. v # w /\ pc[v] # "idle" /\ job[v] = "memory" /\ ~Done(v) /\ msg'[v] = msg[v]
      BY <1>2, <2>2 DEF Done
    <3>2. msg[v] \notin queued /\ sent[msg[v]] <= faults /\ msg[v] \in Msg
      BY <1>3, <3>1 DEF HistInv, CallerInv
    <3>3. msg[v] # msg[w]
      BY <3>1, <3>2, InMemory
    <3> QED
      BY <1>3, <3>1, <3>2, <3>3
  <2>3. ASSUME NEW m \in Msg, answer'[m] = "none"
        PROVE  sent[m] = 0 /\ m \notin queued'
    <3>1. answer[m] = "none"
      BY <1>4, <1>5, <2>3 DEF Answers
    <3>2. sent[m] = 0 /\ m \notin queued
      BY <3>1 DEF HistInv, CallerInv
    <3>3. m # msg[w]
      BY <3>1, <3>2, InMemory DEF HistInv, CallerInv
    <3> QED
      BY <3>2, <3>3
  <2>4. \A u, v \in Worker :
          /\ pc'[u] # "idle" /\ job'[u] # "run" /\ pc'[v] # "idle" /\ job'[v] # "run"
          /\ msg'[u] = msg'[v]
          => u = v
    BY <1>2 DEF HistInv, CallerInv
  <2> QED
    BY <2>1, <2>2, <2>3, <2>4 DEF CallerInv
<1>8. DoneInv'
  BY <1>2, <1>6 DEF HistInv, DoneInv
<1>9. AnswerInv'
  <2> SUFFICES ASSUME NEW m \in Msg
               PROVE  /\ answer'[m] = "sent" => sent[m] > 0
                      /\ answer'[m] = "queued" => m \in queued'
                      /\ answer'[m] \in {"failed", "discarded"} /\ m \notin queued' =>
                           sent[m] <= faults'
    BY DEF AnswerInv
  <2>1. CASE m = msg[w] /\ job[w] # "run"
    BY <1>3, <1>5, <2>1
  <2>2. CASE ~(m = msg[w] /\ job[w] # "run")
    BY <1>3, <1>4, <2>2 DEF HistInv, AnswerInv
  <2> QED
    BY <2>1, <2>2
<1> QED
  BY <1>7, <1>8, <1>9

\* A call that goes on keeps it if what it has done, and what it has found
\* out, agree.
LEMMA GoOnHist ==
  ASSUME Inv, HistInv, NEW w \in Worker, pc[w] # "idle", NEW label \in Busy, Goto(w, label),
         UNCHANGED <<job, msg, file, answer>>,
         faults' \in {faults, faults + 1},
         \A m \in Msg : sent'[m] >= sent[m] /\ (m # msg[w] => sent'[m] = sent[m]),
         queued \subseteq queued', queued' \subseteq queued \cup {msg[w]},
         \A v \in Worker : v # w => result'[v] = result[v],
         Done(w)' => \/ result'[w] = "sent" /\ sent'[msg[w]] > 0
                     \/ result'[w] = "queued" /\ msg[w] \in queued',
         ~Done(w)' => ~Done(w) /\ queued' = queued
                      /\ (sent[msg[w]] <= faults => sent'[msg[w]] <= faults'),
         sent' \in [Msg -> Nat]
  PROVE  CallerInv' /\ DoneInv' /\ AnswerInv'
<1>1. pc'[w] # "idle" /\ \A v \in Worker : v # w => pc'[v] = pc[v]
  BY DEF Goto, Inv, TypeOK, Busy
<1>2. faults \in Nat /\ sent \in [Msg -> Nat] /\ \A v \in Worker : pc[v] # "idle" => msg[v] \in Msg
  BY DEF Inv, TypeOK, CallInv
<1>3. \A v \in Worker : v # w => (Done(v)' <=> Done(v))
  BY <1>1 DEF Done
<1>4. msg[w] \notin queued =>
        job[w] = "memory" /\ \A v \in Worker : pc[v] # "idle" /\ msg[v] = msg[w] => v = w
  BY InMemory
<1>5. answer[msg[w]] # "none"
  BY <1>2, <1>4 DEF HistInv, CallerInv
<1>6. CallerInv'
  <2>1. ASSUME NEW v \in Worker, pc'[v] # "idle", job[v] = "memory", ~Done(v)'
        PROVE  msg[v] \notin queued' /\ sent'[msg[v]] <= faults'
    <3>1. pc[v] # "idle" /\ ~Done(v)
      BY <1>1, <1>3, <2>1
    <3>2. msg[v] \notin queued /\ sent[msg[v]] <= faults /\ msg[v] \in Msg
      BY <1>2, <2>1, <3>1 DEF HistInv, CallerInv
    <3>3. CASE v = w
      BY <2>1, <3>2, <3>3
    <3>4. CASE v # w
      <4>1. msg[v] # msg[w]
        BY <1>4, <3>1, <3>2, <3>4
      <4> QED
        BY <1>2, <3>2, <4>1
    <3> QED
      BY <3>3, <3>4
  <2> QED
    BY <1>1, <1>2, <1>5, <2>1 DEF HistInv, CallerInv
<1>7. DoneInv'
  <2> SUFFICES ASSUME NEW v \in Worker, Done(v)'
               PROVE  \/ result'[v] = "sent" /\ sent'[msg[v]] > 0
                      \/ result'[v] = "queued" /\ msg[v] \in queued'
    BY DEF DoneInv
  <2>1. CASE v = w
    BY <2>1
  <2>2. CASE v # w
    <3>1. Done(v) /\ msg[v] \in Msg
      BY <1>2, <1>3, <2>2 DEF Done
    <3> QED
      BY <1>2, <2>2, <3>1 DEF HistInv, DoneInv
  <2> QED
    BY <2>1, <2>2
<1>8. AnswerInv'
  <2> SUFFICES ASSUME NEW m \in Msg
               PROVE  /\ answer[m] = "sent" => sent'[m] > 0
                      /\ answer[m] = "queued" => m \in queued'
                      /\ answer[m] \in {"failed", "discarded"} /\ m \notin queued' =>
                           sent'[m] <= faults'
    BY DEF AnswerInv
  <2>1. answer[m] \in {"failed", "discarded"} /\ m \notin queued => m # msg[w]
    BY <1>4 DEF HistInv, CallerInv
  <2> QED
    BY <1>2, <2>1 DEF HistInv, AnswerInv
<1> QED
  BY <1>6, <1>7, <1>8

\* A call that begins has told nobody anything yet.
LEMMA EnterHist ==
  ASSUME Inv, HistInv, NEW w \in Worker, NEW kind \in {"memory", "stored", "run"},
         NEW m \in Msg, NEW f, NEW lists, NEW n, Enter(w, kind, m, f, lists, n),
         UNCHANGED <<sent, faults>>,
         queued' = IF kind = "stored" THEN queued \cup {m} ELSE queued,
         IF kind = "run" THEN answer' = answer
                         ELSE answer[m] = "none" /\ answer' = [answer EXCEPT ![m] = "pending"]
  PROVE  CallerInv' /\ DoneInv' /\ AnswerInv'
<1>1. /\ pc' = [pc EXCEPT ![w] = "prepare"] /\ job' = [job EXCEPT ![w] = kind]
      /\ msg' = [msg EXCEPT ![w] = m] /\ pc[w] = "idle"
      /\ result' = [result EXCEPT ![w] = "failed"]
  BY DEF Enter, Goto
<1>2. /\ pc'[w] = "prepare" /\ job'[w] = kind /\ msg'[w] = m
      /\ \A v \in Worker : v # w => /\ pc'[v] = pc[v] /\ job'[v] = job[v]
                                     /\ msg'[v] = msg[v] /\ result'[v] = result[v]
  BY <1>1 DEF Inv, TypeOK
<1>3. faults \in Nat /\ sent \in [Msg -> Nat] /\ \A v \in Worker : pc[v] # "idle" => msg[v] \in Msg
  BY DEF Inv, TypeOK, CallInv
<1>4. \A v \in Worker : Done(v)' => v # w /\ Done(v)
  BY <1>2 DEF Done
<1>5. \A x \in Msg : x # m \/ kind = "run" => answer'[x] = answer[x]
  BY DEF Inv, TypeOK
<1>6. kind # "run" => /\ answer'[m] = "pending" /\ sent[m] = 0 /\ m \notin queued
                     /\ \A v \in Worker : pc[v] # "idle" => msg[v] # m
  <2> SUFFICES ASSUME kind # "run"
               PROVE  /\ answer'[m] = "pending" /\ sent[m] = 0 /\ m \notin queued
                      /\ \A v \in Worker : pc[v] # "idle" => msg[v] # m
    OBVIOUS
  <2>1. answer'[m] = "pending" /\ answer[m] = "none"
    BY DEF Inv, TypeOK
  <2>2. sent[m] = 0 /\ m \notin queued
    BY <2>1 DEF HistInv, CallerInv
  <2>3. ASSUME NEW v \in Worker, pc[v] # "idle" PROVE msg[v] # m
    BY <2>1, <2>2, <2>3, InMemory DEF HistInv, CallerInv
  <2> QED
    BY <2>1, <2>2, <2>3
<1>7. CallerInv'
  <2>1. \A v \in Worker : pc'[v] # "idle" /\ job'[v] # "run" => answer'[msg'[v]] = "pending"
    BY <1>2, <1>3, <1>5, <1>6 DEF HistInv, CallerInv
  <2>2. ASSUME NEW v \in Worker, pc'[v] # "idle", job'[v] = "memory", ~Done(v)'
        PROVE  msg'[v] \notin queued' /\ sent[msg'[v]] <= faults
    <3>1. CASE v = w
      BY <1>2, <1>3, <1>6, <2>2, <3>1
    <3>2. CASE v # w
      <4>1. pc[v] # "idle" /\ job[v] = "memory" /\ ~Done(v) /\ msg'[v] = msg[v]
        BY <1>2, <2>2, <3>2 DEF Done
      <4> QED
        BY <1>3, <1>6, <4>1 DEF HistInv, CallerInv
    <3> QED
      BY <3>1, <3>2
  <2>3. \A x \in Msg : answer'[x] = "none" => sent[x] = 0 /\ x \notin queued'
    BY <1>5, <1>6 DEF HistInv, CallerInv
  <2>4. \A u, v \in Worker :
          /\ pc'[u] # "idle" /\ job'[u] # "run" /\ pc'[v] # "idle" /\ job'[v] # "run"
          /\ msg'[u] = msg'[v]
          => u = v
    BY <1>2, <1>6 DEF HistInv, CallerInv
  <2> QED
    BY <2>1, <2>2, <2>3, <2>4 DEF CallerInv
<1>8. DoneInv'
  BY <1>2, <1>4 DEF HistInv, DoneInv
<1>9. AnswerInv'
  BY <1>3, <1>5, <1>6 DEF HistInv, AnswerInv
<1> QED
  BY <1>7, <1>8, <1>9

\* A file that stays, stays, unless its call removes it or puts a copy beside
\* it.
LEMMA FileStays ==
  ASSUME Inv, NEW w \in Worker, NEW f \in File, NEW m, Stays(f, m),
         place'[f] \in {"new", "cur"}, of'[f] = of[f],
         \A v \in Worker : v # w => pc'[v] = pc[v] /\ file'[v] = file[v] /\ result'[v] = result[v],
         file'[w] = f /\ Done(w)' => result'[w] # "queued"
  PROVE  Stays(f, m)'
  BY DEF Stays, Done

\* What the step of a call leaves alone.
LEMMA OnlyCall ==
  ASSUME Inv, NEW w \in Worker, Step(w) \/ Crash(w)
  PROVE  \A v \in Worker : v # w => /\ pc'[v] = pc[v] /\ file'[v] = file[v]
                                    /\ result'[v] = result[v] /\ msg'[v] = msg[v]
                                    /\ job'[v] = job[v] /\ count'[v] = count[v]
                                    /\ left'[v] = left[v] /\ told'[v] = told[v]
<1> USE DEF Inv, TypeOK, Goto, callVars
<1>1. ASSUME NEW r, Leave(w, r)
      PROVE  \A v \in Worker : v # w => /\ pc'[v] = pc[v] /\ file'[v] = file[v]
                                    /\ result'[v] = result[v] /\ msg'[v] = msg[v]
                                    /\ job'[v] = job[v] /\ count'[v] = count[v]
                                    /\ left'[v] = left[v] /\ told'[v] = told[v]
  BY <1>1 DEF Leave
<1>2. CASE Prepare(w) \/ NotifySuccess(w) \/ NotifyFailure(w) \/ Accepted(w)
  BY <1>2 DEF Prepare, NotifySuccess, NotifyFailure, Accepted
<1>3. CASE Refused(w) \/ ReplyLost(w)
  BY <1>3 DEF Refused, ReplyLost, NextTransport
<1>4. CASE Enqueue(w)
  BY <1>1, <1>4 DEF Enqueue
<1>5. CASE BadArguments(w) \/ EnqueueError(w) \/ Exception(w) \/ Finish(w) \/ Discard(w)
           \/ PutBack(w) \/ Crash(w)
  BY <1>1, <1>5 DEF BadArguments, EnqueueError, Exception, Finish, Discard, PutBack, Crash
<1> QED
  BY <1>2, <1>3, <1>4, <1>5 DEF Step

\* What was queued is still there if the file of the call is, or something
\* answers for its message.
LEMMA FilesKept ==
  ASSUME Inv, HistInv, NEW w \in Worker, Step(w) \/ Crash(w), pc[w] # "idle",
         queued \subseteq queued', discarded \subseteq discarded',
         \A m \in Msg : sent[m] > 0 => sent'[m] > 0,
         \A f \in File : place'[f] \in {"new", "cur"} =>
              \/ place[f] \in {"new", "cur"} /\ of'[f] = of[f]
              \/ of'[f] \in queued',
         \A f \in File : place[f] \in {"new", "cur"} /\ f # file[w] =>
              place'[f] \in {"new", "cur"} /\ of'[f] = of[f],
         \/ /\ file[w] # NoFile => /\ place'[file[w]] \in {"new", "cur"}
                                  /\ of'[file[w]] = of[file[w]]
            /\ file'[w] = file[w] /\ Done(w)' /\ result'[w] = "queued" =>
                 Done(w) /\ result[w] = "queued"
         \/ Done(w) /\ result[w] = "queued" /\ file'[w] = NoFile
         \/ sent'[msg[w]] > 0 \/ msg[w] \in discarded'
         \/ \E f \in File, m \in Msg : m = msg[w] /\ Stays(f, m)',
         queued' # queued => /\ queued' = queued \cup {msg[w]}
                             /\ \E f \in File, m \in Msg : m = msg[w] /\ Stays(f, m)',
         file'[w] \in {file[w], NoFile}
  PROVE  FilesInv'
<1>1. \A v \in Worker : v # w => pc'[v] = pc[v] /\ file'[v] = file[v] /\ result'[v] = result[v]
  BY OnlyCall
<1>2. ASSUME NEW f \in File, place'[f] \in {"new", "cur"}
      PROVE  of'[f] \in queued'
  BY <1>2 DEF HistInv, FilesInv
<1>3. ASSUME NEW m \in queued, ~(sent'[m] > 0), m \notin discarded'
      PROVE  \E f \in File : Stays(f, m)'
  <2>1. m \in Msg /\ ~(sent[m] > 0) /\ m \notin discarded
    BY <1>3 DEF Inv, TypeOK
  <2>2. PICK f \in File : Stays(f, m)
    BY <2>1 DEF HistInv, FilesInv
  <2>3. of[f] = m /\ place[f] \in {"new", "cur"} /\ f # NoFile
    BY <2>2, HandlerAssumption DEF Stays
  <2>4. CASE f # file[w]
    <3>1. file'[w] # f
      BY <2>3, <2>4
    <3> QED
      BY <1>1, <2>2, <2>3, <2>4, <3>1, FileStays
  <2>5. CASE f = file[w]
    <3>1. m = msg[w] /\ ~(Done(w) /\ result[w] = "queued")
      BY <2>2, <2>3, <2>5 DEF Inv, CallInv, Stays
    <3>2. CASE /\ place'[f] \in {"new", "cur"} /\ of'[f] = of[f]
               /\ file'[w] = file[w] /\ Done(w)' /\ result'[w] = "queued" =>
                    Done(w) /\ result[w] = "queued"
      BY <1>1, <2>2, <2>5, <3>1, <3>2, FileStays
    <3>3. CASE \E g \in File, x \in Msg : x = msg[w] /\ Stays(g, x)'
      BY <3>1, <3>3
    <3> QED
      BY <1>3, <2>3, <2>5, <3>1, <3>2, <3>3
  <2> QED
    BY <2>4, <2>5
<1>4. \A m \in queued' : (\E f \in File : Stays(f, m)') \/ sent'[m] > 0 \/ m \in discarded'
  BY <1>3
<1> QED
  BY <1>2, <1>4 DEF FilesInv

\* Every step of a call keeps what was in the queue, and what is told is true.
LEMMA HistStep ==
  ASSUME Inv, HistInv, NEW w \in Worker, Step(w) \/ Crash(w)
  PROVE  HistInv'
<1> USE DEF fileVars, callVars, history
<1>1. /\ faults \in Nat /\ sent \in [Msg -> Nat] /\ pc \in [Worker -> Busy \cup {"idle"}]
      /\ msg \in [Worker -> Msg \cup {NoMsg}] /\ file \in [Worker -> File \cup {NoFile}]
      /\ result \in [Worker -> {"failed", "sent", "queued"}]
      /\ NoFile \notin File /\ {"raised", "killed", "sent", "queued", "failed", "discarded"}
                                \subseteq Answers \ {"none", "pending"}
  BY HandlerAssumption DEF Inv, TypeOK, Answers
<1>2. pc[w] # "idle" => /\ msg[w] \in Msg
                        /\ file[w] # NoFile => /\ file[w] \in File /\ place[file[w]] = "cur"
                                              /\ of[file[w]] = msg[w]
  BY <1>1 DEF Inv, CallInv
<1>3. \A r : Leave(w, r) => file'[w] = NoFile /\ ~Done(w)'
  BY <1>1 DEF Leave, Goto, Done
<1>4. ASSUME BadArguments(w) \/ Exception(w) \/ Crash(w)
      PROVE  HistInv'
  <2>1. /\ pc[w] # "idle" /\ \E r \in {"raised", "killed"} : Leave(w, r)
        /\ UNCHANGED <<place, of, sent, discarded, queued>> /\ faults' \in {faults, faults + 1}
    BY <1>4 DEF BadArguments, Exception, Crash, Inject
  <2>2. CallerInv' /\ DoneInv' /\ AnswerInv'
    BY <1>1, <2>1, LeaveHist
  <2>3. FilesInv'
    BY <1>2, <1>3, <2>1, FilesKept
  <2> QED
    BY <2>2, <2>3 DEF HistInv
<1>5. ASSUME Prepare(w) \/ NotifySuccess(w) \/ NotifyFailure(w) \/ Refused(w)
      PROVE  HistInv'
  <2>1. /\ pc[w] # "idle" /\ \E label \in Busy : Goto(w, label)
        /\ UNCHANGED <<job, msg, file, answer, place, of, sent, discarded, queued, faults, result>>
        /\ Done(w)' = Done(w)
    <3>1. CASE Prepare(w)
      BY <1>1, <3>1 DEF Prepare, Goto, Done, Busy
    <3>2. CASE NotifySuccess(w)
      BY <1>1, <3>2 DEF NotifySuccess, Goto, Done, Busy
    <3>3. CASE NotifyFailure(w)
      BY <1>1, <3>3 DEF NotifyFailure, Goto, Done, Busy
    <3>4. CASE Refused(w)
      BY <1>1, <3>4 DEF Refused, NextTransport, Trying, Goto, Done, Busy
    <3> QED
      BY <1>5, <3>1, <3>2, <3>3, <3>4
  <2>2. CallerInv' /\ DoneInv' /\ AnswerInv'
    BY <1>1, <2>1, GoOnHist DEF HistInv, DoneInv
  <2>3. FilesInv'
    BY <1>1, <1>2, <2>1, FilesKept
  <2> QED
    BY <2>2, <2>3 DEF HistInv
<1>6. ASSUME Accepted(w) \/ ReplyLost(w)
      PROVE  HistInv'
  <2>1. /\ pc[w] = "transport" /\ sent' = [sent EXCEPT ![msg[w]] = @ + 1]
        /\ UNCHANGED <<job, msg, file, answer, place, of, discarded, queued>>
        /\ faults' \in {faults, faults + 1}
        /\ \A v \in Worker : v # w => result'[v] = result[v]
    BY <1>1, <1>6 DEF Accepted, ReplyLost, NextTransport, Trying, Inject
  <2>2. /\ \/ Goto(w, "accepted") /\ Done(w)' /\ result'[w] = "sent"
           \/ Goto(w, "transport") /\ ~Done(w)' /\ ~Done(w) /\ faults' = faults + 1
    BY <1>1, <1>6 DEF Accepted, ReplyLost, NextTransport, Trying, Inject, Goto, Done
  <2>3. /\ sent'[msg[w]] = sent[msg[w]] + 1 /\ sent' \in [Msg -> Nat]
        /\ \A m \in Msg : m # msg[w] => sent'[m] = sent[m]
    BY <1>1, <1>2, <2>1
  <2>4. CallerInv' /\ DoneInv' /\ AnswerInv'
    BY <1>1, <1>2, <2>1, <2>2, <2>3, GoOnHist DEF Busy
  <2>5. FilesInv'
    BY <1>1, <1>2, <1>6, <2>1, <2>3, FilesKept DEF Step
  <2> QED
    BY <2>4, <2>5 DEF HistInv
<1>7. ASSUME Enqueue(w)
      PROVE  HistInv'
  <2>1. PICK f \in File : NewFile(f, msg[w], "new")
    BY <1>7 DEF Enqueue
  <2>2. /\ pc[w] = "transport" /\ msg[w] \in Msg /\ queued' = queued \cup {msg[w]}
        /\ UNCHANGED <<sent, discarded, faults>>
    BY <1>2, <1>7 DEF Enqueue, Trying
  <2>3. /\ place[f] = "none" /\ place'[f] = "new" /\ of'[f] = msg[w]
        /\ \A g \in File : g # f => place'[g] = place[g] /\ of'[g] = of[g]
        /\ \A v \in Worker : file[v] # f
    BY <1>1, <2>1, <2>2, NewFileTypes DEF Inv, CallInv
  <2>4. file'[w] \in {file[w], NoFile} /\ \A v \in Worker : v # w => file'[v] = file[v]
    BY <1>3, <1>7, OnlyCall DEF Enqueue, Step
  <2>5. \E g \in File, m \in Msg : m = msg[w] /\ Stays(g, m)'
    <3>1. PICK m \in Msg : m = msg[w]
      BY <2>2
    <3>2. \A v \in Worker : file'[v] # f
      BY <1>1, <2>3, <2>4
    <3>3. Stays(f, m)'
      BY <2>3, <3>1, <3>2 DEF Stays
    <3> QED
      BY <3>1, <3>3
  <2>6. FilesInv'
    BY <1>1, <1>2, <1>7, <2>2, <2>3, <2>4, <2>5, FilesKept DEF Step
  <2>7. CASE msg[w] \in config.noId
    BY <1>1, <1>7, <2>2, <2>6, <2>7, LeaveHist DEF Enqueue, HistInv
  <2>8. CASE msg[w] \notin config.noId
    <3>1. /\ Goto(w, "accepted") /\ Done(w)' /\ result' = [result EXCEPT ![w] = "queued"]
          /\ UNCHANGED <<job, msg, file, answer>>
      BY <1>1, <1>7, <2>8 DEF Enqueue, Goto, Done
    <3>2. CallerInv' /\ DoneInv' /\ AnswerInv'
      BY <1>1, <2>2, <3>1, GoOnHist DEF Busy
    <3> QED
      BY <2>6, <3>2 DEF HistInv
  <2> QED
    BY <2>7, <2>8
<1>8. ASSUME EnqueueError(w)
      PROVE  HistInv'
  <2>1. /\ pc[w] = "transport" /\ Leave(w, "raised") /\ UNCHANGED <<sent, discarded, queued>>
        /\ faults' = faults + 1
    BY <1>8 DEF EnqueueError, Trying, Inject
  <2>2. CallerInv' /\ DoneInv' /\ AnswerInv'
    BY <1>1, <2>1, LeaveHist
  <2>3. \A f \in File : /\ place[f] \in {"new", "cur"} => place'[f] = place[f] /\ of'[f] = of[f]
                        /\ place'[f] \in {"new", "cur"} => place[f] = place'[f]
    <3>1. CASE \E f \in File : NewFile(f, msg[w], "tmp")
      BY <1>2, <2>1, <3>1, NewFileTypes
    <3> QED
      BY <1>8, <3>1 DEF EnqueueError
  <2>4. FilesInv'
    BY <1>1, <1>2, <1>3, <1>8, <2>1, <2>3, FilesKept DEF Step
  <2> QED
    BY <2>2, <2>4 DEF HistInv
<1>9. ASSUME Finish(w)
      PROVE  HistInv'
  <2>1. /\ pc[w] = "finish" /\ Done(w) /\ Unlink(w) /\ UNCHANGED <<sent, discarded, queued, faults>>
    BY <1>9 DEF Finish, Done
  <2>2. PICK r \in {"raised", result[w]} : Leave(w, r)
    BY <1>9 DEF Finish
  <2>3. \/ result[w] = "sent" /\ sent[msg[w]] > 0
        \/ result[w] = "queued" /\ msg[w] \in queued
    BY <2>1 DEF HistInv, DoneInv
  <2>4. CallerInv' /\ DoneInv' /\ AnswerInv'
    BY <1>1, <2>1, <2>2, <2>3, LeaveHist
  <2>5. /\ \A f \in File : f # file[w] => place'[f] = place[f] /\ of'[f] = of[f]
        /\ file[w] # NoFile => place'[file[w]] = "none"
    BY <2>1, UnlinkTypes
  <2>6. FilesInv'
    BY <1>1, <1>2, <1>3, <1>9, <2>1, <2>2, <2>3, <2>5, FilesKept DEF Step
  <2> QED
    BY <2>4, <2>6 DEF HistInv
<1>10. ASSUME Discard(w)
       PROVE  HistInv'
  <2>1. /\ pc[w] = "failed" /\ ~Done(w) /\ Unlink(w) /\ UNCHANGED <<sent, queued, faults>>
        /\ discarded' = discarded \cup {msg[w]} /\ Leave(w, "discarded")
    BY <1>10 DEF Discard, Done
  <2>2. msg[w] \in queued \/ sent[msg[w]] <= faults
    BY <2>1, InMemory DEF HistInv, CallerInv
  <2>3. CallerInv' /\ DoneInv' /\ AnswerInv'
    BY <1>1, <2>1, <2>2, LeaveHist
  <2>4. /\ \A f \in File : f # file[w] => place'[f] = place[f] /\ of'[f] = of[f]
        /\ file[w] # NoFile => place'[file[w]] = "none"
    BY <2>1, UnlinkTypes
  <2>5. FilesInv'
    BY <1>1, <1>2, <1>3, <1>10, <2>1, <2>4, FilesKept DEF Step
  <2> QED
    BY <2>3, <2>5 DEF HistInv
<1>11. ASSUME PutBack(w)
       PROVE  HistInv'
  <2>1. /\ pc[w] = "failed" /\ ~Done(w) /\ UNCHANGED <<of, sent, queued, discarded, faults>>
        /\ Leave(w, "failed")
    BY <1>11 DEF PutBack, Done
  <2>2. msg[w] \in queued \/ sent[msg[w]] <= faults
    BY <2>1, InMemory DEF HistInv, CallerInv
  <2>3. CallerInv' /\ DoneInv' /\ AnswerInv'
    BY <1>1, <2>1, <2>2, LeaveHist
  <2>4. /\ \A f \in File : f # file[w] => place'[f] = place[f]
        /\ file[w] # NoFile => place'[file[w]] = "new"
    BY <1>11, PutBackTypes
  <2>5. FilesInv'
    BY <1>1, <1>2, <1>3, <1>11, <2>1, <2>4, FilesKept DEF Step
  <2> QED
    BY <2>3, <2>5 DEF HistInv
<1> QED
  BY <1>4, <1>5, <1>6, <1>7, <1>8, <1>9, <1>10, <1>11 DEF Step

\* A call that begins leaves the files of the others alone, and its own is not
\* about to be removed.
LEMMA FilesEnter ==
  ASSUME Inv, HistInv, NEW w \in Worker, NEW kind, NEW m \in Msg, NEW f, NEW lists, NEW n,
         Enter(w, kind, m, f, lists, n),
         queued \subseteq queued', UNCHANGED <<sent, discarded>>,
         \A g \in File : place[g] \in {"new", "cur"} =>
                           place'[g] \in {"new", "cur"} /\ of'[g] = of[g],
         \A g \in File : place'[g] \in {"new", "cur"} =>
                           (place[g] \in {"new", "cur"} /\ of'[g] = of[g]) \/ of'[g] \in queued',
         \A x \in queued' \ queued : \E g \in File : Stays(g, x)'
  PROVE  FilesInv'
<1>1. /\ pc' = [pc EXCEPT ![w] = "prepare"] /\ file' = [file EXCEPT ![w] = f]
      /\ result' = [result EXCEPT ![w] = "failed"]
  BY DEF Enter, Goto
<1>2. /\ ~Done(w)'
      /\ \A v \in Worker : v # w => pc'[v] = pc[v] /\ file'[v] = file[v] /\ result'[v] = result[v]
  BY <1>1 DEF Inv, TypeOK, Done
<1>3. ASSUME NEW x \in queued, \E g \in File : Stays(g, x)
      PROVE  \E g \in File : Stays(g, x)'
  <2>1. PICK g \in File : Stays(g, x)
    BY <1>3
  <2> QED
    BY <1>2, <2>1, FileStays DEF Stays
<1>4. \A x \in queued' : (\E g \in File : Stays(g, x)') \/ sent'[x] > 0 \/ x \in discarded'
  BY <1>3 DEF HistInv, FilesInv
<1>5. \A g \in File : place'[g] \in {"new", "cur"} => of'[g] \in queued'
  BY DEF HistInv, FilesInv
<1> QED
  BY <1>4, <1>5 DEF FilesInv

\* Every step of the system.
LEMMA HistNext ==
  ASSUME Inv, HistInv, [Next]_vars
  PROVE  HistInv'
<1> USE DEF fileVars, callVars, history
<1>1. CASE \E w \in Worker : Step(w) \/ Crash(w)
  BY <1>1, HistStep
<1>2. ASSUME NEW w \in Worker, NEW m \in Msg, Call(w, m)
      PROVE  HistInv'
  <2>1. /\ Enter(w, "memory", m, NoFile, CallerLists, 0) /\ answer[m] = "none"
        /\ UNCHANGED <<place, of, sent, discarded, queued, faults>>
        /\ answer' = [answer EXCEPT ![m] = "pending"]
    BY <1>2 DEF Call
  <2>2. CallerInv' /\ DoneInv' /\ AnswerInv'
    BY <2>1, EnterHist
  <2>3. FilesInv'
    BY <2>1, FilesEnter
  <2> QED
    BY <2>2, <2>3 DEF HistInv
<1>3. ASSUME NEW w \in Worker, NEW m \in Msg, CallStored(w, m)
      PROVE  HistInv'
  <2>1. PICK f \in File : NewFile(f, m, "cur") /\ Enter(w, "stored", m, f, CallerLists, 0)
    BY <1>3 DEF CallStored
  <2>2. /\ answer[m] = "none" /\ answer' = [answer EXCEPT ![m] = "pending"]
        /\ queued' = queued \cup {m} /\ UNCHANGED <<sent, discarded, faults>>
    BY <1>3 DEF CallStored
  <2>3. CallerInv' /\ DoneInv' /\ AnswerInv'
    BY <2>1, <2>2, EnterHist
  <2>4. /\ place[f] = "none" /\ place'[f] = "cur" /\ of'[f] = m
        /\ \A g \in File : g # f => place'[g] = place[g] /\ of'[g] = of[g]
    BY <2>1, NewFileTypes
  <2>5. /\ file' = [file EXCEPT ![w] = f] /\ pc' = [pc EXCEPT ![w] = "prepare"]
        /\ result' = [result EXCEPT ![w] = "failed"]
    BY <2>1 DEF Enter, Goto
  <2>6. \A v \in Worker : file[v] # f
    BY <2>4, HandlerAssumption DEF Inv, CallInv
  <2>7. Stays(f, m)'
    BY <2>4, <2>5, <2>6 DEF Stays, Done, Inv, TypeOK
  <2>8. FilesInv'
    BY <2>1, <2>2, <2>4, <2>7, FilesEnter
  <2> QED
    BY <2>3, <2>8 DEF HistInv
<1>4. ASSUME NEW w \in Worker, NEW f \in File, Take(w, f)
      PROVE  HistInv'
  <2>1. /\ place[f] = "new" /\ place' = [place EXCEPT ![f] = "cur"]
        /\ Enter(w, "run", of[f], f, {config.handler}, retries[f])
        /\ UNCHANGED <<of, answer, queued, sent, discarded, faults>>
    BY <1>4 DEF Take
  <2>2. of[f] \in Msg
    BY <2>1 DEF Inv, FileInv
  <2>3. CallerInv' /\ DoneInv' /\ AnswerInv'
    BY <2>1, <2>2, EnterHist
  <2>4. \A g \in File : place'[g] \in {"new", "cur"} <=> place[g] \in {"new", "cur"}
    BY <2>1 DEF Inv, TypeOK
  <2>5. FilesInv'
    BY <2>1, <2>2, <2>4, FilesEnter
  <2> QED
    BY <2>3, <2>5 DEF HistInv
<1>5. ASSUME NEW f \in File, Unblock(f)
      PROVE  HistInv'
  <2>1. /\ place[f] = "cur" /\ place' = [place EXCEPT ![f] = "new"]
        /\ UNCHANGED <<of, pc, job, msg, file, result, answer, queued, sent, discarded, faults>>
    BY <1>5 DEF Unblock
  <2>2. \A g \in File : place'[g] \in {"new", "cur"} <=> place[g] \in {"new", "cur"}
    BY <2>1 DEF Inv, TypeOK
  <2> QED
    BY <2>1, <2>2 DEF HistInv, CallerInv, DoneInv, FilesInv, AnswerInv, Stays, Done
<1>6. CASE UNCHANGED vars
  BY <1>6 DEF vars, HistInv, CallerInv, DoneInv, FilesInv, AnswerInv, Stays, Done
<1> QED
  BY <1>1, <1>2, <1>3, <1>4, <1>5, <1>6 DEF Next

\* All of it holds in every reachable state.
THEOREM History == Spec => [](Inv /\ HistInv)
<1>1. Init => HistInv
  BY HandlerAssumption
  DEF Init, HistInv, CallerInv, DoneInv, FilesInv, AnswerInv, Done
<1>2. Inv /\ HistInv /\ [Next]_vars => HistInv'
  BY HistNext
<1> QED
  BY <1>1, <1>2, CallsApart, PTL DEF Spec

\* Whatever the transports, the plugins and other processes do, and whatever
\* fails: a message that was in the queue is there until a server has it or a
\* plugin has discarded it.
THEOREM KeptInQueue == Spec => []QueueKeeps
<1>1. Inv /\ HistInv => QueueKeeps
  BY DEF Inv, TypeOK, HistInv, FilesInv, Stays, QueueKeeps, Copies
<1> QED
  BY <1>1, History, PTL

\* What send_message() has returned is true, now and later.
THEOREM TrueAnswers == Spec => []AnswersTrue
<1>1. Inv /\ HistInv => AnswersTrue
  <2> SUFFICES ASSUME Inv, HistInv, NEW m \in Msg
               PROVE  /\ answer[m] = "sent" => sent[m] > 0
                      /\ answer[m] = "queued" =>
                           Copies(m) # {} \/ sent[m] > 0 \/ m \in discarded
                      /\ answer[m] \in {"failed", "discarded"} /\ m \notin queued =>
                           Copies(m) = {} /\ sent[m] <= faults
    BY DEF AnswersTrue
  <2>1. m \in queued => Copies(m) # {} \/ sent[m] > 0 \/ m \in discarded
    BY DEF HistInv, FilesInv, Stays, Copies
  <2>2. m \notin queued => Copies(m) = {}
    BY DEF HistInv, FilesInv, Copies
  <2> QED
    BY <2>1, <2>2 DEF HistInv, AnswerInv
<1> QED
  BY <1>1, History, PTL
-----------------------------------------------------------------------------
(* The number of retries.                                                   *)

\* n attempts to deliver m have failed, or more than are counted.
Seen(n, m) == n <= refusals[m] \/ MaxRefusals <= refusals[m]

SeenFiles == \A f \in File : place[f] # "none" => Seen(retries[f], of[f])

\* A call with no transport left has been refused once more.
SeenCalls ==
    \A w \in Worker :
        /\ pc[w] # "idle" => Seen(count[w], msg[w])
        /\ pc[w] = "prepare" => left[w] # <<>>
        /\ pc[w] = "transport" /\ left[w] = <<>> => Seen(count[w] + 1, msg[w])

SeenInv == SeenFiles /\ SeenCalls /\ NotDiscardedEarly

\* A call that ends, or one that changes nothing but how far it is.
LEMMA SeenKept ==
  ASSUME Inv, SeenInv, NEW w \in Worker, UNCHANGED <<config, refusals>>,
         \/ \E r : Leave(w, r)
         \/ \E label \in Busy \ {"prepare"} :
              /\ Goto(w, label) /\ pc[w] # "idle" /\ UNCHANGED <<msg, left>>
              /\ label = "transport" => left[w] # <<>>
              /\ count' = count \/ (pc[w] = "transport" /\ left[w] = <<>>
                                      /\ count' = [count EXCEPT ![w] = @ + 1])
  PROVE  SeenCalls'
<1>1. \A v \in Worker : v # w => /\ pc'[v] = pc[v] /\ msg'[v] = msg[v]
                                  /\ left'[v] = left[v] /\ count'[v] = count[v]
  BY DEF Leave, Goto, Inv, TypeOK
<1>2. CASE \E r : Leave(w, r)
  <2>1. pc'[w] = "idle"
    BY <1>2 DEF Leave, Goto, Inv, TypeOK
  <2> QED
    BY <1>1, <2>1 DEF SeenInv, SeenCalls, Seen
<1>3. CASE \E label \in Busy \ {"prepare"} :
              /\ Goto(w, label) /\ pc[w] # "idle" /\ UNCHANGED <<msg, left>>
              /\ label = "transport" => left[w] # <<>>
              /\ count' = count \/ (pc[w] = "transport" /\ left[w] = <<>>
                                      /\ count' = [count EXCEPT ![w] = @ + 1])
  <2>1. /\ pc'[w] \in Busy \ {"prepare"} /\ msg'[w] = msg[w] /\ left'[w] = left[w]
        /\ pc'[w] = "transport" => left[w] # <<>>
    BY <1>3 DEF Goto, Inv, TypeOK
  <2>2. \/ count'[w] = count[w]
        \/ count'[w] = count[w] + 1 /\ pc[w] = "transport" /\ left[w] = <<>>
    BY <1>3 DEF Inv, TypeOK
  <2>3. Seen(count[w], msg[w]) /\ (pc[w] = "transport" /\ left[w] = <<>> =>
                                     Seen(count[w] + 1, msg[w]))
    BY <1>3 DEF SeenInv, SeenCalls
  <2>4. Seen(count'[w], msg[w])
    BY <2>2, <2>3
  <2>5. Seen(count[w], msg[w])'
    BY <2>1, <2>4 DEF Seen
  <2>6. ASSUME NEW v \in Worker
        PROVE  /\ pc'[v] # "idle" => Seen(count[v], msg[v])'
               /\ pc'[v] = "prepare" => left'[v] # <<>>
               /\ pc'[v] = "transport" /\ left'[v] = <<>> => Seen(count[v] + 1, msg[v])'
    <3>1. CASE v = w
      BY <2>1, <2>5, <3>1 DEF Seen
    <3>2. CASE v # w
      <4>1. /\ pc[v] # "idle" => Seen(count[v], msg[v])
            /\ pc[v] = "prepare" => left[v] # <<>>
            /\ pc[v] = "transport" /\ left[v] = <<>> => Seen(count[v] + 1, msg[v])
        BY DEF SeenInv, SeenCalls
      <4> QED
        BY <1>1, <3>2, <4>1 DEF Seen
    <3> QED
      BY <3>1, <3>2
  <2> QED
    BY <2>6 DEF SeenCalls
<1> QED
  BY <1>2, <1>3

\* The steps of a call: a refusal is counted before the retry is.
LEMMA SeenStep ==
  ASSUME Inv, SeenInv, NEW w \in Worker, Step(w) \/ Crash(w)
  PROVE  SeenInv'
<1> USE DEF fileVars, callVars, history
<1>1. /\ refusals \in [Msg -> Nat] /\ retries \in [File -> Nat] /\ count \in [Worker -> Nat]
      /\ MaxRefusals \in Nat /\ discarded \subseteq Msg
      /\ pc[w] # "idle" => msg[w] \in Msg
      /\ \A f \in File : place[f] # "none" => of[f] \in Msg
  BY HandlerAssumption DEF Inv, TypeOK, CallInv, FileInv
<1>2. CASE BadArguments(w) \/ Exception(w) \/ Crash(w)
  <2>1. UNCHANGED <<config, place, of, retries, refusals, discarded>> /\ \E r : Leave(w, r)
    BY <1>2 DEF BadArguments, Exception, Crash
  <2> QED
    BY <2>1, SeenKept DEF SeenInv, SeenFiles, Seen, NotDiscardedEarly
<1>3. CASE Prepare(w) \/ Accepted(w) \/ NotifySuccess(w) \/ NotifyFailure(w)
  <2>1. UNCHANGED <<config, place, of, retries, refusals, discarded>>
    BY <1>3 DEF Prepare, Accepted, NotifySuccess, NotifyFailure
  <2>2. CASE Prepare(w)
    <3>1. left[w] # <<>>
      BY <2>2 DEF Prepare, SeenInv, SeenCalls
    <3>2. SeenCalls'
      BY <2>1, <2>2, <3>1, SeenKept DEF Prepare, Busy
    <3> QED
      BY <2>1, <3>2 DEF SeenInv, SeenFiles, Seen, NotDiscardedEarly
  <2>3. CASE Accepted(w) \/ NotifySuccess(w) \/ NotifyFailure(w)
    <3>1. SeenCalls'
      BY <2>1, <2>3, SeenKept DEF Accepted, NotifySuccess, NotifyFailure, Trying, Busy
    <3> QED
      BY <2>1, <3>1 DEF SeenInv, SeenFiles, Seen, NotDiscardedEarly
  <2> QED
    BY <1>3, <2>2, <2>3
<1>4. CASE Refused(w) \/ ReplyLost(w)
  <2>1. /\ pc[w] = "transport" /\ UNCHANGED <<config, place, of, retries, discarded, pc, msg, count>>
        /\ left' = [left EXCEPT ![w] = Tail(@)]
        /\ refusals' = [refusals EXCEPT ![msg[w]] = IF @ < MaxRefusals THEN @ + 1 ELSE @]
    BY <1>4 DEF Refused, ReplyLost, NextTransport, Trying
  <2>2. \A m \in Msg : refusals'[m] >= refusals[m] /\ refusals'[m] \in Nat
    BY <1>1, <2>1
  <2>3. refusals'[msg[w]] > refusals[msg[w]] \/ refusals'[msg[w]] >= MaxRefusals
    BY <1>1, <2>1
  <2>4. \A m \in Msg, n \in Nat : Seen(n, m) => Seen(n, m)'
    BY <1>1, <2>2 DEF Seen
  <2>5. Seen(count[w] + 1, msg[w])'
    <3>1. Seen(count[w], msg[w])
      BY <2>1 DEF SeenInv, SeenCalls
    <3>2. count'[w] + 1 <= refusals'[msg'[w]] \/ MaxRefusals <= refusals'[msg'[w]]
      BY <1>1, <2>1, <2>2, <2>3, <3>1 DEF Seen
    <3> QED
      BY <3>2 DEF Seen
  <2>6. SeenCalls'
    <3> SUFFICES ASSUME NEW v \in Worker
                 PROVE  /\ pc[v] # "idle" => Seen(count[v], msg[v])'
                        /\ pc[v] = "prepare" => left'[v] # <<>>
                        /\ pc[v] = "transport" /\ left'[v] = <<>> => Seen(count[v] + 1, msg[v])'
      BY <2>1 DEF SeenCalls
    <3>1. pc[v] # "idle" => msg[v] \in Msg /\ count[v] \in Nat
      BY DEF Inv, TypeOK, CallInv
    <3>2. pc[v] # "idle" => Seen(count[v], msg[v])'
      <4>1. pc[v] # "idle" => Seen(count[v], msg[v])
        BY DEF SeenInv, SeenCalls
      <4>2. pc[v] # "idle" => refusals'[msg[v]] >= refusals[msg[v]] /\ refusals'[msg[v]] \in Nat
        BY <2>2, <3>1
      <4> QED
        BY <1>1, <2>1, <3>1, <4>1, <4>2 DEF Seen
    <3>3. CASE v = w
      BY <2>1, <2>5, <3>2, <3>3
    <3>4. CASE v # w
      <4>1. left'[v] = left[v]
        BY <2>1, <3>4 DEF Inv, TypeOK
      <4>2. pc[v] = "transport" /\ left[v] = <<>> => Seen(count[v] + 1, msg[v])'
        <5> SUFFICES ASSUME pc[v] = "transport", left[v] = <<>>
                     PROVE  Seen(count[v] + 1, msg[v])'
          OBVIOUS
        <5>1. Seen(count[v] + 1, msg[v])
          BY DEF SeenInv, SeenCalls
        <5>2. refusals'[msg[v]] >= refusals[msg[v]] /\ refusals'[msg[v]] \in Nat
          BY <2>2, <3>1
        <5> QED
          BY <1>1, <2>1, <3>1, <5>1, <5>2 DEF Seen
      <4> QED
        BY <3>2, <4>1, <4>2 DEF SeenInv, SeenCalls
    <3> QED
      BY <3>3, <3>4
  <2>7. SeenFiles'
    BY <1>1, <2>1, <2>2 DEF SeenInv, SeenFiles, Seen
  <2>8. NotDiscardedEarly'
    BY <1>1, <2>1, <2>2, ConfigTyped DEF SeenInv, NotDiscardedEarly
  <2> QED
    BY <2>6, <2>7, <2>8 DEF SeenInv
<1>5. CASE Enqueue(w) \/ EnqueueError(w)
  <2>1. /\ UNCHANGED <<config, refusals, discarded>> /\ pc[w] = "transport"
        /\ \/ \E r : Leave(w, r)
           \/ Goto(w, "accepted") /\ UNCHANGED <<msg, left, count>>
    BY <1>5 DEF Enqueue, EnqueueError, Trying
  <2>2. SeenCalls'
    BY <2>1, SeenKept DEF Busy
  <2>3. \/ UNCHANGED <<place, of, retries>>
        \/ \E f \in File, folder \in {"tmp", "new"} : NewFile(f, msg[w], folder)
    BY <1>5 DEF Enqueue, EnqueueError
  <2>4. SeenFiles'
    <3>1. CASE \E f \in File, folder \in {"tmp", "new"} : NewFile(f, msg[w], folder)
      <4>1. PICK f \in File, folder \in {"tmp", "new"} : NewFile(f, msg[w], folder)
        BY <3>1
      <4>2. msg[w] \in Msg
        BY <1>1, <2>1
      <4>3. /\ of'[f] = msg[w] /\ retries'[f] = 0
            /\ \A g \in File : g # f => /\ place'[g] = place[g] /\ of'[g] = of[g]
                                         /\ retries'[g] = retries[g]
        BY <4>1, <4>2, NewFileTypes
      <4> QED
        BY <1>1, <2>1, <4>2, <4>3 DEF SeenInv, SeenFiles, Seen
    <3> QED
      BY <2>1, <2>3, <3>1 DEF SeenInv, SeenFiles, Seen
  <2> QED
    BY <2>1, <2>2, <2>4 DEF SeenInv, NotDiscardedEarly
<1>6. CASE Finish(w) \/ Discard(w)
  <2>1. /\ UNCHANGED <<config, retries, refusals>> /\ Unlink(w) /\ \E r : Leave(w, r)
    BY <1>6 DEF Finish, Discard
  <2>2. SeenCalls'
    BY <2>1, SeenKept
  <2>3. SeenFiles'
    BY <2>1, UnlinkTypes DEF SeenInv, SeenFiles, Seen, Unlink
  <2>4. NotDiscardedEarly'
    <3>1. CASE Discard(w)
      <4>1. /\ pc[w] = "failed" /\ discarded' = discarded \cup {msg[w]}
            /\ config.limit # NoLimit /\ count[w] > config.limit
        BY <3>1 DEF Discard, Discards
      <4>2. Seen(count[w], msg[w]) /\ config.limit \in Nat /\ config.limit < MaxRefusals
        BY <4>1, ConfigTyped DEF SeenInv, SeenCalls
      <4>3. refusals[msg[w]] > config.limit
        BY <1>1, <4>1, <4>2 DEF Seen
      <4> QED
        BY <2>1, <4>1, <4>3 DEF SeenInv, NotDiscardedEarly
    <3> QED
      BY <1>6, <2>1, <3>1 DEF Finish, SeenInv, NotDiscardedEarly
  <2> QED
    BY <2>2, <2>3, <2>4 DEF SeenInv
<1>7. CASE PutBack(w)
  <2>1. /\ UNCHANGED <<config, of, refusals, discarded>> /\ pc[w] = "failed" /\ Leave(w, "failed")
    BY <1>7 DEF PutBack
  <2>2. Seen(count[w], msg[w]) /\ (file[w] # NoFile => of[file[w]] = msg[w])
    BY <2>1 DEF SeenInv, SeenCalls, Inv, CallInv
  <2>3. SeenFiles'
    <3> SUFFICES ASSUME NEW f \in File, place'[f] # "none"
                 PROVE  Seen(retries[f], of[f])'
      BY DEF SeenFiles
    <3>1. CASE f = file[w]
      <4>1. retries'[f] = count[w] /\ of'[f] = msg[w]
        BY <1>7, <2>1, <2>2, <3>1, PutBackTypes, HandlerAssumption
      <4> QED
        BY <2>1, <2>2, <4>1 DEF Seen
    <3>2. CASE f # file[w]
      BY <1>7, <2>1, <3>2, PutBackTypes DEF SeenInv, SeenFiles, Seen
    <3> QED
      BY <3>1, <3>2
  <2> QED
    BY <2>1, <2>3, SeenKept DEF SeenInv, NotDiscardedEarly
<1> QED
  BY <1>2, <1>3, <1>4, <1>5, <1>6, <1>7 DEF Step

\* The calls that begin: a message from the queue has the retries of its file.
LEMMA SeenEnter ==
  ASSUME Inv, SeenInv, NEW w \in Worker, NEW kind, NEW m \in Msg, NEW f, NEW lists, NEW n \in Nat,
         Enter(w, kind, m, f, lists, n), <<>> \notin lists, Seen(n, m), refusals' = refusals
  PROVE  SeenCalls'
<1>1. /\ pc' = [pc EXCEPT ![w] = "prepare"] /\ msg' = [msg EXCEPT ![w] = m]
      /\ count' = [count EXCEPT ![w] = n] /\ \E l \in lists : left' = [left EXCEPT ![w] = l]
  BY DEF Enter, Goto
<1>2. /\ pc'[w] = "prepare" /\ msg'[w] = m /\ count'[w] = n /\ left'[w] # <<>>
      /\ \A v \in Worker : v # w => /\ pc'[v] = pc[v] /\ msg'[v] = msg[v]
                                     /\ left'[v] = left[v] /\ count'[v] = count[v]
  BY <1>1 DEF Inv, TypeOK
<1>3. ASSUME NEW v \in Worker
      PROVE  /\ pc'[v] # "idle" => Seen(count[v], msg[v])'
             /\ pc'[v] = "prepare" => left'[v] # <<>>
             /\ pc'[v] = "transport" /\ left'[v] = <<>> => Seen(count[v] + 1, msg[v])'
  <2>1. CASE v = w
    BY <1>2, <2>1 DEF Seen
  <2>2. CASE v # w
    <3>1. /\ pc[v] # "idle" => Seen(count[v], msg[v])
          /\ pc[v] = "prepare" => left[v] # <<>>
          /\ pc[v] = "transport" /\ left[v] = <<>> => Seen(count[v] + 1, msg[v])
      BY DEF SeenInv, SeenCalls
    <3> QED
      BY <1>2, <2>2, <3>1 DEF Seen
  <2> QED
    BY <2>1, <2>2
<1> QED
  BY <1>3 DEF SeenCalls

\* Every step of the system.
LEMMA SeenNext ==
  ASSUME Inv, SeenInv, [Next]_vars,
         <<>> \notin CallerLists, \A c \in Configs : c.handler # <<>>
  PROVE  SeenInv'
<1> USE DEF fileVars, callVars, history
<1>1. CASE \E w \in Worker : Step(w) \/ Crash(w)
  BY <1>1, SeenStep
<1>2. \A m \in Msg : Seen(0, m)
  BY DEF Seen, Inv, TypeOK
<1>3. ASSUME NEW w \in Worker, NEW m \in Msg, Call(w, m)
      PROVE  SeenInv'
  <2>1. /\ Enter(w, "memory", m, NoFile, CallerLists, 0)
        /\ UNCHANGED <<config, place, of, retries, refusals, discarded>>
    BY <1>3 DEF Call
  <2>2. SeenCalls'
    BY <1>2, <2>1, SeenEnter
  <2> QED
    BY <2>1, <2>2 DEF SeenInv, SeenFiles, Seen, NotDiscardedEarly
<1>4. ASSUME NEW w \in Worker, NEW m \in Msg, CallStored(w, m)
      PROVE  SeenInv'
  <2>1. PICK f \in File : NewFile(f, m, "cur") /\ Enter(w, "stored", m, f, CallerLists, 0)
    BY <1>4 DEF CallStored
  <2>2. UNCHANGED <<config, refusals, discarded>>
    BY <1>4 DEF CallStored
  <2>3. SeenCalls'
    BY <1>2, <2>1, <2>2, SeenEnter
  <2>4. /\ of'[f] = m /\ retries'[f] = 0
        /\ \A g \in File : g # f => /\ place'[g] = place[g] /\ of'[g] = of[g]
                                     /\ retries'[g] = retries[g]
    BY <2>1, NewFileTypes
  <2>5. SeenFiles'
    BY <1>2, <2>2, <2>4 DEF SeenInv, SeenFiles, Seen
  <2> QED
    BY <2>2, <2>3, <2>5 DEF SeenInv, NotDiscardedEarly
<1>5. ASSUME NEW w \in Worker, NEW f \in File, Take(w, f)
      PROVE  SeenInv'
  <2>1. /\ place[f] = "new" /\ place' = [place EXCEPT ![f] = "cur"]
        /\ Enter(w, "run", of[f], f, {config.handler}, retries[f])
        /\ UNCHANGED <<config, of, retries, refusals, discarded>>
    BY <1>5 DEF Take
  <2>2. of[f] \in Msg /\ retries[f] \in Nat /\ Seen(retries[f], of[f])
    BY <2>1 DEF Inv, FileInv, TypeOK, SeenInv, SeenFiles
  <2>3. <<>> \notin {config.handler}
    BY DEF Inv, TypeOK
  <2>4. SeenCalls'
    BY <2>1, <2>2, <2>3, SeenEnter
  <2>5. SeenFiles'
    BY <2>1 DEF Inv, TypeOK, SeenInv, SeenFiles, Seen
  <2> QED
    BY <2>1, <2>4, <2>5 DEF SeenInv, NotDiscardedEarly
<1>6. ASSUME NEW f \in File, Unblock(f)
      PROVE  SeenInv'
  <2>1. /\ place[f] = "cur" /\ place' = [place EXCEPT ![f] = "new"]
        /\ UNCHANGED <<config, of, retries, pc, msg, left, count, refusals, discarded>>
    BY <1>6 DEF Unblock
  <2>2. SeenFiles'
    BY <2>1 DEF Inv, TypeOK, SeenInv, SeenFiles, Seen
  <2> QED
    BY <2>1, <2>2 DEF SeenInv, SeenCalls, Seen, NotDiscardedEarly
<1>7. CASE UNCHANGED vars
  BY <1>7 DEF vars, SeenInv, SeenFiles, SeenCalls, Seen, NotDiscardedEarly
<1> QED
  BY <1>1, <1>3, <1>4, <1>5, <1>6, <1>7 DEF Next

\* A plugin that gives up after a number of retries has had that many failed
\* attempts, in every call and by every process, unless a handler has no
\* transport at all (its attempts fail without a refusal).
THEOREM NotEarly ==
  ASSUME <<>> \notin CallerLists, \A c \in Configs : c.handler # <<>>
  PROVE  Spec => []NotDiscardedEarly
<1>1. Init => SeenInv
  BY HandlerAssumption
  DEF Init, SeenInv, SeenFiles, SeenCalls, NotDiscardedEarly
<1>2. Inv /\ SeenInv /\ [Next]_vars => SeenInv'
  BY SeenNext
<1>3. SeenInv => NotDiscardedEarly
  BY DEF SeenInv
<1> QED
  BY <1>1, <1>2, <1>3, CallsApart, PTL DEF Spec

-----------------------------------------------------------------------------
(* What the plugins are told.                                               *)

ToldInv ==
    \A w \in Worker :
        /\ pc[w] \in {"prepare", "transport"} => told[w] = <<>> /\ result[w] = "failed"
        /\ pc[w] = "accepted" => told[w] = <<>> /\ result[w] # "failed"
        /\ pc[w] = "finish" => told[w] = <<"successful">> /\ result[w] # "failed"
        /\ pc[w] = "failed" => told[w] = <<"failed">> /\ result[w] = "failed"

\* A call tells the plugins once, after the last transport.
LEMMA ToldStep ==
  ASSUME Inv, ToldInv, [Next]_vars
  PROVE  ToldInv'
<1> USE DEF fileVars, callVars, history
<1>1. ASSUME NEW w \in Worker, \A v \in Worker : v # w => /\ pc'[v] = pc[v] /\ told'[v] = told[v]
                                                        /\ result'[v] = result[v],
             /\ pc'[w] \in {"prepare", "transport"} => told'[w] = <<>> /\ result'[w] = "failed"
             /\ pc'[w] = "accepted" => told'[w] = <<>> /\ result'[w] # "failed"
             /\ pc'[w] = "finish" => told'[w] = <<"successful">> /\ result'[w] # "failed"
             /\ pc'[w] = "failed" => told'[w] = <<"failed">> /\ result'[w] = "failed"
      PROVE  ToldInv'
  <2> SUFFICES ASSUME NEW v \in Worker
               PROVE  /\ pc'[v] \in {"prepare", "transport"} => told'[v] = <<>> /\ result'[v] = "failed"
                      /\ pc'[v] = "accepted" => told'[v] = <<>> /\ result'[v] # "failed"
                      /\ pc'[v] = "finish" => told'[v] = <<"successful">> /\ result'[v] # "failed"
                      /\ pc'[v] = "failed" => told'[v] = <<"failed">> /\ result'[v] = "failed"
    BY DEF ToldInv
  <2>1. CASE v = w
    BY <1>1, <2>1
  <2>2. CASE v # w
    BY <1>1, <2>2 DEF ToldInv
  <2> QED
    BY <2>1, <2>2
<1>2. ASSUME NEW w \in Worker, Step(w) \/ Crash(w)
      PROVE  ToldInv'
  <2>1. \A v \in Worker : v # w => /\ pc'[v] = pc[v] /\ told'[v] = told[v]
                                    /\ result'[v] = result[v]
    BY <1>2, OnlyCall
  <2>2. \/ pc'[w] = "idle"
        \/ pc'[w] \in {"prepare", "transport"} /\ told'[w] = <<>> /\ result'[w] = "failed"
        \/ pc'[w] = "accepted" /\ told'[w] = <<>> /\ result'[w] # "failed"
        \/ pc'[w] = "finish" /\ told'[w] = <<"successful">> /\ result'[w] # "failed"
        \/ pc'[w] = "failed" /\ told'[w] = <<"failed">> /\ result'[w] = "failed"
    <3> USE DEF Inv, TypeOK, ToldInv, Goto
    <3>1. ASSUME NEW r, Leave(w, r) PROVE pc'[w] = "idle"
      BY <3>1 DEF Leave
    <3>2. CASE BadArguments(w) \/ EnqueueError(w) \/ Exception(w) \/ Finish(w) \/ Discard(w)
               \/ PutBack(w) \/ Crash(w)
      BY <3>1, <3>2 DEF BadArguments, EnqueueError, Exception, Finish, Discard, PutBack, Crash
    <3>3. CASE Prepare(w)
      BY <3>3 DEF Prepare
    <3>4. CASE Accepted(w)
      BY <3>4 DEF Accepted, Trying
    <3>5. CASE Refused(w) \/ ReplyLost(w)
      BY <3>5 DEF Refused, ReplyLost, NextTransport, Trying
    <3>6. CASE Enqueue(w)
      <4>1. CASE msg[w] \in config.noId
        BY <3>1, <3>6, <4>1 DEF Enqueue
      <4>2. CASE msg[w] \notin config.noId
        BY <3>6, <4>2 DEF Enqueue, Trying
      <4> QED
        BY <4>1, <4>2
    <3>7. CASE NotifySuccess(w) \/ NotifyFailure(w)
      <4>1. \A x : Append(<<>>, x) = <<x>>
        OBVIOUS
      <4> QED
        BY <3>7, <4>1 DEF NotifySuccess, NotifyFailure
    <3> QED
      BY <1>2, <3>2, <3>3, <3>4, <3>5, <3>6, <3>7 DEF Step
  <2> QED
    BY <1>1, <2>1, <2>2
<1>3. ASSUME NEW w \in Worker, NEW kind, NEW m, NEW f, NEW lists, NEW n,
             Enter(w, kind, m, f, lists, n)
      PROVE  ToldInv'
  <2>1. /\ pc' = [pc EXCEPT ![w] = "prepare"] /\ told' = [told EXCEPT ![w] = <<>>]
        /\ result' = [result EXCEPT ![w] = "failed"]
    BY <1>3 DEF Enter, Goto
  <2> QED
    BY <1>1, <2>1 DEF Inv, TypeOK
<1>4. CASE \/ \E w \in Worker, m \in Msg : Call(w, m) \/ CallStored(w, m)
           \/ \E w \in Worker, f \in File : Take(w, f)
  BY <1>3, <1>4 DEF Call, CallStored, Take
<1>5. CASE (\E f \in File : Unblock(f)) \/ UNCHANGED vars
  BY <1>5 DEF Unblock, vars, ToldInv
<1> QED
  BY <1>2, <1>4, <1>5 DEF Next

\* What becomes of the file, and what the caller is told, is what the plugins
\* have heard, once, before.
THEOREM PluginsFirst == Spec => PluginsToldTheSame
<1> DEFINE Agree(w) ==
      pc[w] # "idle" =>
        /\ file[w] # NoFile /\ place'[file[w]] # place[file[w]] =>
             told[w] = IF place'[file[w]] = "none" /\ result[w] # "failed"
                         THEN <<"successful">> ELSE <<"failed">>
        /\ job[w] # "run" /\ answer'[msg[w]] \in {"sent", "queued"} => told[w] = <<"successful">>
        /\ job[w] # "run" /\ answer'[msg[w]] \in {"failed", "discarded"} => told[w] = <<"failed">>
<1> USE DEF fileVars, callVars, history
<1>1. Init => ToldInv
  BY DEF Init, ToldInv
<1>2. ASSUME Inv, HistInv, ToldInv, [Next]_vars
      PROVE  \A w \in Worker : Agree(w)
  <2> SUFFICES ASSUME NEW w \in Worker, pc[w] # "idle" PROVE Agree(w)
    OBVIOUS
  <2> USE <1>2
  <2>1. /\ msg[w] \in Msg
        /\ file[w] # NoFile =>
             /\ file[w] \in File /\ place[file[w]] = "cur"
             /\ \A v \in Worker : file[v] = file[w] => v = w
        /\ place \in [File -> {"none", "tmp", "new", "cur"}]
    BY DEF Inv, TypeOK, CallInv, OwnInv
  <2>2. job[w] # "run" =>
          /\ answer[msg[w]] = "pending"
          /\ \A v \in Worker : pc[v] # "idle" /\ job[v] # "run" /\ msg[v] = msg[w] => v = w
    BY DEF HistInv, CallerInv
  <2>3. ASSUME file[w] # NoFile => place'[file[w]] = place[file[w]],
               job[w] # "run" => answer'[msg[w]] \in {"pending", "raised", "killed"}
        PROVE  Agree(w)
    BY <2>3
  <2> HIDE DEF Agree
  <2>4. ASSUME NEW v \in Worker, NEW r, Leave(v, r), pc[v] # "idle", v # w
        PROVE  job[w] # "run" => answer'[msg[w]] = "pending"
    BY <2>1, <2>2, <2>4 DEF Leave, Inv, TypeOK
  <2>5. ASSUME NEW r, Leave(w, r)
        PROVE  job[w] # "run" => answer'[msg[w]] = r
    BY <2>1, <2>5 DEF Leave, Inv, TypeOK
  <2>6. \A v \in Worker : Unlink(v) /\ v # w /\ file[w] # NoFile =>
                            place'[file[w]] = place[file[w]]
    BY <2>1 DEF Unlink
  <2>7. ASSUME NEW v \in Worker, Step(v) \/ Crash(v), v # w
        PROVE  Agree(w)
    <3>1. file[w] # NoFile => place'[file[w]] = place[file[w]]
      BY <2>1, <2>6, <2>7 DEF Step, Crash, Prepare, BadArguments, Accepted, Refused, ReplyLost,
         NextTransport, Enqueue, EnqueueError, Exception, NotifySuccess, Finish, NotifyFailure,
         Discard, PutBack, NewFile
    <3>2. answer' = answer \/ (pc[v] # "idle" /\ \E r : Leave(v, r))
      BY <2>7 DEF Step, Crash, Prepare, BadArguments, Accepted, Refused, ReplyLost,
         NextTransport, Enqueue, EnqueueError, Exception, NotifySuccess, Finish, NotifyFailure,
         Discard, PutBack, Trying
    <3>3. job[w] # "run" => answer'[msg[w]] = "pending"
      BY <2>2, <2>4, <2>7, <3>2
    <3> QED
      BY <2>3, <3>1, <3>3
  <2>8. CASE \/ Prepare(w) \/ Accepted(w) \/ Refused(w) \/ ReplyLost(w)
             \/ NotifySuccess(w) \/ NotifyFailure(w)
    <3>1. UNCHANGED <<place, answer>>
      BY <2>8 DEF Prepare, Accepted, Refused, ReplyLost, NextTransport, NotifySuccess,
         NotifyFailure
    <3> QED
      BY <2>2, <2>3, <3>1
  <2>9. CASE BadArguments(w) \/ Exception(w) \/ Crash(w) \/ Enqueue(w) \/ EnqueueError(w)
    <3>1. file[w] # NoFile => place'[file[w]] = place[file[w]]
      BY <2>1, <2>9 DEF BadArguments, Exception, Crash, Enqueue, EnqueueError, NewFile
    <3>2. answer' = answer \/ \E r \in {"raised", "killed"} : Leave(w, r)
      BY <2>9 DEF BadArguments, Exception, Crash, Enqueue, EnqueueError
    <3> QED
      BY <2>2, <2>3, <2>5, <3>1, <3>2
  <2>10. CASE Finish(w)
    <3>1. /\ told[w] = <<"successful">> /\ result[w] \in {"sent", "queued"}
          /\ \E r \in {"raised", result[w]} : Leave(w, r)
          /\ file[w] # NoFile => place'[file[w]] = "none"
      BY <2>10, UnlinkTypes DEF Finish, ToldInv, Inv, TypeOK
    <3>2. job[w] # "run" => answer'[msg[w]] \in {"raised", "sent", "queued"}
      BY <2>5, <3>1
    <3> QED
      BY <3>1, <3>2 DEF Agree
  <2>11. CASE Discard(w) \/ PutBack(w)
    <3>1. Leave(w, "discarded") \/ Leave(w, "failed")
      BY <2>11 DEF Discard, PutBack
    <3>2. job[w] # "run" => answer'[msg[w]] \in {"discarded", "failed"}
      BY <2>5, <3>1
    <3>3. told[w] = <<"failed">> /\ result[w] = "failed"
      BY <2>11 DEF Discard, PutBack, ToldInv
    <3> QED
      BY <3>2, <3>3 DEF Agree
  <2>12. ASSUME NEW v \in Worker, NEW m \in Msg, Call(v, m) \/ CallStored(v, m)
         PROVE  Agree(w)
    <3>1. answer' = [answer EXCEPT ![m] = "pending"]
      BY <2>12 DEF Call, CallStored
    <3>2. job[w] # "run" => answer'[msg[w]] = "pending"
      BY <2>1, <2>2, <3>1 DEF Inv, TypeOK
    <3>3. file[w] # NoFile => place'[file[w]] = place[file[w]]
      BY <2>1, <2>12 DEF Call, CallStored, NewFile
    <3> QED
      BY <2>3, <3>2, <3>3
  <2>13. ASSUME NEW v \in Worker, NEW f \in File, Take(v, f)
         PROVE  Agree(w)
    BY <2>1, <2>2, <2>3, <2>13 DEF Take
  <2>14. ASSUME NEW f \in File, Unblock(f)
         PROVE  Agree(w)
    BY <2>1, <2>2, <2>3, <2>14 DEF Unblock, Held
  <2>15. CASE UNCHANGED vars
    BY <2>2, <2>3, <2>15 DEF vars
  <2> QED
    BY <2>7, <2>8, <2>9, <2>10, <2>11, <2>12, <2>13, <2>14, <2>15 DEF Next, Step
<1>3. Inv /\ ToldInv /\ [Next]_vars => ToldInv'
  BY ToldStep
<1>4. (\A w \in Worker : Agree(w)) =>
        [\A w \in Worker : pc[w] # "idle" =>
           /\ file[w] # NoFile /\ place'[file[w]] # place[file[w]] =>
                told[w] = IF place'[file[w]] = "none" /\ result[w] # "failed"
                            THEN <<"successful">> ELSE <<"failed">>
           /\ job[w] # "run" /\ answer'[msg[w]] \in {"sent", "queued"} =>
                told[w] = <<"successful">>
           /\ job[w] # "run" /\ answer'[msg[w]] \in {"failed", "discarded"} =>
                told[w] = <<"failed">>]_vars
  OBVIOUS
<1> QED
  BY <1>1, <1>2, <1>3, <1>4, History, PTL DEF Spec, PluginsToldTheSame

-----------------------------------------------------------------------------
(* How often a message goes out.                                            *)

\* f will be delivered again, by whoever finds it.
FileSource(f, m) ==
    /\ f \in File /\ of[f] = m /\ place[f] \in {"new", "cur"}
    /\ \A w \in Worker : file[w] = f => ~Done(w)

\* w works on a message nobody else has.
CallSource(w, m) ==
    w \in Worker /\ pc[w] # "idle" /\ ~Done(w) /\ job[w] = "memory" /\ msg[w] = m

\* The two kinds of sources, element by element.
LEMMA SourceIs ==
  ASSUME NEW m
  PROVE  /\ Sources(m) = {x \in File \cup Worker : FileSource(x, m) \/ CallSource(x, m)}
         /\ Sources(m)' = {x \in File \cup Worker : FileSource(x, m)' \/ CallSource(x, m)'}
  BY DEF Sources, Copies, FileSource, CallSource

\* There are finitely many.
LEMMA SourceCount ==
  ASSUME NEW m
  PROVE  /\ IsFiniteSet(Sources(m)) /\ Cardinality(Sources(m)) \in Nat
         /\ IsFiniteSet(Sources(m)') /\ Cardinality(Sources(m))' \in Nat
<1>1. IsFiniteSet(File \cup Worker)
  BY HandlerAssumption, FS_Union
<1>2. Sources(m) \subseteq File \cup Worker /\ Sources(m)' \subseteq File \cup Worker
  BY DEF Sources, Copies
<1>3. IsFiniteSet(Sources(m)) /\ IsFiniteSet(Sources(m)')
  BY <1>1, <1>2, FS_Subset
<1> QED
  BY <1>3, FS_CardinalityType

\* Sets of sources that differ by one element.
LEMMA OneMore ==
  ASSUME NEW S, NEW T, NEW x, IsFiniteSet(S), IsFiniteSet(T)
  PROVE  /\ T \subseteq S => Cardinality(T) <= Cardinality(S)
         /\ T \subseteq S \cup {x} => Cardinality(T) <= Cardinality(S) + 1
         /\ T \subseteq S \ {x} /\ x \in S => Cardinality(T) + 1 <= Cardinality(S)
         /\ T \subseteq {x} => Cardinality(T) <= 1
<1>1. Cardinality(S) \in Nat /\ Cardinality(T) \in Nat
  BY FS_CardinalityType
<1>2. T \subseteq S => Cardinality(T) <= Cardinality(S)
  BY FS_Subset
<1>3. /\ IsFiniteSet(S \cup {x})
      /\ Cardinality(S \cup {x}) = Cardinality(S) \/ Cardinality(S \cup {x}) = Cardinality(S) + 1
  BY <1>1, FS_AddElement
<1>4. /\ IsFiniteSet(S \ {x})
      /\ x \in S => Cardinality(S \ {x}) = Cardinality(S) - 1
  BY <1>1, FS_RemoveElement
<1>5. T \subseteq S \cup {x} => Cardinality(T) <= Cardinality(S) + 1
  <2> SUFFICES ASSUME T \subseteq S \cup {x} PROVE Cardinality(T) <= Cardinality(S) + 1
    OBVIOUS
  <2>1. Cardinality(T) <= Cardinality(S \cup {x})
    BY <1>3, FS_Subset
  <2> QED
    BY <1>1, <1>3, <2>1
<1>6. T \subseteq S \ {x} /\ x \in S => Cardinality(T) + 1 <= Cardinality(S)
  <2> SUFFICES ASSUME T \subseteq S \ {x}, x \in S PROVE Cardinality(T) + 1 <= Cardinality(S)
    OBVIOUS
  <2>1. Cardinality(T) <= Cardinality(S \ {x})
    BY <1>4, FS_Subset
  <2> QED
    BY <1>1, <1>4, <2>1
<1>7. T \subseteq {x} => Cardinality(T) <= 1
  <2>1. IsFiniteSet({x}) /\ Cardinality({x}) = 1
    BY FS_Singleton
  <2> QED
    BY <2>1, FS_Subset
<1> QED
  BY <1>2, <1>5, <1>6, <1>7

\* What a step of w can make a source that was none: the files in X.
LEMMA NoNewSource ==
  ASSUME Inv, NEW w \in Worker, NEW m, NEW X \in SUBSET File,
         \A v \in Worker : v # w => /\ pc'[v] = pc[v] /\ file'[v] = file[v]
                                    /\ job'[v] = job[v] /\ msg'[v] = msg[v],
         \A f \in File \ X : place'[f] \in {"new", "cur"} /\ of'[f] = m =>
             /\ place[f] \in {"new", "cur"} /\ of[f] = m
             /\ file[w] = f /\ Done(w) => file'[w] = f /\ Done(w)',
         CallSource(w, m)' => CallSource(w, m)
  PROVE  Sources(m)' \subseteq Sources(m) \cup X
<1>1. \A v \in Worker : v # w => (Done(v)' <=> Done(v)) /\ (CallSource(v, m)' <=> CallSource(v, m))
  BY DEF Done, CallSource
<1>2. ASSUME NEW f \in File \ X, FileSource(f, m)' PROVE FileSource(f, m)
  <2>1. /\ place'[f] \in {"new", "cur"} /\ of'[f] = m
        /\ \A v \in Worker : file'[v] = f => ~Done(v)'
    BY <1>2 DEF FileSource
  <2>2. ASSUME NEW v \in Worker, file[v] = f, Done(v) PROVE FALSE
    <3>1. CASE v = w
      BY <2>1, <2>2, <3>1
    <3>2. CASE v # w
      BY <1>1, <2>1, <2>2, <3>2
    <3> QED
      BY <3>1, <3>2
  <2> QED
    BY <2>1, <2>2 DEF FileSource
<1>3. ASSUME NEW x \in File \cup Worker, x \notin X, FileSource(x, m)' \/ CallSource(x, m)'
      PROVE  FileSource(x, m) \/ CallSource(x, m)
  BY <1>1, <1>2, <1>3 DEF FileSource, CallSource
<1> QED
  BY <1>3, SourceIs

\* No new source: their number has not grown.
LEMMA NotMore ==
  ASSUME NEW m, Sources(m)' \subseteq Sources(m) \cup {}
  PROVE  Cardinality(Sources(m))' <= Cardinality(Sources(m))
<1>1. IsFiniteSet(Sources(m)) /\ IsFiniteSet(Sources(m)')
  BY SourceCount
<1>2. Sources(m)' \subseteq Sources(m)
  OBVIOUS
<1>3. Cardinality(Sources(m)') <= Cardinality(Sources(m))
  BY <1>1, <1>2, OneMore
<1> QED
  BY <1>3

\* A call that tries a transport is, or has, a source of its message.
LEMMA OwnSource ==
  ASSUME Inv, NEW w \in Worker, pc[w] = "transport", NEW m, m = msg[w]
  PROVE  \E x \in Sources(m) : IF file[w] = NoFile THEN x = w ELSE x = file[w]
<1>1. /\ job[w] = "memory" <=> file[w] = NoFile
      /\ file[w] # NoFile => file[w] \in File /\ place[file[w]] = "cur" /\ of[file[w]] = m
  BY DEF Inv, TypeOK, CallInv
<1>2. CASE file[w] = NoFile
  <2>1. CallSource(w, m)
    BY <1>1, <1>2 DEF CallSource, Done
  <2> QED
    BY <1>2, <2>1, SourceIs
<1>3. CASE file[w] # NoFile
  <2>1. \A v \in Worker : file[v] = file[w] => v = w
    BY <1>3 DEF Inv, OwnInv
  <2>2. FileSource(file[w], m)
    BY <1>1, <1>3, <2>1 DEF FileSource, Done
  <2> QED
    BY <1>1, <1>3, <2>2, SourceIs
<1> QED
  BY <1>2, <1>3

\* The sources of one message, step by step of a call.
LEMMA SurplusStep ==
  ASSUME Inv, NEW w \in Worker, Step(w) \/ Crash(w),
         NEW m \in Msg, m \notin config.noId,
         sent[m] + Cardinality(Sources(m)) <= 1 + faults
  PROVE  sent'[m] + Cardinality(Sources(m))' <= 1 + faults'
<1> USE DEF fileVars, callVars, history
<1>1. /\ sent \in [Msg -> Nat] /\ faults \in Nat /\ pc \in [Worker -> Busy \cup {"idle"}]
      /\ file \in [Worker -> File \cup {NoFile}] /\ NoFile \notin File
      /\ place \in [File -> {"none", "tmp", "new", "cur"}]
      /\ pc[w] # "idle" => /\ msg[w] \in Msg /\ (job[w] = "memory" <=> file[w] = NoFile)
                           /\ file[w] # NoFile => /\ file[w] \in File /\ place[file[w]] = "cur"
                                                  /\ of[file[w]] = msg[w]
  BY HandlerAssumption DEF Inv, TypeOK, CallInv
<1>2. \A v \in Worker : v # w => /\ pc'[v] = pc[v] /\ file'[v] = file[v]
                                  /\ job'[v] = job[v] /\ msg'[v] = msg[v]
  BY OnlyCall
<1>3. /\ IsFiniteSet(Sources(m)) /\ Cardinality(Sources(m)) \in Nat
      /\ IsFiniteSet(Sources(m)') /\ Cardinality(Sources(m))' \in Nat
  BY SourceCount
<1>4. \A r : Leave(w, r) => ~CallSource(w, m)' /\ pc'[w] = "idle"
  BY <1>1 DEF Leave, Goto, CallSource
<1>5. CASE Prepare(w) \/ Refused(w) \/ NotifySuccess(w) \/ NotifyFailure(w)
  <2>1. /\ UNCHANGED <<place, of, job, msg, file, sent, faults>> /\ pc[w] # "idle"
        /\ pc'[w] # "idle" /\ Done(w)' = Done(w)
    <3>1. CASE Prepare(w)
      BY <1>1, <3>1 DEF Prepare, Goto, Done
    <3>2. CASE NotifySuccess(w)
      BY <1>1, <3>2 DEF NotifySuccess, Goto, Done
    <3>3. CASE NotifyFailure(w)
      BY <1>1, <3>3 DEF NotifyFailure, Goto, Done
    <3>4. CASE Refused(w)
      BY <1>1, <3>4 DEF Refused, NextTransport, Trying, Done
    <3> QED
      BY <1>5, <3>1, <3>2, <3>3, <3>4
  <2>2. CallSource(w, m)' => CallSource(w, m)
    BY <2>1 DEF CallSource
  <2>3. Sources(m)' \subseteq Sources(m) \cup {}
    BY <1>2, <2>1, <2>2, NoNewSource
  <2> QED
    BY <1>1, <1>3, <2>1, <2>3, NotMore
<1>6. CASE BadArguments(w)
  <2>1. /\ UNCHANGED <<place, of, sent, faults>> /\ ~Done(w) /\ Leave(w, "raised")
    BY <1>6 DEF BadArguments, Done
  <2>2. Sources(m)' \subseteq Sources(m) \cup {}
    BY <1>2, <1>4, <2>1, NoNewSource
  <2> QED
    BY <1>1, <1>3, <2>1, <2>2, NotMore
<1>7. CASE Exception(w) \/ Crash(w)
  <2>1. /\ UNCHANGED <<place, of, sent>> /\ pc[w] # "idle" /\ faults' = faults + 1
        /\ \E r : Leave(w, r)
    BY <1>7 DEF Exception, Crash, Inject
  <2>2. PICK X \in SUBSET File : X = {file[w]} \cap File
    OBVIOUS
  <2>3. \A f \in File \ X : place'[f] \in {"new", "cur"} /\ of'[f] = m =>
             /\ place[f] \in {"new", "cur"} /\ of[f] = m
             /\ file[w] = f /\ Done(w) => file'[w] = f /\ Done(w)'
    BY <2>1, <2>2
  <2>4. CallSource(w, m)' => CallSource(w, m)
    BY <1>4, <2>1
  <2>5. Sources(m)' \subseteq Sources(m) \cup X
    BY <1>2, <2>3, <2>4, NoNewSource
  <2>6. Cardinality(Sources(m)') <= Cardinality(Sources(m)) + 1
    BY <1>3, <2>2, <2>5, OneMore
  <2> QED
    BY <1>1, <1>3, <2>1, <2>6
<1>8. CASE Finish(w) \/ Discard(w) \/ PutBack(w)
  <2>1. /\ UNCHANGED <<sent, faults>> /\ \E r : Leave(w, r)
        /\ \A f \in File : f # file[w] => place'[f] = place[f] /\ of'[f] = of[f]
    <3>1. CASE Finish(w) \/ Discard(w)
      BY <3>1, UnlinkTypes DEF Finish, Discard
    <3>2. CASE PutBack(w)
      BY <3>2, PutBackTypes DEF PutBack
    <3> QED
      BY <1>8, <3>1, <3>2
  <2>2. file[w] # NoFile => \/ place'[file[w]] = "none"
                            \/ of'[file[w]] = of[file[w]] /\ ~Done(w)
    <3>1. CASE Finish(w) \/ Discard(w)
      BY <3>1, UnlinkTypes DEF Finish, Discard
    <3>2. CASE PutBack(w)
      BY <3>2, PutBackTypes DEF PutBack, Done
    <3> QED
      BY <1>8, <3>1, <3>2
  <2>3. pc[w] # "idle"
    BY <1>8 DEF Finish, Discard, PutBack
  <2>4. \A f \in File \ {} : place'[f] \in {"new", "cur"} /\ of'[f] = m =>
             /\ place[f] \in {"new", "cur"} /\ of[f] = m
             /\ file[w] = f /\ Done(w) => file'[w] = f /\ Done(w)'
    BY <1>1, <2>1, <2>2, <2>3
  <2>5. Sources(m)' \subseteq Sources(m) \cup {}
    BY <1>2, <1>4, <2>1, <2>4, NoNewSource
  <2> QED
    BY <1>1, <1>3, <2>1, <2>5, NotMore
<1>9. ASSUME pc[w] = "transport", m = msg[w]
      PROVE  \E x \in Sources(m) : IF file[w] = NoFile THEN x = w ELSE x = file[w]
  BY <1>9, OwnSource
<1>10. ASSUME pc[w] = "transport", m = msg[w], Done(w)', UNCHANGED <<file, job, msg>>,
              NEW x, IF file[w] = NoFile THEN x = w ELSE x = file[w]
       PROVE  x \notin Sources(m)'
  <2>1. ~CallSource(x, m)'
    BY <1>1, <1>10, HandlerAssumption DEF CallSource
  <2>2. ~FileSource(x, m)'
    BY <1>1, <1>10, HandlerAssumption DEF FileSource
  <2> QED
    BY <2>1, <2>2, SourceIs
<1>11. CASE Accepted(w)
  <2>1. /\ pc[w] = "transport" /\ UNCHANGED <<place, of, job, msg, file, faults>>
        /\ Done(w)' /\ sent' = [sent EXCEPT ![msg[w]] = @ + 1]
    BY <1>1, <1>11 DEF Accepted, Trying, Goto, Done
  <2>2. CallSource(w, m)' => CallSource(w, m)
    BY <2>1 DEF CallSource
  <2>3. Sources(m)' \subseteq Sources(m) \cup {}
    BY <1>2, <2>1, <2>2, NoNewSource
  <2>4. CASE m = msg[w]
    <3>1. PICK x \in Sources(m) : IF file[w] = NoFile THEN x = w ELSE x = file[w]
      BY <1>9, <2>1, <2>4
    <3>2. x \notin Sources(m)'
      BY <1>10, <2>1, <2>4, <3>1
    <3>3. Cardinality(Sources(m)') + 1 <= Cardinality(Sources(m))
      BY <1>3, <2>3, <3>1, <3>2, OneMore
    <3>4. sent'[m] = sent[m] + 1
      BY <1>1, <2>1, <2>4
    <3> QED
      BY <1>1, <1>3, <2>1, <3>3, <3>4
  <2>5. CASE m # msg[w]
    <3>1. sent'[m] = sent[m]
      BY <1>1, <2>1, <2>5
    <3> QED
      BY <1>1, <1>3, <2>1, <2>3, <3>1, NotMore
  <2> QED
    BY <2>4, <2>5
<1>12. CASE ReplyLost(w)
  <2>1. /\ pc[w] = "transport" /\ UNCHANGED <<place, of, pc, job, msg, file>>
        /\ faults' = faults + 1 /\ sent' = [sent EXCEPT ![msg[w]] = @ + 1]
    BY <1>12 DEF ReplyLost, NextTransport, Trying, Inject
  <2>2. CallSource(w, m)' => CallSource(w, m)
    BY <2>1 DEF CallSource, Done
  <2>3. Sources(m)' \subseteq Sources(m) \cup {}
    BY <1>2, <2>1, <2>2, NoNewSource DEF Done
  <2>4. Cardinality(Sources(m)') <= Cardinality(Sources(m))
    BY <2>3, NotMore
  <2>5. sent'[m] <= sent[m] + 1 /\ sent'[m] \in Nat
    BY <1>1, <2>1
  <2> QED
    BY <1>1, <1>3, <2>1, <2>4, <2>5
<1>13. CASE Enqueue(w)
  <2>1. PICK f \in File : NewFile(f, msg[w], "new")
    BY <1>13 DEF Enqueue
  <2>2. pc[w] = "transport" /\ UNCHANGED <<sent, faults>>
    BY <1>13 DEF Enqueue, Trying
  <2>3. /\ place[f] = "none" /\ of'[f] = msg[w]
        /\ \A g \in File : g # f => place'[g] = place[g] /\ of'[g] = of[g]
    BY <1>1, <2>1, <2>2, NewFileTypes
  <2>4. CASE m = msg[w]
    <3>1. /\ Done(w)' /\ UNCHANGED <<job, msg, file>>
      BY <1>1, <1>13, <2>4 DEF Enqueue, Goto, Done
    <3>2. ~Done(w) /\ (CallSource(w, m)' => CallSource(w, m))
      BY <2>2, <3>1 DEF CallSource, Done
    <3>3. Sources(m)' \subseteq Sources(m) \cup {f}
      <4>1. PICK X \in SUBSET File : X = {f}
        OBVIOUS
      <4>2. \A g \in File \ X : place'[g] \in {"new", "cur"} /\ of'[g] = m =>
              /\ place[g] \in {"new", "cur"} /\ of[g] = m
              /\ file[w] = g /\ Done(w) => file'[w] = g /\ Done(w)'
        BY <2>3, <3>2, <4>1
      <4>3. Sources(m)' \subseteq Sources(m) \cup X
        BY <1>2, <3>2, <4>2, NoNewSource
      <4> QED
        BY <4>1, <4>3
    <3>4. PICK x \in Sources(m) : IF file[w] = NoFile THEN x = w ELSE x = file[w]
      BY <1>9, <2>2, <2>4
    <3>5. x \notin Sources(m)'
      BY <1>10, <2>2, <2>4, <3>1, <3>4
    <3>6. Cardinality(Sources(m) \ {x}) = Cardinality(Sources(m)) - 1 /\ IsFiniteSet(Sources(m) \ {x})
      BY <1>3, <3>4, FS_RemoveElement
    <3>7. Cardinality(Sources(m)') <= Cardinality(Sources(m) \ {x}) + 1
      BY <1>3, <3>3, <3>5, <3>6, OneMore
    <3> QED
      BY <1>1, <1>3, <2>2, <3>6, <3>7
  <2>5. CASE m # msg[w]
    <3>1. CallSource(w, m)' => CallSource(w, m)
      <4>1. CASE msg[w] \in config.noId
        BY <1>4, <1>13, <4>1 DEF Enqueue
      <4>2. CASE msg[w] \notin config.noId
        BY <1>13, <2>5, <4>2 DEF Enqueue, CallSource
      <4> QED
        BY <4>1, <4>2
    <3>2. ~Done(w)
      BY <2>2 DEF Done
    <3>3. Sources(m)' \subseteq Sources(m) \cup {}
      BY <1>2, <2>3, <2>5, <3>1, <3>2, NoNewSource
    <3> QED
      BY <1>1, <1>3, <2>2, <3>3, NotMore
  <2> QED
    BY <2>4, <2>5
<1>14. CASE EnqueueError(w)
  <2>1. /\ pc[w] = "transport" /\ ~Done(w) /\ Leave(w, "raised") /\ sent' = sent
        /\ faults' = faults + 1
    BY <1>14 DEF EnqueueError, Trying, Inject, Done
  <2>2. \A f \in File : place'[f] \in {"new", "cur"} => place[f] = place'[f] /\ of'[f] = of[f]
    <3>1. CASE \E f \in File : NewFile(f, msg[w], "tmp")
      BY <1>1, <2>1, <3>1, NewFileTypes
    <3> QED
      BY <1>14, <3>1 DEF EnqueueError
  <2>3. Sources(m)' \subseteq Sources(m) \cup {}
    BY <1>2, <1>4, <2>1, <2>2, NoNewSource
  <2> QED
    BY <1>1, <1>3, <2>1, <2>3, NotMore
<1> QED
  BY <1>5, <1>6, <1>7, <1>8, <1>11, <1>12, <1>13, <1>14 DEF Step

\* Nothing has been done yet for a message nobody was called with.
LEMMA FirstSource ==
  ASSUME Inv, HistInv, NEW m \in Msg, answer[m] = "none"
  PROVE  sent[m] = 0 /\ Sources(m) = {}
<1>1. sent[m] = 0 /\ m \notin queued
  BY DEF HistInv, CallerInv
<1>2. \A f \in File : ~FileSource(f, m)
  BY <1>1 DEF FileSource, HistInv, FilesInv
<1>3. \A w \in Worker : ~CallSource(w, m)
  BY DEF CallSource, HistInv, CallerInv
<1>4. \A x : (FileSource(x, m) => x \in File) /\ (CallSource(x, m) => x \in Worker)
  BY DEF FileSource, CallSource
<1> QED
  BY <1>1, <1>2, <1>3, <1>4, SourceIs

\* A call that begins: the file of its message was a source before.
LEMMA SurplusEnter ==
  ASSUME Inv, NEW w \in Worker, NEW kind, NEW x \in Msg, NEW f, NEW lists, NEW n,
         Enter(w, kind, x, f, lists, n), NEW m, NEW X \in SUBSET File,
         \A g \in File \ X : place'[g] \in {"new", "cur"} /\ of'[g] = m =>
             place[g] \in {"new", "cur"} /\ of[g] = m,
         kind = "memory" => x # m
  PROVE  Sources(m)' \subseteq Sources(m) \cup X
<1>1. /\ pc[w] = "idle" /\ pc' = [pc EXCEPT ![w] = "prepare"]
      /\ job' = [job EXCEPT ![w] = kind] /\ msg' = [msg EXCEPT ![w] = x]
      /\ file' = [file EXCEPT ![w] = f]
  BY DEF Enter, Goto
<1>2. /\ ~Done(w) /\ job'[w] = kind /\ msg'[w] = x
      /\ \A v \in Worker : v # w => /\ pc'[v] = pc[v] /\ file'[v] = file[v]
                                     /\ job'[v] = job[v] /\ msg'[v] = msg[v]
  BY <1>1 DEF Inv, TypeOK, Done
<1>3. ~CallSource(w, m)'
  BY <1>2 DEF CallSource
<1> QED
  BY <1>2, <1>3, NoNewSource

\* Every step of the system.
LEMMA SurplusNext ==
  ASSUME Inv, HistInv, NoSurplus, [Next]_vars
  PROVE  NoSurplus'
<1> USE DEF fileVars, callVars, history
<1>1. config' = config
  <2>1. CASE \E w \in Worker : Step(w) \/ Crash(w)
    BY <2>1 DEF Step, Crash, Prepare, BadArguments, Accepted, Refused, ReplyLost, NextTransport,
       Enqueue, EnqueueError, Exception, NotifySuccess, Finish, NotifyFailure, Discard, PutBack
  <2> QED
    BY <2>1 DEF Next, Call, CallStored, Take, Unblock, vars
<1>2. SUFFICES ASSUME NEW m \in Msg, m \notin config.noId
               PROVE  sent'[m] + Cardinality(Sources(m))' <= 1 + faults'
  BY <1>1 DEF NoSurplus
<1>3. sent[m] + Cardinality(Sources(m)) <= 1 + faults
  BY <1>2 DEF NoSurplus
<1>4. sent[m] \in Nat /\ faults \in Nat
  BY DEF Inv, TypeOK
<1>5. /\ Cardinality(Sources(m)) \in Nat /\ Cardinality(Sources(m))' \in Nat
      /\ IsFiniteSet(Sources(m)')
  BY SourceCount
<1>6. CASE \E w \in Worker : Step(w) \/ Crash(w)
  BY <1>2, <1>3, <1>6, SurplusStep
<1>7. ASSUME UNCHANGED <<sent, faults>>, Sources(m)' \subseteq Sources(m) \cup {}
      PROVE  sent'[m] + Cardinality(Sources(m))' <= 1 + faults'
  BY <1>3, <1>4, <1>5, <1>7, NotMore
<1>8. ASSUME UNCHANGED <<sent, faults>>, sent[m] = 0, NEW x, Sources(m)' \subseteq {x}
      PROVE  sent'[m] + Cardinality(Sources(m))' <= 1 + faults'
  <2>1. Cardinality(Sources(m)') <= 1
    BY <1>5, <1>8, FS_EmptySet, OneMore
  <2> QED
    BY <1>4, <1>5, <1>8, <2>1
<1>9. ASSUME NEW w \in Worker, NEW x \in Msg, Call(w, x)
      PROVE  sent'[m] + Cardinality(Sources(m))' <= 1 + faults'
  <2>1. /\ Enter(w, "memory", x, NoFile, CallerLists, 0) /\ answer[x] = "none"
        /\ UNCHANGED <<place, of, sent, faults>>
    BY <1>9 DEF Call
  <2>2. CASE x # m
    <3>1. Sources(m)' \subseteq Sources(m) \cup {}
      BY <2>1, <2>2, SurplusEnter
    <3> QED
      BY <1>7, <2>1, <3>1
  <2>3. CASE x = m
    <3>1. sent[m] = 0 /\ Sources(m) = {}
      BY <2>1, <2>3, FirstSource
    <3>2. \A f \in File : ~FileSource(f, m)'
      <4>1. \A f \in File : ~FileSource(f, m)
        BY <3>1, SourceIs
      <4>2. m \notin queued
        BY <2>1, <2>3 DEF HistInv, CallerInv
      <4> QED
        BY <2>1, <4>2 DEF FileSource, HistInv, FilesInv
    <3>3. \A v \in Worker : v # w => ~CallSource(v, m)'
      BY <2>1, <2>3 DEF CallSource, HistInv, CallerInv, Enter, Goto, Inv, TypeOK, Done
    <3>4. Sources(m)' \subseteq {w}
      <4>1. \A y : (FileSource(y, m)' => y \in File) /\ (CallSource(y, m)' => y \in Worker)
        BY DEF FileSource, CallSource
      <4> QED
        BY <3>2, <3>3, <4>1, SourceIs
    <3> QED
      BY <1>8, <2>1, <3>1, <3>4
  <2> QED
    BY <2>2, <2>3
<1>10. ASSUME NEW w \in Worker, NEW x \in Msg, CallStored(w, x)
       PROVE  sent'[m] + Cardinality(Sources(m))' <= 1 + faults'
  <2>1. PICK f \in File : NewFile(f, x, "cur") /\ Enter(w, "stored", x, f, CallerLists, 0)
    BY <1>10 DEF CallStored
  <2>2. answer[x] = "none" /\ UNCHANGED <<sent, faults>>
    BY <1>10 DEF CallStored
  <2>3. of'[f] = x /\ \A g \in File : g # f => place'[g] = place[g] /\ of'[g] = of[g]
    BY <2>1, NewFileTypes
  <2>4. CASE x # m
    <3>1. Sources(m)' \subseteq Sources(m) \cup {}
      BY <2>1, <2>3, <2>4, SurplusEnter
    <3> QED
      BY <1>7, <2>2, <3>1
  <2>5. CASE x = m
    <3>1. PICK X \in SUBSET File : X = {f}
      OBVIOUS
    <3>2. \A g \in File \ X : place'[g] \in {"new", "cur"} /\ of'[g] = m =>
             place[g] \in {"new", "cur"} /\ of[g] = m
      BY <2>3, <3>1
    <3>3. Sources(m)' \subseteq Sources(m) \cup X
      BY <2>1, <3>2, SurplusEnter
    <3>4. sent[m] = 0 /\ Sources(m) = {}
      BY <2>2, <2>5, FirstSource
    <3> QED
      BY <1>8, <2>2, <3>1, <3>3, <3>4
  <2> QED
    BY <2>4, <2>5
<1>11. ASSUME NEW w \in Worker, NEW f \in File, Take(w, f)
       PROVE  sent'[m] + Cardinality(Sources(m))' <= 1 + faults'
  <2>1. /\ place[f] = "new" /\ place' = [place EXCEPT ![f] = "cur"]
        /\ Enter(w, "run", of[f], f, {config.handler}, retries[f])
        /\ UNCHANGED <<of, sent, faults>>
    BY <1>11 DEF Take
  <2>2. of[f] \in Msg /\ \A g \in File : place'[g] \in {"new", "cur"} => place[g] \in {"new", "cur"}
    BY <2>1 DEF Inv, FileInv, TypeOK
  <2>3. \A g \in File \ {} : place'[g] \in {"new", "cur"} /\ of'[g] = m =>
             place[g] \in {"new", "cur"} /\ of[g] = m
    BY <2>1, <2>2
  <2>4. PICK x \in Msg, X \in SUBSET File : x = of[f] /\ X = {}
    BY <2>2
  <2>5. \E kind, lists, n : kind # "memory" /\ Enter(w, kind, x, f, lists, n)
    BY <2>1, <2>4
  <2>6. Sources(m)' \subseteq Sources(m) \cup {}
    BY <2>3, <2>4, <2>5, SurplusEnter
  <2> QED
    BY <1>7, <2>1, <2>6
<1>12. ASSUME NEW f \in File, Unblock(f)
       PROVE  sent'[m] + Cardinality(Sources(m))' <= 1 + faults'
  <2>1. /\ place[f] = "cur" /\ place' = [place EXCEPT ![f] = "new"]
        /\ UNCHANGED <<of, pc, job, msg, file, sent, faults>>
    BY <1>12 DEF Unblock
  <2>2. \A x : (FileSource(x, m)' => FileSource(x, m)) /\ (CallSource(x, m)' => CallSource(x, m))
    BY <2>1 DEF FileSource, CallSource, Done, Inv, TypeOK
  <2>3. Sources(m)' \subseteq Sources(m) \cup {}
    BY <2>2, SourceIs
  <2> QED
    BY <1>7, <2>1, <2>3
<1>13. CASE UNCHANGED vars
  <2>1. Sources(m)' = Sources(m) /\ UNCHANGED <<sent, faults>>
    BY <1>13 DEF vars, Sources, Copies, Done
  <2> QED
    BY <1>7, <2>1
<1> QED
  BY <1>6, <1>9, <1>10, <1>11, <1>12, <1>13 DEF Next

\* Whatever ways a message goes, in memory, as a file, as a copy of a file, a
\* server gets it a second time only after a fault, a third time only after
\* two.
THEOREM OncePerFault == Spec => []NoSurplus
<1>1. Init => NoSurplus
  <2> SUFFICES ASSUME Init, NEW m \in Msg
               PROVE  sent[m] + Cardinality(Sources(m)) <= 1 + faults
    BY DEF NoSurplus
  <2>1. Sources(m) = {}
    BY DEF Init, Sources, Copies
  <2>2. sent[m] = 0 /\ faults = 0 /\ Cardinality(Sources(m)) = 0
    BY <2>1, FS_EmptySet DEF Init
  <2> QED
    BY <2>2
<1>2. Inv /\ HistInv /\ NoSurplus /\ [Next]_vars => NoSurplus'
  BY SurplusNext
<1> QED
  BY <1>1, <1>2, History, PTL DEF Spec
=============================================================================
