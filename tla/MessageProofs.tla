---------------------------- MODULE MessageProofs ----------------------------
(***************************************************************************)
(* More of what holds of CommandLine for all its constants: whom the       *)
(* message goes to and from whom, what headers it has, and the types.      *)
(***************************************************************************)
EXTENDS CommandLineProofs

-----------------------------------------------------------------------------
(* Lists of addresses that were split at their commas *)

\* A set of numbers that has 0 and every successor has all of them: what
\* stands in for induction over a formula.
LEMMA AllNumbers ==
  ASSUME NEW T, 0 \in T, \A n \in Nat : n \in T => n + 1 \in T
  PROVE  Nat \subseteq T
<1> SUFFICES ASSUME Nat \ T # {} PROVE FALSE
  OBVIOUS
<1>1. PICK x \in Nat \ T : \A y \in Nat \ T : ~(<<y, x>> \in OpToRel(<, Nat))
  BY NatLessThanWellFounded, WFMin
<1>2. x \in Nat /\ x \notin T /\ x # 0
  BY <1>1
<1>3. x - 1 \in Nat /\ (x - 1) + 1 = x
  BY <1>2
<1>4. x - 1 \in T
  <2>1. x - 1 \in Nat /\ x \in Nat /\ x - 1 < x
    BY <1>2, <1>3
  <2>2. <<x - 1, x>> \in OpToRel(<, Nat)
    BY <2>1 DEF OpToRel
  <2> QED
    BY <1>1, <1>3, <2>2
<1> QED
  BY <1>2, <1>3, <1>4

\* A list of lists has a first part, as far as one likes, joined to one list.
LEMMA Joined ==
  ASSUME NEW S, NEW seqs \in Seq(Seq(S)), seqs # <<>>
  PROVE  \E f : f = [i \in 1 .. Len(seqs) |-> IF i = 1 THEN seqs[i] ELSE f[i - 1] \o seqs[i]]
<1> DEFINE n == Len(seqs)
           Upto(g, k) == [i \in 1 .. k |-> IF i = 1 THEN seqs[i] ELSE g[i - 1] \o seqs[i]]
           T == {k \in Nat : k + 1 \in 1 .. n => \E g : g = Upto(g, k + 1)}
<1>1. n \in Nat /\ n > 0
  OBVIOUS
<1>2. 0 \in T
  <2> DEFINE g == [i \in 1 .. 1 |-> seqs[i]]
  <2>1. g = Upto(g, 1)
    BY <1>1
  <2>2. 0 + 1 = 1
    OBVIOUS
  <2> HIDE DEF g
  <2> QED
    BY <2>1, <2>2
<1>3. ASSUME NEW k \in Nat, k \in T
      PROVE  k + 1 \in T
  <2> SUFFICES ASSUME (k + 1) + 1 \in 1 .. n
               PROVE  \E g : g = Upto(g, (k + 1) + 1)
    <3>1. k + 1 \in Nat
      OBVIOUS
    <3> QED
      BY <3>1
  <2>1. k + 1 \in 1 .. n
    BY <1>1
  <2>2. PICK g : g = Upto(g, k + 1)
    BY <1>3, <2>1
  <2> DEFINE h == [i \in 1 .. (k + 1) + 1 |->
                     IF i = (k + 1) + 1 THEN g[k + 1] \o seqs[i] ELSE g[i]]
  <2>3. ASSUME NEW i \in 1 .. (k + 1) + 1
        PROVE  h[i] = IF i = 1 THEN seqs[i] ELSE h[i - 1] \o seqs[i]
    <3>1. CASE i = (k + 1) + 1
      <4>1. i # 1 /\ i - 1 = k + 1 /\ i - 1 \in 1 .. (k + 1) + 1 /\ i - 1 # (k + 1) + 1
        BY <3>1
      <4> QED
        BY <3>1, <4>1
    <3>2. CASE i # (k + 1) + 1
      <4>1. i \in 1 .. k + 1
        BY <3>2
      <4>2. g[i] = IF i = 1 THEN seqs[i] ELSE g[i - 1] \o seqs[i]
        BY <2>2, <4>1
      <4>3. i # 1 => i - 1 \in 1 .. (k + 1) + 1 /\ i - 1 # (k + 1) + 1
        BY <4>1
      <4> QED
        BY <3>2, <4>2, <4>3
    <3> QED
      BY <3>1, <3>2
  <2>4. h = Upto(h, (k + 1) + 1)
    <3> DEFINE u == Upto(h, (k + 1) + 1)
    <3>1. DOMAIN u = 1 .. (k + 1) + 1 /\ DOMAIN h = 1 .. (k + 1) + 1
      OBVIOUS
    <3>2. \A i \in 1 .. (k + 1) + 1 : u[i] = h[i]
      BY <2>3
    <3>3. /\ u = [i \in DOMAIN u |-> u[i]]
          /\ h = [i \in DOMAIN h |-> h[i]]
      OBVIOUS
    <3> HIDE DEF u, h
    <3> QED
      BY <3>1, <3>2, <3>3 DEF u
  <2> HIDE DEF h
  <2> QED
    BY <2>4
<1>4. Nat \subseteq T
  <2> HIDE DEF T
  <2> QED
    BY <1>2, <1>3, AllNumbers
<1>5. n - 1 \in T /\ (n - 1) + 1 = n /\ n \in 1 .. n
  <2>1. n - 1 \in Nat /\ (n - 1) + 1 = n /\ n \in 1 .. n
    BY <1>1
  <2> HIDE DEF T, n
  <2> QED
    BY <1>4, <2>1
<1>6. \E g : g = Upto(g, n)
  BY <1>5
<1> QED
  BY <1>6

\* FlattenSeq() keeps all elements and adds none.
LEMMA Flattened ==
  ASSUME NEW S, NEW seqs \in Seq(Seq(S))
  PROVE  /\ FlattenSeq(seqs) \in Seq(S)
         /\ Elements(FlattenSeq(seqs)) = UNION {Elements(seqs[i]) : i \in DOMAIN seqs}
<1> DEFINE n == Len(seqs)
<1>1. CASE seqs = <<>>
  <2>1. Len(seqs) = 0 /\ DOMAIN seqs = {}
    BY <1>1
  <2>2. FlattenSeq(seqs) = <<>>
    BY <1>1, <2>1 DEF FlattenSeq
  <2> QED
    BY <2>1, <2>2, ElementsOf
<1>2. CASE seqs # <<>>
  <2>1. n \in Nat /\ n > 0 /\ DOMAIN seqs = 1 .. n /\ \A i \in 1 .. n : seqs[i] \in Seq(S)
    BY <1>2
  <2> DEFINE flatten == CHOOSE f : f =
               [i \in 1 .. Len(seqs) |-> IF i = 1 THEN seqs[i] ELSE f[i - 1] \o seqs[i]]
  <2>2. flatten = [i \in 1 .. n |-> IF i = 1 THEN seqs[i] ELSE flatten[i - 1] \o seqs[i]]
    BY <1>2, Joined
  <2>3. FlattenSeq(seqs) = flatten[n]
    <3>1. ~(Len(seqs) = 0)
      BY <2>1
    <3> QED
      BY <3>1, Zenon DEF FlattenSeq
  <2> HIDE DEF flatten
  <2> DEFINE Right(i) == /\ flatten[i] \in Seq(S)
                         /\ Elements(flatten[i]) = UNION {Elements(seqs[j]) : j \in 1 .. i}
             T == {k \in Nat : k + 1 \in 1 .. n => Right(k + 1)}
  <2>4. 0 \in T
    <3>1. flatten[1] = seqs[1]
      BY <2>1, <2>2
    <3>2. 1 .. 1 = {1}
      OBVIOUS
    <3>3. Right(1)
      BY <2>1, <3>1, <3>2
    <3>4. 0 + 1 = 1
      OBVIOUS
    <3> HIDE DEF Right
    <3> QED
      BY <3>3, <3>4
  <2>5. ASSUME NEW k \in Nat, k \in T
        PROVE  k + 1 \in T
    <3> SUFFICES ASSUME (k + 1) + 1 \in 1 .. n
                 PROVE  Right((k + 1) + 1)
      BY <2>5
    <3> DEFINE i == (k + 1) + 1
    <3>1. k + 1 \in 1 .. n /\ i \in 1 .. n /\ i # 1 /\ i - 1 = k + 1
      BY <2>1
    <3>2. Right(k + 1)
      BY <2>5, <3>1
    <3>3. flatten[i] = flatten[k + 1] \o seqs[i]
      <4> HIDE DEF i
      <4>1. flatten[i] = flatten[i - 1] \o seqs[i]
        BY <2>2, <3>1
      <4> QED
        BY <3>1, <4>1
    <3>4. /\ flatten[i] \in Seq(S)
          /\ Elements(flatten[i]) = Elements(flatten[k + 1]) \cup Elements(seqs[i])
      <4>1. seqs[i] \in Seq(S) /\ flatten[k + 1] \in Seq(S)
        BY <2>1, <3>1, <3>2
      <4> QED
        BY <3>3, <4>1, ElementsOf
    <3>5. 1 .. i = (1 .. k + 1) \cup {i}
      OBVIOUS
    <3> HIDE DEF i
    <3>6. UNION {Elements(seqs[j]) : j \in 1 .. i}
            = (UNION {Elements(seqs[j]) : j \in 1 .. k + 1}) \cup Elements(seqs[i])
      BY <3>5
    <3> QED
      BY <3>2, <3>4, <3>6 DEF i
  <2>6. Nat \subseteq T
    <3> HIDE DEF T
    <3> QED
      BY <2>4, <2>5, AllNumbers
  <2>7. n - 1 \in T /\ (n - 1) + 1 = n /\ n \in 1 .. n
    <3>1. n - 1 \in Nat /\ (n - 1) + 1 = n /\ n \in 1 .. n
      BY <2>1
    <3> HIDE DEF T, n
    <3> QED
      BY <2>6, <3>1
  <2>8. Right(n)
    <3> HIDE DEF Right
    <3> QED
      BY <2>7
  <2> QED
    BY <2>1, <2>3, <2>8
<1> QED
  BY <1>1, <1>2

-----------------------------------------------------------------------------
(* Types, and what the program knows where *)

Labels == {"start", "recipients", "config", "from", "sender", "headers",
           "mailer", "smtp", "enqueue", "exited"}
Codes == {0, 1, 2, 20, 21, 25, 26, 27, 30, 81, 100}

TypesInv ==
    /\ given \in Files /\ system \in SystemFiles
    /\ failed \in BOOLEAN
    /\ config \in Configs \cup {None}
    /\ pc \in Labels
    /\ to \in Seq(Target)
    /\ from \in Target \cup {None, NullSender}
    /\ exit \in Codes \cup {None}
    /\ now \in 0 .. MaxTime /\ queuedAt \in 0 .. MaxTime
    /\ failures \in Seq(0 .. MaxTime)
    /\ lost \in BOOLEAN

\* After the configuration it has one; what an application and mq-send-test
\* are told is whom they write to; the second lookup is about the sender.
KnownInv ==
    /\ pc \in {"from", "sender", "headers", "mailer", "smtp"} => config \in Configs
    /\ call.tool \in {"test", "app"} /\ pc # "start" => to = call.recipients
    /\ pc = "sender" => /\ call.tool \in {"sendmail", "mail"}
                        /\ call.from \in Target /\ start = <<call.from>>

\* It goes on or ends, with a configuration if it has one.
LEMMA GoesOnKnowing ==
  ASSUME KnownInv, call' = call, to' = to, start' = start, config' = config,
         pc' \in {"config", "exited", "enqueue"} \/ pc' = pc
           \/ (pc \in {"from", "sender", "headers", "mailer", "smtp"} /\ pc' # "sender"),
         pc # "start" \/ call.tool \notin {"test", "app"}
  PROVE  KnownInv'
BY DEF KnownInv

\* What a call is.
LEMMA CallType ==
  ASSUME call \in Calls
  PROVE  /\ call.tool \in Tools /\ call.recipients \in Seq(Target)
         /\ call.inMessage \in SUBSET Target /\ call.read \in BOOLEAN
         /\ call.from \in Target \cup {None, NullSender}
         /\ call.from = NullSender => call.tool = "app"
         /\ call.tool = "app" => call.from # None
         /\ call.tool = "test" => call.recipients # <<>>
BY CommandLineAssumption DEF Call

\* What the lookup has found are addresses.
LEMMA ResultType ==
  ASSUME LookupInv, Finished
  PROVE  Result \in Seq(Address) /\ Result \in Seq(Target)
<1>1. stack \in Seq(Frames) /\ Len(stack) = 1
  BY DEF LookupInv, LookupType, Finished
<1>2. Top \in Frames
  BY <1>1 DEF Top
<1>3. Result \in Seq(Address)
  BY <1>2 DEF Result, Frames
<1> QED
  BY <1>3, SeqMonotonic DEF Target

\* The steps that find out whom to write to keep the types and what is known,
LEMMA RecipientsKeepTypes ==
  ASSUME TypesInv, KnownInv, LookupInv, ExitInv, call \in Calls, call' = call,
         given' = given, system' = system,
         Usage \/ NoAliasFile \/ LookupRecipients \/ TestRecipient \/ LookingUp \/ GotRecipients
  PROVE  (TypesInv /\ KnownInv)'
<1> USE DEF Labels, Codes, Goto, Exit, Traceback, LogAndExit, At, envelope, queue, server
<1>1. CASE Usage \/ NoAliasFile
  <2>1. /\ call.tool \notin {"test", "app"} /\ pc' = "exited" /\ exit' \in {1, 2}
        /\ UNCHANGED <<aliasVars, config, to, from, now, queuedAt, failures, lost>>
    BY <1>1 DEF Usage, NoAliasFile
  <2>2. failed' = failed /\ start' = start
    BY <2>1 DEF aliasVars
  <2> QED
    BY <2>1, <2>2, GoesOnKnowing DEF TypesInv
<1>2. CASE LookupRecipients
  <2>1. /\ call.tool \in {"sendmail", "mail"} /\ pc' = "recipients" /\ failed' = FALSE
        /\ UNCHANGED <<config, to, from, now, queuedAt, failures, lost, exit>>
    BY <1>2 DEF LookupRecipients, Begin
  <2> QED
    BY <2>1 DEF TypesInv, KnownInv
<1>3. CASE TestRecipient
  <2>1. /\ call.tool = "test" /\ to' = call.recipients /\ pc' = "config"
        /\ UNCHANGED <<aliasVars, config, from, now, queuedAt, failures, lost, exit>>
    BY <1>3 DEF TestRecipient
  <2>2. failed' = failed
    BY <2>1 DEF aliasVars
  <2> QED
    BY <2>1, <2>2, CallType DEF TypesInv, KnownInv
<1>4. CASE LookingUp
  <2>1. /\ pc \in {"recipients", "sender"} /\ Lookup
        /\ IF failed' THEN pc' = "exited" /\ exit' = 1 ELSE pc' = pc /\ exit' = exit
        /\ UNCHANGED <<config, to, from, now, queuedAt, failures, lost>>
    BY <1>4 DEF LookingUp
  <2>2. start' = start /\ failed' \in BOOLEAN
    BY <2>1 DEF Lookup, AddAddress, SkipName, Resolve, TooDeep, Return, TypesInv
  <2> QED
    BY <2>1, <2>2, GoesOnKnowing DEF TypesInv
<1>5. CASE GotRecipients
  <2>1. /\ pc = "recipients" /\ Finished
        /\ to' = (IF Result = <<>> /\ call.tool = "mail" THEN call.recipients ELSE Result)
        /\ \/ pc' = "exited" /\ exit' = 2
           \/ pc' = "config" /\ exit' = exit
        /\ failed' = failed
        /\ UNCHANGED <<config, from, now, queuedAt, failures, lost>>
    BY <1>5 DEF GotRecipients, End
  <2>2. call.tool \in {"sendmail", "mail"}
    BY <2>1 DEF ExitInv
  <2>3. to' \in Seq(Target)
    BY <2>1, ResultType, CallType
  <2> QED
    BY <2>1, <2>2, <2>3 DEF TypesInv, KnownInv
<1> QED
  BY <1>1, <1>2, <1>3, <1>4, <1>5

\* so do those that make the message ready,
LEMMA PreparingKeepsTypes ==
  ASSUME TypesInv, KnownInv, LookupInv, call \in Calls, call' = call,
         given' = given, system' = system,
         ReadConfig \/ LookupSender \/ GotSender \/ DefaultSender \/ TestSender
           \/ AddHeaders \/ InitMailer
  PROVE  (TypesInv /\ KnownInv)'
<1> USE DEF Labels, Codes, Goto, Exit, Traceback, LogAndExit, At, envelope, queue, server
<1>1. CASE ReadConfig
  <2>1. /\ pc = "config" /\ config' \in Configs
        /\ (pc' = "from" /\ exit' = exit) \/ (pc' = "exited" /\ exit' = ConfigError)
        /\ config'.file # "ok" => exit' = ConfigError
        /\ config'.file = "ok" => exit' = exit
        /\ UNCHANGED <<aliasVars, to, from, now, queuedAt, failures, lost>>
    BY <1>1 DEF ReadConfig
  <2>2. failed' = failed
    BY <2>1 DEF aliasVars
  <2>3. config' \in Config
    BY <2>1, CommandLineAssumption
  <2>4. config'.file # "ok" => ConfigError \in Codes
    BY <2>3 DEF Config, ConfigError
  <2> QED
    BY <2>1, <2>2, <2>4 DEF TypesInv, KnownInv
<1>2. CASE LookupSender
  <2>1. /\ pc = "from" /\ call.tool \in {"sendmail", "mail"} /\ call.from # None
        /\ start' = <<call.from>> /\ failed' = FALSE /\ pc' = "sender"
        /\ UNCHANGED <<config, to, from, now, queuedAt, failures, lost, exit>>
    BY <1>2 DEF LookupSender, Begin
  <2>2. call.from \in Target
    BY <2>1, CallType
  <2> QED
    BY <2>1, <2>2 DEF TypesInv, KnownInv
<1>3. CASE GotSender
  <2>1. /\ pc = "sender" /\ Finished
        /\ from' = (IF Result = <<>> THEN call.from ELSE Head(Result))
        /\ pc' = "headers" /\ failed' = failed /\ start' = start
        /\ UNCHANGED <<config, to, now, queuedAt, failures, lost, exit>>
    BY <1>3 DEF GotSender, End
  <2>2. from' \in Target
    BY <2>1, ResultType, ElementsOf DEF KnownInv
  <2> QED
    BY <2>1, <2>2, GoesOnKnowing DEF TypesInv
<1>4. CASE DefaultSender \/ TestSender
  <2>1. /\ pc = "from" /\ pc' \in {"headers", "exited"} /\ exit' \in {exit, 81}
        /\ from' \in {config.from, call.from, Head(to)}
        /\ from' = Head(to) => call.tool = "test" \/ from' = config.from
        /\ UNCHANGED <<aliasVars, config, to, now, queuedAt, failures, lost>>
    BY <1>4 DEF DefaultSender, TestSender
  <2>2. failed' = failed /\ start' = start
    BY <2>1 DEF aliasVars
  <2>3. config.from \in Target \cup {None}
    BY <2>1, CommandLineAssumption DEF KnownInv, Config
  <2>4. call.tool = "test" => Head(to) \in Target
    BY <2>1, CallType, ElementsOf DEF KnownInv
  <2>5. from' \in Target \cup {None, NullSender}
    BY <2>1, <2>3, <2>4, CallType
  <2> QED
    BY <2>1, <2>2, <2>5, GoesOnKnowing DEF TypesInv
<1>5. CASE AddHeaders \/ InitMailer
  <2>1. /\ pc \in {"headers", "mailer"} /\ pc' \in {"mailer", "smtp", "exited"}
        /\ exit' \in {exit, 1, 30}
        /\ UNCHANGED <<aliasVars, config, to, from, now, queuedAt, failures, lost>>
    BY <1>5 DEF AddHeaders, InitMailer
  <2>2. failed' = failed /\ start' = start
    BY <2>1 DEF aliasVars
  <2> QED
    BY <2>1, <2>2, GoesOnKnowing DEF TypesInv
<1> QED
  BY <1>1, <1>2, <1>3, <1>4, <1>5

\* and those that send the message, queue it and try again.
LEMMA SendingKeepsTypes ==
  ASSUME TypesInv, KnownInv, call \in Calls, call' = call, given' = given, system' = system,
         \/ SendAccepted \/ SendRefused \/ SendReplyLost \/ SendRaises
         \/ AppCall \/ Enqueue \/ EnqueueRaises
         \/ RunAccepted \/ RunFailed \/ Tick \/ UNCHANGED vars
  PROVE  (TypesInv /\ KnownInv)'
<1> USE DEF Labels, Codes, Goto, Exit, Traceback, LogAndExit, At, envelope, queue, server
<1>1. CASE AppCall
  <2>1. /\ call.tool = "app" /\ to' = call.recipients /\ from' = call.from
        /\ pc' = "enqueue"
        /\ UNCHANGED <<aliasVars, config, now, queuedAt, failures, lost, exit>>
    BY <1>1 DEF AppCall
  <2>2. failed' = failed
    BY <2>1 DEF aliasVars
  <2> QED
    BY <2>1, <2>2, CallType DEF TypesInv, KnownInv
<1>2. CASE SendAccepted \/ SendRefused \/ SendReplyLost \/ SendRaises \/ Enqueue \/ EnqueueRaises
  <2>1. /\ pc \in {"smtp", "enqueue"} /\ pc' \in {"enqueue", "exited"}
        /\ exit' \in {exit, 0, 1, 100} /\ lost' \in {lost, TRUE}
        /\ queuedAt' \in {queuedAt, now}
        /\ UNCHANGED <<aliasVars, config, to, from, now, failures>>
    BY <1>2 DEF SendAccepted, SendRefused, SendReplyLost, SendRaises, Enqueue,
         EnqueueRaises, NotSent
  <2>2. failed' = failed /\ start' = start
    BY <2>1 DEF aliasVars
  <2>3. lost' \in BOOLEAN
    BY <2>1, Zenon DEF TypesInv
  <2>4. KnownInv'
    BY <2>1, <2>2, GoesOnKnowing
  <2> QED
    BY <2>1, <2>2, <2>3, <2>4 DEF TypesInv
<1>3. CASE RunAccepted \/ RunFailed \/ Tick
  <2>1. /\ pc' = pc /\ pc # "start"
        /\ failures' \in {failures, Append(failures, now)}
        /\ now' \in {now, now + 1} /\ (now' = now \/ now < MaxTime)
        /\ lost' \in {lost, TRUE}
        /\ UNCHANGED <<aliasVars, config, to, from, exit, queuedAt>>
    BY <1>3 DEF RunAccepted, RunFailed, Tick, Trying
  <2>2. failed' = failed /\ start' = start
    BY <2>1 DEF aliasVars
  <2>3. now' \in 0 .. MaxTime
    BY <2>1, CommandLineAssumption DEF TypesInv
  <2>4. failures' \in Seq(0 .. MaxTime)
    <3>1. failures \in Seq(0 .. MaxTime) /\ now \in 0 .. MaxTime
      BY DEF TypesInv
    <3>2. Append(failures, now) \in Seq(0 .. MaxTime)
      BY <3>1, AppendProperties
    <3> QED
      BY <2>1, <3>1, <3>2
  <2>5. lost' \in BOOLEAN
    BY <2>1, Zenon DEF TypesInv
  <2>6. KnownInv'
    BY <2>1, <2>2, GoesOnKnowing
  <2> QED
    BY <2>1, <2>2, <2>3, <2>4, <2>5, <2>6 DEF TypesInv
<1>4. CASE UNCHANGED vars
  <2>1. UNCHANGED <<aliasVars, config, pc, to, from, exit, now, queuedAt, failures, lost>>
    BY <1>4 DEF vars
  <2>2. failed' = failed /\ start' = start
    BY <2>1 DEF aliasVars
  <2> QED
    BY <2>1, <2>2 DEF TypesInv, KnownInv
<1> QED
  BY <1>1, <1>2, <1>3, <1>4

\* All that is known of the program in every state.
Basics == TypesInv /\ KnownInv /\ LookupInv /\ ExitInv /\ call \in Calls

LEMMA BasicsInvariant == Spec => []Basics
<1>1. Init => TypesInv /\ KnownInv
  <2> SUFFICES ASSUME Init PROVE TypesInv /\ KnownInv
    OBVIOUS
  <2>1. /\ given \in Files /\ system \in SystemFiles /\ failed = FALSE
        /\ config = None /\ pc = "start" /\ to = <<>> /\ from = None /\ exit = None
        /\ now = 0 /\ queuedAt = 0 /\ failures = <<>> /\ lost = FALSE
    BY DEF Init, LookupInit
  <2>2. failed \in BOOLEAN /\ lost \in BOOLEAN
    BY <2>1
  <2>3. to \in Seq(Target) /\ failures \in Seq(0 .. MaxTime) /\ 0 \in 0 .. MaxTime
    BY <2>1, CommandLineAssumption
  <2>4. KnownInv
    BY <2>1 DEF KnownInv
  <2> QED
    BY <2>1, <2>2, <2>3, <2>4 DEF TypesInv, Labels
<1>2. TypesInv /\ KnownInv /\ LookupInv /\ ExitInv /\ call \in Calls /\ [Next]_vars
        => (TypesInv /\ KnownInv)'
  <2> SUFFICES ASSUME TypesInv, KnownInv, LookupInv, ExitInv, call \in Calls, [Next]_vars
               PROVE  (TypesInv /\ KnownInv)'
    OBVIOUS
  <2>1. call' = call /\ given' = given /\ system' = system
    BY LookupStep
  <2> QED
    BY <2>1, RecipientsKeepTypes, PreparingKeepsTypes, SendingKeepsTypes DEF Next, Step
<1>3. TypesInv /\ KnownInv /\ LookupInv /\ ExitInv /\ call \in Calls => Basics
  BY DEF Basics
<1> QED
  BY <1>1, <1>2, <1>3, LookupInvariant, ExitInvariant, PTL DEF Spec

-----------------------------------------------------------------------------
(* What goes out *)

\* One message more in the history.
LEMMA OneMore ==
  ASSUME NEW s, NEW S, s \in Seq(S), NEW e
  PROVE  /\ Len(Append(s, e)) = Len(s) + 1 /\ Len(s) \in Nat
         /\ \A i \in DOMAIN Append(s, e) :
              \/ i \in DOMAIN s /\ Append(s, e)[i] = s[i]
              \/ Append(s, e)[i] = e
<1>1. s \in Seq(S \cup {e}) /\ e \in S \cup {e}
  BY SeqMonotonic
<1>2. /\ Append(s, e) \in Seq(S \cup {e}) /\ Len(Append(s, e)) = Len(s) + 1
      /\ Len(s) \in Nat /\ DOMAIN s = 1 .. Len(s)
      /\ DOMAIN Append(s, e) = 1 .. Len(s) + 1
      /\ \A i \in 1 .. Len(s) : Append(s, e)[i] = s[i]
      /\ Append(s, e)[Len(s) + 1] = e
  BY <1>1, AppendProperties
<1>3. ASSUME NEW i \in DOMAIN Append(s, e)
      PROVE  i \in 1 .. Len(s) \/ i = Len(s) + 1
  BY <1>2
<1> QED
  BY <1>2, <1>3

\* The steps in which a server may accept the message, and what it gets then.
Sending == SendAccepted \/ SendReplyLost \/ RunAccepted \/ RunFailed
Outgoing == IF pc = "smtp" THEN Mail(from, to, FALSE) ELSE FromFile

LEMMA SendingStep ==
  ASSUME Sending
  PROVE  /\ sent' = sent \/ sent' = Append(sent, Outgoing)
         /\ pc = "smtp" \/ (pc = "exited" /\ file # <<>>)
         /\ UNCHANGED <<config, to, from, wanted, headers, queuedAt>>
<1>1. CASE SendAccepted \/ SendReplyLost
  BY <1>1 DEF SendAccepted, SendReplyLost, Outgoing, envelope, content, queue
<1>2. CASE RunAccepted
  <2>1. /\ pc = "exited" /\ file # <<>>
        /\ sent' = Append(sent, FromFile)
        /\ UNCHANGED <<config, envelope, content, queuedAt>>
    BY <1>2 DEF RunAccepted, Trying
  <2> QED
    BY <2>1 DEF Outgoing, envelope, content
<1>3. CASE RunFailed
  <2>1. /\ pc = "exited" /\ file # <<>>
        /\ sent' = sent \/ sent' = Append(sent, FromFile)
        /\ UNCHANGED <<config, envelope, content, queuedAt>>
    BY <1>3 DEF RunFailed, Trying, server
  <2> QED
    BY <2>1 DEF Outgoing, envelope, content
<1> QED
  BY <1>1, <1>2, <1>3 DEF Sending

\* In the others nothing goes out, and only AddHeaders touches the headers.
LEMMA QuietStep ==
  ASSUME [Next]_vars, ~Sending
  PROVE  sent' = sent /\ (AddHeaders \/ UNCHANGED content)
<1>1. CASE \/ Usage \/ NoAliasFile \/ LookupRecipients \/ TestRecipient
           \/ LookingUp \/ GotRecipients
           \/ ReadConfig \/ LookupSender \/ GotSender \/ DefaultSender \/ TestSender
           \/ AddHeaders \/ InitMailer
  BY <1>1 DEF Usage, NoAliasFile, LookupRecipients, TestRecipient, LookingUp,
       GotRecipients, ReadConfig, LookupSender, GotSender, DefaultSender,
       TestSender, AddHeaders, InitMailer, server
<1>2. CASE \/ SendRefused \/ SendRaises \/ AppCall \/ Enqueue \/ EnqueueRaises
           \/ Tick \/ UNCHANGED vars
  BY <1>2 DEF SendRefused, SendRaises, AppCall, Enqueue, EnqueueRaises, Tick, vars,
       server, content
<1> QED
  BY <1>1, <1>2 DEF Next, Step, Sending

-----------------------------------------------------------------------------
(* The headers *)

Complete(hs, w) ==
    \A h \in Header : /\ h \in w => hs[h] # <<>>
                      /\ "added" \in Elements(hs[h]) => h \in w
                      /\ "own" \in Elements(hs[h]) => hs[h] = <<"own">>

\* The headers that were asked for are there, the author's stand alone, and all
\* that goes out has these headers.
HeadersInv ==
    /\ wanted \subseteq Header
    /\ \A h \in Header : headers[h] \in Values \cup {<<"added">>, <<"added", "">>}
    /\ Complete(headers, wanted)
    /\ \A i \in DOMAIN sent : sent[i].headers = headers

\* Two lists of one element.
LEMMA OneAndOne ==
  ASSUME NEW x, NEW y
  PROVE  <<x>> \o <<y>> = <<x, y>>
<1> DEFINE T == {x, y}  a == <<x>>  e == <<y>>  ae == <<x, y>>
<1>1. a \in Seq(T) /\ e \in Seq(T) /\ ae \in Seq(T)
  OBVIOUS
<1>2. /\ Len(a) = 1 /\ Len(e) = 1 /\ Len(ae) = 2
      /\ a[1] = x /\ e[1] = y /\ ae[1] = x /\ ae[2] = y
  OBVIOUS
<1> HIDE DEF T, a, e, ae
<1>3. a \o e \in Seq(T) /\ Len(a \o e) = Len(a) + Len(e)
  BY <1>1, ConcatProperties
<1>4. \A i \in 1 .. Len(a) + Len(e) :
        (a \o e)[i] = IF i <= Len(a) THEN a[i] ELSE e[i - Len(a)]
  BY <1>1, ConcatProperties
<1>5. (a \o e)[1] = a[1]
  BY <1>2, <1>4
<1>6. (a \o e)[2] = e[1]
  BY <1>2, <1>4
<1>7. \A i \in 1 .. Len(a \o e) : (a \o e)[i] = ae[i]
  BY <1>2, <1>3, <1>5, <1>6
<1>8. a \o e = ae
  BY <1>1, <1>2, <1>3, <1>7, SeqEqual
<1> QED
  BY <1>8 DEF a, e, ae
\* The values a header may have.
LEMMA HeaderValues ==
  /\ DOMAIN <<>> = {} /\ DOMAIN <<"">> = {1} /\ DOMAIN <<"own">> = {1}
  /\ DOMAIN <<"added">> = {1} /\ DOMAIN <<"added", "">> = {1, 2}
  /\ <<"">>[1] = "" /\ <<"own">>[1] = "own" /\ <<"added">>[1] = "added"
  /\ <<"added", "">>[1] = "added" /\ <<"added", "">>[2] = ""
  /\ Head(<<"">>) = "" /\ Head(<<"own">>) = "own"
  /\ <<"added">> \o <<>> = <<"added">> /\ <<"added">> \o <<"">> = <<"added", "">>
  /\ <<"own">> # <<>> /\ <<"">> # <<>> /\ <<"own">> # <<"">>
  /\ <<"added">> # <<>> /\ <<"added", "">> # <<>>
  /\ Elements(<<>>) = {} /\ Elements(<<"">>) = {""} /\ Elements(<<"own">>) = {"own"}
  /\ Elements(<<"added">>) = {"added"} /\ Elements(<<"added", "">>) = {"added", ""}
<1>1. /\ DOMAIN <<>> = {} /\ DOMAIN <<"">> = {1} /\ DOMAIN <<"own">> = {1}
      /\ DOMAIN <<"added">> = {1} /\ DOMAIN <<"added", "">> = {1, 2}
  OBVIOUS
<1>2. /\ <<"">>[1] = "" /\ <<"own">>[1] = "own" /\ <<"added">>[1] = "added"
      /\ <<"added", "">>[1] = "added" /\ <<"added", "">>[2] = ""
  OBVIOUS
<1>3. Head(<<"">>) = "" /\ Head(<<"own">>) = "own"
  OBVIOUS
<1>4. <<"added">> \in Seq({"added"})
  OBVIOUS
<1>5. <<"added">> \o <<>> = <<"added">>
  BY <1>4, ConcatEmptySeq
<1>6. <<"added">> \o <<"">> = <<"added", "">>
  BY OneAndOne
<1>7. <<"own">> # <<>> /\ <<"">> # <<>> /\ <<"own">> # <<"">>
  BY <1>1, <1>2
<1>8. <<"added">> # <<>> /\ <<"added", "">> # <<>>
  BY <1>1
<1>9. /\ Elements(<<>>) = {} /\ Elements(<<"">>) = {""} /\ Elements(<<"own">>) = {"own"}
      /\ Elements(<<"added">>) = {"added"} /\ Elements(<<"added", "">>) = {"added", ""}
  BY <1>1, <1>2 DEF Elements
<1> QED
  BY <1>1, <1>2, <1>3, <1>5, <1>6, <1>7, <1>8, <1>9

\* What autogenerate_headers() makes of the headers.
LEMMA ExtraHeaders ==
  ASSUME NEW hs \in [Header -> Values], NEW w \in SUBSET Header
  PROVE  /\ \A h \in Header : WithExtra(hs, w)[h] \in Values \cup {<<"added">>, <<"added", "">>}
         /\ Complete(WithExtra(hs, w), w)
<1> DEFINE new == WithExtra(hs, w)
<1>1. ASSUME NEW h \in Header
      PROVE  /\ new[h] \in Values \cup {<<"added">>, <<"added", "">>}
             /\ h \in w => new[h] # <<>>
             /\ "added" \in Elements(new[h]) => h \in w
             /\ "own" \in Elements(new[h]) => new[h] = <<"own">>
  <2>1. hs[h] \in Values
    OBVIOUS
  <2>2. new[h] = IF h \in w /\ Lacks(hs, h) THEN <<"added">> \o hs[h] ELSE hs[h]
    BY DEF WithExtra
  <2> HIDE DEF new
  <2>3. CASE h \in w /\ hs[h] = <<>>
    <3>1. new[h] = <<"added">>
      BY <2>2, <2>3, HeaderValues DEF Lacks
    <3> QED
      BY <2>3, <3>1, HeaderValues
  <2>4. CASE h \in w /\ hs[h] = <<"">>
    <3>1. new[h] = <<"added", "">>
      BY <2>2, <2>4, HeaderValues DEF Lacks
    <3> QED
      BY <2>4, <3>1, HeaderValues
  <2>5. CASE hs[h] = <<"own">>
    <3>1. new[h] = <<"own">>
      BY <2>2, <2>5, HeaderValues DEF Lacks
    <3> QED
      BY <3>1, HeaderValues DEF Values
  <2>6. CASE h \notin w
    <3>1. new[h] = hs[h]
      BY <2>2, <2>6
    <3> QED
      BY <2>1, <2>6, <3>1, HeaderValues DEF Values
  <2> QED
    BY <2>1, <2>3, <2>4, <2>5, <2>6 DEF Values
<1> QED
  BY <1>1 DEF Complete

LEMMA HeadersKeep ==
  ASSUME HeadersInv, ExitInv, [Next]_vars
  PROVE  HeadersInv'
<1>1. CASE Sending
  <2>1. wanted' = wanted /\ headers' = headers
    BY <1>1, SendingStep
  <2>2. Outgoing.headers = headers
    BY DEF Outgoing, FromFile, Mail
  <2>3. PICK S : sent \in Seq(S)
    BY DEF ExitInv
  <2>4. \A i \in DOMAIN sent' : sent'[i].headers = headers
    <3>1. CASE sent' = sent
      BY <3>1 DEF HeadersInv
    <3>2. CASE sent' = Append(sent, Outgoing)
      BY <2>2, <2>3, <3>2, OneMore DEF HeadersInv
    <3> QED
      BY <1>1, <3>1, <3>2, SendingStep
  <2> QED
    BY <2>1, <2>4 DEF HeadersInv
<1>2. CASE AddHeaders
  <2>1. /\ pc = "headers" /\ sent' = sent
        /\ \E c \in HeaderCases :
             wanted' = c.wanted /\ headers' = WithExtra(c.headers, c.wanted)
    BY <1>2 DEF AddHeaders, server
  <2>2. PICK c \in HeaderCases :
          wanted' = c.wanted /\ headers' = WithExtra(c.headers, c.wanted)
    BY <2>1
  <2>3. c.headers \in [Header -> Values] /\ c.wanted \in SUBSET Header
    BY CommandLineAssumption DEF HeaderCase
  <2>4. sent' = <<>>
    BY <2>1 DEF ExitInv
  <2>5. Complete(headers', wanted') /\ wanted' \subseteq Header
    BY <2>2, <2>3, ExtraHeaders
  <2>6. \A h \in Header : headers'[h] \in Values \cup {<<"added">>, <<"added", "">>}
    BY <2>2, <2>3, ExtraHeaders
  <2>7. \A i \in DOMAIN sent' : sent'[i].headers = headers'
    BY <2>4
  <2> QED
    BY <2>5, <2>6, <2>7 DEF HeadersInv
<1>3. CASE ~Sending /\ ~AddHeaders
  <2>1. sent' = sent /\ wanted' = wanted /\ headers' = headers
    BY <1>3, QuietStep DEF content
  <2> QED
    BY <2>1 DEF HeadersInv
<1> QED
  BY <1>1, <1>2, <1>3

LEMMA HeadersInvariant == Spec => []HeadersInv
<1>1. Init => HeadersInv
  <2> SUFFICES ASSUME Init PROVE HeadersInv
    OBVIOUS
  <2>1. wanted = {} /\ sent = <<>> /\ \A h \in Header : headers[h] = <<>>
    BY DEF Init
  <2>2. Complete(headers, wanted)
    BY <2>1, HeaderValues DEF Complete
  <2>3. \A h \in Header : headers[h] \in Values \cup {<<"added">>, <<"added", "">>}
    BY <2>1 DEF Values
  <2>4. \A i \in DOMAIN sent : sent[i].headers = headers
    BY <2>1
  <2> QED
    BY <2>1, <2>2, <2>3, <2>4 DEF HeadersInv
<1>2. HeadersInv /\ ExitInv /\ [Next]_vars => HeadersInv'
  BY HeadersKeep
<1> QED
  BY <1>1, <1>2, ExitInvariant, PTL DEF Spec

\* Whatever headers a message has and whichever ones are to be added, what is
\* sent, at once or from the queue, has those, no other ones that its author
\* did not write, and his stand alone (message_utils.py, autogenerate_headers()).
THEOREM HeadersTheorem == Spec => []HeadersComplete
<1>1. HeadersInv => HeadersComplete
  <2> SUFFICES ASSUME HeadersInv, NEW i \in DOMAIN sent, NEW h \in Header
               PROVE  LET lines == sent[i].headers[h]
                      IN /\ h \in wanted => lines # <<>>
                         /\ "added" \in Elements(lines) => h \in wanted
                         /\ "own" \in Elements(lines) => lines = <<"own">>
    BY DEF HeadersComplete
  <2>1. sent[i].headers = headers
    BY DEF HeadersInv
  <2> QED
    BY <2>1 DEF HeadersInv, Complete
<1> QED
  BY <1>1, HeadersInvariant, PTL

-----------------------------------------------------------------------------
(* Whom it goes to, and from whom *)

\* What is left between the commas has none.
LEMMA PartsOfParts ==
  ASSUME NEW X \in SUBSET Target
  PROVE  AllParts(X) \in SUBSET Target /\ AllParts(AllParts(X)) = AllParts(X)
<1>1. /\ Parts \in [Target -> Seq(Target)]
      /\ \A t \in Target : \A p \in Elements(Parts[t]) : Parts[p] = <<p>>
  BY CommandLineAssumption
<1>2. \A t \in X : Elements(Parts[t]) \subseteq Target
  BY <1>1, ElementsOf
<1>3. AllParts(X) \in SUBSET Target
  BY <1>2 DEF AllParts
<1>4. \A p \in AllParts(X) : Elements(Parts[p]) = {p}
  <2>1. ASSUME NEW p \in AllParts(X)
        PROVE  Elements(Parts[p]) = {p}
    <3>1. \E t \in X : p \in Elements(Parts[t])
      BY DEF AllParts
    <3>2. Parts[p] = <<p>>
      BY <1>1, <3>1
    <3>3. DOMAIN <<p>> = {1} /\ <<p>>[1] = p
      OBVIOUS
    <3> QED
      BY <3>2, <3>3 DEF Elements
  <2> QED
    BY <2>1
<1>5. \A Y : (\A p \in Y : Elements(Parts[p]) = {p}) => AllParts(Y) = Y
  BY DEF AllParts
<1> QED
  BY <1>3, <1>4, <1>5

\* What parse_envelope_addrs() makes of recipients that were joined by commas.
LEMMA ParsedAddrs ==
  ASSUME NEW recipients \in Seq(Target)
  PROVE  /\ ParseAddrs(recipients) \in Seq(Target)
         /\ Elements(ParseAddrs(recipients)) = AllParts(Elements(recipients))
<1> DEFINE seqs == [i \in DOMAIN recipients |-> Parts[recipients[i]]]
<1>1. Parts \in [Target -> Seq(Target)]
  BY CommandLineAssumption
<1>2. /\ DOMAIN recipients = 1 .. Len(recipients) /\ Len(recipients) \in Nat
      /\ \A i \in DOMAIN recipients : recipients[i] \in Target
  OBVIOUS
<1>3. \A i \in 1 .. Len(recipients) : seqs[i] \in Seq(Target)
  BY <1>1, <1>2
<1>4. seqs \in [1 .. Len(recipients) -> Seq(Target)]
  BY <1>2, <1>3
<1>5. seqs \in Seq(Seq(Target))
  <2> HIDE DEF seqs
  <2> QED
    BY <1>2, <1>4, SeqDef
<1>6. /\ FlattenSeq(seqs) \in Seq(Target)
      /\ Elements(FlattenSeq(seqs)) = UNION {Elements(seqs[i]) : i \in DOMAIN seqs}
  <2> HIDE DEF seqs
  <2> QED
    BY <1>5, Flattened
<1>7. UNION {Elements(seqs[i]) : i \in DOMAIN seqs} = AllParts(Elements(recipients))
  <2>1. ASSUME NEW p
        PROVE  (\E i \in DOMAIN seqs : p \in Elements(seqs[i]))
                 <=> \E t \in Elements(recipients) : p \in Elements(Parts[t])
    <3>1. DOMAIN seqs = DOMAIN recipients
          /\ \A i \in DOMAIN recipients : seqs[i] = Parts[recipients[i]]
      OBVIOUS
    <3> HIDE DEF seqs
    <3>2. (\E i \in DOMAIN recipients : p \in Elements(Parts[recipients[i]]))
            <=> \E t \in {recipients[i] : i \in DOMAIN recipients} : p \in Elements(Parts[t])
      OBVIOUS
    <3> QED
      BY <3>1, <3>2 DEF Elements
  <2> HIDE DEF seqs
  <2> QED
    BY <2>1 DEF AllParts
<1> QED
  BY <1>6, <1>7 DEF ParseAddrs

\* The envelope that comes back from the file.
LEMMA ReadBack ==
  ASSUME NEW sender, NEW recipients \in Seq(Target), NEW date, NEW last, NEW retries
  PROVE  LET msg == Parse(Serialize(sender, recipients, date, last, retries))
         IN /\ msg.from = StripBrackets(sender)
            /\ msg.to \in Seq(Target)
            /\ Elements(msg.to) = AllParts(Elements(recipients))
<1> DEFINE meta == Serialize(sender, recipients, date, last, retries)
<1>1. meta["Return-path"] = sender /\ meta["Envelope-to"] = recipients
  BY DEF Serialize
<1> HIDE DEF meta
<1>2. Parse(meta).from = StripBrackets(sender) /\ Parse(meta).to = ParseAddrs(recipients)
  BY <1>1 DEF Parse
<1> QED
  BY <1>2, ParsedAddrs DEF meta

\* Who is meant are targets.
LEMMA MeantType ==
  ASSUME call \in Calls
  PROVE  Meant \in SUBSET Target
<1>1. Elements(call.recipients) \subseteq Target
  BY CallType, ElementsOf
<1>2. \A X : Reachable(X) \subseteq Target
  BY DEF Reachable
<1> QED
  BY <1>1, <1>2 DEF Meant

\* Who is meant as the sender depends on the configuration, too.
LEMMA MeantSenderSame ==
  ASSUME call' = call, given' = given, system' = system, config' = config
  PROVE  MeantSender' = MeantSender
<1>1. Table' = Table
  BY SameTable
<1>2. \A T : Reachable(T)' = Reachable(T)
  BY <1>1 DEF Reachable
<1> QED
  BY <1>2 DEF MeantSender

\* What a file says, if it was queued for these people.
Reread(m, meant, senders) ==
    /\ m.to \in Seq(Target) /\ Elements(m.to) = AllParts(meant)
    /\ m.from \in {StripBrackets(s) : s \in senders}

Right(m, meant, senders) ==
    /\ m.to \in Seq(Target)
    /\ m.queued => Reread(m, meant, senders)
    /\ ~m.queued => Elements(m.to) = meant /\ m.from \in senders

\* The envelope is right as soon as it is complete, the file has the same one,
\* and what was sent had it.
EnvelopeInv ==
    /\ pc \in {"config", "from", "sender", "headers", "mailer", "smtp", "enqueue"} =>
         Elements(to) = Meant
    /\ pc \in {"headers", "mailer", "smtp", "enqueue"} => from \in MeantSender
AddressInv ==
    /\ EnvelopeInv
    /\ file # <<>> => Reread(Parse(file), Meant, MeantSender)
    /\ \A i \in DOMAIN sent : Right(sent[i], Meant, MeantSender)

\* Until something is sent or queued there is only the envelope.
LEMMA BeforeSending ==
  ASSUME ExitInv, pc \notin {"enqueue", "exited"}, sent' = sent, file' = file,
         EnvelopeInv'
  PROVE  AddressInv'
<1>1. sent' = <<>> /\ file' = <<>>
  BY DEF ExitInv
<1> QED
  BY <1>1 DEF AddressInv

\* Whom the message is for is what the lookup has found, or was told.
LEMMA RecipientsKeepAddress ==
  ASSUME AddressInv, Basics, call' = call, given' = given, system' = system,
         Usage \/ NoAliasFile \/ LookupRecipients \/ TestRecipient \/ LookingUp \/ GotRecipients
  PROVE  AddressInv'
<1> USE DEF Goto, Exit, Traceback, LogAndExit, At, envelope, queue, server
<1>1. Meant' = Meant
  BY MeantSame
<1>2. CASE Usage \/ NoAliasFile \/ LookupRecipients
  <2>1. /\ pc = "start" /\ pc' \in {"exited", "recipients"} /\ sent' = sent /\ file' = file
    BY <1>2 DEF Usage, NoAliasFile, LookupRecipients
  <2> QED
    BY <2>1, BeforeSending DEF Basics, EnvelopeInv
<1>3. CASE TestRecipient
  <2>1. /\ call.tool = "test" /\ to' = call.recipients /\ pc' = "config" /\ pc = "start"
        /\ sent' = sent /\ file' = file
    BY <1>3 DEF TestRecipient
  <2>2. Elements(to') = Meant
    BY <2>1 DEF Meant
  <2> QED
    BY <1>1, <2>1, <2>2, BeforeSending DEF Basics, EnvelopeInv
<1>4. CASE LookingUp
  <2>1. /\ pc \in {"recipients", "sender"} /\ pc' \in {pc, "exited"} /\ to' = to
        /\ sent' = sent /\ file' = file
    BY <1>4 DEF LookingUp
  <2> QED
    BY <1>1, <2>1, BeforeSending DEF Basics, AddressInv, EnvelopeInv
<1>5. CASE GotRecipients
  <2>1. /\ pc = "recipients" /\ Finished /\ pc' \in {"exited", "config"}
        /\ to' = (IF Result = <<>> /\ call.tool = "mail" THEN call.recipients ELSE Result)
        /\ sent' = sent /\ file' = file
    BY <1>5 DEF GotRecipients, End
  <2>2. /\ call.tool \in {"sendmail", "mail"}
        /\ Elements(start) = Elements(call.recipients) \cup InMessage
    BY <2>1 DEF ExitInv, Basics
  <2>3. Elements(Result) = Reachable(Elements(call.recipients) \cup InMessage) \cap Address
    BY <2>1, <2>2, LookupInvImplies DEF LookupComplete, Basics
  <2>4. Result = <<>> <=> Elements(Result) = {}
    BY <2>1, ResultType, ElementsOf DEF Basics
  <2>5. Elements(to') = Meant
    BY <2>1, <2>2, <2>3, <2>4 DEF Meant
  <2> QED
    BY <1>1, <2>1, <2>5, BeforeSending DEF Basics, EnvelopeInv
<1> QED
  BY <1>2, <1>3, <1>4, <1>5

\* The sender is what the second lookup has found, was told, or is set.
LEMMA PreparingKeepsAddress ==
  ASSUME AddressInv, Basics, call' = call, given' = given, system' = system,
         ReadConfig \/ LookupSender \/ GotSender \/ DefaultSender \/ TestSender
           \/ AddHeaders \/ InitMailer
  PROVE  AddressInv'
<1> USE DEF Goto, Exit, Traceback, LogAndExit, At, envelope, queue, server
<1>1. Meant' = Meant
  BY MeantSame
<1>2. CASE ReadConfig
  <2>1. pc = "config" /\ pc' \in {"from", "exited"} /\ to' = to /\ sent' = sent /\ file' = file
    BY <1>2 DEF ReadConfig
  <2> QED
    BY <1>1, <2>1, BeforeSending DEF Basics, AddressInv, EnvelopeInv
<1>3. CASE LookupSender
  <2>1. pc = "from" /\ pc' = "sender" /\ to' = to /\ sent' = sent /\ file' = file
    BY <1>3 DEF LookupSender
  <2> QED
    BY <1>1, <2>1, BeforeSending DEF Basics, AddressInv, EnvelopeInv
<1>4. CASE GotSender
  <2>1. /\ pc = "sender" /\ Finished /\ pc' = "headers" /\ to' = to /\ config' = config
        /\ from' = (IF Result = <<>> THEN call.from ELSE Head(Result))
        /\ sent' = sent /\ file' = file
    BY <1>4 DEF GotSender, End
  <2>2. /\ call.tool \in {"sendmail", "mail"} /\ call.from \in Target /\ call.from # None
        /\ start = <<call.from>>
    BY <2>1, CommandLineAssumption DEF Basics, KnownInv
  <2>3. Elements(<<call.from>>) = {call.from}
    BY ElementsOf DEF Elements
  <2>4. Elements(Result) = Reachable({call.from}) \cap Address
    BY <2>1, <2>2, <2>3, LookupInvImplies DEF LookupComplete, Basics
  <2>5. /\ Result = <<>> => Elements(Result) = {}
        /\ Result # <<>> => Head(Result) \in Elements(Result)
    BY <2>1, ResultType, ElementsOf DEF Basics
  <2>6. from' \in MeantSender
    BY <2>1, <2>2, <2>4, <2>5 DEF MeantSender
  <2> QED
    BY <1>1, <2>1, <2>6, MeantSenderSame, BeforeSending DEF Basics, AddressInv, EnvelopeInv
<1>5. CASE DefaultSender
  <2>1. /\ pc = "from" /\ pc' \in {"headers", "exited"} /\ to' = to /\ config' = config
        /\ call.from = None /\ from' = config.from
        /\ pc' = "headers" => from' # None
        /\ sent' = sent /\ file' = file
    BY <1>5 DEF DefaultSender
  <2>2. config # None
    BY <2>1, CommandLineAssumption DEF Basics, KnownInv
  <2>3. pc' = "headers" => from' \in MeantSender
    BY <2>1, <2>2 DEF MeantSender
  <2> QED
    BY <1>1, <2>1, <2>3, MeantSenderSame, BeforeSending DEF Basics, AddressInv, EnvelopeInv
<1>6. CASE TestSender
  <2>1. /\ pc = "from" /\ call.tool = "test" /\ pc' = "headers" /\ to' = to /\ config' = config
        /\ from' = IF call.from # None THEN call.from
                   ELSE IF config.from # None THEN config.from ELSE Head(to)
        /\ sent' = sent /\ file' = file
    BY <1>6 DEF TestSender
  <2>2. config # None /\ to = call.recipients
    BY <2>1, CommandLineAssumption DEF Basics, KnownInv
  <2>3. Head(to) \in Elements(call.recipients)
    BY <2>1, <2>2, CallType, ElementsOf DEF Basics
  <2>4. from' \in MeantSender => AddressInv'
    BY <1>1, <2>1, MeantSenderSame, BeforeSending DEF Basics, AddressInv, EnvelopeInv
  <2>5. from' \in MeantSender
    <3>1. CASE call.from # None
      <4>1. from' = call.from /\ MeantSender = {call.from}
        BY <2>1, <3>1 DEF MeantSender
      <4> QED
        BY <4>1
    <3>2. CASE call.from = None /\ config.from # None
      <4>1. from' = config.from /\ MeantSender = {config.from}
        BY <2>1, <2>2, <3>2 DEF MeantSender
      <4> QED
        BY <4>1
    <3>3. CASE call.from = None /\ config.from = None
      <4>1. from' = Head(to) /\ MeantSender = Elements(call.recipients)
        BY <2>1, <2>2, <3>3 DEF MeantSender
      <4> QED
        BY <2>3, <4>1
    <3> QED
      BY <3>1, <3>2, <3>3
  <2> QED
    BY <2>4, <2>5
<1>7. CASE AddHeaders \/ InitMailer
  <2>1. /\ pc \in {"headers", "mailer"} /\ pc' \in {"mailer", "smtp", "exited"}
        /\ to' = to /\ from' = from /\ config' = config /\ sent' = sent /\ file' = file
    BY <1>7 DEF AddHeaders, InitMailer
  <2> QED
    BY <1>1, <2>1, MeantSenderSame, BeforeSending DEF Basics, AddressInv, EnvelopeInv
<1> QED
  BY <1>2, <1>3, <1>4, <1>5, <1>6, <1>7

\* A file that is written with a right envelope says so when it is read.
LEMMA WrittenRight ==
  ASSUME NEW sender, NEW recipients \in Seq(Target), NEW date, NEW last, NEW retries,
         NEW meant \in SUBSET Target, NEW senders,
         AllParts(Elements(recipients)) = AllParts(meant),
         StripBrackets(sender) \in {StripBrackets(s) : s \in senders}
  PROVE  Reread(Parse(Serialize(sender, recipients, date, last, retries)), meant, senders)
<1> DEFINE msg == Parse(Serialize(sender, recipients, date, last, retries))
<1>1. /\ msg.from = StripBrackets(sender) /\ msg.to \in Seq(Target)
      /\ Elements(msg.to) = AllParts(Elements(recipients))
  BY ReadBack
<1> HIDE DEF msg
<1>2. Reread(msg, meant, senders)
  BY <1>1 DEF Reread
<1> QED
  BY <1>2 DEF msg

\* What goes out is the envelope, or what the file says.
LEMMA OutgoingRight ==
  ASSUME AddressInv, Basics, pc = "smtp" \/ (pc = "exited" /\ file # <<>>)
  PROVE  Right(Outgoing, Meant, MeantSender)
<1>1. CASE pc = "smtp"
  <2>1. Outgoing.from = from /\ Outgoing.to = to /\ ~Outgoing.queued
    BY <1>1 DEF Outgoing, Mail
  <2> QED
    BY <1>1, <2>1 DEF AddressInv, EnvelopeInv, Right, Basics, TypesInv
<1>2. CASE pc # "smtp"
  <2>1. Outgoing.from = Parse(file).from /\ Outgoing.to = Parse(file).to /\ Outgoing.queued
    BY <1>2 DEF Outgoing, FromFile, Mail
  <2> QED
    BY <1>2, <2>1 DEF AddressInv, Right, Reread
<1> QED
  BY <1>1, <1>2

\* Everybody who sends it keeps to that.
LEMMA SendingKeepsAddress ==
  ASSUME AddressInv, Basics, call' = call, given' = given, system' = system, Sending
  PROVE  AddressInv'
<1>1. /\ sent' = sent \/ sent' = Append(sent, Outgoing)
      /\ pc = "smtp" \/ (pc = "exited" /\ file # <<>>)
      /\ config' = config /\ to' = to /\ from' = from
  BY SendingStep
<1>2. Meant' = Meant /\ MeantSender' = MeantSender
  BY <1>1, MeantSame, MeantSenderSame
<1>3. \A i \in DOMAIN sent' : Right(sent'[i], Meant, MeantSender)
  <2>1. Right(Outgoing, Meant, MeantSender)
    BY <1>1, OutgoingRight
  <2>2. PICK S : sent \in Seq(S)
    BY DEF Basics, ExitInv
  <2>3. CASE sent' = sent
    BY <2>3 DEF AddressInv
  <2>4. CASE sent' = Append(sent, Outgoing)
    BY <2>1, <2>2, <2>4, OneMore DEF AddressInv
  <2> QED
    BY <1>1, <2>3, <2>4
<1>4. EnvelopeInv'
  <2>1. pc' \in {"enqueue", "exited"} /\ (pc' = "enqueue" => pc = "smtp")
    BY DEF Sending, SendAccepted, SendReplyLost, RunAccepted, RunFailed, NotSent,
         LogAndExit, Traceback, Goto, Exit, Trying
  <2> QED
    BY <1>1, <1>2, <2>1 DEF EnvelopeInv, AddressInv
<1>5. file' # <<>> => Reread(Parse(file'), Meant, MeantSender)
  <2>1. CASE SendAccepted \/ SendReplyLost
    <3>1. file' = file
      BY <2>1 DEF SendAccepted, SendReplyLost, queue
    <3> QED
      BY <3>1 DEF AddressInv
  <2>2. CASE RunAccepted
    BY <2>2 DEF RunAccepted
  <2>3. CASE RunFailed
    <3> DEFINE msg == Parse(file)
    <3>1. /\ file # <<>>
          /\ file' = Serialize(msg.from, msg.to, msg.date, now, msg.retries + 1)
      BY <2>3 DEF RunFailed, Trying
    <3>2. Reread(msg, Meant, MeantSender)
      BY <3>1 DEF AddressInv
    <3>3. Meant \in SUBSET Target
      BY MeantType DEF Basics
    <3> HIDE DEF msg
    <3>4. /\ msg.to \in Seq(Target) /\ AllParts(Elements(msg.to)) = AllParts(Meant)
          /\ StripBrackets(msg.from) \in {StripBrackets(s) : s \in MeantSender}
      BY <3>2, <3>3, PartsOfParts DEF Reread, StripBrackets
    <3>5. \A n : Reread(Parse(Serialize(msg.from, msg.to, msg.date, now, n)), Meant, MeantSender)
      BY <3>3, <3>4, WrittenRight
    <3> QED
      BY <3>1, <3>5
  <2> QED
    BY <2>1, <2>2, <2>3 DEF Sending
<1> QED
  BY <1>2, <1>3, <1>4, <1>5 DEF AddressInv

\* So does what happens to a message that is not sent now.
LEMMA WaitingKeepsAddress ==
  ASSUME AddressInv, Basics, call' = call, given' = given, system' = system,
         \/ SendRefused \/ SendRaises \/ AppCall \/ Enqueue \/ EnqueueRaises
         \/ Tick \/ UNCHANGED vars
  PROVE  AddressInv'
<1> USE DEF Goto, Exit, Traceback, LogAndExit, At, envelope, queue, server
<1>1. CASE SendRefused \/ SendRaises \/ EnqueueRaises \/ Tick \/ UNCHANGED vars
  <2>1. /\ pc' \in {pc, "exited"} \/ (pc = "smtp" /\ pc' = "enqueue")
        /\ to' = to /\ from' = from /\ config' = config /\ sent' = sent /\ file' = file
    BY <1>1 DEF SendRefused, SendRaises, EnqueueRaises, Tick, vars, NotSent
  <2>2. Meant' = Meant /\ MeantSender' = MeantSender
    BY <2>1, MeantSame, MeantSenderSame
  <2> QED
    BY <2>1, <2>2 DEF AddressInv, EnvelopeInv
<1>2. CASE AppCall
  <2>1. /\ pc = "start" /\ call.tool = "app" /\ pc' = "enqueue"
        /\ to' = call.recipients /\ from' = call.from
        /\ config' = config /\ sent' = sent /\ file' = file
    BY <1>2 DEF AppCall
  <2>2. Elements(to') = Meant
    BY <2>1 DEF Meant
  <2>3. call.from # None
    BY <2>1, CallType DEF Basics
  <2>4. MeantSender = {call.from}
    BY <2>1, <2>3 DEF MeantSender
  <2> QED
    BY <2>1, <2>2, <2>4, MeantSame, MeantSenderSame, BeforeSending DEF Basics, EnvelopeInv
<1>3. CASE Enqueue
  <2>1. /\ pc = "enqueue" /\ pc' = "exited" /\ file' = Serialize(from, to, now, None, 0)
        /\ config' = config /\ sent' = sent
    BY <1>3 DEF Enqueue
  <2>2. /\ Elements(to) = Meant /\ from \in MeantSender /\ to \in Seq(Target)
        /\ Meant \in SUBSET Target
    BY <2>1, MeantType DEF AddressInv, EnvelopeInv, Basics, TypesInv
  <2>3. Reread(Parse(file'), Meant, MeantSender)
    BY <2>1, <2>2, WrittenRight
  <2>4. Meant' = Meant /\ MeantSender' = MeantSender
    BY <2>1, MeantSame, MeantSenderSame
  <2> QED
    BY <2>1, <2>3, <2>4 DEF AddressInv, EnvelopeInv
<1> QED
  BY <1>1, <1>2, <1>3

LEMMA AddressInvariant == Spec => []AddressInv
<1>1. Init => AddressInv
  BY DEF Init, AddressInv, EnvelopeInv
<1>2. AddressInv /\ Basics /\ [Next]_vars => AddressInv'
  <2> SUFFICES ASSUME AddressInv, Basics, [Next]_vars
               PROVE  AddressInv'
    OBVIOUS
  <2>1. call' = call /\ given' = given /\ system' = system
    BY LookupStep DEF Basics
  <2> QED
    BY <2>1, RecipientsKeepAddress, PreparingKeepsAddress, SendingKeepsAddress,
       WaitingKeepsAddress DEF Next, Step, Sending
<1> QED
  BY <1>1, <1>2, BasicsInvariant, PTL DEF Spec

\* Whatever names are given, whatever the aliases and settings are, and however
\* often mq-run reads and rewrites the file, every server that takes the
\* message from a tool takes it for those who are meant, and no others, from
\* the sender who is meant; one that takes it from the queue does so, but for
\* addresses with commas and the null sender
\* (cli/, aliases_parser.py, message_utils.py).
THEOREM AddressTheorem == Spec => []Addressed
<1>1. AddressInv => Addressed
  BY DEF AddressInv, Addressed, Right, Reread
<1> QED
  BY <1>1, AddressInvariant, PTL

-----------------------------------------------------------------------------
(* How often it goes out *)

\* The tool may send the message once, each failure of mq-run once more, and
\* mq-run a last time, which takes the file away.
CountInv ==
    /\ pc = "enqueue" => Len(sent) <= 1
    /\ pc = "exited" => Len(sent) <= Len(failures) + (IF file # <<>> THEN 1 ELSE 2)
    /\ Len(failures) <= MaxAttempts

LEMMA CountKeeps ==
  ASSUME CountInv, ExitInv, MetaInv, [Next]_vars
  PROVE  CountInv'
<1> USE DEF Goto, Exit, Traceback, LogAndExit, At, queue, server
<1>1. PICK S : sent \in Seq(S)
  BY DEF ExitInv
<1>2. Len(sent) \in Nat /\ \A e : Len(Append(sent, e)) = Len(sent) + 1
  BY <1>1, OneMore
<1>3. /\ pc \notin {"enqueue", "exited"} => Len(sent) = 0
      /\ pc # "exited" => Len(failures) = 0 /\ file = <<>>
      /\ failures \in Seq(Nat) /\ Len(failures) \in Nat
  BY DEF ExitInv, MetaInv
<1>4. CASE \/ Usage \/ NoAliasFile \/ LookupRecipients \/ TestRecipient
           \/ LookingUp \/ GotRecipients
           \/ ReadConfig \/ LookupSender \/ GotSender \/ DefaultSender \/ TestSender
           \/ AddHeaders \/ InitMailer \/ AppCall \/ SendRefused \/ SendRaises
  <2>1. pc \notin {"enqueue", "exited"} /\ sent' = sent /\ failures' = failures
    BY <1>4 DEF Usage, NoAliasFile, LookupRecipients, TestRecipient, LookingUp,
         GotRecipients, ReadConfig, LookupSender, GotSender, DefaultSender,
         TestSender, AddHeaders, InitMailer, AppCall, SendRefused, SendRaises
  <2>2. Len(sent') = 0 /\ Len(failures') = 0
    BY <1>3, <2>1
  <2> QED
    BY <2>2, CommandLineAssumption DEF CountInv
<1>5. CASE SendAccepted \/ SendReplyLost
  <2>1. /\ pc = "smtp" /\ pc' \in {"enqueue", "exited"}
        /\ failures' = failures /\ file' = file /\ \E e : sent' = Append(sent, e)
    BY <1>5 DEF SendAccepted, SendReplyLost, NotSent
  <2>2. Len(sent') = 1 /\ Len(failures') = 0 /\ file' = <<>>
    BY <1>2, <1>3, <2>1
  <2> QED
    BY <2>2, CommandLineAssumption DEF CountInv
<1>6. CASE Enqueue \/ EnqueueRaises
  <2>1. /\ pc = "enqueue" /\ pc' = "exited" /\ failures' = failures /\ sent' = sent
    BY <1>6 DEF Enqueue, EnqueueRaises
  <2>2. Len(sent') <= 1 /\ Len(failures') = 0
    BY <1>3, <2>1 DEF CountInv
  <2> QED
    BY <1>2, <2>1, <2>2, CommandLineAssumption DEF CountInv
<1>7. CASE RunAccepted
  <2>1. /\ pc = "exited" /\ pc' = "exited" /\ file # <<>> /\ file' = <<>>
        /\ failures' = failures /\ \E e : sent' = Append(sent, e)
    BY <1>7 DEF RunAccepted, Trying
  <2>2. Len(sent') = Len(sent) + 1 /\ Len(sent) <= Len(failures) + 1
    BY <1>2, <2>1 DEF CountInv
  <2>3. Len(sent') <= Len(failures') + 2
    BY <1>2, <1>3, <2>1, <2>2
  <2> QED
    BY <2>1, <2>3 DEF CountInv
<1>8. CASE RunFailed
  <2>1. /\ pc = "exited" /\ pc' = "exited" /\ file # <<>>
        /\ Len(failures) < MaxAttempts /\ failures' = Append(failures, now)
        /\ sent' = sent \/ \E e : sent' = Append(sent, e)
    BY <1>8 DEF RunFailed, Trying
  <2>2. Len(failures') = Len(failures) + 1
    BY <1>3, <2>1, OneMore
  <2>3. Len(sent') <= Len(sent) + 1 /\ Len(sent') \in Nat
    BY <1>2, <2>1
  <2>4. Len(sent) <= Len(failures) + 1
    BY <2>1 DEF CountInv
  <2>5. Len(sent') <= Len(failures') + 1 /\ Len(failures') <= MaxAttempts
    BY <1>2, <1>3, <2>1, <2>2, <2>3, <2>4, CommandLineAssumption
  <2> HIDE <2>4
  <2> QED
    BY <1>3, <2>1, <2>2, <2>3, <2>5 DEF CountInv
<1>9. CASE Tick \/ UNCHANGED vars
  <2>1. pc' = pc /\ failures' = failures /\ file' = file /\ sent' = sent
    BY <1>9 DEF Tick, vars
  <2> QED
    BY <2>1 DEF CountInv
<1> QED
  BY <1>4, <1>5, <1>6, <1>7, <1>8, <1>9 DEF Next, Step

LEMMA CountInvariant == Spec => []CountInv
<1>1. Init => CountInv
  <2> SUFFICES ASSUME Init PROVE CountInv
    OBVIOUS
  <2>1. pc = "start" /\ failures = <<>> /\ Len(<<>>) = 0
    BY DEF Init
  <2> QED
    BY <2>1, CommandLineAssumption DEF CountInv
<1>2. CountInv /\ ExitInv /\ MetaInv /\ [Next]_vars => CountInv'
  BY CountKeeps
<1> QED
  BY <1>1, <1>2, ExitInvariant, MetaInvariant, PTL DEF Spec

\* Every variable keeps its type; and no message goes out more often than the
\* tool and mq-run have tried to send it.
THEOREM TypeTheorem == Spec => []TypeOK
<1>1. Basics /\ MetaInv /\ CountInv /\ HeadersInv /\ AddressInv => TypeOK
  <2> SUFFICES ASSUME Basics, MetaInv, CountInv, HeadersInv, AddressInv
               PROVE  TypeOK
    OBVIOUS
  <2>1. /\ stack \in Seq(Frames) /\ start \in Seq(Target) /\ seen \subseteq Target
    BY DEF Basics, LookupInv, LookupType
  <2>2. \A i \in DOMAIN stack : stack[i] \in [todo : Seq(Target), found : Seq(Address)]
    <3>1. \A i \in DOMAIN stack : stack[i] \in Frames
      BY <2>1
    <3> QED
      BY <3>1 DEF Frames
  <2>3. Len(sent) <= MaxAttempts + 2
    <3>1. Len(failures) \in Nat /\ MaxAttempts \in Nat /\ Len(failures) <= MaxAttempts
      BY CommandLineAssumption DEF MetaInv, CountInv
    <3>2. PICK S : sent \in Seq(S)
      BY DEF Basics, ExitInv
    <3>3. Len(sent) \in Nat
      BY <3>2
    <3>4. CASE pc \notin {"enqueue", "exited"}
      <4>1. Len(sent) = 0
        BY <3>4 DEF Basics, ExitInv
      <4> QED
        BY <3>1, <4>1
    <3>5. CASE pc = "enqueue"
      <4>1. Len(sent) <= 1
        BY <3>5 DEF CountInv
      <4> QED
        BY <3>1, <3>3, <4>1
    <3>6. CASE pc = "exited"
      <4>1. Len(sent) <= Len(failures) + 1 \/ Len(sent) <= Len(failures) + 2
        BY <3>6 DEF CountInv
      <4> QED
        BY <3>1, <3>3, <4>1
    <3> QED
      BY <3>4, <3>5, <3>6
  <2>4. \A i \in DOMAIN sent : Elements(sent[i].to) \subseteq Target
    BY ElementsOf DEF AddressInv, Right
  <2>5. DOMAIN Parse(file) = {"from", "to", "date", "last", "retries"}
    BY DEF Parse
  <2>6. \A h \in Header : headers[h] \in Values \cup {<<"added">>, <<"added", "">>}
    BY DEF HeadersInv
  <2>7. /\ given \in Files /\ system \in SystemFiles /\ failed \in BOOLEAN
        /\ call \in Calls /\ config \in Configs \cup {None} /\ to \in Seq(Target)
        /\ from \in Target \cup {None, NullSender} /\ wanted \subseteq Header
        /\ now \in 0 .. MaxTime /\ queuedAt \in 0 .. MaxTime
        /\ failures \in Seq(0 .. MaxTime) /\ lost \in BOOLEAN
    BY DEF Basics, TypesInv, HeadersInv
  <2>8. /\ pc \in {"start", "recipients", "config", "from", "sender", "headers",
                   "mailer", "smtp", "enqueue", "exited"}
        /\ exit \in {None, 0, 1, 2, 20, 21, 25, 26, 27, 30, 81, 100}
    BY DEF Basics, TypesInv, Labels, Codes
  <2> QED
    BY <2>1, <2>2, <2>3, <2>4, <2>5, <2>6, <2>7, <2>8 DEF TypeOK
<1> QED
  BY <1>1, BasicsInvariant, MetaInvariant, CountInvariant, HeadersInvariant,
     AddressInvariant, PTL

-----------------------------------------------------------------------------
(* The depth of the lookup *)

\* What a set of targets stands for is closed, and the least such set.
LEMMA ReachableClosed ==
  ASSUME LookupType, NEW T \in SUBSET Target
  PROVE  /\ T \subseteq Reachable(T)
         /\ \A n \in Reachable(T) \cap DOMAIN Table :
              /\ Elements(Table[n]) \in SUBSET Target
              /\ Elements(Table[n]) \subseteq Reachable(T)
              /\ Reachable(Elements(Table[n])) \subseteq Reachable(T)
<1>1. T \subseteq Reachable(T)
  BY DEF Reachable
<1>2. ASSUME NEW n \in Reachable(T) \cap DOMAIN Table
      PROVE  /\ Elements(Table[n]) \in SUBSET Target
             /\ Elements(Table[n]) \subseteq Reachable(T)
             /\ Reachable(Elements(Table[n])) \subseteq Reachable(T)
  <2>1. Elements(Table[n]) \in SUBSET Target
    BY TableType, ElementsOf
  <2>2. ASSUME NEW S \in SUBSET Target, T \subseteq S, Closed(Table, S)
        PROVE  Elements(Table[n]) \subseteq S
    <3>1. n \in S
      BY <2>2 DEF Reachable
    <3> QED
      BY <2>2, <3>1 DEF Closed
  <2>3. Elements(Table[n]) \subseteq Reachable(T)
    BY <2>1, <2>2 DEF Reachable
  <2>4. Reachable(Elements(Table[n])) \subseteq Reachable(T)
    BY <2>2 DEF Reachable
  <2> QED
    BY <2>1, <2>3, <2>4
<1> QED
  BY <1>1, <1>2

\* names[i] is the alias the i-th call is about; the first one is about what
\* is looked up.
Origin(s, names, i) == IF i = 1 THEN s ELSE Table[names[i]]

\* Each call is about something that the calls below it are about; what a call
\* has to do is something it is about.
Chain(s, names, n) ==
    /\ names \in [2 .. n -> DOMAIN Table]
    /\ \A i \in 1 .. n, j \in 2 .. n :
         i < j => names[j] \in Reachable(Elements(Origin(s, names, i)))
Grounded(s, names, st) ==
    \A i \in DOMAIN st :
      Elements(st[i].todo) \cap DOMAIN Table \subseteq Reachable(Elements(Origin(s, names, i)))

DepthInv ==
    /\ given \in Files /\ system \in SystemFiles
    /\ \E names : Chain(start, names, Len(stack)) /\ Grounded(start, names, stack)
    /\ GivesUpOnlyOnCycle

\* A step that leaves the aliases alone.
LEMMA DepthStep ==
  ASSUME DepthInv, given' = given, system' = system,
         \E names : Chain(start', names, Len(stack')) /\ Grounded(start', names, stack'),
         \/ ~failed'
         \/ failed' = failed /\ start' = start
         \/ /\ start' = start
            /\ \E n \in Reachable(Elements(start)) \cap DOMAIN Table :
                 n \in Reachable(Elements(Table[n]))
  PROVE  DepthInv'
<1>1. Table' = Table
  BY SameTable
<1>2. \A T : Reachable(T)' = Reachable(T)
  BY <1>1 DEF Reachable
<1>3. (\E names : Chain(start, names, Len(stack)) /\ Grounded(start, names, stack))'
  BY <1>1, <1>2 DEF Chain, Grounded, Origin
<1>4. GivesUpOnlyOnCycle'
  BY <1>1, <1>2 DEF GivesUpOnlyOnCycle, DepthInv
<1> QED
  BY <1>3, <1>4 DEF DepthInv

\* What a frame or an alias is about are targets.
LEMMA OriginType ==
  ASSUME LookupType, NEW names, NEW n \in Nat, Chain(start, names, n), NEW i \in 1 .. n
  PROVE  Elements(Origin(start, names, i)) \in SUBSET Target
<1>1. CASE i = 1
  BY <1>1, ElementsOf DEF Origin, LookupType
<1>2. CASE i # 1
  <2>1. names[i] \in DOMAIN Table
    BY <1>2 DEF Chain
  <2> QED
    BY <1>2, <2>1, TableType, ElementsOf DEF Origin
<1> QED
  BY <1>1, <1>2

\* A call for one of the targets the topmost call has to look at would go on
\* with the chain.
LEMMA LongerChain ==
  ASSUME LookupType, Working, Item \in DOMAIN Table, NEW names,
         Chain(start, names, Len(stack)), Grounded(start, names, stack)
  PROVE  LET n == Len(stack)
             longer == [i \in 2 .. n + 1 |-> IF i = n + 1 THEN Item ELSE names[i]]
         IN /\ Chain(start, longer, n + 1)
            /\ \A i \in 1 .. n : Origin(start, longer, i) = Origin(start, names, i)
<1> DEFINE n == Len(stack)
           longer == [i \in 2 .. n + 1 |-> IF i = n + 1 THEN Item ELSE names[i]]
<1>1. /\ stack \in Seq(Frames) /\ n \in Nat /\ n >= 1 /\ n \in DOMAIN stack
      /\ DOMAIN stack = 1 .. n
  BY DEF LookupType, Working
<1>2. names \in [2 .. n -> DOMAIN Table]
  BY DEF Chain
<1>3. /\ longer \in [2 .. n + 1 -> DOMAIN Table] /\ longer[n + 1] = Item
      /\ \A i \in 2 .. n : longer[i] = names[i]
  BY <1>1, <1>2
<1> HIDE DEF longer
<1>4. \A i \in 1 .. n : Origin(start, longer, i) = Origin(start, names, i)
  BY <1>1, <1>3 DEF Origin
<1>5. Item \in Elements(Top.todo)
  <2>1. stack[n] \in Frames
    BY <1>1
  <2>2. Top.todo \in Seq(Target) /\ Top.todo # <<>>
    BY <2>1 DEF Top, Working, Frames
  <2> QED
    BY <2>2, ElementsOf DEF Item
<1>6. Item \in Reachable(Elements(Origin(start, names, n)))
  BY <1>1, <1>5 DEF Grounded, Top
<1>7. ASSUME NEW i \in 1 .. n
      PROVE  Item \in Reachable(Elements(Origin(start, names, i)))
  <2>1. CASE i = n
    BY <1>6, <2>1
  <2>2. CASE i # n
    <3>1. n \in 2 .. n /\ i < n /\ n # 1
      <4> HIDE DEF n
      <4> QED
        BY <1>1, <2>2
    <3>2. names[n] \in Reachable(Elements(Origin(start, names, i))) \cap DOMAIN Table
      BY <1>2, <3>1 DEF Chain
    <3>3. Reachable(Elements(Table[names[n]])) \subseteq Reachable(Elements(Origin(start, names, i)))
      BY <1>1, <3>2, OriginType, ReachableClosed
    <3> QED
      BY <1>6, <3>1, <3>3 DEF Origin
  <2> QED
    BY <2>1, <2>2
<1>8. ASSUME NEW i \in 1 .. n + 1, NEW j \in 2 .. n + 1, i < j
      PROVE  longer[j] \in Reachable(Elements(Origin(start, longer, i)))
  <2>1. i \in 1 .. n
    BY <1>1, <1>8
  <2>2. CASE j = n + 1
    BY <1>3, <1>4, <1>7, <2>1, <2>2
  <2>3. CASE j # n + 1
    <3>1. j \in 2 .. n
      BY <1>1, <2>3
    <3> QED
      BY <1>3, <1>4, <1>8, <2>1, <3>1 DEF Chain
  <2> QED
    BY <2>2, <2>3
<1>9. Chain(start, longer, n + 1)
  BY <1>3, <1>8 DEF Chain
<1> QED
  BY <1>4, <1>9 DEF longer

\* Each step of a lookup keeps to its chain: the beginning,
LEMMA BeginKeepsDepth ==
  ASSUME DepthInv, LookupInv, LookupInv', NEW s \in Seq(Target), Begin(s)
  PROVE  DepthInv'
<1>1. /\ stack' = <<Frame(s)>> /\ start' = s /\ failed' = FALSE
      /\ given' = given /\ system' = system
  BY DEF Begin
<1>2. Len(stack') = 1 /\ DOMAIN stack' = {1} /\ stack'[1].todo = s
  BY <1>1 DEF Frame
<1>3. Elements(s) \subseteq Reachable(Elements(s))
  BY ElementsOf, ReachableClosed DEF LookupInv
<1> DEFINE names == [i \in {} |-> 0]
<1>4. Chain(s, names, 1)
  <2>1. 2 .. 1 = {}
    OBVIOUS
  <2> QED
    BY <2>1 DEF Chain
<1>5. Grounded(s, names, stack')
  BY <1>2, <1>3 DEF Grounded, Origin
<1> HIDE DEF names
<1>6. \E n : Chain(start', n, Len(stack')) /\ Grounded(start', n, stack')
  BY <1>1, <1>2, <1>4, <1>5
<1>7. ~failed'
  BY <1>1
<1> QED
  BY <1>1, <1>6, <1>7, DepthStep

\* a target that needs no call,
LEMMA ProceedKeepsDepth ==
  ASSUME DepthInv, LookupInv, AddAddress \/ SkipName
  PROVE  DepthInv'
<1>1. PICK found : stack' = Proceed(found)
  BY DEF AddAddress, SkipName
<1>2. /\ start' = start /\ given' = given /\ system' = system /\ failed' = failed /\ Working
  BY DEF AddAddress, SkipName
<1>3. /\ stack \in Seq(Frames) /\ Len(stack) \in DOMAIN stack
      /\ Top = stack[Len(stack)] /\ Top.todo \in Seq(Target) /\ Top.todo # <<>>
  <2>1. stack \in Seq(Frames) /\ Len(stack) \in DOMAIN stack /\ stack[Len(stack)] \in Frames
    BY <1>2 DEF LookupInv, LookupType, Working
  <2> QED
    BY <1>2, <2>1 DEF Top, Frames, Working
<1>4. Len(stack') = Len(stack) /\ DOMAIN stack' = DOMAIN stack
  BY <1>1, <1>3 DEF Proceed
<1>5. \A i \in DOMAIN stack : Elements(stack'[i].todo) \subseteq Elements(stack[i].todo)
  <2>1. Elements(Tail(Top.todo)) \subseteq Elements(Top.todo)
    BY <1>3, ElementsOf
  <2>2. stack'[Len(stack)].todo = Tail(Top.todo)
    BY <1>1, <1>3 DEF Proceed
  <2>3. \A i \in DOMAIN stack : i # Len(stack) => stack'[i] = stack[i]
    BY <1>1, <1>3 DEF Proceed
  <2> QED
    BY <1>3, <2>1, <2>2, <2>3
<1>6. PICK names : Chain(start, names, Len(stack)) /\ Grounded(start, names, stack)
  BY DEF DepthInv
<1>7. Grounded(start, names, stack')
  BY <1>4, <1>5, <1>6 DEF Grounded
<1> QED
  BY <1>2, <1>4, <1>6, <1>7, DepthStep

\* a call for an alias,
LEMMA ResolveKeepsDepth ==
  ASSUME DepthInv, LookupInv, Resolve
  PROVE  DepthInv'
<1> DEFINE n == Len(stack)  st == Proceed(Top.found)
<1>1. /\ stack' = Append(st, Frame(Table[Item])) /\ Item \in DOMAIN Table /\ Working
      /\ start' = start /\ given' = given /\ system' = system /\ failed' = failed
  BY DEF Resolve
<1>2. /\ stack \in Seq(Frames) /\ n \in DOMAIN stack /\ n \in Nat /\ DOMAIN stack = 1 .. n
      /\ Top = stack[n] /\ Top.todo \in Seq(Target) /\ Top.todo # <<>>
      /\ Top.found \in Seq(Address)
  <2>1. stack \in Seq(Frames) /\ n \in DOMAIN stack /\ stack[n] \in Frames
        /\ n \in Nat /\ DOMAIN stack = 1 .. n
    BY <1>1 DEF LookupInv, LookupType, Working
  <2> QED
    BY <1>1, <2>1 DEF Top, Frames, Working
<1>3. /\ st \in Seq(Frames) /\ Len(st) = n
      /\ \A i \in 1 .. n : Elements(st[i].todo) \subseteq Elements(stack[i].todo)
  <2>1. /\ st \in Seq(Frames) /\ Len(st) = n /\ DOMAIN st = DOMAIN stack
    BY <1>1, <1>2, ProceedStack
  <2>2. Elements(Tail(Top.todo)) \subseteq Elements(Top.todo)
    BY <1>2, ElementsOf
  <2>3. st[n].todo = Tail(Top.todo) /\ \A i \in 1 .. n : i # n => st[i] = stack[i]
    BY <1>2 DEF Proceed
  <2> QED
    BY <1>2, <2>1, <2>2, <2>3
<1>4. Table[Item] \in Seq(Target) /\ Frame(Table[Item]) \in Frames
      /\ Frame(Table[Item]).todo = Table[Item]
  <2>1. Table[Item] \in Seq(Target)
    BY <1>1, TableType DEF LookupInv
  <2> QED
    BY <2>1 DEF Frame, Frames
<1> HIDE DEF st
<1>5. /\ Len(stack') = n + 1 /\ DOMAIN stack' = 1 .. n + 1
      /\ \A i \in 1 .. n : stack'[i] = st[i]
      /\ stack'[n + 1] = Frame(Table[Item])
  BY <1>1, <1>2, <1>3, <1>4, AppendProperties
<1>6. PICK names : Chain(start, names, n) /\ Grounded(start, names, stack)
  BY DEF DepthInv
<1> DEFINE longer == [i \in 2 .. n + 1 |-> IF i = n + 1 THEN Item ELSE names[i]]
<1>7. /\ Chain(start, longer, n + 1) /\ longer[n + 1] = Item
      /\ \A i \in 1 .. n : Origin(start, longer, i) = Origin(start, names, i)
  <2>1. n + 1 \in 2 .. n + 1
    BY <1>2
  <2> QED
    BY <1>1, <1>6, <2>1, LongerChain DEF LookupInv
<1> HIDE DEF longer
<1>8. Origin(start, longer, n + 1) = Table[Item]
  BY <1>2, <1>7 DEF Origin
<1>9. Elements(Table[Item]) \subseteq Reachable(Elements(Table[Item]))
  BY <1>4, ElementsOf, ReachableClosed DEF LookupInv
<1>10. ASSUME NEW i \in DOMAIN stack'
       PROVE  Elements(stack'[i].todo) \cap DOMAIN Table
                \subseteq Reachable(Elements(Origin(start, longer, i)))
  <2>1. CASE i = n + 1
    BY <1>4, <1>5, <1>8, <1>9, <2>1
  <2>2. CASE i # n + 1
    <3>1. i \in 1 .. n
      BY <1>2, <1>5, <2>2
    <3> QED
      BY <1>2, <1>3, <1>5, <1>6, <1>7, <3>1 DEF Grounded
  <2> QED
    BY <2>1, <2>2
<1>11. Grounded(start, longer, stack')
  BY <1>10 DEF Grounded
<1> QED
  BY <1>1, <1>5, <1>7, <1>11, DepthStep

\* the end of a call, which hands on addresses only,
LEMMA ReturnKeepsDepth ==
  ASSUME DepthInv, LookupInv, Return
  PROVE  DepthInv'
<1> DEFINE n == Len(stack)  caller == stack[n - 1]  below == SubSeq(stack, 1, n - 1)
           frame == [todo |-> Top.found \o caller.todo, found |-> caller.found]
<1>1. /\ n \in Nat /\ n > 1 /\ DOMAIN stack = 1 .. n /\ stack \in Seq(Frames)
      /\ n - 1 \in 1 .. n - 1 /\ n - 1 \in DOMAIN stack
      /\ stack[n] \in Frames /\ caller \in Frames
      /\ stack' = [below EXCEPT ![n - 1] = frame]
      /\ start' = start /\ given' = given /\ system' = system /\ failed' = failed
  BY DEF Return, LookupInv, LookupType
<1>2. /\ Top.found \in Seq(Address) /\ Top.found \in Seq(Target)
      /\ caller.todo \in Seq(Target)
  <2>1. Top.found \in Seq(Address) /\ caller.todo \in Seq(Target)
    BY <1>1 DEF Top, Frames
  <2> QED
    BY <2>1, SeqMonotonic DEF Target
<1>3. /\ below \in Seq(Frames) /\ Len(below) = n - 1 /\ DOMAIN below = 1 .. n - 1
      /\ \A i \in 1 .. n - 1 : below[i] = stack[i]
  BY <1>1, SubSeqProperties
<1>4. Elements(frame.todo) \cap DOMAIN Table \subseteq Elements(caller.todo)
  <2>1. Elements(frame.todo) = Elements(Top.found) \cup Elements(caller.todo)
    BY <1>2, ElementsOf
  <2>2. Elements(Top.found) \subseteq Address
    BY <1>2, ElementsOf
  <2>3. DOMAIN Table \subseteq Name /\ Name \cap Address = {}
    BY TableType, AliasAssumption DEF LookupInv
  <2> QED
    BY <2>1, <2>2, <2>3
<1>5. /\ DOMAIN stack' = 1 .. n - 1 /\ stack'[n - 1] = frame
      /\ \A i \in 1 .. n - 1 : i # n - 1 => stack'[i] = stack[i]
  <2> HIDE DEF frame, below
  <2> QED
    BY <1>1, <1>3
<1>6. stack' \in Seq(Frames)
  BY <1>1, ReturnStack DEF LookupInv, LookupType
<1>7. Len(stack') = n - 1
  <2> HIDE DEF n
  <2>1. DOMAIN stack' = 1 .. Len(stack') /\ Len(stack') \in Nat
    BY <1>6
  <2> QED
    BY <1>1, <1>5, <2>1
<1>8. PICK names : Chain(start, names, n) /\ Grounded(start, names, stack)
  BY DEF DepthInv
<1> DEFINE shorter == [i \in 2 .. n - 1 |-> names[i]]
<1>9. /\ \A i \in 2 .. n - 1 : shorter[i] = names[i] /\ i \in 2 .. n
      /\ shorter \in [2 .. n - 1 -> DOMAIN Table]
      /\ \A i \in 1 .. n - 1 : Origin(start, shorter, i) = Origin(start, names, i)
  <2> HIDE DEF n
  <2>1. \A i \in 2 .. n - 1 : i \in 2 .. n
    BY <1>1
  <2>2. shorter \in [2 .. n - 1 -> DOMAIN Table]
    BY <1>8, <2>1 DEF Chain
  <2>3. \A i \in 1 .. n - 1 : i = 1 \/ i \in 2 .. n - 1
    BY <1>1
  <2> QED
    BY <2>1, <2>2, <2>3 DEF Origin
<1> HIDE DEF shorter, frame, below, caller
<1>10. Chain(start, shorter, n - 1)
  <2> HIDE DEF n
  <2>1. \A i \in 1 .. n - 1 : i \in 1 .. n
    BY <1>1
  <2> QED
    BY <1>8, <1>9, <2>1 DEF Chain
<1>11. Grounded(start, shorter, stack')
  <2>1. ASSUME NEW i \in 1 .. n - 1
        PROVE  /\ i \in DOMAIN stack
               /\ Elements(stack'[i].todo) \cap DOMAIN Table \subseteq Elements(stack[i].todo)
    <3>1. i \in DOMAIN stack
      <4> HIDE DEF n
      <4> QED
        BY <1>1
    <3>2. CASE i = n - 1
      BY <1>4, <1>5, <3>1, <3>2 DEF caller
    <3>3. CASE i # n - 1
      BY <1>5, <3>1, <3>3
    <3> QED
      BY <3>1, <3>2, <3>3
  <2> QED
    BY <1>5, <1>8, <1>9, <2>1 DEF Grounded
<1> QED
  BY <1>1, <1>7, <1>10, <1>11, DepthStep

\* the end of the lookup,
LEMMA EmptyKeepsDepth ==
  ASSUME DepthInv, LookupInv, given' = given, system' = system, start' = start, stack' = <<>>,
         \/ failed' = failed
         \/ \E n \in Reachable(Elements(start)) \cap DOMAIN Table :
              n \in Reachable(Elements(Table[n]))
  PROVE  DepthInv'
<1> DEFINE names == [i \in {} |-> 0]
<1>1. Len(stack') = 0 /\ DOMAIN stack' = {} /\ 2 .. 0 = {} /\ 1 .. 0 = {}
  OBVIOUS
<1>2. Chain(start, names, 0) /\ Grounded(start, names, stack')
  BY <1>1 DEF Chain, Grounded
<1> HIDE DEF names
<1> QED
  BY <1>1, <1>2, DepthStep

\* There are fewer aliases than calls Python nests.
FewAliases ==
    \A f \in Files \cup SystemFiles : Cardinality(DOMAIN ParseAliases(f)) < MaxDepth

\* The aliases in force are finitely many, and few.
LEMMA TableSize ==
  ASSUME FewAliases, given \in Files, system \in SystemFiles
  PROVE  IsFiniteSet(DOMAIN Table) /\ Cardinality(DOMAIN Table) < MaxDepth
<1> DEFINE f == IF given # <<>> THEN given ELSE system
           T == {line.alias : line \in Elements(f)}
           g == [i \in 1 .. Len(f) |-> f[i].alias]
<1>1. f \in Files \cup SystemFiles /\ f \in Seq(Line)
  BY AliasAssumption
<1>2. Table = ParseAliases(f) /\ DOMAIN ParseAliases(f) = T
  BY DEF Table, ParseAliases
<1> HIDE DEF f
<1>3. DOMAIN f = 1 .. Len(f) /\ Len(f) \in Nat
  BY <1>1
<1>4. g \in Surjection(1 .. Len(f), T)
  <2>1. \A i \in 1 .. Len(f) : f[i].alias \in T
    BY <1>3 DEF Elements
  <2>2. \A t \in T : \E i \in 1 .. Len(f) : f[i].alias = t
    BY <1>3 DEF Elements
  <2> HIDE DEF T
  <2> QED
    BY <2>1, <2>2 DEF Surjection
<1>5. IsFiniteSet(1 .. Len(f))
  BY <1>3, FS_Interval
<1>6. IsFiniteSet(T)
  <2> HIDE DEF T, g
  <2> QED
    BY <1>4, <1>5, FS_Surjection
<1> QED
  BY <1>1, <1>2, <1>6 DEF FewAliases

\* and Python's limit, which is reached only where one name stands twice in
\* the chain.
LEMMA TooDeepKeepsDepth ==
  ASSUME DepthInv, LookupInv, FewAliases, TooDeep
  PROVE  DepthInv'
<1> DEFINE n == Len(stack)
<1>1. /\ stack' = <<>> /\ start' = start /\ given' = given /\ system' = system
      /\ Working /\ Item \in DOMAIN Table /\ n = MaxDepth
  BY DEF TooDeep
<1>2. n \in Nat /\ n >= 1
  BY <1>1, AliasAssumption
<1>3. PICK names : Chain(start, names, n) /\ Grounded(start, names, stack)
  BY DEF DepthInv
<1> DEFINE longer == [i \in 2 .. n + 1 |-> IF i = n + 1 THEN Item ELSE names[i]]
<1>4. Chain(start, longer, n + 1)
  BY <1>1, <1>3, LongerChain DEF LookupInv
<1> HIDE DEF longer, n
<1> DEFINE g == [i \in 1 .. n |-> longer[i + 1]]
<1>5. g \in [1 .. n -> DOMAIN Table]
  <2>1. \A i \in 1 .. n : i + 1 \in 2 .. n + 1
    BY <1>2
  <2> QED
    BY <1>4, <2>1 DEF Chain
<1>6. IsFiniteSet(DOMAIN Table) /\ Cardinality(DOMAIN Table) < n
  BY <1>1, TableSize DEF DepthInv
<1>7. IsFiniteSet(1 .. n) /\ Cardinality(1 .. n) = n
  BY <1>2, FS_Interval
<1>8. \E x, y \in 1 .. n : x # y /\ g[x] = g[y]
  <2> HIDE DEF g
  <2> QED
    BY <1>5, <1>6, <1>7, FS_PigeonHole
<1>9. PICK x, y \in 1 .. n : x < y /\ g[x] = g[y]
  <2> HIDE DEF g
  <2>1. PICK x, y \in 1 .. n : x # y /\ g[x] = g[y]
    BY <1>8
  <2>2. x < y \/ y < x
    BY <1>2, <2>1
  <2> QED
    BY <2>1, <2>2
<1>10. /\ x + 1 \in 1 .. n + 1 /\ x + 1 \in 2 .. n + 1 /\ y + 1 \in 2 .. n + 1
       /\ x + 1 < y + 1 /\ 1 \in 1 .. n + 1 /\ 1 < x + 1 /\ x + 1 # 1
  BY <1>2, <1>9
<1>11. longer[x + 1] = longer[y + 1] /\ longer[x + 1] \in DOMAIN Table
  BY <1>4, <1>9, <1>10 DEF Chain
<1>12. longer[x + 1] \in Reachable(Elements(start))
  BY <1>4, <1>10 DEF Chain, Origin
<1>13. longer[y + 1] \in Reachable(Elements(Table[longer[x + 1]]))
  BY <1>4, <1>10 DEF Chain, Origin
<1>14. \E m \in Reachable(Elements(start)) \cap DOMAIN Table :
         m \in Reachable(Elements(Table[m]))
  BY <1>11, <1>12, <1>13
<1> QED
  BY <1>1, <1>14, EmptyKeepsDepth

-----------------------------------------------------------------------------
(* The lookups of the program as those of Aliases *)

\* Whatever is looked up, one thing after the other, the lookup is right.
LEMMA AliasesInvariant == LookupSpec => []LookupInv
<1>1. LookupInit => LookupInv
  BY LookupStarts
<1>2. LookupInv /\ [Lookup \/ End \/ \E s \in Seq(Target) : Begin(s)]_aliasVars => LookupInv'
  BY LookupKeeps
<1> QED
  BY <1>1, <1>2, PTL DEF LookupSpec

LEMMA DepthInvariant ==
  ASSUME FewAliases
  PROVE  LookupSpec => []GivesUpOnlyOnCycle
<1>1. LookupInit => DepthInv
  <2> SUFFICES ASSUME LookupInit PROVE DepthInv
    OBVIOUS
  <2> DEFINE names == [i \in {} |-> 0]
  <2>1. stack = <<>> /\ Len(<<>>) = 0 /\ DOMAIN <<>> = {} /\ 2 .. 0 = {} /\ 1 .. 0 = {}
    BY DEF LookupInit
  <2>2. Chain(start, names, Len(stack)) /\ Grounded(start, names, stack)
    BY <2>1 DEF Chain, Grounded
  <2>3. GivesUpOnlyOnCycle
    BY DEF LookupInit, GivesUpOnlyOnCycle
  <2> HIDE DEF names
  <2> QED
    BY <2>2, <2>3 DEF DepthInv, LookupInit
<1>2. DepthInv /\ LookupInv /\ LookupInv'
        /\ [Lookup \/ End \/ \E s \in Seq(Target) : Begin(s)]_aliasVars
        => DepthInv'
  <2> SUFFICES ASSUME DepthInv, LookupInv, LookupInv',
                      [Lookup \/ End \/ \E s \in Seq(Target) : Begin(s)]_aliasVars
               PROVE  DepthInv'
    OBVIOUS
  <2>1. CASE End
    BY <2>1, EmptyKeepsDepth DEF End
  <2>2. CASE UNCHANGED aliasVars
    <3>1. /\ stack' = stack /\ start' = start /\ failed' = failed
          /\ given' = given /\ system' = system
      BY <2>2 DEF aliasVars
    <3>2. \E names : Chain(start, names, Len(stack)) /\ Grounded(start, names, stack)
      BY DEF DepthInv
    <3> QED
      BY <3>1, <3>2, DepthStep
  <2> QED
    BY <2>1, <2>2, BeginKeepsDepth, ProceedKeepsDepth, ResolveKeepsDepth,
       ReturnKeepsDepth, TooDeepKeepsDepth DEF Lookup
<1>3. DepthInv => GivesUpOnlyOnCycle
  BY DEF DepthInv
<1> QED
  BY <1>1, <1>2, <1>3, AliasesInvariant, PTL DEF LookupSpec

\* Composition: whatever the program does, it uses the aliases as Aliases says,
\* one lookup after the other (cli/mq_sendmail.py, mq_mail.py).
THEOREM LooksUp == Spec => LookupSpec
<1>1. Init => LookupInit
  BY DEF Init
<1>2. call \in Calls /\ [Next]_vars
        => [Lookup \/ End \/ \E s \in Seq(Target) : Begin(s)]_aliasVars
  BY LookupStep
<1>3. LookupInv /\ call \in Calls => call \in Calls
  OBVIOUS
<1> QED
  BY <1>1, <1>2, <1>3, LookupInvariant, PTL DEF Spec, LookupSpec

\* If there are fewer aliases than calls Python nests, only an alias that
\* stands for itself ends a lookup with an exception, however long the chains
\* are and however often targets are shared (aliases_parser.py, _resolve_alias()).
THEOREM GivesUpTheorem ==
  ASSUME FewAliases
  PROVE  Spec => []GivesUpOnlyOnCycle
BY LooksUp, DepthInvariant, PTL
=============================================================================
