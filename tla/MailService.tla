----------------------------- MODULE MailService -----------------------------
(***************************************************************************)
(* What somebody who hands a message to MessageHandler.send_message() is   *)
(* promised, with no transports, files or processes: the service carries   *)
(* the message, it ends by a delivery or by a plugin's decision and more   *)
(* than once only after a fault, and the answer the caller gets agrees     *)
(* with it.                                                                *)
(***************************************************************************)
EXTENDS Naturals

CONSTANTS Msg, MaxFaults

VARIABLES odd,        \* messages nothing is promised of how often they go out
          carried,    \* the messages the service is responsible for
          sent,       \* sent[m]: how often a server took m
          discarded,  \* the messages a plugin discarded
          answer,     \* answer[m]: what the caller was told
          faults      \* number of faults so far

vars == <<odd, carried, sent, discarded, answer, faults>>

\* The truth values of a SendResult, and the two ways to get none.
Answer == {"sent", "queued", "failed", "discarded", "raised", "killed"}

Init ==
    /\ odd \subseteq Msg
    /\ carried = {}
    /\ sent = [m \in Msg |-> 0]
    /\ discarded = {}
    /\ answer = [m \in Msg |-> "none"]
    /\ faults = 0

\* A message is handed over once.
Call(m) ==
    /\ answer[m] = "none"
    /\ carried' = carried \cup {m}
    /\ answer' = [answer EXCEPT ![m] = "pending"]
    /\ UNCHANGED <<odd, sent, discarded, faults>>

\* A server takes m, and perhaps cannot say so, which is a fault.  The first
\* delivery is free, any other needs a fault before it.
Deliver(m) ==
    /\ m \in carried
    /\ m \in odd \/ sent[m] <= faults
    /\ sent' = [sent EXCEPT ![m] = @ + 1]
    /\ faults' \in {faults, faults + 1} \cap 0 .. MaxFaults
    /\ UNCHANGED <<odd, carried, discarded, answer>>

\* What may be told at a time when this is what became of m, and whether the
\* service still carries it.
Fits(m, a, stays) ==
    CASE a = "sent"      -> sent[m] > 0
      [] a = "queued"    -> stays \/ sent[m] > 0 \/ m \in discarded
      [] a = "failed"    -> stays \/ sent[m] <= faults
      [] a = "discarded" -> m \in discarded'
      [] OTHER           -> TRUE

\* The caller gets an answer.  A message that is in no queue ends with it; the
\* caller who is given an exception, or is killed, has the message himself.
Reply(m) ==
    /\ answer[m] = "pending"
    /\ carried' \in {carried, carried \ {m}}
    /\ discarded' \in {discarded, discarded \cup {m}}
    /\ \E a \in Answer :
         /\ answer' = [answer EXCEPT ![m] = a]
         /\ Fits(m, a, m \in carried')
    /\ faults' \in {faults, faults + 1} \cap 0 .. MaxFaults
    /\ UNCHANGED <<odd, sent>>

\* A queued message leaves the queue after a delivery or by a decision.
Settle(m) ==
    /\ answer[m] # "none"
    /\ carried' \in {carried, carried \ {m}}
    /\ discarded' \in {discarded, discarded \cup {m}}
    /\ sent[m] > 0 \/ m \in discarded'
    /\ UNCHANGED <<odd, sent, answer, faults>>

Fault ==
    /\ faults < MaxFaults
    /\ faults' = faults + 1
    /\ UNCHANGED <<odd, carried, sent, discarded, answer>>

Next ==
    \/ Fault
    \/ \E m \in Msg : Call(m) \/ Deliver(m) \/ Reply(m) \/ Settle(m)

Spec == Init /\ [][Next]_vars
=============================================================================
