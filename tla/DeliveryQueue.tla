---------------------------- MODULE DeliveryQueue ----------------------------
(***************************************************************************)
(* What the queue promises its users, with no processes, folders or locks: *)
(* a message enters the queue once, leaves it only after it was delivered  *)
(* or discarded, and is settled (delivered, or discarded) more than once   *)
(* only if something went wrong in between.                                *)
(***************************************************************************)
EXTENDS Naturals

CONSTANTS Msg, MaxFaults

VARIABLES queue,      \* the messages in the queue
          sent,       \* sent[m]: how often the server took m
          discarded,  \* the messages a plugin discarded
          faults      \* number of faults so far

vars == <<queue, sent, discarded, faults>>

Settled(m) == sent[m] + (IF m \in discarded THEN 1 ELSE 0)

Init ==
    /\ queue = {}
    /\ sent = [m \in Msg |-> 0]
    /\ discarded = {}
    /\ faults = 0

\* A message that was settled never comes back.
Enter(m) ==
    /\ m \notin queue
    /\ Settled(m) = 0
    /\ queue' = queue \cup {m}
    /\ UNCHANGED <<sent, discarded, faults>>

\* The server takes m; a delivery whose answer is lost is a fault.  A first
\* delivery is free, any other needs a fault before it.
Deliver(m) ==
    /\ m \in queue
    /\ Settled(m) <= faults
    /\ sent' = [sent EXCEPT ![m] = @ + 1]
    /\ faults' \in {faults, faults + 1} \cap 0 .. MaxFaults
    /\ UNCHANGED <<queue, discarded>>

Remove(m) ==
    /\ m \in queue
    /\ Settled(m) > 0
    /\ queue' = queue \ {m}
    /\ UNCHANGED <<sent, discarded, faults>>

Discard(m) ==
    /\ m \in queue
    /\ Settled(m) <= faults
    /\ queue' = queue \ {m}
    /\ discarded' = discarded \cup {m}
    /\ UNCHANGED <<sent, faults>>

Fault ==
    /\ faults < MaxFaults
    /\ faults' = faults + 1
    /\ UNCHANGED <<queue, sent, discarded>>

Next == Fault \/ \E m \in Msg : Enter(m) \/ Deliver(m) \/ Remove(m) \/ Discard(m)

Spec == Init /\ [][Next]_vars
=============================================================================
