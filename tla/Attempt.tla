-------------------------------- MODULE Attempt --------------------------------
(***************************************************************************)
(* What SMTPMailer.send() is for those who call it, with no connections,   *)
(* commands or replies: attempts one after the other, each of which hands  *)
(* the server the whole message at most once, and ends with True exactly   *)
(* if the server has said that it took the message.                        *)
(***************************************************************************)
EXTENDS Sequences, Naturals

CONSTANTS Msg, NoMsg, Recipients, MaxFaults

VARIABLES msg,        \* the message of the attempt
          said,       \* the server has said that it took it
          result,     \* result[m]: what the last attempt to send m returned
          delivered,  \* what the server took, in order
          lost        \* how often it could not say so

vars == <<msg, said, result, delivered, lost>>

Init ==
    /\ msg = NoMsg
    /\ said = FALSE
    /\ result = [m \in Msg |-> "none"]
    /\ delivered = <<>>
    /\ lost = 0

Begin(m) ==
    /\ msg = NoMsg
    /\ result[m] # "sent"
    /\ msg' = m
    /\ UNCHANGED <<said, result, delivered, lost>>

\* The message as it should be: from its sender, for all of its recipients.
Whole(m) == [from |-> m, rcpts |-> Recipients[m], body |-> m]

Take ==
    /\ msg # NoMsg
    /\ ~said
    /\ said' = TRUE
    /\ delivered' = Append(delivered, Whole(msg))
    /\ UNCHANGED <<msg, result, lost>>

End(value) ==
    /\ msg # NoMsg
    /\ msg' = NoMsg
    /\ said' = FALSE
    /\ result' = [result EXCEPT ![msg] = value]

Succeed == said /\ End("sent") /\ UNCHANGED <<delivered, lost>>

GiveUp ==
    /\ ~said
    /\ End("failed") \/ End("raised")
    /\ UNCHANGED <<delivered, lost>>

\* The server took it, and the attempt ends without knowing.
TakeUnheard ==
    /\ ~said
    /\ lost < MaxFaults
    /\ lost' = lost + 1
    /\ delivered' = Append(delivered, Whole(msg))
    /\ End("failed")

Next ==
    \/ Take \/ TakeUnheard \/ Succeed \/ GiveUp
    \/ \E m \in Msg : Begin(m)

Spec == Init /\ [][Next]_vars
=============================================================================
