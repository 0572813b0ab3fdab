------------------------------ MODULE Envelope ------------------------------
(***************************************************************************)
(* What is written before a message in the queue, and how it is read       *)
(* (serialize_message_with_queue_data(), parse_message_envelope()), and    *)
(* the headers autogenerate_headers() adds to a message.  Texts are        *)
(* values; what writing and reading does to them is here.                  *)
(***************************************************************************)
EXTENDS Naturals, Sequences, SequencesExt

CONSTANTS None,        \* Python's None
          Parts,       \* Parts[a]: what is left of a between its commas
          NullSender,  \* the sender "" of a bounce
          GtSender     \* the sender ">"

\* A time is a number of half seconds; a date in a header has whole ones.
Seconds(time) == 2 * (time \div 2)

\* strip_brackets() of "<" sender ">": there has to be something in between,
\* and for "<>" that is the second bracket.
StripBrackets(sender) == IF sender = NullSender THEN GtSender ELSE sender

\* Mutant: every time the file is written counts as the time it was queued.
SerializeNow(sender, recipients, date, last, retries) ==
    [h \in {"Return-path", "Envelope-to", "X-Queue-Date"}
             \cup {g \in {"X-Last-Attempt"} : last # None}
             \cup {g \in {"X-Retries"} : retries # 0} |->
       CASE h = "Return-path"    -> sender
         [] h = "Envelope-to"    -> recipients
         [] h = "X-Queue-Date"   -> Seconds(IF last = None THEN date ELSE last)
         [] h = "X-Last-Attempt" -> Seconds(last)
         [] h = "X-Retries"      -> retries]

\* serialize_message_with_queue_data(): "Envelope-to" has the recipients with
\* commas between them.
Serialize(sender, recipients, date, last, retries) ==
    [h \in {"Return-path", "Envelope-to", "X-Queue-Date"}
             \cup {g \in {"X-Last-Attempt"} : last # None}
             \cup {g \in {"X-Retries"} : retries # 0} |->
       CASE h = "Return-path"    -> sender
         [] h = "Envelope-to"    -> recipients
         [] h = "X-Queue-Date"   -> Seconds(date)
         [] h = "X-Last-Attempt" -> Seconds(last)
         [] h = "X-Retries"      -> retries]

\* parse_envelope_addrs(): the text is split at every comma.
ParseAddrs(recipients) ==
    FlattenSeq([i \in DOMAIN recipients |-> Parts[recipients[i]]])

Field(meta, header, default) ==
    IF header \in DOMAIN meta THEN meta[header] ELSE default

\* parse_message_envelope()
Parse(meta) ==
    [from    |-> StripBrackets(meta["Return-path"]),
     to      |-> ParseAddrs(meta["Envelope-to"]),
     date    |-> meta["X-Queue-Date"],
     last    |-> Field(meta, "X-Last-Attempt", None),
     retries |-> Field(meta, "X-Retries", 0)]

-----------------------------------------------------------------------------
Header == {"Date", "From", "To", "Message-ID"}

\* The values of a header of the message: none, an empty one, or one.
Values == {<<>>, <<"">>, <<"own">>}

\* headers.get(h) is None or "".
Lacks(headers, h) == headers[h] = <<>> \/ Head(headers[h]) = ""

\* Mutant: it does not matter what is there.
WithExtraAlways(headers, wanted) ==
    [h \in Header |-> IF h \in wanted
                        THEN <<"added">> \o headers[h] ELSE headers[h]]

\* autogenerate_headers(): the new lines come before the message.
WithExtra(headers, wanted) ==
    [h \in Header |-> IF h \in wanted /\ Lacks(headers, h)
                        THEN <<"added">> \o headers[h] ELSE headers[h]]
=============================================================================
