--------------------------- MODULE MCCommandLine ---------------------------
\* Instances of CommandLine for TLC.
EXTENDS CommandLine, TLC

CONSTANTS n1, n2,      \* names
          a, b, odd,   \* addresses, odd is not ASCII
          ab           \* an address with a comma: "a,b"

MC_Names     == {n1, n2}
MC_Addresses == {a, b, odd, ab}

\* Aliases of both names, with shared and repeated targets and with cycles;
\* of one; and the same one twice.
MC_Entry(name, lists) == {[alias |-> name, targets |-> l] : l \in lists}
MC_Files ==
    {<<l1, l2>> : l1 \in MC_Entry(n1, {<<n2>>, <<b, n2>>, <<n2, a, n2>>}),
                  l2 \in MC_Entry(n2, {<<a, b>>, <<n1>>})}
    \cup {<<l1, l2>> : l1 \in MC_Entry(n1, {<<a>>}), l2 \in MC_Entry(n1, {<<b>>})}
    \cup {<<l>> : l \in MC_Entry(n1, {<<n1>>})} \cup {<<>>}
MC_System == {<<>>} \cup {<<l>> : l \in MC_Entry(n1, {<<b, n2>>})}

MC_Parts == [t \in Target |-> IF t = ab THEN <<a, b>> ELSE <<t>>]

MC_Calls ==
    [tool : {"sendmail"}, recipients : {<<>>, <<n1>>}, inMessage : {{n2, a}},
     read : BOOLEAN, from : {None, n1}]
    \cup [tool : {"sendmail"}, recipients : {<<a, n1>>, <<odd>>, <<ab>>},
          inMessage : {{}}, read : {FALSE}, from : {a}]
    \cup [tool : {"mail"}, recipients : {<<n1>>}, inMessage : {{}}, read : {FALSE},
          from : {None, n2}]
    \cup [tool : {"test"}, recipients : {<<a>>, <<odd>>}, inMessage : {{}},
          read : {FALSE}, from : {None, b}]
    \cup [tool : {"app"}, recipients : {<<b, ab>>, <<odd>>}, inMessage : {{}},
          read : {FALSE}, from : {a, NullSender}]

MC_Config(status, sender, mailer, dir) ==
    [file : status, from : sender, smtp : mailer, queue : dir]
MC_Configs ==
    MC_Config({"none", "notFound", "invalid", "noSection", "noLogConfig",
               "badLogConfig", "noLogDir", "contradiction"},
              {None}, {"ok"}, {FALSE})
    \cup MC_Config({"ok"}, {None, b}, {"ok"}, BOOLEAN)
    \cup MC_Config({"ok"}, {b}, {"noHost", "bad"}, {TRUE})

\* Everything or nothing is there; one header is missing or empty.
MC_All(values) == [h \in Header |-> values]
MC_HeaderCases ==
    [headers : {MC_All(<<>>)}, wanted : {{}, Header}]
    \cup [headers : {MC_All(<<"own">>)}, wanted : {{}}]
    \cup [headers : {[MC_All(<<"own">>) EXCEPT !["To"] = <<"">>]}, wanted : {Header}]
    \cup [headers : {[MC_All(<<"own">>) EXCEPT !["Message-ID"] = <<"">>]},
          wanted : {{}, Header}]
=============================================================================
