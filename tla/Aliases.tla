------------------------------ MODULE Aliases ------------------------------
(***************************************************************************)
(* aliases_parser.py: which addresses the names given to a tool stand for. *)
(* lookup_adresses() works off a list of names and addresses, and          *)
(* _resolve_alias() calls itself for every name that is the target of      *)
(* another one; here the calls in progress are a stack of frames, the      *)
(* oldest one that of lookup_adresses().                                   *)
(***************************************************************************)
EXTENDS Naturals, Sequences

CONSTANTS Name,        \* what has no "@" in it
          Address,     \* what has one
          Files,       \* contents the file of --aliases may have
          SystemFiles, \* the same for /etc/aliases
          MaxDepth     \* how many calls Python nests

Target == Name \cup Address

\* A line that is understood; the others (comments, no colon) are left out.
Line == [alias : Name, targets : Seq(Target)]

ASSUME AliasAssumption ==
    /\ Name \cap Address = {}
    /\ Files \cup SystemFiles \subseteq Seq(Line)
    /\ MaxDepth \in Nat \ {0}

VARIABLES given,   \* the file of --aliases, <<>> without one
          system,  \* /etc/aliases, <<>> if there is none
          start,   \* what is looked up
          stack,   \* the calls in progress
          seen,    \* what they have looked at (history)
          failed   \* RecursionError

aliasVars == <<given, system, start, stack, seen, failed>>

Elements(s) == {s[i] : i \in DOMAIN s}

Frame(todo) == [todo |-> todo, found |-> <<>>]

LookupInit ==
    /\ given \in Files
    /\ system \in SystemFiles
    /\ start = <<>>
    /\ stack = <<>>
    /\ seen = {}
    /\ failed = FALSE

-----------------------------------------------------------------------------
\* _parse_aliases(): of two lines for the same alias the later one counts.
Defines(file, n, i) == i \in DOMAIN file /\ file[i].alias = n
ParseAliases(file) ==
    [n \in {line.alias : line \in Elements(file)} |->
        file[CHOOSE i \in DOMAIN file :
               /\ Defines(file, n, i)
               /\ \A j \in DOMAIN file : Defines(file, n, j) => j <= i].targets]

\* _load_aliases(): an empty table is like none.
Table == ParseAliases(IF given # <<>> THEN given ELSE system)

Top == stack[Len(stack)]
Working == stack # <<>> /\ Top.todo # <<>>
Item == Head(Top.todo)

\* The topmost call goes on to its next target, with this result so far.
Proceed(found) == [stack EXCEPT ![Len(stack)] =
                     [todo |-> Tail(Top.todo), found |-> found]]

\* lookup_adresses() is called with the names and addresses in s.
Begin(s) ==
    /\ stack = <<>>
    /\ start' = s
    /\ stack' = <<Frame(s)>>
    /\ seen' = {}
    /\ failed' = FALSE
    /\ UNCHANGED <<given, system>>

\* Mutant: _extend() does not look what is in the list.
AddAddressAgain ==
    /\ Working
    /\ Item \in Address
    /\ stack' = Proceed(Append(Top.found, Item))
    /\ seen' = seen \cup {Item}
    /\ UNCHANGED <<given, system, start, failed>>

\* _extend() with one address.
AddAddress ==
    /\ Working
    /\ Item \in Address
    /\ stack' = Proceed(IF Item \in Elements(Top.found)
                          THEN Top.found ELSE Append(Top.found, Item))
    /\ seen' = seen \cup {Item}
    /\ UNCHANGED <<given, system, start, failed>>

\* A name nobody has defined stands for nothing.
SkipName ==
    /\ Working
    /\ Item \in Name \ DOMAIN Table
    /\ stack' = Proceed(Top.found)
    /\ seen' = seen \cup {Item}
    /\ UNCHANGED <<given, system, start, failed>>

\* _resolve_alias(Item, aliases)
Resolve ==
    /\ Working
    /\ Item \in DOMAIN Table
    /\ Len(stack) < MaxDepth
    /\ stack' = Append(Proceed(Top.found), Frame(Table[Item]))
    /\ seen' = seen \cup {Item}
    /\ UNCHANGED <<given, system, start, failed>>

\* Mutant: the exception is caught, and the lookup tried once more.
TooDeepRestarts ==
    /\ Working
    /\ Item \in DOMAIN Table
    /\ Len(stack) = MaxDepth
    /\ stack' = <<Frame(start)>>
    /\ UNCHANGED <<given, system, start, seen, failed>>

\* Mutant: the last call that is possible is too many.
TooDeepSoon ==
    /\ Working
    /\ Item \in DOMAIN Table
    /\ Len(stack) >= MaxDepth - 1
    /\ stack' = <<>>
    /\ failed' = TRUE
    /\ UNCHANGED <<given, system, start, seen>>

\* The call after MaxDepth ones raises.
TooDeep ==
    /\ Working
    /\ Item \in DOMAIN Table
    /\ Len(stack) = MaxDepth
    /\ stack' = <<>>
    /\ failed' = TRUE
    /\ UNCHANGED <<given, system, start, seen>>

\* _resolve_alias() returns.  Its caller takes the addresses over with
\* _extend(), one by one, as it does with those it reads in the table.
Return ==
    /\ Len(stack) > 1
    /\ Top.todo = <<>>
    /\ LET caller == stack[Len(stack) - 1]
       IN stack' = [SubSeq(stack, 1, Len(stack) - 1) EXCEPT ![Len(stack) - 1] =
                      [todo |-> Top.found \o caller.todo, found |-> caller.found]]
    /\ UNCHANGED <<given, system, start, seen, failed>>

\* lookup_adresses() has its result.
Finished == Len(stack) = 1 /\ Top.todo = <<>>
Result == Top.found

\* Its caller has taken it.
End ==
    /\ Finished
    /\ stack' = <<>>
    /\ UNCHANGED <<given, system, start, seen, failed>>

Lookup == AddAddress \/ SkipName \/ Resolve \/ TooDeep \/ Return

LookupSpec ==
    LookupInit /\ [][Lookup \/ End \/ \E s \in Seq(Target) : Begin(s)]_aliasVars

-----------------------------------------------------------------------------
(* Properties *)

\* What the names in T stand for: the least set that has T in it and, with
\* every alias, its targets.
Closed(table, S) ==
    \A n \in S \cap DOMAIN table : Elements(table[n]) \subseteq S
Reachable(T) ==
    LET table == Table
        closed == {S \in SUBSET Target : T \subseteq S /\ Closed(table, S)}
    IN {t \in Target : \A S \in closed : t \in S}

\* The lookup finds every address the names stand for, through whatever
\* aliases of aliases, no other one, and none of them twice.
LookupComplete ==
    Finished =>
      /\ Elements(Result) = Reachable(Elements(start)) \cap Address
      /\ \A i, j \in DOMAIN Result : Result[i] = Result[j] => i = j

\* A lookup gives up only if an alias stands for itself: no table without a
\* cycle is too deep for it, however its aliases share targets.
GivesUpOnlyOnCycle ==
    failed => \E n \in Reachable(Elements(start)) \cap DOMAIN Table :
                n \in Reachable(Elements(Table[n]))
=============================================================================
