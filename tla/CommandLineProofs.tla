------------------------- MODULE CommandLineProofs -------------------------
(***************************************************************************)
(* What holds of CommandLine for any aliases files, calls, settings and    *)
(* bounds: the lookup finds exactly the addresses that are meant, the exit *)
(* code is true, the metadata in the queue tell the message's history.     *)
(***************************************************************************)
EXTENDS CommandLine, SequenceTheorems, FiniteSetTheorems, WellFoundedInduction, TLAPS

-----------------------------------------------------------------------------
(* Elements of sequences *)

\* What head, tail and append do to the elements of a sequence.
LEMMA ElementsOf ==
  /\ Elements(<<>>) = {}
  /\ \A S : \A s \in Seq(S) : Elements(s) \subseteq S
  /\ \A S : \A s \in Seq(S), x \in S :
       Append(s, x) \in Seq(S) /\ Elements(Append(s, x)) = Elements(s) \cup {x}
  /\ \A S : \A s \in Seq(S) : s # <<>> =>
       /\ Head(s) \in S /\ Tail(s) \in Seq(S)
       /\ Elements(s) = {Head(s)} \cup Elements(Tail(s))
  /\ \A S : \A s, t \in Seq(S) :
       s \o t \in Seq(S) /\ Elements(s \o t) = Elements(s) \cup Elements(t)
<1>1. Elements(<<>>) = {}
  BY DEF Elements
<1>2. ASSUME NEW S, NEW s \in Seq(S)
      PROVE  Elements(s) \subseteq S
  BY <1>2 DEF Elements
<1>3. ASSUME NEW S, NEW s \in Seq(S), NEW x \in S
      PROVE  Append(s, x) \in Seq(S) /\ Elements(Append(s, x)) = Elements(s) \cup {x}
  <2>1. /\ Append(s, x) \in Seq(S)
        /\ DOMAIN Append(s, x) = 1 .. Len(s) + 1
        /\ DOMAIN s = 1 .. Len(s) /\ Len(s) \in Nat
        /\ \A i \in 1 .. Len(s) : Append(s, x)[i] = s[i]
        /\ Append(s, x)[Len(s) + 1] = x
    BY <1>3
  <2> QED
    BY <2>1 DEF Elements
<1>4. ASSUME NEW S, NEW s \in Seq(S), s # <<>>
      PROVE  /\ Head(s) \in S /\ Tail(s) \in Seq(S)
             /\ Elements(s) = {Head(s)} \cup Elements(Tail(s))
  <2>1. /\ Head(s) \in S /\ Tail(s) \in Seq(S)
        /\ DOMAIN s = 1 .. Len(s) /\ Len(s) \in Nat /\ Len(s) > 0
        /\ Head(s) = s[1]
        /\ DOMAIN Tail(s) = 1 .. Len(s) - 1
        /\ \A i \in 1 .. Len(s) - 1 : Tail(s)[i] = s[i + 1]
    BY <1>4, HeadTailProperties
  <2>2. ASSUME NEW i \in 1 .. Len(s)
        PROVE  s[i] \in {Head(s)} \cup Elements(Tail(s))
    <3>1. CASE i = 1
      BY <2>1, <3>1
    <3>2. CASE i # 1
      <4>1. i - 1 \in 1 .. Len(s) - 1 /\ (i - 1) + 1 = i
        BY <2>1, <3>2
      <4>2. i - 1 \in DOMAIN Tail(s) /\ s[i] = Tail(s)[i - 1]
        BY <2>1, <4>1
      <4> QED
        BY <4>2 DEF Elements
    <3> QED
      BY <3>1, <3>2
  <2>3. \A i \in DOMAIN Tail(s) : i + 1 \in DOMAIN s /\ Tail(s)[i] = s[i + 1]
    BY <2>1
  <2>4. 1 \in DOMAIN s
    BY <2>1
  <2>5. Elements(s) \subseteq {Head(s)} \cup Elements(Tail(s))
    BY <2>1, <2>2 DEF Elements
  <2>6. Head(s) \in Elements(s)
    BY <2>1, <2>4 DEF Elements
  <2>7. Elements(Tail(s)) \subseteq Elements(s)
    BY <2>3 DEF Elements
  <2> QED
    BY <2>1, <2>5, <2>6, <2>7
<1>5. ASSUME NEW S, NEW s \in Seq(S), NEW t \in Seq(S)
      PROVE  s \o t \in Seq(S) /\ Elements(s \o t) = Elements(s) \cup Elements(t)
  <2>1. /\ s \o t \in Seq(S)
        /\ DOMAIN (s \o t) = 1 .. Len(s) + Len(t)
        /\ DOMAIN s = 1 .. Len(s) /\ Len(s) \in Nat
        /\ DOMAIN t = 1 .. Len(t) /\ Len(t) \in Nat
        /\ \A i \in 1 .. Len(s) : (s \o t)[i] = s[i]
        /\ \A i \in 1 .. Len(t) : (s \o t)[Len(s) + i] = t[i]
    BY <1>5, ConcatProperties
  <2>2. ASSUME NEW i \in DOMAIN (s \o t)
        PROVE  (s \o t)[i] \in Elements(s) \cup Elements(t)
    <3>1. CASE i \in 1 .. Len(s)
      BY <2>1, <3>1 DEF Elements
    <3>2. CASE i \notin 1 .. Len(s)
      <4>1. i - Len(s) \in 1 .. Len(t) /\ Len(s) + (i - Len(s)) = i
        BY <2>1, <3>2
      <4>2. (s \o t)[i] = t[i - Len(s)]
        BY <2>1, <4>1
      <4> QED
        BY <2>1, <4>1, <4>2 DEF Elements
    <3> QED
      BY <3>1, <3>2
  <2>3. \A i \in DOMAIN s : i \in DOMAIN (s \o t) /\ (s \o t)[i] = s[i]
    BY <2>1
  <2>4. \A i \in DOMAIN t : Len(s) + i \in DOMAIN (s \o t) /\ (s \o t)[Len(s) + i] = t[i]
    BY <2>1
  <2>5. Elements(s \o t) \subseteq Elements(s) \cup Elements(t)
    BY <2>2 DEF Elements
  <2>6. Elements(s) \subseteq Elements(s \o t)
    BY <2>3 DEF Elements
  <2>7. Elements(t) \subseteq Elements(s \o t)
    BY <2>4 DEF Elements
  <2> QED
    BY <2>1, <2>5, <2>6, <2>7
<1> QED
  BY <1>1, <1>2, <1>3, <1>4, <1>5

\* The later of the lines for an alias exists.
LEMMA LastLine ==
  ASSUME NEW lines \in Seq(Line), NEW n \in {line.alias : line \in Elements(lines)}
  PROVE  \E i \in DOMAIN lines :
           /\ Defines(lines, n, i)
           /\ \A j \in DOMAIN lines : Defines(lines, n, j) => j <= i
<1>1. DOMAIN lines = 1 .. Len(lines) /\ Len(lines) \in Nat
  OBVIOUS
<1> DEFINE T == {Len(lines) - i : i \in {i \in DOMAIN lines : Defines(lines, n, i)}}
<1>2. T \subseteq Nat /\ T # {}
  <2>1. PICK k \in DOMAIN lines : lines[k].alias = n
    BY DEF Elements
  <2>2. Len(lines) - k \in T
    BY <2>1 DEF Defines
  <2> QED
    BY <1>1, <2>2
<1>3. PICK x \in T : \A y \in T : ~(<<y, x>> \in OpToRel(<, Nat))
  BY <1>2, NatLessThanWellFounded, WFMin
<1>4. PICK i \in DOMAIN lines : Defines(lines, n, i) /\ x = Len(lines) - i
  BY <1>3
<1>5. ASSUME NEW j \in DOMAIN lines, Defines(lines, n, j)
      PROVE  j <= i
  <2>1. Len(lines) - j \in T
    BY <1>5
  <2>2. ~(<<Len(lines) - j, Len(lines) - i>> \in OpToRel(<, Nat))
    BY <1>3, <1>4, <2>1
  <2>3. Len(lines) - j \in Nat /\ Len(lines) - i \in Nat
    BY <1>1, <1>4
  <2>4. ~(Len(lines) - j < Len(lines) - i)
    BY <2>2, <2>3 DEF OpToRel
  <2> QED
    BY <1>1, <2>4
<1> QED
  BY <1>4, <1>5

\* An aliases file gives every alias in it a sequence of targets.
LEMMA ParsedAliases ==
  ASSUME NEW lines \in Seq(Line)
  PROVE  /\ DOMAIN ParseAliases(lines) \subseteq Name
         /\ \A n \in DOMAIN ParseAliases(lines) : ParseAliases(lines)[n] \in Seq(Target)
<1>1. \A i \in DOMAIN lines : lines[i] \in Line
  OBVIOUS
<1>2. DOMAIN ParseAliases(lines) = {line.alias : line \in Elements(lines)}
  BY DEF ParseAliases
<1>3. DOMAIN ParseAliases(lines) \subseteq Name
  BY <1>1, <1>2 DEF Elements, Line
<1>4. ASSUME NEW n \in DOMAIN ParseAliases(lines)
      PROVE  ParseAliases(lines)[n] \in Seq(Target)
  <2>1. \E i \in DOMAIN lines :
           /\ Defines(lines, n, i)
           /\ \A j \in DOMAIN lines : Defines(lines, n, j) => j <= i
    BY <1>2, <1>4, LastLine
  <2>2. PICK i \in DOMAIN lines : ParseAliases(lines)[n] = lines[i].targets
    BY <1>2, <1>4, <2>1 DEF ParseAliases
  <2> QED
    BY <1>1, <2>2 DEF Line
<1> QED
  BY <1>3, <1>4

-----------------------------------------------------------------------------
(* The calls in progress *)

Frames == [todo : Seq(Target), found : Seq(Address)]

\* What the calls still have to look at, and what they have found.
Todo(st) == {t \in Target : \E i \in DOMAIN st : t \in Elements(st[i].todo)}
Found(st) == {t \in Address : \E i \in DOMAIN st : t \in Elements(st[i].found)}

Distinct(s) == \A i, j \in DOMAIN s : s[i] = s[j] => i = j

LookupType ==
    /\ given \in Seq(Line) /\ system \in Seq(Line)
    /\ start \in Seq(Target)
    /\ stack \in Seq(Frames)
    /\ seen \subseteq Target

\* Nothing is forgotten: what has not been looked at is still to come.
Covered ==
    stack # <<>> =>
      /\ Elements(start) \subseteq seen \cup Todo(stack)
      /\ \A n \in seen \cap DOMAIN Table : Elements(Table[n]) \subseteq seen \cup Todo(stack)
      /\ seen \cap Address \subseteq Found(stack) \cup Todo(stack)

\* Nothing is made up: all of it is in every closed set.
Sound ==
    stack # <<>> =>
      \A S \in SUBSET Target : Elements(start) \subseteq S /\ Closed(Table, S) =>
        Todo(stack) \subseteq S /\ Found(stack) \subseteq S

NoRepeats == \A i \in DOMAIN stack : Distinct(stack[i].found)

LookupInv == LookupType /\ Covered /\ Sound /\ NoRepeats

\* The aliases in force are sequences of targets, by name.
LEMMA TableType ==
  ASSUME LookupType
  PROVE  /\ DOMAIN Table \subseteq Name
         /\ \A n \in DOMAIN Table : Table[n] \in Seq(Target)
<1>1. (IF given # <<>> THEN given ELSE system) \in Seq(Line)
  BY DEF LookupType
<1> QED
  BY <1>1, ParsedAliases DEF Table

\* Going on to the next target takes one off what is to do, and adds to what
\* was found.
LEMMA ProceedStack ==
  ASSUME stack \in Seq(Frames), Working, NEW found \in Seq(Address),
         Elements(Top.found) \subseteq Elements(found)
  PROVE  /\ Proceed(found) \in Seq(Frames) /\ Proceed(found) # <<>>
         /\ Len(Proceed(found)) = Len(stack) /\ DOMAIN Proceed(found) = DOMAIN stack
         /\ Item \in Todo(stack)
         /\ Todo(Proceed(found)) \subseteq Todo(stack)
         /\ Todo(stack) \subseteq Todo(Proceed(found)) \cup {Item}
         /\ Found(stack) \subseteq Found(Proceed(found))
         /\ Found(Proceed(found)) \subseteq Found(stack) \cup Elements(found)
         /\ Elements(found) \subseteq Found(Proceed(found))
<1> DEFINE n == Len(stack)  st == Proceed(found)
<1>1. n \in DOMAIN stack /\ stack[n] \in Frames /\ DOMAIN stack = 1 .. n /\ n \in Nat
  BY DEF Working
<1>2. /\ Top = stack[n] /\ Top.todo \in Seq(Target) /\ Top.todo # <<>>
      /\ Top.found \in Seq(Address)
  BY <1>1 DEF Top, Working, Frames
<1>3. /\ Item \in Target /\ Tail(Top.todo) \in Seq(Target)
      /\ Elements(Top.todo) = {Item} \cup Elements(Tail(Top.todo))
  BY <1>2, ElementsOf DEF Item
<1>4. [todo |-> Tail(Top.todo), found |-> found] \in Frames
  BY <1>3 DEF Frames
<1>5. /\ st \in Seq(Frames) /\ Len(st) = n /\ DOMAIN st = DOMAIN stack
      /\ st[n] = [todo |-> Tail(Top.todo), found |-> found]
      /\ \A i \in DOMAIN stack : i # n => st[i] = stack[i]
  BY <1>1, <1>4, ExceptSeq DEF Proceed
<1>6. st # <<>>
  BY <1>1, <1>5
<1>7. Item \in Todo(stack)
  BY <1>1, <1>2, <1>3 DEF Todo
<1>8. \A i \in DOMAIN stack :
        /\ Elements(st[i].todo) \subseteq Elements(stack[i].todo)
        /\ Elements(stack[i].todo) \subseteq Elements(st[i].todo) \cup {Item}
  <2>1. st[n].todo = Tail(Top.todo)
    BY <1>5
  <2>2. ASSUME NEW i \in DOMAIN stack, i = n
        PROVE  /\ Elements(st[i].todo) \subseteq Elements(stack[i].todo)
               /\ Elements(stack[i].todo) \subseteq Elements(st[i].todo) \cup {Item}
    BY <1>2, <1>3, <2>1, <2>2
  <2>3. ASSUME NEW i \in DOMAIN stack, i # n
        PROVE  st[i] = stack[i]
    BY <1>5, <2>3
  <2> QED
    BY <2>2, <2>3
<1>10. \A i \in DOMAIN stack : Elements(stack[i].found) \subseteq Elements(st[i].found)
  BY <1>1, <1>2, <1>5
<1>11. \A i \in DOMAIN stack :
         Elements(st[i].found) \subseteq Elements(stack[i].found) \cup Elements(found)
  BY <1>1, <1>2, <1>5
<1>12. Elements(found) \subseteq Address
  BY ElementsOf
<1>13. Elements(found) \subseteq Found(st)
  BY <1>1, <1>5, <1>12 DEF Found
<1>14. Todo(st) \subseteq Todo(stack) /\ Todo(stack) \subseteq Todo(st) \cup {Item}
  BY <1>5, <1>8 DEF Todo
<1>15. Found(stack) \subseteq Found(st) /\ Found(st) \subseteq Found(stack) \cup Elements(found)
  BY <1>5, <1>10, <1>11 DEF Found
<1> QED
  BY <1>5, <1>6, <1>7, <1>13, <1>14, <1>15

\* An alias that is begun has its targets to do, and has found nothing.
LEMMA PushStack ==
  ASSUME NEW st \in Seq(Frames), NEW ts \in Seq(Target)
  PROVE  /\ Append(st, Frame(ts)) \in Seq(Frames) /\ Append(st, Frame(ts)) # <<>>
         /\ Todo(Append(st, Frame(ts))) = Todo(st) \cup Elements(ts)
         /\ Found(Append(st, Frame(ts))) = Found(st)
         /\ (\A i \in DOMAIN st : Distinct(st[i].found)) =>
              \A i \in DOMAIN Append(st, Frame(ts)) : Distinct(Append(st, Frame(ts))[i].found)
<1> DEFINE n == Len(st)  new == Append(st, Frame(ts))
<1>1. Frame(ts) \in Frames /\ Frame(ts).todo = ts /\ Frame(ts).found = <<>>
  BY DEF Frame, Frames
<1>2. /\ new \in Seq(Frames) /\ new # <<>>
      /\ DOMAIN st = 1 .. n /\ n \in Nat /\ DOMAIN new = 1 .. n + 1
      /\ \A i \in 1 .. n : new[i] = st[i]
      /\ new[n + 1] = Frame(ts)
  BY <1>1
<1>3. \A i \in DOMAIN new : i \in DOMAIN st \/ i = n + 1
  BY <1>2
<1>4. Elements(ts) \subseteq Target
  BY ElementsOf
<1>5. Todo(new) = Todo(st) \cup Elements(ts)
  <2>1. Todo(new) \subseteq Todo(st) \cup Elements(ts)
    BY <1>1, <1>2, <1>3 DEF Todo
  <2>2. Todo(st) \subseteq Todo(new)
    BY <1>2 DEF Todo
  <2>3. n + 1 \in DOMAIN new /\ new[n + 1].todo = ts
    BY <1>1, <1>2
  <2>4. Elements(ts) \subseteq Todo(new)
    BY <1>4, <2>3 DEF Todo
  <2> QED
    BY <2>1, <2>2, <2>4
<1>6. Found(new) = Found(st)
  <2>1. Elements(<<>>) = {}
    BY ElementsOf
  <2>2. Found(new) \subseteq Found(st)
    BY <1>1, <1>2, <1>3, <2>1 DEF Found
  <2>3. Found(st) \subseteq Found(new)
    BY <1>2 DEF Found
  <2> QED
    BY <2>2, <2>3
<1>7. Distinct(<<>>)
  BY DEF Distinct
<1> QED
  BY <1>1, <1>2, <1>3, <1>5, <1>6, <1>7

\* What an alias has found goes to the one it was a target of, each address
\* once.
LEMMA ReturnStack ==
  ASSUME stack \in Seq(Frames), Return
  PROVE  /\ stack' \in Seq(Frames) /\ stack' # <<>>
         /\ Todo(stack') = Todo(stack) \cup Elements(Top.found)
         /\ Elements(Top.found) \subseteq Found(stack)
         /\ Found(stack') \subseteq Found(stack)
         /\ Found(stack) \subseteq Found(stack') \cup Elements(Top.found)
         /\ NoRepeats => NoRepeats'
<1> DEFINE n == Len(stack)  caller == stack[n - 1]  below == SubSeq(stack, 1, n - 1)
           frame == [todo |-> Top.found \o caller.todo, found |-> caller.found]
<1>1. /\ n \in Nat /\ n > 1 /\ DOMAIN stack = 1 .. n
      /\ n \in DOMAIN stack /\ n - 1 \in DOMAIN stack /\ n - 1 \in 1 .. n - 1
      /\ stack[n] \in Frames /\ caller \in Frames
  BY DEF Return
<1>2. /\ Top = stack[n] /\ Top.todo = <<>> /\ Top.found \in Seq(Address)
      /\ caller.todo \in Seq(Target) /\ caller.found \in Seq(Address)
  BY <1>1 DEF Top, Return, Frames
<1>3. Top.found \in Seq(Target) /\ Elements(Top.found) \subseteq Address
  BY <1>2, ElementsOf, SeqMonotonic DEF Target
<1>4. /\ Top.found \o caller.todo \in Seq(Target)
      /\ Elements(Top.found \o caller.todo) = Elements(Top.found) \cup Elements(caller.todo)
  BY <1>2, <1>3, ElementsOf
<1>5. /\ below \in Seq(Frames) /\ Len(below) = n - 1 /\ DOMAIN below = 1 .. n - 1
      /\ \A i \in 1 .. n - 1 : below[i] = stack[i]
  BY <1>1, SubSeqProperties
<1>6. frame \in Frames /\ frame.todo = Top.found \o caller.todo /\ frame.found = caller.found
  BY <1>2, <1>4 DEF Frames
<1>7. stack' = [below EXCEPT ![n - 1] = frame]
  BY DEF Return
<1>8. /\ stack' \in Seq(Frames) /\ Len(stack') = n - 1 /\ DOMAIN stack' = 1 .. n - 1
      /\ stack'[n - 1] = frame
      /\ \A i \in 1 .. n - 1 : i # n - 1 => stack'[i] = stack[i]
  <2> HIDE DEF frame, below, caller
  <2>1. n - 1 \in 1 .. Len(below)
    BY <1>1, <1>5
  <2>2. /\ stack' \in Seq(Frames) /\ Len(stack') = Len(below)
        /\ \A i \in 1 .. Len(below) :
             stack'[i] = IF i = n - 1 THEN frame ELSE below[i]
    BY <1>5, <1>6, <1>7, <2>1, ExceptSeq
  <2>3. DOMAIN stack' = 1 .. Len(stack')
    BY <2>2
  <2> QED
    BY <1>1, <1>5, <2>2, <2>3
<1>20. /\ DOMAIN stack' = 1 .. n - 1 /\ 1 \in 1 .. n - 1
       /\ \A i \in 1 .. n - 1 : i \in DOMAIN stack
  <2>1. DOMAIN stack' = 1 .. n - 1
    BY <1>8
  <2>2. 1 \in 1 .. n - 1 /\ \A i \in 1 .. n - 1 : i \in DOMAIN stack
    BY <1>1
  <2> QED
    BY <2>1, <2>2
<1>9. stack' # <<>>
  BY <1>20
<1>10. ASSUME NEW i \in 1 .. n - 1
       PROVE  /\ stack'[i].found = stack[i].found
              /\ Elements(stack'[i].todo) \subseteq Elements(stack[i].todo) \cup Elements(Top.found)
              /\ Elements(stack[i].todo) \subseteq Elements(stack'[i].todo)
  <2>1. CASE i = n - 1
    BY <1>4, <1>6, <1>8, <2>1
  <2>2. CASE i # n - 1
    BY <1>8, <2>2
  <2> QED
    BY <2>1, <2>2
<1>11. \A i \in DOMAIN stack : i \in 1 .. n - 1 \/ i = n
  BY <1>1
<1>12. Elements(Top.todo) = {}
  BY <1>2, ElementsOf
<1>13. Elements(Top.found) \subseteq Found(stack)
  BY <1>1, <1>2, <1>3 DEF Found
<1>14. Todo(stack') \subseteq Todo(stack) \cup Elements(Top.found)
  BY <1>10, <1>20 DEF Todo
<1>15. Todo(stack) \subseteq Todo(stack')
  <2>1. ASSUME NEW t \in Todo(stack)
        PROVE  \E i \in 1 .. n - 1 : t \in Elements(stack[i].todo)
    BY <1>2, <1>11, <1>12 DEF Todo
  <2> QED
    BY <1>8, <1>10, <2>1 DEF Todo
<1>16. Elements(Top.found) \subseteq Todo(stack')
  <2>1. n - 1 \in DOMAIN stack' /\ Elements(Top.found) \subseteq Elements(stack'[n - 1].todo)
    BY <1>1, <1>4, <1>6, <1>8
  <2> QED
    BY <1>3, <2>1 DEF Todo, Target
<1>17. Found(stack') \subseteq Found(stack)
  <2>1. \A i \in DOMAIN stack' : i \in 1 .. n - 1 /\ i \in DOMAIN stack
    BY <1>20
  <2>2. \A i \in DOMAIN stack' : Elements(stack'[i].found) = Elements(stack[i].found)
    BY <1>10, <2>1
  <2> QED
    BY <2>1, <2>2 DEF Found
<1>18. Found(stack) \subseteq Found(stack') \cup Elements(Top.found)
  BY <1>2, <1>8, <1>10, <1>11 DEF Found
<1>19. NoRepeats => NoRepeats'
  <2>1. \A i \in DOMAIN stack' : i \in DOMAIN stack /\ stack'[i].found = stack[i].found
    BY <1>10, <1>20
  <2> QED
    BY <2>1 DEF NoRepeats
<1> QED
  BY <1>8, <1>9, <1>13, <1>14, <1>15, <1>16, <1>17, <1>18, <1>19

-----------------------------------------------------------------------------
(* The invariant of the lookup *)

\* A lookup that has not begun has nothing to answer for.
LEMMA LookupStarts == LookupInit => LookupInv
<1> SUFFICES ASSUME LookupInit PROVE LookupInv
  OBVIOUS
<1>1. given \in Seq(Line) /\ system \in Seq(Line)
  BY AliasAssumption DEF LookupInit
<1>2. stack = <<>> /\ start = <<>> /\ seen = {}
  BY DEF LookupInit
<1> QED
  BY <1>1, <1>2 DEF LookupInv, LookupType, Covered, Sound, NoRepeats

\* Each step of a lookup keeps the invariant: its beginning,
LEMMA BeginKeeps ==
  ASSUME LookupInv, NEW s \in Seq(Target), Begin(s)
  PROVE  LookupInv'
<1>1. /\ stack' = Append(<<>>, Frame(s)) /\ start' = s /\ seen' = {}
      /\ given' = given /\ system' = system
  BY DEF Begin
<1>2. <<>> \in Seq(Frames)
  OBVIOUS
<1>3. Todo(<<>>) = {} /\ Found(<<>>) = {}
  BY DEF Todo, Found
<1> \A i \in DOMAIN <<>> : Distinct(<<>>[i].found)
  OBVIOUS
<1>4. /\ stack' \in Seq(Frames) /\ Todo(stack') = Elements(s) /\ Found(stack') = {}
      /\ \A i \in DOMAIN stack' : Distinct(stack'[i].found)
  BY <1>1, <1>2, <1>3, PushStack
<1> QED
  BY <1>1, <1>4 DEF LookupInv, LookupType, Covered, Sound, NoRepeats

\* A target that has been dealt with counts as seen.
LEMMA NextKeepsCovered ==
  ASSUME LookupType, Covered, Item \in Target,
         seen' = seen \cup {Item}, start' = start, Table' = Table, stack # <<>>,
         Todo(stack) \subseteq Todo(stack') \cup {Item},
         Found(stack) \subseteq Found(stack'),
         Item \in Address => Item \in Found(stack'),
         Item \in DOMAIN Table => Elements(Table[Item]) \subseteq Todo(stack')
  PROVE  Covered'
<1>1. Elements(start) \subseteq seen' \cup Todo(stack')
  BY DEF Covered
<1>2. \A n \in seen' \cap DOMAIN Table : Elements(Table[n]) \subseteq seen' \cup Todo(stack')
  BY DEF Covered
<1>3. seen' \cap Address \subseteq Found(stack') \cup Todo(stack')
  BY DEF Covered
<1> QED
  BY <1>1, <1>2, <1>3 DEF Covered

\* which leaves the aliases what they are,
LEMMA SameTable == given' = given /\ system' = system => Table' = Table
  BY DEF Table

\* a target that is an address,
LEMMA AddAddressKeeps ==
  ASSUME LookupInv, AddAddress
  PROVE  LookupInv'
<1> DEFINE old == Top.found
           found == IF Item \in Elements(old) THEN old ELSE Append(old, Item)
<1>1. /\ stack' = Proceed(found) /\ seen' = seen \cup {Item} /\ start' = start
      /\ given' = given /\ system' = system /\ Item \in Address /\ Working
  BY DEF AddAddress
<1>2. /\ stack \in Seq(Frames) /\ Len(stack) \in DOMAIN stack /\ stack # <<>>
      /\ Top = stack[Len(stack)] /\ old \in Seq(Address)
  <2>1. /\ stack \in Seq(Frames) /\ Len(stack) \in DOMAIN stack /\ stack # <<>>
        /\ stack[Len(stack)] \in Frames
    BY <1>1 DEF LookupInv, LookupType, Working
  <2> QED
    BY <2>1 DEF Top, Frames
<1>3. /\ found \in Seq(Address)
      /\ Elements(found) = Elements(old) \cup {Item}
  BY <1>1, <1>2, ElementsOf
<1>4. /\ stack' \in Seq(Frames) /\ stack' # <<>> /\ DOMAIN stack' = DOMAIN stack
      /\ Item \in Todo(stack) /\ Todo(stack') \subseteq Todo(stack)
      /\ Todo(stack) \subseteq Todo(stack') \cup {Item}
      /\ Found(stack) \subseteq Found(stack')
      /\ Found(stack') \subseteq Found(stack) \cup Elements(found)
      /\ Elements(found) \subseteq Found(stack')
  BY <1>1, <1>2, <1>3, ProceedStack
<1>5. Elements(old) \subseteq Found(stack)
  BY <1>2, ElementsOf DEF Found
<1>6. Table' = Table
  BY <1>1, SameTable
<1>7. Item \in Target /\ Item \notin DOMAIN Table
  BY <1>1, TableType, AliasAssumption DEF LookupInv, Target
<1>8. LookupType'
  BY <1>1, <1>4, <1>7 DEF LookupInv, LookupType
<1>9. Covered'
  BY <1>1, <1>2, <1>3, <1>4, <1>6, <1>7, NextKeepsCovered DEF LookupInv
<1>10. Sound'
  BY <1>1, <1>2, <1>3, <1>4, <1>5, <1>6 DEF LookupInv, Sound
<1>11. Distinct(found)
  <2>1. Distinct(old)
    BY <1>2 DEF LookupInv, NoRepeats
  <2>2. CASE Item \in Elements(old)
    BY <2>1, <2>2
  <2>3. CASE Item \notin Elements(old)
    <3>1. /\ found = Append(old, Item) /\ DOMAIN found = 1 .. Len(old) + 1
          /\ DOMAIN old = 1 .. Len(old) /\ Len(old) \in Nat
          /\ \A i \in 1 .. Len(old) : found[i] = old[i]
          /\ found[Len(old) + 1] = Item
      BY <1>1, <1>2, <2>3, AppendProperties
    <3>2. \A i \in 1 .. Len(old) : old[i] # Item
      BY <2>3, <3>1 DEF Elements
    <3>3. \A i \in DOMAIN found : i \in 1 .. Len(old) \/ i = Len(old) + 1
      BY <3>1
    <3> QED
      BY <2>1, <3>1, <3>2, <3>3 DEF Distinct
  <2> QED
    BY <2>2, <2>3
<1>12. NoRepeats'
  <2>1. ASSUME NEW i \in DOMAIN stack, i # Len(stack)
        PROVE  stack'[i] = stack[i]
    BY <1>1, <1>2, <2>1 DEF Proceed
  <2>2. stack'[Len(stack)].found = found
    BY <1>1, <1>2 DEF Proceed
  <2> QED
    BY <1>4, <1>11, <2>1, <2>2 DEF LookupInv, NoRepeats
<1> QED
  BY <1>8, <1>9, <1>10, <1>12 DEF LookupInv

\* a name nobody knows,
LEMMA SkipNameKeeps ==
  ASSUME LookupInv, SkipName
  PROVE  LookupInv'
<1>1. /\ stack' = Proceed(Top.found) /\ seen' = seen \cup {Item} /\ start' = start
      /\ given' = given /\ system' = system /\ Item \in Name \ DOMAIN Table /\ Working
  BY DEF SkipName
<1>2. /\ stack \in Seq(Frames) /\ Len(stack) \in DOMAIN stack /\ stack # <<>>
      /\ Top = stack[Len(stack)] /\ Top.found \in Seq(Address)
  <2>1. /\ stack \in Seq(Frames) /\ Len(stack) \in DOMAIN stack /\ stack # <<>>
        /\ stack[Len(stack)] \in Frames
    BY <1>1 DEF LookupInv, LookupType, Working
  <2> QED
    BY <2>1 DEF Top, Frames
<1>3. /\ stack' \in Seq(Frames) /\ stack' # <<>> /\ DOMAIN stack' = DOMAIN stack
      /\ Todo(stack') \subseteq Todo(stack)
      /\ Todo(stack) \subseteq Todo(stack') \cup {Item}
      /\ Found(stack) \subseteq Found(stack')
      /\ Found(stack') \subseteq Found(stack) \cup Elements(Top.found)
  BY <1>1, <1>2, ProceedStack
<1>4. Elements(Top.found) \subseteq Found(stack)
  BY <1>2, ElementsOf DEF Found
<1>5. Table' = Table
  BY <1>1, SameTable
<1>6. Item \in Target /\ Item \notin Address
  BY <1>1, AliasAssumption DEF Target
<1>7. LookupType'
  BY <1>1, <1>3, <1>6 DEF LookupInv, LookupType
<1>8. Covered'
  BY <1>1, <1>2, <1>3, <1>5, <1>6, NextKeepsCovered DEF LookupInv
<1>9. Sound'
  BY <1>1, <1>2, <1>3, <1>4, <1>5 DEF LookupInv, Sound
<1>10. NoRepeats'
  BY <1>1, <1>2, <1>3 DEF LookupInv, NoRepeats, Proceed
<1> QED
  BY <1>7, <1>8, <1>9, <1>10 DEF LookupInv

\* an alias,
LEMMA ResolveKeeps ==
  ASSUME LookupInv, Resolve
  PROVE  LookupInv'
<1> DEFINE st == Proceed(Top.found)
<1>1. /\ stack' = Append(st, Frame(Table[Item])) /\ seen' = seen \cup {Item}
      /\ start' = start /\ given' = given /\ system' = system
      /\ Item \in DOMAIN Table /\ Working
  BY DEF Resolve
<1>2. /\ stack \in Seq(Frames) /\ Len(stack) \in DOMAIN stack /\ stack # <<>>
      /\ Top = stack[Len(stack)] /\ Top.found \in Seq(Address)
  <2>1. /\ stack \in Seq(Frames) /\ Len(stack) \in DOMAIN stack /\ stack # <<>>
        /\ stack[Len(stack)] \in Frames
    BY <1>1 DEF LookupInv, LookupType, Working
  <2> QED
    BY <2>1 DEF Top, Frames
<1>3. /\ st \in Seq(Frames) /\ DOMAIN st = DOMAIN stack
      /\ Item \in Todo(stack) /\ Todo(st) \subseteq Todo(stack)
      /\ Todo(stack) \subseteq Todo(st) \cup {Item}
      /\ Found(stack) \subseteq Found(st)
      /\ Found(st) \subseteq Found(stack) \cup Elements(Top.found)
  BY <1>1, <1>2, ProceedStack
<1>4. Elements(Top.found) \subseteq Found(stack)
  BY <1>2, ElementsOf DEF Found
<1>5. /\ Table[Item] \in Seq(Target) /\ Item \in Target /\ Item \notin Address
  BY <1>1, TableType, AliasAssumption DEF LookupInv, Target
<1>6. \A i \in DOMAIN st : Distinct(st[i].found)
  BY <1>2, <1>3 DEF LookupInv, NoRepeats, Proceed
<1>7. /\ stack' \in Seq(Frames) /\ stack' # <<>>
      /\ Todo(stack') = Todo(st) \cup Elements(Table[Item])
      /\ Found(stack') = Found(st)
      /\ \A i \in DOMAIN stack' : Distinct(stack'[i].found)
  BY <1>1, <1>3, <1>5, <1>6, PushStack
<1>8. Table' = Table
  BY <1>1, SameTable
<1>9. LookupType'
  BY <1>1, <1>5, <1>7 DEF LookupInv, LookupType
<1>10. Covered'
  BY <1>1, <1>2, <1>3, <1>5, <1>7, <1>8, NextKeepsCovered DEF LookupInv
<1>11. ASSUME NEW S \in SUBSET Target, Elements(start) \subseteq S, Closed(Table, S)
       PROVE  Todo(stack') \subseteq S /\ Found(stack') \subseteq S
  <2>1. Todo(stack) \subseteq S /\ Found(stack) \subseteq S
    BY <1>2, <1>11 DEF LookupInv, Sound
  <2>2. Elements(Table[Item]) \subseteq S
    BY <1>1, <1>3, <1>11, <2>1 DEF Closed
  <2> QED
    BY <1>3, <1>4, <1>7, <2>1, <2>2
<1>12. Sound'
  BY <1>1, <1>8, <1>11 DEF Sound
<1>13. NoRepeats'
  BY <1>7 DEF NoRepeats
<1> QED
  BY <1>9, <1>10, <1>12, <1>13 DEF LookupInv

\* the end of an alias,
LEMMA ReturnKeeps ==
  ASSUME LookupInv, Return
  PROVE  LookupInv'
<1>1. /\ seen' = seen /\ start' = start /\ given' = given /\ system' = system
      /\ stack \in Seq(Frames) /\ stack # <<>>
  BY DEF Return, LookupInv, LookupType
<1>2. /\ stack' \in Seq(Frames) /\ stack' # <<>>
      /\ Todo(stack') = Todo(stack) \cup Elements(Top.found)
      /\ Elements(Top.found) \subseteq Found(stack)
      /\ Found(stack') \subseteq Found(stack)
      /\ Found(stack) \subseteq Found(stack') \cup Elements(Top.found)
      /\ NoRepeats => NoRepeats'
  BY <1>1, ReturnStack
<1>3. Table' = Table
  BY <1>1, SameTable
<1>4. LookupType'
  BY <1>1, <1>2 DEF LookupInv, LookupType
<1>5. Covered'
  BY <1>1, <1>2, <1>3 DEF LookupInv, Covered
<1>6. Sound'
  BY <1>1, <1>2, <1>3 DEF LookupInv, Sound
<1> QED
  BY <1>2, <1>4, <1>5, <1>6 DEF LookupInv

\* the end of the lookup, and Python's limit,
LEMMA EmptiedKeeps ==
  ASSUME LookupInv, stack' = <<>>, UNCHANGED <<given, system, start, seen>>
  PROVE  LookupInv'
BY DEF LookupInv, LookupType, Covered, Sound, NoRepeats

\* hence all of them.
LEMMA LookupKeeps ==
  ASSUME LookupInv, Lookup \/ End \/ (\E s \in Seq(Target) : Begin(s)) \/ UNCHANGED aliasVars
  PROVE  LookupInv'
<1>1. CASE TooDeep \/ End
  BY <1>1, EmptiedKeeps DEF TooDeep, End
<1>2. CASE UNCHANGED aliasVars
  <2>1. /\ stack' = stack /\ start' = start /\ seen' = seen
        /\ given' = given /\ system' = system
    BY <1>2 DEF aliasVars
  <2>2. Table' = Table
    BY <2>1, SameTable
  <2> QED
    BY <2>1, <2>2 DEF LookupInv, LookupType, Covered, Sound, NoRepeats
<1> QED
  BY <1>1, <1>2, AddAddressKeeps, SkipNameKeeps, ResolveKeeps, ReturnKeeps, BeginKeeps
     DEF Lookup

\* With nothing left to do the invariant says what was found.
LEMMA LookupInvImplies == LookupInv => LookupComplete
<1> SUFFICES ASSUME LookupInv, Finished PROVE
      /\ Elements(Result) = Reachable(Elements(start)) \cap Address
      /\ \A i, j \in DOMAIN Result : Result[i] = Result[j] => i = j
  BY DEF LookupComplete
<1>1. /\ stack \in Seq(Frames) /\ Len(stack) = 1 /\ DOMAIN stack = {1} /\ stack # <<>>
      /\ Top = stack[1] /\ Top.todo = <<>> /\ Result = stack[1].found
      /\ Result \in Seq(Address)
  <2>1. /\ stack \in Seq(Frames) /\ Len(stack) = 1 /\ DOMAIN stack = {1} /\ stack # <<>>
        /\ stack[1] \in Frames
    <3>1. stack \in Seq(Frames) /\ Len(stack) = 1
      BY DEF LookupInv, LookupType, Finished
    <3>2. DOMAIN stack = 1 .. 1 /\ 1 .. 1 = {1}
      BY <3>1
    <3>3. 1 \in DOMAIN stack /\ stack[1] \in Frames
      BY <3>1, <3>2
    <3> QED
      BY <3>1, <3>2, <3>3
  <2> QED
    BY <2>1 DEF Top, Result, Frames, Finished
<1>2. Elements(Result) \subseteq Address /\ Elements(<<>>) = {}
  BY <1>1, ElementsOf
<1>3. Todo(stack) = {} /\ Found(stack) = Elements(Result)
  BY <1>1, <1>2 DEF Todo, Found
<1>4. /\ Elements(start) \subseteq seen /\ Closed(Table, seen) /\ seen \in SUBSET Target
      /\ seen \cap Address \subseteq Elements(Result)
  BY <1>1, <1>3 DEF LookupInv, LookupType, Covered, Closed
<1>5. \A S \in SUBSET Target : Elements(start) \subseteq S /\ Closed(Table, S)
         => Elements(Result) \subseteq S
  BY <1>1, <1>3 DEF LookupInv, Sound
<1>6. Reachable(Elements(start)) \subseteq seen
  BY <1>4 DEF Reachable
<1>7. Elements(Result) \subseteq Reachable(Elements(start))
  BY <1>2, <1>5 DEF Reachable, Target
<1>8. Distinct(Result)
  BY <1>1 DEF LookupInv, NoRepeats
<1> QED
  BY <1>2, <1>4, <1>6, <1>7, <1>8 DEF Distinct

-----------------------------------------------------------------------------
(* The lookup inside the program *)

\* What the program asks the lookup to do.
LEMMA LookupStep ==
  ASSUME call \in Calls, [Next]_vars
  PROVE  /\ call' = call /\ given' = given /\ system' = system
         /\ Lookup \/ End \/ (\E s \in Seq(Target) : Begin(s)) \/ UNCHANGED aliasVars
<1> DEFINE Asked == Lookup \/ End \/ (\E s \in Seq(Target) : Begin(s)) \/ UNCHANGED aliasVars
<1>1. call \in Call
  BY CommandLineAssumption
<1>2. ASSUME LookupRecipients
      PROVE  \E s \in Seq(Target) : Begin(s)
  <2>1. PICK more \in Orders(InMessage) : Begin(call.recipients \o more)
    BY <1>2 DEF LookupRecipients
  <2>2. InMessage \subseteq Target /\ IsFiniteSet(InMessage)
    BY <1>1, CommandLineAssumption, FS_EmptySet DEF InMessage, Call
  <2>3. Cardinality(InMessage) \in Nat
    BY <2>2, FS_CardinalityType
  <2>4. more \in Seq(Target)
    BY <2>2, <2>3 DEF Orders
  <2>5. call.recipients \o more \in Seq(Target)
    BY <1>1, <2>4, ElementsOf DEF Call
  <2> QED
    BY <2>1, <2>5
<1>3. ASSUME LookupSender
      PROVE  \E s \in Seq(Target) : Begin(s)
  <2>1. Begin(<<call.from>>) /\ call.tool # "app" /\ call.from # None
    BY <1>3 DEF LookupSender, At
  <2>2. call.from \in Target
    BY <1>1, <2>1, CommandLineAssumption DEF Call
  <2>3. <<call.from>> \in Seq(Target)
    BY <2>2
  <2> QED
    BY <2>1, <2>3
<1>4. Asked
  <2>1. CASE LookingUp \/ GotRecipients \/ GotSender
    BY <2>1 DEF LookingUp, GotRecipients, GotSender
  <2>2. CASE LookupRecipients \/ LookupSender
    BY <1>2, <1>3, <2>2
  <2>3. CASE \/ Usage \/ NoAliasFile \/ TestRecipient \/ ReadConfig
             \/ DefaultSender \/ TestSender \/ AddHeaders \/ InitMailer
    BY <2>3 DEF Usage, NoAliasFile, TestRecipient, ReadConfig,
         DefaultSender, TestSender, AddHeaders, InitMailer
  <2>4. CASE \/ SendAccepted \/ SendRefused \/ SendReplyLost \/ SendRaises
             \/ AppCall \/ Enqueue \/ EnqueueRaises
    BY <2>4 DEF SendAccepted, SendRefused, SendReplyLost, SendRaises, AppCall,
         Enqueue, EnqueueRaises
  <2>5. CASE RunAccepted \/ RunFailed \/ Tick \/ UNCHANGED vars
    BY <2>5 DEF RunAccepted, RunFailed, Tick, vars
  <2> QED
    BY <2>1, <2>2, <2>3, <2>4, <2>5 DEF Next, Step
<1>5. call' = call
  <2>1. CASE \/ Usage \/ NoAliasFile \/ LookupRecipients \/ TestRecipient
             \/ LookingUp \/ GotRecipients
             \/ ReadConfig \/ LookupSender \/ GotSender \/ DefaultSender \/ TestSender
             \/ AddHeaders \/ InitMailer
    BY <2>1 DEF Usage, NoAliasFile, LookupRecipients, TestRecipient, LookingUp,
         GotRecipients, ReadConfig, LookupSender, GotSender, DefaultSender,
         TestSender, AddHeaders, InitMailer
  <2>2. CASE \/ SendAccepted \/ SendRefused \/ SendReplyLost \/ SendRaises
             \/ AppCall \/ Enqueue \/ EnqueueRaises
             \/ RunAccepted \/ RunFailed \/ Tick \/ UNCHANGED vars
    BY <2>2 DEF SendAccepted, SendRefused, SendReplyLost, SendRaises, AppCall,
         Enqueue, EnqueueRaises, RunAccepted, RunFailed, Tick, vars
  <2> QED
    BY <2>1, <2>2 DEF Next, Step
<1>6. given' = given /\ system' = system
  BY <1>4 DEF Lookup, AddAddress, SkipName, Resolve, TooDeep, Return, End, Begin, aliasVars
<1> QED
  BY <1>4, <1>5, <1>6

\* The lookup is right in every reachable state.
LEMMA LookupInvariant == Spec => [](LookupInv /\ call \in Calls)
<1>1. Init => LookupInv /\ call \in Calls
  BY LookupStarts DEF Init
<1>2. LookupInv /\ call \in Calls /\ [Next]_vars => (LookupInv /\ call \in Calls)'
  BY LookupStep, LookupKeeps
<1> QED
  BY <1>1, <1>2, PTL DEF Spec

\* Whatever aliases there are and whatever a tool looks up, the lookup returns
\* every address the names stand for, no other one and none twice
\* (aliases_parser.py, lookup_adresses()).
THEOREM LookupTheorem == Spec => []LookupComplete
<1>1. LookupInv /\ call \in Calls => LookupComplete
  BY LookupInvImplies
<1> QED
  BY <1>1, LookupInvariant, PTL

-----------------------------------------------------------------------------
(* The metadata *)

\* What is read back of what was written.
LEMMA SerializeParse ==
  ASSUME NEW sender, NEW recipients, NEW date \in Nat, NEW last \in Nat \cup {None},
         NEW retries \in Nat
  PROVE  LET msg == Parse(Serialize(sender, recipients, date, last, retries))
         IN /\ msg.date = Seconds(date)
            /\ msg.retries = retries
            /\ msg.last = IF last = None THEN None ELSE Seconds(last)
<1> DEFINE meta == Serialize(sender, recipients, date, last, retries)
<1>1. /\ DOMAIN meta = {"Return-path", "Envelope-to", "X-Queue-Date"}
             \cup {g \in {"X-Last-Attempt"} : last # None}
             \cup {g \in {"X-Retries"} : retries # 0}
      /\ meta["X-Queue-Date"] = Seconds(date)
  BY DEF Serialize
<1>2. last # None => "X-Last-Attempt" \in DOMAIN meta /\ meta["X-Last-Attempt"] = Seconds(last)
  BY DEF Serialize
<1>3. last = None => "X-Last-Attempt" \notin DOMAIN meta
  BY <1>1
<1>4. retries # 0 => "X-Retries" \in DOMAIN meta /\ meta["X-Retries"] = retries
  BY DEF Serialize
<1>5. retries = 0 => "X-Retries" \notin DOMAIN meta
  BY <1>1
<1> HIDE DEF meta
<1>6. Field(meta, "X-Last-Attempt", None) = IF last = None THEN None ELSE Seconds(last)
  BY <1>2, <1>3 DEF Field
<1>7. Field(meta, "X-Retries", 0) = retries
  BY <1>4, <1>5 DEF Field
<1>8. /\ Parse(meta).date = meta["X-Queue-Date"]
      /\ Parse(meta).last = Field(meta, "X-Last-Attempt", None)
      /\ Parse(meta).retries = Field(meta, "X-Retries", 0)
  BY DEF Parse
<1> QED
  BY <1>1, <1>6, <1>7, <1>8 DEF meta

\* A date that was read from a file is written as it is.
LEMMA SecondsOnce ==
  ASSUME NEW time \in Nat
  PROVE  Seconds(time) \in Nat /\ Seconds(Seconds(time)) = Seconds(time)
BY DEF Seconds

MetaInv ==
    /\ now \in Nat /\ queuedAt \in Nat /\ failures \in Seq(Nat)
    /\ pc # "exited" => file = <<>> /\ failures = <<>>
    /\ MetaKept

\* The steps that leave the file alone.
LEMMA MetaUnchanged ==
  ASSUME MetaInv, UNCHANGED queue, now' \in Nat, pc' = "exited" \/ pc # "exited"
  PROVE  MetaInv'
BY DEF MetaInv, MetaKept, queue

\* An attempt of mq-run that fails parses the file and writes it anew.
LEMMA RunFailedKeepsMeta ==
  ASSUME MetaInv, RunFailed
  PROVE  MetaInv'
<1> DEFINE msg == Parse(file)
<1>1. /\ pc = "exited" /\ pc' = pc /\ now' = now /\ queuedAt' = queuedAt /\ file # <<>>
      /\ file' = Serialize(msg.from, msg.to, msg.date, now, msg.retries + 1)
      /\ failures' = Append(failures, now)
  BY DEF RunFailed, Trying
<1>2. /\ msg.date = Seconds(queuedAt) /\ msg.retries = Len(failures)
      /\ now \in Nat /\ queuedAt \in Nat /\ failures \in Seq(Nat)
  BY <1>1 DEF MetaInv, MetaKept
<1>3. /\ msg.date \in Nat /\ Seconds(msg.date) = Seconds(queuedAt)
      /\ msg.retries + 1 \in Nat /\ now \in Nat \cup {None} /\ now # None
  BY <1>2, SecondsOnce, CommandLineAssumption
<1> HIDE DEF msg
<1>4. /\ Parse(file').date = Seconds(msg.date)
      /\ Parse(file').retries = msg.retries + 1
      /\ Parse(file').last = Seconds(now)
  BY <1>1, <1>3, SerializeParse
<1>5. /\ failures' \in Seq(Nat) /\ failures' # <<>>
      /\ Len(failures') = Len(failures) + 1 /\ failures'[Len(failures')] = now
  BY <1>1, <1>2
<1> QED
  BY <1>1, <1>2, <1>3, <1>4, <1>5 DEF MetaInv, MetaKept

\* The file tells the message's history after every step.
LEMMA MetaKeeps ==
  ASSUME MetaInv, [Next]_vars
  PROVE  MetaInv'
<1>1. CASE \/ Usage \/ NoAliasFile \/ LookupRecipients \/ TestRecipient
           \/ LookingUp \/ GotRecipients
           \/ ReadConfig \/ LookupSender \/ GotSender \/ DefaultSender \/ TestSender
           \/ AddHeaders \/ InitMailer
  <2>1. UNCHANGED <<queue, now>>
    BY <1>1 DEF Usage, NoAliasFile, LookupRecipients, TestRecipient, LookingUp,
         GotRecipients, ReadConfig, LookupSender, GotSender, DefaultSender,
         TestSender, AddHeaders, InitMailer
  <2>2. pc # "exited"
    BY <1>1 DEF Usage, NoAliasFile, LookupRecipients, TestRecipient, LookingUp,
         GotRecipients, ReadConfig, LookupSender, GotSender, DefaultSender,
         TestSender, AddHeaders, InitMailer, At
  <2> QED
    BY <2>1, <2>2, MetaUnchanged DEF MetaInv
<1>2. CASE SendAccepted \/ SendRefused \/ SendReplyLost \/ SendRaises \/ AppCall \/ EnqueueRaises
  <2>1. UNCHANGED <<queue, now>> /\ pc # "exited"
    BY <1>2 DEF SendAccepted, SendRefused, SendReplyLost, SendRaises, AppCall,
         EnqueueRaises, At
  <2> QED
    BY <2>1, MetaUnchanged DEF MetaInv
<1>3. CASE Enqueue
  <2>1. /\ pc = "enqueue" /\ pc' = "exited" /\ queuedAt' = now /\ now' = now
        /\ failures' = failures /\ file' = Serialize(from, to, now, None, 0)
    BY <1>3 DEF Enqueue, LogAndExit, Traceback, Exit
  <2>2. now \in Nat /\ failures = <<>> /\ failures \in Seq(Nat)
    BY <2>1 DEF MetaInv
  <2>3. /\ Parse(file').date = Seconds(now)
        /\ Parse(file').retries = 0
        /\ Parse(file').last = None
    <3> DEFINE never == None  none == 0
    <3>1. never \in Nat \cup {None} /\ none \in Nat
      OBVIOUS
    <3> HIDE DEF never, none
    <3>2. LET msg == Parse(Serialize(from, to, now, never, none))
          IN /\ msg.date = Seconds(now) /\ msg.retries = none
             /\ msg.last = IF never = None THEN None ELSE Seconds(never)
      BY <2>2, <3>1, SerializeParse
    <3> QED
      BY <2>1, <3>2 DEF never, none
  <2> QED
    BY <2>1, <2>2, <2>3 DEF MetaInv, MetaKept
<1>4. CASE RunAccepted
  BY <1>4 DEF RunAccepted, Trying, MetaInv, MetaKept
<1>5. CASE RunFailed
  BY <1>5, RunFailedKeepsMeta
<1>6. CASE Tick
  <2>1. UNCHANGED queue /\ now' = now + 1 /\ pc' = pc
    BY <1>6 DEF Tick
  <2> QED
    BY <2>1, MetaUnchanged DEF MetaInv
<1>7. CASE UNCHANGED vars
  BY <1>7, MetaUnchanged DEF vars, MetaInv
<1> QED
  BY <1>1, <1>2, <1>3, <1>4, <1>5, <1>6, <1>7 DEF Next, Step

\* It does so from the beginning.
LEMMA MetaInvariant == Spec => []MetaInv
<1>1. Init => MetaInv
  BY DEF Init, MetaInv, MetaKept
<1>2. MetaInv /\ [Next]_vars => MetaInv'
  BY MetaKeeps
<1> QED
  BY <1>1, <1>2, PTL DEF Spec

\* However often mq-run rewrites the file, it says when the message was
\* queued, how often it was tried and when last (message_utils.py, queue_runner.py:
\* delivery_failed()).
THEOREM MetaTheorem == Spec => []MetaKept
<1>1. MetaInv => MetaKept
  BY DEF MetaInv
<1> QED
  BY <1>1, MetaInvariant, PTL

-----------------------------------------------------------------------------
(* The exit code *)

ExitInv ==
    /\ exit = None <=> pc # "exited"
    /\ pc # "exited" => file = <<>>
    /\ pc \notin {"enqueue", "exited"} => sent = <<>>
    /\ pc = "enqueue" => sent = <<>> \/ lost
    /\ pc = "recipients" =>
         /\ call.tool \in {"sendmail", "mail"}
         /\ Elements(start) = Elements(call.recipients) \cup InMessage
    /\ \E S : sent \in Seq(S)
    /\ ExitTruthful

\* Appending what is no element gives a sequence over one element more.
LEMMA Appended ==
  ASSUME NEW s, NEW S, s \in Seq(S), NEW e
  PROVE  Append(s, e) \in Seq(S \cup {e}) /\ Append(s, e) # <<>>
<1>1. s \in Seq(S \cup {e})
  BY SeqMonotonic
<1> QED
  BY <1>1

\* Who is meant depends on the arguments and the aliases only.
LEMMA MeantSame ==
  ASSUME call' = call, given' = given, system' = system
  PROVE  Meant' = Meant
<1>1. Table' = Table
  BY SameTable
<1>2. \A T : Reachable(T)' = Reachable(T)
  BY <1>1 DEF Reachable
<1>3. InMessage' = InMessage
  BY DEF InMessage
<1> QED
  BY <1>2, <1>3 DEF Meant

\* No name stands for nobody.
LEMMA NobodyMeant == LookupType => Reachable({}) = {}
<1> SUFFICES ASSUME LookupType PROVE Reachable({}) = {}
  OBVIOUS
<1>1. Closed(Table, {}) /\ {} \in SUBSET Target
  BY DEF Closed
<1> QED
  BY <1>1 DEF Reachable

\* The program goes on.
LEMMA GoesOn ==
  ASSUME ExitInv, pc \notin {"enqueue", "exited"}, UNCHANGED <<server, file, exit>>,
         pc' \notin {"exited", "recipients"}
  PROVE  ExitInv'
BY CommandLineAssumption DEF ExitInv, ExitTruthful, server

\* It ends with a code that says that the message is nowhere.
LEMMA EndsWith ==
  ASSUME ExitInv, pc # "exited", NEW code \in Nat \ {0, 2}, Exit(code),
         UNCHANGED <<server, file>>
  PROVE  ExitInv'
BY CommandLineAssumption DEF ExitInv, ExitTruthful, server, Exit

\* It does so because there is nobody to write to.
LEMMA EndsWithNobody ==
  ASSUME ExitInv, pc \notin {"enqueue", "exited"}, Exit(2), UNCHANGED <<server, file>>,
         Meant' = {}
  PROVE  ExitInv'
BY CommandLineAssumption DEF ExitInv, ExitTruthful, server, Exit

\* It finds out whom to write to.
LEMMA RecipientsKeepExit ==
  ASSUME ExitInv, LookupInv, call \in Calls, [Next]_vars,
         Usage \/ NoAliasFile \/ LookupRecipients \/ TestRecipient \/ LookingUp \/ GotRecipients
  PROVE  ExitInv'
<1>1. call \in Call /\ call' = call /\ given' = given /\ system' = system
  BY LookupStep, CommandLineAssumption
<1>2. CASE Usage
  <2>1. /\ pc = "start" /\ call.tool = "sendmail" /\ call.recipients = <<>> /\ ~call.read
        /\ Exit(2) /\ UNCHANGED <<server, file>>
    BY <1>2 DEF Usage, At, queue
  <2>2. Elements(call.recipients) = {} /\ InMessage = {}
    BY <2>1, ElementsOf DEF InMessage
  <2>3. Meant = {}
    BY <2>1, <2>2, NobodyMeant DEF Meant, LookupInv
  <2> QED
    BY <1>1, <2>1, <2>3, MeantSame, EndsWithNobody
<1>3. CASE NoAliasFile
  BY <1>3, EndsWith DEF NoAliasFile, Traceback, At, queue
<1>4. CASE LookupRecipients
  <2>1. PICK more \in Orders(InMessage) : Begin(call.recipients \o more)
    BY <1>4 DEF LookupRecipients
  <2>2. /\ pc = "start" /\ call.tool \in {"sendmail", "mail"} /\ pc' = "recipients"
        /\ UNCHANGED <<server, file, exit, call>>
    BY <1>4 DEF LookupRecipients, At, Goto, queue
  <2>3. InMessage \subseteq Target /\ IsFiniteSet(InMessage)
    BY <1>1, CommandLineAssumption, FS_EmptySet DEF InMessage, Call
  <2>4. Cardinality(InMessage) \in Nat
    BY <2>3, FS_CardinalityType
  <2>5. more \in Seq(Target) /\ Elements(more) = InMessage
    BY <2>3, <2>4 DEF Orders
  <2>6. Elements(call.recipients \o more) = Elements(call.recipients) \cup InMessage
    BY <1>1, <2>5, ElementsOf DEF Call
  <2>7. start' = call.recipients \o more
    BY <2>1 DEF Begin
  <2>8. InMessage' = InMessage
    BY <2>2 DEF InMessage
  <2> QED
    BY <2>2, <2>6, <2>7, <2>8, CommandLineAssumption DEF ExitInv, ExitTruthful, server
<1>5. CASE TestRecipient
  BY <1>5, GoesOn DEF TestRecipient, At, Goto, queue
<1>6. CASE LookingUp
  <2>1. pc \in {"recipients", "sender"} /\ Lookup /\ UNCHANGED <<server, file, call>>
    BY <1>6 DEF LookingUp, queue
  <2>2. CASE failed'
    BY <1>6, <2>1, <2>2, EndsWith DEF LookingUp, Traceback
  <2>3. CASE ~failed'
    <3>1. pc' = pc /\ exit' = exit
      BY <1>6, <2>3 DEF LookingUp
    <3>2. start' = start
      BY <2>1 DEF Lookup, AddAddress, SkipName, Resolve, TooDeep, Return
    <3>3. InMessage' = InMessage
      BY <2>1 DEF InMessage
    <3> QED
      BY <2>1, <3>1, <3>2, <3>3, CommandLineAssumption DEF ExitInv, ExitTruthful, server
  <2> QED
    BY <2>2, <2>3
<1>7. CASE GotRecipients
  <2>1. /\ pc = "recipients" /\ call.tool \in {"sendmail", "mail"} /\ Finished
        /\ to' = (IF Result = <<>> /\ call.tool = "mail" THEN call.recipients ELSE Result)
        /\ IF to' = <<>> THEN Exit(2) ELSE Goto("config")
        /\ UNCHANGED <<server, file>>
    BY <1>7 DEF GotRecipients, At, End, queue
  <2>2. CASE to' # <<>>
    BY <2>1, <2>2, GoesOn DEF Goto
  <2>3. CASE to' = <<>>
    <3>1. Result = <<>> /\ (call.tool = "mail" => call.recipients = <<>>)
      BY <2>1, <2>3
    <3>2. Elements(<<>>) = {}
      BY ElementsOf
    <3>3. Reachable(Elements(call.recipients) \cup InMessage) \cap Address = {}
      BY <2>1, <3>1, <3>2, LookupInvImplies DEF ExitInv, LookupComplete
    <3>4. Meant = {}
      BY <2>1, <3>1, <3>2, <3>3 DEF Meant
    <3> QED
      BY <1>1, <2>1, <2>3, <3>4, MeantSame, EndsWithNobody
  <2> QED
    BY <2>2, <2>3
<1> QED
  BY <1>2, <1>3, <1>4, <1>5, <1>6, <1>7

\* A mistake in the configuration is never the exit code of a success, nor
\* that of the argument parser.
LEMMA ConfigErrorCode ==
  ASSUME config' \in Config, config'.file # "ok"
  PROVE  ConfigError \in Nat \ {0, 2}
<1>1. config'.file \in {"none", "notFound", "invalid", "noSection", "noLogConfig",
                        "badLogConfig", "noLogDir", "contradiction"}
  BY DEF Config
<1> QED
  BY <1>1 DEF ConfigError

\* It reads its configuration and makes the message ready.
LEMMA PreparingKeepsExit ==
  ASSUME ExitInv,
         ReadConfig \/ LookupSender \/ GotSender \/ DefaultSender \/ TestSender
           \/ AddHeaders \/ InitMailer
  PROVE  ExitInv'
<1>1. CASE ReadConfig
  <2>1. config' \in Config /\ pc = "config" /\ UNCHANGED <<server, file>>
    BY <1>1, CommandLineAssumption DEF ReadConfig, queue
  <2>2. CASE config'.file = "ok"
    BY <1>1, <2>1, <2>2, GoesOn DEF ReadConfig, Goto
  <2>3. CASE config'.file # "ok"
    BY <1>1, <2>1, <2>3, ConfigErrorCode, EndsWith DEF ReadConfig
  <2> QED
    BY <2>2, <2>3
<1>2. CASE LookupSender
  BY <1>2, GoesOn DEF LookupSender, At, Goto, queue
<1>3. CASE GotSender
  BY <1>3, GoesOn DEF GotSender, At, Goto, queue
<1>4. CASE DefaultSender
  <2>1. pc = "from" /\ UNCHANGED <<server, file>>
    BY <1>4 DEF DefaultSender, At, queue
  <2>2. Exit(81) \/ Goto("headers")
    BY <1>4 DEF DefaultSender
  <2> QED
    BY <2>1, <2>2, GoesOn, EndsWith DEF Goto
<1>5. CASE TestSender
  <2>1. pc = "from" /\ UNCHANGED <<server, file>> /\ Goto("headers")
    BY <1>5 DEF TestSender, At, queue
  <2> QED
    BY <2>1, GoesOn DEF Goto
<1>6. CASE AddHeaders
  <2>1. pc = "headers" /\ UNCHANGED <<server, file>> /\ (Traceback \/ Goto("mailer"))
    BY <1>6 DEF AddHeaders, queue
  <2> QED
    BY <2>1, GoesOn, EndsWith DEF Goto, Traceback
<1>7. CASE InitMailer
  <2>1. /\ pc = "mailer" /\ UNCHANGED <<server, file>>
        /\ Goto("smtp") \/ Exit(30) \/ Traceback
    BY <1>7 DEF InitMailer, queue
  <2> QED
    BY <2>1, GoesOn, EndsWith DEF Goto, Traceback
<1> QED
  BY <1>1, <1>2, <1>3, <1>4, <1>5, <1>6, <1>7

\* An exit code is a number.
LEMMA NoneIsNoCode == None \notin {0, 1, 2, 100}
BY CommandLineAssumption

\* Whoever has the message by then, it ends with 0 or because of its Message-ID.
LEMMA LogAndExitCode ==
  ASSUME LogAndExit, headers' = headers
  PROVE  pc' = "exited" /\ (exit' = 0 \/ (exit' = 1 /\ MsgIdRaises'))
BY DEF LogAndExit, MsgIdRaises, Traceback, Exit

\* It sends the message or puts it into the queue.
LEMMA SendingKeepsExit ==
  ASSUME ExitInv,
         SendAccepted \/ SendRefused \/ SendReplyLost \/ SendRaises
           \/ AppCall \/ Enqueue \/ EnqueueRaises
  PROVE  ExitInv'
<1>1. PICK S : sent \in Seq(S)
  BY DEF ExitInv
<1>2. \A e : (\E T : Append(sent, e) \in Seq(T)) /\ Append(sent, e) # <<>>
  <2>1. ASSUME NEW e
        PROVE  (\E T : Append(sent, e) \in Seq(T)) /\ Append(sent, e) # <<>>
    <3>1. Append(sent, e) \in Seq(S \cup {e}) /\ Append(sent, e) # <<>>
      BY <1>1, Appended
    <3> QED
      BY <3>1
  <2> QED
    BY <2>1
<1>3. CASE SendAccepted
  <2>1. /\ pc = "smtp" /\ sent' = Append(sent, Mail(from, to, FALSE)) /\ file' = file
        /\ LogAndExit /\ headers' = headers
    BY <1>3 DEF SendAccepted, queue, content
  <2>2. (\E T : sent' \in Seq(T)) /\ sent' # <<>>
    BY <1>2, <2>1
  <2>3. pc' = "exited" /\ (exit' = 0 \/ (exit' = 1 /\ MsgIdRaises'))
    BY <2>1, LogAndExitCode
  <2>4. pc = "smtp" /\ pc' = "exited" /\ file' = <<>> /\ sent' # <<>>
    BY <2>1, <2>2, <2>3 DEF ExitInv
  <2>5. ExitTruthful'
    BY <2>3, <2>4 DEF ExitTruthful
  <2> QED
    BY <2>2, <2>3, <2>4, <2>5, NoneIsNoCode DEF ExitInv
<1>4. CASE SendRefused
  <2>1. pc = "smtp" /\ UNCHANGED <<server, file>> /\ (Goto("enqueue") \/ Exit(100))
    BY <1>4 DEF SendRefused, NotSent, queue
  <2> QED
    BY <2>1, GoesOn, EndsWith DEF Goto
<1>5. CASE SendReplyLost
  <2>1. /\ pc = "smtp" /\ sent' = Append(sent, Mail(from, to, FALSE)) /\ lost' = TRUE
        /\ file' = file /\ (Goto("enqueue") \/ Exit(100))
    BY <1>5 DEF SendReplyLost, NotSent, queue
  <2>2. (\E T : sent' \in Seq(T)) /\ sent' # <<>>
    BY <1>2, <2>1
  <2>3. /\ file' = <<>> /\ exit = None
        /\ \/ pc' = "exited" /\ exit' = 100
           \/ pc' = "enqueue" /\ exit' = None
    BY <2>1 DEF ExitInv, Exit, Goto
  <2>4. lost' /\ exit' # 0 /\ exit' # 2
    BY <2>1, <2>3, NoneIsNoCode
  <2>5. ExitTruthful'
    BY <2>3, <2>4, Zenon DEF ExitTruthful
  <2> QED
    BY <2>1, <2>2, <2>3, <2>5, NoneIsNoCode DEF ExitInv
<1>6. CASE SendRaises
  <2>1. pc = "smtp" /\ UNCHANGED <<server, file>> /\ Exit(1)
    BY <1>6 DEF SendRaises, Traceback, queue
  <2> QED
    BY <2>1, EndsWith
<1>7. CASE AppCall
  BY <1>7, CommandLineAssumption DEF AppCall, At, Goto, queue, server, ExitInv, ExitTruthful
<1>8. CASE Enqueue
  <2>1. /\ pc = "enqueue" /\ file' = Serialize(from, to, now, None, 0)
        /\ LogAndExit /\ UNCHANGED server /\ headers' = headers
    BY <1>8 DEF Enqueue, content
  <2>2. file' # <<>>
    BY <2>1, CommandLineAssumption DEF Serialize
  <2>3. pc' = "exited" /\ (exit' = 0 \/ (exit' = 1 /\ MsgIdRaises'))
    BY <2>1, LogAndExitCode
  <2> QED
    BY <2>1, <2>2, <2>3, NoneIsNoCode DEF ExitInv, ExitTruthful, server
<1>9. CASE EnqueueRaises
  <2>1. pc = "enqueue" /\ UNCHANGED <<server, file>> /\ Exit(1)
    BY <1>9 DEF EnqueueRaises, Traceback, queue
  <2> QED
    BY <2>1, EndsWith
<1> QED
  BY <1>3, <1>4, <1>5, <1>6, <1>7, <1>8, <1>9

\* It has ended, and mq-run works on what is in the queue.
LEMMA RunKeepsExit ==
  ASSUME ExitInv, call' = call, given' = given, system' = system,
         RunAccepted \/ RunFailed \/ Tick \/ UNCHANGED vars
  PROVE  ExitInv'
<1>1. PICK S : sent \in Seq(S)
  BY DEF ExitInv
<1>2. \A e : (\E T : Append(sent, e) \in Seq(T)) /\ Append(sent, e) # <<>>
  <2>1. ASSUME NEW e
        PROVE  (\E T : Append(sent, e) \in Seq(T)) /\ Append(sent, e) # <<>>
    <3>1. Append(sent, e) \in Seq(S \cup {e}) /\ Append(sent, e) # <<>>
      BY <1>1, Appended
    <3> QED
      BY <3>1
  <2> QED
    BY <2>1
<1>3. Meant' = Meant
  BY MeantSame
<1>4. CASE RunAccepted
  <2>1. PICK e : sent' = Append(sent, e)
    BY <1>4 DEF RunAccepted
  <2>2. (\E T : sent' \in Seq(T)) /\ sent' # <<>>
    BY <1>2, <2>1
  <2>3. /\ pc = "exited" /\ file # <<>> /\ file' = <<>>
        /\ UNCHANGED <<pc, exit, headers, lost>>
    BY <1>4 DEF RunAccepted, Trying, content
  <2>4. exit = 0 \/ (exit = 1 /\ MsgIdRaises)
    BY <2>3 DEF ExitInv, ExitTruthful
  <2>5. MsgIdRaises' = MsgIdRaises
    BY <2>3 DEF MsgIdRaises
  <2> QED
    BY <1>3, <2>2, <2>3, <2>4, <2>5, CommandLineAssumption DEF ExitInv, ExitTruthful
<1>5. CASE RunFailed
  <2>1. UNCHANGED server \/ (lost' = TRUE /\ \E e : sent' = Append(sent, e))
    BY <1>5 DEF RunFailed
  <2>2. \E T : sent' \in Seq(T)
    BY <1>1, <1>2, <2>1 DEF server
  <2>3. pc = "exited" /\ file # <<>> /\ UNCHANGED <<pc, exit, headers>>
    BY <1>5 DEF RunFailed, Trying, content
  <2>4. file' # <<>>
    <3>1. \E a, b, c, d, e : file' = Serialize(a, b, c, d, e)
      BY <1>5 DEF RunFailed
    <3> QED
      BY <3>1 DEF Serialize
  <2>5. exit = 0 \/ (exit = 1 /\ MsgIdRaises)
    BY <2>3 DEF ExitInv, ExitTruthful
  <2>6. MsgIdRaises' = MsgIdRaises
    BY <2>3 DEF MsgIdRaises
  <2> QED
    BY <1>3, <2>2, <2>3, <2>4, <2>5, <2>6, CommandLineAssumption DEF ExitInv, ExitTruthful
<1>6. CASE Tick \/ UNCHANGED vars
  <2>1. UNCHANGED <<pc, exit, server, file, start, headers>>
    BY <1>6 DEF Tick, vars, queue, aliasVars, content
  <2>2. InMessage' = InMessage
    BY DEF InMessage
  <2>3. sent' = sent /\ lost' = lost
    BY <2>1 DEF server
  <2>4. MsgIdRaises' = MsgIdRaises
    BY <2>1 DEF MsgIdRaises
  <2> QED
    BY <1>3, <2>1, <2>2, <2>3, <2>4 DEF ExitInv, ExitTruthful
<1> QED
  BY <1>4, <1>5, <1>6

\* No step leaves the exit code without its grounds.
LEMMA ExitInvariant == Spec => []ExitInv
<1>1. Init => ExitInv
  <2> SUFFICES ASSUME Init PROVE ExitInv
    OBVIOUS
  <2>1. /\ pc = "start" /\ exit = None /\ file = <<>> /\ sent = <<>>
        /\ sent \in Seq(Target)
    BY DEF Init
  <2> QED
    BY <2>1, CommandLineAssumption DEF ExitInv, ExitTruthful
<1>2. ExitInv /\ LookupInv /\ call \in Calls /\ [Next]_vars => ExitInv'
  <2> SUFFICES ASSUME ExitInv, LookupInv, call \in Calls, [Next]_vars
               PROVE  ExitInv'
    OBVIOUS
  <2>1. call' = call /\ given' = given /\ system' = system
    BY LookupStep
  <2> QED
    BY <2>1, RecipientsKeepExit, PreparingKeepsExit, SendingKeepsExit, RunKeepsExit
       DEF Next, Step
<1> QED
  BY <1>1, <1>2, LookupInvariant, PTL DEF Spec

\* The exit code says where the message is, but for one with an empty
\* Message-ID, and that nobody was meant only if that is so (cli/mq_sendmail.py, mq_mail.py, send_test_message.py).
THEOREM ExitTheorem == Spec => []ExitTruthful
<1>1. ExitInv => ExitTruthful
  BY DEF ExitInv
<1> QED
  BY <1>1, ExitInvariant, PTL
=============================================================================
