----------------------------- MODULE ReaderProofs -----------------------------
(***************************************************************************)
(* The two readers of text: the command line, for every line of arguments, *)
(* however long, any table of sub commands and any options of theirs; and, *)
(* below, the configuration parser, for any set of texts of any length.    *)
(***************************************************************************)
EXTENDS Cli, ConfigText, WellFoundedInduction, TLAPS

\* How the parser got where an option was read (see WildReadCause).
Cause ==
    IF IsAnOption(line[2]) THEN IsAnOption(line[1])
    ELSE line[2] \in DOMAIN subCommandMap /\ Len(line) >= 3 /\ IsAnOption(line[3])

\* argv: the name, then the arguments.
LineOK ==
    /\ line \in Seq(Names \cup Args) /\ Len(line) >= 1
    /\ line[1] \in Names /\ \A i \in 2..Len(line) : line[i] \in Args

\* No option is ever recognised.
Nothing == opts = {} /\ optConfig = Wild /\ pc # "thrown"

\* The first argument the loop looks at is the name, where an option is the first
\* argument, or the one behind a sub command.
Entered ==
    /\ pc = "cli" => argv = 1
    /\ pc = "loop" =>
          \/ Cause
          \/ argv = 1 /\ IsAnOption(line[2])
          \/ argv = 3 /\ ~IsAnOption(line[2]) /\ line[2] \in DOMAIN subCommandMap
    /\ pc \in {"withArg", "collect", "wild", "null"} => Cause

\* What is collected are the arguments between the last option and argv_.
Collected ==
    /\ argList \in Seq(Args)
    /\ pc = "withArg" => argv >= 2 /\ IsAnOption(line[argv - 1])
    /\ pc \in {"collect", "null"} =>
          /\ Len(argList) + 2 <= argv
          /\ IsAnOption(line[argv - Len(argList) - 1])
          /\ \A i \in argv - Len(argList)..argv - 1 : ~IsAnOption(line[i])
    /\ pc = "null" => argv = Len(line) + 1

IInv == TypeOK /\ LineOK /\ Nothing /\ Entered /\ Collected

-----------------------------------------------------------------------------
LEMMA MinIsLowest ==
    ASSUME NEW n \in Int, NEW S \in SUBSET Int, n \in S, \A k \in S : n <= k
    PROVE  Min(S) = n
<1>1. \E x \in S : \A y \in S : x =< y
  OBVIOUS
<1>2. Min(S) \in S /\ \A y \in S : Min(S) =< y
  BY <1>1, Zenon DEF Min
<1>3. Min(S) \in Int /\ Min(S) =< n
  BY <1>2
<1>4. n =< Min(S)
  BY <1>2
<1> QED BY <1>3, <1>4

\* White space at the start of a text that is not empty is not skipped.
LEMMA SkipsNothing ==
    ASSUME NEW arg, Len(arg) \in Nat, Len(arg) > 0
    PROVE  /\ SkipWhiteSpace(Reset(arg)) = Reset(arg)
           /\ Peek(Reset(arg)) = NUL
<1> DEFINE s == Reset(arg)
           Stops == {k \in s.iter..End(s) : ~(HasNext(At(s, k)) /\ IsWhiteSpace(At(s, k)))}
<1>1. s.iter = 1 /\ s.data = arg /\ End(s) = Len(arg) + 1
  BY DEF Reset, End
<1>2. At(s, 1) = s
  BY DEF Reset, At
<1>3. ~HasNext(s)
  BY <1>1 DEF HasNext
<1>4. 1 \in Stops /\ Stops \in SUBSET Int /\ \A k \in Stops : 1 <= k
  BY <1>1, <1>2, <1>3
<1>5. Min(Stops) = 1
  <2> HIDE DEF Stops
  <2> QED BY <1>4, MinIsLowest
<1> QED BY <1>2, <1>3, <1>5 DEF SkipWhiteSpace, Peek

\* No argument names an option: its first symbol is never looked at.
LEMMA NamesNothing ==
    ASSUME NEW arg, Len(arg) \in Nat, Len(arg) > 0 PROVE Named(arg) = <<>>
BY SkipsNothing, ArgsAssumption DEF Named

LEMMA ArgLength ==
    ASSUME LineOK, NEW k \in 1..Len(line)
    PROVE  /\ line[k] \in Names \cup Args
           /\ Len(line[k]) \in Nat
           /\ IsAnOption(line[k]) => Named(line[k]) = <<>>
<1>1. line[k] \in Names \cup Args
  BY DEF LineOK
<1>2. Len(line[k]) \in Nat
  BY <1>1, ArgsAssumption
<1> QED BY <1>1, <1>2, NamesNothing DEF IsAnOption

\* Where argv_ points, in numbers.
LEMMA Positions ==
    ASSUME TypeOK, LineOK
    PROVE  /\ Len(line) \in Nat /\ Len(line) >= 1 /\ argv \in Int /\ argc \in Int
           /\ 1 <= argv /\ argv <= Len(line) + 1 /\ argc = Len(line) + 1 - argv
<1>1. Len(line) \in Nat /\ Len(line) >= 1
  BY DEF LineOK
<1>2. /\ argc \in 0..Len(line) /\ argv \in 1..Len(line) + 1
      /\ argc = Len(line) + 1 - argv
  BY Zenon DEF TypeOK
<1> QED BY <1>1, <1>2

-----------------------------------------------------------------------------
LEMMA IInvInit == Init => IInv
<1> SUFFICES ASSUME Init PROVE IInv OBVIOUS
<1>1. PICK n \in Names, k \in 0..MaxArgs : \E l \in [1..k -> Args] : line = <<n>> \o l
  BY DEF Init
<1>2. PICK l \in [1..k -> Args] : line = <<n>> \o l
  BY <1>1
<1>3. l \in Seq(Args) /\ Len(l) = k
  BY BoundAssumption
<1>4. LineOK
  <2>1. <<n>> \in Seq(Names \cup Args) /\ l \in Seq(Names \cup Args) /\ Len(<<n>>) = 1
    BY <1>3
  <2>2. line \in Seq(Names \cup Args) /\ Len(line) = k + 1
    BY <1>2, <1>3, <2>1
  <2>3. line[1] = n
    BY <1>2, <2>1
  <2>4. ASSUME NEW i \in 2..Len(line) PROVE line[i] \in Args
    <3>1. line[i] = l[i - 1]
      BY <1>2, <1>3, <2>1, <2>2
    <3> QED BY <1>3, <2>2, <3>1
  <2> QED BY <2>2, <2>3, <2>4 DEF LineOK
<1>5. pc = "cli" /\ subCommand = "None" /\ optConfig = Wild /\ argList = <<>>
      /\ opts = {} /\ optArgsMap = {} /\ handler = "none yet"
  BY Zenon DEF Init
<1>6. argc = Len(line) /\ argv = 1
  BY Zenon DEF Init
<1>7. argc \in 0..Len(line) /\ argv \in 1..Len(line) + 1 /\ argc = Len(line) + 1 - argv
  <2>1. Len(line) \in Nat /\ Len(line) >= 1
    BY <1>4 DEF LineOK
  <2> QED BY <1>6, <2>1
<1>8. /\ pc \in {"cli", "loop", "withArg", "collect", "main"} \cup Ends
      /\ subCommand \in SubCommands
      /\ handler \in DOMAIN otherOptConfigs \cup NoneHandlers \cup {"none yet"}
  BY <1>5 DEF SubCommands
<1>9. TypeOK
  BY <1>4, <1>5, <1>7, <1>8 DEF TypeOK, LineOK
<1>10. Nothing /\ Entered /\ Collected
  <2>1. argList \in Seq(Args)
    <3>1. <<>> \in Seq(Args)
      OBVIOUS
    <3> QED BY <1>5, <3>1, Zenon
  <2>2. Collected
    BY <1>5, <2>1 DEF Collected
  <2>3. Entered
    BY <1>5, <1>6 DEF Entered
  <2>4. Nothing
    BY <1>5, Zenon DEF Nothing
  <2> QED BY <2>2, <2>3, <2>4
<1> QED BY <1>4, <1>9, <1>10 DEF IInv

\* What the steps leave alone, and where the options come from.
LEMMA LineStays ==
    ASSUME IInv, [Next]_vars
    PROVE  line' = line /\ LineOK' /\ (Cause' <=> Cause)
<1>1. line' = line
  BY DEF Next, vars, CliParse, Loop, ReadWithArg, Collect, Dispatch
<1> QED BY <1>1 DEF IInv, LineOK, Cause, IsAnOption

LEMMA NothingNext ==
    ASSUME IInv, [Next]_vars PROVE Nothing'
<1>1. TypeOK /\ LineOK /\ Nothing
  BY DEF IInv
<1>2. CASE Loop
  <2>1. CASE argc > 0 => ~IsAnOption(line[argv])
    BY <1>1, <1>2, <2>1 DEF Loop, Nothing
  <2>2. CASE argc > 0 /\ IsAnOption(line[argv])
    <3>1. argv \in 1..Len(line)
      BY <1>1, <2>2, Positions
    <3>2. Named(line[argv]) = <<>>
      BY <1>1, <2>2, <3>1, ArgLength
    <3>3. /\ ~\E i \in DOMAIN Named(line[argv]) : Named(line[argv])[i] = Thrown
          /\ {Named(line[argv])[i].mask : i \in DOMAIN Named(line[argv])} = {}
      BY <3>2
    <3>4. pc' = "withArg" /\ optConfig' = optConfig /\ opts' = opts \cup {}
      BY <1>2, <2>2, <3>2, <3>3, Zenon DEF Loop
    <3> QED BY <1>1, <3>4 DEF Nothing
  <2> QED BY <2>1, <2>2
<1>3. CASE Next /\ ~Loop
  BY <1>1, <1>3 DEF Next, CliParse, ReadWithArg, Collect, Dispatch, Nothing
<1>4. CASE UNCHANGED vars
  BY <1>1, <1>4 DEF vars, Nothing
<1> QED BY <1>2, <1>3, <1>4

LEMMA TypesNext ==
    ASSUME IInv, [Next]_vars PROVE TypeOK'
<1>1. TypeOK /\ LineOK /\ Nothing /\ Collected
  BY DEF IInv
<1>2. line' = line /\ LineOK' /\ Nothing'
  BY LineStays, NothingNext
<1>3. /\ line'[1] \in Names /\ \A i \in 2..Len(line') : line'[i] \in Args
      /\ optConfig' \in {Wild} \cup Pointee'
  BY <1>2 DEF LineOK, Nothing
<1>4. /\ pc' \in {"cli", "loop", "withArg", "collect", "main"} \cup Ends
      /\ handler' \in DOMAIN otherOptConfigs \cup NoneHandlers \cup {"none yet"}
  BY <1>1, <1>2 DEF Next, vars, CliParse, Loop, ReadWithArg, Collect, Dispatch, Ends, TypeOK
<1>5. subCommand' \in SubCommands
  BY <1>1, <1>2, TablesAssumption
  DEF Next, vars, CliParse, Loop, ReadWithArg, Collect, Dispatch, SubCommands, TypeOK
<1>6. /\ argc' \in 0..Len(line) /\ argv' \in 1..Len(line) + 1
      /\ argc' = Len(line) + 1 - argv'
  <2>2. \/ argc' = argc /\ argv' = argv
        \/ argc > 0 /\ argc' = argc - 1 /\ argv' = argv + 1
        \/ argc >= 2 /\ argc' = argc - 2 /\ argv' = argv + 2
        \/ argv <= Len(line) /\ argc' = argc - 1 /\ argv' = argv + 1
    BY DEF Next, vars, CliParse, Loop, ReadWithArg, Collect, Dispatch
  <2> QED BY <1>1, <2>2, Positions
<1>7. \A e \in optArgsMap' : \A i \in DOMAIN e[2] : e[2][i] \in Args
  <2>1. CASE UNCHANGED optArgsMap
    BY <1>1, <2>1 DEF TypeOK
  <2>2. CASE \E c \in Pointee : optArgsMap' = optArgsMap \cup {<<c.mask, argList>>}
    <3>1. PICK c \in Pointee : optArgsMap' = optArgsMap \cup {<<c.mask, argList>>}
      BY <2>2
    <3>2. \A i \in DOMAIN argList : argList[i] \in Args
      BY <1>1 DEF Collected
    <3>3. ASSUME NEW e \in optArgsMap' PROVE \A i \in DOMAIN e[2] : e[2][i] \in Args
      <4>1. CASE e \in optArgsMap
        BY <1>1, <4>1 DEF TypeOK
      <4>2. CASE e = <<c.mask, argList>>
        <5>1. e[2] = argList
          BY <4>2
        <5> QED BY <3>2, <5>1
      <4> QED BY <3>1, <3>3, <4>1, <4>2
    <3> QED BY <3>3
  <2> QED BY <2>1, <2>2 DEF Next, vars, CliParse, Loop, ReadWithArg, Collect, Dispatch
<1> QED BY <1>2, <1>3, <1>4, <1>5, <1>6, <1>7 DEF TypeOK

LEMMA EnteredNext ==
    ASSUME IInv, [Next]_vars PROVE Entered'
<1>1. TypeOK /\ LineOK /\ Entered
  BY DEF IInv
<1>2. line' = line /\ (Cause' <=> Cause)
  BY LineStays
<1>3. CASE CliParse
  <2>1. pc = "cli" /\ argv = 1 /\ argc = Len(line)
    BY <1>1, <1>3, Positions DEF CliParse, Entered
  <2>2. \/ pc' = "main"
        \/ pc' = "loop" /\ argv' = 1 /\ IsAnOption(line[2])
        \/ pc' = "loop" /\ argv' = 3 /\ ~IsAnOption(line[2])
              /\ line[2] \in DOMAIN subCommandMap
    BY <1>3, <2>1 DEF CliParse
  <2> QED BY <1>2, <2>2 DEF Entered
<1>4. CASE Loop
  <2>1. CASE pc' \in {"main", "thrown"}
    BY <1>2, <2>1 DEF Entered
  <2>2. CASE argc > 0 /\ IsAnOption(line[argv]) /\ pc' = "withArg"
    <3>1. argv <= Len(line) /\ Len(line) \in Nat
      BY <1>1, <2>2, Positions
    <3>2. Cause
      BY <1>1, <1>4, <2>2, <3>1 DEF Loop, Entered, Cause
    <3> QED BY <1>2, <2>2, <3>2 DEF Entered
  <2> QED BY <1>4, <2>1, <2>2 DEF Loop
<1>5. CASE ReadWithArg \/ Collect
  <2>1. Cause /\ pc' \in {"loop", "withArg", "collect", "wild", "null"}
    BY <1>1, <1>5 DEF ReadWithArg, Collect, Entered
  <2> QED BY <1>2, <2>1 DEF Entered
<1>6. CASE Dispatch
  BY <1>6 DEF Dispatch, Entered
<1>7. CASE UNCHANGED vars
  BY <1>1, <1>2, <1>7 DEF vars, Entered
<1> QED BY <1>3, <1>4, <1>5, <1>6, <1>7 DEF Next

LEMMA CollectedNext ==
    ASSUME IInv, [Next]_vars PROVE Collected'
<1>1. TypeOK /\ LineOK /\ Collected
  BY DEF IInv
<1>2. line' = line /\ Len(line) \in Nat /\ argv \in Nat
  BY <1>1, LineStays, Positions
<1>3. CASE /\ UNCHANGED <<argv, argList>>
           /\ pc' \in {"main", "loop", "thrown", "returned"} \/ pc' = pc
  BY <1>1, <1>2, <1>3 DEF Collected
<1>4. CASE CliParse
  BY <1>1, <1>2, <1>4 DEF CliParse, Collected
<1>5. CASE Loop
  <2>1. CASE argc > 0 /\ IsAnOption(line[argv]) /\ argv' = argv + 1
    <3>1. argList' = argList /\ pc' \in {"withArg", "thrown"} /\ argv >= 1
      BY <1>1, <1>5, <2>1, Positions DEF Loop
    <3>2. argv' >= 2 /\ argv' - 1 = argv
      BY <1>2, <2>1, <3>1
    <3> QED BY <1>1, <1>2, <2>1, <3>1, <3>2 DEF Collected
  <2> QED BY <1>3, <1>5, <2>1 DEF Loop
<1>6. CASE ReadWithArg
  <2>1. argList' = <<>> /\ argv' = argv /\ argv >= 2 /\ IsAnOption(line[argv - 1])
        /\ pc' \in {"loop", "collect", "wild"}
    BY <1>1, <1>6 DEF ReadWithArg, Collected
  <2>2. Len(argList') = 0 /\ argList' \in Seq(Args)
    BY <2>1
  <2> QED BY <1>2, <2>1, <2>2 DEF Collected
<1>7. CASE Collect
  <2>1. CASE argv > Len(line) /\ pc' = "null" /\ UNCHANGED <<argv, argList>>
    <3>1. argv = Len(line) + 1
      BY <1>1, <1>2, <2>1, Positions
    <3> QED BY <1>1, <1>2, <1>7, <2>1, <3>1 DEF Collect, Collected
  <2>2. CASE /\ argv <= Len(line) /\ ~IsAnOption(line[argv]) /\ pc' = pc
             /\ argList' = Append(argList, line[argv]) /\ argv' = argv + 1
    <3>1. /\ argList \in Seq(Args) /\ Len(argList) + 2 <= argv
          /\ IsAnOption(line[argv - Len(argList) - 1])
          /\ \A i \in argv - Len(argList)..argv - 1 : ~IsAnOption(line[i])
      BY <1>1, <1>7 DEF Collect, Collected
    <3>2. line[argv] \in Args
      BY <1>1, <1>2, <2>2, <3>1 DEF LineOK
    <3>3. argList' \in Seq(Args) /\ Len(argList') = Len(argList) + 1
      BY <2>2, <3>1, <3>2
    <3>4. Len(argList) \in Nat /\ argv' - Len(argList') = argv - Len(argList) /\ argv' - 1 = argv
      BY <1>2, <2>2, <3>1, <3>3
    <3>5. \A i \in argv' - Len(argList')..argv' - 1 : ~IsAnOption(line[i])
      BY <1>2, <2>2, <3>1, <3>4
    <3> QED BY <1>2, <1>7, <2>2, <3>1, <3>3, <3>4, <3>5 DEF Collect, Collected
  <2> QED BY <1>3, <1>7, <2>1, <2>2 DEF Collect
<1>8. CASE Dispatch
  BY <1>3, <1>8 DEF Dispatch
<1>9. CASE UNCHANGED vars
  BY <1>3, <1>9 DEF vars
<1> QED BY <1>4, <1>5, <1>6, <1>7, <1>8, <1>9 DEF Next

LEMMA IInvNext == IInv /\ [Next]_vars => IInv'
BY LineStays, NothingNext, TypesNext, EnteredNext, CollectedNext DEF IInv

LEMMA Invariance == Spec => []IInv
BY IInvInit, IInvNext, PTL DEF Spec

-----------------------------------------------------------------------------
\* Types; argc_ never disagrees with argv_ (Cli::parse and ArgumentParser::parse
\* count and advance together), and only arguments get into an option's list.
THEOREM TypeCorrect == Spec => []TypeOK
BY Invariance, PTL DEF IInv

\* Whatever the command line: no option is recognised, none is refused, and
\* optConfig is read unassigned exactly where an option is got to (cli.cpp:112,231).
THEOREM WildRead == Spec => []WildReadCause
<1>1. IInv => WildReadCause
  BY DEF IInv, Nothing, Entered, Cause, WildReadCause
<1> QED BY <1>1, Invariance, PTL

\* Whatever the command line: the list loop reaches the null pointer only over the
\* arguments of the last option (cli.cpp:115).
THEOREM NullAfterLast == Spec => []NullAfterLastOption
<1>1. IInv => NullAfterLastOption
  <2> SUFFICES ASSUME IInv, pc = "null"
               PROVE  LET last == Len(line) - Len(argList) IN
                      IsAnOption(line[last]) /\ \A i \in last + 1..Len(line) : ~IsAnOption(line[i])
    BY DEF NullAfterLastOption
  <2>1. Len(line) \in Nat /\ argv = Len(line) + 1 /\ Len(argList) \in Nat
    BY Positions DEF IInv, Collected
  <2>2. /\ IsAnOption(line[argv - Len(argList) - 1])
        /\ \A i \in argv - Len(argList)..argv - 1 : ~IsAnOption(line[i])
    BY DEF IInv, Collected
  <2>3. /\ argv - Len(argList) - 1 = Len(line) - Len(argList)
        /\ argv - Len(argList) = Len(line) - Len(argList) + 1 /\ argv - 1 = Len(line)
    BY <2>1
  <2> QED BY <2>2, <2>3
<1> QED BY <1>1, Invariance, PTL

(***************************************************************************)
(* The configuration parser.  KeyEnd and SkipAll search through the text:  *)
(* what they return is shown by the least position that would refute it.   *)
(***************************************************************************)

\* From i on, j is where the characters of C end.
Skips(i, j, C) ==
    /\ j \in i..(Len(text) + 1)
    /\ RawPeek(j) \notin C
    /\ \A m \in i..(j - 1) : text[m] \in C

\* g is parseKey's loop, from the positions lo and behind on.
Follows(g, lo) ==
    g = [j \in lo..(Len(text) + 2) |->
            IF j > Len(text) + 1 \/ StopsAt(j) THEN j ELSE g[CsAfter(j)]]

\* A key from i on ends at k.
EndsKey(i, k) ==
    /\ k \in i..(Len(text) + 2)
    /\ k > Len(text) + 1 \/ StopsAt(k)
    /\ k = Len(text) + 2 => i = Len(text) + 2 \/ text[Len(text)] = "back"

Kinds == {"none", "doc", "int", "float", "str"}

\* NumbersAreWholeLines, of one member.
NumberOK(m) ==
    LET from == SkipWitespace(m.to + 1) IN
    /\ m.kind = "int" => \A j \in from..(LineEnd(from) - 1) : text[j] \in Digits
    /\ m.kind = "float" => from = Len(text) + 1

\* BreaksAreInKeys, of one character.
InKey(j) == \E i \in 1..Len(members) : members[i].from <= j /\ j < members[i].to

\* Keys lie within the text.
MembersOK ==
    /\ members \in Seq([depth : Nat, from : Nat, to : Nat, kind : Kinds])
    /\ \A i \in 1..Len(members) : members[i].from >= 1 /\ members[i].to <= Len(text)

\* A value is read behind the key of the last member.
AtValue ==
    step = "value" =>
        Len(members) >= 1 /\ pos = SkipWitespace(members[Len(members)].to + 1)

\* What has been read has skipped no line end.
BreaksSoFar == \A j \in 1..(pos - 1) : text[j] = "nl" => InKey(j)

\* What a parse has left to do.
Left ==
    4 * (Len(text) + 1 - pos) + depth
    + (IF step = "value" THEN 3 ELSE IF step = "doc" THEN 1 ELSE 0)

ParseInv ==
    /\ ParseTypeOK /\ MembersOK /\ AtValue /\ BreaksSoFar /\ OnlyEscapesBreakIt
    /\ NumbersAreWholeLines
    /\ step = "done" => pos = Len(text) + 1

-----------------------------------------------------------------------------
\* The form in which the proofs below use induction.
LEMMA Least ==
    ASSUME NEW T, T \subseteq Nat, T # {} PROVE \E m \in T : \A k \in T : m <= k
<1>1. PICK R : R = OpToRel(<, Nat)
  BY Zenon
<1>2. IsWellFoundedOn(R, Nat)
  BY <1>1, NatLessThanWellFounded, Zenon
<1>3. PICK m \in T : \A k \in T : ~(<<k, m>> \in R)
  BY <1>2, WFMin
<1>4. ASSUME NEW k \in T PROVE m <= k
  <2>1. ~(<<k, m>> \in R)
    BY <1>3
  <2>2. k \in Nat /\ m \in Nat
    BY <1>3
  <2> QED BY <1>1, <2>1, <2>2 DEF OpToRel
<1> QED BY <1>4

LEMMA Characters ==
    ASSUME text \in Seq(Classes)
    PROVE  /\ Len(text) \in Nat
           /\ \A m \in 1..Len(text) : text[m] \in Classes /\ RawPeek(m) = text[m]
           /\ \A m : m \notin 1..Len(text) => RawPeek(m) = "end"
           /\ "end" \notin Classes
BY DEF RawPeek, Classes

\* There is one such position, and SkipAll is it.
LEMMA SkipAllSkips ==
    ASSUME text \in Seq(Classes), NEW i \in 1..(Len(text) + 1), NEW C, "end" \notin C
    PROVE  Skips(i, SkipAll(i, C), C)
<1> PICK n \in Nat : n = Len(text)
  BY Characters
<1> DEFINE T == {j \in i..(n + 1) : RawPeek(j) \notin C}
<1>1. n + 1 \in T
  BY Characters
<1>2. PICK m \in T : \A k \in T : m <= k
  <2>1. T \subseteq Nat
    OBVIOUS
  <2> HIDE DEF T
  <2> QED BY <1>1, <2>1, Least
<1>3. ASSUME NEW k \in i..(m - 1) PROVE text[k] \in C
  BY <1>2, Characters
<1>4. \E j \in i..(Len(text) + 1) :
        RawPeek(j) \notin C /\ \A k \in i..(j - 1) : text[k] \in C
  BY <1>2, <1>3
<1> QED BY <1>4, Zenon DEF SkipAll, Skips

LEMMA SkipsOnce ==
    ASSUME text \in Seq(Classes), NEW i \in 1..(Len(text) + 1), NEW C,
           NEW j, NEW k, Skips(i, j, C), Skips(i, k, C)
    PROVE  j = k
<1> PICK n \in Nat : n = Len(text)
  BY Characters
<1>1. j \in i..(n + 1) /\ k \in i..(n + 1) /\ RawPeek(j) \notin C /\ RawPeek(k) \notin C
  BY DEF Skips
<1>2. ~(j < k)
  BY <1>1, Characters DEF Skips
<1>3. ~(k < j)
  BY <1>1, Characters DEF Skips
<1> QED BY <1>1, <1>2, <1>3

-----------------------------------------------------------------------------
\* Each turn of parseKey's loop goes forward, out of the text only behind a backslash.
LEMMA AfterGoesOn ==
    ASSUME text \in Seq(Classes), NEW j \in 1..(Len(text) + 1), ~StopsAt(j)
    PROVE  /\ j <= Len(text)
           /\ CsAfter(j) \in (j + 1)..(Len(text) + 2)
           /\ CsAfter(j) = Len(text) + 2 => text[Len(text)] = "back"
<1> PICK n \in Nat : n = Len(text)
  BY Characters
<1>1. j <= n
  BY DEF StopsAt, CsHasNext
<1>2. CsAfter(j) = j + 1 \/ (CsAfter(j) = j + 2 /\ text[j] = "back")
  BY <1>1, Characters DEF CsAfter
<1> QED BY <1>1, <1>2

\* The recursion of KeyEnd defines a function: otherwise there would be a last
\* position from which it does not.
LEMMA FollowsExists ==
    ASSUME text \in Seq(Classes), NEW lo \in 1..(Len(text) + 2)
    PROVE  \E g : Follows(g, lo)
<1> PICK n \in Nat : n = Len(text)
  BY Characters
<1> DEFINE Bad == {k \in 0..(n + 1) : ~\E g : Follows(g, n + 2 - k)}
<1>1. SUFFICES ASSUME Bad # {} PROVE FALSE
  <2>1. n + 2 - lo \in 0..(n + 1) /\ n + 2 - (n + 2 - lo) = lo
    OBVIOUS
  <2> QED BY <2>1
<1>2. PICK m \in Bad : \A k \in Bad : m <= k
  <2>1. Bad \subseteq Nat
    OBVIOUS
  <2> HIDE DEF Bad
  <2> QED BY <1>1, <2>1, Least
<1>3. m # 0
  <2> DEFINE g == [j \in (n + 2)..(n + 2) |-> j]
  <2>1. Follows(g, n + 2)
    BY DEF Follows
  <2> QED BY <1>2, <2>1
<1>4. m - 1 \in 0..(n + 1) /\ m - 1 \notin Bad
  BY <1>2, <1>3
<1>5. PICK low \in 1..(n + 1) : low = n + 2 - m
  <2>1. m \in 1..(n + 1)
    BY <1>2, <1>3
  <2>2. n + 2 - m \in 1..(n + 1)
    BY <2>1
  <2> HIDE DEF Bad
  <2> QED BY <2>2
<1>6. PICK g : Follows(g, low + 1)
  <2>1. n + 2 - (m - 1) = low + 1
    BY <1>2, <1>5
  <2> QED BY <1>4, <2>1
<1> DEFINE Step(j, f) == IF j > n + 1 \/ StopsAt(j) THEN j ELSE f[CsAfter(j)]
           h == [j \in low..(n + 2) |-> IF j = low THEN Step(j, g) ELSE g[j]]
<1>7. \A j \in low + 1..(n + 2) : g[j] = Step(j, g)
  BY <1>6 DEF Follows
<1>8. ASSUME NEW j \in low..(n + 2) PROVE h[j] = Step(j, h)
  <2>1. h[j] = Step(j, g)
    BY <1>7
  <2>2. ASSUME ~(j > n + 1), ~StopsAt(j) PROVE g[CsAfter(j)] = h[CsAfter(j)]
    <3>1. j \in 1..(n + 1)
      BY <2>2
    <3>2. CsAfter(j) \in (j + 1)..(n + 2)
      BY <2>2, <3>1, AfterGoesOn
    <3> QED BY <3>2
  <2> QED BY <2>1, <2>2
<1>9. h = [j \in low..(n + 2) |-> Step(j, h)]
  <2>1. h = [j \in low..(n + 2) |-> h[j]]
    OBVIOUS
  <2> HIDE DEF h, Step
  <2> QED BY <1>8, <2>1
<1>10. Follows(h, low)
  <2> HIDE DEF h
  <2> QED BY <1>9 DEF Follows
<1> QED BY <1>2, <1>5, <1>10

\* What it returns, again from the end of the text backwards.
LEMMA KeyEndEnds ==
    ASSUME text \in Seq(Classes), NEW i \in 1..(Len(text) + 1)
    PROVE  EndsKey(i, KeyEnd(i))
<1> PICK n \in Nat : n = Len(text)
  BY Characters
<1>1. PICK f : Follows(f, i) /\ KeyEnd(i) = f[i]
  <2> DEFINE f == CHOOSE f : Follows(f, i)
  <2>1. Follows(f, i)
    BY FollowsExists
  <2>2. KeyEnd(i) = f[i]
    BY DEF KeyEnd, Follows
  <2> QED BY <2>1, <2>2
<1>2. \A j \in i..(n + 2) :
        f[j] = IF j > n + 1 \/ StopsAt(j) THEN j ELSE f[CsAfter(j)]
  BY <1>1 DEF Follows
<1> DEFINE Bad == {k \in 0..(n + 2 - i) : ~EndsKey(n + 2 - k, f[n + 2 - k])}
<1>3. SUFFICES ASSUME Bad # {} PROVE FALSE
  <2>1. n + 2 - i \in 0..(n + 2 - i) /\ n + 2 - (n + 2 - i) = i
    OBVIOUS
  <2> QED BY <1>1, <2>1
<1>4. PICK m \in Bad : \A k \in Bad : m <= k
  <2>1. Bad \subseteq Nat
    OBVIOUS
  <2> HIDE DEF Bad
  <2> QED BY <1>3, <2>1, Least
<1>5. PICK j \in i..(n + 2) : j = n + 2 - m
  BY <1>4
<1>6. ~(j > n + 1 \/ StopsAt(j))
  BY <1>2, <1>4, <1>5 DEF EndsKey
<1>7. /\ j <= n /\ CsAfter(j) \in (j + 1)..(n + 2)
      /\ CsAfter(j) = n + 2 => text[n] = "back"
  BY <1>6, AfterGoesOn
<1>8. EndsKey(CsAfter(j), f[CsAfter(j)])
  <2>1. n + 2 - CsAfter(j) \in 0..(n + 2 - i) /\ ~(m <= n + 2 - CsAfter(j))
    BY <1>5, <1>7
  <2>2. n + 2 - (n + 2 - CsAfter(j)) = CsAfter(j)
    BY <1>7
  <2> QED BY <1>4, <2>1, <2>2
<1>9. f[j] = f[CsAfter(j)]
  BY <1>2, <1>6
<1>10. EndsKey(j, f[j])
  BY <1>7, <1>8, <1>9 DEF EndsKey
<1> QED BY <1>4, <1>5, <1>10

-----------------------------------------------------------------------------
LEMMA SkipWitespaceSkips ==
    ASSUME text \in Seq(Classes), NEW i \in 1..(Len(text) + 1)
    PROVE  Skips(i, SkipWitespace(i), {"blank"})
BY SkipAllSkips DEF SkipWitespace

LEMMA LineEndSkips ==
    ASSUME text \in Seq(Classes), NEW i \in 1..(Len(text) + 1)
    PROVE  Skips(i, LineEnd(i), Classes \ {"nl"})
<1>1. "end" \notin Classes \ {"nl"}
  BY Characters
<1> QED BY <1>1, SkipAllSkips DEF LineEnd

\* Digits that go on to the end of the line are the whole line.
LEMMA KindIsHonest ==
    ASSUME text \in Seq(Classes), NEW i \in 1..(Len(text) + 1), RawPeek(i) # "nl"
    PROVE  /\ Kind(i) \in {"int", "float", "str"}
           /\ Kind(i) = "int" => \A j \in i..(LineEnd(i) - 1) : text[j] \in Digits
           /\ Kind(i) = "float" => i = Len(text) + 1
<1>1. Kind(i) \in {"int", "float", "str"}
  BY DEF Kind
<1>2. ASSUME Kind(i) = "int"
      PROVE  \A j \in i..(LineEnd(i) - 1) : text[j] \in Digits
  <2> DEFINE j == SkipAll(i, Digits)
  <2>1. RawPeek(i) = "1" /\ ~(CsHasNext(j) /\ RawPeek(j) # "nl")
    BY <1>2 DEF Kind
  <2>2. Skips(i, j, Digits)
    BY SkipAllSkips DEF Digits
  <2> HIDE DEF j
  <2>3. Skips(i, j, Classes \ {"nl"})
    BY <2>1, <2>2, Characters DEF Skips, CsHasNext, Digits, Classes
  <2>4. LineEnd(i) = j
    BY <2>3, LineEndSkips, SkipsOnce
  <2> QED BY <2>2, <2>4 DEF Skips
<1>3. ASSUME Kind(i) = "float" PROVE i = Len(text) + 1
  BY <1>3 DEF Kind, CsHasNext
<1> QED BY <1>1, <1>2, <1>3

LEMMA NumberOKMoves ==
    ASSUME NEW m, text' = text, NumberOK(m) PROVE NumberOK(m)'
BY DEF NumberOK, SkipWitespace, LineEnd, SkipAll, RawPeek

\* The text does not change: what was said of a member stays true.
LEMMA NumbersMove ==
    ASSUME text' = text, \A i \in 1..Len(members') : NumberOK(members'[i])
    PROVE  NumbersAreWholeLines'
<1>1. ASSUME NEW i \in 1..Len(members') PROVE NumberOK(members[i])'
  <2>1. NumberOK(members'[i])
    OBVIOUS
  <2> QED BY <2>1, ZenonT(60)
       DEF NumberOK, SkipWitespace, LineEnd, SkipAll, RawPeek
<1> QED BY <1>1 DEF NumbersAreWholeLines, NumberOK

LEMMA NumbersAreOK ==
    NumbersAreWholeLines <=> \A i \in 1..Len(members) : NumberOK(members[i])
BY DEF NumbersAreWholeLines, NumberOK

\* Where a key ends, in characters.
LEMMA KeyEndIs ==
    ASSUME text \in Seq(Classes), NEW i \in 1..(Len(text) + 1)
    PROVE  /\ KeyEnd(i) \in i..(Len(text) + 2)
           /\ KeyEnd(i) > Len(text) + 1 => text[Len(text)] = "back"
           /\ KeyEnd(i) <= Len(text) =>
                 \/ text[KeyEnd(i)] = "colon"
                 \/ /\ KeyEnd(i) < Len(text)
                    /\ text[KeyEnd(i)] = "back" /\ text[KeyEnd(i) + 1] = "colon"
                 \/ KeyEnd(i) = Len(text) /\ text[Len(text)] = "back" /\ behind = "colon"
<1> PICK n \in Nat : n = Len(text)
  BY Characters
<1> DEFINE to == KeyEnd(i)
<1>1. EndsKey(i, to)
  BY KeyEndEnds
<1> HIDE DEF to
<1>2. to \in i..(n + 2) /\ (to > n + 1 => text[n] = "back")
  BY <1>1 DEF EndsKey
<1>3. ASSUME to <= n
      PROVE  \/ text[to] = "colon"
             \/ to < n /\ text[to] = "back" /\ text[to + 1] = "colon"
             \/ to = n /\ text[n] = "back" /\ behind = "colon"
  <2>1. to \in 1..n /\ CsPeek(to) = "colon"
    BY <1>1, <1>2, <1>3 DEF EndsKey, StopsAt, CsHasNext
  <2>2. RawPeek(to) = text[to]
    BY <2>1, Characters
  <2>3. CASE text[to] # "back"
    BY <2>1, <2>2, <2>3 DEF CsPeek
  <2>4. CASE text[to] = "back"
    <3>1. CASE to = n
      BY <2>1, <2>2, <2>4, <3>1 DEF CsPeek
    <3>2. CASE to < n
      <4>1. RawPeek(to + 1) = "colon"
        BY <2>1, <2>2, <2>4, <3>2 DEF CsPeek
      <4>2. to + 1 \in 1..n
        BY <2>1, <3>2
      <4> QED BY <2>4, <3>2, <4>1, <4>2, Characters
    <3> QED BY <2>1, <3>1, <3>2
  <2> QED BY <2>3, <2>4
<1> QED BY <1>2, <1>3 DEF to

-----------------------------------------------------------------------------
LEMMA ParseInvInit == ParseInit => ParseInv
<1> SUFFICES ASSUME ParseInit PROVE ParseInv OBVIOUS
<1>1. /\ text \in Seq(Classes) /\ behind \in {"colon", "other"}
      /\ members = <<>> /\ pos = 1 /\ step = "doc" /\ depth = 1
  BY TextsAssumption DEF ParseInit
<1>2. Len(text) \in Nat /\ Len(members) = 0
  BY <1>1
<1>3. ParseTypeOK
  BY <1>1, <1>2 DEF ParseTypeOK
<1>4. MembersOK
  BY <1>1, <1>2 DEF MembersOK
<1>5. AtValue /\ BreaksSoFar /\ OnlyEscapesBreakIt /\ NumbersAreWholeLines
  BY <1>1, <1>2 DEF AtValue, BreaksSoFar, OnlyEscapesBreakIt, NumbersAreWholeLines
<1> QED BY <1>1, <1>3, <1>4, <1>5 DEF ParseInv

LEMMA ReturnKeeps == ParseInv /\ Return => ParseInv'
<1> SUFFICES ASSUME ParseInv, Return PROVE ParseInv' OBVIOUS
<1>1. /\ UNCHANGED <<text, behind, pos, members>> /\ pos = Len(text) + 1
      /\ step = "doc" /\ step' \in {"doc", "done"}
  BY DEF Return, CsHasNext
<1>2. depth' \in Nat \ {0}
  BY DEF Return, ParseInv, ParseTypeOK
<1>3. ParseTypeOK'
  BY <1>1, <1>2 DEF ParseInv, ParseTypeOK
<1>4. MembersOK' /\ AtValue' /\ BreaksSoFar' /\ OnlyEscapesBreakIt'
  BY <1>1 DEF ParseInv, MembersOK, AtValue, BreaksSoFar, InKey, OnlyEscapesBreakIt
<1>5. NumbersAreWholeLines'
  <2>1. \A i \in 1..Len(members') : NumberOK(members'[i])
    BY <1>1, NumbersAreOK DEF ParseInv
  <2> QED BY <1>1, <2>1, NumbersMove
<1> QED BY <1>1, <1>3, <1>4, <1>5 DEF ParseInv

LEMMA Elements ==
    ASSUME NEW S, NEW s \in Seq(S)
    PROVE  Len(s) \in Nat /\ \A i \in 1..Len(s) : s[i] \in S
OBVIOUS

LEMMA Replaces ==
    ASSUME NEW S, NEW s \in Seq(S), NEW k \in 1..Len(s), NEW x \in S
    PROVE  /\ [s EXCEPT ![k] = x] \in Seq(S) /\ Len([s EXCEPT ![k] = x]) = Len(s)
           /\ \A i \in 1..Len(s) : i # k => [s EXCEPT ![k] = x][i] = s[i]
           /\ [s EXCEPT ![k] = x][k] = x
OBVIOUS

LEMMA Appends ==
    ASSUME NEW S, NEW s \in Seq(S), NEW x \in S, NEW l \in Nat, l = Len(s)
    PROVE  /\ Append(s, x) \in Seq(S) /\ Len(Append(s, x)) = l + 1
           /\ \A i \in 1..l : Append(s, x)[i] = s[i]
           /\ Append(s, x)[l + 1] = x
OBVIOUS

LEMMA KeyKeeps == ParseInv /\ Key => ParseInv'
<1> SUFFICES ASSUME ParseInv, Key PROVE ParseInv' OBVIOUS
<1>1. /\ text \in Seq(Classes) /\ pos \in 1..(Len(text) + 1) /\ depth \in Nat \ {0}
      /\ behind \in {"colon", "other"}
      /\ step = "doc" /\ text' = text /\ behind' = behind /\ depth' = depth
  BY DEF ParseInv, ParseTypeOK, Key
<1> PICK n \in Nat : n = Len(text)
  BY <1>1, Characters
<1> PICK at \in 1..(n + 1) : at = pos
  BY <1>1
<1> PICK from : from = SkipWitespace(pos)
  OBVIOUS
<1>2. Skips(at, from, {"blank"})
  BY <1>1, SkipWitespaceSkips
<1>3. from \in at..(n + 1)
  BY <1>2 DEF Skips
<1> PICK to : to = KeyEnd(from)
  OBVIOUS
<1>4. /\ to \in from..(n + 2)
      /\ to > n + 1 => text[n] = "back"
      /\ to <= n => \/ text[to] = "colon"
                    \/ to < n /\ text[to] = "back" /\ text[to + 1] = "colon"
                    \/ to = n /\ text[n] = "back" /\ behind = "colon"
  <2>1. from \in 1..(Len(text) + 1)
    BY <1>3
  <2> QED BY <1>1, <2>1, KeyEndIs
<1> PICK m : m = [depth |-> depth, from |-> from, to |-> to, kind |-> "none"]
  OBVIOUS
<1>5. \/ to > n + 1 /\ step' = "overrun" /\ UNCHANGED <<pos, members>>
      \/ to = n + 1 /\ step' = "throw" /\ UNCHANGED <<pos, members>>
      \/ to <= n /\ text[to] # "colon" /\ step' = "abort" /\ UNCHANGED <<pos, members>>
      \/ /\ to <= n /\ step' = "value" /\ pos' = SkipWitespace(to + 1)
         /\ members' = Append(members, m)
  BY DEF Key
<1>6. CASE step' # "value"
  <2>1. UNCHANGED <<text, behind, pos, depth, members>> /\ step' \in {"throw", "abort", "overrun"}
    BY <1>1, <1>5, <1>6
  <2>2. ParseTypeOK' /\ MembersOK' /\ AtValue' /\ BreaksSoFar'
    BY <2>1 DEF ParseInv, ParseTypeOK, MembersOK, AtValue, BreaksSoFar, InKey
  <2>3. OnlyEscapesBreakIt'
    <3>1. step' = "overrun" => text[Len(text)] = "back"
      BY <1>4, <1>5, <2>1
    <3>2. ASSUME step' = "abort"
          PROVE  \/ \E i \in 1..(Len(text) - 1) : text[i] = "back" /\ text[i + 1] = "colon"
                 \/ text[Len(text)] = "back" /\ behind = "colon"
      <4>1. \/ to \in 1..(n - 1) /\ text[to] = "back" /\ text[to + 1] = "colon"
            \/ text[n] = "back" /\ behind = "colon"
        BY <1>3, <1>4, <1>5, <3>2
      <4> QED BY <4>1
    <3> QED BY <2>1, <3>1, <3>2 DEF OnlyEscapesBreakIt
  <2>4. NumbersAreWholeLines'
    BY <2>1, NumbersAreOK, NumbersMove DEF ParseInv
  <2> QED BY <2>1, <2>2, <2>3, <2>4 DEF ParseInv
<1>7. CASE step' = "value"
  <2>1. /\ to <= n /\ pos' = SkipWitespace(to + 1) /\ members' = Append(members, m)
        /\ text[to] # "nl"
    BY <1>4, <1>5, <1>7
  <2>0. PICK next : next = pos'
    OBVIOUS
  <2>2. Skips(to + 1, next, {"blank"})
    <3>1. to + 1 \in 1..(Len(text) + 1)
      BY <1>3, <1>4, <2>1
    <3> QED BY <1>1, <2>0, <2>1, <3>1, SkipWitespaceSkips
  <2>3. next \in to + 1..(n + 1)
    BY <2>2 DEF Skips
  <2>4. /\ m \in [depth : Nat, from : Nat, to : Nat, kind : Kinds]
        /\ m.from = from /\ m.to = to /\ m.kind = "none"
    BY <1>1, <1>3, <1>4 DEF Kinds
  <2> PICK new : new = members'
    OBVIOUS
  <2> PICK l \in Nat : l = Len(members)
    BY Elements DEF ParseInv, MembersOK
  <2>5. /\ new \in Seq([depth : Nat, from : Nat, to : Nat, kind : Kinds])
        /\ Len(new) = l + 1
        /\ \A i \in 1..l : new[i] = members[i]
        /\ new[l + 1] = m
    BY <2>1, <2>4, Appends DEF ParseInv, MembersOK
  <2>6. /\ l + 1 \in 1..l + 1
        /\ \A i \in 1..l + 1 : i \in 1..l \/ i = l + 1
        /\ \A i \in 1..l : i \in 1..l + 1
    OBVIOUS
  <2>7. MembersOK'
    <3>1. \A i \in 1..l + 1 : new[i].from >= 1 /\ new[i].to <= n
      <4>1. \A i \in 1..l : members[i].from >= 1 /\ members[i].to <= n
        BY DEF ParseInv, MembersOK
      <4>2. m.from >= 1 /\ m.to <= n
        BY <1>3, <2>1, <2>4
      <4> QED BY <2>5, <2>6, <4>1, <4>2
    <3> QED BY <1>1, <2>5, <3>1 DEF MembersOK
  <2>8. ParseTypeOK'
    <3>1. \A i \in 1..l + 1 : new[i].kind \in Kinds
      <4>1. \A i \in 1..Len(members) : members[i].kind \in Kinds
        BY DEF ParseInv, ParseTypeOK, Kinds
      <4> QED BY <2>4, <2>5, <2>6, <4>1
    <3>2. pos' \in 1..(Len(text) + 1)
      BY <1>3, <1>4, <2>0, <2>3
    <3> QED BY <1>1, <1>7, <2>5, <3>1, <3>2 DEF ParseTypeOK, Kinds
  <2>9. AtValue'
    <3>1. members'[Len(members')] = m
      BY <2>5
    <3>2. SkipWitespace(members[Len(members)].to + 1)' = SkipWitespace(m.to + 1)
      BY <1>1, <3>1, ZenonT(60) DEF SkipWitespace, SkipAll, RawPeek
    <3> QED BY <2>1, <2>4, <2>5, <3>2 DEF AtValue
  <2>10. BreaksSoFar'
    <3>1. ASSUME NEW j \in 1..(next - 1), text[j] = "nl"
          PROVE  \E i \in 1..l + 1 : new[i].from <= j /\ j < new[i].to
      <4>1. CASE j < at
        <5>1. j \in 1..(pos - 1)
          BY <4>1
        <5>2. PICK i \in 1..l : members[i].from <= j /\ j < members[i].to
          BY <3>1, <5>1 DEF ParseInv, BreaksSoFar, InKey
        <5> QED BY <2>5, <2>6, <5>2
      <4>2. ~(at <= j /\ j < from)
        BY <1>2, <3>1 DEF Skips
      <4>3. CASE from <= j /\ j < to
        <5>1. new[l + 1].from <= j /\ j < new[l + 1].to
          BY <2>4, <2>5, <4>3
        <5> QED BY <2>6, <5>1
      <4>4. j # to
        BY <2>1, <3>1
      <4>5. ~(to < j)
        <5>1. ASSUME to < j PROVE j \in to + 1..(next - 1)
          BY <1>3, <1>4, <2>3, <3>1, <5>1
        <5> QED BY <2>2, <3>1, <5>1 DEF Skips
      <4> QED BY <1>3, <1>4, <2>3, <4>1, <4>2, <4>3, <4>4, <4>5
    <3> QED BY <1>1, <2>0, <2>5, <3>1 DEF BreaksSoFar, InKey
  <2>11. NumbersAreWholeLines'
    <3>1. NumberOK(m)
      BY <2>4 DEF NumberOK
    <3>2. \A i \in 1..l : NumberOK(members[i])
      BY NumbersAreOK DEF ParseInv
    <3>3. \A i \in 1..l + 1 : NumberOK(new[i])
      BY <2>5, <2>6, <3>1, <3>2
    <3> QED BY <1>1, <2>5, <3>3, NumbersMove
  <2>12. OnlyEscapesBreakIt'
    BY <1>7 DEF OnlyEscapesBreakIt
  <2> QED BY <1>7, <2>7, <2>8, <2>9, <2>10, <2>11, <2>12 DEF ParseInv
<1> QED BY <1>6, <1>7

\* A key takes the iterator forward, if only over its colon.
LEMMA KeyAdvances ==
    ASSUME ParseInv, Key, step' = "value"
    PROVE  pos' \in (pos + 1)..(Len(text) + 1)
<1>1. text \in Seq(Classes) /\ pos \in 1..(Len(text) + 1)
  BY DEF ParseInv, ParseTypeOK
<1> PICK n \in Nat : n = Len(text)
  BY <1>1, Characters
<1> PICK at \in 1..(n + 1) : at = pos
  BY <1>1
<1>2. PICK from \in at..(n + 1) : from = SkipWitespace(pos)
  BY <1>1, SkipWitespaceSkips DEF Skips
<1>3. PICK to \in from..(n + 2) : to = KeyEnd(from)
  BY <1>1, <1>2, KeyEndIs
<1>4. to <= n /\ pos' = SkipWitespace(to + 1)
  BY <1>2, <1>3 DEF Key
<1>5. Skips(to + 1, pos', {"blank"})
  BY <1>1, <1>2, <1>4, SkipWitespaceSkips
<1> QED BY <1>2, <1>4, <1>5 DEF Skips

\* Only the kind of the last member is set.
LEMMA SetKindSets ==
    ASSUME MembersOK, Len(members) >= 1, NEW kind \in Kinds, SetKind(kind)
    PROVE  /\ members' \in Seq([depth : Nat, from : Nat, to : Nat, kind : Kinds])
           /\ Len(members') = Len(members)
           /\ \A i \in 1..Len(members) :
                 /\ members'[i].from = members[i].from /\ members'[i].to = members[i].to
                 /\ i # Len(members) => members'[i] = members[i]
           /\ members'[Len(members)].kind = kind
<1> DEFINE R == [depth : Nat, from : Nat, to : Nat, kind : Kinds]
<1>0. members \in Seq(R)
  BY DEF MembersOK
<1> HIDE DEF R
<1> PICK l \in Nat : l = Len(members)
  BY <1>0, Elements
<1>1. members \in Seq(R) /\ l \in 1..Len(members) /\ members[l] \in R
  BY <1>0, Elements
<1> PICK x : x = [members[l] EXCEPT !.kind = kind]
  OBVIOUS
<1>2. x \in R /\ x.from = members[l].from /\ x.to = members[l].to /\ x.kind = kind
  BY <1>1 DEF R
<1>3. members' = [members EXCEPT ![l] = x]
  BY DEF SetKind
<1>4. /\ members' \in Seq(R) /\ Len(members') = Len(members)
      /\ \A i \in 1..l : i # l => members'[i] = members[i]
      /\ members'[l] = x
  BY <1>1, <1>2, <1>3, Replaces
<1>5. \A i \in 1..l : members'[i].from = members[i].from /\ members'[i].to = members[i].to
  BY <1>2, <1>4
<1> QED BY <1>2, <1>4, <1>5 DEF R

\* What SubDocument and Trivial have in common.
LEMMA ValueKeeps ==
    ASSUME ParseInv, NEW kind \in Kinds, SetKind(kind),
           step = "value", step' = "doc", text' = text, behind' = behind, depth' \in Nat \ {0},
           pos' \in pos..(Len(text) + 1), \A j \in pos..(pos' - 1) : text[j] # "nl",
           kind = "int" => \A j \in pos..(LineEnd(pos) - 1) : text[j] \in Digits,
           kind = "float" => pos = Len(text) + 1
    PROVE  ParseInv'
<1> PICK n \in Nat : n = Len(text)
  BY Characters DEF ParseInv, ParseTypeOK
<1> PICK l \in Nat : l = Len(members)
  BY Elements DEF ParseInv, MembersOK
<1> PICK at \in 1..(n + 1) : at = pos
  BY DEF ParseInv, ParseTypeOK
<1> PICK new : new = members'
  OBVIOUS
<1>0. PICK next \in at..(n + 1) : next = pos'
  OBVIOUS
<1>1. l >= 1 /\ at = SkipWitespace(members[l].to + 1)
  BY DEF ParseInv, AtValue
<1>2. /\ new \in Seq([depth : Nat, from : Nat, to : Nat, kind : Kinds])
      /\ Len(new) = l
      /\ \A i \in 1..l : new[i].from = members[i].from /\ new[i].to = members[i].to
      /\ \A i \in 1..l : i # l => new[i] = members[i]
      /\ new[l].kind = kind
  BY <1>1, SetKindSets DEF ParseInv
<1>3. MembersOK'
  <2>1. \A i \in 1..l : new[i].from >= 1 /\ new[i].to <= n
    BY <1>2 DEF ParseInv, MembersOK
  <2> QED BY <1>2, <2>1 DEF MembersOK
<1>4. ParseTypeOK'
  <2>1. \A i \in 1..l : new[i].kind \in Kinds
    <3>1. \A i \in 1..l : members[i].kind \in Kinds
      BY DEF ParseInv, ParseTypeOK, Kinds
    <3> QED BY <1>2, <3>1
  <2>2. /\ text' \in Seq(Classes) /\ behind' \in {"colon", "other"}
        /\ pos' \in 1..(Len(text') + 1) /\ step' = "doc"
    BY DEF ParseInv, ParseTypeOK
  <2> QED BY <1>2, <2>1, <2>2 DEF ParseTypeOK, Kinds
<1>5. AtValue' /\ OnlyEscapesBreakIt'
  BY DEF AtValue, OnlyEscapesBreakIt
<1>6. BreaksSoFar'
  <2>1. ASSUME NEW j \in 1..(next - 1), text[j] = "nl"
        PROVE  \E i \in 1..l : new[i].from <= j /\ j < new[i].to
    <3>1. j \in 1..(pos - 1)
      <4>1. ~(j \in at..(next - 1))
        BY <1>0, <2>1
      <4> QED BY <2>1, <4>1
    <3>2. PICK i \in 1..l : members[i].from <= j /\ j < members[i].to
      BY <2>1, <3>1 DEF ParseInv, BreaksSoFar, InKey
    <3> QED BY <1>2, <3>2
  <2> QED BY <1>0, <1>2, <2>1 DEF BreaksSoFar, InKey
<1>7. NumbersAreWholeLines'
  <2>1. \A i \in 1..l : NumberOK(members[i])
    BY NumbersAreOK DEF ParseInv
  <2>2. NumberOK(new[l])
    <3>1. l \in 1..l /\ new[l].to = members[l].to
      BY <1>1, <1>2
    <3>2. SkipWitespace(new[l].to + 1) = pos
      BY <1>1, <3>1
    <3> QED BY <1>2, <3>2 DEF NumberOK
  <2>3. \A i \in 1..l : NumberOK(new[i])
    BY <1>2, <2>1, <2>2
  <2> QED BY <1>2, <2>3, NumbersMove
<1> QED BY <1>3, <1>4, <1>5, <1>6, <1>7 DEF ParseInv

LEMMA SubDocumentKeeps == ParseInv /\ SubDocument => ParseInv'
<1> SUFFICES ASSUME ParseInv, SubDocument PROVE ParseInv' OBVIOUS
<1>1. /\ step = "value" /\ step' = "doc" /\ SetKind("doc") /\ "doc" \in Kinds
      /\ text' = text /\ behind' = behind /\ pos' = pos
  BY DEF SubDocument, Kinds
<1>2. depth' \in Nat \ {0} /\ pos \in 1..(Len(text) + 1) /\ Len(text) \in Nat
  BY Characters DEF SubDocument, ParseInv, ParseTypeOK
<1>3. pos' \in pos..(Len(text) + 1) /\ \A j \in pos..(pos' - 1) : text[j] # "nl"
  BY <1>1, <1>2
<1> QED BY <1>1, <1>2, <1>3, ValueKeeps

LEMMA TrivialKeeps == ParseInv /\ Trivial => ParseInv'
<1> SUFFICES ASSUME ParseInv, Trivial PROVE ParseInv' OBVIOUS
<1>1. /\ step = "value" /\ step' = "doc" /\ SetKind(Kind(pos)) /\ RawPeek(pos) # "nl"
      /\ text' = text /\ behind' = behind /\ pos' = LineEnd(pos) /\ depth' = depth
  BY DEF Trivial
<1>2. /\ text \in Seq(Classes) /\ depth \in Nat \ {0} /\ pos \in 1..(Len(text) + 1)
  BY DEF ParseInv, ParseTypeOK
<1>3. Skips(pos, pos', Classes \ {"nl"})
  BY <1>1, <1>2, LineEndSkips
<1>4. pos' \in pos..(Len(text) + 1) /\ \A j \in pos..(pos' - 1) : text[j] # "nl"
  BY <1>3 DEF Skips
<1>5. /\ Kind(pos) \in Kinds
      /\ Kind(pos) = "int" => \A j \in pos..(LineEnd(pos) - 1) : text[j] \in Digits
      /\ Kind(pos) = "float" => pos = Len(text) + 1
  BY <1>1, <1>2, KindIsHonest DEF Kinds
<1> QED BY <1>1, <1>2, <1>4, <1>5, ValueKeeps

LEMMA StutterKeeps == ParseInv /\ UNCHANGED parseVars => ParseInv'
<1> SUFFICES ASSUME ParseInv, UNCHANGED parseVars PROVE ParseInv' OBVIOUS
<1>1. UNCHANGED <<text, behind, pos, step, depth, members>>
  BY DEF parseVars
<1>2. ParseTypeOK' /\ MembersOK' /\ BreaksSoFar' /\ OnlyEscapesBreakIt'
  BY <1>1 DEF ParseInv, ParseTypeOK, MembersOK, BreaksSoFar, InKey, OnlyEscapesBreakIt
<1>4. AtValue'
  BY <1>1, ZenonT(60) DEF ParseInv, AtValue, SkipWitespace, SkipAll, RawPeek
<1>3. NumbersAreWholeLines'
  BY <1>1, NumbersAreOK, NumbersMove DEF ParseInv
<1> QED BY <1>1, <1>2, <1>3, <1>4 DEF ParseInv

LEMMA ParseInvariance == ParseSpec => []ParseInv
<1>1. ParseInit => ParseInv
  BY ParseInvInit
<1>2. ParseInv /\ [ParseNext]_parseVars => ParseInv'
  BY ReturnKeeps, KeyKeeps, SubDocumentKeeps, TrivialKeeps, StutterKeeps DEF ParseNext
<1> QED BY <1>1, <1>2, PTL DEF ParseSpec

-----------------------------------------------------------------------------
\* For any set of texts, of any length: the parser's iterator stays in the text or
\* at its end, and the members' values are of the kinds parse_trivial makes.
THEOREM ConfigTypeCorrect == ParseSpec => []ParseTypeOK
BY ParseInvariance, PTL DEF ParseInv

\* Whatever the text: only a backslash at its very end takes the iterator out of it
\* (config.cpp:85), and only an escaped colon fails assertChar(':') (config.cpp:246),
\* the colon that may be behind a backslash at the end included.
THEOREM OnlyEscapesBreak == ParseSpec => []OnlyEscapesBreakIt
BY ParseInvariance, PTL DEF ParseInv

\* Whatever the text: parseToEndOfLine makes an Int of digits and nothing else, up
\* to the end of their line, and a Float of nothing.
THEOREM NumbersAreLines == ParseSpec => []NumbersAreWholeLines
BY ParseInvariance, PTL DEF ParseInv

\* Whatever the text: where parse_doc has come to the end, every line end it met is
\* part of the key of some member.
THEOREM NoLineIsSkipped == ParseSpec => []BreaksAreInKeys
<1>1. ASSUME ParseInv, step = "done", NEW j \in 1..Len(text), text[j] = "nl"
      PROVE \E i \in 1..Len(members) : members[i].from <= j /\ j < members[i].to
  <2>1. BreaksSoFar /\ pos = Len(text) + 1
    BY <1>1 DEF ParseInv
  <2>2. j \in 1..(pos - 1)
    BY <2>1, Characters, <1>1 DEF ParseInv, ParseTypeOK
  <2> QED BY <1>1, <2>1, <2>2 DEF BreaksSoFar, InKey
<1>2. ParseInv => BreaksAreInKeys
  BY <1>1 DEF BreaksAreInKeys
<1> QED BY <1>2, ParseInvariance, PTL

\* parse_doc and its recursion come to an end: whatever the text, each step leaves
\* less to do, in natural numbers, a sub document less than the key before it gave.
\* (That a step is taken is the fairness, which ParseEnds leaves to TLC.)
THEOREM ParseShrinks == ParseSpec => [][Left' < Left /\ Left \in Nat /\ Left' \in Nat]_parseVars
<1>1. ASSUME ParseInv, ParseNext PROVE Left' < Left /\ Left \in Nat /\ Left' \in Nat
  <2>1. PICK n \in Nat : n = Len(text)
    BY <1>1, Characters DEF ParseInv, ParseTypeOK
  <2> PICK at \in 1..(n + 1), d \in Nat : at = pos /\ d = depth /\ d >= 1
    BY <1>1, <2>1 DEF ParseInv, ParseTypeOK
  <2>2. text' = text /\ Len(text') = n
    BY <1>1, <2>1 DEF ParseNext, Return, Key, SubDocument, Trivial
  <2>3. CASE Return
    <3>1. pos' = pos /\ step = "doc"
          /\ \/ step' = "done" /\ depth' = d
             \/ step' = "doc" /\ depth' = d - 1
      BY <2>3 DEF Return
    <3> QED BY <2>1, <2>2, <3>1 DEF Left
  <2>4. CASE Key
    <3>1. depth' = d /\ step = "doc"
      BY <2>4 DEF Key
    <3>2. CASE step' # "value"
      <4>1. pos' = pos /\ step' \in {"throw", "abort", "overrun"}
        BY <2>4, <3>2 DEF Key
      <4> QED BY <2>1, <2>2, <3>1, <4>1 DEF Left
    <3>3. CASE step' = "value"
      <4>1. pos' \in (pos + 1)..(n + 1)
        BY <1>1, <2>1, <2>4, <3>3, KeyAdvances
      <4> QED BY <2>1, <2>2, <3>1, <3>3, <4>1 DEF Left
    <3> QED BY <3>2, <3>3
  <2>5. CASE SubDocument
    <3>1. pos' = pos /\ step = "value" /\ step' = "doc" /\ depth' = d + 1
      BY <2>5 DEF SubDocument
    <3> QED BY <2>1, <2>2, <3>1 DEF Left
  <2>6. CASE Trivial
    <3>1. pos' = LineEnd(pos) /\ step = "value" /\ step' = "doc" /\ depth' = d
      BY <2>6 DEF Trivial
    <3>2. pos' \in at..(n + 1)
      BY <1>1, <2>1, <3>1, LineEndSkips DEF ParseInv, ParseTypeOK, Skips
    <3> QED BY <2>1, <2>2, <3>1, <3>2 DEF Left
  <2> QED BY <1>1, <2>3, <2>4, <2>5, <2>6 DEF ParseNext
<1>2. ParseInv /\ [ParseNext]_parseVars
        => [Left' < Left /\ Left \in Nat /\ Left' \in Nat]_parseVars
  BY <1>1
<1> QED BY <1>2, ParseInvariance, PTL DEF ParseSpec
=============================================================================
