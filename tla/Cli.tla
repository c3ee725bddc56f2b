-------------------------------- MODULE Cli --------------------------------
(***************************************************************************)
(* The command line of src/src/cli.cpp: Cli::parse and the option parser   *)
(* behind it, as far as main, which dispatches on the result.              *)
(*                                                                         *)
(* An argument is a sequence of symbols: a character, or the whole name of *)
(* a long option or a sub command.  argv ends with a null pointer, an      *)
(* argument with NUL.  Of the tables of options only noneOptConfigs is     *)
(* defined in the repository, the others are external.                     *)
(***************************************************************************)
EXTENDS Integers, Sequences, FiniteSetsExt

CONSTANTS
    Names, Args,   \* what the executable may be called, and its arguments
    MaxArgs,       \* bound on their number
    subCommandMap, \* the sub command of each known first argument
    otherOptConfigs,  \* the options of each sub command other than None
    NUL

SubCommands == DOMAIN otherOptConfigs \cup {"None"}

ASSUME BoundAssumption == MaxArgs \in Nat
\* The NUL that ends an argument is no dash, and not in it.
ASSUME ArgsAssumption ==
    /\ NUL # "-"
    /\ \A a \in Names \cup Args : a \in Seq({a[i] : i \in DOMAIN a} \ {NUL})
ASSUME TablesAssumption ==
    \A w \in DOMAIN subCommandMap : subCommandMap[w] \in DOMAIN otherOptConfigs

VARIABLES
    line,         \* argv
    pc,
    argc, argv,   \* argc_, and the position argv_ points to
    subCommand,   \* subCommand_ of Cli
    optConfig,    \* the local of ArgumentParser::parse
    argList,
    opts,         \* the bits set in opts_
    optArgsMap,   \* the lists of optArgsMap_, as pairs of mask and list
    handler       \* what main has called

vars == <<line, pc, argc, argv, subCommand, optConfig, argList, opts, optArgsMap, handler>>

-----------------------------------------------------------------------------
(***************************************************************************)
(* CharStream: its text and its iterator.                                  *)
(***************************************************************************)
Reset(arg) == [data |-> arg, iter |-> 1]

At(s, k) == [s EXCEPT !.iter = k]
End(s)   == Len(s.data) + 1

Char(s) == IF s.iter < End(s) THEN s.data[s.iter] ELSE NUL

IsWhiteSpace(s) == Char(s) = " "

\* Defect variants (...With..., ...Without...): no specification uses them.
\* Each is the definition that follows it with one plausible change.

\* hasNext the right way round.
HasNextWithoutInversion(s) == s.iter # End(s)

\* True at the end of the text, and nowhere else.
HasNext(s) == s.iter = End(s)

\* peek(), and what next() returns; After is what next() leaves behind.
Peek(s)  == IF HasNext(s) THEN Char(s) ELSE NUL
After(s) == IF HasNext(s) THEN At(s, s.iter + 1) ELSE s

SkipWhiteSpace(s) ==
    At(s, Min({k \in s.iter..End(s) : ~(HasNext(At(s, k)) /\ IsWhiteSpace(At(s, k)))}))

Token(s) ==
    LET from == SkipWhiteSpace(s)
        to   == Min({k \in from.iter..End(s) + 1 :
                        ~HasNext(At(s, k)) \/ IsWhiteSpace(At(s, k))})
    IN SubSeq(s.data, from.iter, to - 1)

(***************************************************************************)
(* The options.                                                            *)
(***************************************************************************)
OptConfig(mask, short, long, withArg) ==
    [mask |-> mask, shortName |-> short, longName |-> <<long>>, withArg |-> withArg]

noneOptConfigs == {OptConfig("VERSION", "v", "version", FALSE),
                   OptConfig("HELP", "h", "help", FALSE)}

\* A pointer nothing was assigned to, and an exception of findOptConfig.
Wild   == [mask |-> "wild"]
Thrown == [mask |-> "thrown"]

CurrOptConfigs ==
    IF subCommand = "None" THEN noneOptConfigs ELSE otherOptConfigs[subCommand]

IsAnOption(arg) == Len(arg) > 0 /\ arg[1] = "-"

\* The options an argument names, in order: the branches at cli.cpp:84.  The loop
\* over short options looks for white space only, and throws on the NUL.
Named(arg) ==
    LET s  == SkipWhiteSpace(Reset(arg))
        s2 == After(s)
        s3 == SkipWhiteSpace(s2)
        Find(f, name) == LET found == {c \in CurrOptConfigs : c[f] = name} IN
                         IF found = {} THEN Thrown ELSE CHOOSE c \in found : TRUE
        white == {k \in s3.iter..End(s) : IsWhiteSpace(At(s, k))}
    IN
    IF Peek(s) # "-" THEN <<>>
    ELSE IF Peek(s2) = "-" THEN <<Find("longName", Token(After(s2)))>>
    ELSE IF white = {} THEN <<Thrown>>
    ELSE [i \in 1..Min(white) - s3.iter |->
             Find("shortName", Peek(At(s, s3.iter + i - 1)))]

-----------------------------------------------------------------------------
Init ==
    /\ \E n \in Names, k \in 0..MaxArgs : \E l \in [1..k -> Args] : line = <<n>> \o l
    /\ pc = "cli" /\ argc = Len(line) /\ argv = 1
    /\ subCommand = "None" /\ optConfig = Wild
    /\ argList = <<>> /\ opts = {} /\ optArgsMap = {} /\ handler = "none yet"

\* Cli::parse.  Before an option the executable's name is not skipped.
CliParse ==
    /\ pc = "cli"
    /\ \/ /\ argc >= 2 /\ IsAnOption(line[2])
          /\ pc' = "loop" /\ subCommand' = "None" /\ UNCHANGED <<argc, argv>>
       \/ /\ argc >= 2 /\ ~IsAnOption(line[2]) /\ line[2] \in DOMAIN subCommandMap
          /\ pc' = "loop" /\ subCommand' = subCommandMap[line[2]]
          /\ argc' = argc - 2 /\ argv' = argv + 2
       \/ /\ argc >= 2 => ~IsAnOption(line[2]) /\ line[2] \notin DOMAIN subCommandMap
          /\ pc' = "main" /\ UNCHANGED <<subCommand, argc, argv>>
    /\ UNCHANGED <<line, optConfig, argList, opts, optArgsMap, handler>>

\* The loop of ArgumentParser::parse: the next argument, if it is an option.
Loop ==
    /\ pc = "loop"
    /\ \/ /\ argc > 0 => ~IsAnOption(line[argv])
          /\ pc' = "main" /\ UNCHANGED <<argc, argv, optConfig, opts>>
       \/ /\ argc > 0 /\ IsAnOption(line[argv])
          /\ argc' = argc - 1 /\ argv' = argv + 1
          /\ LET named == Named(line[argv]) IN
             IF \E i \in DOMAIN named : named[i] = Thrown
             THEN pc' = "thrown" /\ UNCHANGED <<optConfig, opts>>
             ELSE /\ pc' = "withArg"
                  /\ optConfig' = IF named = <<>> THEN optConfig ELSE named[Len(named)]
                  /\ opts' = opts \cup {named[i].mask : i \in DOMAIN named}
    /\ UNCHANGED <<line, subCommand, argList, optArgsMap, handler>>

\* What optConfig points to: for a wild pointer nothing, or anything.
Pointee == IF optConfig # Wild THEN {optConfig}
           ELSE UNION {otherOptConfigs[c] : c \in DOMAIN otherOptConfigs}

\* optConfig->withArg is read, also when nothing was assigned to optConfig.
ReadWithArg ==
    /\ pc = "withArg"
    /\ \/ \E c \in Pointee : c.withArg /\ pc' = "collect"
       \/ \E c \in Pointee : ~c.withArg /\ pc' = "loop"
       \/ optConfig = Wild /\ pc' = "wild"
    /\ argList' = <<>>
    /\ UNCHANGED <<line, argc, argv, subCommand, optConfig, opts, optArgsMap, handler>>

\* The null pointer is counted before it is looked at.
CollectWithNull ==
    /\ pc = "collect"
    /\ argc' = argc - 1
    /\ IF argv > Len(line) THEN pc' = "null" /\ UNCHANGED <<argv, argList>>
       ELSE argv' = argv + 1 /\ pc' = pc /\ argList' = Append(argList, line[argv])
    /\ UNCHANGED <<line, subCommand, optConfig, opts, optArgsMap, handler>>

\* The loop runs to the end of argv.
CollectWithOptions ==
    /\ pc = "collect"
    /\ IF argv > Len(line)
       THEN pc' = "null" /\ UNCHANGED <<argc, argv, argList>>
       ELSE /\ argList' = Append(argList, line[argv]) /\ pc' = pc
            /\ argc' = argc - 1 /\ argv' = argv + 1
    /\ UNCHANGED <<line, subCommand, optConfig, opts, optArgsMap, handler>>

\* The arguments of an option, one at a time, to the next option; emplace keeps
\* the list that is there.  The null pointer at the end of argv is dereferenced.
Collect ==
    /\ pc = "collect"
    /\ \/ /\ argv > Len(line) /\ pc' = "null"
          /\ UNCHANGED <<argc, argv, argList, optArgsMap>>
       \/ /\ argv <= Len(line) /\ IsAnOption(line[argv]) /\ pc' = "loop"
          /\ \E c \in Pointee :
                optArgsMap' = IF \E e \in optArgsMap : e[1] = c.mask THEN optArgsMap
                              ELSE optArgsMap \cup {<<c.mask, argList>>}
          /\ UNCHANGED <<argc, argv, argList>>
       \/ /\ argv <= Len(line) /\ ~IsAnOption(line[argv]) /\ pc' = pc
          /\ argList' = Append(argList, line[argv])
          /\ argc' = argc - 1 /\ argv' = argv + 1
          /\ UNCHANGED optArgsMap
    /\ UNCHANGED <<line, subCommand, optConfig, opts, handler>>

\* processNoneSubCommand asks for a bit of opts_, which is set or not from the
\* beginning: nothing initialises it.
NoneHandlers == {"version", "usage"}

\* main dispatches on subCommand_ of Arguments, which parse leaves as it was: any.
Dispatch ==
    /\ pc = "main" /\ pc' = "returned"
    /\ handler' \in DOMAIN otherOptConfigs \cup NoneHandlers
    /\ UNCHANGED <<line, argc, argv, subCommand, optConfig, argList, opts, optArgsMap>>

Next == CliParse \/ Loop \/ ReadWithArg \/ Collect \/ Dispatch

Spec == Init /\ [][Next]_vars

-----------------------------------------------------------------------------
Ends == {"returned", "thrown", "wild", "null"}

TypeOK ==
    /\ line[1] \in Names /\ \A i \in 2..Len(line) : line[i] \in Args
    /\ pc \in {"cli", "loop", "withArg", "collect", "main"} \cup Ends
    /\ argc \in 0..Len(line) /\ argv \in 1..Len(line) + 1
    \* argc_ counts what lies between argv_ and the null pointer.
    /\ argc = Len(line) + 1 - argv
    /\ optConfig \in {Wild} \cup Pointee /\ subCommand \in SubCommands
    /\ handler \in DOMAIN otherOptConfigs \cup NoneHandlers \cup {"none yet"}
    /\ \A e \in optArgsMap : \A i \in DOMAIN e[2] : e[2][i] \in Args

\* hasNext is inverted (cli.cpp:231): no option of any command line is recognised,
\* and none is refused as unknown.  So optConfig is read without a value
\* (cli.cpp:112) whenever the parser gets to an option, and only then: for a known
\* sub command that is followed by one, and after the name of an executable that is
\* one.  An option in the first place is never looked at: argv_ is still at the name.
WildReadCause ==
    /\ opts = {} /\ optConfig = Wild /\ pc # "thrown"
    /\ pc \in {"withArg", "collect", "wild", "null"} =>
          IF IsAnOption(line[2]) THEN IsAnOption(line[1])
          ELSE line[2] \in DOMAIN subCommandMap /\ Len(line) >= 3 /\ IsAnOption(line[3])

\* The list loop runs into the null pointer of argv (cli.cpp:115) over the arguments
\* of the last option, which is an option, with no other behind it.
NullAfterLastOption ==
    pc = "null" =>
        LET last == Len(line) - Len(argList) IN
        IsAnOption(line[last]) /\ \A i \in last + 1..Len(line) : ~IsAnOption(line[i])
=============================================================================
