-------------------------- MODULE CgroupPathProofs --------------------------
(***************************************************************************)
(* getCGroupPath for any number of callers, any mountinfo, any directories *)
(* to begin with and any bound on faults.                                  *)
(***************************************************************************)
EXTENDS CgroupPath, TLAPS

\* A line whose options are looked at is there, and the lines before it have
\* several options each.
LinesPassed ==
    \A c \in Callers :
        /\ pc[c] = "options" => line[c] <= Len(info)
        /\ \A i \in Lone : line[c] <= i

\* Nothing was found, and the search is over.
NothingFound ==
    \A c \in Callers : pc[c] = "join" /\ root[c] = NoRoot => Lone = {} \/ faults > 0

\* Only a call with autoCreate gets to mkdir(), and with a path.
MkdirAllowed ==
    \A c \in Callers : /\ pc[c] = "mkdir" => c \in AutoCreate
                       /\ pc[c] \in {"access", "mkdir"} => target[c] # NoRoot

IInv == /\ TypeOK /\ LinesPassed /\ NothingFound /\ MkdirAllowed
        /\ LoserLeavesDirectory /\ OnlyAutoCreateCreates /\ FirstLoneDecides

-----------------------------------------------------------------------------
LEMMA InfoType ==
    ASSUME info \in Mountinfos
    PROVE  /\ Len(info) \in Nat /\ DOMAIN info = 1..Len(info)
           /\ \A i \in 1..Len(info) : Len(info[i].options) \in Nat /\ info[i].point \in Points
           /\ Lone \subseteq 1..Len(info)
<1> DEFINE Line == [point : STRING, options : Seq(STRING) \ {<<>>}]
<1>1. info \in Seq(Line)
    BY LinesAssumption
<1> HIDE DEF Line
<1>2. Len(info) \in Nat /\ DOMAIN info = 1..Len(info)
    BY <1>1
<1>3. \A i \in 1..Len(info) : info[i] \in Line
    BY <1>1
<1>4. \A i \in 1..Len(info) : Len(info[i].options) \in Nat
    BY <1>3 DEF Line
<1>5. \A i \in 1..Len(info) : info[i].point \in Points
    BY <1>2 DEF Points
<1>6. Lone \subseteq 1..Len(info)
    BY <1>2 DEF Lone
<1>7. QED BY <1>2, <1>4, <1>5, <1>6

LEMMA IInvInit == Init => IInv
<1> SUFFICES ASSUME Init PROVE IInv OBVIOUS
<1>1. TypeOK
    BY InfoType, CallsAssumption, NamesAssumption DEF Init, TypeOK, Steps
<1>2. LinesPassed
    <2>1. \A i \in Lone : 1 <= i
        BY InfoType DEF Init
    <2>2. QED BY <2>1 DEF Init, LinesPassed
<1>3. NothingFound /\ MkdirAllowed
    BY DEF Init, NothingFound, MkdirAllowed
<1>4. LoserLeavesDirectory /\ OnlyAutoCreateCreates /\ FirstLoneDecides
    BY DEF Init, LoserLeavesDirectory, OnlyAutoCreateCreates, FirstLoneDecides
<1>5. QED BY <1>1, <1>2, <1>3, <1>4 DEF IInv

-----------------------------------------------------------------------------
LEMMA TypeStep ==
    ASSUME TypeOK, LinesPassed, MkdirAllowed, NEW c \in Callers, Step(c)
    PROVE  TypeOK'
<1> USE CallsAssumption DEF Step, TypeOK
<1>0. UNCHANGED info
    BY DEF Open, GetLine, FieldExists, PathJoin, Access, Mkdir
<1>1. pc' \in [Callers -> Steps \cup Ends]
    BY DEF Open, GetLine, FieldExists, PathJoin, Access, Mkdir, Goto, Steps, Ends
<1>2. line' \in [Callers -> 1..(Len(info) + 1)]
    BY InfoType DEF Open, GetLine, FieldExists, PathJoin, Access, Mkdir, LinesPassed
<1>3. root' \in [Callers -> Points \cup {NoRoot}]
    <2>1. CASE FieldExists(c)
        <3>1. info[line[c]].point \in Points
            BY <2>1, InfoType DEF FieldExists, LinesPassed
        <3>2. QED BY <2>1, <3>1 DEF FieldExists
    <2>2. CASE ~FieldExists(c)
        BY <2>2 DEF Open, GetLine, PathJoin, Access, Mkdir
    <2>3. QED BY <2>1, <2>2
<1>4. target' \in [Callers -> Points \cup Elsewhere \cup {NoRoot}]
    BY DEF Open, GetLine, FieldExists, PathJoin, Access, Mkdir
<1>5. dirs' \subseteq Points \cup Elsewhere
    <2>1. CASE Mkdir(c)
        <3>1. target[c] # NoRoot
            BY <2>1 DEF Mkdir, Goto, MkdirAllowed
        <3>2. QED BY <2>1, <3>1 DEF Mkdir
    <2>2. CASE ~Mkdir(c)
        BY <2>2 DEF Open, GetLine, FieldExists, PathJoin, Access
    <2>3. QED BY <2>1, <2>2
<1>6. faults' \in 0..MaxFaults
    BY DEF Open, GetLine, FieldExists, PathJoin, Access, Mkdir, Fault
<1>7. QED BY <1>0, <1>1, <1>2, <1>3, <1>4, <1>5, <1>6

\* The step of one call changes nothing that belongs to another one.
LEMMA OthersStay ==
    ASSUME TypeOK, NEW c \in Callers, Step(c)
    PROVE  /\ \A d \in Callers \ {c} : /\ pc'[d] = pc[d] /\ line'[d] = line[d]
                                       /\ root'[d] = root[d] /\ target'[d] = target[d]
           /\ UNCHANGED info /\ Lone' = Lone
           /\ dirs \subseteq dirs' /\ faults \in Nat /\ faults' \in Nat /\ faults <= faults'
<1>1. UNCHANGED info
    BY DEF Step, Open, GetLine, FieldExists, PathJoin, Access, Mkdir
<1>2. Lone' = Lone
    BY <1>1 DEF Lone
<1>3. dirs \subseteq dirs' /\ faults \in Nat /\ faults' \in Nat /\ faults <= faults'
    BY CallsAssumption
    DEF Step, Open, GetLine, FieldExists, PathJoin, Access, Mkdir, Fault, TypeOK
<1>4. \A d \in Callers \ {c} : /\ pc'[d] = pc[d] /\ line'[d] = line[d]
                               /\ root'[d] = root[d] /\ target'[d] = target[d]
    BY DEF Step, Open, GetLine, FieldExists, PathJoin, Access, Mkdir, Goto, TypeOK
<1>5. QED BY <1>1, <1>2, <1>3, <1>4

\* What the search knows after the step of a call: the lines it has passed, and
\* the line it ends at.
LEMMA SearchStep ==
    ASSUME IInv, NEW c \in Callers, Step(c)
    PROVE  LinesPassed' /\ NothingFound' /\ FirstLoneDecides'
<1> USE DEF IInv
<1>0. /\ info \in Mountinfos /\ info' = info /\ Lone' = Lone
      /\ \A d \in Callers \ {c} : /\ pc'[d] = pc[d] /\ line'[d] = line[d]
                                   /\ root'[d] = root[d] /\ target'[d] = target[d]
      /\ faults' > 0 \/ ~(faults > 0)
    BY OthersStay DEF TypeOK
<1>9. /\ Len(info) \in Nat /\ Lone \subseteq 1..Len(info)
      /\ \A i \in 1..Len(info) : Len(info[i].options) \in Nat /\ info[i].point \in Points
    BY <1>0, InfoType
<1>1. CASE FieldExists(c)
    <2> DEFINE options == info[line[c]].options
    <2>1. pc[c] = "options" /\ line[c] \in 1..Len(info) /\ UNCHANGED <<target, faults>>
        BY <1>1 DEF FieldExists, LinesPassed, TypeOK
    <2>2. Len(options) = 1 => Decides(line[c])
        BY <1>0, <1>9, <2>1 DEF LinesPassed, Lone, Decides
    <2>3. CASE options = <<Subsystem[c]>> /\ pc'[c] = "join" /\ UNCHANGED line
               /\ root' = [root EXCEPT ![c] = info[line[c]].point]
        <3>1. root'[c] = info[line[c]].point /\ root'[c] # NoRoot
            BY <1>0, <1>9, <2>1, <2>3, NamesAssumption DEF TypeOK
        <3>2. Decides(line[c])
            BY <2>2, <2>3
        <3>3. LinesPassed' /\ NothingFound'
            BY <1>0, <1>9, <2>1, <2>3, <3>1 DEF LinesPassed, NothingFound
        <3>4. FirstLoneDecides'
            BY <1>0, <1>9, <2>1, <2>3, <3>1, <3>2 DEF FirstLoneDecides, Decides
        <3>5. QED BY <3>3, <3>4
    <2>4. CASE Len(options) = 1 /\ options # <<Subsystem[c]>> /\ pc'[c] = "hung"
               /\ UNCHANGED <<line, root>>
        <3>1. Decides(line[c])
            BY <2>2, <2>4
        <3>2. LinesPassed' /\ NothingFound'
            BY <1>0, <1>9, <2>1, <2>4 DEF LinesPassed, NothingFound
        <3>3. FirstLoneDecides'
            BY <1>0, <1>9, <2>1, <2>4, <3>1 DEF FirstLoneDecides, Decides
        <3>4. QED BY <3>2, <3>3
    <2>5. CASE Len(options) > 1 /\ pc'[c] = "line" /\ UNCHANGED root
               /\ line' = [line EXCEPT ![c] = @ + 1]
        <3>1. line[c] \notin Lone
            <4>1. Len(options) \in Nat /\ Len(options) > 1
                BY <1>9, <2>1, <2>5
            <4>2. \A n \in Nat : n > 1 => n # 1
                OBVIOUS
            <4>3. Len(options) # 1
                BY <4>1, <4>2, Zenon
            <4>4. QED BY <4>3 DEF Lone
        <3>2. line'[c] = line[c] + 1
            BY <2>5 DEF TypeOK
        <3>3. \A i \in Lone : line'[c] <= i
            BY <1>0, <1>9, <2>1, <3>1, <3>2 DEF LinesPassed
        <3>4. LinesPassed' /\ NothingFound'
            BY <1>0, <1>9, <2>1, <2>5, <3>3 DEF LinesPassed, NothingFound
        <3>5. FirstLoneDecides'
            BY <1>0, <1>9, <2>1, <2>5 DEF FirstLoneDecides, Decides
        <3>6. QED BY <3>4, <3>5
    <2>6. QED BY <1>1, <2>3, <2>4, <2>5 DEF FieldExists, Goto, TypeOK
<1>2. CASE GetLine(c)
    <2>1. /\ pc[c] = "line" /\ UNCHANGED <<line, root, target, faults>>
          /\ pc'[c] = IF line[c] > Len(info) THEN "join" ELSE "options"
        BY <1>2 DEF GetLine, Goto, TypeOK
    <2>2. LinesPassed'
        BY <1>0, <1>9, <2>1 DEF LinesPassed, TypeOK
    <2>3. line[c] > Len(info) => Lone = {}
        BY <1>9 DEF LinesPassed, TypeOK
    <2>4. NothingFound'
        BY <1>0, <1>9, <2>1, <2>3 DEF NothingFound
    <2>5. FirstLoneDecides'
        BY <1>0, <1>9, <2>1 DEF FirstLoneDecides, Decides
    <2>6. QED BY <2>2, <2>4, <2>5
<1>3. CASE Open(c)
    <2>1. /\ UNCHANGED <<line, root, target>> /\ pc'[c] \in {"line", "join"}
          /\ pc'[c] = "join" => faults' > 0
        BY <1>3 DEF Open, Goto, Fault, TypeOK
    <2>2. LinesPassed' /\ NothingFound'
        BY <1>0, <1>9, <2>1 DEF LinesPassed, NothingFound
    <2>3. FirstLoneDecides'
        BY <1>0, <1>9, <2>1 DEF FirstLoneDecides, Decides
    <2>4. QED BY <2>2, <2>3
<1>4. CASE PathJoin(c)
    <2>1. /\ pc[c] = "join" /\ pc'[c] = "access" /\ UNCHANGED <<line, root, faults>>
        BY <1>4 DEF PathJoin, Goto, TypeOK
    <2>2. LinesPassed' /\ NothingFound'
        BY <1>0, <1>9, <2>1 DEF LinesPassed, NothingFound
    <2>3. FirstLoneDecides'
        BY <1>0, <1>9, <2>1 DEF FirstLoneDecides, Decides, NothingFound
    <2>4. QED BY <2>2, <2>3
<1>5. CASE Access(c) \/ Mkdir(c)
    <2>1. /\ UNCHANGED <<line, root, target>>
          /\ pc'[c] \in {"mkdir", "returned", "thrown", "exited"}
        BY <1>5 DEF Access, Mkdir, Goto, TypeOK
    <2>2. LinesPassed' /\ NothingFound'
        BY <1>0, <1>9, <2>1 DEF LinesPassed, NothingFound
    <2>3. FirstLoneDecides'
        BY <1>0, <1>9, <2>1 DEF FirstLoneDecides, Decides
    <2>4. QED BY <2>2, <2>3
<1>6. QED BY <1>1, <1>2, <1>3, <1>4, <1>5 DEF Step

\* What a step does to the directories.
LEMMA DirStep ==
    ASSUME IInv, NEW c \in Callers, Step(c)
    PROVE  MkdirAllowed' /\ LoserLeavesDirectory' /\ OnlyAutoCreateCreates'
<1> USE DEF IInv
<1>0. /\ \A d \in Callers \ {c} : pc'[d] = pc[d] /\ target'[d] = target[d]
      /\ dirs \subseteq dirs' /\ faults \in Nat /\ faults' \in Nat /\ faults <= faults'
    BY OthersStay
<1>1. CASE Open(c) \/ GetLine(c) \/ FieldExists(c)
    <2>1. /\ pc[c] \in {"open", "line", "options"} /\ UNCHANGED <<target, dirs>>
          /\ pc'[c] \in {"line", "options", "join", "hung"}
        BY <1>1 DEF Open, GetLine, FieldExists, Goto, TypeOK
    <2>2. QED BY CallsAssumption, <1>0, <2>1 DEF MkdirAllowed, LoserLeavesDirectory, OnlyAutoCreateCreates
<1>2. CASE PathJoin(c)
    <2>1. pc[c] = "join" /\ pc'[c] = "access" /\ UNCHANGED dirs
        BY <1>2 DEF PathJoin, Goto, TypeOK
    <2>2. target'[c] # NoRoot
        BY <1>2, NamesAssumption DEF PathJoin, TypeOK
    <2>3. QED BY CallsAssumption, <1>0, <2>1, <2>2 DEF MkdirAllowed, LoserLeavesDirectory, OnlyAutoCreateCreates
<1>3. CASE Access(c)
    <2>1. /\ pc[c] = "access" /\ UNCHANGED <<target, dirs>>
          /\ \/ pc'[c] = "returned" /\ target[c] \in dirs
             \/ pc'[c] = "mkdir" /\ c \in AutoCreate
             \/ pc'[c] = "thrown"
        BY <1>3 DEF Access, Goto, TypeOK
    <2>2. QED BY CallsAssumption, <1>0, <2>1 DEF MkdirAllowed, LoserLeavesDirectory, OnlyAutoCreateCreates
<1>4. CASE Mkdir(c)
    <2>1. /\ pc[c] = "mkdir" /\ c \in AutoCreate /\ UNCHANGED target
          /\ \/ pc'[c] = "returned" /\ dirs' = dirs \cup {target[c]}
             \/ pc'[c] = "exited" /\ UNCHANGED dirs /\ (target[c] \in dirs \/ faults' > 0)
        BY <1>4 DEF Mkdir, Goto, Fault, MkdirAllowed, TypeOK
    <2>2. MkdirAllowed' /\ LoserLeavesDirectory'
        BY <1>0, <2>1 DEF MkdirAllowed, LoserLeavesDirectory
    <2>3. OnlyAutoCreateCreates'
        BY <1>0, <2>1, CallsAssumption DEF OnlyAutoCreateCreates
    <2>4. QED BY <2>2, <2>3
<1>5. QED BY <1>1, <1>2, <1>3, <1>4 DEF Step

-----------------------------------------------------------------------------
LEMMA IInvStep == IInv /\ [Next]_vars => IInv'
<1> SUFFICES ASSUME IInv, [Next]_vars PROVE IInv' OBVIOUS
<1>1. ASSUME NEW c \in Callers, Step(c) PROVE IInv'
    BY <1>1, TypeStep, SearchStep, DirStep DEF IInv
<1>2. CASE UNCHANGED vars
    BY <1>2 DEF vars, IInv, TypeOK, LinesPassed, NothingFound, MkdirAllowed,
                LoserLeavesDirectory, OnlyAutoCreateCreates, FirstLoneDecides, Lone, Decides
<1>3. QED BY <1>1, <1>2 DEF Next

LEMMA Invariant == Spec => []IInv
<1>1. QED BY IInvInit, IInvStep, PTL DEF Spec

\* Every variable keeps its type.
THEOREM TypeCorrect == Spec => []TypeOK
<1>1. IInv => TypeOK BY DEF IInv
<1>2. QED BY <1>1, Invariant, PTL

\* A path that was returned is there; so is the path of a call that another one
\* beat to mkdir().
THEOREM PathIsThere == Spec => []LoserLeavesDirectory
<1>1. IInv => LoserLeavesDirectory BY DEF IInv
<1>2. QED BY <1>1, Invariant, PTL

\* Calls without autoCreate make no directory, and directories do not go away.
THEOREM AutoCreateOnly == Spec => []OnlyAutoCreateCreates
<1>1. IInv => OnlyAutoCreateCreates BY DEF IInv
<1>2. QED BY <1>1, Invariant, PTL

\* The first line of mountinfo with a single option ends every search.
THEOREM LoneLineDecides == Spec => []FirstLoneDecides
<1>1. IInv => FirstLoneDecides BY DEF IInv
<1>2. QED BY <1>1, Invariant, PTL
=============================================================================
