----------------------------- MODULE CgroupPath -----------------------------
(***************************************************************************)
(* getCGroupPath of src/src/cgroups/utils.cpp, called by several           *)
(* processes with the same cgroup path: the search for the subsystem's     *)
(* mount point in /proc/self/mountinfo, then the directory below it.       *)
(*                                                                         *)
(* A line of mountinfo is its mount point and its last field, the options, *)
(* split at the commas.  The directories are those that exist at the       *)
(* cgroup path below each mount point.                                     *)
(***************************************************************************)
EXTENDS Integers, Sequences

CONSTANTS
    Callers,
    Subsystem,   \* what each call looks for
    AutoCreate,  \* the calls whose autoCreate is true
    Mountinfos,  \* what /proc/self/mountinfo may contain: sequences of lines
    NoRoot,      \* the empty string findCGroupMountpoint returns for nothing
    Elsewhere,   \* where a path joined to NoRoot may lie: "/", or the working directory
    DirsBefore,  \* the directories there before the first call
    MaxFaults    \* bound on failing calls

Points == UNION {{m[i].point : i \in DOMAIN m} : m \in Mountinfos}

ASSUME CallsAssumption == AutoCreate \subseteq Callers /\ MaxFaults \in Nat
ASSUME LinesAssumption ==
    \A m \in Mountinfos : m \in Seq([point : STRING, options : Seq(STRING) \ {<<>>}])
ASSUME NamesAssumption == /\ NoRoot \notin Points \cup Elsewhere
                          /\ DirsBefore \subseteq Points \cup Elsewhere

VARIABLES
    info,    \* the lines of mountinfo
    pc,      \* control of each call
    line,    \* the line of mountinfo it is at
    root,    \* what findCGroupMountpoint returned
    target,  \* below which mount point the joined path lies
    dirs,    \* the directories there are now
    faults

vars == <<info, pc, line, root, target, dirs, faults>>

Steps == {"open", "line", "options", "join", "access", "mkdir"}
Ends  == {"returned", "thrown", "exited", "hung"}

-----------------------------------------------------------------------------
Init ==
    /\ info \in Mountinfos
    /\ pc = [c \in Callers |-> "open"]
    /\ line = [c \in Callers |-> 1]
    /\ root = [c \in Callers |-> NoRoot]
    /\ target = [c \in Callers |-> NoRoot]
    /\ dirs = DirsBefore
    /\ faults = 0

Goto(c, from, to) == pc[c] = from /\ pc' = [pc EXCEPT ![c] = to]

Fault == faults < MaxFaults /\ faults' = faults + 1

(***************************************************************************)
(* findCGroupMountpoint                                                    *)
(***************************************************************************)
Open(c) ==
    /\ \/ Goto(c, "open", "line") /\ UNCHANGED faults
       \/ Goto(c, "open", "join") /\ Fault
    /\ UNCHANGED <<info, line, root, target, dirs>>

GetLine(c) ==
    /\ Goto(c, "line", IF line[c] > Len(info) THEN "join" ELSE "options")
    /\ UNCHANGED <<info, line, root, target, dirs, faults>>

\* Defect variants (...With..., ...Without...): no specification uses them.
\* Each is the definition that follows it with one plausible bug.

\* The loop ends with the field: another lone option is passed over.
FieldExistsWithoutHang(c) ==
    /\ pc[c] = "options"
    /\ IF info[line[c]].options = <<Subsystem[c]>>
       THEN /\ Goto(c, "options", "join") /\ UNCHANGED line
            /\ root' = [root EXCEPT ![c] = info[line[c]].point]
       ELSE /\ Goto(c, "options", "line") /\ UNCHANGED root
            /\ line' = [line EXCEPT ![c] = @ + 1]
    /\ UNCHANGED <<info, target, dirs, faults>>

\* fieldExists.  Its loop runs while there is no comma: a lone option is
\* compared, and if it is another one, again for ever; of several options only
\* the whole field is compared, which no subsystem equals.
FieldExists(c) ==
    LET options == info[line[c]].options IN
    /\ pc[c] = "options"
    /\ \/ /\ options = <<Subsystem[c]>> /\ Goto(c, "options", "join")
          /\ root' = [root EXCEPT ![c] = info[line[c]].point]
          /\ UNCHANGED line
       \/ /\ Len(options) = 1 /\ options # <<Subsystem[c]>>
          /\ Goto(c, "options", "hung") /\ UNCHANGED <<line, root>>
       \/ /\ Len(options) > 1 /\ Goto(c, "options", "line")
          /\ line' = [line EXCEPT ![c] = @ + 1] /\ UNCHANGED root
    /\ UNCHANGED <<info, target, dirs, faults>>

(***************************************************************************)
(* getCGroupPath                                                           *)
(***************************************************************************)
\* pathJoin looks at the character before the beginning of an empty string.
PathJoin(c) ==
    /\ Goto(c, "join", "access")
    /\ \E t \in IF root[c] = NoRoot THEN Elsewhere ELSE {root[c]} :
          target' = [target EXCEPT ![c] = t]
    /\ UNCHANGED <<info, line, root, dirs, faults>>

\* autoCreate is not looked at.
AccessWithoutFlag(c) ==
    /\ \/ target[c] \in dirs /\ Goto(c, "access", "returned") /\ UNCHANGED faults
       \/ target[c] \notin dirs /\ Goto(c, "access", "mkdir") /\ UNCHANGED faults
    /\ UNCHANGED <<info, line, root, target, dirs>>

\* access(): whatever keeps it from succeeding counts as missing.
Access(c) ==
    /\ \/ target[c] \in dirs /\ Goto(c, "access", "returned") /\ UNCHANGED faults
       \/ /\ Goto(c, "access", IF c \in AutoCreate THEN "mkdir" ELSE "thrown")
          /\ \/ target[c] \notin dirs /\ UNCHANGED faults
             \/ target[c] \in dirs /\ Fault
    /\ UNCHANGED <<info, line, root, target, dirs>>

\* A failed mkdir cleans up.
MkdirWithCleanup(c) ==
    /\ \/ /\ target[c] \notin dirs /\ Goto(c, "mkdir", "returned")
          /\ dirs' = dirs \cup {target[c]}
       \/ /\ target[c] \in dirs /\ Goto(c, "mkdir", "exited")
          /\ dirs' = dirs \ {target[c]}
    /\ UNCHANGED <<info, line, root, target, faults>>

\* mkdir(), which fails when another call was faster; every failure exits.
Mkdir(c) ==
    /\ \/ /\ target[c] \notin dirs /\ Goto(c, "mkdir", "returned")
          /\ dirs' = dirs \cup {target[c]} /\ UNCHANGED faults
       \/ target[c] \in dirs /\ Goto(c, "mkdir", "exited") /\ UNCHANGED <<dirs, faults>>
       \/ Goto(c, "mkdir", "exited") /\ Fault /\ UNCHANGED dirs
    /\ UNCHANGED <<info, line, root, target>>

Step(c) == \/ Open(c) \/ GetLine(c) \/ FieldExists(c)
           \/ PathJoin(c) \/ Access(c) \/ Mkdir(c)

Next == \E c \in Callers : Step(c)

Spec == Init /\ [][Next]_vars

-----------------------------------------------------------------------------
TypeOK ==
    /\ info \in Mountinfos
    /\ pc \in [Callers -> Steps \cup Ends]
    /\ line \in [Callers -> 1..(Len(info) + 1)]
    /\ root \in [Callers -> Points \cup {NoRoot}]
    /\ target \in [Callers -> Points \cup Elsewhere \cup {NoRoot}]
    /\ dirs \subseteq Points \cup Elsewhere
    /\ faults \in 0..MaxFaults

\* A path that getCGroupPath has returned is there, and when the race between
\* access and mkdir makes a call exit, another one's directory is there.
LoserLeavesDirectory ==
    \A c \in Callers : pc[c] = "returned" \/ (pc[c] = "exited" /\ faults = 0) => target[c] \in dirs

\* Every directory that was not there before is the one some call with autoCreate
\* has returned: a call without it never creates one, whatever it finds in
\* mountinfo and whoever else is between access and mkdir (utils.cpp:104-112).
OnlyAutoCreateCreates ==
    /\ DirsBefore \subseteq dirs
    /\ \A d \in dirs \ DirsBefore : \E c \in AutoCreate : pc[c] = "returned" /\ target[c] = d

\* The lines whose last field is a single option; the first of them decides.
Lone == {i \in DOMAIN info : Len(info[i].options) = 1}
Decides(i) == i \in Lone /\ \A j \in Lone : i <= j

\* The search ends at the first line with a single option, whatever stands before
\* it: it has found its mount point there or goes round for ever.  A hierarchy that
\* is mounted with several options, the subsystem among them, is never found.  A
\* path outside every hierarchy (pathJoin of an empty mount point) is looked at,
\* and with autoCreate made, only if there is no such line or mountinfo could not
\* be read.
FirstLoneDecides ==
    \A c \in Callers :
        /\ root[c] # NoRoot => \E i \in DOMAIN info :
              Decides(i) /\ info[i].options = <<Subsystem[c]>> /\ info[i].point = root[c]
        /\ pc[c] = "hung" => \E i \in DOMAIN info :
              Decides(i) /\ info[i].options # <<Subsystem[c]>>
        /\ root[c] = NoRoot /\ target[c] # NoRoot => Lone = {} \/ faults > 0
=============================================================================
