------------------------- MODULE MemoryLimitProofs -------------------------
(***************************************************************************)
(* The memory cgroup demo, for any number of copies, any limit, any size   *)
(* of the workers, and any bound on faults and on kills.                   *)
(***************************************************************************)
EXTENDS MemoryLimit, FiniteSetTheorems, TLAPS

\* A parent that is about to clone has no child and has written nothing.
FreshParent == \A p \in Parents : ppc[p] = "clone" => child[p] = "none" /\ p \notin wrote

\* A worker lives below its stress only.
WorkerHasParent == \A p \in Parents : WorkerAlive(p) => child[p] = "stress"

\* A child that is alive after its parent's write was moved by that write.
WrittenIsAttached == \A p \in Parents : p \in wrote /\ ChildAlive(p) => p \in attached

\* Without a failing call, a parent loses mkdir() to another parent that won it.
LostToAnother ==
    \A p \in Parents : why[p] = "lost" /\ faults = 0 =>
        maker \in Parents \ {p} /\ why[maker] # "lost"

\* Why that is: a parent gets to mkdir() only where there is no group, and the
\* parent that makes the group is past mkdir() when there is one.
GroupMade ==
    /\ group = "absent" => maker = Nobody
    /\ maker \in Parents =>
          why[maker] # "lost" /\ ppc[maker] \notin {"clone", "access", "mkdir"}
    /\ \A p \in Parents :
          /\ ppc[p] = "mkdir" /\ group # "absent" /\ faults = 0 => maker \in Parents \ {p}
          /\ why[p] = "lost" /\ faults = 0 => maker \in Parents \ {p}
          /\ why[p] # "none" => ppc[p] = "failed"
          /\ ppc[p] \in {"openTasks", "writeTasks", "openLimit", "writeLimit", "wait"} =>
                group # "absent"

IInv == /\ TypeOK /\ FreshParent /\ WorkerHasParent /\ ReturnMeansGone
        /\ WrittenIsAttached /\ LaterBornInGroup /\ GroupMade

\* The steps of one parent, its child and its worker.
Step(p) == CloneChild(p) \/ ParentStep(p) \/ ChildStep(p) \/ Charge(p)
               \/ KillChild(p) \/ KillParent(p)

-----------------------------------------------------------------------------
LEMMA FaultType ==
    ASSUME TypeOK, Fault
    PROVE  faults' \in 0..MaxFaults /\ faults' # 0
BY BoundsAssumption DEF Fault, TypeOK

LEMMA KillType ==
    ASSUME TypeOK, kills < MaxKills, kills' = kills + 1
    PROVE  kills' \in 0..MaxKills
BY BoundsAssumption DEF TypeOK

\* What the death of a worker does, whoever it is.
LEMMA FreeFacts ==
    ASSUME TypeOK, NEW q \in Parents, Free(q)
    PROVE  /\ held' \in [Parents -> 0..Need]
           /\ worker' \in [Parents -> {"none", "alive", "dead"}]
           /\ inside' \in SUBSET Parents
           /\ worker'[q] = "dead"
           /\ \A p \in Parents \ {q} : worker'[p] = worker[p] /\ (p \in inside <=> p \in inside')
BY MemoryAssumption DEF Free, TypeOK

LEMMA IInvInit == Init => IInv
<1> SUFFICES ASSUME Init PROVE IInv OBVIOUS
<1>1. TypeOK
    BY MemoryAssumption, BoundsAssumption
    DEF Init, TypeOK, ParentAt, ChildAt, Births, Causes
<1>2. FreshParent /\ WorkerHasParent /\ ReturnMeansGone
    BY DEF Init, FreshParent, WorkerHasParent, ReturnMeansGone, WorkerAlive
<1>3. WrittenIsAttached /\ LaterBornInGroup
    BY DEF Init, WrittenIsAttached, LaterBornInGroup, WorkerAlive
<1>4. GroupMade
    BY ParentsAssumption DEF Init, GroupMade
<1>5. QED BY <1>1, <1>2, <1>3, <1>4 DEF IInv

-----------------------------------------------------------------------------
\* What a step may do to the workers: fork the stepping parent's, or end one.
LEMMA WorkerStep ==
    ASSUME TypeOK, NEW p \in Parents, Step(p)
    PROVE  \/ UNCHANGED <<worker, inside, held, born>>
           \/ ForkWorker(p) /\ child[p] = "fork" /\ child'[p] = "stress"
           \/ UNCHANGED born /\ UNCHANGED child /\ \E q \in Parents : Free(q)
           \/ UNCHANGED born /\ child'[p] = "dead" /\ Free(p)
           \/ UNCHANGED <<worker, inside, born, child>>
              /\ held' \in [Parents -> 0..Need]
<1>1. CASE CloneChild(p) \/ ParentStep(p)
    BY <1>1 DEF CloneChild, ParentStep, Access, Mkdir, OpenTasks, WriteTasks, OpenLimit,
                WriteLimit, Wait, workVars, groupVars
<1>2. CASE Exec(p) \/ Reap(p) \/ KillParent(p)
    BY <1>2 DEF Exec, Reap, KillParent, workVars
<1>3. CASE ForkWorker(p)
    <2>1. CASE child'[p] = "stress" /\ child[p] = "fork"
        BY <1>3, <2>1
    <2>2. CASE UNCHANGED <<worker, inside, held, born>>
        BY <2>2
    <2>3. QED BY <1>3, <2>1, <2>2 DEF ForkWorker, ChildGoto, TypeOK
<1>4. CASE Charge(p)
    <2>1. CASE \E q \in inside : held[q] > 0 /\ Free(q)
        BY <1>4, <2>1 DEF Charge, TypeOK
    <2>2. CASE held' = [held EXCEPT ![p] = @ + 1] /\ UNCHANGED <<worker, inside>>
        BY <1>4, <2>2, MemoryAssumption DEF Charge, TypeOK
    <2>3. QED BY <1>4, <2>1, <2>2 DEF Charge
<1>5. CASE KillChild(p)
    <2>1. child'[p] = "dead" /\ UNCHANGED born
        BY <1>5 DEF KillChild, TypeOK
    <2>2. Free(p) \/ UNCHANGED <<worker, inside, held>>
        BY <1>5 DEF KillChild
    <2>3. QED BY <2>1, <2>2
<1>6. QED BY <1>1, <1>2, <1>3, <1>4, <1>5 DEF Step, ChildStep

LEMMA TypeStep ==
    ASSUME TypeOK, NEW p \in Parents, Step(p)
    PROVE  TypeOK'
<1>1. ppc' \in [Parents -> ParentAt]
    BY DEF Step, ParentStep, ChildStep, CloneChild, Access, Mkdir, OpenTasks, WriteTasks,
           OpenLimit, WriteLimit, Wait, Exec, ForkWorker, Reap, Charge, KillChild,
           KillParent, Call, Exit, Goto, ParentAt, TypeOK
<1>2. child' \in [Parents -> ChildAt]
    BY DEF Step, ParentStep, ChildStep, CloneChild, Access, Mkdir, OpenTasks, WriteTasks,
           OpenLimit, WriteLimit, Wait, Exec, ForkWorker, Reap, Charge, KillChild,
           KillParent, ChildGoto, ChildAt, TypeOK
<1>3. why' \in [Parents -> Causes]
    BY DEF Step, ParentStep, ChildStep, CloneChild, Access, Mkdir, OpenTasks, WriteTasks,
           OpenLimit, WriteLimit, Wait, Exec, ForkWorker, Reap, Charge, KillChild,
           KillParent, Call, Exit, Causes, TypeOK
<1>4. /\ group' \in Groups /\ maker' \in Parents \cup {Nobody}
      /\ {attached, wrote}' \subseteq SUBSET Parents
    BY DEF Step, ParentStep, ChildStep, CloneChild, Access, Mkdir, OpenTasks, WriteTasks,
           OpenLimit, WriteLimit, Wait, Exec, ForkWorker, Reap, Charge, KillChild,
           KillParent, groupVars, Groups, TypeOK
<1>5. /\ worker' \in [Parents -> {"none", "alive", "dead"}] /\ inside' \in SUBSET Parents
      /\ held' \in [Parents -> 0..Need] /\ born' \in [Parents -> Births]
    <2>1. CASE ForkWorker(p)
        BY <2>1 DEF ForkWorker, Births, TypeOK
    <2>2. CASE ~ForkWorker(p)
        BY <2>2, WorkerStep, FreeFacts DEF TypeOK
    <2>3. QED BY <2>1, <2>2
<1>6. faults' \in 0..MaxFaults
    <2>1. UNCHANGED faults \/ Fault
        BY DEF Step, ParentStep, ChildStep, CloneChild, Access, Mkdir, OpenTasks, WriteTasks,
               OpenLimit, WriteLimit, Wait, Exec, ForkWorker, Reap, Charge, KillChild,
               KillParent, Call
    <2>2. QED BY <2>1, FaultType DEF TypeOK
<1>7. kills' \in 0..MaxKills
    <2>1. CASE KillChild(p) \/ KillParent(p)
        BY <2>1, KillType DEF KillChild, KillParent
    <2>2. CASE CloneChild(p) \/ ParentStep(p) \/ ChildStep(p) \/ Charge(p)
        <3>1. UNCHANGED kills
            BY <2>2 DEF CloneChild, ParentStep, Access, Mkdir, OpenTasks, WriteTasks,
                        OpenLimit, WriteLimit, Wait, ChildStep, Exec, ForkWorker, Reap, Charge
        <3>2. QED BY <3>1 DEF TypeOK
    <2>3. QED BY <2>1, <2>2 DEF Step
<1>8. QED BY <1>1, <1>2, <1>3, <1>4, <1>5, <1>6, <1>7 DEF TypeOK

-----------------------------------------------------------------------------
\* The control of the other parents and of their children stays.
LEMMA OthersStay ==
    ASSUME TypeOK, NEW p \in Parents, Step(p)
    PROVE  \A q \in Parents \ {p} :
               /\ ppc'[q] = ppc[q] /\ child'[q] = child[q] /\ why'[q] = why[q]
               /\ (q \in wrote <=> q \in wrote') /\ (q \in attached <=> q \in attached')
BY DEF Step, ParentStep, ChildStep, CloneChild, Access, Mkdir, OpenTasks, WriteTasks,
       OpenLimit, WriteLimit, Wait, Exec, ForkWorker, Reap, Charge, KillChild, KillParent,
       Call, Exit, Goto, ChildGoto, groupVars, TypeOK

\* Where the stepping parent and its child go.
LEMMA OwnStep ==
    ASSUME TypeOK, FreshParent, ReturnMeansGone, NEW p \in Parents, Step(p)
    PROVE  /\ ppc'[p] = "clone" => child'[p] = "none" /\ p \notin wrote'
           /\ ppc'[p] = "returned" => child'[p] \in {"none", "dead"}
           /\ p \in wrote /\ ~ChildAlive(p) => ~ChildAlive(p)'
           /\ p \in wrote' => p \in wrote \/ ~ChildAlive(p)' \/ p \in attached'
           /\ p \in attached => p \in attached'
<1> USE DEF TypeOK, FreshParent, ReturnMeansGone, ChildAlive, ParentAt, ChildAt
<1>1. CASE CloneChild(p)
    BY <1>1 DEF CloneChild, Exit, Goto, groupVars
<1>2. CASE WriteTasks(p)
    BY <1>2 DEF WriteTasks, Exit, Goto
<1>3. CASE Wait(p)
    BY <1>3 DEF Wait, Goto, groupVars
<1>4. CASE Access(p) \/ Mkdir(p)
    BY <1>4 DEF Access, Mkdir, Exit, Goto, groupVars
<1>5. CASE OpenTasks(p) \/ OpenLimit(p) \/ WriteLimit(p)
    BY <1>5 DEF OpenTasks, OpenLimit, WriteLimit, Call, Exit, Goto, groupVars
<1>6. CASE Exec(p)
    BY <1>6 DEF Exec, ChildGoto, groupVars
<1>7. CASE ForkWorker(p)
    BY <1>7 DEF ForkWorker, ChildGoto, groupVars
<1>8. CASE Reap(p) \/ Charge(p)
    BY <1>8 DEF Reap, Charge, ChildGoto, groupVars
<1>9. CASE KillChild(p)
    BY <1>9 DEF KillChild, groupVars
<1>10. CASE KillParent(p)
    BY <1>10 DEF KillParent, Exit, Goto, groupVars
<1>11. QED BY <1>1, <1>2, <1>3, <1>4, <1>5, <1>6, <1>7, <1>8, <1>9, <1>10
            DEF Step, ParentStep, ChildStep

LEMMA ProcessStep ==
    ASSUME IInv, NEW p \in Parents, Step(p)
    PROVE  FreshParent' /\ WorkerHasParent' /\ ReturnMeansGone' /\ WrittenIsAttached'
<1> USE DEF IInv
<1>1. FreshParent'
    BY OwnStep, OthersStay DEF FreshParent
<1>2. ASSUME NEW q \in Parents, WorkerAlive(q)' PROVE child'[q] = "stress"
    <2>1. CASE worker[q] = "alive"
        <3>1. child[q] = "stress"
            BY <2>1 DEF WorkerHasParent, WorkerAlive
        <3>2. ASSUME q = p PROVE child'[q] = "stress"
            <4>1. CASE ParentStep(p) \/ CloneChild(p) \/ Charge(p) \/ KillParent(p)
                BY <3>1, <3>2, <4>1 DEF ParentStep, Access, Mkdir, OpenTasks, WriteTasks,
                    OpenLimit, WriteLimit, Wait, CloneChild, Charge, KillParent, FreshParent,
                    Exit, Goto
            <4>2. CASE ChildStep(p)
                BY <2>1, <3>1, <3>2, <4>2 DEF ChildStep, Exec, ForkWorker, Reap, ChildGoto
            <4>3. CASE KillChild(p)
                BY <1>2, <2>1, <3>2, <4>3 DEF KillChild, Free, WorkerAlive, TypeOK
            <4>4. QED BY <4>1, <4>2, <4>3 DEF Step
        <3>3. QED BY <3>1, <3>2, OthersStay
    <2>2. CASE worker[q] # "alive"
        <3>1. ForkWorker(p) /\ worker' # worker
            BY <1>2, <2>2, WorkerStep, FreeFacts DEF WorkerAlive
        <3>2. q = p /\ child'[p] = "stress"
            BY <1>2, <2>2, <3>1 DEF ForkWorker, ChildGoto, WorkerAlive, TypeOK
        <3>3. QED BY <3>2
    <2>3. QED BY <2>1, <2>2
<1>3. WorkerHasParent'
    BY <1>2 DEF WorkerHasParent
<1>4. ReturnMeansGone'
    BY <1>2, OwnStep, OthersStay DEF ReturnMeansGone, ChildAlive
<1>5. WrittenIsAttached'
    BY OwnStep, OthersStay DEF WrittenIsAttached, ChildAlive
<1>6. QED BY <1>1, <1>3, <1>4, <1>5

LEMMA BornStep ==
    ASSUME IInv, NEW p \in Parents, Step(p)
    PROVE  LaterBornInGroup'
<1> USE DEF IInv, WorkerAlive
<1> SUFFICES ASSUME NEW q \in Parents, worker'[q] = "alive", born'[q] \in {"between", "late"}
             PROVE  q \in inside'
    BY DEF LaterBornInGroup
<1>1. CASE ForkWorker(p) /\ q = p /\ worker' # worker
    <2>1. p \in wrote /\ ChildAlive(p)
        BY <1>1 DEF ForkWorker, ChildGoto, ChildAlive, TypeOK
    <2>2. p \in attached
        BY <2>1 DEF WrittenIsAttached
    <2>3. QED BY <1>1, <2>2 DEF ForkWorker
<1>2. CASE ~(ForkWorker(p) /\ q = p /\ worker' # worker)
    <2>1. worker[q] = "alive" /\ born'[q] = born[q] /\ (q \in inside => q \in inside')
        <3>1. CASE ForkWorker(p)
            BY <1>2, <3>1 DEF ForkWorker, ChildGoto, WorkerHasParent, TypeOK
        <3>2. CASE ~ForkWorker(p)
            BY <3>2, WorkerStep, FreeFacts
        <3>3. QED BY <3>1, <3>2
    <2>2. QED BY <2>1 DEF LaterBornInGroup
<1>3. QED BY <1>1, <1>2

\* access() and mkdir(): who makes the group, and who finds that another one has.
LEMMA GroupStep ==
    ASSUME IInv, NEW p \in Parents, Step(p)
    PROVE  GroupMade'
<1> USE ParentsAssumption DEF IInv, TypeOK
<1>0. faults' = 0 => faults = 0 /\ UNCHANGED faults
    <2>1. UNCHANGED faults \/ Fault
        BY DEF Step, ParentStep, ChildStep, CloneChild, Access, Mkdir, OpenTasks, WriteTasks,
               OpenLimit, WriteLimit, Wait, Exec, ForkWorker, Reap, Charge, KillChild,
               KillParent, Call
    <2>2. QED BY <2>1, FaultType
<1>1. CASE Mkdir(p)
    <2>1. CASE group = "absent" /\ group' = "unlimited" /\ maker' = p
               /\ ppc[p] = "mkdir" /\ ppc'[p] = "openTasks" /\ UNCHANGED why
        <3>1. why[p] = "none" /\ maker = Nobody
            BY <2>1 DEF GroupMade
        <3>2. QED BY <1>0, <2>1, <3>1, OthersStay DEF GroupMade
    <2>2. CASE group # "absent" /\ UNCHANGED <<group, maker, faults>>
               /\ ppc[p] = "mkdir" /\ ppc'[p] = "failed" /\ why'[p] = "lost"
        <3>1. maker # p
            BY <2>2 DEF GroupMade
        <3>2. faults = 0 => maker \in Parents \ {p}
            BY <2>2 DEF GroupMade
        <3>3. QED BY <1>0, <2>2, <3>1, <3>2, OthersStay DEF GroupMade
    <2>3. CASE UNCHANGED <<group, maker>> /\ ppc'[p] = "failed" /\ why'[p] = "fault"
        BY <1>0, <2>3, OthersStay DEF GroupMade
    <2>4. QED BY <1>1, <2>1, <2>2, <2>3 DEF Mkdir, Exit, Goto
<1>2. CASE Access(p)
    <2>1. /\ UNCHANGED <<group, maker, why>> /\ ppc[p] = "access"
          /\ \/ group = "absent" /\ ppc'[p] = "mkdir"
             \/ group # "absent" /\ ppc'[p] = "openTasks"
             \/ ppc'[p] = "mkdir" /\ Fault
        BY <1>2 DEF Access, Goto, groupVars
    <2>2. ppc'[p] = "mkdir" /\ faults' = 0 => group = "absent"
        BY <2>1, FaultType
    <2>3. QED BY <1>0, <2>1, <2>2, OthersStay DEF GroupMade
<1>3. CASE WriteLimit(p)
    <2>1. /\ UNCHANGED maker /\ ppc[p] = "writeLimit"
          /\ group' \in {group, "limited"}
          /\ \/ ppc'[p] = "wait" /\ UNCHANGED why
             \/ ppc'[p] = "failed" /\ why'[p] \in {"busy", "fault"}
        BY <1>3 DEF WriteLimit, Exit, Goto
    <2>2. group # "absent" /\ group' # "absent"
        BY <2>1 DEF GroupMade
    <2>3. QED BY <1>0, <2>1, <2>2, OthersStay DEF GroupMade
<1>4. CASE \/ CloneChild(p) \/ OpenTasks(p) \/ WriteTasks(p) \/ OpenLimit(p) \/ Wait(p)
           \/ ChildStep(p) \/ Charge(p) \/ KillChild(p) \/ KillParent(p)
    <2>1. UNCHANGED <<group, maker>>
        BY <1>4 DEF CloneChild, OpenTasks, WriteTasks, OpenLimit, Wait, ChildStep, Exec,
                    ForkWorker, Reap, Charge, KillChild, KillParent, groupVars
    <2>2. \/ ppc'[p] = ppc[p] /\ why'[p] = why[p]
          \/ ppc[p] \in {"openTasks", "writeTasks", "openLimit", "wait"}
             /\ ppc'[p] \in {"writeTasks", "openLimit", "writeLimit", "returned"}
             /\ why'[p] = why[p]
          \/ ppc'[p] = "failed" /\ why'[p] \notin {"none", "lost"}
          \/ ppc[p] = "clone" /\ ppc'[p] = "access" /\ why'[p] = why[p]
        BY <1>4 DEF CloneChild, OpenTasks, WriteTasks, OpenLimit, Wait, ChildStep, Exec,
                    ForkWorker, Reap, Charge, KillChild, KillParent, Call, Exit, Goto
    <2>3. QED BY <1>0, <2>1, <2>2, OthersStay DEF GroupMade
<1>5. QED BY <1>1, <1>2, <1>3, <1>4 DEF Step, ParentStep

-----------------------------------------------------------------------------
LEMMA IInvStep == IInv /\ [Next]_vars => IInv'
<1> SUFFICES ASSUME IInv, [Next]_vars PROVE IInv' OBVIOUS
<1>1. ASSUME NEW p \in Parents, Step(p) PROVE IInv'
    BY <1>1, TypeStep, ProcessStep, BornStep, GroupStep DEF IInv
<1>2. CASE UNCHANGED vars
    BY <1>2 DEF IInv, vars, groupVars, workVars, TypeOK, FreshParent, WorkerHasParent,
                ReturnMeansGone, WrittenIsAttached, LaterBornInGroup, GroupMade,
                WorkerAlive, ChildAlive
<1>3. QED BY <1>1, <1>2 DEF Next, Step

LEMMA Invariant == Spec => []IInv
<1>1. QED BY IInvInit, IInvStep, PTL DEF Spec

\* Every variable keeps its type.
THEOREM TypeCorrect == Spec => []TypeOK
<1>1. IInv => TypeOK BY DEF IInv
<1>2. QED BY <1>1, Invariant, PTL

\* When main returns 0, neither the child nor its worker is left (CLONE_NEWPID).
THEOREM ReturnIsClean == Spec => []ReturnMeansGone
<1>1. IInv => ReturnMeansGone BY DEF IInv
<1>2. QED BY <1>1, Invariant, PTL

\* What HogEscapedEarly rests on: only a worker that was forked before its parent
\* wrote tasks is outside the group.
THEOREM OnlyEarlyOutside == Spec => []LaterBornInGroup
<1>1. IInv => LaterBornInGroup BY DEF IInv
<1>2. QED BY <1>1, Invariant, PTL

\* The first cause of OrphanCause: without a failing call, the parent that exits
\* after mkdir() (main.c:91) was beaten by another one that is itself past it.
THEOREM LostMeansAnother == Spec => []LostToAnother
<1>1. IInv => LostToAnother BY DEF IInv, GroupMade, LostToAnother
<1>2. QED BY <1>1, Invariant, PTL
-----------------------------------------------------------------------------
\* What the group is charged.
LEMMA UsageType ==
    ASSUME TypeOK
    PROVE  IsFiniteSet(Pages) /\ Usage \in Nat
<1>1. IsFiniteSet(inside)
    BY ParentsAssumption, FS_Subset DEF TypeOK
<1>2. IsFiniteSet(1..Need)
    BY MemoryAssumption, FS_Interval
<1>3. IsFiniteSet(inside \X (1..Need))
    BY <1>1, <1>2, FS_Product
<1>4. IsFiniteSet(Pages)
    BY <1>3, FS_Subset DEF Pages
<1>5. QED BY <1>4, FS_CardinalityType DEF Usage

\* A worker in the group holds a part of that.
LEMMA HeldIsCharged ==
    ASSUME TypeOK, NEW p \in inside
    PROVE  held[p] <= Usage
<1> DEFINE mine == {p} \X (1..held[p])
<1>1. held[p] \in 0..Need
    BY DEF TypeOK
<1>2. IsFiniteSet(1..held[p]) /\ Cardinality(1..held[p]) = held[p]
    <2>1. held[p] \in Nat
        BY <1>1, MemoryAssumption
    <2>2. /\ IsFiniteSet(1..held[p])
          /\ Cardinality(1..held[p]) = IF 1 > held[p] THEN 0 ELSE held[p] - 1 + 1
        BY <2>1, FS_Interval
    <2>3. QED BY <2>1, <2>2
<1>3. Cardinality(mine) = held[p]
    <2>1. IsFiniteSet({p}) /\ Cardinality({p}) = 1
        BY FS_Singleton
    <2>2. Cardinality(mine) = 1 * held[p]
        BY <1>2, <2>1, FS_Product
    <2>3. QED BY <1>1, <2>2, MemoryAssumption
<1>4. mine \subseteq Pages
    BY <1>1, MemoryAssumption DEF Pages
<1>5. QED BY <1>3, <1>4, UsageType, FS_Subset DEF Usage

\* A page more; as many; not more.
LEMMA OnePageMore ==
    ASSUME TypeOK, NEW p \in inside, held[p] < Need,
           held' = [held EXCEPT ![p] = @ + 1], UNCHANGED inside
    PROVE  Usage' = Usage + 1
<1> DEFINE new == <<p, held[p] + 1>>
<1>1. held[p] \in Nat /\ held[p] + 1 \in 1..Need /\ p \in Parents
    BY MemoryAssumption DEF TypeOK
<1>2. held'[p] = held[p] + 1 /\ \A q \in Parents : q # p => held'[q] = held[q]
    BY <1>1 DEF TypeOK
<1>3. new \notin Pages
    BY <1>1 DEF Pages
<1>4. Pages' = Pages \cup {new}
    <2>1. ASSUME NEW x \in inside \X (1..Need)
          PROVE  x[2] <= held'[x[1]] <=> x[2] <= held[x[1]] \/ x = new
        <3>1. CASE x[1] = p
            <4>1. x = <<p, x[2]>> /\ x[2] \in Nat
                BY <3>1, MemoryAssumption
            <4>2. x[2] <= held[p] + 1 <=> x[2] <= held[p] \/ x[2] = held[p] + 1
                BY <1>1, <4>1
            <4>3. QED BY <1>2, <3>1, <4>1, <4>2
        <3>2. CASE x[1] # p
            BY <1>2, <3>2 DEF TypeOK
        <3>3. QED BY <3>1, <3>2
    <2>2. new \in inside \X (1..Need)
        BY <1>1
    <2>3. QED BY <2>1, <2>2 DEF Pages
<1>5. QED BY <1>3, <1>4, UsageType, FS_AddElement DEF Usage

LEMMA SamePages ==
    ASSUME TypeOK, TypeOK', Pages' \subseteq Pages
    PROVE  Usage' \in Nat /\ Usage' <= Usage
BY UsageType, FS_Subset, FS_CardinalityType DEF Usage

-----------------------------------------------------------------------------
\* Who is in the group: workers forked after the parent's write, and alive.
Unborn == \A p \in Parents :
    /\ child[p] \in {"none", "self", "shell", "fork"} => worker[p] = "none"
    /\ worker[p] = "none" <=> born[p] = "none"
    /\ ~WorkerAlive(p) => held[p] = 0 /\ p \notin inside
InsideLate == \A p \in Parents :
    /\ p \in attached => p \in wrote
    /\ p \in inside => born[p] \in {"between", "late"}

\* Once it is written the limit stays and holds, and the parents that wait and the
\* workers that were born late know of it.
LimitHolds ==
    /\ group = "limited" => Usage <= Limit
    /\ \A p \in Parents : ppc[p] = "wait" \/ born[p] = "late" => group = "limited"

\* Why a parent exits, as far as its child goes.
ExitCause ==
    \A p \in Parents :
        /\ ppc[p] = "failed" <=> why[p] # "none"
        /\ why[p] = "fault" => faults > 0
        /\ why[p] = "gone" => ~ChildAlive(p)
        /\ why[p] = "busy" => \E q \in Parents : born[q] = "between"

GInv == Unborn /\ InsideLate /\ LimitHolds /\ ExitCause

LEMMA GInvInit == Init => GInv
<1> SUFFICES ASSUME Init PROVE GInv OBVIOUS
<1>1. Unborn /\ InsideLate /\ ExitCause
    BY DEF Init, Unborn, InsideLate, ExitCause, WorkerAlive
<1>2. Pages = {}
    BY DEF Init, Pages
<1>3. LimitHolds
    BY <1>2, FS_EmptySet, MemoryAssumption DEF Init, LimitHolds, Usage
<1>4. QED BY <1>1, <1>3 DEF GInv

LEMMA UnbornStep ==
    ASSUME IInv, Unborn, NEW p \in Parents, Step(p)
    PROVE  Unborn'
<1> USE DEF IInv
<1>1. \A q \in Parents : q # p => child'[q] = child[q]
    BY OthersStay
<1>2. CASE ForkWorker(p)
    <2>1. CASE child[p] = "fork" /\ child' = [child EXCEPT ![p] = "stress"]
               /\ worker' = [worker EXCEPT ![p] = "alive"] /\ held' = held
               /\ inside' \subseteq inside \cup {p} /\ inside \subseteq inside'
               /\ \E b \in {"early", "between", "late"} : born' = [born EXCEPT ![p] = b]
        BY <2>1 DEF Unborn, WorkerAlive, TypeOK
    <2>2. CASE UNCHANGED <<worker, inside, held, born>> /\ child'[p] = "dead"
        BY <1>1, <2>2 DEF Unborn, WorkerAlive
    <2>3. QED BY <1>2, <2>1, <2>2 DEF ForkWorker, ChildGoto, TypeOK
<1>3. CASE CloneChild(p) \/ ParentStep(p) \/ Exec(p) \/ Reap(p) \/ KillParent(p)
    <2>1. UNCHANGED <<worker, inside, held, born>>
        BY <1>3 DEF CloneChild, ParentStep, Access, Mkdir, OpenTasks, WriteTasks, OpenLimit,
                    WriteLimit, Wait, Exec, Reap, KillParent, workVars, groupVars
    <2>2. child'[p] \in {"none", "self", "shell", "fork"} =>
              child[p] \in {"none", "self", "shell", "fork"}
        BY <1>3 DEF CloneChild, ParentStep, Access, Mkdir, OpenTasks, WriteTasks, OpenLimit,
                    WriteLimit, Wait, Exec, Reap, KillParent, FreshParent, Exit, Goto,
                    ChildGoto, TypeOK
    <2>3. QED BY <1>1, <2>1, <2>2 DEF Unborn, WorkerAlive
<1>4. CASE Charge(p)
    <2>1. UNCHANGED <<child, born>> /\ worker[p] = "alive"
        BY <1>4 DEF Charge, WorkerAlive
    <2>2. CASE \E q \in inside : held[q] > 0 /\ Free(q)
        <3>1. PICK q \in Parents : Free(q) /\ q \in inside
            BY <2>2 DEF TypeOK
        <3>2. worker[q] = "alive"
            BY <3>1 DEF Unborn, WorkerAlive
        <3>3. QED BY <2>1, <3>1, <3>2 DEF Free, Unborn, WorkerAlive, TypeOK
    <2>3. CASE held' = [held EXCEPT ![p] = @ + 1] /\ UNCHANGED <<worker, inside>>
        BY <2>1, <2>3 DEF Unborn, WorkerAlive, TypeOK
    <2>4. QED BY <1>4, <2>2, <2>3 DEF Charge
<1>5. CASE KillChild(p)
    <2>1. UNCHANGED born /\ child'[p] = "dead"
        BY <1>5 DEF KillChild, TypeOK
    <2>2. CASE WorkerAlive(p) /\ Free(p)
        BY <1>1, <2>1, <2>2 DEF Free, Unborn, WorkerAlive, TypeOK
    <2>3. CASE UNCHANGED <<worker, inside, held>>
        BY <1>1, <2>1, <2>3 DEF Unborn, WorkerAlive
    <2>4. QED BY <1>5, <2>2, <2>3 DEF KillChild
<1>6. QED BY <1>2, <1>3, <1>4, <1>5 DEF Step, ChildStep

LEMMA InsideStep ==
    ASSUME IInv, Unborn, InsideLate, NEW p \in Parents, Step(p)
    PROVE  InsideLate'
<1> USE DEF IInv
<1>1. \A q \in Parents : q \in attached' => q \in wrote'
    <2>1. UNCHANGED <<attached, wrote>> \/ WriteTasks(p)
        BY DEF Step, ParentStep, ChildStep, CloneChild, Access, Mkdir, OpenTasks, OpenLimit,
               WriteLimit, Wait, Exec, ForkWorker, Reap, Charge, KillChild, KillParent, groupVars
    <2>2. QED BY <2>1 DEF WriteTasks, InsideLate, TypeOK
<1>2. ASSUME NEW q \in Parents, q \in inside' PROVE born'[q] \in {"between", "late"}
    <2>1. CASE ForkWorker(p)
        <3>1. CASE q = p /\ p \notin inside
            <4>1. p \in wrote /\ p \in attached
                BY <1>2, <2>1, <3>1 DEF ForkWorker, InsideLate, TypeOK
            <4>2. QED BY <1>2, <2>1, <3>1, <4>1 DEF ForkWorker, TypeOK
        <3>2. CASE q # p
            BY <1>2, <2>1, <3>2 DEF ForkWorker, InsideLate, TypeOK
        <3>3. p \notin inside
            BY <2>1 DEF ForkWorker, ChildGoto, Unborn, WorkerAlive
        <3>4. QED BY <3>1, <3>2, <3>3
    <2>2. CASE ~ForkWorker(p)
        BY <1>2, <2>2, WorkerStep, FreeFacts DEF Free, InsideLate
    <2>3. QED BY <2>1, <2>2
<1>3. QED BY <1>1, <1>2 DEF InsideLate

\* Only an allocation adds to the usage, and none that the limit forbids.
LEMMA UsageStep ==
    ASSUME IInv, TypeOK', Unborn, NEW p \in Parents, Step(p)
    PROVE  \/ Usage' \in Nat /\ Usage' <= Usage
           \/ Usage' = Usage + 1 /\ UNCHANGED group /\ (group = "limited" => Usage < Limit)
<1> USE DEF IInv
<1>1. ASSUME NEW q \in Parents, Free(q) PROVE Usage' \in Nat /\ Usage' <= Usage
    <2>1. /\ held'[q] = 0 /\ inside' \subseteq inside
          /\ \A s \in Parents : s # q => held'[s] = held[s]
        BY <1>1 DEF Free, TypeOK
    <2>2. held[q] \in Nat
        BY MemoryAssumption DEF TypeOK
    <2>3. ASSUME NEW x \in Pages' PROVE x \in Pages
        <3>1. x \in inside \X (1..Need) /\ x[2] <= held'[x[1]] /\ x[1] \in Parents
            BY <2>1 DEF Pages, TypeOK
        <3>2. x[1] # q
            BY <2>1, <3>1, MemoryAssumption
        <3>3. QED BY <2>1, <3>1, <3>2 DEF Pages
    <2>4. QED BY <2>3, SamePages
<1>2. CASE ForkWorker(p)
    <2>1. held[p] = 0 /\ UNCHANGED held /\ inside' \subseteq inside \cup {p}
        BY <1>2 DEF ForkWorker, ChildGoto, Unborn, WorkerAlive, TypeOK
    <2>2. Pages' \subseteq Pages
        <3> SUFFICES ASSUME NEW x \in Pages' PROVE x \in Pages OBVIOUS
        <3>1. x \in inside' \X (1..Need) /\ x[2] <= held[x[1]]
            BY <2>1 DEF Pages
        <3>2. x[1] # p
            BY <2>1, <3>1, MemoryAssumption
        <3>3. QED BY <2>1, <3>1, <3>2 DEF Pages
    <2>3. QED BY <2>2, SamePages
<1>3. CASE Charge(p)
    <2>1. CASE p \in inside /\ held' = [held EXCEPT ![p] = @ + 1] /\ UNCHANGED inside
        <3>1. ~(group = "limited" /\ Usage >= Limit) \/ \E q \in inside : Free(q)
            BY <1>3, <2>1 DEF Charge
        <3>2. CASE ~(group = "limited" /\ Usage >= Limit)
            <4>1. Usage' = Usage + 1 /\ UNCHANGED group
                BY <1>3, <2>1, OnePageMore DEF Charge, groupVars
            <4>2. QED BY <3>2, <4>1, UsageType, MemoryAssumption
        <3>3. QED BY <1>1, <3>1, <3>2 DEF TypeOK
    <2>2. CASE p \notin inside /\ held' = [held EXCEPT ![p] = @ + 1] /\ UNCHANGED inside
        <3>1. Pages' \subseteq Pages
            BY <2>2 DEF Pages, TypeOK
        <3>2. QED BY <3>1, SamePages
    <2>3. CASE \E q \in inside : Free(q)
        BY <1>1, <2>3 DEF TypeOK
    <2>4. QED BY <1>3, <2>1, <2>2, <2>3 DEF Charge
<1>4. CASE KillChild(p) /\ Free(p)
    BY <1>1, <1>4
<1>5. CASE UNCHANGED <<inside, held>>
    BY <1>5, SamePages DEF Pages
<1>6. QED BY <1>2, <1>3, <1>4, <1>5
    DEF Step, ChildStep, CloneChild, ParentStep, Access, Mkdir, OpenTasks, WriteTasks,
        OpenLimit, WriteLimit, Wait, Exec, Reap, KillChild, KillParent, workVars, groupVars
-----------------------------------------------------------------------------
\* The limit stays; it is there when a parent waits or a worker is born late.
LEMMA LimitKnown ==
    ASSUME IInv, LimitHolds, NEW p \in Parents, Step(p)
    PROVE  /\ group = "limited" => group' = "limited"
           /\ group' = "limited" => group = "limited" \/ (Usage <= Limit /\ UNCHANGED workVars)
           /\ \A q \in Parents : ppc'[q] = "wait" \/ born'[q] = "late" => group' = "limited"
<1> USE DEF IInv
<1>1. CASE WriteLimit(p)
    <2>1. UNCHANGED workVars /\ (group' = "limited" => group = "limited" \/ Usage <= Limit)
        BY <1>1 DEF WriteLimit
    <2>2. group = "limited" \/ ppc'[p] = "wait" => group' = "limited"
        BY <1>1 DEF WriteLimit, Exit, Goto, TypeOK
    <2>3. QED BY <2>1, <2>2, OthersStay DEF workVars, LimitHolds
<1>2. CASE Mkdir(p)
    <2>1. UNCHANGED workVars /\ (group' = group \/ (group = "absent" /\ group' = "unlimited"))
        BY <1>2 DEF Mkdir
    <2>2. ppc'[p] # "wait"
        BY <1>2 DEF Mkdir, Exit, Goto, TypeOK
    <2>3. QED BY <2>1, <2>2, OthersStay DEF workVars, LimitHolds
<1>3. CASE ForkWorker(p)
    <2>1. UNCHANGED <<group, ppc>>
        BY <1>3 DEF ForkWorker, groupVars
    <2>2. \A q \in Parents : born'[q] = "late" => born[q] = "late" \/ group = "limited"
        BY <1>3 DEF ForkWorker, TypeOK
    <2>3. QED BY <2>1, <2>2 DEF LimitHolds
<1>4. CASE \/ CloneChild(p) \/ Access(p) \/ OpenTasks(p) \/ WriteTasks(p) \/ OpenLimit(p)
           \/ Wait(p) \/ Exec(p) \/ Reap(p) \/ Charge(p) \/ KillChild(p) \/ KillParent(p)
    <2>1. UNCHANGED <<group, born>>
        BY <1>4 DEF CloneChild, Access, OpenTasks, WriteTasks, OpenLimit, Wait, Exec, Reap,
                    Charge, KillChild, KillParent, groupVars, workVars
    <2>2. ppc'[p] = "wait" => ppc[p] = "wait"
        BY <1>4 DEF CloneChild, Access, OpenTasks, WriteTasks, OpenLimit, Wait, Exec, Reap,
                    Charge, KillChild, KillParent, Call, Exit, Goto, TypeOK
    <2>3. QED BY <2>1, <2>2, OthersStay DEF LimitHolds
<1>5. QED BY <1>1, <1>2, <1>3, <1>4 DEF Step, ParentStep, ChildStep

LEMMA LimitStep ==
    ASSUME IInv, TypeOK', Unborn, LimitHolds, NEW p \in Parents, Step(p)
    PROVE  LimitHolds'
<1> USE DEF IInv
<1>1. Limit \in Nat /\ Usage \in Nat
    BY UsageType, MemoryAssumption
<1>2. ASSUME group' = "limited" PROVE Usage' <= Limit
    <2>1. CASE group = "limited"
        BY <1>1, <2>1, UsageStep DEF LimitHolds
    <2>2. CASE group # "limited"
        <3>1. Usage <= Limit /\ UNCHANGED workVars
            BY <1>2, <2>2, LimitKnown
        <3>2. Usage' = Usage
            BY <3>1 DEF Usage, Pages, workVars
        <3>3. QED BY <3>1, <3>2
    <2>3. QED BY <2>1, <2>2
<1>3. QED BY <1>2, LimitKnown DEF LimitHolds

\* Where the usage exceeds the limit, a worker was forked into the group between.
LEMMA BusyMeansBetween ==
    ASSUME TypeOK, Unborn, InsideLate, LimitHolds, Usage > Limit
    PROVE  \E q \in Parents : born[q] = "between"
<1>1. group # "limited"
    BY UsageType, MemoryAssumption DEF LimitHolds
<1>2. Pages # {}
    BY FS_EmptySet, MemoryAssumption DEF Usage
<1>3. PICK q \in inside : TRUE
    BY <1>2 DEF Pages
<1>4. q \in Parents /\ born[q] \in {"between", "late"}
    BY DEF TypeOK, InsideLate
<1>5. QED BY <1>1, <1>4 DEF LimitHolds

LEMMA CauseStep ==
    ASSUME IInv, GInv, NEW p \in Parents, Step(p)
    PROVE  ExitCause'
<1> USE DEF IInv, GInv
<1>1. faults' = faults \/ faults' > 0
    <2>1. UNCHANGED faults \/ Fault
        BY DEF Step, ParentStep, ChildStep, CloneChild, Access, Mkdir, OpenTasks, WriteTasks,
               OpenLimit, WriteLimit, Wait, Exec, ForkWorker, Reap, Charge, KillChild,
               KillParent, Call
    <2>2. QED BY <2>1, FaultType, BoundsAssumption
<1>2. \A q \in Parents : born[q] = "between" => born'[q] = "between"
    <2>1. UNCHANGED born \/ (ForkWorker(p) /\ child[p] = "fork")
        BY WorkerStep DEF IInv
    <2>2. child[p] = "fork" => born[p] = "none"
        BY DEF Unborn
    <2>3. ForkWorker(p) => \A q \in Parents \ {p} : born'[q] = born[q]
        BY DEF ForkWorker, TypeOK
    <2>4. QED BY <2>1, <2>2, <2>3
<1>3. ChildAlive(p)' => ChildAlive(p) \/ ppc[p] = "clone"
    BY DEF ChildAlive, Step, ParentStep, ChildStep, CloneChild, Access, Mkdir, OpenTasks,
           WriteTasks, OpenLimit, WriteLimit, Wait, Exec, ForkWorker, Reap, Charge, KillChild,
           KillParent, ChildGoto, Exit, Goto, TypeOK
<1>4. CASE ppc'[p] = ppc[p] /\ why'[p] = why[p]
    <2>1. why[p] = "gone" => ~ChildAlive(p)'
        BY <1>3 DEF ExitCause
    <2>2. QED BY <1>1, <1>2, <1>4, <2>1, OthersStay DEF ExitCause, ChildAlive, TypeOK
<1>5. CASE ppc[p] # "failed" /\ ppc'[p] # "failed" /\ why'[p] = why[p]
    BY <1>1, <1>2, <1>5, OthersStay DEF ExitCause, ChildAlive, TypeOK
<1>6. CASE ppc'[p] = "failed" /\ why'[p] = "fault" /\ Fault
    <2>1. faults' > 0
        BY <1>6, FaultType, BoundsAssumption
    <2>2. QED BY <1>2, <1>6, <2>1, OthersStay DEF ExitCause, ChildAlive, TypeOK
<1>7. CASE ppc'[p] = "failed" /\ why'[p] \in {"lost", "killed"}
    BY <1>1, <1>2, <1>7, OthersStay DEF ExitCause, ChildAlive, TypeOK
<1>8. CASE ppc'[p] = "failed" /\ why'[p] = "gone" /\ ~ChildAlive(p) /\ UNCHANGED child
    BY <1>1, <1>2, <1>8, OthersStay DEF ExitCause, ChildAlive, TypeOK
<1>9. CASE ppc'[p] = "failed" /\ why'[p] = "busy" /\ Usage > Limit
    BY <1>1, <1>2, <1>9, OthersStay, BusyMeansBetween DEF ExitCause, ChildAlive, TypeOK
<1>10. QED
    <2>1. CASE CloneChild(p) \/ Access(p) \/ OpenTasks(p) \/ OpenLimit(p) \/ Wait(p)
        BY <1>5, <1>6, <2>1
        DEF CloneChild, Access, OpenTasks, OpenLimit, Wait, Call, Exit, Goto, TypeOK
    <2>2. CASE Mkdir(p)
        BY <1>5, <1>6, <1>7, <2>2 DEF Mkdir, Exit, Goto, TypeOK
    <2>3. CASE WriteTasks(p)
        BY <1>5, <1>6, <1>8, <2>3 DEF WriteTasks, Exit, Goto, workVars, TypeOK
    <2>4. CASE WriteLimit(p)
        BY <1>5, <1>6, <1>9, <2>4 DEF WriteLimit, Exit, Goto, TypeOK
    <2>5. CASE ChildStep(p) \/ Charge(p) \/ KillChild(p)
        BY <1>4, <2>5 DEF ChildStep, Exec, ForkWorker, Reap, Charge, KillChild
    <2>6. CASE KillParent(p)
        BY <1>7, <2>6 DEF KillParent, Exit, Goto, TypeOK
    <2>7. QED BY <2>1, <2>2, <2>3, <2>4, <2>5, <2>6 DEF Step, ParentStep

LEMMA GInvStep == IInv /\ GInv /\ [Next]_vars => GInv'
<1> SUFFICES ASSUME IInv, GInv, [Next]_vars PROVE GInv' OBVIOUS
<1>1. ASSUME NEW p \in Parents, Step(p) PROVE GInv'
    BY <1>1, TypeStep, UnbornStep, InsideStep, LimitStep, CauseStep DEF IInv, GInv
<1>2. CASE UNCHANGED vars
    BY <1>2 DEF GInv, vars, groupVars, workVars, Unborn, InsideLate, LimitHolds, ExitCause,
                WorkerAlive, ChildAlive, Usage, Pages
<1>3. QED BY <1>1, <1>2 DEF Next, Step

LEMMA GroupInvariant == Spec => [](IInv /\ GInv)
<1>1. QED BY IInvInit, IInvStep, GInvInit, GInvStep, PTL DEF Spec

\* However many parents share the group: a worker over the limit of a parent that
\* waits was forked before that parent's write to tasks (main.c:63 before main.c:110).
THEOREM OnlyEarlyEscapes == Spec => []HogEscapedEarly
<1>1. IInv /\ GInv => HogEscapedEarly
    <2> SUFFICES ASSUME IInv, GInv, NEW p \in Parents, ppc[p] = "wait", held[p] > Limit
                 PROVE  born[p] = "early"
        BY DEF HogEscapedEarly
    <2>1. WorkerAlive(p)
        BY MemoryAssumption DEF GInv, Unborn
    <2>2. Usage <= Limit /\ Usage \in Nat
        BY UsageType DEF IInv, GInv, LimitHolds
    <2>3. p \notin inside
        BY <2>2, HeldIsCharged, MemoryAssumption DEF IInv, TypeOK
    <2>4. born[p] \notin {"none", "between", "late"}
        BY <2>1, <2>3 DEF IInv, GInv, Unborn, WorkerAlive, LaterBornInGroup
    <2>5. QED BY <2>4 DEF IInv, TypeOK, Births
<1>2. QED BY <1>1, GroupInvariant, PTL

\* exit(1) leaves a child behind without a fault or a kill in two cases only: the
\* race for mkdir() (main.c:84, 91), and a limit written too late (main.c:128).
THEOREM OrphansExplained == Spec => []OrphanCause
<1>1. IInv /\ GInv => OrphanCause
    <2> SUFFICES ASSUME IInv, GInv, NEW p \in Parents, ppc[p] = "failed", ChildAlive(p),
                        faults = 0, why[p] # "killed"
                 PROVE  \/ why[p] = "lost" /\ maker \in Parents \ {p} /\ why[maker] # "lost"
                        \/ why[p] = "busy" /\ \E q \in Parents : born[q] = "between"
        BY DEF OrphanCause
    <2>1. why[p] \in {"lost", "busy"}
        BY DEF IInv, GInv, ExitCause, TypeOK, Causes
    <2>2. QED BY <2>1 DEF IInv, GInv, GroupMade, ExitCause
<1>2. QED BY <1>1, GroupInvariant, PTL
=============================================================================
