---------------------------- MODULE MemoryLimit ----------------------------
(***************************************************************************)
(* learning/cgroup/main.c: a parent clones a child that becomes `stress',  *)
(* and puts it into a memory cgroup with a limit while it already runs.    *)
(* Several parents may run at a time; all use the group test_memory_limit. *)
(*                                                                         *)
(* The kernel and stress are external.  Of them we model: a write to       *)
(* `tasks' moves one process, a worker starts in the group of the process  *)
(* that forks it, memory stays charged where it was allocated, a limit     *)
(* below the usage is refused (no swap), the OOM killer takes a worker of  *)
(* the group that is full, and a PID namespace dies with its first         *)
(* process.                                                                *)
(***************************************************************************)
EXTENDS Integers, FiniteSets

CONSTANTS
    Parents,      \* the running copies of the program
    Nobody,       \* not a parent
    Limit,        \* 100m, in units of memory
    Need,         \* 200m: --vm-bytes
    GroupsBefore, \* what an earlier run may have left of the group
    MaxFaults,    \* bound on calls that fail for an outside reason
    MaxKills      \* bound on processes killed from outside

Groups == {"absent", "unlimited", "limited"}

ASSUME ParentsAssumption == IsFiniteSet(Parents) /\ Nobody \notin Parents
ASSUME MemoryAssumption  == /\ Limit \in Nat \ {0} /\ Need \in Nat
                            /\ Limit < Need
ASSUME BoundsAssumption  == /\ GroupsBefore \subseteq Groups
                            /\ {MaxFaults, MaxKills} \subseteq Nat

VARIABLES
    ppc,      \* control of main
    child,    \* control of the cloned process: main again, bash, stress
    worker,   \* the worker of stress: none, alive, dead
    group,    \* the directory test_memory_limit
    maker,    \* the parent whose mkdir made it
    attached, \* the children that are in the group
    inside,   \* the workers that are in the group
    held,     \* the memory each worker holds
    wrote,    \* history: the parents whose write to tasks went through
    born,     \* history: when the worker was forked
    why,      \* history: why the parent exited early
    faults, kills

groupVars == <<group, maker, attached>>
workVars  == <<worker, inside, held, born>>
vars == <<ppc, child, groupVars, workVars, wrote, why, faults, kills>>

ParentAt == {"clone", "access", "mkdir", "openTasks", "writeTasks", "openLimit",
             "writeLimit", "wait", "returned", "failed"}
ChildAt  == {"none", "self", "shell", "fork", "stress", "dead"}
\* early: before the parent had written tasks; between: after that, but before
\* the group had a limit; late: after both.
Births   == {"none", "early", "between", "late"}
Causes   == {"none", "fault", "lost", "gone", "busy", "killed"}

Init ==
    /\ ppc = [p \in Parents |-> "clone"]
    /\ child = [p \in Parents |-> "none"]
    /\ worker = [p \in Parents |-> "none"]
    /\ group \in GroupsBefore /\ maker = Nobody
    /\ attached = {} /\ inside = {} /\ wrote = {}
    /\ held = [p \in Parents |-> 0]
    /\ born = [p \in Parents |-> "none"]
    /\ why = [p \in Parents |-> "none"]
    /\ faults = 0 /\ kills = 0

ChildAlive(p)  == child[p] \notin {"none", "dead"}
WorkerAlive(p) == worker[p] = "alive"

\* What is charged to the group: the pages its workers hold.
Pages == {x \in inside \X (1..Need) : x[2] <= held[x[1]]}
Usage == Cardinality(Pages)

Fault == faults < MaxFaults /\ faults' = faults + 1

Goto(p, from, to) == ppc[p] = from /\ ppc' = [ppc EXCEPT ![p] = to]

\* exit(1), without a thought of the child.
Exit(p, from, cause) == Goto(p, from, "failed") /\ why' = [why EXCEPT ![p] = cause]

\* A call that cannot fail for a reason of this program.
Call(p, from, to) == \/ Goto(p, from, to) /\ UNCHANGED <<why, faults>>
                     \/ Exit(p, from, "fault") /\ Fault

-----------------------------------------------------------------------------
\* mmap() and clone().
CloneChild(p) ==
    /\ \/ Goto(p, "clone", "access") /\ child' = [child EXCEPT ![p] = "self"]
          /\ UNCHANGED <<why, faults>>
       \/ Exit(p, "clone", "fault") /\ Fault /\ UNCHANGED child
    /\ UNCHANGED <<groupVars, workVars, wrote, kills>>

\* Defect variants (With..., Without...): no specification uses them.  Each is
\* the definition that follows it with one plausible bug.

\* access() == 0.
AccessInverted(p) ==
    /\ Goto(p, "access", IF group = "absent" THEN "openTasks" ELSE "mkdir")
    /\ UNCHANGED <<child, groupVars, workVars, wrote, why, faults, kills>>

Access(p) ==
    /\ \/ Goto(p, "access", IF group = "absent" THEN "mkdir" ELSE "openTasks")
          /\ UNCHANGED faults
       \/ Goto(p, "access", "mkdir") /\ Fault
    /\ UNCHANGED <<child, groupVars, workVars, wrote, why, kills>>

\* mkdir() loses when another parent's came between.
Mkdir(p) ==
    /\ \/ /\ group = "absent" /\ Goto(p, "mkdir", "openTasks")
          /\ group' = "unlimited" /\ maker' = p
          /\ UNCHANGED <<why, faults>>
       \/ /\ group # "absent" /\ Exit(p, "mkdir", "lost")
          /\ UNCHANGED <<group, maker, faults>>
       \/ Exit(p, "mkdir", "fault") /\ Fault /\ UNCHANGED <<group, maker>>
    /\ UNCHANGED <<child, attached, workVars, wrote, kills>>

OpenTasks(p) ==
    /\ Call(p, "openTasks", "writeTasks")
    /\ UNCHANGED <<child, groupVars, workVars, wrote, kills>>

\* The parent writes its own pid, or the child's in the child's namespace.
WriteTasksWithOtherPid(p) ==
    /\ Goto(p, "writeTasks", "openLimit") /\ wrote' = wrote \cup {p}
    /\ UNCHANGED <<child, groupVars, workVars, why, faults, kills>>

\* A process that is ending is not moved; the write succeeds or ends in ESRCH.
WriteTasks(p) ==
    /\ \/ /\ ChildAlive(p) /\ Goto(p, "writeTasks", "openLimit")
          /\ attached' = attached \cup {p} /\ wrote' = wrote \cup {p}
          /\ UNCHANGED <<why, faults>>
       \/ /\ ~ChildAlive(p) /\ Goto(p, "writeTasks", "openLimit")
          /\ wrote' = wrote \cup {p} /\ UNCHANGED <<attached, why, faults>>
       \/ /\ ~ChildAlive(p) /\ Exit(p, "writeTasks", "gone")
          /\ UNCHANGED <<attached, wrote, faults>>
       \/ /\ Exit(p, "writeTasks", "fault") /\ Fault
          /\ UNCHANGED <<attached, wrote>>
    /\ UNCHANGED <<child, group, maker, workVars, kills>>

OpenLimit(p) ==
    /\ Call(p, "openLimit", "writeLimit")
    /\ UNCHANGED <<child, groupVars, workVars, wrote, kills>>

\* EBUSY when the workers of the group already hold more than the limit.
WriteLimit(p) ==
    /\ \/ /\ Usage <= Limit /\ Goto(p, "writeLimit", "wait")
          /\ group' = "limited" /\ UNCHANGED <<why, faults>>
       \/ /\ Usage > Limit /\ Exit(p, "writeLimit", "busy")
          /\ UNCHANGED <<group, faults>>
       \/ Exit(p, "writeLimit", "fault") /\ Fault /\ UNCHANGED group
    /\ UNCHANGED <<child, maker, attached, workVars, wrote, kills>>

\* waitpid() is repeated until the child has succeeded, which stress never does
\* once it has lost its worker.
WaitForSuccess(p) ==
    /\ ~ChildAlive(p) /\ worker[p] = "none" /\ Goto(p, "wait", "returned")
    /\ UNCHANGED <<child, groupVars, workVars, wrote, why, faults, kills>>

Wait(p) ==
    /\ ~ChildAlive(p) /\ Goto(p, "wait", "returned")
    /\ UNCHANGED <<child, groupVars, workVars, wrote, why, faults, kills>>

-----------------------------------------------------------------------------
ChildGoto(p, from, to) == child[p] = from /\ child' = [child EXCEPT ![p] = to]

\* execl() of /proc/self/exe, and in it of bash, which becomes stress.
Exec(p) ==
    /\ \/ ChildGoto(p, "self", "shell") /\ UNCHANGED faults
       \/ ChildGoto(p, "shell", "fork") /\ UNCHANGED faults
       \/ \E at \in {"self", "shell"} : ChildGoto(p, at, "dead") /\ Fault
    /\ UNCHANGED <<ppc, groupVars, workVars, wrote, why, kills>>

\* stress forks its worker.
ForkWorker(p) ==
    /\ \/ /\ ChildGoto(p, "fork", "stress")
          /\ worker' = [worker EXCEPT ![p] = "alive"]
          /\ inside' = IF p \in attached THEN inside \cup {p} ELSE inside
          /\ born' = [born EXCEPT ![p] = IF p \notin wrote THEN "early"
                                         ELSE IF group = "limited" THEN "late"
                                         ELSE "between"]
          /\ UNCHANGED faults
       \/ ChildGoto(p, "fork", "dead") /\ Fault /\ UNCHANGED <<worker, inside, born>>
    /\ UNCHANGED <<ppc, groupVars, held, wrote, why, kills>>

Free(q) == /\ held' = [held EXCEPT ![q] = 0]
           /\ worker' = [worker EXCEPT ![q] = "dead"]
           /\ inside' = inside \ {q}

\* A worker takes more memory; where there is none the OOM killer makes room.
Charge(p) ==
    /\ WorkerAlive(p) /\ held[p] < Need
    /\ IF p \in inside /\ group = "limited" /\ Usage >= Limit
       THEN \E q \in inside : held[q] > 0 /\ Free(q)
       ELSE held' = [held EXCEPT ![p] = @ + 1] /\ UNCHANGED <<worker, inside>>
    /\ UNCHANGED <<ppc, child, groupVars, born, wrote, why, faults, kills>>

\* stress ends when its worker is dead.
Reap(p) ==
    /\ worker[p] = "dead" /\ ChildGoto(p, "stress", "dead")
    /\ UNCHANGED <<ppc, groupVars, workVars, wrote, why, faults, kills>>

\* The child is the first process of a PID namespace; its worker dies with it.
KillChild(p) ==
    /\ ChildAlive(p) /\ kills < MaxKills /\ kills' = kills + 1
    /\ child' = [child EXCEPT ![p] = "dead"]
    /\ IF WorkerAlive(p) THEN Free(p) ELSE UNCHANGED <<worker, inside, held>>
    /\ UNCHANGED <<ppc, groupVars, born, wrote, why, faults>>

KillParent(p) ==
    /\ ppc[p] \notin {"clone", "returned", "failed"}
    /\ kills < MaxKills /\ kills' = kills + 1
    /\ Exit(p, ppc[p], "killed")
    /\ UNCHANGED <<child, groupVars, workVars, wrote, faults>>

-----------------------------------------------------------------------------
ParentStep(p) == \/ Access(p) \/ Mkdir(p) \/ OpenTasks(p) \/ WriteTasks(p)
                 \/ OpenLimit(p) \/ WriteLimit(p) \/ Wait(p)
ChildStep(p)  == Exec(p) \/ ForkWorker(p) \/ Reap(p)

Next == \E p \in Parents :
    \/ CloneChild(p) \/ ParentStep(p) \/ ChildStep(p) \/ Charge(p)
    \/ KillChild(p) \/ KillParent(p)

\* The kernel schedules what can run; nobody has to start a parent or to kill.
Fairness == \A p \in Parents :
    WF_vars(ParentStep(p)) /\ WF_vars(ChildStep(p)) /\ WF_vars(Charge(p))

Spec == Init /\ [][Next]_vars
FairSpec == Spec /\ Fairness

-----------------------------------------------------------------------------
TypeOK ==
    /\ ppc \in [Parents -> ParentAt]
    /\ child \in [Parents -> ChildAt]
    /\ worker \in [Parents -> {"none", "alive", "dead"}]
    /\ group \in Groups /\ maker \in Parents \cup {Nobody}
    /\ {attached, inside, wrote} \subseteq SUBSET Parents
    /\ held \in [Parents -> 0..Need]
    /\ born \in [Parents -> Births]
    /\ why \in [Parents -> Causes]
    /\ faults \in 0..MaxFaults /\ kills \in 0..MaxKills

\* The program looks set up (it waits), and yet its worker is over the limit: only
\* if that worker was forked before the parent had written tasks (main.c:63 comes
\* before main.c:110).  A worker forked later, also one forked before the limit was
\* written, and whatever the other parents' workers hold, stays below.
HogEscapedEarly ==
    \A p \in Parents : ppc[p] = "wait" /\ held[p] > Limit => born[p] = "early"

\* The reason: a worker that was forked after its parent's write is in the group.
LaterBornInGroup ==
    \A p \in Parents : WorkerAlive(p) /\ born[p] \in {"between", "late"} => p \in inside

\* When main returns 0, nothing of its child is left.
ReturnMeansGone ==
    \A p \in Parents : ppc[p] = "returned" => ~ChildAlive(p) /\ ~WorkerAlive(p)

\* exit(1) leaves the child running.  Without a failing call and without a kill
\* that happens in two cases only: another parent made the group between this one's
\* access() and mkdir(), and is itself past it; or a worker was forked into the
\* group before it had a limit, and the limit came too late to be set.
OrphanCause ==
    \A p \in Parents :
        ppc[p] = "failed" /\ ChildAlive(p) /\ faults = 0 /\ why[p] # "killed" =>
            \/ why[p] = "lost" /\ maker \in Parents \ {p} /\ why[maker] # "lost"
            \/ why[p] = "busy" /\ \E q \in Parents : born[q] = "between"

\* A worker in the group with the limit is ended by it (it wants more than there
\* is), and its parent does not wait for ever.
LimitEndsIt ==
    \A p \in Parents :
        (p \in inside /\ group = "limited") ~>
            (worker[p] = "dead" /\ ppc[p] \in {"returned", "failed"})
=============================================================================
