----------------------------- MODULE Container -----------------------------
(***************************************************************************)
(* Launching a container: src/src/container.cpp with the parts of          *)
(* src/src/aufs.cpp, src/src/utils.cpp and src/include/tac/log.hpp that it *)
(* runs through.                                                           *)
(*                                                                         *)
(* A run is one `tac run': a parent process (createParentProcess), the     *)
(* init process it forks (containerInitProcess) and the shell init forks.  *)
(* Every run uses the same hard-coded directory con1, so runs meet in the  *)
(* directories below it, in the host's mount namespace, and through mount  *)
(* propagation.  An action is one system call, or one call together with   *)
(* the branch taken on its result.                                         *)
(*                                                                         *)
(* The kernel is external.  Of it we model: mount namespaces (their mounts *)
(* and their root), propagation between shared mounts, pivot_root's        *)
(* preconditions, the death of a PID namespace with its init, and the      *)
(* detaching of another namespace's mounts by rmdir of a mount point.      *)
(***************************************************************************)
EXTENDS Integers, FiniteSets

CONSTANTS
    Runs,        \* the launches
    Host,        \* the initial mount namespace
    HostShared,  \* "/" of the host is a shared mount (the systemd default)
    NDEBUG,      \* assert() of log.hpp is compiled out
    Overlap,     \* a run may start while another one is still alive
    MaxFaults,   \* bound on system calls that fail for an outside reason
    MaxKills,    \* bound on processes killed from outside
    InitSpaces,  \* possible contents of con1 before the first run
    InitRoots    \* possible directories of the container root, likewise

Kinds  == {"aufs", "bind", "old", "proc", "dev"}
Names  == {"con", "readOnly", "readWrite", "mnt", "cwdReadWrite"}
Dirs   == {"oldRoot", "proc", "dev"}
Views  == {"plain", "union"}
Spaces == Runs \cup {Host}
Mounts == Kinds \X Runs

ASSUME RunsAssumption   == Host \notin Runs /\ Runs # {}
ASSUME FlagsAssumption  == {HostShared, NDEBUG, Overlap} \subseteq BOOLEAN
ASSUME BoundsAssumption == {MaxFaults, MaxKills} \subseteq Nat
ASSUME InitsAssumption  == /\ InitSpaces \subseteq SUBSET Names
                           /\ InitRoots \subseteq SUBSET Dirs

VARIABLES
    ppc,       \* control of createParentProcess
    ipc,       \* control of containerInitProcess
    spc,       \* control of the shell
    unshared,  \* the runs whose unshare() succeeded
    mounts,    \* the mounts of each mount namespace
    shared,    \* the namespaces whose mounts still propagate
    root,      \* the root of each namespace: Host, or the run pivoted to
    view,      \* what the run's bind mount shows: the bare mnt or the union
    space,     \* the names that exist in con1, and in the launch directory
    rootDirs,  \* the directories that exist in each kind of root
    blame,     \* why the run's init stopped early, if it did
    faults, kills

procVars == <<ppc, ipc, spc>>
nsVars   == <<mounts, shared, root>>
diskVars == <<space, rootDirs>>
vars     == <<procVars, nsVars, diskVars, unshared, view, blame, faults, kills>>

\* The calls of init whose failure ends it, in program order.
Checked == {"exec", "assert", "private", "bind", "oldMkdir", "pivot", "chdir",
            "umountOld", "rmdirOld", "procMkdir", "mountProc", "devMkdir",
            "mountDev"}
\* The calls of init whose result nobody looks at, and the two access() tests.
Unchecked == {"mkRO", "mkRW", "mkMnt", "aufs", "oldExists", "rmExists",
              "procExists", "devExists", "forkShell", "waitShell"}
Dead == {"exited", "failed", "killed"}

ParentAt == {"unshare", "fork", "wait", "returned", "killed"}
InitAt   == {"none"} \cup Checked \cup Unchecked \cup Dead
ShellAt  == {"none", "exec", "running", "done"}

-----------------------------------------------------------------------------
\* Defect variants, named ...Without... or ...Unchecked...: no specification
\* uses them.  Each is the definition that follows it with one plausible bug.

\* unshare() without CLONE_NEWNS.
NsWithoutNewNS(r) == Host

\* The mount namespace of a run: its own once CLONE_NEWNS has taken effect.
Ns(r) == IF r \in unshared THEN r ELSE Host

\* unshare() without CLONE_NEWPID.
OwnPidsWithoutNewPID(r) == FALSE

\* The run's PID namespace dies with its init.
OwnPids(r) == r \in unshared

ShellAlive(r) == spc[r] \in {"exec", "running"}
InitAlive(r)  == ipc[r] \notin Dead \cup {"none"}

Idle(r) == ppc[r] = "unshare"
Over(r) == /\ ppc[r] \in {"returned", "killed"}
           /\ ~InitAlive(r) /\ ~ShellAlive(r)

\* con1 is reachable by its absolute path.
Visible(r)  == root[Ns(r)] = Host
Found(r, n) == Visible(r) /\ n \in space

\* The namespaces a mount made in n appears in.
Peers(n) == IF n \in shared THEN shared ELSE {n}

AddMount(r, kind) ==
    mounts' = [n \in Spaces |-> IF n \in Peers(Ns(r))
                                THEN mounts[n] \cup {<<kind, r>>}
                                ELSE mounts[n]]

Mounted(r, kind) == <<kind, r>> \in mounts[Ns(r)]

\* Path::exists of a directory of the new root, before and after the pivot.
InRoot(r, d) == /\ d \in rootDirs[view[r]]
                /\ root[Ns(r)] \in {Host, r}

NewDir(r, d) == rootDirs' = [rootDirs EXCEPT ![view[r]] = @ \cup {d}]

Goto(r, to) == ipc' = [ipc EXCEPT ![r] = to]

\* The preconditions of a checked call that the program's own past, or another
\* run, can break.
Accepts(r, call) ==
    CASE call = "exec"      -> Visible(r) \/ <<"proc", root[Ns(r)]>> \in mounts[Ns(r)]
      [] call = "assert"    -> NDEBUG \/ Found(r, "con")
      [] call = "bind"      -> Found(r, "mnt")
      [] call = "oldMkdir"  -> Visible(r) /\ ~InRoot(r, "oldRoot")
      [] call = "pivot"     -> /\ Visible(r) /\ InRoot(r, "oldRoot")
                               /\ Mounted(r, "bind") /\ Ns(r) \notin shared
      [] call = "umountOld" -> Mounted(r, "old")
      [] call = "rmdirOld"  -> InRoot(r, "oldRoot") /\ ~Mounted(r, "old")
      [] call = "procMkdir" -> ~InRoot(r, "proc")
      [] call = "mountProc" -> InRoot(r, "proc")
      [] call = "devMkdir"  -> ~InRoot(r, "dev")
      [] call = "mountDev"  -> InRoot(r, "dev")
      [] OTHER              -> TRUE

-----------------------------------------------------------------------------
Init ==
    /\ ppc = [r \in Runs |-> "unshare"]
    /\ ipc = [r \in Runs |-> "none"]
    /\ spc = [r \in Runs |-> "none"]
    /\ unshared = {}
    /\ mounts = [n \in Spaces |-> {}]
    /\ shared = IF HostShared THEN {Host} ELSE {}
    /\ root = [n \in Spaces |-> Host]
    /\ view = [r \in Runs |-> "plain"]
    /\ space \in InitSpaces
    /\ \E D \in InitRoots : rootDirs = [v \in Views |-> D]
    /\ blame = [r \in Runs |-> "none"]
    /\ faults = 0 /\ kills = 0

(***************************************************************************)
(* createParentProcess.  A failed unshare() is logged and nothing else:    *)
(* the launch goes on in the host's namespaces.                            *)
(***************************************************************************)
Fault == faults < MaxFaults /\ faults' = faults + 1

MayStart(r) == Overlap \/ \A q \in Runs \ {r} : Idle(q) \/ Over(q)

SetUnshare(r) ==
    /\ ppc[r] = "unshare" /\ MayStart(r)
    /\ ppc' = [ppc EXCEPT ![r] = "fork"]
    /\ \/ /\ unshared' = unshared \cup {r}
          /\ mounts' = [mounts EXCEPT ![r] = mounts[Host]]
          /\ root' = [root EXCEPT ![r] = root[Host]]
          /\ shared' = IF Host \in shared THEN shared \cup {r} ELSE shared
          /\ UNCHANGED faults
       \/ Fault /\ UNCHANGED <<unshared, nsVars>>
    /\ UNCHANGED <<ipc, spc, diskVars, view, blame, kills>>

ForkInit(r) ==
    /\ ppc[r] = "fork"
    /\ ppc' = [ppc EXCEPT ![r] = "wait"]
    /\ \/ Goto(r, "exec") /\ UNCHANGED faults
       \/ Fault /\ UNCHANGED ipc
    /\ UNCHANGED <<spc, nsVars, diskVars, unshared, view, blame, kills>>

\* The parent waits for an orderly exit only.
WaitInitWithoutDeaths(r) ==
    /\ ppc[r] = "wait" /\ ipc[r] = "exited"
    /\ ppc' = [ppc EXCEPT ![r] = "returned"]
    /\ UNCHANGED <<ipc, spc, nsVars, diskVars, unshared, view, blame, faults, kills>>

\* waitpid returns when init is dead, or at once when there is no child.
WaitInit(r) ==
    /\ ppc[r] = "wait" /\ ~InitAlive(r)
    /\ ppc' = [ppc EXCEPT ![r] = "returned"]
    /\ UNCHANGED <<ipc, spc, nsVars, diskVars, unshared, view, blame, faults, kills>>

(***************************************************************************)
(* containerInitProcess, up to the pivot.                                  *)
(***************************************************************************)
Exec(r) ==
    /\ ipc[r] = "exec" /\ Accepts(r, "exec")
    /\ Goto(r, "assert")
    /\ UNCHANGED <<ppc, spc, nsVars, diskVars, unshared, view, blame, faults, kills>>

AssertSpace(r) ==
    /\ ipc[r] = "assert" /\ Accepts(r, "assert")
    /\ Goto(r, "mkRO")
    /\ UNCHANGED <<ppc, spc, nsVars, diskVars, unshared, view, blame, faults, kills>>

\* safe_mkdir whose result is dropped: the directory may or may not be there
\* afterwards, and the caller goes on.
UncheckedMkdir(r, dir, parentFound, to) ==
    /\ Goto(r, to)
    /\ \/ parentFound /\ space' = space \cup {dir} /\ UNCHANGED faults
       \/ ~parentFound /\ UNCHANGED <<space, faults>>
       \/ dir \notin space /\ Fault /\ UNCHANGED space
    /\ UNCHANGED <<ppc, spc, nsVars, rootDirs, unshared, view, blame, kills>>

CreateReadOnly(r) ==
    ipc[r] = "mkRO" /\ UncheckedMkdir(r, "readOnly", Found(r, "con"), "mkRW")

CreateReadWrite(r) ==
    ipc[r] = "mkRW" /\ UncheckedMkdir(r, "readWrite", Found(r, "con"), "mkMnt")

\* The argument is ignored: a directory "readWrite" of the working directory
\* is made, and con1/mnt is not.
CreateMountingPoint(r) ==
    ipc[r] = "mkMnt" /\ UncheckedMkdir(r, "cwdReadWrite", TRUE, "aufs")

\* mount(8) run by system(): only -1 counts as an error, and makeSpace drops
\* even that.  It runs before "/" is made private.
MountAUFS(r) ==
    /\ ipc[r] = "aufs"
    /\ Goto(r, "private")
    /\ \/ /\ \A n \in {"readOnly", "readWrite", "mnt"} : Found(r, n)
          /\ AddMount(r, "aufs") /\ UNCHANGED faults
       \/ /\ \E n \in {"readOnly", "readWrite", "mnt"} : ~Found(r, n)
          /\ UNCHANGED <<mounts, faults>>
       \/ Fault /\ UNCHANGED mounts
    /\ UNCHANGED <<ppc, spc, shared, root, diskVars, unshared, view, blame, kills>>

(***************************************************************************)
(* setMount: pivotRoot, then /proc and /dev.                               *)
(***************************************************************************)
RemountWithoutPrivate(r) ==
    /\ ipc[r] = "private"
    /\ Goto(r, "bind")
    /\ UNCHANGED <<ppc, spc, nsVars, diskVars, unshared, view, blame, faults, kills>>

RemountPrivate(r) ==
    /\ ipc[r] = "private"
    /\ Goto(r, "bind")
    /\ shared' = shared \ {Ns(r)}
    /\ UNCHANGED <<ppc, spc, mounts, root, diskVars, unshared, view, blame, faults, kills>>

BindNewRoot(r) ==
    /\ ipc[r] = "bind" /\ Accepts(r, "bind")
    /\ Goto(r, "oldExists")
    /\ AddMount(r, "bind")
    /\ view' = [view EXCEPT ![r] = IF \E q \in Runs : <<"aufs", q>> \in mounts[Ns(r)]
                                   THEN "union" ELSE "plain"]
    /\ UNCHANGED <<ppc, spc, shared, root, diskVars, unshared, blame, faults, kills>>

\* mkdir without safe_mkdir's test.
TestDirUnchecked(r, at, dir, found, absent) ==
    /\ ipc[r] = at
    /\ Goto(r, absent)
    /\ UNCHANGED <<ppc, spc, nsVars, diskVars, unshared, view, blame, faults, kills>>

\* Path::safe_mkdir: the test and the mkdir are two system calls.
TestDir(r, at, dir, found, absent) ==
    /\ ipc[r] = at
    /\ Goto(r, IF InRoot(r, dir) THEN found ELSE absent)
    /\ UNCHANGED <<ppc, spc, nsVars, diskVars, unshared, view, blame, faults, kills>>

MakeDir(r, at, dir, to) ==
    /\ ipc[r] = at /\ Accepts(r, at)
    /\ Goto(r, to)
    /\ NewDir(r, dir)
    /\ UNCHANGED <<ppc, spc, nsVars, space, unshared, view, blame, faults, kills>>

\* oldRoot made by mkdir, as learning/pivot_root/main.c does.
SafeMkdirOldUnchecked(r) ==
    \/ /\ ipc[r] = "oldExists" /\ Goto(r, "oldMkdir")
       /\ UNCHANGED <<ppc, spc, nsVars, diskVars, unshared, view, blame, faults, kills>>
    \/ MakeDir(r, "oldMkdir", "oldRoot", "pivot")

SafeMkdirOld(r) == \/ TestDir(r, "oldExists", "oldRoot", "pivot", "oldMkdir")
                   \/ MakeDir(r, "oldMkdir", "oldRoot", "pivot")

\* pivotRoot returns without detaching the old root.
PivotRootWithoutUmount(r) ==
    /\ ipc[r] = "pivot" /\ Accepts(r, "pivot")
    /\ Goto(r, "procExists")
    /\ root' = [root EXCEPT ![Ns(r)] = r]
    /\ AddMount(r, "old")
    /\ UNCHANGED <<ppc, spc, shared, diskVars, unshared, view, blame, faults, kills>>

PivotRoot(r) ==
    /\ ipc[r] = "pivot" /\ Accepts(r, "pivot")
    /\ Goto(r, "chdir")
    /\ root' = [root EXCEPT ![Ns(r)] = r]
    /\ AddMount(r, "old")
    /\ UNCHANGED <<ppc, spc, shared, diskVars, unshared, view, blame, faults, kills>>

Chdir(r) ==
    /\ ipc[r] = "chdir"
    /\ Goto(r, "umountOld")
    /\ UNCHANGED <<ppc, spc, nsVars, diskVars, unshared, view, blame, faults, kills>>

UmountOld(r) ==
    /\ ipc[r] = "umountOld" /\ Accepts(r, "umountOld")
    /\ Goto(r, "rmExists")
    /\ mounts' = [mounts EXCEPT ![Ns(r)] = @ \ {<<"old", r>>}]
    /\ UNCHANGED <<ppc, spc, shared, root, diskVars, unshared, view, blame, faults, kills>>

\* rmdir of a directory another namespace has a mount on detaches that mount.
\* On the bare directory that is certain; through two unions it may go either way.
RmdirOld(r) ==
    /\ ipc[r] = "rmdirOld" /\ Accepts(r, "rmdirOld")
    /\ Goto(r, "procExists")
    /\ rootDirs' = [rootDirs EXCEPT ![view[r]] = @ \ {"oldRoot"}]
    /\ LET same == {q \in Runs : view[q] = view[r]} IN
       \E hit \in IF view[r] = "plain" THEN {same} ELSE SUBSET same :
          mounts' = [n \in Spaces |-> IF n = Ns(r) THEN mounts[n]
                                      ELSE mounts[n] \ ({"old"} \X hit)]
    /\ UNCHANGED <<ppc, spc, shared, root, space, unshared, view, blame, faults, kills>>

SafeRmdirOld(r) == \/ TestDir(r, "rmExists", "oldRoot", "rmdirOld", "procExists")
                   \/ RmdirOld(r)

MountSpecial(r, at, kind, to) ==
    /\ ipc[r] = at /\ Accepts(r, at)
    /\ Goto(r, to)
    /\ AddMount(r, kind)
    /\ UNCHANGED <<ppc, spc, shared, root, diskVars, unshared, view, blame, faults, kills>>

SetProc(r) == \/ TestDir(r, "procExists", "proc", "mountProc", "procMkdir")
              \/ MakeDir(r, "procMkdir", "proc", "mountProc")
              \/ MountSpecial(r, "mountProc", "proc", "devExists")

SetDev(r)  == \/ TestDir(r, "devExists", "dev", "mountDev", "devMkdir")
              \/ MakeDir(r, "devMkdir", "dev", "mountDev")
              \/ MountSpecial(r, "mountDev", "dev", "forkShell")

(***************************************************************************)
(* The shell.                                                              *)
(***************************************************************************)
ForkShell(r) ==
    /\ ipc[r] = "forkShell"
    /\ Goto(r, "waitShell")
    /\ \/ spc' = [spc EXCEPT ![r] = "exec"] /\ UNCHANGED faults
       \/ Fault /\ UNCHANGED spc
    /\ UNCHANGED <<ppc, nsVars, diskVars, unshared, view, blame, kills>>

WaitShell(r) ==
    /\ ipc[r] = "waitShell" /\ ~ShellAlive(r)
    /\ Goto(r, "exited")
    /\ UNCHANGED <<ppc, spc, nsVars, diskVars, unshared, view, blame, faults, kills>>

\* /bin/sh is in the image or it is not; in the second case the child exits.
ShellExec(r) ==
    /\ spc[r] = "exec"
    /\ spc' = [spc EXCEPT ![r] = "running"] \/ spc' = [spc EXCEPT ![r] = "done"]
    /\ UNCHANGED <<ppc, ipc, nsVars, diskVars, unshared, view, blame, faults, kills>>

ShellExit(r) ==
    /\ spc[r] = "running"
    /\ spc' = [spc EXCEPT ![r] = "done"]
    /\ UNCHANGED <<ppc, ipc, nsVars, diskVars, unshared, view, blame, faults, kills>>

(***************************************************************************)
(* Early exits: FATAL (exit), PFATAL (exit) and assert (abort).            *)
(***************************************************************************)
\* setMount's result is logged and the launch goes on.
StopUnchecked(r, why) ==
    /\ Goto(r, IF ipc[r] \in {"exec", "assert"} THEN "failed" ELSE "forkShell")
    /\ blame' = [blame EXCEPT ![r] = why]
    /\ UNCHANGED <<ppc, spc, nsVars, diskVars, unshared, view, kills>>

Stop(r, why) ==
    /\ Goto(r, "failed")
    /\ blame' = [blame EXCEPT ![r] = why]
    /\ UNCHANGED <<ppc, spc, nsVars, diskVars, unshared, view, kills>>

CallRefused(r) ==
    /\ ipc[r] \in Checked /\ ~Accepts(r, ipc[r])
    /\ Stop(r, "refused") /\ UNCHANGED faults

CallFails(r) ==
    /\ ipc[r] \in Checked \ {"assert"}
    /\ Stop(r, "fault") /\ Fault

(***************************************************************************)
(* SIGKILL from outside.  A dead init takes its PID namespace with it.     *)
(***************************************************************************)
KillParent(r) ==
    /\ kills < MaxKills /\ ppc[r] \in {"fork", "wait"}
    /\ ppc' = [ppc EXCEPT ![r] = "killed"]
    /\ kills' = kills + 1
    /\ UNCHANGED <<ipc, spc, nsVars, diskVars, unshared, view, blame, faults>>

KillInit(r) ==
    /\ kills < MaxKills /\ InitAlive(r)
    /\ Goto(r, "killed")
    /\ spc' = IF OwnPids(r) /\ ShellAlive(r) THEN [spc EXCEPT ![r] = "done"] ELSE spc
    /\ kills' = kills + 1
    /\ UNCHANGED <<ppc, nsVars, diskVars, unshared, view, blame, faults>>

-----------------------------------------------------------------------------
ParentStep(r) == ForkInit(r) \/ WaitInit(r)

InitStep(r) ==
    \/ Exec(r) \/ AssertSpace(r)
    \/ CreateReadOnly(r) \/ CreateReadWrite(r) \/ CreateMountingPoint(r)
    \/ MountAUFS(r) \/ RemountPrivate(r) \/ BindNewRoot(r)
    \/ SafeMkdirOld(r) \/ PivotRoot(r) \/ Chdir(r)
    \/ UmountOld(r) \/ SafeRmdirOld(r)
    \/ SetProc(r) \/ SetDev(r)
    \/ ForkShell(r) \/ WaitShell(r)
    \/ CallRefused(r) \/ CallFails(r)

Next == \E r \in Runs :
    \/ SetUnshare(r) \/ ParentStep(r) \/ InitStep(r)
    \/ ShellExec(r) \/ ShellExit(r)
    \/ KillParent(r) \/ KillInit(r)

Spec == Init /\ [][Next]_vars

\* The kernel schedules a runnable process; nobody is obliged to start a run,
\* to kill one, or to leave the shell.
Fairness == \A r \in Runs : /\ WF_vars(ParentStep(r))
                            /\ WF_vars(InitStep(r))
                            /\ WF_vars(ShellExec(r))

FairSpec == Spec /\ Fairness
-----------------------------------------------------------------------------
TypeOK ==
    /\ ppc \in [Runs -> ParentAt]
    /\ ipc \in [Runs -> InitAt]
    /\ spc \in [Runs -> ShellAt]
    /\ unshared \in SUBSET Runs
    /\ mounts \in [Spaces -> SUBSET Mounts]
    /\ shared \in SUBSET Spaces
    /\ root \in [Spaces -> Spaces]
    /\ view \in [Runs -> Views]
    /\ space \in SUBSET Names
    /\ rootDirs \in [Views -> SUBSET Dirs]
    /\ blame \in [Runs -> {"none", "fault", "refused"}]
    /\ faults \in 0..MaxFaults /\ kills \in 0..MaxKills

\* A live shell stands on its own run's root with the host's tree detached and
\* its own /proc and /dev mounted, whatever failed before and whatever the
\* other runs do meanwhile (createParentProcess goes on after a failed unshare).
ShellConfined ==
    \A r \in Runs : ShellAlive(r) =>
        /\ root[Ns(r)] = r /\ ~Mounted(r, "old")
        /\ Mounted(r, "proc") /\ Mounted(r, "dev")

\* When createParentProcess returns, its shell is gone.  The exception is an
\* init killed without a PID namespace of its own: its shell is orphaned.
ReturnMeansGone ==
    \A r \in Runs : ppc[r] = "returned" /\ ShellAlive(r) =>
        ipc[r] = "killed" /\ r \notin unshared

\* The only mounts of a run with its own namespace that another namespace ever
\* sees are union mounts: makeSpace mounts them before pivotRoot's MS_PRIVATE.
LeakIsUnionOnly ==
    \A n \in Spaces, k \in Kinds, r \in Runs :
        <<k, r>> \in mounts[n] /\ r \in unshared /\ n # r => k = "aufs"

\* The host's root is replaced only by a run whose unshare failed and was
\* ignored (container.cpp:144).
HostRootKept == root[Host] \notin unshared

\* Two launches racing on con1 may knock one another out (safe_mkdir and
\* safe_rmdir test first and act later) but never all of them.
RaceHasWinner ==
    (\A r \in Runs : ipc[r] = "failed") =>
        faults + kills > 0 \/ ~({"con", "mnt"} \subseteq space)

\* When launches do not overlap, nothing an earlier one left behind, wherever it
\* failed or was killed, stops a later one: only a missing con1/mnt or a host
\* whose own root was pivoted away does.
LeftoversTolerated ==
    ~Overlap => \A r \in Runs : blame[r] = "refused" =>
        root[Host] # Host \/ ~({"con", "mnt"} \subseteq space)

\* When the shell is over, createParentProcess returns, whoever died.
ShellExitPropagates ==
    \A r \in Runs : spc[r] = "done" ~> ppc[r] \in {"returned", "killed"}

\* What aufs.hpp:15 declares and makeSpace relies on: createMountingPoint
\* creates the mounting point it is given.
MountingPointCreated ==
    \A r \in Runs : ipc[r] = "private" /\ "con" \in space => "mnt" \in space
-----------------------------------------------------------------------------
(***************************************************************************)
(* What all this is for: Launch.tla.  A launch is set up until its shell   *)
(* runs, and over when neither its init nor its shell can run.             *)
(***************************************************************************)
Phase(r) ==
    CASE spc[r] = "running" -> "running"
      [] spc[r] = "exec" \/ (spc[r] = "none" /\ InitAlive(r) /\ ipc[r] # "waitShell")
                            -> "setup"
      [] spc[r] = "none" /\ ipc[r] = "none" /\ ppc[r] \in {"unshare", "fork"}
                            -> "idle"
      [] OTHER              -> "over"

SealedRuns == {r \in Runs : /\ Phase(r) \in {"setup", "running"}
                            /\ root[Ns(r)] = r /\ ~Mounted(r, "old")}

L == INSTANCE Launch WITH phase <- [r \in Runs |-> Phase(r)], sealed <- SealedRuns

\* Every launch is a launch as Launch.tla promises it; the second time with fairness.
LaunchSteps      == L!Safety
ImplementsLaunch == L!Spec
=============================================================================
