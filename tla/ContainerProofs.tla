-------------------------- MODULE ContainerProofs --------------------------
(***************************************************************************)
(* The safety of a launch for every number of runs, every bound on faults  *)
(* and kills, and every initial content of con1.                           *)
(*                                                                         *)
(* TypeOK is inductive by itself.  The other invariants are not: they      *)
(* follow from IInv, which says for each location of init what the calls   *)
(* before it have left in place, and, where launches race for con1, from   *)
(* RInv, which says what the next call of init needs and who else has      *)
(* taken it.  Last comes the refinement of Launch.                         *)
(***************************************************************************)
EXTENDS Container, TLAPS

\* The locations of init behind its RemountPrivate, PivotRoot, UmountOld,
\* MountSpecial("proc") and MountSpecial("dev").
PastDev     == {"forkShell", "waitShell"}
PastProc    == PastDev \cup {"devExists", "devMkdir", "mountDev"}
PastUmount  == PastProc \cup {"rmExists", "rmdirOld", "procExists", "procMkdir", "mountProc"}
PastPivot   == PastUmount \cup {"chdir", "umountOld"}
PastPrivate == PastPivot \cup {"bind", "oldExists", "oldMkdir", "pivot"}

\* A run that has not called unshare() has left no trace.
NoTraceYet ==
    \A r \in Runs :
        /\ ppc[r] \in {"unshare", "fork"} => ipc[r] = "none"
        /\ ppc[r] = "unshare" =>
              /\ r \notin unshared
              /\ \A n \in Spaces : root[n] # r
              /\ \A n \in Spaces, k \in Kinds : <<k, r>> \notin mounts[n]

\* A shell exists only once init is past everything it does for it.
ShellPlace ==
    \A r \in Runs :
        /\ spc[r] # "none" => ipc[r] \in {"waitShell"} \cup Dead
        /\ ShellAlive(r) => \/ ipc[r] = "waitShell"
                            \/ ipc[r] = "killed" /\ r \notin unshared

\* What holds from a location of init on; At is that location's tail of init,
\* with the live shell that stands at its end.
Behind(r, At) == ipc[r] \in At \/ ShellAlive(r)

PrivateKept == \A r \in Runs : Behind(r, PastPrivate) => Ns(r) \notin shared
RootKept    == \A r \in Runs : Behind(r, PastPivot)   => root[Ns(r)] = r
OldGone     == \A r \in Runs : Behind(r, PastUmount)  => ~Mounted(r, "old")
ProcThere   == \A r \in Runs : Behind(r, PastProc)    => Mounted(r, "proc")
DevThere    == \A r \in Runs : Behind(r, PastDev)     => Mounted(r, "dev")

IInv == /\ TypeOK /\ NoTraceYet /\ ShellPlace
        /\ PrivateKept /\ RootKept /\ OldGone /\ ProcThere /\ DevThere
        /\ LeakIsUnionOnly /\ HostRootKept

-----------------------------------------------------------------------------
USE DEF procVars, nsVars, diskVars

\* The pieces of a step keep their types: a mount made anywhere, a new control
\* location of init.
LEMMA AddMountType ==
    ASSUME TypeOK, NEW r \in Runs, NEW k \in Kinds, AddMount(r, k)
    PROVE  mounts' \in [Spaces -> SUBSET Mounts]
<1>1. <<k, r>> \in Mounts
    BY DEF Mounts
<1>2. QED BY <1>1 DEF AddMount, TypeOK

LEMMA NsType ==
    ASSUME NEW r \in Runs
    PROVE  Ns(r) \in Spaces
BY DEF Ns, Spaces

LEMMA FaultType ==
    ASSUME TypeOK, Fault
    PROVE  faults' \in 0..MaxFaults
BY BoundsAssumption DEF Fault, TypeOK

LEMMA GotoType ==
    ASSUME TypeOK, NEW r \in Runs, NEW to \in InitAt, Goto(r, to)
    PROVE  ipc' \in [Runs -> InitAt]
BY DEF TypeOK, Goto

LEMMA TestDirType ==
    ASSUME TypeOK, NEW r \in Runs, NEW at, NEW dir,
           NEW found \in InitAt, NEW absent \in InitAt,
           TestDir(r, at, dir, found, absent)
    PROVE  TypeOK'
<1>1. ipc' \in [Runs -> InitAt]
    BY GotoType DEF TestDir
<1>2. QED BY <1>1 DEF TestDir, TypeOK

LEMMA MakeDirType ==
    ASSUME TypeOK, NEW r \in Runs, NEW at, NEW dir \in Dirs, NEW to \in InitAt,
           MakeDir(r, at, dir, to)
    PROVE  TypeOK'
<1>1. ipc' \in [Runs -> InitAt]
    BY GotoType DEF MakeDir
<1>2. rootDirs' \in [Views -> SUBSET Dirs]
    BY DEF MakeDir, NewDir, TypeOK
<1>3. QED BY <1>1, <1>2 DEF MakeDir, TypeOK

LEMMA MountSpecialType ==
    ASSUME TypeOK, NEW r \in Runs, NEW at, NEW kind \in Kinds, NEW to \in InitAt,
           MountSpecial(r, at, kind, to)
    PROVE  TypeOK'
<1>1. ipc' \in [Runs -> InitAt]
    BY GotoType DEF MountSpecial
<1>2. mounts' \in [Spaces -> SUBSET Mounts]
    BY AddMountType DEF MountSpecial
<1>3. QED BY <1>1, <1>2 DEF MountSpecial, TypeOK

LEMMA RmdirOldType ==
    ASSUME TypeOK, NEW r \in Runs, RmdirOld(r)
    PROVE  TypeOK'
<1>1. ipc' \in [Runs -> InitAt]
    BY GotoType DEF RmdirOld, InitAt, Checked, Unchecked
<1>2. mounts' \in [Spaces -> SUBSET Mounts]
    BY DEF RmdirOld, TypeOK
<1>3. rootDirs' \in [Views -> SUBSET Dirs]
    BY DEF RmdirOld, TypeOK
<1>4. QED BY <1>1, <1>2, <1>3 DEF RmdirOld, TypeOK

LEMMA TypeInit == Init => TypeOK
<1> SUFFICES ASSUME Init PROVE TypeOK OBVIOUS
<1>1. space \in SUBSET Names /\ rootDirs \in [Views -> SUBSET Dirs]
    BY InitsAssumption DEF Init
<1>2. faults \in 0..MaxFaults /\ kills \in 0..MaxKills
    BY BoundsAssumption DEF Init
<1>3. ipc \in [Runs -> InitAt] /\ ppc \in [Runs -> ParentAt] /\ spc \in [Runs -> ShellAt]
    BY DEF Init, InitAt, ParentAt, ShellAt
<1>4. QED BY <1>1, <1>2, <1>3 DEF Init, TypeOK, Spaces, Views

LEMMA TypeStep == TypeOK /\ [Next]_vars => TypeOK'
<1> SUFFICES ASSUME TypeOK, [Next]_vars PROVE TypeOK' OBVIOUS
<1> USE DEF TypeOK
<1>0. CASE UNCHANGED vars BY <1>0 DEF vars
<1> SUFFICES ASSUME NEW r \in Runs,
                    \/ SetUnshare(r) \/ ParentStep(r) \/ InitStep(r)
                    \/ ShellExec(r) \/ ShellExit(r) \/ KillParent(r) \/ KillInit(r)
             PROVE  TypeOK'
    BY <1>0 DEF Next
<1> USE NsType DEF InitAt, ParentAt, ShellAt, Checked, Unchecked, Dead, Kinds, Names, Dirs, Views
<1>1. CASE SetUnshare(r)
    BY <1>1, FaultType DEF SetUnshare, Spaces
<1>2. CASE ForkInit(r) BY <1>2, FaultType DEF ForkInit, Goto
<1>3. CASE WaitInit(r) BY <1>3 DEF WaitInit
<1>4. CASE Exec(r) \/ AssertSpace(r) BY <1>4 DEF Exec, AssertSpace, Goto
<1>5. CASE CreateReadOnly(r) \/ CreateReadWrite(r) \/ CreateMountingPoint(r)
    BY <1>5, FaultType DEF CreateReadOnly, CreateReadWrite, CreateMountingPoint,
                           UncheckedMkdir, Goto
<1>6. CASE MountAUFS(r)
    BY <1>6, FaultType, AddMountType DEF MountAUFS, Goto
<1>7. CASE RemountPrivate(r) BY <1>7 DEF RemountPrivate, Goto
<1>8. CASE BindNewRoot(r) BY <1>8, AddMountType DEF BindNewRoot, Goto
<1>9. CASE PivotRoot(r) BY <1>9, AddMountType DEF PivotRoot, Goto, Spaces
<1>10. CASE Chdir(r) BY <1>10 DEF Chdir, Goto
<1>11. CASE UmountOld(r) BY <1>11 DEF UmountOld, Goto
<1>12. CASE SafeMkdirOld(r)
    BY <1>12, TestDirType, MakeDirType DEF SafeMkdirOld
<1>13. CASE SafeRmdirOld(r)
    BY <1>13, TestDirType, RmdirOldType DEF SafeRmdirOld
<1>14. CASE SetProc(r)
    BY <1>14, TestDirType, MakeDirType, MountSpecialType DEF SetProc
<1>15. CASE SetDev(r)
    BY <1>15, TestDirType, MakeDirType, MountSpecialType DEF SetDev
<1>16. CASE ForkShell(r) BY <1>16, FaultType DEF ForkShell, Goto
<1>17. CASE WaitShell(r) BY <1>17 DEF WaitShell, Goto
<1>18. CASE CallRefused(r) \/ CallFails(r)
    BY <1>18, FaultType DEF CallRefused, CallFails, Stop, Goto
<1>19. CASE ShellExec(r) \/ ShellExit(r) BY <1>19 DEF ShellExec, ShellExit
<1>20. CASE KillParent(r)
    BY <1>20, BoundsAssumption DEF KillParent
<1>21. CASE KillInit(r)
    BY <1>21, BoundsAssumption DEF KillInit, Goto
<1>22. QED
    BY <1>1, <1>2, <1>3, <1>4, <1>5, <1>6, <1>7, <1>8, <1>9, <1>10, <1>11, <1>12,
       <1>13, <1>14, <1>15, <1>16, <1>17, <1>18, <1>19, <1>20, <1>21
    DEF ParentStep, InitStep

\* Every variable keeps its type, the fault and kill counters their bounds.
THEOREM TypeCorrect == Spec => []TypeOK
BY TypeInit, TypeStep, PTL DEF Spec

-----------------------------------------------------------------------------
\* The locations at which init runs and has no shell.
Working == (Checked \cup Unchecked) \ {"waitShell"}

LEMMA WorkingAlone ==
    ASSUME IInv, NEW r \in Runs, ipc[r] \in Working
    PROVE  spc[r] = "none" /\ ~ShellAlive(r) /\ ppc[r] \notin {"unshare", "fork"}
BY DEF IInv, ShellPlace, NoTraceYet, ShellAlive, Working, Checked, Unchecked, Dead

\* The sets are nested, and a dead or unborn init is in none of them.
LEMMA Nesting ==
    /\ PastDev \subseteq PastProc /\ PastProc \subseteq PastUmount
    /\ PastUmount \subseteq PastPivot /\ PastPivot \subseteq PastPrivate
    /\ PastPrivate \subseteq Working \cup {"waitShell"}
    /\ \A d \in Dead \cup {"none"} : d \notin Working \cup {"waitShell"}
BY DEF PastDev, PastProc, PastUmount, PastPivot, PastPrivate, Working,
       Checked, Unchecked, Dead

\* A step of init that touches no namespace and passes none of the milestones.
LEMMA QuietMove ==
    ASSUME IInv, TypeOK', NEW r \in Runs, NEW to \in Working \cup {"failed"},
           ipc[r] \in Working, Goto(r, to),
           UNCHANGED <<ppc, spc, unshared, nsVars>>,
           \A P \in {PastPrivate, PastPivot, PastUmount, PastProc, PastDev} :
              to \in P => ipc[r] \in P
    PROVE  IInv'
<1> USE DEF IInv
<1>1. /\ ~ShellAlive(r) /\ spc[r] = "none" /\ ppc[r] \notin {"unshare", "fork"}
    BY WorkingAlone
<1>2. ipc' = [ipc EXCEPT ![r] = to] /\ ipc \in [Runs -> InitAt]
    BY DEF Goto, TypeOK
<1>3. \A q \in Runs : q # r => ipc'[q] = ipc[q]
    BY <1>2
<1>4. ipc'[r] = to
    BY <1>2
<1>5. \A q \in Runs : Ns(q)' = Ns(q) /\ (ShellAlive(q)' <=> ShellAlive(q))
    BY DEF Ns, ShellAlive
<1>6. NoTraceYet'
    BY <1>1, <1>3 DEF NoTraceYet
<1>7. ShellPlace'
    BY <1>1, <1>3, <1>5 DEF ShellPlace
<1>8. PrivateKept' /\ RootKept'
    BY <1>1, <1>3, <1>4, <1>5 DEF PrivateKept, RootKept, Behind
<1>9. OldGone' /\ ProcThere' /\ DevThere'
    BY <1>1, <1>3, <1>4, <1>5 DEF OldGone, ProcThere, DevThere, Behind, Mounted
<1>10. LeakIsUnionOnly' /\ HostRootKept'
    BY DEF LeakIsUnionOnly, HostRootKept
<1>11. QED BY <1>6, <1>7, <1>8, <1>9, <1>10

\* A mount other than of the old root, made where it cannot leak.
LEMMA MountMove ==
    ASSUME IInv, TypeOK', NEW r \in Runs, NEW to \in Working, NEW k \in Kinds \ {"old"},
           ipc[r] \in Working, Goto(r, to), AddMount(r, k),
           UNCHANGED <<ppc, spc, unshared, shared, root>>,
           k = "aufs" \/ ipc[r] \in PastPrivate,
           \A P \in {PastPrivate, PastPivot, PastUmount} : to \in P => ipc[r] \in P,
           to \in PastProc => ipc[r] \in PastProc \/ k = "proc",
           to \in PastDev  => ipc[r] \in PastDev  \/ k = "dev"
    PROVE  IInv'
<1> USE DEF IInv
<1>1. /\ ~ShellAlive(r) /\ spc[r] = "none" /\ ppc[r] \notin {"unshare", "fork"}
    BY WorkingAlone
<1>2. ipc' = [ipc EXCEPT ![r] = to] /\ ipc \in [Runs -> InitAt]
    BY DEF Goto, TypeOK
<1>3. \A q \in Runs : q # r => ipc'[q] = ipc[q]
    BY <1>2
<1>4. ipc'[r] = to
    BY <1>2
<1>5. \A q \in Runs : Ns(q)' = Ns(q) /\ (ShellAlive(q)' <=> ShellAlive(q))
    BY DEF Ns, ShellAlive
<1>6. \A n \in Spaces : mounts'[n] = IF n \in Peers(Ns(r)) THEN mounts[n] \cup {<<k, r>>}
                                                           ELSE mounts[n]
    BY DEF AddMount
<1>7. \A n \in Spaces, l \in Kinds, q \in Runs :
         q # r \/ l # k => (<<l, q>> \in mounts'[n] <=> <<l, q>> \in mounts[n])
    <2> SUFFICES ASSUME NEW n \in Spaces, NEW l \in Kinds, NEW q \in Runs, q # r \/ l # k
                 PROVE  <<l, q>> \in mounts'[n] <=> <<l, q>> \in mounts[n]
        OBVIOUS
    <2>1. <<l, q>> # <<k, r>>
        OBVIOUS
    <2>2. mounts'[n] = mounts[n] \/ mounts'[n] = mounts[n] \cup {<<k, r>>}
        BY <1>6
    <2>3. QED BY <2>1, <2>2
<1>8. Ns(r) \in Spaces /\ Ns(r) \in Peers(Ns(r))
    BY NsType DEF Peers
<1>9. <<k, r>> \in mounts'[Ns(r)]
    <2>1. mounts'[Ns(r)] = mounts[Ns(r)] \cup {<<k, r>>}
        BY <1>6, <1>8
    <2>2. QED BY <2>1
<1>10. NoTraceYet'
    BY <1>1, <1>3, <1>7 DEF NoTraceYet
<1>11. ShellPlace'
    BY <1>1, <1>3, <1>5 DEF ShellPlace
<1>12. PrivateKept' /\ RootKept'
    BY <1>1, <1>3, <1>4, <1>5 DEF PrivateKept, RootKept, Behind
<1>13. OldGone'
    <2>1. \A q \in Runs : Mounted(q, "old")' <=> Mounted(q, "old")
        BY <1>5, <1>7, NsType DEF Mounted, Kinds
    <2>2. QED BY <2>1, <1>1, <1>3, <1>4, <1>5 DEF OldGone, Behind
<1>14. ProcThere'
    BY <1>1, <1>3, <1>4, <1>5, <1>7, <1>9, NsType DEF ProcThere, Behind, Mounted, Kinds
<1>15. DevThere'
    BY <1>1, <1>3, <1>4, <1>5, <1>7, <1>9, NsType DEF DevThere, Behind, Mounted, Kinds
<1>16. LeakIsUnionOnly'
    <2> SUFFICES ASSUME NEW n \in Spaces, NEW l \in Kinds, NEW q \in Runs,
                        <<l, q>> \in mounts'[n], q \in unshared, n # q
                 PROVE  l = "aufs"
        BY DEF LeakIsUnionOnly
    <2>1. CASE <<l, q>> \in mounts[n]
        BY <2>1 DEF LeakIsUnionOnly
    <2>2. CASE <<l, q>> \notin mounts[n]
        <3>1. l = k /\ q = r /\ n \in Peers(Ns(r))
            BY <2>2, <1>6, <1>7
        <3>2. Ns(r) = r
            BY <3>1 DEF Ns
        <3>3. r \in shared
            BY <3>1, <3>2 DEF Peers
        <3>4. ipc[r] \notin PastPrivate
            BY <3>2, <3>3 DEF PrivateKept, Behind
        <3>5. QED BY <3>1, <3>4
    <2>3. QED BY <2>1, <2>2
<1>17. HostRootKept'
    BY DEF HostRootKept
<1>18. QED BY <1>10, <1>11, <1>12, <1>13, <1>14, <1>15, <1>16, <1>17

\* The new namespace starts as a copy of the host's, before the run has a trace.
LEMMA UnshareStep ==
    ASSUME IInv, TypeOK', NEW r \in Runs, SetUnshare(r)
    PROVE  IInv'
<1> USE DEF IInv
<1>1. /\ ppc[r] = "unshare" /\ ipc[r] = "none" /\ spc[r] = "none" /\ r \notin unshared
      /\ ppc' = [ppc EXCEPT ![r] = "fork"] /\ UNCHANGED <<ipc, spc>>
    BY DEF SetUnshare, NoTraceYet, ShellPlace, Dead
<1>2. \A q \in Runs : q # r => ppc'[q] = ppc[q]
    BY <1>1 DEF TypeOK
<1>3. CASE UNCHANGED <<unshared, nsVars>>
    <2>1. NoTraceYet'
        BY <1>1, <1>2, <1>3 DEF NoTraceYet, TypeOK
    <2>2. QED
        BY <1>1, <1>3, <2>1 DEF ShellPlace, ShellAlive, PrivateKept, RootKept, OldGone,
            ProcThere, DevThere, Behind, Mounted, Ns, LeakIsUnionOnly, HostRootKept
<1>4. CASE /\ unshared' = unshared \cup {r}
           /\ mounts' = [mounts EXCEPT ![r] = mounts[Host]]
           /\ root' = [root EXCEPT ![r] = root[Host]]
           /\ shared' = IF Host \in shared THEN shared \cup {r} ELSE shared
    <2>1. /\ Host \in Spaces /\ r \in Spaces /\ Host # r
          /\ \A n \in Spaces : /\ mounts'[n] = IF n = r THEN mounts[Host] ELSE mounts[n]
                               /\ root'[n] = IF n = r THEN root[Host] ELSE root[n]
        BY <1>4, RunsAssumption DEF Spaces, TypeOK
    <2>2. \A q \in Runs : q # r => Ns(q)' = Ns(q) /\ Ns(q) # r /\ Ns(q) \in Spaces
        BY <1>4, RunsAssumption, NsType DEF Ns
    <2>3. \A q \in Runs : q # r => /\ mounts'[Ns(q)] = mounts[Ns(q)]
                                   /\ root'[Ns(q)] = root[Ns(q)]
        BY <2>1, <2>2
    <2>4. /\ \A P \in {PastPrivate, PastPivot, PastUmount, PastProc, PastDev} : ipc[r] \notin P
          /\ ~ShellAlive(r)
        <3>1. \A P \in {PastPrivate, PastPivot, PastUmount, PastProc, PastDev} : "none" \notin P
            BY DEF PastPrivate, PastPivot, PastUmount, PastProc, PastDev
        <3>2. ipc[r] = "none" /\ ~ShellAlive(r)
            BY <1>1 DEF ShellAlive
        <3>3. QED BY <3>1, <3>2
    <2>5. NoTraceYet'
        <3>1. \A q \in Runs : ppc'[q] \in {"unshare", "fork"} => ipc'[q] = "none"
            BY <1>1, <1>2 DEF NoTraceYet
        <3>2. ppc'[r] # "unshare"
            BY <1>1 DEF TypeOK
        <3>3. ASSUME NEW q \in Runs, q # r, ppc[q] = "unshare"
              PROVE  /\ q \notin unshared'
                     /\ \A n \in Spaces : root'[n] # q
                     /\ \A n \in Spaces, k \in Kinds : <<k, q>> \notin mounts'[n]
            BY <3>3, <1>4, <2>1 DEF NoTraceYet
        <3>4. QED BY <3>1, <3>2, <3>3, <1>2 DEF NoTraceYet
    <2>6. ShellPlace'
        BY <1>1, <1>4 DEF ShellPlace, ShellAlive
    <2>7. PrivateKept'
        BY <1>1, <1>4, <2>2, <2>4 DEF PrivateKept, Behind, ShellAlive
    <2>8. RootKept'
        BY <1>1, <2>2, <2>3, <2>4 DEF RootKept, Behind, ShellAlive
    <2>9. OldGone' /\ ProcThere' /\ DevThere'
        BY <1>1, <2>2, <2>3, <2>4 DEF OldGone, ProcThere, DevThere, Behind, Mounted, ShellAlive
    <2>10. LeakIsUnionOnly'
        <3> SUFFICES ASSUME NEW n \in Spaces, NEW k \in Kinds, NEW q \in Runs,
                            <<k, q>> \in mounts'[n], q \in unshared', n # q
                     PROVE  k = "aufs"
            BY DEF LeakIsUnionOnly
        <3>1. q # r
            BY <1>1, <2>1 DEF NoTraceYet
        <3>2. PICK m \in {n, Host} : <<k, q>> \in mounts[m]
            BY <2>1
        <3>3. q \in unshared /\ m # q /\ m \in Spaces
            BY <3>1, <3>2, <1>4, <2>1, RunsAssumption
        <3>4. QED BY <3>2, <3>3 DEF LeakIsUnionOnly
    <2>11. HostRootKept'
        BY <1>1, <1>4, <2>1 DEF HostRootKept, NoTraceYet
    <2>12. QED BY <2>5, <2>6, <2>7, <2>8, <2>9, <2>10, <2>11
<1>5. QED BY <1>3, <1>4 DEF SetUnshare

\* fork, waitpid and the death of the parent touch only the processes.
LEMMA ParentMove ==
    ASSUME IInv, TypeOK', NEW r \in Runs, NEW at \in {"wait", "returned", "killed"},
           ppc' = [ppc EXCEPT ![r] = at], ppc[r] # "unshare",
           UNCHANGED <<spc, unshared, nsVars>>,
           UNCHANGED ipc \/ (ppc[r] = "fork" /\ Goto(r, "exec"))
    PROVE  IInv'
<1> USE DEF IInv
<1>1. CASE UNCHANGED ipc
    <2>1. NoTraceYet'
        BY <1>1 DEF NoTraceYet, TypeOK
    <2>2. QED
        BY <1>1, <2>1 DEF ShellPlace, ShellAlive, PrivateKept, RootKept, OldGone,
            ProcThere, DevThere, Behind, Mounted, Ns, LeakIsUnionOnly, HostRootKept
<1>2. CASE ppc[r] = "fork" /\ Goto(r, "exec")
    <2>1. ipc[r] = "none" /\ spc[r] = "none"
        BY <1>2 DEF NoTraceYet, ShellPlace, Dead
    <2>2. \A q \in Runs : /\ ipc'[q] = IF q = r THEN "exec" ELSE ipc[q]
                          /\ ppc'[q] = IF q = r THEN at ELSE ppc[q]
        BY <1>2 DEF Goto, TypeOK
    <2>3. \A P \in {PastPrivate, PastPivot, PastUmount, PastProc, PastDev} : "exec" \notin P
        BY DEF PastPrivate, PastPivot, PastUmount, PastProc, PastDev
    <2>4. \A q \in Runs : Ns(q)' = Ns(q) /\ (ShellAlive(q)' <=> ShellAlive(q))
        BY DEF Ns, ShellAlive
    <2>5. NoTraceYet'
        BY <2>2 DEF NoTraceYet
    <2>6. ShellPlace'
        BY <2>1, <2>2, <2>4 DEF ShellPlace, ShellAlive
    <2>7. PrivateKept' /\ RootKept'
        BY <2>2, <2>3, <2>4 DEF PrivateKept, RootKept, Behind
    <2>8. OldGone' /\ ProcThere' /\ DevThere'
        BY <2>2, <2>3, <2>4 DEF OldGone, ProcThere, DevThere, Behind, Mounted
    <2>9. QED BY <2>5, <2>6, <2>7, <2>8 DEF LeakIsUnionOnly, HostRootKept
<1>3. QED BY <1>1, <1>2

LEMMA RemountStep ==
    ASSUME IInv, TypeOK', NEW r \in Runs, RemountPrivate(r)
    PROVE  IInv'
<1> USE DEF IInv
<1>1. /\ ipc[r] = "private" /\ ipc' = [ipc EXCEPT ![r] = "bind"]
      /\ shared' = shared \ {Ns(r)}
      /\ UNCHANGED <<ppc, spc, mounts, root, unshared>>
    BY DEF RemountPrivate, Goto
<1>2. \A q \in Runs : ipc'[q] = IF q = r THEN "bind" ELSE ipc[q]
    BY <1>1 DEF TypeOK
<1>3. \A q \in Runs : Ns(q)' = Ns(q) /\ (ShellAlive(q)' <=> ShellAlive(q))
    BY <1>1 DEF Ns, ShellAlive
<1>4. spc[r] = "none" /\ ~ShellAlive(r) /\ ppc[r] \notin {"unshare", "fork"}
    BY <1>1, WorkingAlone DEF Working, Checked
<1>5. NoTraceYet' /\ ShellPlace'
    BY <1>1, <1>2, <1>4 DEF NoTraceYet, ShellPlace, ShellAlive
<1>6. PrivateKept'
    BY <1>1, <1>2, <1>3 DEF PrivateKept, Behind
<1>7. \A P \in {PastPivot, PastUmount, PastProc, PastDev} : "bind" \notin P
    BY DEF PastPivot, PastUmount, PastProc, PastDev
<1>8. RootKept' /\ OldGone' /\ ProcThere' /\ DevThere'
    BY <1>1, <1>2, <1>3, <1>7 DEF RootKept, OldGone, ProcThere, DevThere, Behind, Mounted
<1>9. QED BY <1>1, <1>5, <1>6, <1>8 DEF LeakIsUnionOnly, HostRootKept

\* The pivot happens where con1 is still visible, so no other run in the same
\* namespace has pivoted, and where nothing propagates.
LEMMA PivotStep ==
    ASSUME IInv, TypeOK', NEW r \in Runs, PivotRoot(r)
    PROVE  IInv'
<1> USE DEF IInv
<1>1. /\ ipc[r] = "pivot" /\ ipc' = [ipc EXCEPT ![r] = "chdir"]
      /\ root' = [root EXCEPT ![Ns(r)] = r] /\ root[Ns(r)] = Host
      /\ Ns(r) \notin shared
      /\ UNCHANGED <<ppc, spc, shared, unshared>>
    BY DEF PivotRoot, Goto, Accepts, Visible
<1>2. \A q \in Runs : ipc'[q] = IF q = r THEN "chdir" ELSE ipc[q]
    BY <1>1 DEF TypeOK
<1>3. \A q \in Runs : Ns(q)' = Ns(q) /\ (ShellAlive(q)' <=> ShellAlive(q))
    BY <1>1 DEF Ns, ShellAlive
<1>4. spc[r] = "none" /\ ~ShellAlive(r) /\ ppc[r] \notin {"unshare", "fork"}
    BY <1>1, WorkingAlone DEF Working, Checked
<1>5. \A n \in Spaces : mounts'[n] = IF n = Ns(r) THEN mounts[n] \cup {<<"old", r>>}
                                                  ELSE mounts[n]
    BY <1>1 DEF PivotRoot, AddMount, Peers
<1>6. \A n \in Spaces, k \in Kinds, q \in Runs :
         q # r \/ k # "old" => (<<k, q>> \in mounts'[n] <=> <<k, q>> \in mounts[n])
    <2> SUFFICES ASSUME NEW n \in Spaces, NEW k \in Kinds, NEW q \in Runs, q # r \/ k # "old"
                 PROVE  <<k, q>> \in mounts'[n] <=> <<k, q>> \in mounts[n]
        OBVIOUS
    <2>1. <<k, q>> # <<"old", r>>
        OBVIOUS
    <2>2. mounts'[n] = mounts[n] \/ mounts'[n] = mounts[n] \cup {<<"old", r>>}
        BY <1>5
    <2>3. QED BY <2>1, <2>2
<1>7. \A n \in Spaces : root'[n] = IF n = Ns(r) THEN r ELSE root[n]
    BY <1>1 DEF TypeOK
<1>8. NoTraceYet'
    BY <1>1, <1>2, <1>4, <1>6, <1>7 DEF NoTraceYet
<1>9. ShellPlace'
    BY <1>1, <1>2, <1>4 DEF ShellPlace, ShellAlive
<1>10. PrivateKept'
    BY <1>1, <1>2, <1>3 DEF PrivateKept, Behind, PastPrivate, PastPivot
<1>11. RootKept'
    <2> SUFFICES ASSUME NEW q \in Runs, Behind(q, PastPivot)', q # r
                 PROVE  root'[Ns(q)] = q
        BY <1>3, <1>7, NsType DEF RootKept
    <2>1. root[Ns(q)] = q
        BY <1>2, <1>3 DEF Behind, RootKept
    <2>2. Ns(q) # Ns(r)
        BY <2>1, <1>1, RunsAssumption
    <2>3. QED BY <2>1, <2>2, <1>7, NsType
<1>12. "chdir" \notin PastUmount /\ "chdir" \notin PastProc /\ "chdir" \notin PastDev
    BY DEF PastUmount, PastProc, PastDev
<1>13. OldGone'
    <2>1. \A q \in Runs \ {r} : Mounted(q, "old")' <=> Mounted(q, "old")
        BY <1>3, <1>6, NsType DEF Mounted, Kinds
    <2>2. QED BY <2>1, <1>2, <1>3, <1>4, <1>12 DEF OldGone, Behind
<1>14. \A q \in Runs : /\ Mounted(q, "proc")' <=> Mounted(q, "proc")
                       /\ Mounted(q, "dev")' <=> Mounted(q, "dev")
    BY <1>3, <1>6, NsType DEF Mounted, Kinds
<1>15. ProcThere' /\ DevThere'
    BY <1>2, <1>3, <1>12, <1>14 DEF ProcThere, DevThere, Behind
<1>16. LeakIsUnionOnly'
    <2> SUFFICES ASSUME NEW n \in Spaces, NEW k \in Kinds, NEW q \in Runs,
                        <<k, q>> \in mounts'[n], q \in unshared, n # q
                 PROVE  k = "aufs"
        BY <1>1 DEF LeakIsUnionOnly
    <2>1. <<k, q>> \in mounts[n]
        BY <1>5, <1>6 DEF Ns
    <2>2. QED BY <2>1 DEF LeakIsUnionOnly
<1>17. HostRootKept'
    BY <1>1, <1>7, RunsAssumption DEF HostRootKept, Ns, Spaces
<1>18. QED BY <1>8, <1>9, <1>10, <1>11, <1>13, <1>15, <1>16, <1>17

\* Mounts of old roots go away: by a run's own umount2, or with the directory.
LEMMA DetachStep ==
    ASSUME IInv, TypeOK', NEW r \in Runs, UmountOld(r) \/ RmdirOld(r)
    PROVE  IInv'
<1> USE DEF IInv
<1> DEFINE to == IF ipc[r] = "umountOld" THEN "rmExists" ELSE "procExists"
<1>1. /\ ipc[r] \in {"umountOld", "rmdirOld"} /\ ipc' = [ipc EXCEPT ![r] = to]
      /\ UNCHANGED <<ppc, spc, shared, root, unshared>>
    BY DEF UmountOld, RmdirOld, Goto
<1>2. \A q \in Runs : ipc'[q] = IF q = r THEN to ELSE ipc[q]
    BY <1>1 DEF TypeOK
<1>3. \A q \in Runs : Ns(q)' = Ns(q) /\ (ShellAlive(q)' <=> ShellAlive(q))
    BY <1>1 DEF Ns, ShellAlive
<1>4. spc[r] = "none" /\ ~ShellAlive(r) /\ ppc[r] \notin {"unshare", "fork"}
    BY <1>1, WorkingAlone DEF Working, Checked
<1>5. \A n \in Spaces, k \in Kinds, q \in Runs :
         /\ <<k, q>> \in mounts'[n] => <<k, q>> \in mounts[n]
         /\ k # "old" /\ <<k, q>> \in mounts[n] => <<k, q>> \in mounts'[n]
    <2>1. CASE UmountOld(r)
        <3>1. \A n \in Spaces : \/ mounts'[n] = mounts[n]
                                \/ mounts'[n] = mounts[n] \ {<<"old", r>>}
            BY <2>1, NsType DEF UmountOld, TypeOK
        <3>2. QED BY <3>1
    <2>2. CASE RmdirOld(r)
        <3>1. PICK hit : mounts' = [n \in Spaces |-> IF n = Ns(r) THEN mounts[n]
                                                     ELSE mounts[n] \ ({"old"} \X hit)]
            BY <2>2 DEF RmdirOld
        <3>2. \A n \in Spaces : mounts'[n] = mounts[n] \/ mounts'[n] = mounts[n] \ ({"old"} \X hit)
            BY <3>1
        <3>3. QED BY <3>2
    <2>3. QED BY <2>1, <2>2
<1>6. ~Mounted(r, "old")'
    <2>1. CASE UmountOld(r)
        BY <2>1, NsType DEF UmountOld, TypeOK, Mounted, Ns
    <2>2. CASE RmdirOld(r)
        <3>1. ~Mounted(r, "old")
            BY <2>2 DEF RmdirOld, Accepts
        <3>2. QED BY <3>1, <1>3, <1>5, NsType DEF Mounted, Kinds
    <2>3. QED BY <2>1, <2>2
<1>7. /\ to \in PastUmount /\ to \in PastPivot /\ to \in PastPrivate
      /\ to \notin PastProc /\ to \notin PastDev
      /\ ipc[r] \in PastPivot /\ ipc[r] \in PastPrivate
    BY <1>1 DEF PastUmount, PastPivot, PastPrivate, PastProc, PastDev
<1>8. NoTraceYet'
    BY <1>1, <1>2, <1>4, <1>5 DEF NoTraceYet
<1>9. ShellPlace'
    BY <1>1, <1>2, <1>4 DEF ShellPlace, ShellAlive
<1>10. PrivateKept' /\ RootKept'
    BY <1>1, <1>2, <1>3, <1>7 DEF PrivateKept, RootKept, Behind
<1>11. OldGone'
    <2> SUFFICES ASSUME NEW q \in Runs, Behind(q, PastUmount)', q # r
                 PROVE  ~Mounted(q, "old")'
        BY <1>6 DEF OldGone
    <2>1. ~Mounted(q, "old")
        BY <1>2, <1>3 DEF OldGone, Behind
    <2>2. QED BY <2>1, <1>3, <1>5, NsType DEF Mounted, Kinds
<1>12. \A q \in Runs : /\ Mounted(q, "proc") => Mounted(q, "proc")'
                       /\ Mounted(q, "dev") => Mounted(q, "dev")'
    BY <1>3, <1>5, NsType DEF Mounted, Kinds
<1>13. ProcThere' /\ DevThere'
    BY <1>2, <1>3, <1>7, <1>12 DEF ProcThere, DevThere, Behind
<1>14. LeakIsUnionOnly' /\ HostRootKept'
    BY <1>1, <1>5 DEF LeakIsUnionOnly, HostRootKept
<1>15. QED BY <1>8, <1>9, <1>10, <1>11, <1>13, <1>14

\* The shell is forked, and inherits what init has set up.
LEMMA ForkShellStep ==
    ASSUME IInv, TypeOK', NEW r \in Runs, ForkShell(r)
    PROVE  IInv'
<1> USE DEF IInv
<1>1. /\ ipc[r] = "forkShell" /\ ipc' = [ipc EXCEPT ![r] = "waitShell"]
      /\ UNCHANGED <<ppc, nsVars, unshared>>
    BY DEF ForkShell, Goto
<1>2. \A q \in Runs : /\ ipc'[q] = IF q = r THEN "waitShell" ELSE ipc[q]
                      /\ q # r => spc'[q] = spc[q]
    BY <1>1 DEF TypeOK, ForkShell
<1>3. spc[r] = "none" /\ ~ShellAlive(r) /\ ppc[r] \notin {"unshare", "fork"}
    BY <1>1, WorkingAlone DEF Working, Unchecked
<1>4. \A P \in {PastPrivate, PastPivot, PastUmount, PastProc, PastDev} : "forkShell" \in P
    BY DEF PastPrivate, PastPivot, PastUmount, PastProc, PastDev
<1>5. \A q \in Runs : Ns(q)' = Ns(q) /\ (q # r => (ShellAlive(q)' <=> ShellAlive(q)))
    BY <1>1, <1>2 DEF Ns, ShellAlive
<1>6. NoTraceYet' /\ ShellPlace'
    BY <1>1, <1>2, <1>3 DEF NoTraceYet, ShellPlace, ShellAlive
<1>7. PrivateKept' /\ RootKept'
    BY <1>1, <1>2, <1>4, <1>5 DEF PrivateKept, RootKept, Behind
<1>8. OldGone' /\ ProcThere' /\ DevThere'
    BY <1>1, <1>2, <1>4, <1>5 DEF OldGone, ProcThere, DevThere, Behind, Mounted
<1>9. QED BY <1>1, <1>6, <1>7, <1>8 DEF LeakIsUnionOnly, HostRootKept

\* From there on the run only loses: the shell execs or ends, init ends.
LEMMA EndStep ==
    ASSUME IInv, TypeOK', NEW r \in Runs,
           WaitShell(r) \/ ShellExec(r) \/ ShellExit(r) \/ KillInit(r)
    PROVE  IInv'
<1> USE DEF IInv
<1>1. UNCHANGED <<ppc, nsVars, unshared>>
    BY DEF WaitShell, ShellExec, ShellExit, KillInit
<1>2. /\ ipc'[r] \in {ipc[r]} \cup Dead
      /\ \A q \in Runs : q # r => ipc'[q] = ipc[q] /\ spc'[q] = spc[q]
    BY DEF WaitShell, ShellExec, ShellExit, KillInit, Goto, Dead, TypeOK
<1>3. ShellAlive(r)' => ShellAlive(r)
    BY DEF WaitShell, ShellExec, ShellExit, KillInit, Goto, TypeOK, ShellAlive
<1>4. \A P \in {PastPrivate, PastPivot, PastUmount, PastProc, PastDev}, d \in Dead : d \notin P
    BY DEF PastPrivate, PastPivot, PastUmount, PastProc, PastDev, Dead
<1>5. \A q \in Runs : Ns(q)' = Ns(q) /\ (ShellAlive(q)' => ShellAlive(q))
    BY <1>1, <1>2, <1>3 DEF Ns, ShellAlive
<1>6. ipc[r] = "none" => ipc'[r] = "none"
    BY DEF WaitShell, ShellExec, ShellExit, KillInit, InitAlive, ShellPlace, Dead
<1>7. NoTraceYet'
    BY <1>1, <1>2, <1>6 DEF NoTraceYet
<1>8. ShellPlace'
    <2>1. spc'[r] # "none" => ipc'[r] \in {"waitShell"} \cup Dead
        BY <1>2 DEF ShellPlace, WaitShell, ShellExec, ShellExit, KillInit, Goto, ShellAlive
    <2>2. ShellAlive(r)' => ipc'[r] = "waitShell" \/ (ipc'[r] = "killed" /\ r \notin unshared)
        BY DEF ShellPlace, WaitShell, ShellExec, ShellExit, KillInit, Goto, ShellAlive,
               OwnPids, TypeOK
    <2>3. QED BY <1>1, <1>2, <2>1, <2>2 DEF ShellPlace, ShellAlive
<1>9. PrivateKept' /\ RootKept'
    BY <1>1, <1>2, <1>4, <1>5 DEF PrivateKept, RootKept, Behind
<1>10. OldGone' /\ ProcThere' /\ DevThere'
    BY <1>1, <1>2, <1>4, <1>5 DEF OldGone, ProcThere, DevThere, Behind, Mounted
<1>11. QED BY <1>1, <1>7, <1>8, <1>9, <1>10 DEF LeakIsUnionOnly, HostRootKept

-----------------------------------------------------------------------------
LEMMA IInvInit == Init => IInv
<1> SUFFICES ASSUME Init PROVE IInv OBVIOUS
<1>1. TypeOK
    BY TypeInit
<1>2. NoTraceYet
    BY RunsAssumption DEF Init, NoTraceYet
<1>3. \A r \in Runs : ~ShellAlive(r) /\ ipc[r] = "none" /\ spc[r] = "none"
    BY DEF Init, ShellAlive
<1>4. \A P \in {PastPrivate, PastPivot, PastUmount, PastProc, PastDev} : "none" \notin P
    BY DEF PastPrivate, PastPivot, PastUmount, PastProc, PastDev
<1>5. ShellPlace /\ PrivateKept /\ RootKept /\ OldGone /\ ProcThere /\ DevThere
    BY <1>3, <1>4 DEF ShellPlace, PrivateKept, RootKept, OldGone, ProcThere, DevThere, Behind
<1>6. LeakIsUnionOnly /\ HostRootKept
    BY DEF Init, LeakIsUnionOnly, HostRootKept, Spaces
<1>7. QED BY <1>1, <1>2, <1>5, <1>6 DEF IInv

LEMMA IInvStep == IInv /\ [Next]_vars => IInv'
<1> SUFFICES ASSUME IInv, [Next]_vars PROVE IInv' OBVIOUS
<1>0. TypeOK'
    BY TypeStep DEF IInv
<1>1. CASE UNCHANGED vars
    BY <1>1 DEF vars, IInv, TypeOK, NoTraceYet, ShellPlace, ShellAlive, PrivateKept, RootKept,
        OldGone, ProcThere, DevThere, Behind, Mounted, Ns, LeakIsUnionOnly, HostRootKept
<1> SUFFICES ASSUME NEW r \in Runs,
                    \/ SetUnshare(r) \/ ParentStep(r) \/ InitStep(r)
                    \/ ShellExec(r) \/ ShellExit(r) \/ KillParent(r) \/ KillInit(r)
             PROVE  IInv'
    BY <1>1 DEF Next
<1> USE <1>0
<1> USE DEF PastPrivate, PastPivot, PastUmount, PastProc, PastDev, Working, Checked, Unchecked
<1>2. CASE SetUnshare(r)
    BY <1>2, UnshareStep
<1>3. CASE ForkInit(r) \/ WaitInit(r) \/ KillParent(r)
    BY <1>3, ParentMove DEF ForkInit, WaitInit, KillParent
<1>4. CASE Exec(r)
    BY <1>4, QuietMove DEF Exec
<1>5. CASE AssertSpace(r)
    BY <1>5, QuietMove DEF AssertSpace
<1>6. CASE CreateReadOnly(r) \/ CreateReadWrite(r) \/ CreateMountingPoint(r)
    BY <1>6, QuietMove DEF CreateReadOnly, CreateReadWrite, CreateMountingPoint, UncheckedMkdir
<1>7. CASE MountAUFS(r)
    <2>1. CASE UNCHANGED mounts
        BY <1>7, <2>1, QuietMove DEF MountAUFS
    <2>2. CASE AddMount(r, "aufs")
        BY <1>7, <2>2, MountMove DEF MountAUFS, Kinds
    <2>3. QED BY <1>7, <2>1, <2>2 DEF MountAUFS
<1>8. CASE RemountPrivate(r)
    BY <1>8, RemountStep
<1>9. CASE BindNewRoot(r)
    BY <1>9, MountMove DEF BindNewRoot, Kinds
<1>10. CASE SafeMkdirOld(r)
    BY <1>10, QuietMove DEF SafeMkdirOld, TestDir, MakeDir
<1>11. CASE PivotRoot(r)
    BY <1>11, PivotStep
<1>12. CASE Chdir(r)
    BY <1>12, QuietMove DEF Chdir
<1>13. CASE UmountOld(r) \/ RmdirOld(r)
    BY <1>13, DetachStep
<1>14. CASE TestDir(r, "rmExists", "oldRoot", "rmdirOld", "procExists")
    BY <1>14, QuietMove DEF TestDir
<1>15. CASE SetProc(r)
    <2>1. CASE MountSpecial(r, "mountProc", "proc", "devExists")
        BY <2>1, MountMove DEF MountSpecial, Kinds
    <2>2. QED BY <1>15, <2>1, QuietMove DEF SetProc, TestDir, MakeDir
<1>16. CASE SetDev(r)
    <2>1. CASE MountSpecial(r, "mountDev", "dev", "forkShell")
        BY <2>1, MountMove DEF MountSpecial, Kinds
    <2>2. QED BY <1>16, <2>1, QuietMove DEF SetDev, TestDir, MakeDir
<1>17. CASE ForkShell(r)
    BY <1>17, ForkShellStep
<1>18. CASE CallRefused(r) \/ CallFails(r)
    BY <1>18, QuietMove DEF CallRefused, CallFails, Stop
<1>19. CASE WaitShell(r) \/ ShellExec(r) \/ ShellExit(r) \/ KillInit(r)
    BY <1>19, EndStep
<1>20. QED
    BY <1>2, <1>3, <1>4, <1>5, <1>6, <1>7, <1>8, <1>9, <1>10, <1>11, <1>12, <1>13, <1>14,
       <1>15, <1>16, <1>17, <1>18, <1>19
    DEF ParentStep, InitStep, SafeRmdirOld

LEMMA Inductive == Spec => []IInv
BY IInvInit, IInvStep, PTL DEF Spec

\* However many launches race, fail and die, no shell of theirs runs on the host's tree.
THEOREM Confined == Spec => []ShellConfined
<1>1. IInv => ShellConfined
    BY DEF IInv, ShellConfined, RootKept, OldGone, ProcThere, DevThere, Behind
<1>2. QED BY <1>1, Inductive, PTL

\* A run in its own namespace shows the others nothing but its union mount.
THEOREM LeakBounded == Spec => []LeakIsUnionOnly
<1>1. IInv => LeakIsUnionOnly
    BY DEF IInv
<1>2. QED BY <1>1, Inductive, PTL

\* Only a run whose unshare failed can replace the host's root.
THEOREM HostRoot == Spec => []HostRootKept
<1>1. IInv => HostRootKept
    BY DEF IInv
<1>2. QED BY <1>1, Inductive, PTL

-----------------------------------------------------------------------------
\* The steps of one run.
Step(r) == \/ SetUnshare(r) \/ ParentStep(r) \/ InitStep(r)
           \/ ShellExec(r) \/ ShellExit(r) \/ KillParent(r) \/ KillInit(r)

\* A step of a run is its own.
LEMMA OnlyOwn ==
    ASSUME TypeOK, NEW r \in Runs, Step(r), NEW q \in Runs \ {r}
    PROVE  /\ ppc'[q] = ppc[q] /\ ipc'[q] = ipc[q] /\ spc'[q] = spc[q]
           /\ view'[q] = view[q] /\ blame'[q] = blame[q]
           /\ q \in unshared' <=> q \in unshared
<1> USE DEF TypeOK, Goto
<1>1. CASE SetUnshare(r) \/ ForkInit(r) \/ WaitInit(r)
    BY <1>1 DEF SetUnshare, ForkInit, WaitInit
<1>2. CASE Exec(r) \/ AssertSpace(r) \/ MountAUFS(r) \/ RemountPrivate(r) \/ BindNewRoot(r)
    BY <1>2 DEF Exec, AssertSpace, MountAUFS, RemountPrivate, BindNewRoot
<1>3. CASE CreateReadOnly(r) \/ CreateReadWrite(r) \/ CreateMountingPoint(r)
    BY <1>3 DEF CreateReadOnly, CreateReadWrite, CreateMountingPoint, UncheckedMkdir
<1>4. CASE SafeMkdirOld(r) \/ SafeRmdirOld(r)
    BY <1>4 DEF SafeMkdirOld, SafeRmdirOld, RmdirOld, TestDir, MakeDir
<1>5. CASE SetProc(r) \/ SetDev(r)
    BY <1>5 DEF SetProc, SetDev, MountSpecial, TestDir, MakeDir
<1>6. CASE PivotRoot(r) \/ Chdir(r) \/ UmountOld(r) \/ ForkShell(r) \/ WaitShell(r)
    BY <1>6 DEF PivotRoot, Chdir, UmountOld, ForkShell, WaitShell
<1>7. CASE CallRefused(r) \/ CallFails(r)
    BY <1>7 DEF CallRefused, CallFails, Stop
<1>8. CASE ShellExec(r) \/ ShellExit(r) \/ KillParent(r) \/ KillInit(r)
    BY <1>8 DEF ShellExec, ShellExit, KillParent, KillInit
<1>9. QED BY <1>1, <1>2, <1>3, <1>4, <1>5, <1>6, <1>7, <1>8 DEF Step, ParentStep, InitStep

\* A step of init is one of a live init, and the parent's control stays.
LEMMA InitStepAlive ==
    ASSUME TypeOK, NEW r \in Runs, InitStep(r) \/ KillInit(r)
    PROVE  InitAlive(r) /\ UNCHANGED <<ppc, unshared>>
<1> USE DEF TypeOK, Goto, InitAlive, Dead, Checked
<1>1. CASE Exec(r) \/ AssertSpace(r) \/ MountAUFS(r) \/ RemountPrivate(r) \/ BindNewRoot(r)
    BY <1>1 DEF Exec, AssertSpace, MountAUFS, RemountPrivate, BindNewRoot
<1>2. CASE CreateReadOnly(r) \/ CreateReadWrite(r) \/ CreateMountingPoint(r)
    BY <1>2 DEF CreateReadOnly, CreateReadWrite, CreateMountingPoint, UncheckedMkdir
<1>3. CASE SafeMkdirOld(r) \/ SafeRmdirOld(r)
    BY <1>3 DEF SafeMkdirOld, SafeRmdirOld, RmdirOld, TestDir, MakeDir
<1>4. CASE SetProc(r) \/ SetDev(r)
    BY <1>4 DEF SetProc, SetDev, MountSpecial, TestDir, MakeDir
<1>5. CASE PivotRoot(r) \/ Chdir(r) \/ UmountOld(r) \/ ForkShell(r) \/ WaitShell(r)
    BY <1>5 DEF PivotRoot, Chdir, UmountOld, ForkShell, WaitShell
<1>6. CASE CallRefused(r) \/ CallFails(r)
    BY <1>6 DEF CallRefused, CallFails, Stop
<1>7. CASE KillInit(r)
    BY <1>7 DEF KillInit
<1>8. QED BY <1>1, <1>2, <1>3, <1>4, <1>5, <1>6, <1>7 DEF InitStep

-----------------------------------------------------------------------------
\* The parent returns after init, for good: init is not forked a second time.
Reaped == \A r \in Runs : ppc[r] = "returned" => ~InitAlive(r)

LEMMA ReapedStep == IInv /\ Reaped /\ [Next]_vars => Reaped'
<1> SUFFICES ASSUME IInv, Reaped, [Next]_vars PROVE Reaped' OBVIOUS
<1> USE DEF IInv
<1>1. CASE UNCHANGED vars
    BY <1>1 DEF vars, Reaped, InitAlive
<1>2. ASSUME NEW r \in Runs, Step(r), ppc'[r] = "returned" PROVE ~InitAlive(r)'
    <2>1. CASE InitStep(r) \/ KillInit(r)
        BY <1>2, <2>1, InitStepAlive DEF Reaped
    <2>2. CASE SetUnshare(r) \/ ForkInit(r) \/ KillParent(r)
        BY <1>2, <2>2 DEF SetUnshare, ForkInit, KillParent, TypeOK
    <2>3. CASE WaitInit(r)
        BY <2>3 DEF WaitInit, InitAlive
    <2>4. CASE ShellExec(r) \/ ShellExit(r)
        BY <1>2, <2>4 DEF ShellExec, ShellExit, Reaped, InitAlive
    <2>5. QED BY <1>2, <2>1, <2>2, <2>3, <2>4 DEF Step, ParentStep
<1>3. ASSUME NEW r \in Runs, Step(r) PROVE Reaped'
    BY <1>2, <1>3, OnlyOwn DEF Reaped, InitAlive
<1>4. QED BY <1>1, <1>3 DEF Next, Step

\* When the launching process returns, no shell of its run is left, except one
\* orphaned by an init killed in the host's PID namespace.
THEOREM Returns == Spec => []ReturnMeansGone
<1>1. Init => Reaped
    BY DEF Init, Reaped
<1>2. Spec => []Reaped
    BY <1>1, ReapedStep, Inductive, PTL DEF Spec
<1>3. IInv /\ Reaped => ReturnMeansGone
    BY DEF IInv, Reaped, ReturnMeansGone, ShellPlace, InitAlive, Dead
<1>4. QED BY <1>2, <1>3, Inductive, PTL

-----------------------------------------------------------------------------
\* Launches that race, and launches that find what others left.  Ahead of a run
\* that lost a race is another one, at a location of init from which it cannot
\* lose that race any more.
AheadDev   == {"mountDev", "forkShell", "waitShell", "exited"}
AheadProc  == AheadDev \cup {"mountProc", "devExists", "devMkdir"}
AheadRmdir == AheadProc \cup {"procExists", "procMkdir"}
AheadOld   == AheadRmdir \cup {"pivot", "chdir", "umountOld", "rmExists", "rmdirOld"}
AheadSets  == {AheadDev, AheadProc, AheadRmdir, AheadOld}

LostTo(At) == Overlap /\ \E q \in Runs : ipc[q] \in At

\* Nothing but the launches themselves is in their way.
Undisturbed == /\ {"con", "mnt"} \subseteq space /\ root[Host] = Host
               /\ Overlap => faults = 0 /\ kills = 0

BeforePivot == {"exec", "assert", "mkRO", "mkRW", "mkMnt", "aufs", "private", "bind",
                "oldExists", "oldMkdir", "pivot"}

There(r, d) == d \in rootDirs[view[r]]

\* What the next call of init needs is there, or another run is ahead.
Need(r) ==
    /\ ppc[r] \in {"unshare", "fork"} \/ ipc[r] \in BeforePivot => root[Ns(r)] = Host
    /\ ipc[r] \in {"oldExists", "oldMkdir", "pivot"} => Mounted(r, "bind")
    /\ ipc[r] = "oldMkdir" => ~There(r, "oldRoot") \/ LostTo(AheadOld)
    /\ ipc[r] \in {"pivot", "rmdirOld"} => There(r, "oldRoot") \/ LostTo(AheadRmdir)
    /\ ipc[r] \in {"chdir", "umountOld"} => Mounted(r, "old") \/ LostTo(AheadRmdir)
    /\ ipc[r] = "procMkdir" => ~There(r, "proc") \/ LostTo(AheadProc)
    /\ ipc[r] = "mountProc" => There(r, "proc")
    /\ ipc[r] = "devMkdir" => ~There(r, "dev") \/ LostTo(AheadDev)
    /\ ipc[r] = "mountDev" => There(r, "dev")
    /\ blame[r] = "refused" => LostTo(AheadOld)

Needs == Undisturbed => \A r \in Runs : Need(r)

\* Without overlap, of two runs one has not begun or is over.
Solo == ~Overlap => \A r, q \in Runs : r # q => \E s \in {r, q} : Idle(s) \/ Over(s)

\* Without a failing call every launch has its own namespaces.
NoFault == faults = 0 =>
    \A r \in Runs : /\ ppc[r] # "unshare" => r \in unshared
                    /\ ipc[r] = "failed" => blame[r] = "refused"

RInv == Needs /\ Solo /\ NoFault

\* Where runs do not overlap, one steps while the others have not begun or are over.
LEMMA SoloOthers ==
    ASSUME IInv, Solo, ~Overlap, NEW r \in Runs, Step(r), NEW q \in Runs \ {r}
    PROVE  Idle(q) \/ Over(q)
<1> USE DEF IInv
<1>1. ~Over(r)
    BY InitStepAlive DEF Step, ParentStep, ForkInit, WaitInit, SetUnshare, ShellExec,
        ShellExit, KillParent, Over, ShellAlive
<1>2. Idle(r) => MayStart(r)
    <2>1. Idle(r) => ipc[r] = "none" /\ spc[r] = "none"
        BY DEF Idle, NoTraceYet, ShellPlace, Dead
    <2>2. QED
        BY <2>1, InitStepAlive DEF Idle, InitAlive, Step, ParentStep, ForkInit, WaitInit,
            SetUnshare, ShellExec, ShellExit, KillParent
<1>3. CASE Idle(r)
    BY <1>2, <1>3 DEF MayStart
<1>4. CASE ~Idle(r)
    BY <1>1, <1>4 DEF Solo
<1>5. QED BY <1>3, <1>4

LEMMA SoloStep ==
    ASSUME IInv, Solo, NEW r \in Runs, Step(r)
    PROVE  Solo'
<1>1. \A q \in Runs \ {r} : (Idle(q) => Idle(q)') /\ (Over(q) => Over(q)')
    BY OnlyOwn DEF IInv, Idle, Over, InitAlive, ShellAlive
<1>2. QED BY <1>1, SoloOthers DEF Solo

\* Failures and kills are counted.
LEMMA CountersStep ==
    ASSUME TypeOK, NEW r \in Runs, Step(r)
    PROVE  /\ UNCHANGED faults \/ Fault
           /\ Fault => faults' # 0
           /\ UNCHANGED kills \/ kills' # 0
           /\ KillParent(r) \/ KillInit(r) => kills' # 0
           /\ CallFails(r) => faults' # 0
<1> USE DEF TypeOK
<1>1. /\ UNCHANGED faults \/ Fault
      /\ UNCHANGED kills \/ KillParent(r) \/ KillInit(r)
    <2>1. CASE SetUnshare(r) \/ ForkInit(r) \/ WaitInit(r)
        BY <2>1 DEF SetUnshare, ForkInit, WaitInit
    <2>2. CASE Exec(r) \/ AssertSpace(r) \/ MountAUFS(r) \/ RemountPrivate(r) \/ BindNewRoot(r)
        BY <2>2 DEF Exec, AssertSpace, MountAUFS, RemountPrivate, BindNewRoot
    <2>3. CASE CreateReadOnly(r) \/ CreateReadWrite(r) \/ CreateMountingPoint(r)
        BY <2>3 DEF CreateReadOnly, CreateReadWrite, CreateMountingPoint, UncheckedMkdir
    <2>4. CASE SafeMkdirOld(r) \/ SafeRmdirOld(r)
        BY <2>4 DEF SafeMkdirOld, SafeRmdirOld, RmdirOld, TestDir, MakeDir
    <2>5. CASE SetProc(r) \/ SetDev(r)
        BY <2>5 DEF SetProc, SetDev, MountSpecial, TestDir, MakeDir
    <2>6. CASE PivotRoot(r) \/ Chdir(r) \/ UmountOld(r) \/ ForkShell(r) \/ WaitShell(r)
        BY <2>6 DEF PivotRoot, Chdir, UmountOld, ForkShell, WaitShell
    <2>7. CASE CallRefused(r) \/ CallFails(r)
        BY <2>7 DEF CallRefused, CallFails, Stop
    <2>8. CASE ShellExec(r) \/ ShellExit(r) \/ KillParent(r) \/ KillInit(r)
        BY <2>8 DEF ShellExec, ShellExit, KillParent, KillInit
    <2>9. QED BY <2>1, <2>2, <2>3, <2>4, <2>5, <2>6, <2>7, <2>8 DEF Step, ParentStep, InitStep
<1>2. Fault => faults' # 0
    BY BoundsAssumption DEF Fault
<1>3. KillParent(r) \/ KillInit(r) => kills' # 0
    BY BoundsAssumption DEF KillParent, KillInit
<1>4. QED BY <1>1, <1>2, <1>3 DEF CallFails

\* What happens to the names in con1 and to the roots of the namespaces.
LEMMA SpaceStep ==
    ASSUME TypeOK, NEW r \in Runs, Step(r)
    PROVE  /\ space' \subseteq space \cup {"readOnly", "readWrite", "cwdReadWrite"}
           /\ \/ UNCHANGED root
              \/ PivotRoot(r) /\ root' = [root EXCEPT ![Ns(r)] = r]
              \/ SetUnshare(r) /\ root' = [root EXCEPT ![r] = root[Host]]
<1>1. CASE SetUnshare(r) \/ ForkInit(r) \/ WaitInit(r)
    BY <1>1 DEF SetUnshare, ForkInit, WaitInit
<1>2. CASE Exec(r) \/ AssertSpace(r) \/ MountAUFS(r) \/ RemountPrivate(r) \/ BindNewRoot(r)
    BY <1>2 DEF Exec, AssertSpace, MountAUFS, RemountPrivate, BindNewRoot
<1>3. CASE CreateReadOnly(r) \/ CreateReadWrite(r) \/ CreateMountingPoint(r)
    BY <1>3 DEF CreateReadOnly, CreateReadWrite, CreateMountingPoint, UncheckedMkdir
<1>4. CASE SafeMkdirOld(r) \/ SafeRmdirOld(r)
    BY <1>4 DEF SafeMkdirOld, SafeRmdirOld, RmdirOld, TestDir, MakeDir
<1>5. CASE SetProc(r) \/ SetDev(r)
    BY <1>5 DEF SetProc, SetDev, MountSpecial, TestDir, MakeDir
<1>6. CASE PivotRoot(r) \/ Chdir(r) \/ UmountOld(r) \/ ForkShell(r) \/ WaitShell(r)
    BY <1>6 DEF PivotRoot, Chdir, UmountOld, ForkShell, WaitShell
<1>7. CASE CallRefused(r) \/ CallFails(r)
    BY <1>7 DEF CallRefused, CallFails, Stop
<1>8. CASE ShellExec(r) \/ ShellExit(r) \/ KillParent(r) \/ KillInit(r)
    BY <1>8 DEF ShellExec, ShellExit, KillParent, KillInit
<1>9. QED BY <1>1, <1>2, <1>3, <1>4, <1>5, <1>6, <1>7, <1>8 DEF Step, ParentStep, InitStep

\* Once disturbed, always disturbed.
LEMMA Before ==
    ASSUME TypeOK, NEW r \in Runs, Step(r), Undisturbed'
    PROVE  /\ Undisturbed
           /\ Overlap => UNCHANGED <<faults, kills>> /\ ~CallFails(r) /\ ~KillParent(r) /\ ~KillInit(r)
           /\ PivotRoot(r) => Ns(r) = r
<1>1. {"con", "mnt"} \subseteq space
    BY SpaceStep DEF Undisturbed
<1>2. /\ Overlap => UNCHANGED <<faults, kills>> /\ ~CallFails(r) /\ ~KillParent(r) /\ ~KillInit(r)
      /\ Overlap => faults = 0 /\ kills = 0
    BY CountersStep DEF Undisturbed
<1>3. Ns(r) = r \/ Ns(r) = Host
    BY DEF Ns
<1>4. root[Host] = Host /\ (PivotRoot(r) => Ns(r) = r)
    <2>1. root'[Host] = Host /\ root \in [Spaces -> Spaces] /\ Host \in Spaces /\ r \in Spaces
          /\ r # Host
        BY RunsAssumption DEF Undisturbed, TypeOK, Spaces
    <2>2. PivotRoot(r) => root' = [root EXCEPT ![Ns(r)] = r]
        BY DEF PivotRoot
    <2>3. QED BY <1>3, <2>1, <2>2, SpaceStep
<1>5. QED BY <1>1, <1>2, <1>4 DEF Undisturbed

LEMMA NoFaultStep ==
    ASSUME IInv, NoFault, NEW r \in Runs, Step(r)
    PROVE  NoFault'
<1> USE DEF IInv
<1> SUFFICES ASSUME faults' = 0, faults = 0, ~Fault
             PROVE  /\ ppc'[r] # "unshare" => r \in unshared'
                    /\ ipc'[r] = "failed" => blame'[r] = "refused"
    BY OnlyOwn, CountersStep DEF NoFault
<1> USE DEF TypeOK
<1>1. CASE SetUnshare(r)
    BY <1>1 DEF SetUnshare, NoFault
<1>2. CASE ForkInit(r) \/ WaitInit(r) \/ KillParent(r)
    BY <1>2 DEF ForkInit, WaitInit, KillParent, Goto, NoFault
<1>3. CASE ShellExec(r) \/ ShellExit(r)
    BY <1>3 DEF ShellExec, ShellExit, NoFault
<1>4. CASE InitStep(r) \/ KillInit(r)
    <2>1. ppc'[r] # "unshare" => r \in unshared'
        BY <1>4, InitStepAlive DEF NoFault
    <2>2. CASE CallRefused(r) \/ CallFails(r)
        BY <2>1, <2>2 DEF CallRefused, CallFails, Stop
    <2>3. CASE Exec(r) \/ AssertSpace(r) \/ MountAUFS(r) \/ RemountPrivate(r) \/ BindNewRoot(r)
        BY <2>1, <2>3 DEF Exec, AssertSpace, MountAUFS, RemountPrivate, BindNewRoot, Goto
    <2>4. CASE CreateReadOnly(r) \/ CreateReadWrite(r) \/ CreateMountingPoint(r)
        BY <2>1, <2>4
        DEF CreateReadOnly, CreateReadWrite, CreateMountingPoint, UncheckedMkdir, Goto
    <2>5. CASE SafeMkdirOld(r) \/ SafeRmdirOld(r) \/ SetProc(r) \/ SetDev(r)
        BY <2>1, <2>5 DEF SafeMkdirOld, SafeRmdirOld, RmdirOld, SetProc, SetDev, MountSpecial,
                          TestDir, MakeDir, Goto
    <2>6. CASE PivotRoot(r) \/ Chdir(r) \/ UmountOld(r) \/ ForkShell(r) \/ WaitShell(r) \/ KillInit(r)
        BY <2>1, <2>6 DEF PivotRoot, Chdir, UmountOld, ForkShell, WaitShell, KillInit, Goto
    <2>7. QED BY <1>4, <2>2, <2>3, <2>4, <2>5, <2>6 DEF InitStep
<1>5. QED BY <1>1, <1>2, <1>3, <1>4 DEF Step, ParentStep

\* What a step of r does to the others, unless it pivots the host's root.
LEMMA Effects ==
    ASSUME IInv, NEW r \in Runs, Step(r), Undisturbed', NEW q \in Runs \ {r}
    PROVE  /\ Ns(q)' = Ns(q) /\ root'[Ns(q)] = root[Ns(q)]
           /\ Mounted(q, "bind") => Mounted(q, "bind")'
           /\ Mounted(q, "old") => Mounted(q, "old")' \/ ipc'[r] = "procExists"
<1> USE DEF IInv
<1>1. /\ Ns(q)' = Ns(q) /\ Ns(q) # r /\ Ns(q) \in Spaces
    BY OnlyOwn, NsType, RunsAssumption DEF Ns
<1>2. root'[Ns(q)] = root[Ns(q)]
    BY <1>1, SpaceStep, Before DEF TypeOK
<1>3. CASE \E k \in Kinds : AddMount(r, k)
    BY <1>1, <1>2, <1>3 DEF AddMount, Mounted
<1>4. CASE UNCHANGED mounts
    BY <1>1, <1>2, <1>4 DEF Mounted
<1>5. CASE SetUnshare(r) /\ mounts' = [mounts EXCEPT ![r] = mounts[Host]]
    BY <1>1, <1>2, <1>5 DEF Mounted, TypeOK
<1>6. CASE UmountOld(r)
    BY <1>1, <1>2, <1>6, NsType DEF UmountOld, Mounted, TypeOK
<1>7. CASE RmdirOld(r)
    <2>1. ipc'[r] = "procExists"
        BY <1>7 DEF RmdirOld, Goto, TypeOK
    <2>2. PICK hit : mounts' = [n \in Spaces |-> IF n = Ns(r) THEN mounts[n]
                                                 ELSE mounts[n] \ ({"old"} \X hit)]
        BY <1>7 DEF RmdirOld
    <2>3. Mounted(q, "bind") => Mounted(q, "bind")'
        BY <1>1, <2>2 DEF Mounted
    <2>4. QED BY <1>1, <1>2, <2>1, <2>3
<1>8. QED
    <2>1. CASE SetUnshare(r) \/ ForkInit(r) \/ WaitInit(r)
        BY <1>4, <1>5, <2>1 DEF SetUnshare, ForkInit, WaitInit
    <2>2. CASE Exec(r) \/ AssertSpace(r) \/ MountAUFS(r) \/ RemountPrivate(r) \/ BindNewRoot(r)
        BY <1>3, <1>4, <2>2 DEF Exec, AssertSpace, MountAUFS, RemountPrivate, BindNewRoot, Kinds
    <2>3. CASE CreateReadOnly(r) \/ CreateReadWrite(r) \/ CreateMountingPoint(r)
        BY <1>4, <2>3 DEF CreateReadOnly, CreateReadWrite, CreateMountingPoint, UncheckedMkdir
    <2>4. CASE SafeMkdirOld(r) \/ SafeRmdirOld(r)
        BY <1>4, <1>7, <2>4 DEF SafeMkdirOld, SafeRmdirOld, TestDir, MakeDir
    <2>5. CASE SetProc(r) \/ SetDev(r)
        BY <1>3, <1>4, <2>5 DEF SetProc, SetDev, MountSpecial, TestDir, MakeDir, Kinds
    <2>6. CASE PivotRoot(r) \/ Chdir(r) \/ ForkShell(r) \/ WaitShell(r)
        BY <1>3, <1>4, <2>6 DEF PivotRoot, Chdir, ForkShell, WaitShell, Kinds
    <2>7. CASE CallRefused(r) \/ CallFails(r)
        BY <1>4, <2>7 DEF CallRefused, CallFails, Stop
    <2>8. CASE ShellExec(r) \/ ShellExit(r) \/ KillParent(r) \/ KillInit(r)
        BY <1>4, <2>8 DEF ShellExec, ShellExit, KillParent, KillInit
    <2>9. QED BY <1>6, <2>1, <2>2, <2>3, <2>4, <2>5, <2>6, <2>7, <2>8
              DEF Step, ParentStep, InitStep

\* What a step does to the new roots.
LEMMA DirsChange ==
    ASSUME IInv, NEW r \in Runs, Step(r), NEW v \in Views, NEW d \in Dirs
    PROVE  /\ d \in rootDirs'[v] => \/ d \in rootDirs[v]
                                    \/ d = "oldRoot" /\ ipc'[r] = "pivot"
                                    \/ d = "proc" /\ ipc'[r] = "mountProc"
                                    \/ d = "dev" /\ ipc'[r] = "mountDev"
           /\ d \in rootDirs[v] => \/ d \in rootDirs'[v]
                                   \/ d = "oldRoot" /\ ipc'[r] = "procExists"
<1> USE DEF IInv, TypeOK, Goto
<1>1. CASE MakeDir(r, "oldMkdir", "oldRoot", "pivot")
    BY <1>1 DEF MakeDir, NewDir
<1>2. CASE MakeDir(r, "procMkdir", "proc", "mountProc")
    BY <1>2 DEF MakeDir, NewDir
<1>3. CASE MakeDir(r, "devMkdir", "dev", "mountDev")
    BY <1>3 DEF MakeDir, NewDir
<1>4. CASE RmdirOld(r)
    BY <1>4 DEF RmdirOld
<1>5. CASE UNCHANGED rootDirs
    BY <1>5
<1>6. QED
    <2>1. CASE SetUnshare(r) \/ ForkInit(r) \/ WaitInit(r)
        BY <1>5, <2>1 DEF SetUnshare, ForkInit, WaitInit
    <2>2. CASE Exec(r) \/ AssertSpace(r) \/ MountAUFS(r) \/ RemountPrivate(r) \/ BindNewRoot(r)
        BY <1>5, <2>2 DEF Exec, AssertSpace, MountAUFS, RemountPrivate, BindNewRoot
    <2>3. CASE CreateReadOnly(r) \/ CreateReadWrite(r) \/ CreateMountingPoint(r)
        BY <1>5, <2>3 DEF CreateReadOnly, CreateReadWrite, CreateMountingPoint, UncheckedMkdir
    <2>4. CASE SafeMkdirOld(r) \/ SafeRmdirOld(r)
        BY <1>1, <1>4, <1>5, <2>4 DEF SafeMkdirOld, SafeRmdirOld, TestDir
    <2>5. CASE SetProc(r) \/ SetDev(r)
        BY <1>2, <1>3, <1>5, <2>5 DEF SetProc, SetDev, MountSpecial, TestDir
    <2>6. CASE PivotRoot(r) \/ Chdir(r) \/ UmountOld(r) \/ ForkShell(r) \/ WaitShell(r)
        BY <1>5, <2>6 DEF PivotRoot, Chdir, UmountOld, ForkShell, WaitShell
    <2>7. CASE CallRefused(r) \/ CallFails(r)
        BY <1>5, <2>7 DEF CallRefused, CallFails, Stop
    <2>8. CASE ShellExec(r) \/ ShellExit(r) \/ KillParent(r) \/ KillInit(r)
        BY <1>5, <2>8 DEF ShellExec, ShellExit, KillParent, KillInit
    <2>9. QED BY <2>1, <2>2, <2>3, <2>4, <2>5, <2>6, <2>7, <2>8
              DEF Step, ParentStep, InitStep

\* A call that is refused is one whose race another run has won.
LEMMA Beaten ==
    ASSUME IInv, Undisturbed, NEW r \in Runs, Need(r),
           ipc[r] \in Checked, ~Accepts(r, ipc[r])
    PROVE  \E S \in AheadSets : /\ ipc[r] \notin S /\ LostTo(S)
                                /\ \A T \in AheadSets : ipc[r] \in T => S \subseteq T
<1> USE DEF IInv, AheadSets, AheadOld, AheadRmdir, AheadProc, AheadDev
<1>1. ipc[r] \in BeforePivot => Visible(r) /\ root[Ns(r)] = Host
    BY DEF Need, Visible
<1>2. ipc[r] \in PastPivot => root[Ns(r)] = r
    BY DEF RootKept, Behind
<1>3. \A d \in Dirs : ipc[r] \in BeforePivot \cup PastPivot => (InRoot(r, d) <=> There(r, d))
    BY <1>1, <1>2 DEF InRoot, There
<1>4. ipc[r] \notin {"exec", "assert", "private", "bind", "chdir", "mountProc", "mountDev"}
    BY <1>1, <1>3 DEF Accepts, Found, Undisturbed, Need, BeforePivot, PastPivot, PastUmount,
                      PastProc, PastDev, Dirs
<1>5. CASE ipc[r] = "oldMkdir"
    <2>1. LostTo(AheadOld)
        BY <1>1, <1>3, <1>5 DEF Accepts, Need, BeforePivot, Dirs
    <2>2. QED BY <1>5, <2>1
<1>6. CASE ipc[r] = "pivot"
    <2>1. Ns(r) \notin shared
        BY <1>6 DEF PrivateKept, Behind, PastPrivate
    <2>2. LostTo(AheadRmdir)
        BY <1>1, <1>3, <1>6, <2>1 DEF Accepts, Need, BeforePivot, Dirs
    <2>3. QED BY <1>6, <2>2
<1>7. CASE ipc[r] = "umountOld"
    <2>1. LostTo(AheadRmdir)
        BY <1>7 DEF Accepts, Need
    <2>2. QED BY <1>7, <2>1
<1>8. CASE ipc[r] = "rmdirOld"
    <2>1. ~Mounted(r, "old")
        BY <1>8 DEF OldGone, Behind, PastUmount
    <2>2. LostTo(AheadRmdir)
        BY <1>3, <1>8, <2>1 DEF Accepts, Need, PastPivot, PastUmount, Dirs
    <2>3. QED BY <1>8, <2>2
<1>9. CASE ipc[r] = "procMkdir"
    <2>1. LostTo(AheadProc)
        BY <1>3, <1>9 DEF Accepts, Need, PastPivot, PastUmount, Dirs
    <2>2. QED BY <1>9, <2>1
<1>10. CASE ipc[r] = "devMkdir"
    <2>1. LostTo(AheadDev)
        BY <1>3, <1>10 DEF Accepts, Need, PastPivot, PastUmount, PastProc, Dirs
    <2>2. QED BY <1>10, <2>1
<1>11. QED BY <1>4, <1>5, <1>6, <1>7, <1>8, <1>9, <1>10 DEF Checked

\* Some run stays ahead: one that is refused there was beaten by a further one.
LEMMA AheadStep ==
    ASSUME IInv, Undisturbed', NEW r \in Runs, Need(r), Step(r),
           NEW S \in AheadSets, LostTo(S)
    PROVE  LostTo(S)'
<1> USE DEF IInv
<1>1. Overlap
    BY DEF LostTo
<1>2. PICK q \in Runs : ipc[q] \in S
    BY DEF LostTo
<1>3. CASE q # r
    BY <1>1, <1>2, <1>3, OnlyOwn DEF LostTo
<1>4. CASE q = r /\ CallRefused(r)
    <2>1. PICK T \in AheadSets : ipc[r] \notin T /\ LostTo(T) /\ T \subseteq S
        BY <1>2, <1>4, Beaten, Before DEF CallRefused
    <2>2. PICK p \in Runs : ipc[p] \in T
        BY <2>1 DEF LostTo
    <2>3. ipc'[p] = ipc[p]
        BY <2>1, <2>2, OnlyOwn
    <2>4. QED BY <1>1, <2>1, <2>2, <2>3 DEF LostTo
<1>5. CASE q = r /\ ~CallRefused(r)
    <2>1. ipc'[r] \in S
        <3> USE DEF AheadSets, AheadOld, AheadRmdir, AheadProc, AheadDev, Goto, TypeOK
        <3>1. ~CallFails(r) /\ ~KillParent(r) /\ ~KillInit(r)
            BY <1>1, Before
        <3>2. CASE SetUnshare(r) \/ WaitInit(r) \/ ShellExec(r) \/ ShellExit(r)
            BY <1>2, <1>5, <3>2 DEF SetUnshare, WaitInit, ShellExec, ShellExit
        <3>3. CASE ForkInit(r)
            BY <1>2, <1>5, <3>3 DEF ForkInit, NoTraceYet
        <3>4. CASE Exec(r) \/ AssertSpace(r) \/ MountAUFS(r) \/ RemountPrivate(r) \/ BindNewRoot(r)
            BY <1>2, <1>5, <3>4 DEF Exec, AssertSpace, MountAUFS, RemountPrivate, BindNewRoot
        <3>5. CASE CreateReadOnly(r) \/ CreateReadWrite(r) \/ CreateMountingPoint(r)
            BY <1>2, <1>5, <3>5 DEF CreateReadOnly, CreateReadWrite, CreateMountingPoint
        <3>6. CASE SafeMkdirOld(r) \/ SafeRmdirOld(r)
            BY <1>2, <1>5, <3>6 DEF SafeMkdirOld, SafeRmdirOld, RmdirOld, TestDir, MakeDir
        <3>7. CASE SetProc(r)
            BY <1>2, <1>5, <3>7 DEF SetProc, MountSpecial, TestDir, MakeDir
        <3>8. CASE SetDev(r)
            BY <1>2, <1>5, <3>8 DEF SetDev, MountSpecial, TestDir, MakeDir
        <3>9. CASE PivotRoot(r) \/ Chdir(r) \/ UmountOld(r) \/ ForkShell(r) \/ WaitShell(r)
            BY <1>2, <1>5, <3>9 DEF PivotRoot, Chdir, UmountOld, ForkShell, WaitShell
        <3>10. QED BY <1>5, <3>1, <3>2, <3>3, <3>4, <3>5, <3>6, <3>7, <3>8, <3>9
                   DEF Step, ParentStep, InitStep
    <2>2. QED BY <1>1, <2>1 DEF LostTo
<1>6. QED BY <1>3, <1>4, <1>5

\* The other runs keep what they need, or are beaten now.
LEMMA OthersNeed ==
    ASSUME IInv, Solo, Undisturbed', \A q \in Runs : Need(q),
           NEW r \in Runs, Step(r), NEW q \in Runs \ {r}
    PROVE  Need(q)'
<1> USE DEF IInv
<1>1. /\ ppc'[q] = ppc[q] /\ ipc'[q] = ipc[q] /\ blame'[q] = blame[q] /\ view'[q] = view[q]
      /\ view[q] \in Views
    BY OnlyOwn DEF TypeOK
<1>2. \A S \in AheadSets : LostTo(S) => LostTo(S)'
    BY AheadStep
<1>3. /\ root'[Ns(q)'] = root[Ns(q)]
      /\ Mounted(q, "bind") => Mounted(q, "bind")'
      /\ Mounted(q, "old") => Mounted(q, "old")' \/ ipc'[r] = "procExists"
    BY Effects
<1>4. \A d \in Dirs :
         /\ There(q, d)' => \/ There(q, d)
                            \/ d = "oldRoot" /\ ipc'[r] = "pivot"
                            \/ d = "proc" /\ ipc'[r] = "mountProc"
                            \/ d = "dev" /\ ipc'[r] = "mountDev"
         /\ There(q, d) => \/ There(q, d)'
                           \/ d = "oldRoot" /\ ipc'[r] = "procExists"
    BY <1>1, DirsChange DEF There
<1>5. CASE Overlap
    <2>1. /\ ipc'[r] = "pivot" => LostTo(AheadOld)'
          /\ ipc'[r] = "procExists" => LostTo(AheadRmdir)'
          /\ ipc'[r] = "mountProc" => LostTo(AheadProc)'
          /\ ipc'[r] = "mountDev" => LostTo(AheadDev)'
        BY <1>5 DEF LostTo, AheadOld, AheadRmdir, AheadProc, AheadDev
    <2>2. QED
        BY <1>1, <1>2, <1>3, <1>4, <2>1 DEF Need, AheadSets, Dirs
<1>6. CASE ~Overlap
    <2>1. Idle(q) \/ Over(q)
        BY <1>6, SoloOthers
    <2>2. ppc[q] = "unshare" \/ ppc[q] \notin {"unshare", "fork"}
        BY <2>1 DEF Idle, Over
    <2>3. ipc[q] \in Dead \cup {"none"}
        BY <2>1 DEF Idle, Over, InitAlive, NoTraceYet
    <2>4. QED
        BY <1>1, <1>2, <1>3, <2>3 DEF Need, AheadSets, BeforePivot, Dead
<1>7. QED BY <1>5, <1>6

\* So does the stepping run: each call leaves what the next one needs.
LEMMA OwnNeed ==
    ASSUME IInv, TypeOK', Undisturbed', NoFault, \A q \in Runs : Need(q),
           NEW r \in Runs, Step(r)
    PROVE  Need(r)'
<1> USE DEF IInv
<1>1. \A S \in AheadSets : LostTo(S) => LostTo(S)'
    BY AheadStep
<1>2. /\ Need(r) /\ Undisturbed /\ r \in Spaces /\ Host \in Spaces /\ Ns(r) \in Spaces
      /\ Host # r
    BY Before, NsType, RunsAssumption DEF Spaces
<1>3. ipc[r] \in PastPivot => root[Ns(r)] = r
    BY DEF RootKept, Behind
<1>4. ipc[r] # "none" => ppc[r] \notin {"unshare", "fork"}
    BY DEF NoTraceYet
<1>5. ASSUME UNCHANGED <<root, unshared, blame>>, ppc'[r] \notin {"unshare", "fork"},
             ipc'[r] \in BeforePivot => ipc[r] \in BeforePivot \/ ppc[r] = "fork",
             ipc'[r] \notin {"oldExists", "oldMkdir", "pivot", "rmdirOld", "chdir", "umountOld",
                             "procMkdir", "mountProc", "devMkdir", "mountDev"}
      PROVE  Need(r)'
    BY <1>1, <1>2, <1>5 DEF Need, Ns, AheadSets
<1>6. CASE SetUnshare(r)
    <2>1. ipc'[r] = "none" /\ UNCHANGED blame /\ root[Host] = Host /\ root[Ns(r)] = Host
        BY <1>2, <1>6 DEF SetUnshare, NoTraceYet, Undisturbed, Need
    <2>2. root'[Ns(r)'] = Host
        BY <1>2, <1>6, <2>1 DEF SetUnshare, Ns, TypeOK, NoTraceYet
    <2>3. QED BY <1>1, <1>2, <2>1, <2>2 DEF Need, AheadSets, BeforePivot
<1>7. CASE ForkInit(r) \/ WaitInit(r) \/ KillParent(r)
    <2>1. /\ UNCHANGED <<nsVars, diskVars, unshared, view, blame>>
          /\ ppc'[r] \notin {"unshare", "fork"}
          /\ ipc'[r] = ipc[r] \/ (ppc[r] = "fork" /\ ipc'[r] = "exec")
        BY <1>7 DEF ForkInit, WaitInit, KillParent, Goto, TypeOK
    <2>2. /\ Mounted(r, "bind")' = Mounted(r, "bind") /\ Mounted(r, "old")' = Mounted(r, "old")
          /\ \A d \in Dirs : There(r, d)' = There(r, d)
          /\ root'[Ns(r)'] = root[Ns(r)]
        BY <2>1 DEF Mounted, There, Ns
    <2>3. QED BY <1>1, <1>2, <2>1, <2>2 DEF Need, AheadSets, BeforePivot, Dirs
<1>8. CASE ShellExec(r) \/ ShellExit(r)
    BY <1>1, <1>2, <1>8 DEF ShellExec, ShellExit, Need, AheadSets, Mounted, There, Ns
<1>9. CASE InitStep(r) \/ KillInit(r)
    <2> USE DEF Goto, TypeOK
    <2>0. UNCHANGED <<ppc, unshared>> /\ ipc[r] # "none" /\ ppc'[r] \notin {"unshare", "fork"}
          /\ Ns(r)' = Ns(r)
        BY <1>4, <1>9, InitStepAlive DEF InitAlive, Ns
    <2>1. CASE Exec(r) \/ AssertSpace(r) \/ MountAUFS(r) \/ RemountPrivate(r)
        BY <1>5, <2>0, <2>1 DEF Exec, AssertSpace, MountAUFS, RemountPrivate, BeforePivot
    <2>2. CASE CreateReadOnly(r) \/ CreateReadWrite(r) \/ CreateMountingPoint(r)
        BY <1>5, <2>0, <2>2
        DEF CreateReadOnly, CreateReadWrite, CreateMountingPoint, UncheckedMkdir, BeforePivot
    <2>3. CASE BindNewRoot(r)
        <3>1. /\ ipc[r] = "bind" /\ ipc'[r] = "oldExists" /\ UNCHANGED <<root, blame>>
              /\ AddMount(r, "bind")
            BY <2>3 DEF BindNewRoot
        <3>2. Mounted(r, "bind")'
            BY <1>2, <2>0, <3>1 DEF AddMount, Mounted, Peers
        <3>3. QED BY <1>1, <1>2, <2>0, <3>1, <3>2 DEF Need, AheadSets, BeforePivot
    <2>4. CASE SafeMkdirOld(r)
        <3>1. /\ UNCHANGED <<root, blame, mounts, view>>
              /\ root[Ns(r)] = Host
              /\ ipc[r] \in {"oldExists", "oldMkdir"} /\ Mounted(r, "bind")
            BY <1>2, <2>4 DEF SafeMkdirOld, TestDir, MakeDir, Need, BeforePivot
        <3>2. \/ ipc'[r] = "pivot" /\ There(r, "oldRoot")'
              \/ ipc'[r] = "oldMkdir" /\ ~There(r, "oldRoot")'
            BY <2>4, <3>1 DEF SafeMkdirOld, TestDir, MakeDir, NewDir, There, InRoot
        <3>3. QED BY <1>1, <1>2, <2>0, <3>1, <3>2 DEF Need, AheadSets, BeforePivot, Mounted
    <2>5. CASE PivotRoot(r)
        <3>1. /\ ipc'[r] = "chdir" /\ UNCHANGED blame /\ AddMount(r, "old")
            BY <2>5 DEF PivotRoot
        <3>2. Mounted(r, "old")'
            BY <1>2, <2>0, <3>1 DEF AddMount, Mounted, Peers
        <3>3. QED BY <1>1, <1>2, <2>0, <3>1, <3>2 DEF Need, AheadSets, BeforePivot
    <2>6. CASE Chdir(r)
        <3>1. /\ ipc[r] = "chdir" /\ ipc'[r] = "umountOld" /\ UNCHANGED <<blame, mounts>>
            BY <2>6 DEF Chdir
        <3>2. QED BY <1>1, <1>2, <2>0, <3>1 DEF Need, AheadSets, BeforePivot, Mounted
    <2>7. CASE UmountOld(r) \/ RmdirOld(r)
        <3>1. ipc'[r] \in {"rmExists", "procExists"} /\ UNCHANGED <<root, blame>>
            BY <2>7 DEF UmountOld, RmdirOld
        <3>2. QED BY <1>5, <2>0, <3>1 DEF BeforePivot
    <2>8. CASE TestDir(r, "rmExists", "oldRoot", "rmdirOld", "procExists")
        <3>1. /\ UNCHANGED <<root, blame, view, rootDirs>> /\ root[Ns(r)] = r
              /\ ipc'[r] = IF There(r, "oldRoot") THEN "rmdirOld" ELSE "procExists"
            BY <1>3, <2>8 DEF TestDir, InRoot, There, PastPivot, PastUmount
        <3>2. QED BY <1>1, <1>2, <2>0, <3>1 DEF Need, AheadSets, BeforePivot, There
    <2>9. CASE SetProc(r)
        <3>1. CASE TestDir(r, "procExists", "proc", "mountProc", "procMkdir")
            <4>1. /\ UNCHANGED <<root, blame, view, rootDirs>> /\ root[Ns(r)] = r
                  /\ ipc'[r] = IF There(r, "proc") THEN "mountProc" ELSE "procMkdir"
                BY <1>3, <3>1 DEF TestDir, InRoot, There, PastPivot, PastUmount
            <4>2. QED BY <1>1, <1>2, <2>0, <4>1 DEF Need, AheadSets, BeforePivot, There
        <3>2. CASE MakeDir(r, "procMkdir", "proc", "mountProc")
            <4>1. ipc'[r] = "mountProc" /\ There(r, "proc")' /\ UNCHANGED blame
                BY <3>2 DEF MakeDir, NewDir, There
            <4>2. QED BY <1>1, <1>2, <2>0, <4>1 DEF Need, AheadSets, BeforePivot
        <3>3. CASE MountSpecial(r, "mountProc", "proc", "devExists")
            BY <1>5, <2>0, <3>3 DEF MountSpecial, BeforePivot
        <3>4. QED BY <2>9, <3>1, <3>2, <3>3 DEF SetProc
    <2>10. CASE SetDev(r)
        <3>1. CASE TestDir(r, "devExists", "dev", "mountDev", "devMkdir")
            <4>1. /\ UNCHANGED <<root, blame, view, rootDirs>> /\ root[Ns(r)] = r
                  /\ ipc'[r] = IF There(r, "dev") THEN "mountDev" ELSE "devMkdir"
                BY <1>3, <3>1 DEF TestDir, InRoot, There, PastPivot, PastUmount, PastProc
            <4>2. QED BY <1>1, <1>2, <2>0, <4>1 DEF Need, AheadSets, BeforePivot, There
        <3>2. CASE MakeDir(r, "devMkdir", "dev", "mountDev")
            <4>1. ipc'[r] = "mountDev" /\ There(r, "dev")' /\ UNCHANGED blame
                BY <3>2 DEF MakeDir, NewDir, There
            <4>2. QED BY <1>1, <1>2, <2>0, <4>1 DEF Need, AheadSets, BeforePivot
        <3>3. CASE MountSpecial(r, "mountDev", "dev", "forkShell")
            BY <1>5, <2>0, <3>3 DEF MountSpecial, BeforePivot
        <3>4. QED BY <2>10, <3>1, <3>2, <3>3 DEF SetDev
    <2>11. CASE ForkShell(r) \/ WaitShell(r) \/ KillInit(r)
        BY <1>5, <2>0, <2>11 DEF ForkShell, WaitShell, KillInit, BeforePivot
    <2>12. CASE CallRefused(r)
        <3>1. ipc'[r] = "failed"
            BY <2>12 DEF CallRefused, Stop
        <3>2. PICK S \in AheadSets : LostTo(S)
            BY <1>2, <2>12, Beaten DEF CallRefused
        <3>3. LostTo(AheadOld)'
            BY <1>1, <3>2 DEF LostTo, AheadSets, AheadOld, AheadRmdir, AheadProc
        <3>4. QED BY <2>0, <3>1, <3>3 DEF Need, BeforePivot
    <2>13. CASE CallFails(r)
        <3>1. ipc'[r] = "failed" /\ blame'[r] = "fault"
            BY <2>13 DEF CallFails, Stop
        <3>2. QED BY <2>0, <3>1 DEF Need, BeforePivot
    <2>14. QED BY <1>9, <2>1, <2>2, <2>3, <2>4, <2>5, <2>6, <2>7, <2>8, <2>9, <2>10, <2>11,
                  <2>12, <2>13 DEF InitStep, SafeRmdirOld
<1>10. QED BY <1>6, <1>7, <1>8, <1>9 DEF Step, ParentStep

LEMMA RInvInit == Init => RInv
<1> SUFFICES ASSUME Init PROVE RInv OBVIOUS
<1>1. \A r \in Runs : root[Ns(r)] = Host
    BY NsType DEF Init
<1>2. Needs
    BY <1>1 DEF Init, Needs, Need
<1>3. Solo /\ NoFault
    BY DEF Init, Solo, NoFault, Idle
<1>4. QED BY <1>2, <1>3 DEF RInv

LEMMA RInvStep == IInv /\ TypeOK' /\ RInv /\ [Next]_vars => RInv'
<1> SUFFICES ASSUME IInv, TypeOK', RInv, [Next]_vars PROVE RInv' OBVIOUS
<1>1. CASE UNCHANGED vars
    BY <1>1 DEF vars, RInv, Needs, Need, Undisturbed, LostTo, There, Mounted, Ns, Solo, Idle,
                Over, InitAlive, ShellAlive, NoFault
<1>2. ASSUME NEW r \in Runs, Step(r) PROVE RInv'
    <2>1. Solo' /\ NoFault'
        BY <1>2, SoloStep, NoFaultStep DEF RInv
    <2>2. ASSUME Undisturbed' PROVE \A q \in Runs : Need(q)'
        <3>1. Undisturbed
            BY <1>2, <2>2, Before DEF IInv
        <3>2. QED BY <1>2, <2>2, <3>1, OwnNeed, OthersNeed DEF RInv, Needs
    <2>3. QED BY <2>1, <2>2 DEF RInv, Needs
<1>3. QED BY <1>1, <1>2 DEF Next, Step

LEMMA RaceInvariant == Spec => [](IInv /\ RInv)
<1>1. IInv => TypeOK
    BY DEF IInv
<1>2. QED BY <1>1, RInvInit, RInvStep, Inductive, PTL DEF Spec

\* However many launches race on con1, one that no call failed and no signal hit
\* lost to another one, and not all of them to one another (safe_mkdir, safe_rmdir).
THEOREM Winner == Spec => []RaceHasWinner
<1>1. IInv /\ RInv => RaceHasWinner
    <2> SUFFICES ASSUME IInv, RInv, \A r \in Runs : ipc[r] = "failed",
                        ~(faults + kills > 0), {"con", "mnt"} \subseteq space
                 PROVE  FALSE
        BY DEF RaceHasWinner
    <2>1. faults = 0 /\ kills = 0
        BY BoundsAssumption DEF IInv, TypeOK
    <2>2. \A r \in Runs : r \in unshared /\ blame[r] = "refused"
        BY <2>1 DEF IInv, RInv, NoFault, NoTraceYet
    <2>3. root[Host] = Host
        BY <2>2 DEF IInv, TypeOK, HostRootKept, Spaces
    <2>4. PICK r \in Runs : Need(r)
        BY <2>1, <2>3, RunsAssumption DEF RInv, Needs, Undisturbed
    <2>5. LostTo(AheadOld)
        BY <2>2, <2>4 DEF Need
    <2>6. "failed" \notin AheadOld
        BY DEF AheadOld, AheadRmdir, AheadProc, AheadDev
    <2>7. QED BY <2>5, <2>6 DEF LostTo
<1>2. QED BY <1>1, RaceInvariant, PTL

\* What earlier launches left, wherever they failed or were killed, does not stop a
\* later one that does not overlap them.
THEOREM Tolerates == Spec => []LeftoversTolerated
<1>1. RInv => LeftoversTolerated
    BY DEF RInv, Needs, Undisturbed, Need, LostTo, LeftoversTolerated
<1>2. QED BY <1>1, RaceInvariant, PTL

-----------------------------------------------------------------------------
\* A namespace whose root is a run's was pivoted by that run.
Rooted == \A r \in Runs, n \in Spaces : root[n] = r => ipc[r] \in PastPivot \cup Dead

\* Past the pivot, init does not come back.
LEMMA PastStays ==
    ASSUME IInv, NEW r \in Runs, Step(r), ipc[r] \in PastPivot \cup Dead
    PROVE  ipc'[r] \in PastPivot \cup Dead
<1> USE DEF IInv, TypeOK, Goto, PastPivot, PastUmount, PastProc, PastDev, Dead
<1>1. CASE SetUnshare(r) \/ WaitInit(r) \/ ShellExec(r) \/ ShellExit(r) \/ KillParent(r)
    BY <1>1 DEF SetUnshare, WaitInit, ShellExec, ShellExit, KillParent
<1>2. CASE ForkInit(r)
    BY <1>2 DEF ForkInit, NoTraceYet
<1>3. CASE Exec(r) \/ AssertSpace(r) \/ MountAUFS(r) \/ RemountPrivate(r) \/ BindNewRoot(r)
    BY <1>3 DEF Exec, AssertSpace, MountAUFS, RemountPrivate, BindNewRoot
<1>4. CASE CreateReadOnly(r) \/ CreateReadWrite(r) \/ CreateMountingPoint(r)
    BY <1>4 DEF CreateReadOnly, CreateReadWrite, CreateMountingPoint
<1>5. CASE SafeMkdirOld(r) \/ SafeRmdirOld(r)
    BY <1>5 DEF SafeMkdirOld, SafeRmdirOld, RmdirOld, TestDir, MakeDir
<1>6. CASE SetProc(r)
    BY <1>6 DEF SetProc, MountSpecial, TestDir, MakeDir
<1>7. CASE SetDev(r)
    BY <1>7 DEF SetDev, MountSpecial, TestDir, MakeDir
<1>8. CASE PivotRoot(r) \/ Chdir(r) \/ UmountOld(r) \/ ForkShell(r) \/ WaitShell(r)
    BY <1>8 DEF PivotRoot, Chdir, UmountOld, ForkShell, WaitShell
<1>9. CASE CallRefused(r) \/ CallFails(r) \/ KillInit(r)
    BY <1>9 DEF CallRefused, CallFails, Stop, KillInit
<1>10. QED BY <1>1, <1>2, <1>3, <1>4, <1>5, <1>6, <1>7, <1>8, <1>9
           DEF Step, ParentStep, InitStep

LEMMA RootedStep ==
    ASSUME IInv, Rooted, NEW r \in Runs, Step(r)
    PROVE  Rooted'
<1> USE DEF IInv
<1>1. ASSUME NEW q \in Runs, ipc[q] \in PastPivot \cup Dead
      PROVE  ipc'[q] \in PastPivot \cup Dead
    BY <1>1, PastStays, OnlyOwn
<1>2. ASSUME NEW n \in Spaces, NEW q \in Runs, root'[n] = q
      PROVE  (\E m \in Spaces : root[m] = q) \/ ipc'[q] = "chdir"
    <2>1. CASE UNCHANGED root
        BY <1>2, <2>1
    <2>2. CASE PivotRoot(r)
        BY <1>2, <2>2, NsType DEF PivotRoot, Goto, TypeOK
    <2>3. CASE root' = [root EXCEPT ![r] = root[Host]]
        BY <1>2, <2>3 DEF TypeOK, Spaces
    <2>4. QED BY <2>1, <2>2, <2>3, SpaceStep
<1>3. "chdir" \in PastPivot
    BY DEF PastPivot
<1>4. QED BY <1>1, <1>2, <1>3 DEF Rooted

\* What a step of r means for Launch: r's phase, and who is sealed.
Phases == [q \in Runs |-> Phase(q)]

LEMMA OthersPhase ==
    ASSUME IInv, NEW r \in Runs, Step(r)
    PROVE  /\ \A q \in Runs \ {r} : Phase(q)' = Phase(q)
           /\ Phases' = [Phases EXCEPT ![r] = Phase(r)']
           /\ Phases[r] = Phase(r)
<1>1. ASSUME NEW q \in Runs \ {r} PROVE Phase(q)' = Phase(q)
    BY OnlyOwn DEF IInv, Phase, InitAlive
<1>2. QED BY <1>1 DEF Phases

\* A step that ends r's launch, or begins it, or neither; where no root and no
\* old root changes but r's, the others stay sealed or not.
LEMMA SealStays ==
    ASSUME IInv, NEW r \in Runs, Step(r), NEW q \in Runs \ {r},
           UNCHANGED root \/ PivotRoot(r) \/ SetUnshare(r),
           \/ UNCHANGED mounts
           \/ \E k \in Kinds : AddMount(r, k)
           \/ SetUnshare(r) /\ mounts' = [mounts EXCEPT ![r] = mounts[Host]]
           \/ UmountOld(r)
    PROVE  q \in SealedRuns' <=> q \in SealedRuns
<1> USE DEF IInv
<1>1. /\ Ns(q)' = Ns(q) /\ Ns(q) # r /\ Ns(q) \in Spaces /\ Ns(r) \in Spaces
    BY OnlyOwn, NsType, RunsAssumption DEF Ns
<1>2. root'[Ns(q)] = q <=> root[Ns(q)] = q
    <2>1. CASE PivotRoot(r)
        BY <1>1, <2>1, RunsAssumption DEF PivotRoot, Accepts, Visible, TypeOK
    <2>2. CASE SetUnshare(r)
        BY <1>1, <2>2 DEF SetUnshare, TypeOK
    <2>3. QED BY <2>1, <2>2
<1>3. Mounted(q, "old")' <=> Mounted(q, "old")
    <2>1. CASE \E k \in Kinds : AddMount(r, k)
        BY <1>1, <2>1 DEF AddMount, Mounted
    <2>2. CASE mounts' = [mounts EXCEPT ![r] = mounts[Host]]
        BY <1>1, <2>2 DEF Mounted, TypeOK
    <2>3. CASE UmountOld(r)
        BY <1>1, <2>3 DEF UmountOld, Mounted, TypeOK
    <2>4. QED BY <1>1, <2>1, <2>2, <2>3 DEF Mounted
<1>4. Phase(q)' = Phase(q)
    BY OthersPhase
<1>5. QED BY <1>1, <1>2, <1>3, <1>4 DEF SealedRuns

\* A step in which the others stay as they are is r's own in Launch.
LEMMA OwnLaunchStep ==
    ASSUME IInv, NEW r \in Runs, Step(r),
           \A q \in Runs \ {r} : q \in SealedRuns' <=> q \in SealedRuns,
           \/ Phase(r)' = Phase(r) /\ (r \in SealedRuns' <=> r \in SealedRuns)
           \/ Phase(r)' = Phase(r) /\ Phase(r) = "setup" /\ r \in SealedRuns'
           \/ Phase(r) = "idle" /\ Phase(r)' = "setup" /\ r \notin SealedRuns'
           \/ Phase(r) = "setup" /\ Phase(r)' = "running" /\ r \in SealedRuns /\ r \in SealedRuns'
           \/ Phase(r) # "over" /\ Phase(r)' = "over"
    PROVE  [L!Next]_(L!vars)
<1>1. /\ SealedRuns \subseteq Runs /\ SealedRuns' \subseteq Runs
      /\ r \in SealedRuns => Phase(r) \in {"setup", "running"}
      /\ r \in SealedRuns' => Phase(r)' \in {"setup", "running"}
    BY DEF SealedRuns
<1>2. /\ Phases' = [Phases EXCEPT ![r] = Phase(r)'] /\ Phases[r] = Phase(r)
      /\ Phase(r)' = Phase(r) => Phases' = Phases
    BY OthersPhase DEF Phases
<1>3. CASE Phase(r)' = Phase(r) /\ (r \in SealedRuns' <=> r \in SealedRuns)
    <2>1. SealedRuns' = SealedRuns
        BY <1>1, <1>3
    <2>2. QED BY <1>2, <1>3, <2>1 DEF Phases, L!vars
<1>4. CASE Phase(r)' = Phase(r) /\ Phase(r) = "setup" /\ r \in SealedRuns'
    <2>1. SealedRuns' = SealedRuns \cup {r}
        BY <1>1, <1>4
    <2>2. {r} \in SUBSET {q \in Runs : Phases[q] = "setup"}
        BY <1>2, <1>4
    <2>3. L!Seal
        BY <1>2, <1>4, <2>1, <2>2 DEF L!Seal, Phases
    <2>4. QED BY <2>3 DEF L!Next
<1>5. CASE Phase(r) = "idle" /\ Phase(r)' = "setup" /\ r \notin SealedRuns'
    <2>1. SealedRuns' = SealedRuns
        BY <1>1, <1>5
    <2>2. L!Begin(r)
        BY <1>2, <1>5, <2>1 DEF L!Begin, L!Enter, Phases
    <2>3. QED BY <2>2 DEF L!Next
<1>6. CASE Phase(r) = "setup" /\ Phase(r)' = "running" /\ r \in SealedRuns /\ r \in SealedRuns'
    <2>1. SealedRuns' = SealedRuns
        BY <1>1, <1>6
    <2>2. L!Start(r)
        BY <1>2, <1>6, <2>1 DEF L!Start, L!Enter, Phases
    <2>3. QED BY <2>2 DEF L!Next
<1>7. CASE Phase(r) # "over" /\ Phase(r)' = "over"
    <2>1. SealedRuns' = SealedRuns \ {r}
        BY <1>1, <1>7
    <2>2. L!Finish(r)
        BY <1>2, <1>7, <2>1 DEF L!Finish, L!Enter, Phases
    <2>3. QED BY <2>2 DEF L!Next
<1>8. QED BY <1>3, <1>4, <1>5, <1>6, <1>7

\* The steps that change neither a root nor an old root.
LEMMA QuietLaunchStep ==
    ASSUME IInv, NEW r \in Runs, Step(r), UNCHANGED <<root, unshared>>,
           UNCHANGED mounts \/ \E k \in Kinds \ {"old"} : AddMount(r, k),
           \/ Phase(r)' = Phase(r)
           \/ Phase(r) = "idle" /\ Phase(r)' = "setup" /\ root[Ns(r)] # r
           \/ Phase(r) = "setup" /\ Phase(r)' = "running" /\ r \in SealedRuns
           \/ Phase(r) # "over" /\ Phase(r)' = "over"
    PROVE  [L!Next]_(L!vars)
<1>1. Ns(r)' = Ns(r) /\ Ns(r) \in Spaces
    BY NsType DEF Ns
<1>2. Mounted(r, "old")' <=> Mounted(r, "old")
    BY <1>1 DEF AddMount, Mounted
<1>3. \A q \in Runs \ {r} : q \in SealedRuns' <=> q \in SealedRuns
    BY SealStays
<1>4. CASE Phase(r)' = Phase(r)
    <2>1. r \in SealedRuns' <=> r \in SealedRuns
        BY <1>1, <1>2, <1>4 DEF SealedRuns
    <2>2. QED BY <1>3, <1>4, <2>1, OwnLaunchStep
<1>5. CASE Phase(r) = "idle" /\ Phase(r)' = "setup" /\ root[Ns(r)] # r
    <2>1. r \notin SealedRuns'
        BY <1>1, <1>5 DEF SealedRuns
    <2>2. QED BY <1>3, <1>5, <2>1, OwnLaunchStep
<1>6. CASE Phase(r) = "setup" /\ Phase(r)' = "running" /\ r \in SealedRuns
    <2>1. r \in SealedRuns'
        BY <1>1, <1>2, <1>6 DEF SealedRuns
    <2>2. QED BY <1>3, <1>6, <2>1, OwnLaunchStep
<1>7. CASE Phase(r) # "over" /\ Phase(r)' = "over"
    BY <1>3, <1>7, OwnLaunchStep
<1>8. QED BY <1>4, <1>5, <1>6, <1>7

\* rmdir of an old root detaches it in other namespaces, too: it seals whoever had
\* nothing but that before it.
LEMMA RmdirLaunchStep ==
    ASSUME IInv, NEW r \in Runs, RmdirOld(r), Phase(r) = "setup", Phase(r)' = "setup"
    PROVE  L!Seal
<1> USE DEF IInv
<1> DEFINE new == SealedRuns' \ SealedRuns
<1>1. /\ \A q \in Runs : Phase(q)' = Phase(q) /\ Ns(q)' = Ns(q) /\ Ns(q) \in Spaces
      /\ UNCHANGED root
    <2>1. Step(r)
        BY DEF Step, InitStep, SafeRmdirOld
    <2>2. UNCHANGED <<root, unshared>>
        BY DEF RmdirOld
    <2>3. QED BY <2>1, <2>2, OthersPhase, NsType DEF Ns
<1>2. Phases' = Phases
    BY <1>1 DEF Phases
<1>3. \A q \in Runs : Mounted(q, "old")' => Mounted(q, "old")
    <2>1. PICK hit : mounts' = [n \in Spaces |-> IF n = Ns(r) THEN mounts[n]
                                                 ELSE mounts[n] \ ({"old"} \X hit)]
        BY DEF RmdirOld
    <2>2. QED BY <1>1, <2>1 DEF Mounted
<1>4. SealedRuns \subseteq SealedRuns'
    BY <1>1, <1>3 DEF SealedRuns
<1>5. ASSUME NEW q \in new PROVE q \in Runs /\ Phase(q) = "setup"
    <2>1. q \in Runs /\ Phase(q) \in {"setup", "running"} /\ Mounted(q, "old")
        BY <1>1, <1>5 DEF SealedRuns
    <2>2. Phase(q) = "running" => ShellAlive(q)
        BY DEF Phase, ShellAlive
    <2>3. QED BY <2>1, <2>2 DEF OldGone, Behind
<1>6. SealedRuns' = SealedRuns \cup new
    BY <1>4
<1>7. new \in SUBSET {q \in Runs : Phases[q] = "setup"}
    BY <1>5 DEF Phases
<1>8. QED BY <1>2, <1>6, <1>7 DEF L!Seal, Phases

\* While init works, and until its shell runs, the launch is being set up.
LEMMA WorkingIsSetup ==
    ASSUME IInv, NEW r \in Runs, ipc[r] \in Working
    PROVE  /\ spc[r] = "none" /\ Phase(r) = "setup"
           /\ UNCHANGED spc /\ ipc'[r] \in Working => Phase(r)' = "setup"
           /\ UNCHANGED spc /\ ipc'[r] \in Dead => Phase(r)' = "over"
BY WorkingAlone DEF Phase, InitAlive, Working, Checked, Unchecked, Dead

LEMMA InitLaunchStep ==
    ASSUME IInv, NEW r \in Runs, InitStep(r)
    PROVE  [L!Next]_(L!vars)
<1> USE DEF IInv
<1>0. Step(r) /\ UNCHANGED unshared
    BY InitStepAlive DEF Step
<1> USE DEF Working, Checked, Unchecked
<1>1. ASSUME ipc[r] \in Working, ipc'[r] \in Working \cup Dead, UNCHANGED <<spc, root>>,
             UNCHANGED mounts \/ \E k \in Kinds \ {"old"} : AddMount(r, k)
      PROVE  [L!Next]_(L!vars)
    BY <1>0, <1>1, WorkingIsSetup, QuietLaunchStep
<1>2. CASE Exec(r) \/ AssertSpace(r) \/ MountAUFS(r) \/ RemountPrivate(r) \/ BindNewRoot(r)
    BY <1>1, <1>2 DEF Exec, AssertSpace, MountAUFS, RemountPrivate, BindNewRoot, Goto, Kinds, TypeOK
<1>3. CASE CreateReadOnly(r) \/ CreateReadWrite(r) \/ CreateMountingPoint(r)
    BY <1>1, <1>3
    DEF CreateReadOnly, CreateReadWrite, CreateMountingPoint, UncheckedMkdir, Goto, TypeOK
<1>4. CASE SafeMkdirOld(r) \/ TestDir(r, "rmExists", "oldRoot", "rmdirOld", "procExists") \/ Chdir(r)
    BY <1>1, <1>4 DEF SafeMkdirOld, TestDir, MakeDir, Chdir, Goto, TypeOK
<1>5. CASE SetProc(r) \/ SetDev(r)
    BY <1>1, <1>5 DEF SetProc, SetDev, TestDir, MakeDir, MountSpecial, Goto, Kinds, TypeOK
<1>6. CASE CallRefused(r) \/ CallFails(r)
    BY <1>1, <1>6 DEF CallRefused, CallFails, Stop, Goto, TypeOK, Dead
<1>7. CASE PivotRoot(r)
    <2>1. /\ ipc[r] \in Working /\ ipc'[r] \in Working /\ UNCHANGED spc
          /\ root[Ns(r)] = Host /\ AddMount(r, "old") /\ Ns(r)' = Ns(r)
        BY <1>0, <1>7 DEF PivotRoot, Accepts, Visible, Goto, TypeOK, Ns
    <2>2. Mounted(r, "old")'
        BY <2>1, NsType DEF AddMount, Mounted, Peers
    <2>3. r \notin SealedRuns /\ r \notin SealedRuns'
        BY <2>1, <2>2, RunsAssumption DEF SealedRuns
    <2>4. \A q \in Runs \ {r} : q \in SealedRuns' <=> q \in SealedRuns
        BY <1>0, <1>7, <2>1, SealStays DEF Kinds
    <2>5. QED BY <1>0, <2>1, <2>3, <2>4, WorkingIsSetup, OwnLaunchStep
<1>8. CASE UmountOld(r)
    <2>1. /\ ipc[r] = "umountOld" /\ ipc'[r] \in Working /\ UNCHANGED <<spc, root>>
          /\ mounts' = [mounts EXCEPT ![Ns(r)] = @ \ {<<"old", r>>}] /\ Ns(r)' = Ns(r)
        BY <1>0, <1>8 DEF UmountOld, Goto, TypeOK, Ns
    <2>2. root[Ns(r)] = r
        BY <2>1 DEF RootKept, Behind, PastPivot
    <2>3. Phase(r) = "setup" /\ Phase(r)' = "setup"
        BY <2>1, WorkingIsSetup
    <2>4. r \in SealedRuns'
        BY <2>1, <2>2, <2>3, NsType DEF SealedRuns, Mounted, TypeOK
    <2>5. \A q \in Runs \ {r} : q \in SealedRuns' <=> q \in SealedRuns
        BY <1>0, <1>8, <2>1, SealStays
    <2>6. QED BY <1>0, <2>3, <2>4, <2>5, OwnLaunchStep
<1>9. CASE RmdirOld(r)
    <2>1. Phase(r) = "setup" /\ Phase(r)' = "setup"
        BY <1>9, WorkingIsSetup DEF RmdirOld, Goto, TypeOK
    <2>2. QED BY <1>9, <2>1, RmdirLaunchStep DEF L!Next
<1>10. CASE ForkShell(r)
    <2>1. /\ ipc[r] \in Working /\ spc[r] = "none" /\ ipc'[r] = "waitShell"
          /\ spc'[r] = "exec" \/ UNCHANGED spc
          /\ UNCHANGED <<root, mounts>>
        BY <1>10, WorkingAlone DEF ForkShell, Goto, TypeOK
    <2>2. Phase(r) = "setup" /\ Phase(r)' \in {"setup", "over"}
        BY <2>1, WorkingIsSetup DEF Phase
    <2>3. QED BY <1>0, <2>1, <2>2, QuietLaunchStep
<1>11. CASE WaitShell(r)
    <2>1. /\ ipc[r] = "waitShell" /\ ipc'[r] = "exited" /\ spc[r] \in {"none", "done"}
          /\ UNCHANGED <<spc, root, mounts>>
        BY <1>11 DEF WaitShell, Goto, TypeOK, ShellAlive, ShellAt
    <2>2. Phase(r) = "over" /\ Phase(r)' = "over"
        BY <2>1 DEF Phase, InitAlive, Dead
    <2>3. QED BY <1>0, <2>1, <2>2, QuietLaunchStep
<1>12. QED BY <1>2, <1>3, <1>4, <1>5, <1>6, <1>7, <1>8, <1>9, <1>10, <1>11
           DEF InitStep, SafeRmdirOld

LEMMA OtherLaunchStep ==
    ASSUME IInv, Rooted, NEW r \in Runs, Step(r), ~InitStep(r)
    PROVE  [L!Next]_(L!vars)
<1> USE DEF IInv
<1>1. CASE SetUnshare(r)
    <2>1. /\ ipc[r] = "none" /\ spc[r] = "none" /\ ppc[r] = "unshare" /\ ppc'[r] = "fork"
          /\ UNCHANGED <<ipc, spc>>
        BY <1>1 DEF SetUnshare, NoTraceYet, ShellPlace, TypeOK, Dead
    <2>2. Phase(r) = "idle" /\ Phase(r)' = "idle"
        BY <2>1 DEF Phase, InitAlive
    <2>3. r \notin SealedRuns /\ r \notin SealedRuns'
        BY <2>2 DEF SealedRuns
    <2>4. \A q \in Runs \ {r} : q \in SealedRuns' <=> q \in SealedRuns
        BY <1>1, SealStays DEF SetUnshare
    <2>5. QED BY <2>2, <2>3, <2>4, OwnLaunchStep
<1>2. CASE ForkInit(r)
    <2>1. /\ ipc[r] = "none" /\ spc[r] = "none" /\ ppc[r] = "fork" /\ ppc'[r] = "wait"
          /\ ipc'[r] \in {"none", "exec"} /\ UNCHANGED <<spc, root, mounts, unshared>>
        BY <1>2 DEF ForkInit, Goto, NoTraceYet, ShellPlace, TypeOK, Dead
    <2>2. Phase(r) = "idle" /\ Phase(r)' \in {"setup", "over"}
        BY <2>1 DEF Phase, InitAlive, Dead
    <2>3. root[Ns(r)] # r
        BY <2>1, NsType DEF Rooted, PastPivot, PastUmount, PastProc, PastDev, Dead
    <2>4. QED BY <2>1, <2>2, <2>3, QuietLaunchStep
<1>3. CASE WaitInit(r) \/ KillParent(r)
    <2>1. /\ ppc[r] \in {"wait", "fork"} /\ ppc'[r] \in {"returned", "killed"}
          /\ UNCHANGED <<ipc, spc, root, mounts, unshared>>
        BY <1>3 DEF WaitInit, KillParent, TypeOK
    <2>2. Phase(r)' = Phase(r) \/ (Phase(r) # "over" /\ Phase(r)' = "over")
        BY <2>1 DEF Phase, InitAlive
    <2>3. QED BY <2>1, <2>2, QuietLaunchStep
<1>4. CASE ShellExec(r)
    <2>1. /\ spc[r] = "exec" /\ spc'[r] \in {"running", "done"}
          /\ UNCHANGED <<ppc, ipc, root, mounts, unshared>>
        BY <1>4 DEF ShellExec, TypeOK
    <2>2. Phase(r) = "setup" /\ (Phase(r)' = "over" \/ Phase(r)' = "running")
        BY <2>1 DEF Phase
    <2>3. r \in SealedRuns
        BY <2>1, <2>2 DEF SealedRuns, RootKept, OldGone, Behind, ShellAlive
    <2>4. QED BY <2>1, <2>2, <2>3, QuietLaunchStep
<1>5. CASE ShellExit(r)
    <2>1. /\ spc[r] = "running" /\ spc'[r] = "done"
          /\ UNCHANGED <<ppc, ipc, root, mounts, unshared>>
        BY <1>5 DEF ShellExit, TypeOK
    <2>2. Phase(r) = "running" /\ Phase(r)' = "over"
        BY <2>1 DEF Phase
    <2>3. QED BY <2>1, <2>2, QuietLaunchStep
<1>6. CASE KillInit(r)
    <2>1. /\ InitAlive(r) /\ ipc'[r] = "killed" /\ UNCHANGED <<ppc, root, mounts, unshared>>
          /\ spc'[r] = spc[r] \/ spc'[r] = "done"
        BY <1>6, InitStepAlive DEF KillInit, Goto, TypeOK
    <2>2. ipc'[r] # "none" /\ ~InitAlive(r)'
        BY <2>1 DEF InitAlive, Dead
    <2>3. Phase(r)' = "over" \/ (spc'[r] = spc[r] /\ spc[r] \in {"exec", "running"})
        BY <2>1, <2>2 DEF Phase, TypeOK, ShellAt
    <2>4. Phase(r)' = Phase(r) \/ (Phase(r) # "over" /\ Phase(r)' = "over")
        BY <2>1, <2>2, <2>3 DEF Phase
    <2>5. QED BY <2>1, <2>4, QuietLaunchStep
<1>7. QED BY <1>1, <1>2, <1>3, <1>4, <1>5, <1>6 DEF Step, ParentStep

LEMMA LaunchStep == IInv /\ Rooted /\ [Next]_vars => [L!Next]_(L!vars)
<1>1. ASSUME IInv, Rooted, NEW r \in Runs, Step(r) PROVE [L!Next]_(L!vars)
    BY <1>1, InitLaunchStep, OtherLaunchStep
<1>2. CASE UNCHANGED vars
    <2>1. \A r \in Runs : Phase(r)' = Phase(r)
        BY <1>2 DEF vars, Phase, InitAlive
    <2>2. SealedRuns' = SealedRuns
        BY <1>2, <2>1 DEF vars, SealedRuns, Mounted, Ns
    <2>3. QED BY <2>1, <2>2 DEF L!vars
<1>3. QED BY <1>1, <1>2 DEF Next, Step

LEMMA LaunchInit == Init => L!Init
<1> SUFFICES ASSUME Init PROVE L!Init OBVIOUS
<1>1. \A r \in Runs : Phase(r) = "idle"
    BY DEF Init, Phase, InitAlive, Dead
<1>2. SealedRuns = {}
    BY <1>1 DEF SealedRuns
<1>3. QED BY <1>1, <1>2 DEF L!Init

\* Every launch, with whatever other launches, failures and signals, goes through the
\* states that Launch allows it: nothing of a container executes before the host's
\* tree is sealed off from it, and nothing after it is over.
THEOREM Implements == Spec => LaunchSteps
<1>1. Init => Rooted
    BY RunsAssumption DEF Init, Rooted
<1>2. IInv /\ Rooted /\ [Next]_vars => Rooted'
    <2>1. ASSUME IInv, Rooted, NEW r \in Runs, Step(r) PROVE Rooted'
        BY <2>1, RootedStep
    <2>2. CASE UNCHANGED vars
        BY <2>2 DEF vars, Rooted
    <2>3. QED BY <2>1, <2>2 DEF Next, Step
<1>3. Spec => [](IInv /\ Rooted)
    BY <1>1, <1>2, Inductive, PTL DEF Spec
<1>4. QED BY <1>3, LaunchInit, LaunchStep, PTL DEF Spec, LaunchSteps, L!Safety
=============================================================================
