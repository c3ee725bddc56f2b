----------------------------- MODULE PivotDemo -----------------------------
(***************************************************************************)
(* learning/pivot_root/main.c, the program pivotRoot of container.cpp was  *)
(* written after: a parent clones a child into a mount namespace of its    *)
(* own; the child pivots into new_root and executes a program there.       *)
(*                                                                         *)
(* Several copies may run, at a time or in turn, on one new_root.  They    *)
(* meet in the directory oldRootfs below it.  A call is an action.  The    *)
(* kernel is external; of it we model what Container does.                 *)
(***************************************************************************)
EXTENDS Integers

CONSTANTS
    Runs,       \* the copies of the program
    Host,       \* the initial mount namespace
    Nobody,     \* there is no oldRootfs
    Before,     \* oldRootfs was there before the first run
    HostShared, \* "/" of the host is a shared mount
    Owners,     \* Nobody, Before or both: what the first run may find
    MaxFaults,  \* bound on calls that fail for an outside reason
    MaxKills    \* bound on processes killed from outside

Spaces == Runs \cup {Host}

ASSUME NamesAssumption  == Nobody # Before /\ {Host, Nobody, Before} \cap Runs = {}
ASSUME FlagsAssumption  == HostShared \in BOOLEAN /\ Owners \subseteq {Nobody, Before}
ASSUME BoundsAssumption == {MaxFaults, MaxKills} \subseteq Nat

VARIABLES
    ppc,    \* control of main
    cpc,    \* control of child_fn, and of the program it executes
    mounts, \* the mounts of each mount namespace, with the run that made them
    shared, \* the namespaces whose mounts still propagate
    root,   \* the root of each namespace: Host, or the run pivoted to
    owner,  \* who made oldRootfs
    kept,   \* history: the runs whose umount2() failed
    beaten, \* history: the runs whose mkdir() met an oldRootfs
    faults, kills

nsVars == <<mounts, shared, root>>
vars   == <<ppc, cpc, nsVars, owner, kept, beaten, faults, kills>>

Setup    == {"private", "bind", "mkdir", "pivot", "chdir", "umount", "rmdir", "exec"}
Over     == {"ended", "failed", "killed"}
ParentAt == {"clone", "wait", "returned", "failed", "killed"}
ChildAt  == {"none", "running"} \cup Setup \cup Over

BeforeMkdir == {"none", "private", "bind", "mkdir"}
\* From a successful mkdir() to the rmdir().
Pivoting == {"pivot", "chdir", "umount", "rmdir"}

Init ==
    /\ ppc = [r \in Runs |-> "clone"]
    /\ cpc = [r \in Runs |-> "none"]
    /\ mounts = [n \in Spaces |-> {}]
    /\ shared = IF HostShared THEN {Host} ELSE {}
    /\ root = [n \in Spaces |-> Host]
    /\ owner \in Owners
    /\ kept = {} /\ beaten = {}
    /\ faults = 0 /\ kills = 0

Peers(n) == IF n \in shared THEN shared ELSE {n}

AddMount(r, kind) ==
    mounts' = [n \in Spaces |-> IF n \in Peers(r) THEN mounts[n] \cup {<<kind, r>>}
                                                  ELSE mounts[n]]

Fault == faults < MaxFaults /\ faults' = faults + 1

Goto(r, from, to) == cpc[r] = from /\ cpc' = [cpc EXCEPT ![r] = to]

\* A call fails; the child prints a line and exits.
Fails(r, at) == Goto(r, at, "failed") /\ Fault

-----------------------------------------------------------------------------
\* mmap() and clone(CLONE_NEWNS): the namespace starts as a copy of the host's.
CloneChild(r) ==
    /\ ppc[r] = "clone"
    /\ \/ /\ ppc' = [ppc EXCEPT ![r] = "wait"] /\ Goto(r, "none", "private")
          /\ mounts' = [mounts EXCEPT ![r] = mounts[Host]]
          /\ root' = [root EXCEPT ![r] = root[Host]]
          /\ shared' = IF Host \in shared THEN shared \cup {r} ELSE shared
          /\ UNCHANGED faults
       \/ /\ ppc' = [ppc EXCEPT ![r] = "failed"] /\ Fault
          /\ UNCHANGED <<cpc, nsVars>>
    /\ UNCHANGED <<owner, kept, beaten, kills>>

\* Defect variants (With..., Without...): no specification uses them.  Each is
\* the definition that follows it with one plausible bug.

\* wait() is repeated until the child has ended in good order.
WaitWithoutFailures(r) ==
    /\ ppc[r] = "wait" /\ cpc[r] = "ended"
    /\ ppc' = [ppc EXCEPT ![r] = "returned"]
    /\ UNCHANGED <<cpc, nsVars, owner, kept, beaten, faults, kills>>

\* wait().
Wait(r) ==
    /\ ppc[r] = "wait" /\ cpc[r] \in Over
    /\ ppc' = [ppc EXCEPT ![r] = "returned"]
    /\ UNCHANGED <<cpc, nsVars, owner, kept, beaten, faults, kills>>

RemountPrivate(r) ==
    /\ \/ /\ Goto(r, "private", "bind") /\ shared' = shared \ {r}
          /\ UNCHANGED faults
       \/ Fails(r, "private") /\ UNCHANGED shared
    /\ UNCHANGED <<ppc, mounts, root, owner, kept, beaten, kills>>

BindNewRoot(r) ==
    /\ \/ Goto(r, "bind", "mkdir") /\ AddMount(r, "bind") /\ UNCHANGED faults
       \/ Fails(r, "bind") /\ UNCHANGED mounts
    /\ UNCHANGED <<ppc, shared, root, owner, kept, beaten, kills>>

\* An existing directory will do, as in safe_mkdir.
MkdirOldWithExisting(r) ==
    /\ Goto(r, "mkdir", "pivot")
    /\ owner' = IF owner = Nobody THEN r ELSE owner
    /\ UNCHANGED <<ppc, nsVars, kept, beaten, faults, kills>>

\* mkdir() without a test before it: whoever finds the directory exits.
MkdirOld(r) ==
    /\ \/ /\ owner = Nobody /\ Goto(r, "mkdir", "pivot")
          /\ owner' = r /\ UNCHANGED <<beaten, faults>>
       \/ /\ owner # Nobody /\ Goto(r, "mkdir", "failed")
          /\ beaten' = beaten \cup {r} /\ UNCHANGED <<owner, faults>>
       \/ Fails(r, "mkdir") /\ UNCHANGED <<owner, beaten>>
    /\ UNCHANGED <<ppc, nsVars, kept, kills>>

\* pivot_root() needs a root that does not propagate.
PivotRoot(r) ==
    /\ \/ /\ r \notin shared /\ Goto(r, "pivot", "chdir")
          /\ AddMount(r, "old") /\ root' = [root EXCEPT ![r] = r]
          /\ UNCHANGED faults
       \/ Fails(r, "pivot") /\ UNCHANGED <<mounts, root>>
    /\ UNCHANGED <<ppc, shared, owner, kept, beaten, kills>>

Chdir(r) ==
    /\ \/ Goto(r, "chdir", "umount") /\ UNCHANGED faults
       \/ Fails(r, "chdir")
    /\ UNCHANGED <<ppc, nsVars, owner, kept, beaten, kills>>

\* The failure is taken for harmless and not remembered.
UmountOldWithoutTrace(r) ==
    /\ Goto(r, "umount", "rmdir")
    /\ UNCHANGED <<ppc, nsVars, owner, kept, beaten, faults, kills>>

\* A failing umount2() is only printed.
UmountOld(r) ==
    /\ Goto(r, "umount", "rmdir")
    /\ \/ /\ mounts' = [mounts EXCEPT ![r] = @ \ {<<"old", r>>}]
          /\ UNCHANGED <<kept, faults>>
       \/ Fault /\ kept' = kept \cup {r} /\ UNCHANGED mounts
    /\ UNCHANGED <<ppc, shared, root, owner, beaten, kills>>

\* So is a failing rmdir(); a mount point is not removed.
RmdirOld(r) ==
    /\ Goto(r, "rmdir", "exec")
    /\ \/ /\ <<"old", r>> \notin mounts[r] /\ owner' = Nobody
          /\ UNCHANGED faults
       \/ <<"old", r>> \in mounts[r] /\ UNCHANGED <<owner, faults>>
       \/ Fault /\ UNCHANGED owner
    /\ UNCHANGED <<ppc, nsVars, kept, beaten, kills>>

ExecProgram(r) ==
    /\ \/ Goto(r, "exec", "running") /\ UNCHANGED faults
       \/ Fails(r, "exec")
    /\ UNCHANGED <<ppc, nsVars, owner, kept, beaten, kills>>

ProgramEnds(r) ==
    /\ Goto(r, "running", "ended")
    /\ UNCHANGED <<ppc, nsVars, owner, kept, beaten, faults, kills>>

KillParent(r) ==
    /\ ppc[r] = "wait" /\ kills < MaxKills /\ kills' = kills + 1
    /\ ppc' = [ppc EXCEPT ![r] = "killed"]
    /\ UNCHANGED <<cpc, nsVars, owner, kept, beaten, faults>>

KillChild(r) ==
    /\ cpc[r] \in Setup \cup {"running"} /\ kills < MaxKills /\ kills' = kills + 1
    /\ cpc' = [cpc EXCEPT ![r] = "killed"]
    /\ UNCHANGED <<ppc, nsVars, owner, kept, beaten, faults>>

-----------------------------------------------------------------------------
ChildStep(r) == \/ RemountPrivate(r) \/ BindNewRoot(r) \/ MkdirOld(r) \/ PivotRoot(r)
                \/ Chdir(r) \/ UmountOld(r) \/ RmdirOld(r) \/ ExecProgram(r)

Next == \E r \in Runs : \/ CloneChild(r) \/ Wait(r) \/ ChildStep(r) \/ ProgramEnds(r)
                        \/ KillParent(r) \/ KillChild(r)

Spec == Init /\ [][Next]_vars

\* The kernel schedules what can run; the program may run as long as it likes.
FairSpec == Spec /\ \A r \in Runs : WF_vars(ChildStep(r)) /\ WF_vars(Wait(r))

-----------------------------------------------------------------------------
TypeOK ==
    /\ ppc \in [Runs -> ParentAt] /\ cpc \in [Runs -> ChildAt]
    /\ mounts \in [Spaces -> SUBSET ({"bind", "old"} \X Runs)]
    /\ shared \in SUBSET Spaces /\ root \in [Spaces -> Spaces]
    /\ owner \in Runs \cup {Nobody, Before}
    /\ {kept, beaten} \subseteq SUBSET Runs
    /\ faults \in 0..MaxFaults /\ kills \in 0..MaxKills

\* "no mounts created by the container are visible on the host" (main.c:39), nor in
\* another run's namespace: here the remount comes first, unlike in
\* containerInitProcess (container.cpp:166), where LeakIsUnionOnly is what is left.
NoHostPropagation == \A n \in Spaces : \A m \in mounts[n] : m[2] = n

\* mkdir() is the lock: a run that pivots owns oldRootfs until it removes it, so no
\* run takes it from under another one or pivots over another's.
OldRootOwned == \A r \in Runs : cpc[r] \in Pivoting => owner = r

\* The program runs on new_root.  It can reach the host's tree only if umount2()
\* failed, and then oldRootfs stays where every later run fails over it.
SealedOrBlocked ==
    \A r \in Runs : cpc[r] = "running" =>
        /\ root[r] = r
        /\ <<"old", r>> \in mounts[r] => r \in kept /\ owner = r

\* Runs that race for oldRootfs never all lose: a run is beaten by a directory that
\* was there before, or by one of another run that got past its mkdir().
BeatenBySomeone ==
    \A r \in beaten : owner # Before =>
        \E q \in Runs \ {r} : q \notin beaten /\ cpc[q] \notin BeforeMkdir

\* An oldRootfs that nobody is about to remove.
Leftover == owner # Nobody /\ (owner = Before \/ cpc[owner] \notin Pivoting)

\* There is no recovery: a run that dies or fails between mkdir() and rmdir() leaves
\* a directory that no later run removes or gets past.
LeftoverStays == [][Leftover => Leftover']_vars

\* A child that has been started ends its setup, and when it is over the parent
\* returns, whoever failed.
ChildEndPropagates ==
    \A r \in Runs : /\ cpc[r] \in Setup ~> cpc[r] \in Over \cup {"running"}
                    /\ cpc[r] \in Over ~> ppc[r] \in {"returned", "killed"}
=============================================================================
