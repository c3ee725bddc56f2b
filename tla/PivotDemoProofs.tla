-------------------------- MODULE PivotDemoProofs --------------------------
(***************************************************************************)
(* The pivot_root demo, for any number of copies that meet below one       *)
(* new_root, any bound on faults and on kills, a shared or a private host, *)
(* and with or without an oldRootfs before the first of them.              *)
(***************************************************************************)
EXTENDS PivotDemo, TLAPS

\* Only a run that has made its mounts private mounts anything.
PrivateBeforeBind == \A r \in Runs : cpc[r] = "bind" => r \notin shared

\* A run past pivot_root() sees new_root; past umount2(), it sees the host's tree
\* only if umount2() failed, and then it still owns oldRootfs.
Sealed ==
    \A r \in Runs :
        /\ cpc[r] \in {"chdir", "umount", "rmdir", "exec", "running"} => root[r] = r
        /\ cpc[r] \in {"rmdir", "exec", "running"} /\ <<"old", r>> \in mounts[r] =>
              r \in kept /\ owner = r

\* An owner is past a mkdir() that succeeded, a beaten run past one that did not.
PastMkdir ==
    /\ owner \in Runs => owner \notin beaten /\ cpc[owner] \notin BeforeMkdir
    /\ \A r \in beaten : cpc[r] \notin BeforeMkdir

IInv == /\ TypeOK /\ NoHostPropagation /\ PrivateBeforeBind
        /\ OldRootOwned /\ Sealed /\ PastMkdir /\ BeatenBySomeone

\* The steps of one run.
Step(r) == CloneChild(r) \/ Wait(r) \/ ChildStep(r) \/ ProgramEnds(r)
               \/ KillParent(r) \/ KillChild(r)

-----------------------------------------------------------------------------
LEMMA FaultType ==
    ASSUME TypeOK, Fault PROVE faults' \in 0..MaxFaults
BY BoundsAssumption DEF Fault, TypeOK

LEMMA KillType ==
    ASSUME TypeOK, kills < MaxKills, kills' = kills + 1 PROVE kills' \in 0..MaxKills
BY BoundsAssumption DEF TypeOK

\* What a run mounts in a namespace that does not propagate, it mounts there only.
LEMMA MountIsOwn ==
    ASSUME TypeOK, NEW r \in Runs, r \notin shared, NEW kind \in {"bind", "old"},
           AddMount(r, kind)
    PROVE  /\ mounts' \in [Spaces -> SUBSET ({"bind", "old"} \X Runs)]
           /\ mounts'[r] = mounts[r] \cup {<<kind, r>>}
           /\ \A n \in Spaces \ {r} : mounts'[n] = mounts[n]
BY DEF AddMount, Peers, Spaces, TypeOK

\* Wherever the step of one run leaves the others alone.
LEMMA OthersStay ==
    ASSUME TypeOK, NEW r \in Runs, Step(r)
    PROVE  \A q \in Runs \ {r} : cpc'[q] = cpc[q]
BY DEF Step, ChildStep, CloneChild, Wait, RemountPrivate, BindNewRoot, MkdirOld, PivotRoot,
       Chdir, UmountOld, RmdirOld, ExecProgram, ProgramEnds, KillParent, KillChild,
       Fails, Goto, TypeOK

LEMMA IInvInit == Init => IInv
<1> SUFFICES ASSUME Init PROVE IInv OBVIOUS
<1>1. TypeOK
    BY NamesAssumption, FlagsAssumption, BoundsAssumption
    DEF Init, TypeOK, Spaces, ParentAt, ChildAt
<1>2. NoHostPropagation /\ PrivateBeforeBind
    BY DEF Init, NoHostPropagation, PrivateBeforeBind
<1>3. OldRootOwned /\ Sealed
    BY DEF Init, OldRootOwned, Sealed, Pivoting
<1>4. PastMkdir /\ BeatenBySomeone
    BY NamesAssumption, FlagsAssumption DEF Init, PastMkdir, BeatenBySomeone
<1>5. QED BY <1>1, <1>2, <1>3, <1>4 DEF IInv

-----------------------------------------------------------------------------
\* What a step does to mounts, and to which namespaces still propagate.
LEMMA MountStep ==
    ASSUME TypeOK, NoHostPropagation, PrivateBeforeBind, NEW r \in Runs, Step(r)
    PROVE  /\ mounts' \in [Spaces -> SUBSET ({"bind", "old"} \X Runs)]
           /\ NoHostPropagation' /\ PrivateBeforeBind'
           /\ \A q \in Runs \ {r} : mounts'[q] = mounts[q]
<1> USE DEF Step
<1>0. Runs \subseteq Spaces /\ Host \in Spaces
    BY DEF Spaces
<1>1. CASE CloneChild(r)
    <2>1. mounts[Host] = {}
        <3>1. \A m \in mounts[Host] : m[2] = Host
            BY <1>0 DEF NoHostPropagation
        <3>2. \A m \in mounts[Host] : m[2] \in Runs
            BY <1>0 DEF TypeOK
        <3>3. QED BY <3>1, <3>2, NamesAssumption
    <2>2. \/ mounts' = [mounts EXCEPT ![r] = {}] /\ cpc'[r] = "private"
          \/ UNCHANGED <<mounts, shared, cpc>>
        BY <1>1, <2>1 DEF CloneChild, Goto, nsVars, TypeOK
    <2>3. shared' \subseteq shared \cup {r}
        BY <1>1 DEF CloneChild, nsVars
    <2>4. QED BY <1>0, <2>2, <2>3, OthersStay
               DEF NoHostPropagation, PrivateBeforeBind, TypeOK
<1>2. CASE RemountPrivate(r)
    <2>1. /\ UNCHANGED mounts /\ shared' \subseteq shared
          /\ cpc'[r] = "bind" => r \notin shared'
        BY <1>2 DEF RemountPrivate, Fails, Goto, TypeOK
    <2>2. QED BY <2>1, OthersStay DEF NoHostPropagation, PrivateBeforeBind, TypeOK
<1>3. CASE BindNewRoot(r) \/ PivotRoot(r)
    <2>1. UNCHANGED shared /\ cpc'[r] # "bind"
        BY <1>3 DEF BindNewRoot, PivotRoot, Fails, Goto, TypeOK
    <2>2. \/ UNCHANGED mounts
          \/ r \notin shared /\ \E kind \in {"bind", "old"} : AddMount(r, kind)
        BY <1>3 DEF BindNewRoot, PivotRoot, Fails, Goto, PrivateBeforeBind
    <2>3. CASE UNCHANGED mounts
        BY <2>1, <2>3, OthersStay DEF NoHostPropagation, PrivateBeforeBind, TypeOK
    <2>4. CASE r \notin shared /\ \E kind \in {"bind", "old"} : AddMount(r, kind)
        <3>1. PICK kind \in {"bind", "old"} : AddMount(r, kind) BY <2>4
        <3>2. QED BY <1>0, <2>1, <2>4, <3>1, MountIsOwn, OthersStay
                   DEF NoHostPropagation, PrivateBeforeBind
    <2>5. QED BY <2>2, <2>3, <2>4
<1>4. CASE UmountOld(r)
    <2>1. UNCHANGED shared /\ cpc'[r] = "rmdir"
        BY <1>4 DEF UmountOld, Goto, TypeOK
    <2>2. UNCHANGED mounts \/ mounts' = [mounts EXCEPT ![r] = @ \ {<<"old", r>>}]
        BY <1>4 DEF UmountOld
    <2>3. QED BY <1>0, <2>1, <2>2, OthersStay
               DEF NoHostPropagation, PrivateBeforeBind, TypeOK
<1>5. CASE \/ Wait(r) \/ MkdirOld(r) \/ Chdir(r) \/ RmdirOld(r) \/ ExecProgram(r)
           \/ ProgramEnds(r) \/ KillParent(r) \/ KillChild(r)
    <2>1. UNCHANGED <<mounts, shared>> /\ (cpc'[r] = "bind" => cpc[r] = "bind")
        BY <1>5 DEF Wait, MkdirOld, Chdir, RmdirOld, ExecProgram, ProgramEnds,
                    KillParent, KillChild, Fails, Goto, nsVars, TypeOK
    <2>2. QED BY <2>1, OthersStay DEF NoHostPropagation, PrivateBeforeBind, TypeOK
<1>6. QED BY <1>1, <1>2, <1>3, <1>4, <1>5 DEF ChildStep

LEMMA TypeStep ==
    ASSUME TypeOK, NoHostPropagation, PrivateBeforeBind, NEW r \in Runs, Step(r)
    PROVE  TypeOK'
<1>0. mounts' \in [Spaces -> SUBSET ({"bind", "old"} \X Runs)]
    BY MountStep
<1> USE DEF TypeOK
<1>1. ppc' \in [Runs -> ParentAt]
    BY DEF Step, ChildStep, CloneChild, Wait, RemountPrivate, BindNewRoot, MkdirOld,
           PivotRoot, Chdir, UmountOld, RmdirOld, ExecProgram, ProgramEnds, KillParent,
           KillChild, ParentAt
<1>2. cpc' \in [Runs -> ChildAt]
    BY DEF Step, ChildStep, CloneChild, Wait, RemountPrivate, BindNewRoot, MkdirOld,
           PivotRoot, Chdir, UmountOld, RmdirOld, ExecProgram, ProgramEnds, KillParent,
           KillChild, Fails, Goto, ChildAt, Setup, Over
<1>3. shared' \in SUBSET Spaces /\ root' \in [Spaces -> Spaces]
    BY DEF Step, ChildStep, CloneChild, Wait, RemountPrivate, BindNewRoot, MkdirOld,
           PivotRoot, Chdir, UmountOld, RmdirOld, ExecProgram, ProgramEnds, KillParent,
           KillChild, Spaces, nsVars
<1>4. owner' \in Runs \cup {Nobody, Before} /\ {kept, beaten}' \subseteq SUBSET Runs
    BY DEF Step, ChildStep, CloneChild, Wait, RemountPrivate, BindNewRoot, MkdirOld,
           PivotRoot, Chdir, UmountOld, RmdirOld, ExecProgram, ProgramEnds, KillParent,
           KillChild
<1>5. faults' \in 0..MaxFaults
    BY FaultType
    DEF Step, ChildStep, CloneChild, Wait, RemountPrivate, BindNewRoot, MkdirOld,
        PivotRoot, Chdir, UmountOld, RmdirOld, ExecProgram, ProgramEnds, KillParent,
        KillChild, Fails
<1>6. kills' \in 0..MaxKills
    BY KillType
    DEF Step, ChildStep, CloneChild, Wait, RemountPrivate, BindNewRoot, MkdirOld,
        PivotRoot, Chdir, UmountOld, RmdirOld, ExecProgram, ProgramEnds, KillParent,
        KillChild
<1>7. QED BY <1>0, <1>1, <1>2, <1>3, <1>4, <1>5, <1>6

-----------------------------------------------------------------------------
\* Only MkdirOld gives the directory away and only RmdirOld takes it back.
LEMMA OwnerStep ==
    ASSUME TypeOK, OldRootOwned, NEW r \in Runs, Step(r)
    PROVE  \/ UNCHANGED owner /\ (cpc'[r] \in Pivoting => cpc[r] \in Pivoting)
           \/ owner = Nobody /\ owner' = r /\ cpc[r] = "mkdir" /\ cpc'[r] = "pivot"
              /\ UNCHANGED beaten
           \/ owner = r /\ owner' = Nobody /\ cpc[r] = "rmdir" /\ cpc'[r] = "exec"
              /\ <<"old", r>> \notin mounts[r] /\ UNCHANGED <<beaten, mounts>>
<1>1. CASE MkdirOld(r)
    BY <1>1 DEF MkdirOld, Fails, Goto, TypeOK, Pivoting
<1>2. CASE RmdirOld(r)
    BY <1>2 DEF RmdirOld, Goto, TypeOK, Pivoting, OldRootOwned, nsVars
<1>3. CASE ~MkdirOld(r) /\ ~RmdirOld(r)
    <2>1. UNCHANGED owner
        BY <1>3 DEF Step, ChildStep, CloneChild, Wait, RemountPrivate, BindNewRoot, PivotRoot,
               Chdir, UmountOld, ExecProgram, ProgramEnds, KillParent, KillChild
    <2>2. cpc'[r] \in Pivoting => cpc[r] \in Pivoting
        BY <1>3 DEF Step, ChildStep, CloneChild, Wait, RemountPrivate, BindNewRoot, PivotRoot,
               Chdir, UmountOld, ExecProgram, ProgramEnds, KillParent, KillChild,
               Fails, Goto, TypeOK, Pivoting
    <2>3. QED BY <2>1, <2>2
<1>4. QED BY <1>1, <1>2, <1>3

LEMMA OwnedStep ==
    ASSUME TypeOK, OldRootOwned, NEW r \in Runs, Step(r)
    PROVE  OldRootOwned'
BY OwnerStep, OthersStay, NamesAssumption DEF OldRootOwned, Pivoting

LEMMA SealedStep ==
    ASSUME IInv, NEW r \in Runs, Step(r)
    PROVE  Sealed'
<1> USE DEF IInv
<1>1. ASSUME NEW q \in Runs \ {r}
      PROVE  /\ cpc'[q] = cpc[q] /\ mounts'[q] = mounts[q] /\ root'[q] = root[q]
             /\ (q \in kept => q \in kept') /\ (owner = q => owner' = q)
    <2>1. root'[q] = root[q] /\ (q \in kept => q \in kept')
        BY DEF Step, ChildStep, CloneChild, Wait, RemountPrivate, BindNewRoot, MkdirOld,
               PivotRoot, Chdir, UmountOld, RmdirOld, ExecProgram, ProgramEnds, KillParent,
               KillChild, TypeOK, Spaces, nsVars
    <2>2. owner = q => owner' = q
        BY OwnerStep, NamesAssumption
    <2>3. QED BY <2>1, <2>2, MountStep, OthersStay
<1>2. /\ cpc'[r] \in {"chdir", "umount", "rmdir", "exec", "running"} => root'[r] = r
      /\ cpc'[r] \in {"rmdir", "exec", "running"} /\ <<"old", r>> \in mounts'[r] =>
              r \in kept' /\ owner' = r
    <2>1. CASE PivotRoot(r)
        BY <2>1 DEF PivotRoot, Fails, Goto, TypeOK, Spaces
    <2>2. CASE UmountOld(r)
        <3>1. cpc[r] = "umount" /\ UNCHANGED <<root, owner>> /\ owner = r
            BY <2>2 DEF UmountOld, Goto, OldRootOwned, Pivoting
        <3>2. <<"old", r>> \in mounts'[r] => r \in kept'
            BY <2>2 DEF UmountOld, TypeOK, Spaces
        <3>3. QED BY <3>1, <3>2 DEF Sealed
    <2>3. CASE RmdirOld(r)
        <3>1. cpc[r] = "rmdir" /\ UNCHANGED <<root, mounts, kept>>
            BY <2>3 DEF RmdirOld, Goto, nsVars
        <3>2. <<"old", r>> \in mounts[r] => owner' = owner
            BY <2>3 DEF RmdirOld
        <3>3. QED BY <3>1, <3>2 DEF Sealed
    <2>4. CASE Chdir(r)
        BY <2>4 DEF Chdir, Fails, Goto, nsVars, TypeOK, Sealed
    <2>5. CASE ExecProgram(r) \/ ProgramEnds(r) \/ KillParent(r) \/ KillChild(r) \/ Wait(r)
        BY <2>5 DEF ExecProgram, ProgramEnds, KillParent, KillChild, Wait, Fails, Goto,
                    nsVars, TypeOK, Sealed
    <2>6. CASE CloneChild(r) \/ RemountPrivate(r) \/ BindNewRoot(r) \/ MkdirOld(r)
        <3>1. \/ cpc'[r] \in {"private", "bind", "mkdir", "pivot", "failed"}
              \/ CloneChild(r) /\ UNCHANGED <<cpc, mounts, root, kept, owner>>
            BY <2>6 DEF CloneChild, RemountPrivate, BindNewRoot, MkdirOld, Fails, Goto,
                        nsVars, TypeOK
        <3>2. QED BY <3>1 DEF Sealed
    <2>7. QED BY <2>1, <2>2, <2>3, <2>4, <2>5, <2>6 DEF Step, ChildStep
<1>3. QED BY <1>1, <1>2 DEF Sealed

\* mkdir() sorts the runs, once and for all.
LEMMA MkdirStep ==
    ASSUME TypeOK, NEW r \in Runs, Step(r)
    PROVE  /\ cpc[r] \notin BeforeMkdir => cpc'[r] \notin BeforeMkdir
           /\ \/ UNCHANGED beaten
              \/ /\ cpc[r] = "mkdir" /\ cpc'[r] = "failed" /\ owner # Nobody
                 /\ UNCHANGED owner /\ beaten' = beaten \cup {r}
<1>1. cpc[r] \notin BeforeMkdir => cpc'[r] \notin BeforeMkdir
    BY DEF Step, ChildStep, CloneChild, Wait, RemountPrivate, BindNewRoot, MkdirOld,
           PivotRoot, Chdir, UmountOld, RmdirOld, ExecProgram, ProgramEnds, KillParent,
           KillChild, Fails, Goto, TypeOK, BeforeMkdir
<1>2. \/ UNCHANGED beaten
      \/ /\ cpc[r] = "mkdir" /\ cpc'[r] = "failed" /\ owner # Nobody
         /\ UNCHANGED owner /\ beaten' = beaten \cup {r}
    BY DEF Step, ChildStep, CloneChild, Wait, RemountPrivate, BindNewRoot, MkdirOld,
           PivotRoot, Chdir, UmountOld, RmdirOld, ExecProgram, ProgramEnds, KillParent,
           KillChild, Fails, Goto, TypeOK
<1>3. QED BY <1>1, <1>2

LEMMA PastMkdirStep ==
    ASSUME IInv, NEW r \in Runs, Step(r)
    PROVE  PastMkdir'
<1> USE NamesAssumption DEF IInv
<1>1. \A q \in beaten' : cpc'[q] \notin BeforeMkdir
    BY MkdirStep, OthersStay DEF PastMkdir, BeforeMkdir, TypeOK
<1>2. ASSUME owner' \in Runs PROVE owner' \notin beaten' /\ cpc'[owner'] \notin BeforeMkdir
    <2>1. CASE UNCHANGED owner
        BY <1>2, <2>1, MkdirStep, OthersStay DEF PastMkdir, BeforeMkdir
    <2>2. CASE owner = Nobody /\ owner' = r /\ cpc[r] = "mkdir" /\ cpc'[r] = "pivot"
               /\ UNCHANGED beaten
        BY <2>2 DEF PastMkdir, BeforeMkdir
    <2>3. QED BY <1>2, <2>1, <2>2, OwnerStep
<1>3. QED BY <1>1, <1>2 DEF PastMkdir

LEMMA BeatenStep ==
    ASSUME IInv, NEW r \in Runs, Step(r)
    PROVE  BeatenBySomeone'
<1> USE NamesAssumption DEF IInv
<1> SUFFICES ASSUME NEW b \in beaten', owner' # Before
             PROVE  \E q \in Runs \ {b} : q \notin beaten' /\ cpc'[q] \notin BeforeMkdir
    BY DEF BeatenBySomeone
<1>1. owner # Before
    BY OwnerStep
<1>2. \A q \in Runs \ beaten : cpc[q] \notin BeforeMkdir =>
          q \notin beaten' /\ cpc'[q] \notin BeforeMkdir
    BY MkdirStep, OthersStay DEF BeforeMkdir
<1>3. CASE b \in beaten
    <2>1. PICK q \in Runs \ {b} : q \notin beaten /\ cpc[q] \notin BeforeMkdir
        BY <1>1, <1>3 DEF BeatenBySomeone
    <2>2. QED BY <1>2, <2>1
<1>4. CASE b \notin beaten
    <2>1. b = r /\ cpc[r] = "mkdir" /\ owner # Nobody
        BY <1>4, MkdirStep
    <2>2. owner \in Runs
        BY <1>1, <2>1 DEF TypeOK
    <2>3. owner \notin beaten /\ cpc[owner] \notin BeforeMkdir /\ owner # r
        BY <2>1, <2>2 DEF PastMkdir, BeforeMkdir
    <2>4. QED BY <1>2, <2>1, <2>2, <2>3
<1>5. QED BY <1>3, <1>4

-----------------------------------------------------------------------------
LEMMA IInvStep == IInv /\ [Next]_vars => IInv'
<1> SUFFICES ASSUME IInv, [Next]_vars PROVE IInv' OBVIOUS
<1>1. ASSUME NEW r \in Runs, Step(r) PROVE IInv'
    BY <1>1, MountStep, TypeStep, OwnedStep, SealedStep, PastMkdirStep, BeatenStep DEF IInv
<1>2. CASE UNCHANGED vars
    BY <1>2 DEF IInv, vars, nsVars, TypeOK, NoHostPropagation, PrivateBeforeBind, OldRootOwned,
                Sealed, PastMkdir, BeatenBySomeone
<1>3. QED BY <1>1, <1>2 DEF Next, Step

LEMMA Invariant == Spec => []IInv
<1>1. QED BY IInvInit, IInvStep, PTL DEF Spec

\* Every variable keeps its type.
THEOREM TypeCorrect == Spec => []TypeOK
<1>1. IInv => TypeOK BY DEF IInv
<1>2. QED BY <1>1, Invariant, PTL

\* No mount of one copy is seen in another namespace, the host's or another copy's,
\* also where "/" of the host is shared (the remount before the bind, main.c:41-46).
THEOREM NothingPropagates == Spec => []NoHostPropagation
<1>1. IInv => NoHostPropagation BY DEF IInv
<1>2. QED BY <1>1, Invariant, PTL

\* The bare mkdir() is a lock: between it and its rmdir() a copy owns oldRootfs.
THEOREM MkdirIsLock == Spec => []OldRootOwned
<1>1. IInv => OldRootOwned BY DEF IInv
<1>2. QED BY <1>1, Invariant, PTL

\* The program runs on new_root, cut off from the host's tree unless umount2()
\* failed, and then no later copy gets as far.
THEOREM ProgramIsSealed == Spec => []SealedOrBlocked
<1>1. IInv => SealedOrBlocked BY DEF IInv, Sealed, SealedOrBlocked
<1>2. QED BY <1>1, Invariant, PTL

\* Copies that race for oldRootfs never all lose to one another.
THEOREM SomeoneWins == Spec => []BeatenBySomeone
<1>1. IInv => BeatenBySomeone BY DEF IInv
<1>2. QED BY <1>1, Invariant, PTL

\* An oldRootfs whose maker died or failed stays, whatever the later copies do.
THEOREM LeftoverIsForever == Spec => LeftoverStays
<1>1. IInv /\ [Next]_vars => [Leftover => Leftover']_vars
    <2> SUFFICES ASSUME IInv, Next, Leftover PROVE Leftover'
        BY DEF vars
    <2> USE NamesAssumption DEF IInv
    <2>1. PICK r \in Runs : Step(r)
        BY DEF Next, Step
    <2>2. CASE owner = Before
        BY <2>1, <2>2, OwnerStep DEF Leftover
    <2>3. CASE owner \in Runs /\ cpc[owner] \notin Pivoting
        <3>1. owner' = owner /\ (cpc'[r] \in Pivoting => cpc[r] \in Pivoting)
            BY <2>1, <2>3, OwnerStep DEF Pivoting
        <3>2. QED BY <2>1, <2>3, <3>1, OthersStay DEF Leftover
    <2>4. QED BY <2>2, <2>3 DEF Leftover, TypeOK
<1>2. QED BY <1>1, Invariant, PTL DEF Spec, LeftoverStays
=============================================================================
