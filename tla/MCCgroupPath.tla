---------------------------- MODULE MCCgroupPath ----------------------------
(* Instances of CgroupPath for TLC: two callers look for the memory hierarchy,
   one for cpu, which one of the lines lists among other options. *)
EXTENDS CgroupPath, TLC

CONSTANTS m1, m2, p1

MCCallers   == {m1, m2, p1}
MCSubsystem == (m1 :> "memory") @@ (m2 :> "memory") @@ (p1 :> "cpu")
MCLines == { [point |-> "/cpu", options |-> <<"rw", "cpu">>],
             [point |-> "/memory", options |-> <<"memory">>],
             [point |-> "/cgroup/cpu", options |-> <<"cpu">>],
             [point |-> "/tmp", options |-> <<"rw", "relatime">>] }
MCMountinfos == UNION {[1..n -> MCLines] : n \in 0..3}
MCElsewhere == {"/", "."}
MCAutoCreate == {m1, m2}
Nowhere == {}
=============================================================================
