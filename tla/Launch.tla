------------------------------- MODULE Launch -------------------------------
(***************************************************************************)
(* What launching a container promises, without processes, namespaces or   *)
(* system calls: a run is set up, its file system is sealed off from the   *)
(* host's before anything of the container executes, it runs at most once, *)
(* and a setup that has begun does not hang.                               *)
(***************************************************************************)
CONSTANT Runs

VARIABLES
    phase,   \* "idle", "setup", "running" or "over", for each run
    sealed   \* the live runs that can no longer reach the host's tree

Init == /\ phase = [r \in Runs |-> "idle"]
        /\ sealed = {}

Enter(r, to) == phase' = [phase EXCEPT ![r] = to]

Begin(r) == phase[r] = "idle" /\ Enter(r, "setup") /\ UNCHANGED sealed

\* Runs may seal one another: they share the directory the host is hidden under.
Seal == /\ \E S \in SUBSET {r \in Runs : phase[r] = "setup"} : sealed' = sealed \cup S
        /\ UNCHANGED phase

Start(r) == /\ phase[r] = "setup" /\ r \in sealed
            /\ Enter(r, "running") /\ UNCHANGED sealed

\* A setup may fail, a launch may be killed, a shell exits.
Finish(r) == /\ phase[r] # "over"
             /\ Enter(r, "over") /\ sealed' = sealed \ {r}

Settle(r) == Start(r) \/ (phase[r] = "setup" /\ Finish(r))

Next == Seal \/ \E r \in Runs : Begin(r) \/ Start(r) \/ Finish(r)

vars == <<phase, sealed>>
Safety == Init /\ [][Next]_vars

Spec == Safety /\ \A r \in Runs : WF_vars(Settle(r))
=============================================================================
