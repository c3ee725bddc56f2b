-------------------------------- MODULE Copy --------------------------------
(***************************************************************************)
(* What calls that copy to one destination promise, without descriptors,   *)
(* buffers or offsets: the name is taken from a file only by a call that   *)
(* may overwrite, and given only to a call that finds it free; a call's    *)
(* file is a beginning of its source at any time, and grows; a call that   *)
(* says it has copied has copied all it could read; one that leaves the    *)
(* destination as it is has seen one.                                      *)
(***************************************************************************)
EXTENDS Naturals, Sequences

CONSTANTS Calls, OverWrite, Source, Absent, Before

VARIABLES
    name,     \* the call whose file has the name, Absent, or what was there Before
    content,  \* of each call's file
    phase     \* "called", "writing", "cut", "copied", "kept" or "failed", for each call

Init == /\ name = Before
        /\ content = [c \in Calls |-> <<>>]
        /\ phase = [c \in Calls |-> "called"]

Enter(c, from, to) == phase[c] \in from /\ phase' = [phase EXCEPT ![c] = to]

Clear(c) == /\ c \in OverWrite /\ phase[c] = "called"
            /\ name' = Absent /\ UNCHANGED <<content, phase>>

Create(c) == /\ name = Absent /\ Enter(c, {"called"}, "writing")
             /\ name' = c /\ UNCHANGED content

Grow(c) == /\ phase[c] = "writing"
           /\ \E n \in (Len(content[c]) + 1)..Len(Source[c]) :
                 content' = [content EXCEPT ![c] = SubSeq(Source[c], 1, n)]
           /\ UNCHANGED <<name, phase>>

\* The source cannot be read any further.
Cut(c) == Enter(c, {"writing"}, "cut") /\ UNCHANGED <<name, content>>

Finish(c) == /\ content[c] = Source[c] \/ phase[c] = "cut"
             /\ Enter(c, {"writing", "cut"}, "copied") /\ UNCHANGED <<name, content>>

Keep(c) == name # Absent /\ Enter(c, {"called"}, "kept") /\ UNCHANGED <<name, content>>

Fail(c) == Enter(c, {"called", "writing", "cut"}, "failed") /\ UNCHANGED <<name, content>>

Next == \E c \in Calls : \/ Clear(c) \/ Create(c) \/ Grow(c) \/ Cut(c)
                         \/ Finish(c) \/ Keep(c) \/ Fail(c)

vars == <<name, content, phase>>
Spec == Init /\ [][Next]_vars
=============================================================================
