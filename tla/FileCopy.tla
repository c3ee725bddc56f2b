------------------------------ MODULE FileCopy ------------------------------
(***************************************************************************)
(* Path::copy of src/src/utils.cpp, called by several processes (or by one *)
(* process again) with the same destination.                               *)
(*                                                                         *)
(* A copier owns its source; all share the destination's name.  Files are  *)
(* inodes: a copier that creates the destination writes to its own inode   *)
(* for as long as it holds it open, also after another copier has removed  *)
(* the name.  The file system is external; reads and writes may be short,  *)
(* interrupted, or fail.                                                   *)
(***************************************************************************)
EXTENDS Integers, Sequences

CONSTANTS
    Copiers,     \* the calls
    Old, Absent, \* a destination that was there before; no destination
    Source,      \* what each call copies
    OverWrite,   \* the calls whose overWrite argument is true
    BufSize,     \* sizeof(buffer), 4096 in the code
    DestBefore,  \* Old or Absent
    GarbageFails,\* the indeterminate fd_dest of line 88 may be -1
    MaxFaults,   \* bound on failing calls and vanishing sources
    MaxEINTR     \* bound on interrupted writes

ASSUME CopiersAssumption == Copiers # {}
ASSUME NamesAssumption  == Old \notin Copiers /\ Absent \notin Copiers /\ Old # Absent
ASSUME SourceAssumption == \A c \in Copiers : Source[c] \in Seq(STRING)
ASSUME FlagAssumption   == /\ OverWrite \subseteq Copiers
                           /\ DestBefore \in {Old, Absent}
                           /\ GarbageFails \in BOOLEAN
ASSUME SizeAssumption   == /\ BufSize \in Nat \ {0}
                           /\ {MaxFaults, MaxEINTR} \subseteq Nat

VARIABLES
    pc,       \* where each call is
    outcome,  \* how it ended
    dest,     \* the inode the destination's name stands for
    file,     \* the content of the inode each call creates
    created,  \* the calls that have created theirs
    off,      \* the offset of fd_src
    buf,      \* the bytes between out_ptr and the end of what was read
    gone,     \* the calls whose source has been removed
    noSrc,    \* the calls whose open() of the source failed
    cutShort, \* the calls whose loop was left by a failed read()
    faults, eintr

ioVars == <<file, created, off, buf>>
vars == <<pc, outcome, dest, ioVars, gone, noSrc, cutShort, faults, eintr>>

Steps == {"access", "accessDest", "remove", "openSrc", "openDest",
          "read", "write", "close", "done"}

\* How a call ends: it throws; returns 0 without copying, or after copying;
\* returns -1 at the stray test of fd_dest, at O_EXCL, or for a failed call.
Outcomes == {"none", "throw", "present", "copied", "stray", "exists", "failed"}

Init ==
    /\ pc = [c \in Copiers |-> "access"]
    /\ outcome = [c \in Copiers |-> "none"]
    /\ dest = DestBefore
    /\ file = [c \in Copiers |-> <<>>]
    /\ created = {}
    /\ off = [c \in Copiers |-> 0]
    /\ buf = [c \in Copiers |-> <<>>]
    /\ gone = {} /\ noSrc = {} /\ cutShort = {}
    /\ faults = 0 /\ eintr = 0

Goto(c, from, to) == pc[c] = from /\ pc' = [pc EXCEPT ![c] = to]

Return(c, from, how) == /\ Goto(c, from, "done")
                        /\ outcome' = [outcome EXCEPT ![c] = how]

Fault == faults < MaxFaults /\ faults' = faults + 1

\* Defect variants (With..., Without...): no specification uses them.  Each is
\* the definition that follows it with one plausible bug.

\* access(src): missing throws TAC_FILE_NOT_EXISTS.
AccessSrc(c) ==
    /\ \/ c \notin gone /\ Goto(c, "access", "accessDest") /\ UNCHANGED outcome
       \/ c \in gone /\ Return(c, "access", "throw")
    /\ UNCHANGED <<dest, ioVars, gone, noSrc, cutShort, faults, eintr>>

\* access(dest): an existing destination is removed or left as it is.
AccessDest(c) ==
    /\ \/ dest = Absent /\ Goto(c, "accessDest", "openSrc") /\ UNCHANGED outcome
       \/ /\ dest # Absent /\ c \in OverWrite
          /\ Goto(c, "accessDest", "remove") /\ UNCHANGED outcome
       \/ dest # Absent /\ c \notin OverWrite /\ Return(c, "accessDest", "present")
    /\ UNCHANGED <<dest, ioVars, gone, noSrc, cutShort, faults, eintr>>

\* remove(dest), whatever the name stands for by now; its result is dropped.
Remove(c) ==
    /\ Goto(c, "remove", "openSrc")
    /\ \/ dest' = Absent /\ UNCHANGED faults
       \/ Fault /\ UNCHANGED dest
    /\ UNCHANGED <<outcome, ioVars, gone, noSrc, cutShort, eintr>>

\* open(src), followed by a test of the wrong descriptor, not yet assigned.
OpenSrc(c) ==
    /\ \/ c \notin gone /\ UNCHANGED <<noSrc, faults>>
       \/ c \in gone /\ noSrc' = noSrc \cup {c} /\ UNCHANGED faults
       \/ Fault /\ noSrc' = noSrc \cup {c}
    /\ \/ Goto(c, "openSrc", "openDest") /\ UNCHANGED outcome
       \/ GarbageFails /\ Return(c, "openSrc", "stray")
    /\ UNCHANGED <<dest, ioVars, gone, cutShort, eintr>>

\* O_CREAT | O_TRUNC.
OpenDestWithoutExcl(c) ==
    /\ Goto(c, "openDest", "read")
    /\ dest' = c /\ created' = created \cup {c}
    /\ UNCHANGED <<outcome, file, off, buf, gone, noSrc, cutShort, faults, eintr>>

\* A failed open() cleans up what it finds at the destination.
OpenDestWithUnlink(c) ==
    /\ \/ /\ dest = Absent /\ Goto(c, "openDest", "read")
          /\ dest' = c /\ created' = created \cup {c} /\ UNCHANGED outcome
       \/ /\ dest # Absent /\ Return(c, "openDest", "exists")
          /\ dest' = Absent /\ UNCHANGED created
    /\ UNCHANGED <<file, off, buf, gone, noSrc, cutShort, faults, eintr>>

\* open(dest) with O_CREAT | O_EXCL.
OpenDest(c) ==
    /\ \/ /\ dest = Absent /\ Goto(c, "openDest", "read")
          /\ dest' = c /\ created' = created \cup {c}
          /\ UNCHANGED <<outcome, faults>>
       \/ /\ dest # Absent /\ Return(c, "openDest", "exists")
          /\ UNCHANGED <<dest, created, faults>>
       \/ Return(c, "openDest", "failed") /\ Fault /\ UNCHANGED <<dest, created>>
    /\ UNCHANGED <<file, off, buf, gone, noSrc, cutShort, eintr>>

\* The loop goes on while nread >= 0.
ReadWithoutEnd(c) ==
    /\ pc[c] = "read" /\ c \notin noSrc /\ Goto(c, "read", "write")
    /\ \E n \in 0..BufSize :
          /\ off[c] + n <= Len(Source[c]) /\ (n = 0 => off[c] = Len(Source[c]))
          /\ buf' = [buf EXCEPT ![c] = SubSeq(Source[c], off[c] + 1, off[c] + n)]
          /\ off' = [off EXCEPT ![c] = @ + n]
    /\ UNCHANGED <<outcome, dest, file, created, gone, noSrc, cutShort, faults, eintr>>

\* read() fills the buffer, perhaps not to its end; at the end of the source,
\* or on an error, the loop is left.
Read(c) ==
    /\ \/ /\ c \notin noSrc /\ Goto(c, "read", "write")
          /\ \E n \in 1..BufSize :
                /\ off[c] + n <= Len(Source[c])
                /\ buf' = [buf EXCEPT ![c] = SubSeq(Source[c], off[c] + 1, off[c] + n)]
                /\ off' = [off EXCEPT ![c] = @ + n]
          /\ UNCHANGED <<cutShort, faults>>
       \/ /\ c \notin noSrc /\ off[c] = Len(Source[c])
          /\ Goto(c, "read", "close")
          /\ UNCHANGED <<off, buf, cutShort, faults>>
       \/ /\ c \in noSrc /\ Goto(c, "read", "close")
          /\ cutShort' = cutShort \cup {c}
          /\ UNCHANGED <<off, buf, faults>>
       \/ /\ c \notin noSrc /\ Fault /\ Goto(c, "read", "close")
          /\ cutShort' = cutShort \cup {c}
          /\ UNCHANGED <<off, buf>>
    /\ UNCHANGED <<outcome, dest, file, created, gone, noSrc, eintr>>

\* The rest is written from the start of the buffer, as copy_file of
\* learning/pack/pack.c does.
AdvanceWithoutPtr(b, n) == SubSeq(b, 1, Len(b) - n)

\* The tail of the buffer after n of its bytes have been written.
Advance(b, n) == SubSeq(b, n + 1, Len(b))

\* write() without the loop around it.
WriteWithoutRetry(c) ==
    /\ \E n \in 1..Len(buf[c]) :
          /\ file' = [file EXCEPT ![c] = @ \o SubSeq(buf[c], 1, n)]
          /\ buf' = [buf EXCEPT ![c] = <<>>]
          /\ Goto(c, "write", "read")
    /\ UNCHANGED <<outcome, dest, created, off, gone, noSrc, cutShort, faults, eintr>>

\* write() takes some of the bytes, is interrupted, or fails.
Write(c) ==
    /\ \/ \E n \in 1..Len(buf[c]) :
             /\ file' = [file EXCEPT ![c] = @ \o SubSeq(buf[c], 1, n)]
             /\ buf' = [buf EXCEPT ![c] = Advance(buf[c], n)]
             /\ Goto(c, "write", IF n = Len(buf[c]) THEN "read" ELSE "write")
             /\ UNCHANGED <<outcome, faults, eintr>>
       \/ /\ pc[c] = "write" /\ eintr < MaxEINTR /\ eintr' = eintr + 1
          /\ UNCHANGED <<pc, outcome, file, buf, faults>>
       \/ /\ Return(c, "write", "failed") /\ Fault
          /\ UNCHANGED <<file, buf, eintr>>
    /\ UNCHANGED <<dest, created, off, gone, noSrc, cutShort>>

\* Both close(); that of a descriptor never opened fails.
Close(c) ==
    /\ \/ c \notin noSrc /\ Return(c, "close", "copied") /\ UNCHANGED faults
       \/ c \in noSrc /\ Return(c, "close", "failed") /\ UNCHANGED faults
       \/ Return(c, "close", "failed") /\ Fault
    /\ UNCHANGED <<dest, ioVars, gone, noSrc, cutShort, eintr>>

\* The source is removed from outside.
Vanish(c) ==
    /\ c \notin gone /\ Fault /\ gone' = gone \cup {c}
    /\ UNCHANGED <<pc, outcome, dest, ioVars, noSrc, cutShort, eintr>>

Step(c) == \/ AccessSrc(c) \/ AccessDest(c) \/ Remove(c) \/ OpenSrc(c)
           \/ OpenDest(c) \/ Read(c) \/ Write(c) \/ Close(c)

Next == \E c \in Copiers : Step(c) \/ Vanish(c)

Spec == Init /\ [][Next]_vars

\* A call that has not returned is running.
FairSpec == Spec /\ \A c \in Copiers : WF_vars(Step(c))

-----------------------------------------------------------------------------
TypeOK ==
    /\ pc \in [Copiers -> Steps]
    /\ outcome \in [Copiers -> Outcomes]
    /\ dest \in Copiers \cup {Old, Absent}
    /\ file \in [Copiers -> Seq(STRING)]
    /\ created \in SUBSET Copiers
    /\ off \in [Copiers -> Nat]
    /\ buf \in [Copiers -> Seq(STRING)]
    /\ {gone, noSrc, cutShort} \subseteq SUBSET Copiers
    /\ faults \in 0..MaxFaults /\ eintr \in 0..MaxEINTR

\* f, then b, is the beginning of s up to offset o.
Splits(f, b, o, s) ==
    /\ Len(f) + Len(b) = o /\ o <= Len(s)
    /\ \A i \in 1..Len(f) : f[i] = s[i]
    /\ \A j \in 1..Len(b) : b[j] = s[Len(f) + j]

\* Whatever is short or interrupted, what has been written is the beginning of
\* the call's own source, and the buffer holds what comes next: no byte is lost,
\* doubled, or taken from another call (utils.cpp:101-125).
PrefixCopied == \A c \in Copiers : Splits(file[c], buf[c], off[c], Source[c])

\* A call that says it has copied has copied everything, unless read() failed:
\* that error leaves the loop like the end of the file does (utils.cpp:101).
CopiedIsWhole ==
    \A c \in Copiers : outcome[c] = "copied" =>
        Len(file[c]) = Len(Source[c]) \/ c \in cutShort

\* The calls that may have taken the destination away: those with overWrite that
\* have found a source and are past remove().
Takers == {o \in OverWrite : /\ pc[o] \notin {"access", "accessDest", "remove"}
                             /\ outcome[o] # "throw"}

\* Whoever had the destination, a file that was there before or the call that
\* created it, keeps it until another call, one with overWrite, takes it away:
\* calls without it never do, also when they all saw the destination missing.
FirstKeepsDest ==
    \A d \in (created \cup {DestBefore}) \ {Absent} :
        dest = d \/ Takers \ {d} # {}

\* Calls that overwrite remove whatever the name stands for, perhaps another's
\* fresh copy, but always with a file of their own to come or with another's in
\* its place: when all calls have ended and none failed, the destination is there
\* and it is whole.
DestinationSurvives ==
    (/\ \A c \in Copiers : outcome[c] \in {"present", "copied", "exists"}
     /\ cutShort = {}) =>
    dest # Absent /\ (dest \in Copiers => Len(file[dest]) = Len(Source[dest]))

\* Every call ends.
CallsEnd == \A c \in Copiers : <>(pc[c] = "done")

-----------------------------------------------------------------------------
(***************************************************************************)
(* What all this is for: Copy.tla.  A call creates its file when it opens  *)
(* the destination, and is cut when read() fails.                          *)
(***************************************************************************)
Phase(c) ==
    CASE outcome[c] = "copied"                         -> "copied"
      [] outcome[c] \in {"present", "exists"}          -> "kept"
      [] outcome[c] \in {"throw", "stray", "failed"}   -> "failed"
      [] outcome[c] = "none" /\ c \in cutShort         -> "cut"
      [] OTHER               -> IF c \in created THEN "writing" ELSE "called"

Phases == [c \in Copiers |-> Phase(c)]

D == INSTANCE Copy WITH Calls <- Copiers, Before <- DestBefore, name <- dest,
                        content <- file, phase <- Phases

\* Path::copy copies as Copy.tla promises, however its calls interleave: whatever
\* they do to the name and to their files is a step of it, or none to it.
CopySteps == D!Spec
=============================================================================
