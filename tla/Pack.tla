-------------------------------- MODULE Pack --------------------------------
(***************************************************************************)
(* The directory archiver of src/learning/pack: pack (pack.c) walks a tree *)
(* and writes out.pkg, unpack (unpack.c) reads it back, both through the   *)
(* record format of common.c.                                              *)
(*                                                                         *)
(* The archive is a sequence of units instead of bytes: a record is its    *)
(* numbers (type, size, mode), its path and its finish flag, a data byte   *)
(* is itself, and Torn stands for a part of a unit.  Where unpack takes a  *)
(* unit for one of another kind, or a torn one for a whole one, the values *)
(* it reads may be anything; the model stops there, in "misread".          *)
(*                                                                         *)
(* The tree is external: while pack runs, files in it may change length or *)
(* vanish.  Neither out.pkg nor the unpacked files are opened with O_TRUNC:  *)
(* the tail of a longer, older archive stays behind the new one, the tail  *)
(* of a longer, older file behind the bytes unpacked over it.  unpack may  *)
(* be killed or fail and be run again over what it has left.               *)
(*                                                                         *)
(* Of the calls that write one record at most one fails.  readdir is taken *)
(* to fill in d_type (pack.c:115), and paths to fit MAX_PATH.              *)
(***************************************************************************)
EXTENDS Integers, Sequences, FiniteSets

CONSTANTS
    Dirs, Files,   \* the paths of the tree
    Root,          \* in_dir of main
    Parent,        \* the directory each path other than Root is in
    FileLen,       \* the length of each file when pack starts
    OldLen,        \* the length of each file in a target that was used before
    BlockSize,     \* BUFF_SIZE
    MaxFaults,     \* bound on failing calls
    MaxShort,      \* bound on short writes of data
    MaxChanges,    \* bound on files that grow, shrink or vanish meanwhile
    MaxKills       \* bound on kills of pack and further runs of unpack

Paths == Dirs \cup Files

ASSUME TreeAssumption == /\ Root \in Dirs /\ Dirs \cap Files = {}
                         /\ Parent \in [Paths \ {Root} -> Dirs]
                         /\ {FileLen, OldLen} \subseteq [Files -> Nat]
                         /\ BlockSize \in Nat \ {0}
\* Every path is below Root.
ASSUME RootAssumption ==
    \A S \in SUBSET Paths :
        Root \in S /\ (\A p \in Paths \ {Root} : Parent[p] \in S => p \in S) => S = Paths
ASSUME BoundAssumption == {MaxFaults, MaxShort, MaxChanges, MaxKills} \subseteq Nat

VARIABLES
    ppc,      \* control of pack
    stack,    \* the directories pack() is in, and the entries readdir has left
    cur,      \* the path process_file_or_dir works on
    woff, wbuf, wleft, \* copy_file: offset, buffer, bytes still to be written
    pkg,      \* out.pkg, as far as pack has written it and unpack will read it
    interrupted, \* errno is EINTR and nobody has cleared it
    len, gone,   \* the files as they are now
    rpc,      \* control of unpack
    pos,      \* its offset in out.pkg
    rcur, rleft, roff, \* write_n_byte_file: the file, n, the offset in it
    used,        \* the target holds an older tree of the same paths
    made, out,   \* the paths it has created or found, the content of the files
    log,      \* what went wrong so far (history): "record" for one written in part
              \* or from a stat that failed, "readdir" for a directory cut short, ...
    faults, shorts, changes, kills

packVars   == <<ppc, stack, cur, woff, wbuf, wleft, pkg, interrupted>>
treeVars   == <<len, gone>>
unpackVars == <<rpc, pos, rcur, rleft, roff, used, made, out>>
budgets    == <<faults, shorts, changes, kills>>
vars == <<packVars, treeVars, unpackVars, log, budgets>>

-----------------------------------------------------------------------------
Num(type, size) == [unit |-> "num", type |-> type, size |-> size]
PathUnit(p)     == [unit |-> "path", path |-> p]
Flag(v)         == [unit |-> "flag", value |-> v]
Byte(p, i)      == [unit |-> "byte", of |-> p, at |-> i]
Torn            == [unit |-> "torn"]

DataBytes == [unit : {"byte"}, of : Files \cup {"older"}, at : Nat]
AnyUnit   == [unit : {"num"}, type : {"dir", "file", "none"}, size : Nat]
                \cup [unit : {"path"}, path : Paths \cup {""}]
                \cup [unit : {"flag"}, value : {0, 1}] \cup DataBytes \cup {Torn}

\* write_file_info, field by field.
Record(type, size, p, v) == <<Num(type, size), PathUnit(p), Flag(v)>>

\* Defect variants (...With..., ...Without...): no specification uses them.
\* Each is the definition that follows it with one plausible bug.

Finish == Record("none", 0, "", 1)

Content(p) == [i \in 1..len[p] |-> Byte(p, i)]

\* What an older archive leaves behind the end of this one, which may lie
\* anywhere in a record of the old one: out.pkg is opened without O_TRUNC.
Tails == {<<>>, <<Torn>>}

\* What a used target holds under a file's name.
Older(p) == IF used THEN [i \in 1..OldLen[p] |-> Byte("older", i)] ELSE <<>>

Entries(d) == {p \in Paths \ {Root} : Parent[p] = d}

Note(what) == log' = log \cup {what}

Init ==
    /\ ppc = "opendir" /\ stack = <<>> /\ cur = Root
    /\ woff = 0 /\ wbuf = <<>> /\ wleft = 0
    /\ pkg = <<>> /\ interrupted = FALSE
    /\ len = FileLen /\ gone = {}
    /\ rpc = "idle" /\ pos = 0 /\ rcur = Root /\ rleft = 0 /\ roff = 0
    /\ used = FALSE /\ made = {} /\ out = [p \in Files |-> <<>>]
    /\ log = {}
    /\ faults = 0 /\ shorts = 0 /\ changes = 0 /\ kills = 0

Fault == faults < MaxFaults /\ faults' = faults + 1

(***************************************************************************)
(* pack                                                                    *)
(***************************************************************************)
\* A failing call of pack leaves some error number, EINTR or another.
PackFault == Fault /\ interrupted' \in BOOLEAN

\* stat fails, never with EINTR; nobody looks at its result (pack.c:59), and the
\* type and mode in the record are what was in the buffer.
StatFails == Fault /\ interrupted' = FALSE

\* write_file_info.  A failed write leaves out the rest of the record, a short
\* one of the numbers passes for a success.  After an interrupted one EINTR
\* stays in errno, and from then on write_n_byte_string takes its own success
\* for an error, so that the flag is never written.
WriteRecord(r) ==
    \/ /\ ~interrupted /\ pkg' = pkg \o r
       /\ UNCHANGED <<interrupted, log, faults>>
    \/ /\ interrupted /\ pkg' = pkg \o SubSeq(r, 1, 2)
       /\ Note("record") /\ UNCHANGED <<interrupted, faults>>
    \/ /\ \E k \in 0..2, rest \in {<<>>, <<Torn>>} : pkg' = pkg \o SubSeq(r, 1, k) \o rest
       /\ Note("record") /\ PackFault
    \/ /\ pkg' = pkg \o <<Torn>> \o SubSeq(r, 2, IF interrupted THEN 2 ELSE 3)
       /\ Note("record") /\ Fault /\ UNCHANGED interrupted

\* pack(path): opendir, then the directory's own record, whose result
\* process_file_or_dir drops.  A directory whose stat failed may be taken for a
\* file: open and lseek succeed, copy_file's read does not.
OpenDir ==
    /\ ppc = "opendir"
    /\ \/ /\ \/ WriteRecord(Record("dir", 0, cur, 0))
             \/ StatFails /\ Note("record") /\ pkg' = pkg \o Record("dir", 0, cur, 0)
          /\ stack' = Append(stack, [dir |-> cur, todo |-> Entries(cur)])
          /\ ppc' = "readdir"
       \/ /\ StatFails /\ log' = log \cup {"record", "pack"}
          /\ \E size \in {0, 1} : pkg' = pkg \o Record("file", size, cur, 0)
          /\ ppc' = "finish" /\ UNCHANGED stack
       \/ /\ PackFault /\ Note("pack") /\ ppc' = "finish"
          /\ UNCHANGED <<stack, pkg>>
    /\ UNCHANGED <<cur, woff, wbuf, wleft, treeVars, unpackVars, shorts, changes, kills>>

\* The end of any directory ends the walk.
ReadDirWithoutReturn ==
    /\ ppc = "readdir"
    /\ LET top == stack[Len(stack)] IN
       \/ \E p \in top.todo :
             /\ cur' = p
             /\ stack' = [stack EXCEPT ![Len(stack)].todo = @ \ {p}]
             /\ ppc' = IF p \in Dirs THEN "opendir" ELSE "stat"
       \/ top.todo = {} /\ ppc' = "finish" /\ UNCHANGED <<stack, cur>>
    /\ UNCHANGED <<woff, wbuf, wleft, pkg, interrupted, treeVars, unpackVars, log, budgets>>

\* readdir gives the entries in any order; at the end of a directory pack
\* returns to the one above, at the end of the root to main.  A readdir that
\* fails passes for the end: the rest of the directory is left out.
ReadDir ==
    /\ ppc = "readdir"
    /\ LET top == stack[Len(stack)] IN
       \/ \E p \in top.todo :
             /\ cur' = p
             /\ stack' = [stack EXCEPT ![Len(stack)].todo = @ \ {p}]
             /\ ppc' = IF p \in Dirs THEN "opendir" ELSE "stat"
             /\ UNCHANGED <<interrupted, log, faults>>
       \/ /\ \/ top.todo = {} /\ UNCHANGED <<interrupted, log, faults>>
             \/ PackFault /\ Note("readdir")
          /\ stack' = SubSeq(stack, 1, Len(stack) - 1)
          /\ ppc' = IF Len(stack) = 1 THEN "finish" ELSE "readdir"
          /\ UNCHANGED cur
    /\ UNCHANGED <<woff, wbuf, wleft, pkg, treeVars, unpackVars, shorts, changes, kills>>

\* process_file_or_dir up to the copy: stat (its failure leaves the type
\* indeterminate, so a file it failed on, or one that has vanished, may be packed
\* as a directory), open, lseek, and the record, whose result is dropped.
ProcessFile ==
    /\ ppc = "stat"
    /\ \/ /\ cur \notin gone
          /\ \/ WriteRecord(Record("file", len[cur], cur, 0))
             \/ /\ StatFails /\ Note("record")
                /\ pkg' = pkg \o Record("file", len[cur], cur, 0)
          /\ ppc' = "read" /\ woff' = 0
       \/ /\ \/ cur \in gone /\ interrupted' = FALSE /\ UNCHANGED <<log, faults>>
             \/ cur \notin gone /\ StatFails /\ Note("record")
          /\ pkg' = pkg \o Record("dir", 0, cur, 0)
          /\ ppc' = "readdir" /\ UNCHANGED woff
       \/ /\ cur \in gone /\ Note("pack") /\ ppc' = "finish"
          /\ interrupted' = FALSE /\ UNCHANGED <<woff, pkg, faults>>
       \/ /\ PackFault /\ Note("pack") /\ ppc' = "finish"
          /\ UNCHANGED <<woff, pkg>>
    /\ UNCHANGED <<stack, cur, wbuf, wleft, treeVars, unpackVars, shorts, changes, kills>>

\* The size of the buffer is not looked at.
CopyReadWithoutLimit ==
    /\ ppc = "read"
    /\ \/ /\ woff < len[cur]
          /\ wbuf' = SubSeq(Content(cur), woff + 1, len[cur])
          /\ wleft' = len[cur] - woff /\ woff' = len[cur]
          /\ ppc' = "write"
       \/ woff >= len[cur] /\ ppc' = "readdir" /\ UNCHANGED <<wbuf, wleft, woff>>
    /\ UNCHANGED <<stack, cur, pkg, interrupted, treeVars, unpackVars, log, budgets>>

\* copy_file reads to the end of the file as it is by then.
CopyRead ==
    /\ ppc = "read"
    /\ \/ /\ woff < len[cur]
          /\ LET n == IF len[cur] - woff < BlockSize THEN len[cur] - woff ELSE BlockSize IN
             /\ wbuf' = SubSeq(Content(cur), woff + 1, woff + n)
             /\ wleft' = n /\ woff' = woff + n
          /\ ppc' = "write" /\ UNCHANGED <<interrupted, log, faults>>
       \/ /\ woff >= len[cur] /\ ppc' = "readdir"
          /\ UNCHANGED <<wbuf, wleft, woff, interrupted, log, faults>>
       \/ /\ PackFault /\ Note("pack") /\ ppc' = "finish"
          /\ UNCHANGED <<wbuf, wleft, woff>>
    /\ UNCHANGED <<stack, cur, pkg, treeVars, unpackVars, shorts, changes, kills>>

\* Where copy_file's next write starts: always at the buffer's first byte.
WriteFrom == 1

\* One write() per block, short or not.
CopyWriteWithoutRetry ==
    /\ ppc = "write"
    /\ \E n \in 1..wleft :
          /\ n < wleft => shorts < MaxShort
          /\ pkg' = pkg \o SubSeq(wbuf, WriteFrom, WriteFrom + n - 1)
          /\ wleft' = wleft - n
          /\ shorts' = IF n < wleft THEN shorts + 1 ELSE shorts
          /\ log' = log \cup IF n < wleft THEN {"short"} ELSE {}
    /\ ppc' = "read"
    /\ UNCHANGED <<stack, cur, woff, wbuf, interrupted, treeVars, unpackVars,
                   faults, changes, kills>>

\* write() of the wleft bytes; a short one is repeated, and errno is looked at
\* even when it succeeded.
CopyWrite ==
    /\ ppc = "write"
    /\ \/ \E n \in 1..wleft :
             /\ n < wleft => shorts < MaxShort
             /\ pkg' = pkg \o SubSeq(wbuf, WriteFrom, WriteFrom + n - 1)
             /\ wleft' = wleft - n
             /\ shorts' = IF n < wleft THEN shorts + 1 ELSE shorts
             /\ log' = log \cup (IF n < wleft THEN {"short"} ELSE {})
                           \cup (IF interrupted THEN {"pack"} ELSE {})
             /\ ppc' = IF interrupted THEN "finish" ELSE IF n = wleft THEN "read" ELSE "write"
             /\ UNCHANGED <<interrupted, faults>>
       \/ /\ PackFault /\ Note("pack") /\ ppc' = "finish"
          /\ UNCHANGED <<pkg, wleft, shorts>>
    /\ UNCHANGED <<stack, cur, woff, wbuf, treeVars, unpackVars, changes, kills>>

\* main ignores pack's result and writes the finish record in any case.
WriteFinish ==
    /\ ppc = "finish"
    /\ WriteRecord(Finish)
    /\ ppc' = "done"
    /\ UNCHANGED <<stack, cur, woff, wbuf, wleft, treeVars, unpackVars, shorts, changes, kills>>

\* Also in the middle of a record.
KillPack ==
    /\ ppc \notin {"done", "killed"} /\ kills < MaxKills
    /\ ppc' = "killed" /\ kills' = kills + 1 /\ Note("killed")
    /\ \/ UNCHANGED pkg
       \/ /\ ppc \in {"opendir", "stat", "finish"}
          /\ \E k \in 0..2, rest \in {<<>>, <<Torn>>} :
                pkg' = pkg \o SubSeq(Record("dir", 0, cur, 0), 1, k) \o rest
    /\ UNCHANGED <<stack, cur, woff, wbuf, wleft, interrupted, treeVars, unpackVars,
                   faults, shorts, changes>>

\* Somebody else appends to a file, cuts it, or removes it.
Disturb ==
    /\ ppc \notin {"done", "killed"}
    /\ changes < MaxChanges /\ changes' = changes + 1
    /\ \E p \in Files \ gone :
          \/ /\ len' = [len EXCEPT ![p] = @ + 1] /\ UNCHANGED gone
          \/ /\ len[p] > 0 /\ len' = [len EXCEPT ![p] = @ - 1] /\ UNCHANGED gone
          \/ gone' = gone \cup {p} /\ UNCHANGED len
    /\ Note("tree")
    /\ UNCHANGED <<packVars, unpackVars, faults, shorts, kills>>

(***************************************************************************)
(* unpack                                                                  *)
(***************************************************************************)
\* What out.pkg held before shows where pack has not written over it, and what
\* the target held where unpack will not.
StartUnpack ==
    /\ rpc = "idle" /\ ppc \in {"done", "killed"}
    /\ rpc' = "record"
    /\ \E tail \in Tails : pkg' = pkg \o tail
    /\ used' \in BOOLEAN /\ out' = [p \in Files |-> Older(p)']
    /\ UNCHANGED <<ppc, stack, cur, woff, wbuf, wleft, interrupted, treeVars, pos, rcur, rleft, roff,
                   made, log, budgets>>

At(i) == IF i <= Len(pkg) THEN pkg[i].unit ELSE "eof"

\* The path can be created: its directory is there.
Reachable(p) == used \/ p = Root \/ Parent[p] \in made

\* What read_file_info finds at the offset: numbers, path and flag, or other things.
Units == <<At(pos + 1), At(pos + 2), At(pos + 3)>>

\* read_n_byte_string does not know the end of a file: it waits for ever.
WaitsForPath == Units[1] = "num" /\ Units[2] = "eof"

\* For a number or a flag, the end of the archive is an error.
CutAtNumber == Units[1] = "eof" \/ Units = <<"num", "path", "eof">>

\* A directory packed as a file becomes an empty one, if it is not there yet; the
\* byte its record may announce is the beginning of the finish record.
AfterDirAsFile(size) ==
    IF used THEN "fail"
    ELSE IF size = 0 THEN "record"
    ELSE IF At(pos + 4) = "eof" THEN "fail" ELSE "misread"

\* read_file_info and the branch of unpack on what it read.
ReadRecord ==
    /\ rpc = "record"
    /\ LET num  == pkg[pos + 1]
           path == pkg[pos + 2].path
       IN
       \/ CutAtNumber /\ rpc' = "fail" /\ UNCHANGED <<pos, rcur, rleft, roff, made>>
       \/ WaitsForPath /\ rpc' = "spin" /\ UNCHANGED <<pos, rcur, rleft, roff, made>>
       \/ /\ ~CutAtNumber /\ ~WaitsForPath /\ Units # <<"num", "path", "flag">>
          /\ rpc' = "misread" /\ UNCHANGED <<pos, rcur, rleft, roff, made>>
       \/ /\ Units = <<"num", "path", "flag">>
          /\ pos' = pos + 3
          /\ \/ /\ pkg[pos + 3].value = 1
                /\ rpc' = "ok" /\ UNCHANGED <<rcur, rleft, roff, made>>
             \/ /\ pkg[pos + 3].value # 1 /\ num.type = "dir"
                /\ IF Reachable(path)
                   THEN rpc' = "record" /\ made' = made \cup {path}
                   ELSE rpc' = "orphan" /\ UNCHANGED made
                /\ UNCHANGED <<rcur, rleft, roff>>
             \/ /\ pkg[pos + 3].value # 1 /\ num.type # "dir" /\ path \in Dirs
                /\ IF Reachable(path)
                   THEN rpc' = AfterDirAsFile(num.size) /\ made' = made \cup {path}
                   ELSE rpc' = "orphan" /\ UNCHANGED made
                /\ UNCHANGED <<rcur, rleft, roff>>
             \/ /\ pkg[pos + 3].value # 1 /\ num.type # "dir" /\ path \notin Dirs
                /\ IF Reachable(path)
                   THEN /\ rpc' = "data" /\ rcur' = path /\ rleft' = num.size /\ roff' = 0
                        /\ made' = made \cup {path}
                   ELSE rpc' = "orphan" /\ UNCHANGED <<rcur, rleft, roff, made>>
    /\ UNCHANGED <<packVars, treeVars, used, out, log, budgets>>

\* The data bytes in front of unpack, up to n.
Bytes(n) == CHOOSE k \in 0..n :
               /\ \A i \in 1..k : At(pos + i) = "byte"
               /\ k = n \/ At(pos + k + 1) # "byte"

\* Written with O_APPEND.
WrittenOverAtEnd(content, bytes) == content \o bytes

\* write() at the file's offset, which keeps what lies behind the bytes written.
WrittenOver(content, bytes) ==
    SubSeq(content, 1, roff) \o bytes
        \o SubSeq(content, roff + Len(bytes) + 1, Len(content))

\* Nothing to read leaves the loop only at the end of the archive.
ReadDataWithoutEmpty ==
    /\ rpc = "data"
    /\ LET got == Bytes(IF rleft < BlockSize THEN rleft ELSE BlockSize) IN
       \/ /\ rleft > 0 /\ got = 0 /\ rpc' = "fail"
          /\ UNCHANGED <<pos, rleft, roff, out>>
       \/ /\ got > 0
          /\ out' = [out EXCEPT ![rcur] = WrittenOver(@, SubSeq(pkg, pos + 1, pos + got))]
          /\ pos' = pos + got /\ roff' = roff + got /\ rleft' = rleft - got
          /\ rpc' = IF rleft = got THEN "record" ELSE "data"
    /\ UNCHANGED <<packVars, treeVars, used, rcur, made, log, budgets>>

\* write_n_byte_file, block by block.  A block of an empty file has no byte to
\* read, which ends the loop by the branch of line 49.
ReadData ==
    /\ rpc = "data"
    /\ LET got == Bytes(IF rleft < BlockSize THEN rleft ELSE BlockSize) IN
       \/ /\ rleft = 0
          /\ rpc' = "record"
          /\ UNCHANGED <<pos, rleft, roff, out>>
       \/ /\ rleft > 0 /\ got = 0
          /\ rpc' = IF At(pos + 1) = "eof" THEN "fail" ELSE "misread"
          /\ UNCHANGED <<pos, rleft, roff, out>>
       \/ /\ got > 0
          /\ out' = [out EXCEPT ![rcur] = WrittenOver(@, SubSeq(pkg, pos + 1, pos + got))]
          /\ pos' = pos + got /\ roff' = roff + got /\ rleft' = rleft - got
          /\ rpc' = IF rleft = got THEN "record" ELSE "data"
    /\ UNCHANGED <<packVars, treeVars, used, rcur, made, log, budgets>>

UnpackFails ==
    /\ rpc \in {"record", "data"} /\ Fault
    /\ rpc' = "fail" /\ Note("unpack")
    /\ UNCHANGED <<packVars, treeVars, pos, rcur, rleft, roff, used, made, out,
                   shorts, changes, kills>>

\* unpack is killed, or has failed, and is run again over what it has left.
Restart ==
    /\ rpc \in {"record", "data", "fail"} /\ kills < MaxKills
    /\ kills' = kills + 1
    /\ rpc' = "record" /\ pos' = 0 /\ made' = {}
    /\ rcur' = Root /\ rleft' = 0 /\ roff' = 0
    /\ UNCHANGED <<packVars, treeVars, used, out, log, faults, shorts, changes>>

PackStep   == OpenDir \/ ReadDir \/ ProcessFile \/ CopyRead \/ CopyWrite \/ WriteFinish
UnpackStep == ReadRecord \/ ReadData

Next == \/ PackStep \/ KillPack \/ Disturb
        \/ StartUnpack \/ UnpackStep \/ UnpackFails \/ Restart

Spec == Init /\ [][Next]_vars

\* Both programs run once they are started.
FairSpec == Spec /\ WF_vars(PackStep) /\ WF_vars(UnpackStep)

-----------------------------------------------------------------------------
Ended == {"ok", "fail", "orphan", "misread", "spin"}

TypeOK ==
    /\ ppc \in {"opendir", "readdir", "stat", "read", "write", "finish", "done", "killed"}
    /\ stack \in Seq([dir : Dirs, todo : SUBSET Paths]) /\ cur \in Paths /\ woff \in Nat
    /\ wbuf \in Seq(DataBytes) /\ wleft \in 0..Len(wbuf) /\ Len(wbuf) <= BlockSize
    /\ pkg \in Seq(AnyUnit)
    /\ interrupted \in BOOLEAN
    /\ len \in [Files -> Nat] /\ gone \subseteq Files
    /\ rpc \in {"idle", "record", "data"} \cup Ended
    /\ pos \in 0..Len(pkg) /\ rcur \in Paths /\ {rleft, roff} \subseteq Nat /\ used \in BOOLEAN
    /\ made \subseteq Paths /\ out \in [Files -> Seq(DataBytes)]
    /\ log \subseteq {"record", "pack", "readdir", "short", "killed", "tree", "unpack"}
    /\ faults \in 0..MaxFaults /\ shorts \in 0..MaxShort
    /\ changes \in 0..MaxChanges /\ kills \in 0..MaxKills

\* What unpacking over the target makes of a file, not what was packed: open
\* has no O_TRUNC (unpack.c:122), and the tail of a longer file stays.
Unpacked(p) == Content(p) \o SubSeq(Older(p), len[p] + 1, Len(Older(p)))

\* When nothing went wrong but unpack itself, which was killed or failed and
\* then ran again, that run restores every path with the bytes it had, in
\* whatever order readdir named them and whatever longer archive out.pkg held
\* before; only the tails of longer files in the target stay.
RoundTrip ==
    rpc \in Ended /\ log \subseteq {"unpack"} =>
        \/ rpc = "fail" /\ log # {}
        \/ rpc = "ok" /\ made = Paths /\ \A p \in Files : out[p] = Unpacked(p)

\* A short write of data may damage the bytes (copy_file repeats the start of
\* its buffer, pack.c:33) but never the framing nor a file's length.
ShortKeepsFraming ==
    rpc \in Ended /\ log \subseteq {"short"} =>
        rpc = "ok" /\ \A p \in Files : Len(out[p]) = Len(Unpacked(p))

\* What must have gone wrong before unpack takes data for a record or the reverse,
\* before it waits for ever for the rest of a path (common.c:141), and before it
\* meets a path whose directory it has not made.
Causes == [misread |-> {"record", "pack", "killed", "tree"},
           spin    |-> {"record", "killed"},
           orphan  |-> {"record"}]

\* No damage without its cause: only a record that was not written whole or not
\* from what stat found, a file that changed between lseek and copy_file, or a
\* pack that stopped lets unpack lose the framing or the order; only these, or a
\* readdir that failed (pack.c:104), let it report success on an incomplete tree.
OutcomeHasCause ==
    /\ \A o \in DOMAIN Causes : rpc = o => log \cap Causes[o] # {}
    /\ rpc = "ok" /\ made # Paths => log \cap {"record", "pack", "readdir", "tree"} # {}

\* unpack ends, or waits in read_n_byte_string.
UnpackEnds == rpc = "record" ~> rpc \in Ended
=============================================================================
