------------------------------ MODULE ImageTar ------------------------------
(***************************************************************************)
(* Container images as tar archives: create of src/src/tar.cpp as          *)
(* commitContainer calls it while the container may still be running, and  *)
(* extract, which reads an image back.  learning/tar holds the same two    *)
(* functions as programs; its create packs several directories one after   *)
(* the other, tac's exactly one.                                           *)
(*                                                                         *)
(* libarchive is external.  What is kept of it: a ustar header carries the *)
(* length the entry had when it was named; archive_write_data takes no     *)
(* byte beyond that length and what is missing is padded, so an archive is *)
(* a map from its paths to [size, good], good bytes being certainly in the *)
(* file.  A failed write of data is not remembered: the writer tries the   *)
(* block again or goes on without it, so that the next header may be taken *)
(* or refused with ARCHIVE_FATAL, and what follows it in the file need not *)
(* be readable.  An archive that ends at the end of an entry reads like a  *)
(* finished one.                                                           *)
(***************************************************************************)
EXTENDS Integers, Sequences, FiniteSets

CONSTANTS
    Trees,       \* the directories to pack: for each, the paths below it
    Length,      \* the length of each path when create starts
    BlockSize,   \* sizeof(buffer)
    MaxFaults,   \* bound on failing calls
    MaxChanges   \* bound on changes the container makes meanwhile

Paths == UNION {Trees[i] : i \in 1..Len(Trees)}

ASSUME TreesAssumption ==
    /\ Trees \in Seq(SUBSET Paths) /\ Len(Trees) > 0 /\ Length \in [Paths -> Nat]
    /\ \A i, j \in 1..Len(Trees) : i # j => Trees[i] \cap Trees[j] = {}
ASSUME BoundAssumption == BlockSize \in Nat \ {0} /\ MaxFaults \in Nat /\ MaxChanges \in Nat

VARIABLES
    cpc,     \* control of create
    ret,     \* its local ret, then its result
    dirs,    \* numDirs, counted up
    todo,    \* the paths the disk reader has not named yet
    entry,   \* the path in hand
    size,    \* its length in the entry archive_read_next_header2 filled in
    off,     \* the offset of the open file
    image,   \* the archive: its paths, each with [size, good]
    broken,  \* a write to the archive failed: from there on nothing is certain
    len, gone, \* the container's files as they are now
    xpc, xret, \* control and result of extract
    xtodo, xentry, \* the entries it has not seen, the one in hand
    out,     \* what it has restored
    log,     \* what went wrong so far (history)
    faults, changes

createVars  == <<cpc, ret, dirs, todo, entry, size, off, image, broken>>
treeVars    == <<len, gone>>
extractVars == <<xpc, xret, xtodo, xentry, out>>
budgets     == <<faults, changes>>
vars == <<createVars, treeVars, extractVars, log, budgets>>

-----------------------------------------------------------------------------
Empty == [p \in {} |-> [size |-> 0, good |-> 0]]

Put(f, p, e) == [q \in DOMAIN f \cup {p} |-> IF q = p THEN e ELSE f[q]]

AtMost(n, m) == IF n < m THEN n ELSE m

Init ==
    /\ cpc = "open" /\ ret = 0 /\ dirs = 1 /\ todo = {} /\ entry \in Paths
    /\ size = 0 /\ off = 0 /\ image = Empty /\ broken = FALSE
    /\ len = Length /\ gone = {}
    /\ xpc = "idle" /\ xret = 0 /\ xtodo = {} /\ xentry = entry /\ out = Empty
    /\ log = {} /\ faults = 0 /\ changes = 0

Fails(what) ==
    /\ faults < MaxFaults /\ faults' = faults + 1
    /\ log' = log \cup {what}

Goes == UNCHANGED <<faults, log>>

\* Defect variants (...With..., ...Without...): no specification uses them.
\* Each is the definition that follows it with one plausible bug.

\* --numDirs is missing.
NextDirectoryWithoutCount == cpc' = "disk" /\ UNCHANGED dirs

\* learning/tar goes on with the next directory it was given.
NextDirectory ==
    IF dirs = Len(Trees) THEN cpc' = "close" /\ UNCHANGED dirs
                         ELSE cpc' = "disk" /\ dirs' = dirs + 1

\* What read() returns: the next block, as far as the file goes by now.
Chunk == AtMost(len[entry] - off, BlockSize)

\* The bytes of the entry once archive_write_data was given n more.
Taken(n) == AtMost(image[entry].good + n, image[entry].size)

(***************************************************************************)
(* create                                                                  *)
(***************************************************************************)
\* A failing archive_write_open_filename returns 1, not -1.
OpenImage ==
    /\ cpc = "open"
    /\ \/ Goes /\ cpc' = "disk" /\ UNCHANGED ret
       \/ Fails("image") /\ cpc' = "done" /\ ret' = 1
    /\ UNCHANGED <<dirs, todo, entry, size, off, image, broken, treeVars, extractVars, changes>>

OpenDisk ==
    /\ cpc = "disk"
    /\ \/ Goes /\ cpc' = "next" /\ todo' = Trees[dirs] /\ UNCHANGED ret
       \/ Fails("disk") /\ cpc' = "close" /\ ret' = -1 /\ UNCHANGED todo
    /\ UNCHANGED <<dirs, entry, size, off, image, broken, treeVars, extractVars, changes>>

\* Whatever is not ARCHIVE_OK ends the directory with success.
NextHeaderWithoutError ==
    /\ cpc = "next"
    /\ \/ /\ \E p \in todo \ gone : entry' = p /\ todo' = todo \ {p} /\ size' = len[p]
          /\ cpc' = "header" /\ Goes /\ UNCHANGED <<ret, dirs>>
       \/ /\ cpc' = "close" /\ ret' = 0
          /\ (todo \subseteq gone /\ Goes) \/ Fails("next")
          /\ UNCHANGED <<dirs, todo, entry, size>>
    /\ UNCHANGED <<off, image, broken, treeVars, extractVars, changes>>

\* archive_read_next_header2: the next path and its length, the end of the
\* directory (then the next one, or the end), or an error.  A path that has
\* vanished is an error, or was never listed.
NextHeader ==
    /\ cpc = "next"
    /\ \/ /\ \E p \in todo \ gone : entry' = p /\ todo' = todo \ {p} /\ size' = len[p]
          /\ cpc' = "header" /\ Goes /\ UNCHANGED <<ret, dirs>>
       \/ /\ todo \subseteq gone /\ Goes
          /\ ret' = 0
          /\ NextDirectory
          /\ UNCHANGED <<todo, entry, size>>
       \/ /\ \/ todo \cap gone # {} /\ Goes
             \/ Fails("next")
          /\ ret' = -1 /\ cpc' = "close"
          /\ UNCHANGED <<dirs, todo, entry, size>>
    /\ UNCHANGED <<off, image, broken, treeVars, extractVars, changes>>

\* Every result below ARCHIVE_OK is logged and nothing else.
WriteHeaderWithoutFatal ==
    /\ cpc = "header"
    /\ \/ /\ Goes
          /\ image' = Put(image, entry, [size |-> size, good |-> 0])
          /\ cpc' = "data" /\ off' = 0 /\ UNCHANGED broken
       \/ /\ (broken /\ Goes) \/ Fails("header") \/ Fails("fatal")
          /\ cpc' = "next" /\ UNCHANGED <<image, broken, off>>
    /\ UNCHANGED <<ret, dirs, todo, entry, size, treeVars, extractVars, changes>>

\* archive_write_header: written (with a warning or not), ARCHIVE_FAILED, which
\* drops the entry, or ARCHIVE_FATAL, which is the only one to end the loop.  It
\* writes out the entry before, and may meet what made that one's data fail.
WriteHeader ==
    /\ cpc = "header"
    /\ \/ /\ Goes
          /\ image' = Put(image, entry, [size |-> size, good |-> 0])
          /\ cpc' = "data" /\ off' = 0 /\ UNCHANGED <<ret, broken>>
       \/ /\ Fails("header")
          /\ cpc' = "next" /\ UNCHANGED <<ret, image, broken, off>>
       \/ /\ (broken /\ Goes) \/ Fails("fatal")
          /\ broken' = TRUE
          /\ ret' = -1 /\ cpc' = "close" /\ UNCHANGED <<image, off>>
    /\ UNCHANGED <<dirs, todo, entry, size, treeVars, extractVars, changes>>

\* open and the read loop, one block at a time.  A file that cannot be opened
\* or read ends the loop, and archive_write_data's result is dropped.
CopyFile ==
    /\ cpc = "data"
    /\ LET n == Chunk IN
       \/ /\ n <= 0 \/ (off = 0 /\ entry \in gone)
          /\ Goes /\ cpc' = "next" /\ UNCHANGED <<image, broken, off>>
       \/ /\ n > 0 /\ ~(off = 0 /\ entry \in gone)
          /\ off' = off + n /\ UNCHANGED cpc
          /\ \/ /\ Goes /\ UNCHANGED broken
                /\ image' = IF broken THEN image
                            ELSE [image EXCEPT ![entry].good = Taken(n)]
             \/ Fails("write") /\ broken' = TRUE /\ UNCHANGED image
       \/ /\ Fails("read") /\ cpc' = "next" /\ UNCHANGED <<image, broken, off>>
    /\ UNCHANGED <<ret, dirs, todo, entry, size, treeVars, extractVars, changes>>

\* archive_write_close writes what is buffered; its result is dropped.
CloseImage ==
    /\ cpc = "close"
    /\ \/ Goes /\ UNCHANGED broken
       \/ Fails("close") /\ broken' = TRUE
    /\ cpc' = "done"
    /\ UNCHANGED <<ret, dirs, todo, entry, size, off, image, treeVars, extractVars, changes>>

\* The container appends to a file, cuts it, or removes it.
Disturb ==
    /\ cpc # "done"
    /\ changes < MaxChanges /\ changes' = changes + 1
    /\ \E p \in Paths \ gone :
          \/ len' = [len EXCEPT ![p] = @ + 1] /\ UNCHANGED gone
          \/ len[p] > 0 /\ len' = [len EXCEPT ![p] = @ - 1] /\ UNCHANGED gone
          \/ gone' = gone \cup {p} /\ UNCHANGED len
    /\ log' = log \cup {"tree"}
    /\ UNCHANGED <<createVars, extractVars, faults>>

(***************************************************************************)
(* commitContainer                                                         *)
(***************************************************************************)
\* Every result but -1 is a success: the other one ends the program in FATAL.
Committed == cpc = "done" /\ ret # -1

(***************************************************************************)
(* extract                                                                 *)
(***************************************************************************)
\* archive_read_open_filename: there is no file when create could not open it.
StartExtract ==
    /\ xpc = "idle" /\ cpc = "done"
    /\ IF ret = 1
       THEN xpc' = "done" /\ xret' = -1 /\ UNCHANGED xtodo
       ELSE xpc' = "next" /\ xtodo' = DOMAIN image /\ UNCHANGED xret
    /\ UNCHANGED <<createVars, treeVars, xentry, out, log, budgets>>

\* Of a broken image any part may be missing, and what is left may read as an
\* entry, as the end of the archive, or not at all.
ExtractNext ==
    /\ xpc = "next"
    /\ \/ /\ \E p \in xtodo : xentry' = p /\ xtodo' = xtodo \ {p}
          /\ xpc' = "entry" /\ Goes /\ UNCHANGED xret
       \/ /\ xtodo = {} \/ broken
          /\ xpc' = "done" /\ xret' = 0 /\ Goes /\ UNCHANGED <<xentry, xtodo>>
       \/ /\ (broken /\ Goes) \/ Fails("extract")
          /\ xpc' = "done" /\ xret' = -1 /\ UNCHANGED <<xentry, xtodo>>
    /\ UNCHANGED <<createVars, treeVars, out, changes>>

\* What copy_data returns is not looked at.
ExtractEntryWithoutCheck ==
    /\ xpc = "entry"
    /\ xpc' = "next" /\ UNCHANGED xret
    /\ \/ Goes /\ out' = Put(out, xentry, image[xentry])
       \/ Fails("extract") /\ UNCHANGED out
    /\ UNCHANGED <<createVars, treeVars, xtodo, xentry, changes>>

\* copy_data stops at the first block it cannot read or write.
EntryFails == (broken /\ Goes) \/ Fails("extract")

\* archive_write_header, copy_data and archive_write_finish_entry: extract goes
\* on only when all three return ARCHIVE_OK.
ExtractEntry ==
    /\ xpc = "entry"
    /\ \/ /\ Goes /\ out' = Put(out, xentry, image[xentry])
          /\ xpc' = "next" /\ UNCHANGED xret
       \/ EntryFails /\ xpc' = "done" /\ xret' = -1 /\ UNCHANGED out
    /\ UNCHANGED <<createVars, treeVars, xtodo, xentry, changes>>

CreateStep  == OpenImage \/ OpenDisk \/ NextHeader \/ WriteHeader \/ CopyFile \/ CloseImage
ExtractStep == ExtractNext \/ ExtractEntry

Next == CreateStep \/ Disturb \/ StartExtract \/ ExtractStep

Spec == Init /\ [][Next]_vars

\* A program that has been started runs; nobody has to start extract.
FairSpec == Spec /\ WF_vars(CreateStep) /\ WF_vars(ExtractStep)

-----------------------------------------------------------------------------
TypeOK ==
    /\ cpc \in {"open", "disk", "next", "header", "data", "close", "done"}
    /\ ret \in {-1, 0, 1} /\ dirs \in 1..Len(Trees) /\ todo \subseteq Paths
    /\ entry \in Paths /\ size \in Nat /\ off \in Nat /\ broken \in BOOLEAN
    /\ DOMAIN image \subseteq Paths
    /\ \A p \in DOMAIN image : image[p].size \in Nat /\ image[p].good \in 0..image[p].size
    /\ len \in [Paths -> Nat] /\ gone \subseteq Paths
    /\ xpc \in {"idle", "next", "entry", "done"} /\ xret \in {-1, 0}
    /\ xtodo \subseteq DOMAIN image /\ xentry \in Paths
    /\ DOMAIN out \subseteq DOMAIN image /\ \A p \in DOMAIN out : out[p] = image[p]
    /\ log \subseteq {"image", "disk", "next", "header", "fatal", "write", "read",
                      "close", "tree", "extract"}
    /\ faults \in 0..MaxFaults /\ changes \in 0..MaxChanges

Whole == /\ DOMAIN image = Paths /\ ~broken
         /\ \A p \in Paths : image[p].size = len[p] /\ image[p].good = len[p]

\* commitContainer reports success on an incomplete image only after a failure
\* whose result create drops, or when the container changed its files meanwhile:
\* failing to walk the tree, or to write a header fatally, is never hidden.
LossOnlyByDroppedResult ==
    Committed /\ ~Whole =>
        log \cap {"image", "header", "write", "read", "close", "tree"} # {}

\* What create reports: a directory that cannot be walked and a header refused with
\* ARCHIVE_FATAL always, whatever comes behind them; a write of data only if a later
\* header happens to be refused; an image that cannot be opened, a header that only
\* drops its entry, a file that cannot be read and a close never.
ReportedFailures ==
    cpc = "done" =>
        /\ log \cap {"disk", "next", "fatal"} # {} => ret = -1
        /\ ret = -1 => log \cap {"disk", "next", "fatal", "write", "tree"} # {}

\* extract reports success only if it restored every entry with what the image
\* has for it, or if a write to the image had failed; and it does report it for an
\* image that was made and read without a failure.
ExtractIsHonest ==
    xpc = "done" =>
        /\ xret = 0 => broken \/ out = image
        /\ log = {} => xret = 0

\* create and extract end; the former also with a container that goes on writing,
\* as long as it does not grow a file for ever.
ImageEnds == <>(cpc = "done") /\ (xpc = "next" ~> xpc = "done")
=============================================================================
