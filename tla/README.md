# TinyAC in TLA+

TinyAC starts a shell in a container: it makes namespaces, builds a root file
system from a union mount, pivots into it and waits. This directory holds a
specification of what the code in `src/` does, model checked with TLC on small
instances, and proofs of its central properties that TLAPS checks for every
instance. Paths below are relative to the repository; `container.cpp` and the
like, without a directory, are in `src/` of the repository's root.

The program at this commit does not link (the handlers behind `main.cpp:13` and
several members of `Value` and `Array` have no definition). The modules
therefore model the functions and the `learning/` programs, each started the way
its caller in the repository starts it.

## 1. The system

| Part | State | Operations | Meets others through |
| --- | --- | --- | --- |
| container launch (`container.cpp`) | namespaces, mounts, root, two child processes | `createParentProcess`, `containerInitProcess`, `setUnshare`, `setMount`, `pivotRoot` | fork and `waitpid`; the fixed directory `con1`; mount propagation |
| union file system (`aufs.cpp`) | directories below `con1`, the union mount | `makeSpace` and the four `create...` it calls, `mountAUFS`; `mountVolume`, `umount...` without callers | called by init before `setMount`; `mount(8)` through `system` |
| path utilities (`utils.cpp`) | the file system | `exists`, `safe_mkdir`, `safe_rmdir`, `copy`, `genUUID` | called by launch and union; several processes on one path |
| logger (`log.hpp`) | none | `FATAL`, `PFATAL` (exit), `assert` (abort unless `NDEBUG`) | ends the process that calls it |
| container images (`tar.cpp`) | an archive, a tree being walked | `create`, `extract` (`tar` is `create`, `untar` empty) | `commitContainer`; the container may still be running |
| configuration text (`config.cpp`, `config.hpp`) | an iterator over the text, recursion | `CharStream`, `Document::parse`, `parse_doc`, `parse_array`, `parse_trivial` | none |
| cgroup path (`cgroups/utils.cpp`) | the cgroup hierarchies | `findCGroupMountpoint`, `fieldExists`, `pathJoin`, `getCGroupPath` | several processes, one cgroup path |
| cgroup subsystems (`cgroups/cpu.cpp`) | none yet | empty bodies | - |
| command line (`cli.cpp`, `main.cpp`, `command_*.cpp`) | the argument stream, `Arguments` | `parse`, dispatch | calls the handlers |
| exceptions (`exception.cpp`) | a code | `what` | an outcome of the functions that throw |
| directory archiver (`learning/pack`) | `out.pkg` | `pack`, `unpack` | the archive; the tree may change while `pack` walks it |
| image demos (`learning/tar`) | as `tar.cpp` | `create`, `extract` as programs | as `tar.cpp` |
| memory cgroup demo (`learning/cgroup`) | a memory cgroup, a child that becomes `stress` | clone, make and open the cgroup, attach, limit, `waitpid` | parent and child run at the same time; one cgroup path for all runs |
| `pivot_root` demo (`learning/pivot_root`) | a mount namespace, `oldRootfs` below the new root | clone, remount, bind, `mkdir`, pivot, detach, exec, `wait` | one new root for all runs; mount propagation |
| namespace demos | a namespace each | clone or unshare, exec, `waitpid` | `waitpid` |

What is hard here, and what must be right:

* **Launch.** Three processes per launch, and any number of launches on one
  `con1`. Results are checked in `setMount` and dropped in `makeSpace` and
  `setUnshare`. Each of about fifteen calls may fail, each process may be killed
  between any two of them, and the directories then stay as they are. What must
  hold: no shell runs on the host's tree; a parent that returns leaves no shell
  behind; the host's mounts and root stay as they were; leftovers are harmless.
* **copy.** Tests, removal and creation of the destination are separate calls,
  reads and writes may be short. No byte may be lost or doubled, and one copy
  must not take the destination from another.
* **Archives.** `pack` has no checksums and trusts sizes read before the data.
  It must be known which failure leads to which damage, and that `unpack` ends.
  The same question for images: which losses does `commitContainer` report as a
  success?
* **Configuration.** An escaping rule that `peek` and `next` implement
  differently, and documents nested by recursion. The parser must stay inside the
  text, end, and nest what is indented.
* **cgroup path.** `access` then `mkdir`, by several processes; a search that may
  not end.
* **Command line.** A stream whose `hasNext` is inverted, a pointer that is read
  without a value, a loop that counts without looking at its counter. What can go
  wrong must be tied to the command lines that make it go wrong.
* **Memory cgroup demo.** The child runs while the parent puts it into the cgroup and
  sets the limit: it may have forked by then, or hold more than the limit. `exit(1)`
  forgets the child.
* **`pivot_root` demo.** `mkdir` without a test is the only lock between runs, and a
  directory that stays locks every later run out.

## 2. Modules

| Module | What it is |
| --- | --- |
| `Launch` | what a launch promises, without processes or system calls |
| `Container` | the launch, call by call, any number of launches at a time; at its end, how it is a `Launch` |
| `ContainerProofs` | theorems about `Container` |
| `Copy` | what calls that copy to one destination promise, without buffers or offsets |
| `FileCopy` | `Path::copy`, any number of calls with one destination; at its end, how it is a `Copy` |
| `FileCopyProofs` | theorems about `FileCopy` |
| `Pack` | `learning/pack`: both programs and the archive between them |
| `PackProofs` | theorems about `Pack` |
| `ImageTar` | `create` and `extract` of `tar.cpp` and `learning/tar` |
| `ImageTarProofs` | theorems about `ImageTar` |
| `ConfigText` | the configuration parser |
| `CgroupPath` | `getCGroupPath`, several callers |
| `CgroupPathProofs` | theorems about `CgroupPath` |
| `MemoryLimit` | `learning/cgroup`: parents, children and the memory cgroup |
| `MemoryLimitProofs` | theorems about `MemoryLimit` |
| `PivotDemo` | `learning/pivot_root`, several runs on one new root |
| `PivotDemoProofs` | theorems about `PivotDemo` |
| `Cli` | `Cli::parse` and the option parser |
| `ReaderProofs` | theorems about `Cli` and `ConfigText`, the two readers of text |
| `MC...` | the instances TLC checks |

Operators named like the definition that follows them, with `With...`, `Without...`,
`Unchecked`, `Inverted` or the like behind the name, are that definition with one plausible bug. No specification uses
them; putting one in place of its definition shows that a property can fail.

### Container

`ppc`, `ipc` and `spc` are the control of the three processes of each run;
their values name the call that comes next. `unshared` has the runs whose
`unshare` succeeded; the others go on in the host's namespaces because
`createParentProcess` only logs the failure. `mounts`, `shared` and `root` are
the kernel's part per mount namespace, `space` the directories in `con1` and
`rootDirs` those in the root file system (seen through the union or bare, as
`view` says). An action is one system call with the branch on its result:

| Actions | Code |
| --- | --- |
| `SetUnshare`, `ForkInit`, `WaitInit` | `createParentProcess` |
| `Exec`, `AssertSpace`, `CreateReadOnly`, `CreateReadWrite`, `CreateMountingPoint`, `MountAUFS` | `makeSpace`, all results dropped |
| `RemountPrivate` ... `SafeRmdirOld` | `pivotRoot` |
| `SetProc`, `SetDev` | `setMount`: `safe_mkdir` (test, then create: two actions) and `mount` |
| `ForkShell`, `WaitShell`, `ShellExec`, `ShellExit` | the end of `containerInitProcess`, the shell |
| `CallRefused`, `CallFails` | a checked call fails, because of the state or for an outside reason; init exits |
| `KillParent`, `KillInit` | a kill; a PID namespace dies with its init |

Union mounts are made before `/` is private (`container.cpp:166`, then `:43`),
so the model's `AddMount` propagates along `Peers`. `rmdir` of a directory that
is a mount point in another namespace detaches it there; hence one run may seal
another, and `Launch!Seal` takes a set of runs.

`Launch` keeps a phase per run and the set of sealed runs. `Phase` and
`SealedRuns`, at the end of `Container`, are the mapping. `LaunchSteps` says that every
behaviour of `Spec` is one of `Launch!Safety`: nothing of the container runs before the
host's tree is out of reach, and nothing of it runs twice. `ImplementsLaunch` adds the
fairness: a setup that has begun succeeds or ends.

### FileCopy

One action per call of `Path::copy`, from `access` to `close`. Files are inodes:
a copy goes on writing to its own after another one has removed the name. The
descriptor tested at `utils.cpp:88` has not been assigned yet; the outcome of the
test is a choice (`GarbageFails`). A failed `read` leaves the loop like the end of
the file does; `cutShort` remembers it.

`Copy` knows the name, the contents of each call's file and a phase per call. `Phases`, at
the end of `FileCopy`, is the mapping, and `CopySteps` says that every behaviour is one
of `Copy`'s: whatever the interleaving, a file grows only as a beginning of its source,
only a call that may overwrite clears the name, only one that finds it free takes it, and
a call ends as `copied` when it has all it could read.

### Pack

The archive `pkg` is a sequence of units: the numbers of a record, its path, its
flag, and data bytes. `Torn` is a part of a unit. When `unpack` meets a unit of a
kind it does not expect, the values it goes on with may be anything; the model
stops in `misread`. `log` remembers which kinds of failure have happened, and the
properties relate the outcome of `unpack` to it: `"record"` for a record that was not
written whole or not from what `stat` found, `"readdir"` for a directory whose rest was left
out because `readdir` failed, `"pack"` for a walk that was given up, and so on. `stat` may
fail on a path that is there: its result is dropped, and a file may be packed as a directory
or a directory as a file. Of the calls that write one record at most one fails; `readdir` is
taken to fill in `d_type`, and paths to fit `MAX_PATH`. `interrupted` is an `EINTR`
that stays in `errno`: `write_n_byte_string` tests `errno` after a success, so one
interrupted call spoils every later record. `used` is a target that holds longer files
of the same names: `open` has no `O_TRUNC`, so `WrittenOver` keeps what lies behind
the bytes written. `Restart` runs `unpack` again over what a killed or failed run has
left; `RoundTrip` says what that run restores.

### ImageTar

`create`'s loop over directories (one for tac, several for `learning/tar`), entries
and blocks, with its variable `ret` as the code assigns it, then `extract`. Of
libarchive, external, it has what the header of the module lists; above all, a failed
`archive_write_data` is not remembered: the next header may be written or refused, and with
`broken` nothing is certain about what the file holds from there on. `Disturb` is the
container that still runs. `Committed` is `commitContainer`'s test of the result.

### ConfigText

A text is a sequence of character classes. `Key`, `SubDocument`, `Trivial` and
`Return` are the parts of `parse_doc`'s loop, `pos` the iterator, `depth` the
recursion. The helpers are the methods of `CharStream`. `parse` takes a `string_view`,
which need not end in a `NUL`: `behind` is what its memory goes on with, a colon or not,
since that is what `peek` sees through a backslash at the very end. Of the document it keeps
where each key was, how deep, and the kind of its value. The names that `Cli`, the other
reader of text, has too begin with `Cs` (`CharStream`) or `Parse` here, so that one module
can speak of both.

### CgroupPath

The steps of `findCGroupMountpoint` for each line, `fieldExists` with its loop
as the code has it (it runs while there is *no* comma), `pathJoin`, `access`,
`mkdir`. `hung` is the loop that erases nothing. `info`, what mountinfo holds, is
chosen at the beginning. `FirstLoneDecides` says what the search comes to: the first
line with a single option decides, by ending it or by never ending.

### MemoryLimit

`ppc` is the next call of each parent, `child` that of its child from `child_fn`
through `bash` to `stress`, `worker` the process `stress` forks, `held` its memory in
steps. `group` is the cgroup (`absent`, without a limit, limited), `attached` the
children whose pid was written to `tasks`, `inside` their workers. A worker belongs to the
cgroup its parent was in when it was forked. `Charge` is an allocation: over the limit the
OOM killer takes a worker of the group. `WriteLimit` fails (`EBUSY`) when the group holds
more than the limit. A machine without swap is assumed. `born`, `wrote` and `why` are
history.

### PivotDemo

The calls of `child_fn`, with the same `mounts`, `shared` and `root` as in `Container`.
`owner` is who made `oldRootfs`: a run, somebody `Before`, or `Nobody`. Here the remount
comes first, so `NoHostPropagation`, in the words of the comment at
`learning/pivot_root/main.c:39`, holds for any host. `containerInitProcess` mounts the
union before it (`container.cpp:166`, then `:43`); there only `LeakIsUnionOnly` is left.

### Cli

An argument is a sequence of characters, with the names of long options as one symbol. The
methods of `CharStream` are operators on a text and an iterator; `Named` is what the
branches at `cli.cpp:84` make of an argument. As `hasNext` is true at the end only,
`next` has no character for any option, those branches are dead, and `optConfig`
is read without a value: `Wild`. What it points to is a crash or any entry of a table
(`Pointee`). `Dispatch` calls any handler, since nothing sets the fields main reads.
`HasNext` the right way round brings the branches to life in the model
(`HasNextWithoutInversion`). The option tables of the sub commands are external: the
repository declares them only.

## 3. Runs

| Run | Instance | Shows |
| --- | --- | --- |
| `race` | 2 launches that overlap, 1 failing call, 1 kill, shared host root, a complete `con1`; fair | a live shell is confined (`ShellConfined`), `ReturnMeansGone`, `LeakIsUnionOnly`, `HostRootKept`, `RaceHasWinner` (test-then-create races never end with nobody in), `ShellExitPropagates`, `ImplementsLaunch` |
| `sequential` | 2 launches in turn, 2 failures, 2 kills, any content of `con1` and of its root | `LeftoversTolerated` |
| `copy` | 3 copies, two of which overwrite, a destination before them, 2 failures, 1 interruption; fair | `PrefixCopied`, `CopiedIsWhole`, `FirstKeepsDest`, `DestinationSurvives`, `CallsEnd`, `CopySteps` |
| `pack` | 2 directories, 2 files (one empty, one longer than a block), 1 each of failing call, short write, change, kill or rerun; an older archive underneath or not, an empty target or longer files in it; fair | `ShortKeepsFraming`, `OutcomeHasCause` (each kind of damage follows from some failure of its own; a tree may be incomplete without a word after a failed `readdir`), `RoundTrip`, `UnpackEnds` |
| `image` | 2 directories, 3 files, 2 failing calls, 2 changes; fair | `LossOnlyByDroppedResult`, `ReportedFailures` (which failures `create` reports always, by chance, never), `ExtractIsHonest` (and without a failure nothing is reported), `ImageEnds` |
| `config` | all texts of up to 5 of 10 character classes, with a colon behind them or not; fair | `OnlyEscapesBreakIt` (leaving the text, and aborting, take a backslash), `NumbersAreWholeLines`, `BreaksAreInKeys`, `ParseEnds` |
| `cgroup` | 3 callers, 2 that create, mountinfo of up to 3 of 4 lines, 2 failures | `LoserLeavesDirectory`, `OnlyAutoCreateCreates`, `FirstLoneDecides` (also for a cgroup outside every hierarchy) |
| `memory_limit` | 2 runs of the demo on one cgroup, there before or not, 1 failing call, 1 kill; fair | `HogEscapedEarly`, `OrphanCause`, `LimitEndsIt` |
| `pivot_demo` | 3 runs on one new root, an `oldRootfs` there or not, 2 failing calls, 1 kill; fair | `SealedOrBlocked`, `LeftoverStays`, `ChildEndPropagates` |
| `cli` | every line of up to 4 of 7 arguments behind one of 2 names | `TypeOK` (`argc_` counts what is left of `argv_`), `WildReadCause`, `NullAfterLastOption` |

`pack`, `config` and `cli` also check the type invariant of their module (`TypeOK`,
`ParseTypeOK`); it is proved for every module (section 4). Two runs look
for a disagreement between the code and what is written next to it, and find it:

| Run | Violated | Because |
| --- | --- | --- |
| `fresh` | `MountingPointCreated` (`aufs.hpp:15`) | `createMountingPoint` ignores its argument (`aufs.cpp:62`); `con1/mnt` is never made |
| `config_example` | `SameIndentSameDepth` (the example at `config.cpp:222-230`) | `parse_doc` only returns at the end of the text: every sub document swallows what follows |

Other disagreements met on the way have no run of their own; they are in the
models as the code has them and listed with the hazards of `PROJECT.json`: the
comma loop of `fieldExists` (a subsystem that is one of several options is not
found), the array branch of `parse_doc` (dead: the dash is looked for before the
newline is skipped, `config.cpp:255`), the overloads of `parse` that call themselves
(`config.cpp:211`), the fields of `Arguments` nothing initialises (`main.cpp:13`), the
branch of `unpack.c:49` (said never to be reached, and
taken for every empty file). With a shared host root the union mount of
`makeSpace` appears on the host, unlike what `learning/pivot_root/main.c:39` says of the
remount both programs do; `LeakIsUnionOnly` is the exact extent.

**Bounds.** Two launches are enough for every pairwise interaction the code has,
because runs interact through single directories, a name or a mount.
One failure and one kill during a race reach every branch of both runs; two of
each, one after the other, let a second launch start on what two broken ones left.
Three copies let one remove what the second has created while the third creates.
For `Pack`, a subdirectory makes order matter, a file longer than a block makes the
loops run twice, an empty file is the boundary. Five characters hold a key, a
colon, a newline and a value, or an escape at any place; the deeper example has a
run of its own. Two runs of `MemoryLimit` share the group in every order of being
forked, attached and limited; `Need` is above the limit, so that one worker alone hits
it. The third run of `PivotDemo` meets what a broken first has left while a second
races. For `CgroupPath` lines with the subsystem as a lone option, another
lone option and several options stand before and behind each other. Four arguments hold a sub command,
an option, its argument and another option. The launches are interchangeable; `SYMMETRY` says so in the runs that
check invariants only.

`CHECK_DEADLOCK FALSE` is in every configuration: each system ends, and its final
states have no step.

**Fairness.** Weak fairness of a process's next call: the kernel schedules a
runnable process, and a call returns or fails. Nobody is obliged to start a run, to
kill, to leave the shell, to change a file or to fail, so those actions are not
fair. `WaitInit` is enabled only when init is dead: waiting for ever is a behaviour
of the model unless the child ends. A `copy`, `unpack`, `create`, `extract` or
`parse` that has been started runs on. `stress` goes on allocating: it is run with
`--vm-keep`. The bounds on interruptions and changes are
assumptions of the liveness properties: a write interrupted for ever does not end.

## 4. Proofs

Each proof module uses the assumptions of the modules it extends and, but for two theorems
that say so, nothing else. Its theorems hold for any number of runs, callers or copies, any
inputs, any bounds. Beyond types and bounds the assumptions are: there is a run (`Runs # {}`), and a copy, since
with none a race has no winner and a destination no maker; every line of
mountinfo has an option; `-` is not `NUL`, and an argument is a text of the model's
characters without `NUL` (`ArgsAssumption`); the directories of an image are named by a
sequence of sets of paths (`TreesAssumption`); every path `pack` meets is below its root
(`RootAssumption`).

`ContainerProofs` proves `TypeOK`, `ShellConfined`, `LeakIsUnionOnly`,
`HostRootKept` and `ReturnMeansGone`. None but the first is inductive: that a shell
is on its own root follows from where init was when it forked it, and init's
place says something only together with what it has done to the mounts so far.
`IInv` is therefore

* `NoTraceYet`: a run that has not begun has no process, no namespace and no mount;
* `ShellPlace`: there is a shell only when init waits for it or is dead;
* `PrivateKept`: past the remount, a run's namespace no longer propagates;
* `RootKept`, `OldGone`, `ProcThere`, `DevThere`: past the call in question, the
  root is the run's, the old root is detached, `/proc`, `/dev` are mounted;
* `LeakIsUnionOnly`, `HostRootKept`, `TypeOK`.

Init's places are nested sets (`PastPrivate`, `PastPivot`, ...), so that a step that
only moves init on needs one lemma (`QuietMove`) and a mount one more
(`MountMove`); `RemountStep`, `PivotStep`, `DetachStep`, `ForkShellStep` and
`EndStep` are the cases that change more. `ReturnMeansGone` needs `Reaped`, which is
inductive relative to `IInv`. What makes the proof work for runs that share a
namespace (those whose `unshare` failed) is that every mount is labelled with its run.

`RaceHasWinner` and `LeftoversTolerated` are about the directories in `con1`, which runs
make and remove under one another's feet. Both follow from `RInv`: as long as the
operator's part is there and, when runs overlap, nothing has failed, whatever the next
call of a run needs is there, or another run is further on, at a place from which it
cannot lose that race any more (`Need`, with the nested places `AheadDev` up to
`AheadOld`). The last run ahead has lost to nobody, so it is the winner. When runs do
not overlap there is nobody to be ahead (`Solo`), so what a call needs is there: this is
`LeftoversTolerated`.

`Implements` is the step simulation of `Launch` by `Container`: every step of a launch
is one of `Launch`'s or changes neither `Phase` nor `SealedRuns`. It needs `Rooted` (a
namespace's root is a run's only when its init is past the pivot, or dead), so that
nothing seals a run but `umount2` and the `rmdir` of another run.

`FileCopyProofs` proves `TypeOK`, `PrefixCopied`, `CopiedIsWhole`, `FirstKeepsDest` and
`DestinationSurvives`. `PrefixCopied` (written bytes, then the buffer, are the source up
to the offset) is nearly inductive; `LoopState` adds that the buffer is empty outside
the write loop and that a copy that left the loop has read everything or is in
`cutShort`. The work is in the lemmas on `SubSeq` and concatenation. `Survival` says who
may still bring a missing destination back: a copy that comes (`Coming`), or one that gave up and left it missing.
`Copies` is the refinement of `Copy`: `Spec => CopySteps`. It needs, beside `IInv`, that
a copy past its `open` has a file of its own, and that one whose `read` failed has left
the loop (`Placed`); `PhaseMoves`
turns the change of one copy's control into one of its phase, `PrefixGrows` makes a
`write` a step of `Copy`'s `Grow`, and `AllCopied` its last one, or the end of a source
that cannot be read, a `Finish`.

`PivotDemoProofs` proves `TypeOK`, `NoHostPropagation`, `OldRootOwned`,
`SealedOrBlocked`, `BeatenBySomeone` and the action property `LeftoverStays`. The host
may be shared or not, and the directory may have been there before. `OldRootOwned`, that
`mkdir` is a lock, is inductive by itself and is what keeps a run from removing or
pivoting over the directory of another. `Sealed` adds where the root is between the
pivot and the program, `PrivateBeforeBind` that only private namespaces mount (hence the
comment at `main.c:39` is right about this program), and `PastMkdir` that no run is
both an owner and beaten, which makes `BeatenBySomeone` inductive.

`CgroupPathProofs` proves `TypeOK`, `LoserLeavesDirectory`, `OnlyAutoCreateCreates` and
`FirstLoneDecides` for any mountinfo whose lines have an option. `LinesPassed` is the
loop invariant of the search (every line behind it has several options), `NothingFound`
what it knows at its end, `MkdirAllowed` who gets to `mkdir`.

`MemoryLimitProofs` proves `TypeOK`, `ReturnMeansGone` (a parent that returns leaves
neither child nor worker), `LaterBornInGroup` (only a worker forked before its parent's
write can be outside the group), `LostToAnother`, `HogEscapedEarly` and `OrphanCause`.
The last two need the sum of what the workers of the group hold. `Usage` is the
cardinality of a set of pages, and `OnePageMore` and `SamePages` say what a step does to
that set. `LimitHolds` is the core: once written the limit stays, holds, and every
worker born late lives under it. `ExitCause` gives each `exit(1)` its reason; that a
write is refused for a worker forked between attaching and limiting is `BusyMeansBetween`.

`ImageTarProofs` proves `TypeOK`, `LossOnlyByDroppedResult`, `ReportedFailures`
and `ExtractIsHonest`, and from end to end `Restored`: with no failure and no change,
`extract` restores every path of every directory with the bytes it had. `Domains` says
which paths the archive has at each place of `create`'s three loops, `Contents` how much
of each; both hold only as long as their own kind of failure has not happened, which
`History` relates to `ret` and `broken`. `Extracted` is `extract`'s loop: what the image has
is what it has restored, what is left to read, and the entry in hand.

`PackProofs` proves `TypeOK`, `OutcomeHasCause`, `ShortKeepsFraming` and `RoundTrip` of
`Pack`, for any tree, any sizes, any order of `readdir` and any number of faults, short
writes, changes, kills and reruns. All three are about the end of `unpack`, so `IInv` has
to carry what `pack` did across the archive:

* `Walk`, `OnStack`, `Complete`, `ParentsFirst`: what is on the stack has been written,
  what has not been written is on the stack or below something there, and a directory's
  record comes before its entries'. At the end the stack is empty, and by
  `RootAssumption` the paths written, closed under entries, are all paths;
* `Known`, `NumbersBegin`, `Framed`: a unit of numbers begins a whole record, behind a
  record are as many bytes as it says and then the next record, except for the
  `Pending` bytes of the file in hand. Each holds until the failures it names;
* `Buffered`, `Contents`: the bytes are the file's, as long as no write was short;
* `Read`, `AtRecord`, `Blamed`, `Target` for `unpack`: it stands at a record or at a known
  distance from the next one, has made what it has read, and ends badly only with a
  cause; a file has its bytes up to `roff`, and behind its length what the target had.

A short write breaks only `Buffered` and `Contents`, which is why `ShortKeepsFraming`
holds. Records never overlap (`Apart`), so the finish record, the last one, is read after
all others (`AllRead`). `pack`'s steps leave the part of `unpack` alone and the reverse (`Waits`,
`PackSideKept`); what an appended record, a broken piece of one, or data does to each
conjunct is a lemma of its own.

`ReaderProofs` proves `TypeOK`, `WildReadCause` and `NullAfterLastOption` of `Cli` for lines
of any length. That no option is ever recognised is `NamesNothing`: `hasNext` is false at the
beginning of a text, so white space is not skipped and the first character is not
looked at. `Collected` is the list loop: behind the last option, what it has taken is
what stands between that option and `argv_`.

The rest of `ReaderProofs` proves `ParseTypeOK`, `OnlyEscapesBreakIt`, `NumbersAreWholeLines`
and `BreaksAreInKeys` of `ConfigText` for texts of any length. `ParseInv` carries them
from member to member: keys lie within the text (`MembersOK`), a value is read where the
key of the last member ends (`AtValue`), what has been read has skipped no line end
(`BreaksSoFar`), and a parse that is done stands at the end. Under it lies what the
methods of `CharStream` return. `SkipAll` is a `CHOOSE` and `KeyEnd` a recursive function
of positions, and the prover has no induction to offer; `Least` does without: if some
position refuted a claim there would be a first, or a last, one. So `FollowsExists` (the
recursion of `KeyEnd` defines a function), `KeyEndIs` (where a key ends, and behind which
characters), `LineEndSkips` and `KindIsHonest` are proved for every text.

Five theorems say that no loop goes on for ever, as far as that can be said without
fairness: a natural number falls with each step. `ParseShrinks` weighs the characters
left against the depth of the recursion, `UnpackShrinks` the units of the archive,
`CallsShrink` the bytes left to read and to write, the calls to come, and the
interruptions still allowed, `ExtractShrinks` the entries of the image. `CreateShrinks`
counts the paths and directories left; there a step may also read on in a file
(`ReadsOn`), for the container can append to it meanwhile. The last two are the only
theorems with an assumption of their own: finitely many paths.

Model-checked only: that the steps are taken, and so all liveness (`ShellExitPropagates`,
`CallsEnd`, `UnpackEnds`, `ImageEnds`, `ParseEnds`, `LimitEndsIt`, `ChildEndPropagates`)
and the fairness of `Launch` (the rest of `ImplementsLaunch`); these need liveness and
`ENABLED`, beyond the prover.

## 5. Not modelled

* **Handlers of the command line**: only `processNoneSubCommand` is defined.
  `findOptConfig(const char*)` and `getOptArgs` have no callers.
* **cgroup subsystems, exceptions**: no state. **genUUID**: formatting.
* **mountVolume, umountVolume, umountAUFS**: no callers.
* **`parse(const char*)` and `parse(std::string)`**: call themselves for ever.
* **Values of a configuration, `parse_array`**: no definitions of the containers; the
  array branch cannot be reached.
* **Namespace demos**: one clone or unshare, one exec, one `waitpid`.
* **Contents of the container's file system, permissions, user ids, devices**: no
  property tells them apart. **The kernel and libarchive** are modelled as far as the
  code relies on them, and marked external.

## 6. Plan

Done, in this order: `Container` with `Launch` (the system's purpose, and its only
real concurrency), its proofs, `FileCopy` and its proofs, `Pack`, `ImageTar`,
`ConfigText`, `CgroupPath`, `MemoryLimit`, `PivotDemo`, `Cli`; reruns and used targets
in `Pack`, the contents of mountinfo in `CgroupPath`; the proofs of the other
concurrent modules, of `ImageTar`, `Cli` and `Pack`; the step simulation of `Launch`;
`Copy` and the proof that `FileCopy` implements it; the proofs of `ConfigText`; that the
loops of `copy`, `unpack`, `create`, `extract` and `parse_doc` get on with every step.

Left to model: an abstract archive for `Pack` (a set of paths with their bytes, of which
`unpack` restores what `pack` has put in).
