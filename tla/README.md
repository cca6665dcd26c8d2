# Verification of replican-sync

replican-sync synchronises a destination file or directory with a source by an
rsync-like algorithm: both are indexed into trees of checksums, the indexes are
compared, a plan of commands is made, and the plan is executed on the
destination. This directory has a TLA+ model of that program, TLC configurations
that check it on small stores, and proofs that TLAPS checks for stores of any
size.

Paths below are relative to `src/replican` unless they begin with `rp/`.

## The system

| Part | Source | State | Operations |
|---|---|---|---|
| Planner and executor | `sync/patch.go` | `PatchPlan.Cmds`, `dstFileUnmatch`, `relocRefs`; open handles of a `LocalTemp`; the destination's files | `NewPatchPlan`, `appendFilePlan`, `Exec` of each command, `Cleanup`, `Clean`, `SetMode` |
| Block matching | `sync/match.go` | window, offset, list of matches | `MatchFile`, `NotMatched` |
| Local store | `fs/store.go` | root path, `relocs`, the index | `NewLocalStore`, `Resolve`, `Relocate`, `ReadInto`, `ReadBlock` |
| Path utilities | `fs/util.go` | the stack of the walk | `Move`, `PostOrderWalk` |
| Index model | `fs/node.go` | – | `Walk`, `RelPath`, `CalcStrong`, `Lookup` |
| Repositories | `fs/repo.go`, `fs/sqlite3/dbrepo.go` | maps, or tables, of blocks, files and directories by checksum | `AddDir`, `AddFile`, `AddBlock`, `UpdateStrong`, look-ups |
| Indexer | `fs/index.go` | `dirMap`, root, the channels `control`, `errorChan` and `dirChan` | `VisitDir`, `VisitFile`, `Index`, `IndexDir`, `IndexFile` |
| Weak checksum | `fs/index.go` | the sums a and b | `Write`, `Roll`, `Get` |
| `rp` | `rp/main.go` | two temporary databases | one synchronisation |
| `trainwreck`, `treegen`, tests | | – | tools for the tests |

How they interact: `NewLocalStore` runs the indexer over a root, which fills a
repository. `NewPatchPlan` walks the destination's index and then the source's;
for every node of the source it looks up the strong checksum in the
destination's repository, and for files that are there but differ it runs
`MatchFile`, which looks up weak checksums in the source's repository.
`PatchPlan.Exec` runs the commands, which resolve paths in the destination store
when they run, change its tree, and read the source store. `Clean` and `SetMode`
are calls the application may make afterwards. Everything but the indexer is
sequential; what is shared between steps is the tree, the map `relocs`, and the
map of reference counts. The indexer runs up to three goroutines, which share
the repository and two channels.

What is hard here:

* The plan is made of a destination that its own commands then change. Which
  command may run before which other one is nowhere stated.
* A file may be the source of several transfers and a keep; a shared counter
  decides which transfer moves and which ones copy.
* Paths are resolved when a command runs, through relocations that earlier
  commands made, and that outlive what they lead to.
* A command that fails stops the patch half-way, and helpers that fail have
  changed something before (`Move` removes, `copy` truncates, `MkdirAll` creates).
* The process may end between two system calls; the user runs it again on what
  is left, temporary files included.
* Which of several equal nodes a look-up finds depends on the repository, and on
  how `UpdateStrong` moved directories from key to key.
* Offsets in two files, a short last block, and a window that rolls by bytes with
  a checksum that is rolled along.
* Errors of the indexer go through a channel of one place while the result goes
  through another, and the first has to be closed in between.

Correct means, part by part: the plan makes every file of the source exactly
once; a count equals the uses that are left; nothing is destroyed that a later
command or a keep needs; nothing is touched that the plan does not name; block
matches are disjoint; temporary and relocated files do not stay behind; a
patch ends; and a patch that ends well has made the trees equal. A crash loses
neither a file's old nor its new contents. The scan finds the blocks that are
there. The index has every readable entry at its place with the right checksum,
every unreadable one is reported, and indexing returns.

## The model

| Module | Models | Extends |
|---|---|---|
| `FileSystem` | the calls of package `os`: external; a tree is a function from paths to `Dir` or bytes | – |
| `LocalStore` | `fs/store.go`, `Move`, and the file helpers of `sync/patch.go`, as operators on a tree | `FileSystem` |
| `NodeRepo` | `fs/node.go`, and what look-ups return in a filled repository, computed from the tree | `LocalStore` |
| `Patch` | `sync/patch.go`, `sync/match.go`: the state machine of a patch | `NodeRepo` |
| `PatchModes` | `PatchPlan.SetMode` after a patch | `Patch` |
| `CrashPatch` | a patch that may be cut off between any two calls, and run again | `Patch` |
| `Rp` | `rp/main.go` around a patch | `Patch` |
| `MatchScan` | `MatchFile` read by read with the rolling checksum; refines the scan of `Patch` | `LocalStore` |
| `Nodes`, `MemRepo`, `DbRepo` | the repositories as they are filled: nodes with parents, keys that move, rows | `NodeRepo`, `Nodes` |
| `Indexer` | `fs/index.go`: the walk, `Index`, `IndexDir`, and `reindex`, with their goroutines and channels, on either repository | `MemRepo`, `DbRepo` |
| `IndexSpec` | what indexing promises, for `Indexer` to implement | `FileSystem` |
| `MoveSteps` | `Move` call by call, across file systems too | `LocalStore` |
| `PostOrder` | `PostOrderWalk` | `FileSystem` |
| `MC...` | small instances for TLC | |
| `StoreProofs` | lemmas on the operators of `FileSystem` and `LocalStore` | `LocalStore` |
| `PatchProofs` | theorems on a patch: its types, the counts, the plan and the matches, and what the execution leaves alone | `Patch`, `StoreProofs` |
| `SyncProofs` | theorems on what a patch brings about, `SetMode` after it and `rp` around it | `PatchProofs`, `PatchModes`, `Rp` |
| `CrashProofs` | theorems on a patch that is cut off and run again | `SyncProofs`, `CrashPatch` |
| `IndexerProofs`, `MoveProofs`, `PostOrderProofs`, `ScanProofs` | theorems on the module of that name | `Indexer`, `MoveSteps`, `PostOrder`, `MatchScan` |

### A patch

The state of `Patch`:

| Variable | In the code |
|---|---|
| `world` | the two trees as they were indexed, their roots, and the kind of repository; constant |
| `dst` | the destination's files |
| `relocs` | `localBase.relocs` of the destination store |
| `pc` | where the program is: `plan` (the walk), `match` (`MatchFile`), `ranges` (`NotMatched`), `exec`, `done`, `failed`, `clean` |
| `todo` | the nodes the walk of the source has not reached |
| `unmatched` | `PatchPlan.dstFileUnmatch` |
| `refs` | `relocRefs` |
| `cmds`, `next` | `PatchPlan.Cmds`, and the command `Exec` takes next |
| `scan` | the locals of `MatchFile` and `NotMatched` |
| `temp` | what the handles of the last `LocalTemp` refer to: the contents of the local file, the path of the temporary one |

An action is one call of the visitor (`PlanMatched`, `PlanFileConflict`,
`PlanDownload`, `PlanFile`, `PlanDir`: one per branch of patch.go:355-407), one
turn of a loop (`MatchBlock`, `MatchRoll`, `MatchDone`, `PlanRange`,
`PlanFileDone`), one command (`Exec...`, each with all file system calls of its
method, in order, and what a failing one leaves behind), the `Cleanup` of all
conflicts (`ExecDone`), or one removal of `Clean`.

`PatchModes` adds one action for the call of `SetMode` and one for each node it
visits. A mode is known by the source node that has it, so that `modes` tells
which destination paths were given whose mode; an error is a node whose path
resolves to nothing.

`CrashPatch` cuts the commands of `Patch` open: `Stages` is the set of trees
between the system calls of the command that is next (any prefix of a copy, the
moment between removing and renaming, the relocated name that was created to be
free). `Crash` ends the process in one of them. `RunAgain` starts a new process
after an end, good or bad or by a crash, if the root of the destination is there:
the moment between removing a single file and renaming is a crash too, after which
nothing can be run. What is left is the new destination: it is indexed again,
temporary and relocated files included, and all that was in memory is lost. A failure that leaves a trace is an outcome of the
command's own action in `Patch`.

`Rp` puts `main` around it: what kinds of things are at the two paths, the two
databases, the stores, the patch, and the exit status.

`MatchScan` replaces `Window` and `Weak` of `Patch`, which are functions of the
file, by what the code carries along: the bytes read, the window, and the sums a
and b, as integers that wrap.

### Indexing

`Indexer` has a variable for each thing the goroutines share (the repository,
`dirMap`, `root`, the two channels and whether the one is closed) and for where
each goroutine is: `walker` (in `filepath.Walk`), `index` (`Index`, and the
function in `IndexDir` that calls it), `caller` (`IndexDir`). A step of the
walker is one entry with all that the visitor does for it; sending an error is a
step of its own, which waits for room. `close(control)` is `walker = "done"`. With
`in.listens` FALSE it is `reindex`, which has no error channel and calls `Index`
itself. `UpdateStrong` is one step per directory, in the order of its recursion.
In a `MemRepo` a directory has a placeholder key until then, and moves from key
to key; in a `DbRepo` its row is updated.

A repository is a record of sequences, in which a node is known by its place; a
path is what the parents make of it (`DirPath`, `FilePath`), as in `RelPath`.

### Utilities

`MoveSteps` has one action per system call of `Move`, `Fail` for a call that
returns an error, and `Crash`. It is given any two paths: there may be nothing at
the first, one may be below the other, and they may be the same, since a
`LocalFileStore` resolves the two paths of a Transfer to its one file
(store.go:144). `PostOrder` has one action per turn of the loop;
a stack entry has the path, and separately the path whose `FileInfo` it points
to, because the code takes the address of a loop variable.

### Names and assumptions

Decided once for all modules:

* A path is a sequence of names below the modelled top directory, which is the
  root of a `LocalDirStore`. The root of a `LocalFileStore` is the path of its
  file. `Indexer` uses the textual path of the root as well, since `VisitDir`
  finds parents by it; the root is one with a name.
* `Dir` marks a directory in a tree; an operation returns `[ok, tree]`, the tree
  on failure too.
* A definition under "Faulty variant" is no part of the model. It is the
  definition after it with one plausible mistake, and shows that the property
  listed with it in `PROJECT.json` notices that mistake.

Assumptions, each of which an `ASSUME` or a comment in the module names:

* SHA-1 is injective; two checksums are equal when what they sum is. The empty
  file and the empty directory both sum nothing, and are equal.
* In `Patch` the weak checksum is any function of a block's bytes (`Weak`). The
  runs take the parity of the sum of the bytes, so that different blocks collide.
  `MatchScan` has the sums themselves, and any function of them for `Get`.
* A store (`IsStore`) is a directory with finitely many entries, each in a directory of it.
  `ioutil.TempFile` invents names (`TempName`) that no source has, and that are free when
  it does. A destination of `Patch` has none either. In `CrashPatch` the destination of
  a later run may have some, which an earlier one left, and no more is assumed of it.
* The path of a store's root is written as `filepath.Join` writes it (clean, and not
  `.`). `RelPath` cuts the root's text off what `Join` has made (store.go:98-102,
  129-132); with a root like `./dst` there is nothing to cut, and the relocations
  have keys that `Resolve` never finds.
* The root of a store is the modelled top, or one of its files (`IsRoot`); a directory
  is synchronised with a directory and a file with a file, as `rp` sees to
  (rp/main.go:40). The worlds of `Rp` are directories with `DbRepo`s
  (`RpWorldsAssumption`).
* `Rank` stands for the alphabetical order of names (`RankAssumption`: a number for each,
  and another for each other name).
* Only the patch changes the destination and nothing changes the source; there
  are no I/O errors other than those that the trees cause (a file in the way, a
  missing file, an end of file), except in `MoveSteps`, where any call may fail,
  in `Rp`, where making a database may, and in `Indexer` and `PostOrder`, where
  entries may be unreadable. What is written before a crash is there after it.
* A path relative to a store's root leads nowhere from the directory the process
  runs in (`ExecConflictFails`).
* A SELECT without ORDER BY finds the row with the lowest number first.

## What is checked

| Run | Instances | Result |
|---|---|---|
| `patch_stores` | 3888 pairs of trees of two levels over two names or flat over three, with two contents; single files of up to 4 bytes, under the same and different names; directories of two files of one or two blocks; either repository; blocks of 2 bytes | passes; 125,702 states |
| `patch_crash` | single files and directories of blocks, the flat trees, and directories with a file or a directory in the way; two runs of the program | passes; 254,858 states |
| `match_scan` | sources of 1 to 3 and files of 0 to 5 bytes of three values; blocks of 3; integers of 2 bits | passes; 65,322 states |
| `index_dirs` | directories with up to two entries, each nothing, empty, one of three files, or with a subdirectory and a file or directory more; up to two unreadable entries; `IndexDir` on both repositories, `reindex` on both, with a filter | passes; 83,168 states |
| `move_steps` | a file or directory, something or nothing where it is to go, a missing parent; to itself, into itself, out of itself; a missing source; one file system and two | passes; 2,493 states |
| `post_order` | directories of three levels and up to seven entries, one of which cannot be opened | passes; 49,914 states |
| `rp_dirs` | the trees of two levels; each kind of thing at either path | passes; 27,589 states |
| `patch_order` | flat trees over three names: does a patch that succeeds make the trees equal? | violated |
| `patch_shift` | single files: the same | violated |
| `patch_conflict` | does a directory in the way of a file give way? | violated |
| `patch_self` | single files: is the file still there after a patch? | violated |

The properties of the passing runs.

`patch_stores`:

* `TypeOK`: types. That `dst` stays a tree under every command is not obvious:
  it needs that a temporary file is open whenever it is written.
* `RefsExact`: `refs[q]` is the number of commands that still need `q`.
* `LaterUsesSurvive` (an action property): a Transfer leaves its source alone
  while another command needs it. It is what the counts are for.
* `PlanCovers`: a complete plan makes each file of the source once, and leaves
  to `Clean` exactly the files the source has not got.
* `BystandersUntouched`: a file that the plan does not name, and that is in no
  transferred directory, is untouched at all times, through failures too.
* `KeptIntact`: a kept file has the source's contents until the end.
* `NoLitter`: a patch that succeeds leaves no temporary or relocated file of its own.
* `MatchesDisjoint`: recognised blocks are in order and do not overlap.
* `FitPlansSync`: a plan that is *fit to run* succeeds and makes the source's
  files. `FitToRun` is the condition on the list of commands that the planner
  ought to ensure and does not: only files are transferred, what a Transfer
  reads is not replaced before, and blocks are copied to where they came from.
  The violation runs `patch_order` and `patch_shift` show what happens without.
* `CleanMirrors`: `Clean` after such a plan leaves the source's files only.
* `FilesGetTheirModes`: `SetMode` after such a plan gives every file of the source
  its mode at the destination, and touches nothing else.
* `OnlyDirsFail`: the errors of `SetMode` are of directories that no command made,
  or that took the place of a relocated file.
* `Terminates`: planning and execution end.

`patch_crash`:

* `CrashKeepsOldOrNew`: wherever a fit patch is cut off, a file that is patched by
  blocks has the old or the new contents, or is missing while the temporary file
  beside it has the new ones. The order of `ReplaceWithTemp` does that.
* `CrashKeepsMatched`: contents that the source has, and a file in the destination's
  index had, are somewhere in the destination wherever a fit patch is cut off.
* `RerunMirrors`: the next run does what a first one does, and its `Clean` removes
  what the last one left.

`match_scan`: `ScansAsPatch` and `EndsAsPatch` say that the scan makes the steps of
`Patch` and stops where that does (a refinement, by `INSTANCE Patch`);
`RolledIsWritten` that the rolled checksum is the one written, whatever has
wrapped; `WindowInFile` that the window is the file's part and full but at the
end; `TypeOK`; `Ends`.

`index_dirs`:

* `KeepsPromise`: `Indexer` implements `IndexSpec` (INSTANCE with `index`,
  `reported` and `outcome` mapped): entries enter after their directories, each
  error is reported once, and at the return the index and the errors are complete.
* `ClosedAfterLastError`: nothing is sent on the closed error channel.
* `NoErrorLost`: an unreadable entry that was passed is about to be sent, in the
  channel, or collected, and only one of these.
* `Returns`: no goroutine waits for ever.
* `NodesInPlace`: the tree that the nodes and their parents make is the tree walked.
* `StrongsRight`: strong checksums are equal where `NodeRepo` says that nodes are.
* `LookupsByPath`, `LookupsAsPlanned`: `Root` and `Lookup` find every entry, and
  `File`, `Dir`, `WeakBlock` find the node that `NodeRepo` says, which `Patch`
  builds on: the last of equal ones in a `MemRepo`, although its keys move, and
  the first in a `DbRepo`. This ties the two halves of the model together.
* `TypeOK`: types.

`move_steps`:

* `SourceSafe`: wherever `Move` stops, what was to be moved is whole where it is to go,
  or where it was but for what was in the way. `Move` removes that before anything
  else, and where it is the source itself the source is lost (see `patch_self`).
* `RestUntouched`: nothing but what is at and below the two paths changes.
* `ReturnsTruth`: no error means that it is there and not here, an error that it is here,
  again but for what was in the way.
* `MovesAsPatch`: a move that succeeds has made the tree of `LocalStore!Move`, which is
  the one step that `Patch` takes for it: by a rename or a copy, and whether or not
  the removal before it succeeded.

`post_order`: `InPostOrder` (a directory after all that is below it, directories
before files, by name, each once) and `VisitsAll`.

`rp_dirs`: `OkMeansSynced` (status 0 for a source directory: the destination is one,
every command ran, and a fit plan made them equal without litter), `ExtrasStay` (files that the source has
nothing for stay however it ends), `Exits`.

`CHECK_DEADLOCK FALSE` is in every configuration since the programs really end.

Bounds. `MaxRuns` bounds how often the program is run in `CrashPatch`; the other
modules have no bounds in their guards: what they are given is finite and every
run of them ends. Two levels with two names have every combination of file,
directory with and without contents and nothing at a path, a directory moved with
a child, and a conflict of either kind; three files have a chain and a cycle of
moves, and a file used twice and kept. Four bytes and blocks of two have a full
and a short last block, two matches, a match of a shifted block, two equal
blocks, a block found in another file, and weak collisions. Three temporary names
are enough for the two conflicts and the one temporary file that can exist at
once, and for what a crash leaves. Two runs: what is left of one is the
destination of the next, whatever it is, and a third would be the second of
another pair. Integers of two bits wrap in both sums with bytes of up to 3.
Two unreadable entries fill the error channel and make the walker wait. Indexed
directories have equal subdirectories at different depths, whose keys collide
while they move.

Fairness. `WF_vars(Planner \/ Exec)` in `Patch`, and what corresponds to it in
`PatchModes` and `CrashPatch`: one goroutine runs the plan and the patch, straight
through, and waits for nothing. `Clean` and `SetMode` are not part of it, since
they are the application's to call, nor are a crash and another run. `Indexer` has
weak fairness for each of its goroutines: the Go scheduler runs what can run, and
who waits at a channel is not enabled. `MatchScan`, `PostOrder` and `Rp` are
single goroutines. `MoveSteps` has no fairness: nothing is claimed of it but safety.

## Where the code and its documents disagree

Four are violation runs, described under "findings" in `PROJECT.json` with the
line of the code and the sentence it contradicts. Met while modelling, and
modelled as they are unless noted:

* `Clean` after the patch of a single file of another name removes the file that
  was just made: its name is in `dstFileUnmatch`, and a `LocalFileStore` resolves
  every path to its one file (patch.go:505). `CleanMirrors` is of directories.
* `SetMode` resolves a directory that took a file's place to the file's removed
  relocation (patch.go:472, 488). `OnlyDirsFail` says so.
* The walk of the planner goes on below a directory that matched. Its Transfer moves
  the directory with all that is in it, and the children's Transfers then look for
  their files where they were (patch.go:409). Such a plan is not fit to run.
* A Transfer that copies creates its target before it reads its source: where that is a
  directory, which cannot be read, the patch fails and leaves an empty file
  (patch.go:89-96).
* Relocations are forgotten below a root that is not written as `filepath.Join` writes
  it (store.go:98-102). The model's roots are.
* Below a root written `.` nothing finds its parent (index.go:107). The root of
  `Indexer` has a name.
* `ReadBlock` takes the block's checksum for a file's, and returns nothing when
  reading succeeded (store.go:164-167). Nothing calls it.
* `PostOrderWalk` keeps the address of its loop variable, so that all entries of a
  directory have the last one's `FileInfo`: a file beside a directory is opened as
  one, reported, and visited with `VisitDir` (util.go:125).
* `rp` panics when it is given two files: `DbRepo.AddFile` wants a directory
  (dbrepo.go:247). Two files that cannot be read end with status 0, as the error
  is lost in an inner scope (store.go:91).
* `rp` compares the error of a missing destination with `EEXIST`, so that it never
  creates it (main.go:38), and leaves its databases behind, since `os.Exit` runs
  no deferred call (main.go:51, 66, 88).

## What is proved

All for arbitrary names, bytes, block sizes, weak checksums and stores of any
size, from named assumptions: `EntryAssumption` (a directory is not a file's
contents; zero is a byte), `TempNameAssumption` (temporary names are names),
`BlockSizeAssumption` (a positive number), `WorldsAssumption` and
`RpWorldsAssumption` (what a world is), `RankAssumption`, and what the inputs
of `Indexer`, `MoveSteps`, `MatchScan` and `PostOrder` are. TLC evaluates them in the runs.

**Operators** (`StoreProofs`). Every operation of `FileSystem` and `LocalStore`,
successful or not, turns a tree into a tree; when it succeeds; what is there
afterwards; and which paths it leaves alone. The hard ones are `MkdirAll`, and a
rename of a directory, whose paths are cut and joined.

**A patch**, in layers, each of which adds to the invariant of the one before:

* `PatchProofs!TypeCorrect`: `Spec => []TypeOK`. `TypeOK` is not inductive: a
  `SrcTempCopy` writes to `dst[temp.file]`, and that this is a file follows from
  the form of the list of commands. `IInv` adds
  `PlanInv` (every command on a temporary file comes right after one that leaves
  it open; while the ranges of a file are planned the list ends with such a one;
  commands that read the source name a file; nothing is executed while planning)
  and `TempInv` (after such a command the temporary file exists and holds
  bytes). `PatchProofs!Inductive` is `Spec => []IInv`; the proof has a lemma per
  action.
* `PatchProofs!RefsAlwaysExact`: the counts. Inductive with `IInv`: appending a
  Transfer or Keep adds one index to the set of uses of one node, taking a
  Transfer removes one, and nothing else changes the set. `RefsNeverUnderflow`
  follows: the error of patch.go:74 cannot occur.
* `PatchProofs!PlanAlwaysCovers`: one command for each file of the source, and
  `unmatched` exactly what the source has not got. `CoverInv` says it of the walk as
  it goes: the nodes that are still to be visited have no command, a visited file
  has one, save the file whose blocks are being matched, which may have none yet.
* `PatchProofs!MatchesAlwaysDisjoint`, with `BehindWindow`: the window is past every
  match, or at the end of the file. The second case is there since the last block
  may be short.
* `PatchProofs!NeverLitters`: `LitterInv` says which invented names exist while the
  list runs: those of relocated conflicts, and the temporary file that is open. It rests on
  `ShapeInv`, what the planner knew when it added each command (a Transfer's or Keep's
  node matches, a conflict is where it was looked for, no path has two conflicts, and what
  opens a temporary file is followed by a command that uses it), and on `RelocsInv`: a node is
  relocated by its Conflict only, to an invented name in the root directory.
* `PatchProofs!BystandersAlwaysUntouched` and `KeptAlwaysIntact`, by one invariant,
  `GuardInv`: a file that commands at most keep and copy, and that is in no directory
  that is transferred, is the same as before, up to a `Clean` of what the source has
  not got. Each command is shown to spare it, failures included, which is where the
  lemmas on operators come in; for a Transfer of the file itself it takes the exact counts.
* `PatchProofs!LaterUsesAlwaysSurvive`, from the same and the effect of a Transfer that is not the
  last: it copies, and its target is not its source. `PatchInvariant` is all of it,
  `Spec => []FullInv`.
* `SyncProofs!FitPlansAlwaysSync` and `CleanAlwaysMirrors`: the files of the destination become
  those of the source if the list is fit to run (`FitToRun`), and after `Clean` there are no
  others. `SyncInvariant` is `Spec => []SyncInv`, which adds two invariants to `FullInv`:
  * `ListInv`, of the planner. Commands come in the order of the walk, shorter paths first,
    those of one path from one that may begin its visit to one that may end it
    (`InSequence`). A directory that has to take the place of a file has a command for it
    (`Gives`). A download is for a path that was free. What a file's blocks and the gaps between
    them copy is the whole file (`Covered`): while the ranges are planned, all up to
    `scan.start`. A gap may be planned to reach the next block and not the end of the file,
    as `FetchTo` does; that no copy reaches past it follows only with `BlocksInPlace`.
  * `FitInv`, of the execution of a list that is fit to run. A file of the destination that
    no command has used up (`Spent`) is where `Located` says with its old contents; a file that a
    command has made has the source's; no two files that are still needed are relocated to one
    place; all that is in the destination has an origin (the stores, or an invented
    name), which is what leaves room for the next file and its directories; and the
    temporary file is as long as the source's file, and has its bytes wherever a command has
    copied to. Each command is shown to succeed and to preserve this.

  `FitToRun` is needed: the violation runs show what becomes of other lists. It is a property
  of the list and the two stores alone, so that it can be evaluated before `Exec`.

* `SyncProofs!ModesAlwaysRight` and `OnlyDirsEverFail`: `ModesInv` says of the nodes that
  `SetMode` has visited that it set the modes of those that are where it looks for them, and
  reported the others. With `SyncInv`, by which no invented name is left when the patch is
  done, what is there is where the source has it.

**rp** (the end of `SyncProofs`): `RpInvariant` carries `SyncInv` through the steps of `main`, each of
which is a step of the patch or leaves it alone. `ExtrasAlwaysStay` follows, and
`OkAlwaysMeansSynced`: status 0 for a source directory means that the destination is one,
that the patch is done, and that the files are the source's if the plan was fit to run; `MainInv`
says what `main` has checked when it gets there. `OkAlwaysMeansDone` is what it means
for any plan.

**Crashes** (`CrashProofs`). `CrashInvariant` is `CrashSpec => []CrashInv`: the invariant of
a patch holds in every run, however often it is run and whatever came before, and after a
crash what is left is a store if its top is a directory. Two things
make it so. Every tree between the calls of a command has all its entries in directories, and
differs from the one before in one path at most (`Touched`), so it is a store that can be
opened; and the invariant holds when a patch begins on any such store, leftovers included,
since what it says of invented names is about those of this run. Then

  * `RerunAlwaysMirrors` is the theorems on synchronising and `Clean`, of the later runs.
  * `CrashAlwaysKeepsOldOrNew`: by `FitInv` a file is old until its ReplaceWithTemp, the only
    command that touches it, and the source's after it; in between the temporary file is
    complete (`Written`), and in the file's directory.
  * `CrashAlwaysKeepsMatched`: the plan has a Transfer or a Keep for contents that both have
    (`MatchFound`). That rests on a look-up finding something where there is something: the
    store is finite, and the order in which nodes are added is total (`FoundOne`). While that
    command is to come, its file is where `Located` says and the command in between touches
    another (`ToBeMoved`); a move that is not finished has not touched what it moves; and
    what was made is not touched again (`MadeStays`).

**The indexer** (`IndexerProofs`). `IndexingInv` is the inductive invariant: which
combinations of walker, `Index` and `IndexDir` occur, what the two channels hold
in each, which entries the walk has passed, and that the repository's nodes are
those entries. From it: nothing is sent on the closed channel
(`NeverSendsOnClosed`), each error is in one place (`ErrorsAreKept`), types, and
`IndexerImplementsIndexSpec`, the refinement step by step, with
`ReturningKeepsPromise` for the promise's liveness in behaviours that return.
`Places` is the invariant on where the nodes are: each directory has one row, with
its entry's name and with the directory above it, whose row came before; no file has
two nodes; as many nodes as entries. From it `NodesAlwaysInPlace` and `LookupsFind`.
The paths of the nodes and the look-up are recursive functions: that there are such
functions follows from the entries' paths, which are one, and that there is
no other by induction over a set of numbers.
`InOrder`: rows are in the order of the walk, and so is what is still to come; `Summed`: the
checksum of a directory that `UpdateStrong` has come back from is what `CalcStrong` computes
now, and nothing below it waits. Then `ChecksumsMeanEquality`. The lines that `CalcStrong`
sums are in an order that their names give, since the rows are; so two sums are equal just if
the sets of lines are (`SameSums`), and those just if under every name both directories have
nothing, equal files, or directories with equal checksums (`SameLine`); from the last row up,
that is to have the same at every depth (`SameStrongs`).
`FilesKept` and `DirsKept` say what the maps of a `MemRepo` and the block table of a `DbRepo`
keep while nodes are added: of the nodes with one checksum the last, or all in their order.
`UpdateStrong` moves a directory to a key that may be taken, and the entry there is lost;
that is right only if the one that loses it was added before. A directory with the same
checksum that was added later would have to be below (`DoneInOrder`: the rest are done in
their order), and a directory below has another checksum, because no directory is nested in itself
(`NestedDiffer`). The order of the rows is that of the planner's model (`RowOrder`,
`BlockOrder`), and `LookupsAreAsPlanned` follows.

**Move** (`MoveProofs`). `MoveInv` has a conjunct per phase: what the move finds where it
reads and where it writes, that all it was to move but what was at the target is kept until
the last step, and that only a file which the move has made is ever written. `MoveIsSafe`,
`MoveTouchesNothingElse` and `MoveReturnsTruth` follow, for any two paths, every failing call
and every moment of a crash, on one file system and across two. `MoveRefinesPatch`: a move
that succeeds is the step of `LocalStore` that the theorems about a patch are about. It takes
that a rename replaces what is in the way just as removing it first does, and that a copy and
an unlink of a file leave the tree that its rename leaves.

**The walk** (`PostOrderProofs`). `PostInv`: an entry has been visited, once, or waits
for one node of the stack: for its own, or for that of a directory above it that has
not been expanded; and what is to come before a node waits for it or for one on top
of it. It rests on what `sort.Sort` makes of the entries, and on every entry having
a directory's `FileInfo` if any is a directory, so that no directory is visited
unexpanded. `WalkIsInPostOrder` follows, for every tree and whatever cannot be
opened, and `WalkLeavesNothingOut`: of `VisitsAll`, what remains is that the walk ends.

**The scan** (`ScanProofs`). `ScanInv`: the window is the file's last bytes read, and the
sums a and b are those of the window. `RollingIsWriting` is arithmetic modulo 2^w
of sums over sequences. Such sums are recursive functions, about which the
induction theorems cannot be used; the proofs do induction over a set of numbers
that has zero and every successor instead (`SetInduction`, of `StoreProofs`). `ScanImplementsPatchScan`
and `ScanEndsAsPatch` are the refinement of the scan in `Patch`.

What the proofs found in the model, all corrected: `IsMove`, `IsInput` and `IsWalk`
admitted trees with entries that are in no directory, in which a move loses
things; `CopyInto` looked at the tree before it made directories to see whether its
source is one; `IsWorld` admitted a root that is neither the top nor a file, and a
directory with a file; `IsTree` admitted infinite trees and `Rank` equal ranks, with which a
look-up finds nothing; `Rerun` a root that a crash had turned into something else;
`LocalTempStages` a temporary file beside nothing; and `CrashKeepsOldOrNew` took any temporary
file anywhere for the one that has the new contents. The runs had none of these among
their instances, or did not tell them apart.

Only model-checked, and why:

* Liveness, and the fairness in `KeepsPromise`: out of the prover's reach.
* `Exits`, and the violation runs.

## What is not modelled

* `Resize`: no code plans it. `ReadBlock`: it changes no state and nothing calls it.
* `AllMatch` and `AnyMatch` (index.go:47-68): combinations of filters; a filter is
  a set of files that are kept out. `rp`'s options.
* SQL errors, which `DbRepo` logs and ignores; a database that is opened again,
  which no code does.
* Changes to either tree by others while a patch is planned or executed.
* File handles that are not closed.
* `MatchFile` when opening or reading fails (match.go:45-55). The planner discards its
  error (patch.go:395, 416-419), so that there is no command for the file and `Exec`
  succeeds without it: `PlanCovers` and all that is said of synchronising is of files that
  can be read.
* `IndexFile` when a file changes while it is read.
* `trainwreck` (a search for collisions of the weak checksum), `treegen` (random
  trees for tests), the tests.

## Plan

Done: the modules above and their runs; the theorems above, which state every invariant and
action property that the passing runs check.
