------------------------------- MODULE Patch --------------------------------
(***************************************************************************)
(* sync/patch.go and sync/match.go: one synchronisation of a destination   *)
(* store with a source store.                                              *)
(*                                                                         *)
(* NewPatchPlan walks the index of the source and writes a list of         *)
(* commands; it only looks at the destination.  PatchPlan.Exec runs the    *)
(* commands in that order and stops at the first error.  PatchPlan.Clean   *)
(* removes the destination's files that the source has not got.            *)
(*                                                                         *)
(* An action is one visit of the planner's walk, one turn of a loop of the *)
(* block matching, one command, or one removal.  The source does not       *)
(* change, and nothing but the patch changes the destination.              *)
(***************************************************************************)
EXTENDS NodeRepo, FiniteSets

CONSTANT Worlds   \* the pairs of stores to synchronise

\* A LocalDirStore is the modelled top, a LocalFileStore one file.  The text of the root is a
\* clean path other than ".".
IsRoot(t, root) == root = <<>> \/ IsFile(t, root)

\* A world has the trees of both stores as they are opened (and indexed), their roots,
\* and the kind of NodeRepo both use.  A directory is synchronised with a directory, and a
\* file with a file (rp/main.go:40).  The source has no name that TempFile may invent; the
\* destination has those that a patch has left which did not end.
IsWorld(w) ==
  /\ IsStore(w.src) /\ IsRoot(w.src, w.srcRoot)
  /\ IsStore(w.dst) /\ IsRoot(w.dst, w.dstRoot)
  /\ w.srcRoot = <<>> <=> w.dstRoot = <<>>
  /\ ~TempNamed(w.dstRoot) /\ \A p \in DOMAIN w.src : ~TempNamed(p)
  /\ w.repo \in {"mem", "db"}

ASSUME WorldsAssumption == \A w \in Worlds : IsWorld(w)

VARIABLES
  world,       \* what is synchronised
  dst,         \* the destination's tree
  relocs,      \* localBase.relocs of the destination store
  pc,          \* the phase the program is in
  todo,        \* source nodes the planner's walk has still to visit
  unmatched,   \* PatchPlan.dstFileUnmatch
  refs,        \* relocRefs: uses of each destination node that are still to come
  cmds,        \* PatchPlan.Cmds
  scan,        \* the block match in progress: the locals of MatchFile and NotMatched
  next,        \* the command Exec takes next
  temp         \* what the last LocalTemp command opened

planVars == <<todo, unmatched, refs, cmds, scan>>
execVars == <<dst, relocs, next, temp>>
vars     == <<world, dst, relocs, pc, todo, unmatched, refs, cmds, scan, next, temp>>

src      == world.src
SrcNodes == Under(world.src, world.srcRoot)
DstNodes == Under(world.dst, world.dstRoot)

Located(p) == Resolve(world.dstRoot, relocs, p)

-----------------------------------------------------------------------------
(* Commands, in the order of their types in patch.go.                      *)

\* Faulty variant: the paths the wrong way round.
TransferSwapped(from, to) == [op |-> "Transfer", from |-> to, path |-> from]

Transfer(from, to) == [op |-> "Transfer", from |-> from, path |-> to]
Keep(p)            == [op |-> "Keep", path |-> p]

\* Whether the path of the conflict is absolute: Relocate wants it so.
Conflict(p, absolute) == [op |-> "Conflict", path |-> p, absolute |-> absolute]

LocalTemp(p, size) == [op |-> "LocalTemp", path |-> p, size |-> size]
ReplaceWithTemp(p) == [op |-> "ReplaceWithTemp", path |-> p]

LocalTempCopy(p, localOffset, tempOffset, length) ==
  [op |-> "LocalTempCopy", path |-> p, from |-> localOffset, to |-> tempOffset, length |-> length]

SrcTempCopy(p, srcOffset, tempOffset, length) ==
  [op |-> "SrcTempCopy", path |-> p, from |-> srcOffset, to |-> tempOffset, length |-> length]

SrcFileDownload(p) == [op |-> "SrcFileDownload", path |-> p]

-----------------------------------------------------------------------------
(* NewPatchPlan: a walk of the source.                                     *)

\* The stores are open, and nothing is planned.
Opened ==
  /\ dst = world.dst
  /\ relocs = <<>>
  /\ pc = "plan"
  /\ todo = SrcNodes
  /\ unmatched = {p \in DstNodes : IsFile(world.dst, p)}
  /\ refs = [p \in DstNodes |-> 0]
  /\ cmds = <<>>
  /\ scan = <<>>
  /\ next = 1
  /\ temp = <<>>

Init == world \in Worlds /\ Opened

\* Faulty variant: the visited path stays in dstFileUnmatch.
VisitKeepingUnmatched(p) ==
  /\ pc = "plan"
  /\ p \in todo
  /\ \A q \in todo \ {p} : WalkedBefore(src, p, q)
  /\ todo' = todo \ {p}
  /\ UNCHANGED <<world, unmatched, execVars>>

\* The walk comes to p: whatever becomes of it, the destination has its path.
Visit(p) ==
  /\ pc = "plan"
  /\ p \in todo
  /\ \A q \in todo \ {p} : WalkedBefore(src, p, q)
  /\ todo' = todo \ {p}
  /\ unmatched' = unmatched \ {p}
  /\ UNCHANGED <<world, execVars>>

Plan(more) ==
  /\ cmds' = cmds \o more
  /\ UNCHANGED <<pc, refs, scan>>

\* The destination node with p's strong checksum, if it is of p's kind.
Match(p) ==
  {q \in StrongMatch(world.repo, world.dst, world.dstRoot, src, p) :
     IsFile(src, p) = IsFile(world.dst, q)}

\* Faulty variant: a Keep is not counted as a use.
PlanMatchedUncounted(p) ==
  /\ Visit(p)
  /\ \E q \in Match(p) :
       /\ refs' = IF p = q THEN refs ELSE [refs EXCEPT ![q] = @ + 1]
       /\ cmds' = Append(cmds, IF p = q THEN Keep(p) ELSE Transfer(q, p))
  /\ UNCHANGED <<pc, scan>>

PlanMatched(p) ==
  /\ Visit(p)
  /\ \E q \in Match(p) :
       /\ refs' = [refs EXCEPT ![q] = @ + 1]
       /\ cmds' = Append(cmds, IF p = q THEN Keep(p) ELSE Transfer(q, p))
  /\ UNCHANGED <<pc, scan>>

\* Faulty variant: the switch without its fallthrough.
PlanFileConflictOnly(p) ==
  /\ Visit(p)
  /\ Match(p) = {}
  /\ IsFile(src, p) /\ IsDir(dst, Located(p))
  /\ Plan(<<Conflict(p, FALSE)>>)

\* There is a directory where the file has to go.
PlanFileConflict(p) ==
  /\ Visit(p)
  /\ Match(p) = {}
  /\ IsFile(src, p) /\ IsDir(dst, Located(p))
  /\ Plan(<<Conflict(p, FALSE), SrcFileDownload(p)>>)

PlanDownload(p) ==
  /\ Visit(p)
  /\ Match(p) = {}
  /\ IsFile(src, p) /\ ~Exists(dst, Located(p))
  /\ Plan(<<SrcFileDownload(p)>>)

\* There is a file to take blocks from: appendFilePlan calls MatchFile on it.  That MatchFile
\* cannot open or read the file is left out: its error would be discarded (patch.go:395), and
\* there would be no command for the file.
PlanFile(p) ==
  /\ Visit(p)
  /\ Match(p) = {}
  /\ IsFile(src, p) /\ IsFile(dst, Located(p))
  /\ pc' = "match"
  /\ scan' = [file |-> p, at |-> 0, matches |-> <<>>, start |-> 0, range |-> 1]
  /\ UNCHANGED <<refs, cmds>>

PlanDir(p) ==
  /\ Visit(p)
  /\ Match(p) = {}
  /\ IsDir(src, p)
  /\ Plan(IF IsFile(dst, Located(p)) THEN <<Conflict(p, TRUE)>> ELSE <<>>)

\* The plan is complete; Exec begins.
PlanDone ==
  /\ pc = "plan" /\ todo = {}
  /\ pc' = "exec"
  /\ UNCHANGED <<world, planVars, execVars>>

-----------------------------------------------------------------------------
(* MatchFile: a window of at most BlockSize bytes over the destination's   *)
(* file.  It steps over a block it recognises and rolls on by a byte       *)
(* otherwise.                                                              *)

Local  == dst[Located(scan.file)]
Window == Slice(Local, scan.at, BlockSize)

\* The block the index has for the window's weak checksum, if the strong one agrees.
WindowMatch ==
  {b \in WeakBlock(world.repo, src, world.srcRoot, Weak(Window)) : b.bytes = Window}

\* Faulty variant: the window rolls on after a match instead of stepping over the block.
MatchBlockRolling ==
  /\ pc = "match"
  /\ Window # <<>>
  /\ \E b \in WindowMatch :
       scan' = [scan EXCEPT !.matches = Append(@, [src |-> b.offset, dst |-> scan.at]),
                            !.at = @ + 1]
  /\ UNCHANGED <<world, pc, todo, unmatched, refs, cmds, execVars>>

MatchBlock ==
  /\ pc = "match"
  /\ Window # <<>>
  /\ \E b \in WindowMatch :
       scan' = [scan EXCEPT !.matches = Append(@, [src |-> b.offset, dst |-> scan.at]),
                            !.at = @ + Len(Window)]
  /\ UNCHANGED <<world, pc, todo, unmatched, refs, cmds, execVars>>

\* Faulty variant: the window never moves.
MatchRollStuck ==
  /\ pc = "match"
  /\ WindowMatch = {}
  /\ scan.at + BlockSize < Len(Local)
  /\ UNCHANGED vars

MatchRoll ==
  /\ pc = "match"
  /\ WindowMatch = {}
  /\ scan.at + BlockSize < Len(Local)
  /\ scan' = [scan EXCEPT !.at = @ + 1]
  /\ UNCHANGED <<world, pc, todo, unmatched, refs, cmds, execVars>>

\* The end of the file.  The first commands of the file's plan: a temporary file, and a
\* copy of every block that was recognised.
MatchDone ==
  /\ pc = "match"
  /\ \/ Window = <<>>
     \/ WindowMatch = {} /\ scan.at + BlockSize >= Len(Local)
  /\ LET file    == scan.file
         size    == Len(src[file])
         copy(m) == LocalTempCopy(file, m.src, m.dst,
                      IF size - m.src > BlockSize THEN BlockSize ELSE size - m.src)
     IN  cmds' = cmds \o <<LocalTemp(file, size)>>
                      \o [i \in DOMAIN scan.matches |-> copy(scan.matches[i])]
  /\ pc' = "ranges"
  /\ UNCHANGED <<world, todo, unmatched, refs, scan, execVars>>

\* NotMatched: what lies between the blocks comes from the source.
FetchTo(end) ==
  IF scan.start < end
  THEN <<SrcTempCopy(scan.file, scan.start, scan.start, end - scan.start)>>
  ELSE <<>>

PlanRange ==
  /\ pc = "ranges"
  /\ scan.range \in DOMAIN scan.matches
  /\ LET m == scan.matches[scan.range]
     IN  /\ cmds' = cmds \o FetchTo(m.dst)
         /\ scan' = [scan EXCEPT !.start = m.dst + BlockSize, !.range = @ + 1]
  /\ UNCHANGED <<world, pc, todo, unmatched, refs, execVars>>

PlanFileDone ==
  /\ pc = "ranges"
  /\ scan.range \notin DOMAIN scan.matches
  /\ cmds' = cmds \o FetchTo(Len(src[scan.file])) \o <<ReplaceWithTemp(scan.file)>>
  /\ scan' = <<>>
  /\ pc' = "plan"
  /\ UNCHANGED <<world, todo, unmatched, refs, execVars>>

-----------------------------------------------------------------------------
(* PatchPlan.Exec: one action per type of command.                         *)

\* Exec takes a command of this type.  next counts the commands taken.
Take(op) ==
  /\ pc = "exec"
  /\ next <= Len(cmds)
  /\ cmds[next].op = op
  /\ next' = next + 1
  /\ UNCHANGED <<world, todo, unmatched, cmds, scan>>

\* The command leaves the tree r.tree; an error ends the patch.
Finish(r) ==
  /\ dst' = r.tree
  /\ pc' = IF r.ok THEN "exec" ELSE "failed"

\* Faulty variant: every use moves the file.
ExecTransferMoving ==
  /\ Take("Transfer")
  /\ refs' = [refs EXCEPT ![cmds[next].from] = @ - 1]
  /\ Finish(MoveInto(dst, Located(cmds[next].from), Located(cmds[next].path)))
  /\ UNCHANGED <<relocs, temp>>

\* The last use of a destination file moves it, the uses before copy it.
ExecTransfer ==
  /\ Take("Transfer")
  /\ LET c    == cmds[next]
         left == refs[c.from] - 1
         from == Located(c.from)
         to   == Located(c.path)
     IN  /\ refs' = [refs EXCEPT ![c.from] = left]
         /\ Finish(IF left = 0 THEN MoveInto(dst, from, to)
                   ELSE IF left > 0 THEN CopyInto(dst, from, to)
                   ELSE Err(dst))
  /\ UNCHANGED <<relocs, temp>>

ExecKeep ==
  /\ Take("Keep")
  /\ UNCHANGED <<dst, pc, refs, relocs, temp>>

\* Faulty variant: the conflict is removed at once.
ExecConflictRemoving ==
  /\ Take("Conflict")
  /\ cmds[next].absolute /\ world.dstRoot = <<>>
  /\ Finish(OsRemove(dst, cmds[next].path))
  /\ UNCHANGED <<refs, relocs, temp>>

\* Relocate moves what is at the path to a new name in the root directory.  The store's root
\* is written as filepath.Join writes it, so that RelPath cuts it off (store.go:98-102): from
\* a root like "./dst" the keys of relocs would be paths that Resolve never asks for.
ExecConflict ==
  /\ Take("Conflict")
  /\ LET p == cmds[next].path
     IN  \E fresh \in FreshPaths(dst, <<>>) :
           LET r == Move(dst, p, fresh)
           IN  /\ cmds[next].absolute /\ world.dstRoot = <<>>
               /\ Finish(r)
               /\ relocs' = IF r.ok THEN Put(relocs, p, fresh) ELSE relocs
  /\ UNCHANGED <<refs, temp>>

\* Relocate fails: it takes a relative path to be relative to the process's working
\* directory, where there is no such file, or the root is a file and no directory.
ExecConflictFails ==
  /\ Take("Conflict")
  /\ ~cmds[next].absolute \/ world.dstRoot # <<>>
  /\ Finish(Err(dst))
  /\ UNCHANGED <<refs, relocs, temp>>

\* An open handle keeps the contents of the file it was opened on.
ExecLocalTemp ==
  /\ Take("LocalTemp")
  /\ LET c == cmds[next]
         p == Located(c.path)
     IN  IF ~Exists(dst, p)
         THEN Finish(Err(dst)) /\ UNCHANGED temp
         ELSE \E file \in FreshPaths(dst, ParentDir(p)) :
                /\ Finish(Ok(Put(dst, file, Zeros(c.size))))
                /\ temp' = [local |-> dst[p], file |-> file]
  /\ UNCHANGED <<refs, relocs>>

\* Copy c.length bytes of `contents` at c.from to the temporary file at c.to.  Bytes
\* that are not there are an error, after those that are have been written.
CopyToTemp(c, contents) ==
  LET bytes == IF c.length <= 0 THEN <<>> ELSE Slice(contents, c.from, c.length)
      t     == Put(dst, temp.file, WriteAt(dst[temp.file], c.to, bytes))
  IN  IF Len(bytes) < c.length THEN Err(t) ELSE Ok(t)

ExecLocalTempCopy ==
  /\ Take("LocalTempCopy")
  /\ Finish(IF temp.local = Dir THEN Err(dst) ELSE CopyToTemp(cmds[next], temp.local))
  /\ UNCHANGED <<refs, relocs, temp>>

ExecSrcTempCopy ==
  /\ Take("SrcTempCopy")
  /\ Finish(CopyToTemp(cmds[next], src[cmds[next].path]))
  /\ UNCHANGED <<refs, relocs, temp>>

ExecReplaceWithTemp ==
  /\ Take("ReplaceWithTemp")
  /\ LET p       == Located(cmds[next].path)
         removed == OsRemove(dst, p)
     IN  Finish(IF removed.ok THEN Move(removed.tree, temp.file, p) ELSE removed)
  /\ temp' = <<>>
  /\ UNCHANGED <<refs, relocs>>

ExecSrcFileDownload ==
  /\ Take("SrcFileDownload")
  /\ LET p == cmds[next].path
     IN  Finish(WriteFile(dst, Located(p), src[p]))
  /\ UNCHANGED <<refs, relocs, temp>>

\* Faulty variant: no Cleanup.
ExecDoneWithoutCleanup ==
  /\ pc = "exec"
  /\ next > Len(cmds)
  /\ pc' = "done"
  /\ UNCHANGED <<world, dst, relocs, next, temp, planVars>>

\* After the last command: Cleanup of the conflicts, each of which has its path in relocs.
ExecDone ==
  /\ pc = "exec"
  /\ next > Len(cmds)
  /\ dst' = Without(dst, UNION {Under(dst, relocs[p]) : p \in DOMAIN relocs})
  /\ pc' = "done"
  /\ UNCHANGED <<world, relocs, next, temp, planVars>>

-----------------------------------------------------------------------------
(* PatchPlan.Clean, in the random order of a map; errors are only reported. *)

Clean(p) ==
  /\ pc \in {"done", "clean"}
  /\ p \in unmatched
  /\ dst' = OsRemove(dst, Located(p)).tree
  /\ unmatched' = unmatched \ {p}
  /\ pc' = "clean"
  /\ UNCHANGED <<world, relocs, todo, refs, cmds, scan, next, temp>>

-----------------------------------------------------------------------------

Planner ==
  \/ \E p \in todo : \/ PlanMatched(p)
                     \/ PlanFileConflict(p)
                     \/ PlanDownload(p)
                     \/ PlanFile(p)
                     \/ PlanDir(p)
  \/ MatchBlock \/ MatchRoll \/ MatchDone
  \/ PlanRange \/ PlanFileDone
  \/ PlanDone

Exec ==
  \/ ExecTransfer \/ ExecKeep
  \/ ExecConflict \/ ExecConflictFails
  \/ ExecLocalTemp \/ ExecLocalTempCopy \/ ExecSrcTempCopy \/ ExecReplaceWithTemp
  \/ ExecSrcFileDownload
  \/ ExecDone

Next == Planner \/ Exec \/ \E p \in unmatched : Clean(p)

\* One goroutine runs the plan and the patch, and nothing they call waits for another.
\* Nothing obliges the program to call Clean.
Spec == Init /\ [][Next]_vars /\ WF_vars(Planner \/ Exec)

-----------------------------------------------------------------------------
(* Types.                                                                  *)

Command ==
  [op : {"Transfer"}, from : DstNodes, path : SrcNodes]
    \cup [op : {"Keep", "SrcFileDownload", "ReplaceWithTemp"}, path : SrcNodes]
    \cup [op : {"Conflict"}, path : SrcNodes, absolute : BOOLEAN]
    \cup [op : {"LocalTemp"}, path : SrcNodes, size : Nat]
    \cup [op : {"LocalTempCopy", "SrcTempCopy"}, path : SrcNodes,
          from : Nat, to : Nat, length : Int]

ScanState ==
  [file : SrcNodes, at : Nat, matches : Seq([src : Nat, dst : Nat]), start : Nat, range : Nat]

\* Every variable of the planner and of Exec keeps its type: in particular a command only
\* names nodes of the two indexes, and whatever Exec does to the destination leaves a tree.
TypeOK ==
  /\ IsWorld(world)
  /\ IsTree(dst)
  /\ DOMAIN relocs \subseteq SrcNodes /\ \A p \in DOMAIN relocs : relocs[p] \in Path
  /\ pc \in {"plan", "match", "ranges", "exec", "done", "failed", "clean"}
  /\ todo \subseteq SrcNodes /\ unmatched \subseteq DstNodes
  /\ refs \in [DstNodes -> Int]
  /\ cmds \in Seq(Command)
  /\ pc \in {"match", "ranges"} => scan \in ScanState
  /\ next \in 1..(Len(cmds) + 1)

-----------------------------------------------------------------------------
(* Reference counts.                                                       *)

\* The commands that need the destination's node q where it is: the transfers from it
\* that have not run, and a Keep of it, which needs it for good.
Uses(q) ==
  {i \in DOMAIN cmds : \/ cmds[i].op = "Transfer" /\ cmds[i].from = q /\ i >= next
                       \/ cmds[i].op = "Keep" /\ cmds[i].path = q}

\* relocRefs, which NewPatchPlan counts up and every Transfer counts down (patch.go:64,
\* 358), is at all times the number of commands that still need the node.
RefsExact == \A q \in DstNodes : refs[q] = Cardinality(Uses(q))

\* No Transfer meets the "reference count underflow" of patch.go:74.
NoUnderflow == \A q \in DstNodes : refs[q] >= 0

\* A Transfer leaves its source alone while another command, of the list's rest or a Keep,
\* still needs it (patch.go:67-72).
LaterUsesSurvive ==
  [][\A q \in DstNodes :
       LET at == Located(q)
       IN  /\ ExecTransfer /\ world.dstRoot = <<>>
           /\ cmds[next].from = q /\ Uses(q)' # {}
           => /\ Exists(dst, at) => Exists(dst', at)
              /\ IsFile(dst, at) => dst'[at] = dst[at]]_vars

-----------------------------------------------------------------------------
(* The plan.                                                               *)

Planned == pc \notin {"plan", "match", "ranges"}
SrcFiles == {p \in SrcNodes : IsFile(src, p)}

\* The complete plan makes each file of the source once, by one Transfer, Keep, download or
\* temporary file, and every destination file that it does not account for is left to
\* Clean (patch.go:304-331).
PlanCovers ==
  Planned =>
    /\ \A p \in SrcFiles :
         Cardinality({i \in DOMAIN cmds :
           cmds[i].path = p /\ cmds[i].op \in {"Transfer", "Keep", "SrcFileDownload", "LocalTemp"}})
         = 1
    /\ pc # "clean" => unmatched = {p \in DstNodes \ SrcNodes : IsFile(world.dst, p)}

\* The blocks MatchFile recognises do not overlap and come in the order of the file: what
\* NotMatched (match.go:125-140) takes for granted when it lists the gaps between them.
MatchesDisjoint ==
  pc \in {"match", "ranges"} =>
    \A i, j \in DOMAIN scan.matches :
      i < j => scan.matches[i].dst + BlockSize <= scan.matches[j].dst

-----------------------------------------------------------------------------
(* What a patch does to the destination.                                   *)

OpsOf(op) == {i \in DOMAIN cmds : cmds[i].op = op}

\* Below `top`, `top` included.
Within(p, top) == IsPrefix(top, p)

\* A file of the destination that no command of the plan names, and which is in no directory
\* that the plan transfers, is never touched: not by the directories that are made, not by
\* what Move removes before it renames (util.go:24-26), not by a patch that fails half-way.
BystandersUntouched ==
  Planned /\ pc # "clean" =>
    \A q \in DstNodes :
      \/ ~IsFile(world.dst, q)
      \/ world.dstRoot # <<>>
      \/ \E i \in DOMAIN cmds : cmds[i].path = q
      \/ \E i \in OpsOf("Transfer") : Within(q, cmds[i].from)
      \/ IsFile(dst, q) /\ dst[q] = world.dst[q]

\* A file that the plan keeps has the source's contents from then on, however many other
\* files are copied from it, unless the directory it is in is itself transferred.
KeptIntact ==
  Planned /\ world.dstRoot = <<>> =>
    \A i \in OpsOf("Keep") :
      LET p == cmds[i].path
      IN  \/ ~IsFile(src, p)
          \/ \E j \in OpsOf("Transfer") : IsStrictPrefix(cmds[j].from, p)
          \/ IsFile(dst, p) /\ dst[p] = src[p]

\* A patch that succeeds leaves no temporary file and no relocated conflict behind
\* (patch.go:472-474, 209), other than those of a patch before.
NoLitter ==
  pc \in {"done", "clean"} => \A p \in DOMAIN dst : TempNamed(p) => p \in DOMAIN world.dst

\* Every file of the source is in the destination.
Synced ==
  \A p \in SrcFiles :
    LET at == Resolve(world.dstRoot, <<>>, p)
    IN  IsFile(dst, at) /\ dst[at] = src[p]

(* When the list of commands is fit to run.  The planner does not look at  *)
(* what the commands before will have done when a command runs; these are  *)
(* the conditions under which that does no harm.                           *)

\* Only files are transferred, and not onto a directory.
TransfersFiles ==
  \A i \in OpsOf("Transfer") :
    /\ world.dstRoot = <<>>
    /\ IsFile(world.dst, cmds[i].from) /\ ~IsDir(world.dst, cmds[i].path)

\* What a Transfer reads has not been replaced before, nor does a command need it after.
SourcesInOrder ==
  \A i \in OpsOf("Transfer"), j \in DOMAIN cmds :
    cmds[j].path = cmds[i].from =>
      CASE cmds[j].op = "Keep"     -> TRUE
        [] cmds[j].op = "Transfer" -> i < j
        [] cmds[j].op = "Conflict" -> j < i
        [] OTHER                   -> FALSE

\* The only conflicts are files where a directory has to be.
ConflictsAreFiles ==
  \A i \in OpsOf("Conflict") : cmds[i].absolute /\ world.dstRoot = <<>>

\* A block is copied to where it came from, and is the source's block of that place.
BlocksInPlace ==
  \A i \in OpsOf("LocalTempCopy") :
    LET c     == cmds[i]
        local == world.dst[Resolve(world.dstRoot, <<>>, c.path)]
    IN  /\ c.from = c.to /\ c.length > 0
        /\ c.from + c.length <= Len(local)
        /\ Slice(local, c.from, c.length) = Slice(src[c.path], c.from, c.length)

FitToRun == TransfersFiles /\ SourcesInOrder /\ ConflictsAreFiles /\ BlocksInPlace

\* A plan that is fit to run runs to its end and makes the destination's files the source's
\* (patch_test.go:24 "Resulting patched file should be identical to the source file").
FitPlansSync ==
  Planned /\ FitToRun =>
    /\ pc # "failed"
    /\ pc = "done" => Synced

\* Clean then leaves the source's files and no other.  Of directories: a single file with
\* another name than the source's is in unmatched, and Clean removes it.
CleanMirrors ==
  pc = "clean" /\ unmatched = {} /\ FitToRun /\ world.dstRoot = <<>> =>
    Synced /\ Files(dst) = SrcFiles

(* What the tests and the comments say, and the code does not do.          *)

\* A patch that reports no error has made the two trees identical (patch_test.go:158
\* "Execute the patch plan and check both resulting trees are identical").
DonePatchesSync == pc = "done" => Synced

\* A directory in the way of a file is got rid of (patch.go:379 "Destination is not a file,
\* so get rid of whatever is there first").
ConflictsGiveWay == pc = "failed" => cmds[next - 1].op # "Conflict"

\* A patch, even one that fails, leaves a single file where it was, patched or not
\* (patch_test.go:25 "Resulting patched file should be identical to the source file").
SingleFileStays ==
  pc # "clean" /\ world.dstRoot # <<>> => Exists(dst, world.dstRoot)

\* Planning and execution end, in success or with an error.
Terminates == <>(pc \in {"done", "failed"})

=============================================================================
