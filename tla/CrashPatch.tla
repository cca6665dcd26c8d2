----------------------------- MODULE CrashPatch ------------------------------
(***************************************************************************)
(* A patch whose process may end between any two calls it makes, and which *)
(* the user runs again, then or after a failure or a success.  A new run   *)
(* opens the stores anew: it finds the destination as the last one left    *)
(* it, temporary and relocated files included, and knows nothing else.     *)
(***************************************************************************)
EXTENDS Patch

CONSTANT MaxRuns   \* how often the user runs the program

ASSUME MaxRunsAssumption == MaxRuns \in Nat \ {0}

VARIABLE runs   \* how often he has

crashVars == <<vars, runs>>

-----------------------------------------------------------------------------
(* The trees between the calls of one command, for a command that changes  *)
(* the tree more than once.                                                *)

\* os.Create, and a copy of which any part may have been written.
WriteStages(t, p, contents) ==
  LET made == MkParentDirs(t, p)
  IN  {made.tree}
        \cup IF OsCreate(made.tree, p).ok
             THEN {Put(made.tree, p, SubSeq(contents, 1, n)) : n \in 0..Len(contents)}
             ELSE {}

\* Move: what was in the way is gone, and what is to come has not come.
MoveStages(t, to) == {t, OsRemove(t, to).tree}

TransferStages(c) ==
  LET from == Located(c.from)
      to   == Located(c.path)
  IN  IF refs[c.from] = 1 THEN MoveStages(MkParentDirs(dst, to).tree, to)
      ELSE WriteStages(dst, to, IF IsFile(dst, from) THEN dst[from] ELSE <<>>)

\* Relocate first creates the file whose name it takes.
ConflictStages == {Put(dst, fresh, <<>>) : fresh \in FreshPaths(dst, <<>>)}

\* The temporary file is created before it gets its size.
LocalTempStages(p) ==
  IF Exists(dst, p) THEN {Put(dst, f, <<>>) : f \in FreshPaths(dst, ParentDir(p))} ELSE {}

TempCopyStages(c, contents) ==
  {CopyToTemp([c EXCEPT !.length = n], contents).tree : n \in 0..c.length}

\* Faulty variant: the temporary file is copied over the old one.
ReplaceStagesByCopy(c) == WriteStages(dst, Located(c.path), dst[temp.file])

\* The old file is removed before the temporary one is renamed.
ReplaceStages(c) == {OsRemove(dst, Located(c.path)).tree}

Stages ==
  LET c == cmds[next]
  IN  CASE c.op = "Transfer"        -> TransferStages(c)
        [] c.op = "Conflict"        -> ConflictStages
        [] c.op = "LocalTemp"       -> LocalTempStages(Located(c.path))
        [] c.op = "LocalTempCopy"   ->
             IF temp.local = Dir THEN {} ELSE TempCopyStages(c, temp.local)
        [] c.op = "SrcTempCopy"     -> TempCopyStages(c, src[c.path])
        [] c.op = "ReplaceWithTemp" -> ReplaceStages(c)
        [] c.op = "SrcFileDownload" -> WriteStages(dst, Located(c.path), src[c.path])
        [] OTHER                    -> {}

\* Cleanup has removed some of the conflicts.
CleanupStages ==
  {Without(dst, UNION {Under(dst, relocs[p]) : p \in S}) : S \in SUBSET DOMAIN relocs}

-----------------------------------------------------------------------------

\* Faulty variant: an index that was made before is used again.
FilesIndexedBefore(t) == {p \in DstNodes : IsFile(world.dst, p)}

\* dstFileUnmatch before planning: the files of the tree that the new process finds.
FilesIndexed(t) == {p \in Under(t, world.dstRoot) : IsFile(t, p)}

\* A new process opens the stores, if the destination's root is there and of its kind.
Rerun ==
  /\ runs < MaxRuns
  /\ runs' = runs + 1
  /\ IsDir(dst, <<>>) /\ IsRoot(dst, world.dstRoot)
  /\ world' = [world EXCEPT !.dst = dst]
  /\ relocs' = <<>> /\ cmds' = <<>> /\ scan' = <<>> /\ temp' = <<>>
  /\ pc' = "plan" /\ next' = 1
  /\ todo' = SrcNodes
  /\ unmatched' = FilesIndexed(dst)
  /\ refs' = [p \in Under(dst, world.dstRoot) |-> 0]
  /\ UNCHANGED dst

\* The process ends while Exec runs, between two commands or within one.  Only the tree
\* matters now.
Crash ==
  /\ pc = "exec"
  /\ dst' \in {dst} \cup IF next <= Len(cmds) THEN Stages ELSE CleanupStages
  /\ pc' = "crashed"
  /\ UNCHANGED <<world, relocs, todo, unmatched, refs, cmds, scan, next, temp, runs>>

\* The process has ended, and the program is run again.
RunAgain ==
  /\ pc \in {"done", "failed", "clean", "crashed"}
  /\ Rerun

CrashInit == Init /\ runs = 1

CrashNext ==
  \/ Next /\ UNCHANGED runs
  \/ Crash
  \/ RunAgain

\* Nothing obliges the process to crash, nor the user to run it again.
CrashSpec ==
  /\ CrashInit /\ [][CrashNext]_crashVars
  /\ WF_crashVars((Planner \/ Exec) /\ UNCHANGED runs)

-----------------------------------------------------------------------------

\* If the process ends while a plan that is fit to run is executed, a file that was being
\* patched by blocks has its old contents or its new ones, or it is not there and the
\* temporary file beside it has the new contents complete (patch.go:196-215).
CrashKeepsOldOrNew ==
  [][Crash /\ FitToRun =>
       \A i \in OpsOf("LocalTemp") :
         LET p  == cmds[i].path
             at == Resolve(world.dstRoot, <<>>, p)
         IN  IF Exists(dst', at) THEN dst'[at] \in {world.dst[at], src[p]}
             ELSE \E n \in TempName :
                    LET q == Append(ParentDir(at), n)
                    IN  IsFile(dst', q) /\ dst'[q] = src[p]]_crashVars

\* Contents that the source has and the destination had before the run are still somewhere
\* in the destination when a run of a fit plan ends half-way: the files that are moved, kept
\* and copied need not be fetched again (patch.go:67-72, util.go:23-28).
CrashKeepsMatched ==
  [][Crash /\ FitToRun =>
       \A p \in SrcFiles :
         (\E q \in DstNodes : IsFile(world.dst, q) /\ world.dst[q] = src[p])
           => \E q \in Files(dst') : dst'[q] = src[p]]_crashVars

\* What a crash, a failure or a success left does no harm to the next run: if its own plan
\* is fit, Clean then removes all litter with what the source has not got.
RerunMirrors == runs > 1 => FitPlansSync /\ CleanMirrors

=============================================================================
