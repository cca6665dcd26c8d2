---------------------------- MODULE CrashProofs ----------------------------
(***************************************************************************)
(* What a patch that ends between two calls leaves, and that another run   *)
(* is none the worse for it, whatever the stores.                          *)
(***************************************************************************)
EXTENDS SyncProofs, CrashPatch

\* Everything in a directory.
Sound(t) == IsTree(t) /\ InDirs(t)

\* Nothing but what is in S goes or changes.
Spares(t, u, S) == \A q \in DOMAIN t : q \notin S => SameAt(t, u, q)

-----------------------------------------------------------------------------
(* The trees between the calls of a command.                               *)

\* The root directory, or what is in a directory.
LEMMA InTheRoot ==
  ASSUME NEW t, Sound(t), NEW p \in DOMAIN t, NEW d, d = ParentDir(p), p = <<>> => IsDir(t, p)
  PROVE  d \in Path /\ IsDir(t, d)
<1>1. p \in Path
  BY DEF Sound, IsTree
<1>2. CASE p = <<>>
  <2>1. d = p
    BY <1>2 DEF ParentDir
  <2> QED BY <1>1, <1>2, <2>1
<1>3. CASE p # <<>>
  <2>1. d \in Path /\ IsPrefix(d, p) /\ d # p
    BY <1>1, <1>3, PrefixPath, ParentFacts DEF IsStrictPrefix
  <2> QED BY <2>1, InDirsAbove DEF Sound
<1> QED BY <1>2, <1>3

\* A new file in a directory.
LEMMA FreshFile ==
  ASSUME NEW t, Sound(t), NEW d \in Path, IsDir(t, d), NEW f \in FreshPaths(t, d),
         NEW e \in Seq(Byte), NEW u, u = Put(t, f, e)
  PROVE  Sound(u) /\ Spares(t, u, {}) /\ f \in Path /\ f \notin DOMAIN t
<1>1. PICK n \in TempName : f = Append(d, n)
  BY DEF FreshPaths
<1>2. f \in Path /\ f \notin DOMAIN t /\ f # <<>> /\ ParentDir(f) = d
  BY <1>1, InventedName DEF FreshPaths, Exists
<1>3. ~IsDir(t, f) /\ e \in Entry
  BY <1>2 DEF IsDir, Exists, Entry
<1>4. IsTree(u) /\ InDirs(u) /\ \A q \in DOMAIN t : q # f => SameAt(t, u, q)
  BY <1>2, <1>3, PutDirs DEF Sound
<1> QED BY <1>2, <1>4 DEF Sound, Spares

\* A file is being written.
LEMMA WriteStagesKnown ==
  ASSUME NEW t, Sound(t), NEW p \in Path, NEW e \in Seq(Byte), NEW u \in WriteStages(t, p, e)
  PROVE  Sound(u) /\ Spares(t, u, {p})
<1> DEFINE m == OsMkdirAll(t, ParentDir(p)).tree
<1>1. Sound(m) /\ \A q \in DOMAIN t : SameAt(t, m, q)
  BY MadeAbove DEF Sound
<1>2. \/ u = m
      \/ OsCreate(m, p).ok /\ \E n \in 0..Len(e) : u = Put(m, p, SubSeq(e, 1, n))
  BY DEF WriteStages, MkParentDirs
<1> HIDE DEF m
<1>3. CASE u = m
  BY <1>1, <1>3 DEF Spares
<1>4. ASSUME OsCreate(m, p).ok, NEW n \in 0..Len(e), u = Put(m, p, SubSeq(e, 1, n))
      PROVE  Sound(u) /\ Spares(t, u, {p})
  <2>1. IsDir(m, ParentDir(p)) /\ ~IsDir(m, p)
    BY <1>1, <1>4, CreateFacts DEF Sound
  <2>2. p # <<>>
    <3>1. p = <<>> => ParentDir(p) = p
      BY DEF ParentDir
    <3> QED BY <2>1, <3>1
  <2> DEFINE b == SubSeq(e, 1, n)
  <2>3. b \in Entry
    <3>1. Len(e) \in Nat /\ DOMAIN e = 1..Len(e) /\ \A i \in 1..Len(e) : e[i] \in Byte
      BY LenProperties, ElementOfSeq
    <3>2. b \in Seq(Byte)
      BY <3>1, SubSeqProperties
    <3> QED BY <3>2 DEF Entry
  <2> HIDE DEF b
  <2>4. u = Put(m, p, b)
    BY <1>4 DEF b
  <2>5. Sound(u) /\ \A q \in DOMAIN m : q # p => SameAt(m, u, q)
    BY <1>1, <2>1, <2>2, <2>3, <2>4, PutDirs DEF Sound
  <2>6. \A q \in DOMAIN t : q # p => SameAt(t, u, q)
    BY <1>1, <2>5 DEF SameAt
  <2> QED BY <2>5, <2>6 DEF Spares
<1> QED BY <1>2, <1>3, <1>4

\* The temporary file is being written.
LEMMA TempStagesKnown ==
  ASSUME Sound(dst), temp.file \in DOMAIN dst, dst[temp.file] \in Seq(Byte),
         NEW op \in Copies, At(op), NEW c \in Command, c.op = op,
         NEW contents \in Seq(Byte), NEW u \in TempCopyStages(c, contents)
  PROVE  Sound(u) /\ Spares(dst, u, {temp.file})
<1>1. PICK n \in 0..c.length : u = CopyToTemp([c EXCEPT !.length = n], contents).tree
  BY DEF TempCopyStages
<1> DEFINE d == [c EXCEPT !.length = n]
<1>2. c.from \in Nat /\ c.to \in Nat /\ c.length \in Int
  BY CommandFields DEF Copies
<1>3. d.from = c.from /\ d.to = c.to /\ d.length \in Int
  BY <1>2 DEF Command, Copies
<1> HIDE DEF d
<1> DEFINE bytes == IF d.length <= 0 THEN <<>> ELSE Slice(contents, d.from, d.length)
           after == WriteAt(dst[temp.file], d.to, bytes)
<1>4. bytes \in Seq(Byte)
  BY <1>2, <1>3, SliceType, EmptySeq
<1>5. u = Put(dst, temp.file, after)
  BY <1>1 DEF CopyToTemp, Ok, Err, d
<1> HIDE DEF bytes
<1>6. after \in Entry
  BY <1>2, <1>3, <1>4, WriteAtType DEF Entry
<1> HIDE DEF after
<1>7. temp.file \in Path /\ ~IsDir(dst, temp.file)
  BY EntryAssumption DEF Sound, IsTree, IsDir
<1> QED BY <1>5, <1>6, <1>7, PutDirs DEF Sound, Spares

\* What a command may have touched when it is not finished.
Touched ==
  LET c == cmds[next]
  IN  IF c.op \in Changers THEN {Located(c.path)}
      ELSE IF c.op \in Copies THEN {temp.file}
      ELSE {}

\* A command that is not finished leaves everything in a directory, and touches one file.
LEMMA StagesKnown ==
  ASSUME FullInv, pc = "exec", next <= Len(cmds), NEW u \in Stages,
         IsDir(u, <<>>) \/ IsDir(dst, <<>>)
  PROVE  Sound(u) /\ Spares(dst, u, Touched)
<1> DEFINE c  == cmds[next]
           op == c.op
           p  == Located(c.path)
<1>1. IInv /\ ShapeInv /\ LitterInv /\ Sound(dst) /\ IsWorld(world) /\ At(op)
  BY DEF FullInv, IInv, TypeOK, LitterInv, Sound, At
<1>2. c \in Command /\ p \in Path /\ c.path \in SrcNodes /\ next \in DOMAIN cmds
  <2>1. cmds \in Seq(Command)
    BY <1>1 DEF IInv, TypeOK
  <2> QED BY <1>1, <2>1, AtFacts, LenProperties
<1>3. \A q \in DOMAIN dst : SameAt(dst, dst, q)
  BY DEF SameAt
<1>4. ASSUME op = "Transfer"  PROVE Sound(u) /\ Spares(dst, u, {p})
  <2> DEFINE from == Located(c.from)
             m    == MkParentDirs(dst, p).tree
             e    == IF IsFile(dst, from) THEN dst[from] ELSE <<>>
  <2>1. u \in TransferStages(c)
    BY <1>4 DEF Stages
  <2>2. CASE u \in MoveStages(m, p)
    <3>1. Sound(m) /\ \A q \in DOMAIN dst : SameAt(dst, m, q)
      BY <1>1, <1>2, MadeAbove DEF Sound, MkParentDirs
    <3> HIDE DEF m, p
    <3>2. u = m \/ u = OsRemove(m, p).tree
      BY <2>2 DEF MoveStages
    <3>3. Sound(u) /\ \A q \in DOMAIN m : q # p => SameAt(m, u, q)
      BY <1>2, <3>1, <3>2, RemoveFacts DEF Sound, SameAt
    <3>4. \A q \in DOMAIN dst : q # p => SameAt(dst, u, q)
      BY <3>1, <3>3 DEF SameAt
    <3> QED BY <3>3, <3>4 DEF Spares
  <2>3. CASE u \in WriteStages(dst, p, e)
    <3>1. e \in Seq(Byte)
      BY <1>1, EmptySeq, FileBytes DEF Sound
    <3> HIDE DEF e, p
    <3> QED BY <1>1, <1>2, <2>3, <3>1, WriteStagesKnown
  <2> QED BY <2>1, <2>2, <2>3 DEF TransferStages
<1>5. ASSUME op = "Conflict"  PROVE Sound(u) /\ Spares(dst, u, {})
  <2>1. PICK f \in FreshPaths(dst, <<>>) : u = Put(dst, f, <<>>)
    BY <1>5 DEF Stages, ConflictStages
  <2> DEFINE top == <<>>
  <2>2. top \in Path /\ top \in Seq(Byte)
    BY EmptySeq DEF Path
  <2>3. f # <<>>
    BY <2>1, EmptySeq, InventedName DEF FreshPaths, Path
  <2>4. IsDir(dst, top)
    BY <2>1, <2>3 DEF Put, IsDir, Exists
  <2> HIDE DEF top
  <2> QED BY <1>1, <2>1, <2>2, <2>4, FreshFile DEF top
<1>6. ASSUME op = "LocalTemp"  PROVE Sound(u) /\ Spares(dst, u, {})
  <2>1. Exists(dst, p) /\ \E f \in FreshPaths(dst, ParentDir(p)) : u = Put(dst, f, <<>>)
    BY <1>6 DEF Stages, LocalTempStages
  <2>2. PICK f \in FreshPaths(dst, ParentDir(p)) : u = Put(dst, f, <<>>)
    BY <2>1
  <2> DEFINE d == ParentDir(p)
             e == <<>>
  <2>3. d \in Path /\ e \in Seq(Byte) /\ f # <<>>
    BY <1>2, PrefixPath, EmptySeq, InventedName DEF FreshPaths
  <2>4. p = <<>> => IsDir(dst, p)
    BY <2>2, <2>3 DEF Put, IsDir, Exists
  <2>5. IsDir(dst, d)
    <3> HIDE DEF p
    <3> QED BY <1>1, <2>1, <2>4, InTheRoot DEF Exists
  <2> HIDE DEF d, e
  <2> QED BY <1>1, <2>2, <2>3, <2>5, FreshFile DEF d, e
<1>7. ASSUME op \in Copies  PROVE Sound(u) /\ Spares(dst, u, {temp.file})
  <2>1. /\ temp.file \in DOMAIN dst /\ dst[temp.file] \in Seq(Byte) /\ temp.local \in Entry
    BY <1>1, <1>7, TempIsOpen DEF Needers, Copies
  <2>2. CASE op = "LocalTempCopy"
    <3>1. temp.local # Dir /\ u \in TempCopyStages(c, temp.local)
      BY <2>2 DEF Stages
    <3>2. temp.local \in Seq(Byte)
      BY <2>1, <3>1 DEF Entry
    <3> QED BY <1>1, <1>2, <1>7, <2>1, <3>1, <3>2, TempStagesKnown
  <2>3. CASE op = "SrcTempCopy"
    <3>1. u \in TempCopyStages(c, src[c.path])
      BY <2>3 DEF Stages
    <3>2. src[c.path] \in Seq(Byte)
      BY <1>1, <1>2, <2>3, WorldFacts, FileBytes DEF IInv, PlanInv, WellFormed
    <3> QED BY <1>1, <1>2, <1>7, <2>1, <3>1, <3>2, TempStagesKnown
  <2> QED BY <1>7, <2>2, <2>3 DEF Copies
<1>8. ASSUME op = "ReplaceWithTemp"  PROVE Sound(u) /\ Spares(dst, u, {p})
  <2>1. u = OsRemove(dst, p).tree
    BY <1>8 DEF Stages, ReplaceStages
  <2> HIDE DEF p
  <2> QED BY <1>1, <1>2, <2>1, RemoveFacts DEF Sound, Spares
<1>9. ASSUME op = "SrcFileDownload"  PROVE Sound(u) /\ Spares(dst, u, {p})
  <2>1. u \in WriteStages(dst, p, src[c.path])
    BY <1>9 DEF Stages
  <2>2. src[c.path] \in Seq(Byte)
    BY <1>1, <1>2, <1>9, WorldFacts, FileBytes DEF IInv, PlanInv, WellFormed
  <2> HIDE DEF p
  <2> QED BY <1>1, <1>2, <2>1, <2>2, WriteStagesKnown
<1>10. op \in {"Transfer", "Conflict", "LocalTemp", "LocalTempCopy", "SrcTempCopy",
              "ReplaceWithTemp", "SrcFileDownload"}
  BY DEF Stages
<1> HIDE DEF p, c
<1> QED BY <1>4, <1>5, <1>6, <1>7, <1>8, <1>9, <1>10 DEF Touched, Changers, Copies, p, c, op

\* Cleanup that is not finished takes nothing away but what was moved out of the way.
LEMMA CleanupStagesKnown ==
  ASSUME FullInv, NEW u \in CleanupStages
  PROVE  Sound(u) /\ \A q \in DOMAIN dst : ~TempNamed(q) => SameAt(dst, u, q)
<1>1. PICK S \in SUBSET DOMAIN relocs : u = Without(dst, UNION {Under(dst, relocs[p]) : p \in S})
  BY DEF CleanupStages
<1> DEFINE gone == UNION {Under(dst, relocs[p]) : p \in S}
<1>2. IsTree(dst) /\ InDirs(dst) /\ RelocsInv
  BY DEF FullInv, IInv, TypeOK, LitterInv
<1>3. \A q : q \in gone <=> q \in DOMAIN dst /\ \E p \in S : IsPrefix(relocs[p], q)
  BY DEF Under
<1>4. u = Without(dst, gone)
  BY <1>1
<1> HIDE DEF gone
<1>5. DOMAIN u = DOMAIN dst \ gone /\ \A q \in DOMAIN dst \ gone : SameAt(dst, u, q)
  BY <1>4 DEF Without, SameAt
<1>6. ASSUME NEW p \in S  PROVE relocs[p] \in Path /\ TempNamed(relocs[p])
  <2>1. PICK n \in TempName : relocs[p] = <<n>>
    BY <1>2 DEF RelocsInv
  <2>2. <<n>> \in Path /\ TempNamed(<<n>>)
    BY EmptySeq, InventedName DEF Path
  <2> QED BY <2>1, <2>2
<1>7. IsTree(u)
  BY <1>2, <1>4, WithoutTree
<1>8. ASSUME NEW q \in DOMAIN u, NEW a \in Path, IsPrefix(a, q), a # q  PROVE IsDir(u, a)
  <2>1. q \in DOMAIN dst /\ q \notin gone /\ q \in Path
    BY <1>2, <1>5 DEF IsTree
  <2>2. IsDir(dst, a)
    BY <1>2, <1>8, <2>1, InDirsAbove
  <2>3. ASSUME NEW p \in S, IsPrefix(relocs[p], a)  PROVE FALSE
    <3>1. IsPrefix(relocs[p], q)
      BY <1>6, <1>8, <2>1, <2>3, PrefixTransitive DEF Path
    <3> QED BY <1>3, <2>1, <3>1
  <2>4. a \in DOMAIN dst \ gone
    BY <1>3, <2>2, <2>3 DEF IsDir, Exists
  <2> QED BY <1>5, <2>2, <2>4 DEF IsDir, Exists, SameAt
<1>9. ASSUME NEW q \in DOMAIN dst, ~TempNamed(q)  PROVE SameAt(dst, u, q)
  <2>1. \A p \in S : ~IsPrefix(relocs[p], q)
    BY <1>2, <1>6, <1>9, TempPrefix DEF IsTree
  <2> QED BY <1>3, <1>5, <2>1
<1> QED BY <1>7, <1>8, <1>9, InDirsAbove DEF Sound

-----------------------------------------------------------------------------
(* Another run.                                                            *)

\* What a new process finds is a store that can be opened, ...
LEMMA RerunBegins ==
  ASSUME IsWorld(world), NEW t, t = dst, Sound(t), Rerun
  PROVE  Begun'
<1>1. /\ world' = [world EXCEPT !.dst = t] /\ IsDir(t, <<>>) /\ IsRoot(t, world.dstRoot)
      /\ dst' = t /\ relocs' = <<>> /\ cmds' = <<>> /\ scan' = <<>> /\ temp' = <<>>
      /\ pc' = "plan" /\ next' = 1 /\ todo' = SrcNodes
      /\ unmatched' = {p \in Under(t, world.dstRoot) : IsFile(t, p)}
      /\ refs' = [p \in Under(t, world.dstRoot) |-> 0]
  BY DEF Rerun, FilesIndexed
<1>2. /\ world'.dst = t /\ world'.dstRoot = world.dstRoot
      /\ world'.src = world.src /\ world'.srcRoot = world.srcRoot /\ world'.repo = world.repo
  BY <1>1 DEF IsWorld
<1>3. IsWorld(world)'
  BY <1>1, <1>2 DEF IsWorld, IsStore, Sound
<1>4. SrcNodes' = SrcNodes /\ DstNodes' = Under(t, world.dstRoot)
  BY <1>2 DEF SrcNodes, DstNodes, src
<1>5. Opened'
  BY <1>1, <1>2, <1>4 DEF Opened
<1> QED BY <1>3, <1>5 DEF Begun

\* ... whatever a process that has ended leaves: what is known of a patch as long as it runs,
\* and of the tree, if a new process can open it, when it has ended.
CrashInv ==
  /\ pc = "crashed" => IsWorld(world) /\ (IsDir(dst, <<>>) => Sound(dst))
  /\ pc # "crashed" => SyncInv

\* What has crashed takes no step of the patch.
LEMMA NextRuns == Next => pc # "crashed"
<1>1. Planner => pc # "crashed"
  BY DEF Planner, Visit, PlanMatched, PlanFileConflict, PlanDownload, PlanFile, PlanDir,
         MatchBlock, MatchRoll, MatchDone, PlanRange, PlanFileDone, PlanDone
<1>2. Exec => pc # "crashed"
  BY DEF Exec, Take, ExecTransfer, ExecKeep, ExecConflict, ExecConflictFails, ExecLocalTemp,
         ExecLocalTempCopy, ExecSrcTempCopy, ExecReplaceWithTemp, ExecSrcFileDownload, ExecDone
<1>3. (\E p \in unmatched : Clean(p)) => pc # "crashed"
  BY DEF Clean
<1> QED BY <1>1, <1>2, <1>3 DEF Next

\* What a crash leaves is a tree, which a new process can open if its top is a directory.
LEMMA CrashStep ==
  ASSUME SyncInv, Crash
  PROVE  CrashInv'
<1>1. FullInv /\ IsWorld(world) /\ Sound(dst)
  BY DEF SyncInv, FullInv, IInv, TypeOK, LitterInv, Sound
<1>2. /\ pc' = "crashed" /\ world' = world
      /\ \/ dst' = dst
         \/ pc = "exec" /\ next <= Len(cmds) /\ dst' \in Stages
         \/ dst' \in CleanupStages
  BY DEF Crash
<1>3. IsDir(dst', <<>>) => Sound(dst')
  BY <1>1, <1>2, StagesKnown, CleanupStagesKnown
<1> QED BY <1>1, <1>2, <1>3 DEF CrashInv, Sound

\* A new process begins as a first one does.
LEMMA RunAgainStep ==
  ASSUME CrashInv, RunAgain
  PROVE  Begun'
<1>1. IsDir(dst, <<>>) /\ Rerun
  BY DEF RunAgain, Rerun
<1>2. IsWorld(world) /\ Sound(dst)
  BY <1>1 DEF CrashInv, SyncInv, FullInv, IInv, TypeOK, LitterInv, Sound
<1> QED BY <1>1, <1>2, RerunBegins

\* All that is known of a patch is so of every run, whatever the runs before have left.
THEOREM CrashInvariant == CrashSpec => []CrashInv
<1>1. CrashInit => CrashInv
  <2>1. CrashInit => SyncInv /\ pc = "plan"
    BY SyncInit, InitBegun DEF CrashInit, Init, Opened
  <2> QED BY <2>1 DEF CrashInv
<1>2. Begun' => SyncInv' /\ pc' = "plan"
  <2>1. Begun => SyncInv
    BY SyncInit
  <2>2. Begun' => SyncInv'
    BY <2>1, PTL
  <2>3. Begun' => pc' = "plan"
    BY DEF Begun, Opened
  <2> QED BY <2>2, <2>3
<1>3. CrashInv /\ [CrashNext]_crashVars => CrashInv'
  <2> SUFFICES ASSUME CrashInv, [CrashNext]_crashVars  PROVE CrashInv'
    OBVIOUS
  <2>1. CASE UNCHANGED vars
    <3>1. pc' = pc /\ dst' = dst /\ world' = world
      BY <2>1 DEF vars
    <3>2. pc # "crashed" => SyncInv'
      BY <2>1, SyncStep DEF CrashInv
    <3> QED BY <3>1, <3>2 DEF CrashInv, Sound
  <2>2. CASE Next
    <3>1. pc # "crashed"
      BY <2>2, NextRuns
    <3>2. SyncInv'
      BY <2>2, <3>1, SyncStep DEF CrashInv
    <3>3. pc' # "crashed"
      BY <3>2 DEF SyncInv, FullInv, IInv, TypeOK
    <3> QED BY <3>2, <3>3 DEF CrashInv
  <2>3. CASE Crash
    <3>1. pc = "exec"
      BY <2>3 DEF Crash
    <3> QED BY <2>3, <3>1, CrashStep DEF CrashInv
  <2>4. CASE RunAgain
    BY <1>2, <2>4, RunAgainStep DEF CrashInv
  <2> QED BY <2>1, <2>2, <2>3, <2>4 DEF CrashNext, crashVars
<1> QED BY <1>1, <1>3, PTL DEF CrashSpec

\* What a crash, a failure or a success left does no harm to the next run, whatever the stores
\* and however often it happens: if its own plan is fit it ends with the source's files in the
\* destination, and Clean then removes all litter with what the source has not got.
THEOREM RerunAlwaysMirrors == CrashSpec => []RerunMirrors
<1>1. CrashInv => RerunMirrors
  <2>1. SyncInv => FitPlansSync /\ CleanMirrors
    BY SyncMirrors DEF SyncInv, FitInv, FitPlansSync
  <2>2. pc = "crashed" => FitPlansSync /\ CleanMirrors
    BY DEF FitPlansSync, CleanMirrors
  <2> QED BY <2>1, <2>2 DEF RerunMirrors, CrashInv
<1> QED BY <1>1, CrashInvariant, PTL

-----------------------------------------------------------------------------
(* What a look-up finds.                                                   *)

\* p and q have the same first n names.
Agree(p, q, n) == \A k \in 1..n : p[k] = q[k]

\* The order in which nodes are added, name by name.
LEMMA AddedByName ==
  ASSUME NEW p \in Path, NEW q \in Path
  PROVE  /\ Len(p) \in Nat /\ Len(q) \in Nat
         /\ AddedBefore(p, q) <=>
              \/ Len(p) < Len(q) /\ Agree(p, q, Len(p))
              \/ \E i \in 1..Len(p) :
                   i <= Len(q) /\ Agree(p, q, i - 1) /\ Rank[p[i]] < Rank[q[i]]
<1>1. /\ Len(p) \in Nat /\ Len(q) \in Nat /\ DOMAIN p = 1..Len(p) /\ DOMAIN q = 1..Len(q)
      /\ p \in Seq(Name) /\ q \in Seq(Name)
  BY LenProperties DEF Path
<1>2. IsStrictPrefix(p, q) <=> Len(p) < Len(q) /\ Agree(p, q, Len(p))
  <2>1. IsPrefix(p, q) <=> Len(p) <= Len(q) /\ Agree(p, q, Len(p))
    BY <1>1, PrefixElements DEF Agree
  <2>2. Len(p) = Len(q) /\ Agree(p, q, Len(p)) => p = q
    BY <1>1, SeqEqual DEF Agree
  <2>3. ASSUME IsPrefix(p, q), p # q  PROVE Len(p) < Len(q) /\ Agree(p, q, Len(p))
    <3>1. Len(p) <= Len(q) /\ Agree(p, q, Len(p))
      BY <2>1, <2>3
    <3>2. Len(p) # Len(q)
      BY <2>2, <2>3, <3>1, Zenon
    <3>3. Len(p) < Len(q)
      <4>1. Len(p) \in Nat /\ Len(q) \in Nat /\ Len(p) <= Len(q)
        BY <1>1, <3>1
      <4> QED BY <3>2, <4>1
    <3> QED BY <3>1, <3>3
  <2>4. ASSUME Len(p) < Len(q), Agree(p, q, Len(p))  PROVE IsPrefix(p, q) /\ p # q
    BY <1>1, <2>1, <2>4
  <2> QED BY <2>3, <2>4 DEF IsStrictPrefix
<1>3. ASSUME NEW i \in 1..Len(p), i <= Len(q)
      PROVE  SubSeq(p, 1, i - 1) = SubSeq(q, 1, i - 1) <=> Agree(p, q, i - 1)
  <2> DEFINE x == SubSeq(p, 1, i - 1)
             y == SubSeq(q, 1, i - 1)
  <2>1. /\ x \in Seq(Name) /\ Len(x) = i - 1 /\ \A k \in 1..(i - 1) : x[k] = p[k]
        /\ y \in Seq(Name) /\ Len(y) = i - 1 /\ \A k \in 1..(i - 1) : y[k] = q[k]
    <3>1. \A k \in 1..(i - 1) : p[k] \in Name /\ q[k] \in Name
      BY <1>1, <1>3, ElementOfSeq
    <3>2. /\ x \in Seq(Name)
          /\ Len(x) = IF 1 <= i - 1 THEN i - 1 - 1 + 1 ELSE 0
          /\ \A k \in 1..(i - 1 - 1 + 1) : x[k] = p[1 + k - 1]
      BY <1>1, <3>1, SubSeqProperties
    <3>3. /\ y \in Seq(Name)
          /\ Len(y) = IF 1 <= i - 1 THEN i - 1 - 1 + 1 ELSE 0
          /\ \A k \in 1..(i - 1 - 1 + 1) : y[k] = q[1 + k - 1]
      BY <1>1, <1>3, <3>1, SubSeqProperties
    <3> HIDE DEF x, y
    <3> QED BY <1>1, <3>2, <3>3
  <2> HIDE DEF x, y
  <2>2. x = y <=> \A k \in 1..(i - 1) : x[k] = y[k]
    BY <2>1, SeqEqual
  <2>3. x = y <=> Agree(p, q, i - 1)
    BY <2>1, <2>2 DEF Agree
  <2> QED BY <2>3 DEF x, y
<1>4. \A i : i \in DOMAIN p \cap DOMAIN q <=> i \in 1..Len(p) /\ i <= Len(q)
  BY <1>1
<1> QED BY <1>1, <1>2, <1>3, <1>4 DEF AddedBefore

\* Of two nodes one is added before the other, ...
LEMMA AddedTotal ==
  ASSUME NEW p \in Path, NEW q \in Path
  PROVE  p = q \/ AddedBefore(p, q) \/ AddedBefore(q, p)
<1> DEFINE T == {k \in Nat : k \in 1..Len(p) /\ k <= Len(q) /\ p[k] # q[k]}
<1>1. /\ Len(p) \in Nat /\ Len(q) \in Nat /\ p \in Seq(Name) /\ q \in Seq(Name)
  BY AddedByName DEF Path
<1>2. CASE T = {}
  <2>1. CASE Len(p) < Len(q)
    <3>1. Agree(p, q, Len(p))
      BY <1>1, <1>2, <2>1 DEF Agree
    <3> QED BY <2>1, <3>1, AddedByName
  <2>2. CASE Len(q) < Len(p)
    <3>1. Agree(q, p, Len(q))
      BY <1>1, <1>2, <2>2 DEF Agree
    <3> QED BY <2>2, <3>1, AddedByName
  <2>3. CASE Len(p) = Len(q)
    <3>1. \A k \in 1..Len(p) : p[k] = q[k]
      BY <1>1, <1>2, <2>3
    <3> QED BY <1>1, <2>3, <3>1, SeqEqual
  <2> QED BY <1>1, <2>1, <2>2, <2>3
<1>3. CASE T # {}
  <2>1. PICK i \in T : \A k \in T : i <= k
    BY <1>3, LeastNumber, T \in SUBSET Nat
  <2>2. i \in Nat /\ i \in 1..Len(p) /\ i \in 1..Len(q) /\ p[i] # q[i]
    BY <1>1
  <2>3. Agree(p, q, i - 1) /\ Agree(q, p, i - 1)
    BY <1>1, <2>1, <2>2 DEF Agree
  <2>4. p[i] \in Name /\ q[i] \in Name
    BY <1>1, <2>2, ElementOfSeq
  <2>5. Rank[p[i]] < Rank[q[i]] \/ Rank[q[i]] < Rank[p[i]]
    BY <2>2, <2>4, RankAssumption
  <2> HIDE DEF T
  <2> QED BY <1>1, <2>2, <2>3, <2>5, AddedByName
<1> QED BY <1>2, <1>3

\* ... and before all that are added after that.
LEMMA AddedTransitive ==
  ASSUME NEW p \in Path, NEW q \in Path, NEW r \in Path, AddedBefore(p, q), AddedBefore(q, r)
  PROVE  AddedBefore(p, r)
<1>1. /\ Len(p) \in Nat /\ Len(q) \in Nat /\ Len(r) \in Nat
      /\ p \in Seq(Name) /\ q \in Seq(Name) /\ r \in Seq(Name)
  BY AddedByName DEF Path
<1>2. /\ \A k \in 1..Len(p) : Rank[p[k]] \in Int
      /\ \A k \in 1..Len(q) : Rank[q[k]] \in Int
      /\ \A k \in 1..Len(r) : Rank[r[k]] \in Int
  BY <1>1, ElementOfSeq, RankAssumption
<1>3. CASE Len(p) < Len(q) /\ Agree(p, q, Len(p))
  <2>1. CASE Len(q) < Len(r) /\ Agree(q, r, Len(q))
    <3>1. Len(p) < Len(r) /\ Agree(p, r, Len(p))
      BY <1>1, <1>3, <2>1 DEF Agree
    <3> QED BY <3>1, AddedByName
  <2>2. ASSUME NEW j \in 1..Len(q), j <= Len(r), Agree(q, r, j - 1), Rank[q[j]] < Rank[r[j]]
        PROVE  AddedBefore(p, r)
    <3>1. CASE j <= Len(p)
      <4>1. j \in 1..Len(p) /\ Agree(p, r, j - 1) /\ Rank[p[j]] < Rank[r[j]]
        BY <1>1, <1>3, <2>2, <3>1 DEF Agree
      <4> QED BY <2>2, <4>1, AddedByName
    <3>2. CASE ~(j <= Len(p))
      <4>1. Len(p) < Len(r) /\ Agree(p, r, Len(p))
        BY <1>1, <1>3, <2>2, <3>2 DEF Agree
      <4> QED BY <4>1, AddedByName
    <3> QED BY <3>1, <3>2
  <2> QED BY <2>1, <2>2, AddedByName
<1>4. ASSUME NEW i \in 1..Len(p), i <= Len(q), Agree(p, q, i - 1), Rank[p[i]] < Rank[q[i]]
      PROVE  AddedBefore(p, r)
  <2>1. CASE Len(q) < Len(r) /\ Agree(q, r, Len(q))
    <3>1. i <= Len(r) /\ Agree(p, r, i - 1) /\ Rank[p[i]] < Rank[r[i]]
      BY <1>1, <1>4, <2>1 DEF Agree
    <3> QED BY <3>1, AddedByName
  <2>2. ASSUME NEW j \in 1..Len(q), j <= Len(r), Agree(q, r, j - 1), Rank[q[j]] < Rank[r[j]]
        PROVE  AddedBefore(p, r)
    <3>1. CASE j < i
      <4>1. j \in 1..Len(p) /\ Agree(p, r, j - 1) /\ Rank[p[j]] < Rank[r[j]]
        BY <1>1, <1>4, <2>2, <3>1 DEF Agree
      <4> QED BY <2>2, <4>1, AddedByName
    <3>2. CASE ~(j < i)
      <4>1. i <= Len(r) /\ Agree(p, r, i - 1)
        BY <1>1, <1>4, <2>2, <3>2 DEF Agree
      <4>2. Rank[p[i]] < Rank[r[i]]
        <5>1. Rank[q[i]] = Rank[r[i]] \/ i = j
          BY <1>1, <1>4, <2>2, <3>2 DEF Agree
        <5> QED BY <1>1, <1>2, <1>4, <2>2, <4>1, <5>1
      <4> QED BY <4>1, <4>2, AddedByName
    <3> QED BY <3>1, <3>2
  <2> QED BY <2>1, <2>2, AddedByName
<1> QED BY <1>3, <1>4, AddedByName

\* A look-up among finitely many nodes finds one, whichever the repository takes.
LEMMA FoundOne ==
  ASSUME NEW S \in SUBSET Path, IsFiniteSet(S), S # {}, NEW repo
  PROVE  Found(repo, S, AddedBefore) # {}
<1> DEFINE R == {x \in Path \X Path : AddedBefore(x[1], x[2])}
           B == {x \in Path \X Path : AddedBefore(x[2], x[1])}
<1>1. \A p, q \in Path : (<<p, q>> \in R <=> AddedBefore(p, q)) /\ (<<p, q>> \in B <=> AddedBefore(q, p))
  OBVIOUS
<1> HIDE DEF R, B
<1>2. Ordered(R, Path) /\ Ordered(B, Path)
  BY <1>1, AddedTotal, AddedTransitive DEF Ordered
<1>3. \E m \in S : \A y \in S \ {m} : <<y, m>> \in R
  BY <1>2, LastInOrder
<1>4. \E m \in S : \A y \in S \ {m} : <<y, m>> \in B
  BY <1>2, LastInOrder
<1> QED BY <1>1, <1>3, <1>4 DEF Found, LastAdded, FirstRow

\* A file of the source whose contents a file of the destination has is matched.
LEMMA MatchFound ==
  ASSUME IsWorld(world), NEW p, IsFile(src, p),
         NEW q \in DstNodes, IsFile(world.dst, q), world.dst[q] = src[p]
  PROVE  Match(p) # {}
<1> DEFINE same  == {x \in Under(world.dst, world.dstRoot) : SameStrong(src, p, world.dst, x)}
           files == {x \in same : IsFile(world.dst, x)}
<1>1. q \in files
  BY DEF SameStrong, DstNodes, IsFile, IsDir
<1>2. files \in SUBSET Path /\ IsFiniteSet(files)
  <2>1. IsTree(world.dst)
    BY WorldFacts
  <2>2. files \subseteq DOMAIN world.dst
    BY DEF Under
  <2> QED BY <2>1, <2>2, FS_Subset DEF IsTree
<1>3. StrongMatch(world.repo, world.dst, world.dstRoot, src, p) = Found(world.repo, files, AddedBefore)
  BY <1>1 DEF StrongMatch
<1>4. \A x \in files : IsFile(world.dst, x)
  OBVIOUS
<1> HIDE DEF files
<1>5. PICK x : x \in Found(world.repo, files, AddedBefore)
  BY <1>1, <1>2, FoundOne
<1>6. x \in files
  BY <1>5 DEF Found, LastAdded, FirstRow
<1> QED BY <1>3, <1>4, <1>5, <1>6 DEF Match

-----------------------------------------------------------------------------
(* What a crash leaves of a list that is fit to run.                       *)

\* The tree that a crash leaves.
LEMMA CrashLeaves ==
  ASSUME CrashInv, FitToRun, Crash
  PROVE  /\ Ready
         /\ \/ dst' = dst
            \/ next <= Len(cmds) /\ dst' \in Stages /\ Spares(dst, dst', Touched)
            \/ /\ next > Len(cmds) /\ dst' \in CleanupStages
               /\ \A q \in DOMAIN dst : ~TempNamed(q) => SameAt(dst, dst', q)
<1>1. Ready
  BY DEF Crash, CrashInv, SyncInv, FitInv, Planned, Ready
<1>2. /\ pc = "exec"
      /\ \/ dst' = dst
         \/ next <= Len(cmds) /\ dst' \in Stages
         \/ ~(next <= Len(cmds)) /\ dst' \in CleanupStages
  BY DEF Crash
<1>3. IsDir(dst, <<>>)
  <2>1. IsDir(world.dst, <<>>)
    BY <1>1, ReadyParts DEF IsWorld, IsStore
  <2> QED BY <1>1, <2>1 DEF Ready, RunInv, DirsInv, IsDir, Exists
<1>4. next \in Int /\ Len(cmds) \in Int
  BY <1>1, ReadyParts
<1> QED BY <1>1, <1>2, <1>3, <1>4, StagesKnown, CleanupStagesKnown DEF Ready

\* Until the temporary file takes its place, the file that is patched by blocks is as it was;
\* from then on it is the source's.
LEMMA OldOrNew ==
  ASSUME Ready, NEW i \in DOMAIN cmds, cmds[i].op = "LocalTemp", NEW p, p = cmds[i].path,
         NEW at, at = Place(p)
  PROVE  /\ p \in SrcNodes /\ IsFile(world.dst, at) /\ ~TempNamed(at)
         /\ at \in DOMAIN dst /\ dst[at] \in {world.dst[at], src[p]}
<1>1. /\ IsWorld(world) /\ p \in SrcNodes /\ IsFile(world.dst, at) /\ IsFile(src, p)
      /\ ~TempNamed(at) /\ RelocsInv /\ Past \subseteq DOMAIN cmds
  BY CommandKnown, ReadyParts, Places DEF Informed, Apt, Openers, Past
<1>2. /\ world.dstRoot = <<>> => at = p /\ DstNodes = DOMAIN world.dst
      /\ world.dstRoot # <<>> => at = world.dstRoot /\ DstNodes = {world.dstRoot}
  BY <1>1, Places
<1>3. at \in DstNodes
  BY <1>1, <1>2 DEF IsFile, Exists
<1>4. Located(at) = at
  <2>1. world.dstRoot = <<>> => at \notin DOMAIN relocs
    BY <1>1, <1>2 DEF RelocsInv, IsFile, IsDir
  <2> QED BY <1>2, <2>1 DEF Located, Resolve
<1>5. CASE ~Spent(at)
  BY <1>1, <1>3, <1>4, <1>5, Unspent
<1>6. CASE Spent(at)
  <2>1. PICK j \in Past : \/ cmds[j].op = "Transfer" /\ cmds[j].from = at
                          \/ cmds[j].op \in Changers /\ Place(cmds[j].path) = at
    BY <1>6, Zenon DEF Spent
  <2>2. CASE cmds[j].op = "Transfer" /\ cmds[j].from = at
    <3>1. j \in OpsOf("Transfer") /\ SourcesInOrder /\ world.dstRoot = <<>>
      BY <1>1, <2>2, TransferKnown DEF OpsOf, Ready, FitToRun
    <3>2. (CASE cmds[i].op = "Keep"     -> TRUE
             [] cmds[i].op = "Transfer" -> j < i
             [] cmds[i].op = "Conflict" -> i < j
             [] OTHER                   -> FALSE)
      BY <1>2, <2>2, <3>1 DEF SourcesInOrder
    <3> QED BY <3>2
  <2>3. CASE cmds[j].op \in Changers /\ Place(cmds[j].path) = at
    <3>1. Holds(dst, at, src[cmds[j].path])
      BY <2>3 DEF Ready, RunInv, MadeInv
    <3>2. cmds[j].path = p
      BY <1>1, <2>3, CommandKnown, Places
    <3> QED BY <1>1, <3>1, <3>2 DEF Holds, IsFile, Exists
  <2> QED BY <2>1, <2>2, <2>3
<1> QED BY <1>1, <1>5, <1>6

\* Where a file is patched by blocks only the temporary file comes.
LEMMA OnlyReplaced ==
  ASSUME Ready, NEW i \in DOMAIN cmds, cmds[i].op = "LocalTemp", NEW p, p = cmds[i].path,
         NEW at, at = Place(p), next <= Len(cmds), at \in Touched
  PROVE  cmds[next].op = "ReplaceWithTemp" /\ cmds[next].path = p /\ Located(p) = at
<1> DEFINE c == cmds[next]
<1>1. At(c.op) /\ next \in DOMAIN cmds /\ IInv /\ LitterInv /\ IsWorld(world)
      /\ next \in Int /\ DOMAIN cmds \subseteq Int
  BY PastKnown, ReadyParts DEF At
<1>2. p \in SrcNodes /\ ~TempNamed(at) /\ IsFile(world.dst, at)
  BY OldOrNew
<1>3. c.op \notin Copies
  <2> SUFFICES ASSUME c.op \in Copies  PROVE FALSE
    OBVIOUS
  <2>1. at = temp.file
    BY DEF Touched, Copies, Changers
  <2>2. TempNamed(temp.file)
    BY <1>1, IsOpen DEF LitterInv, Copies, Needers
  <2> QED BY <1>2, <2>1, <2>2
<1>4. c.op \in Changers /\ Located(c.path) = at
  BY <1>3 DEF Touched
<1>5. c.path \in SrcNodes /\ Place(c.path) = at
  BY <1>1, <1>4, TargetPlace DEF Changers
<1>6. c.path = p
  BY <1>1, <1>2, <1>5, Places
<1>7. i < next
  <2>1. i # next
    BY <1>4 DEF Changers
  <2>2. ~(next < i)
    BY <1>1, <1>4, <1>6, ReadyLists DEF InSequence, Precedes, Changers, Enders
  <2> QED BY <1>1, <2>1, <2>2
<1>8. c.op # "Transfer"
  BY <1>1, <1>6, <1>7, ReadyLists DEF InSequence, Precedes, Starters
<1>9. c.op # "SrcFileDownload"
  <2> SUFFICES ASSUME c.op = "SrcFileDownload"  PROVE FALSE
    OBVIOUS
  <2>1. ~\E e \in All(cmds) : e.op = "Conflict" /\ ~e.absolute
    BY ConflictKnown DEF All
  <2>2. ~Exists(world.dst, at)
    BY <1>1, <1>5, <2>1, CommandKnown DEF Informed
  <2> QED BY <1>2, <2>2 DEF IsFile
<1> QED BY <1>4, <1>6, <1>8, <1>9 DEF Changers

\* Whatever the stores, and wherever the process ends, a file that is patched by blocks is
\* there, old or new, or its new contents are beside it, complete (patch.go:196-215).
THEOREM CrashAlwaysKeepsOldOrNew == CrashSpec => CrashKeepsOldOrNew
<1>1. ASSUME CrashInv, FitToRun, Crash, NEW i \in OpsOf("LocalTemp"), NEW p, p = cmds[i].path,
             NEW at, at = Place(p)
      PROVE  IF Exists(dst', at) THEN dst'[at] \in {world.dst[at], src[p]}
             ELSE \E n \in TempName :
                    IsFile(dst', Append(ParentDir(at), n)) /\ dst'[Append(ParentDir(at), n)] = src[p]
  <2>1. Ready /\ i \in DOMAIN cmds /\ cmds[i].op = "LocalTemp"
    BY <1>1, CrashLeaves DEF OpsOf
  <2>2. ~TempNamed(at) /\ at \in DOMAIN dst /\ dst[at] \in {world.dst[at], src[p]}
    BY <1>1, <2>1, OldOrNew
  <2>3. CASE SameAt(dst, dst', at)
    BY <2>2, <2>3 DEF SameAt, Exists
  <2>4. CASE ~SameAt(dst, dst', at)
    <3>1. next <= Len(cmds) /\ dst' \in Stages /\ Spares(dst, dst', Touched) /\ at \in Touched
      BY <1>1, <2>2, <2>4, CrashLeaves DEF Spares, SameAt
    <3>2. cmds[next].op = "ReplaceWithTemp" /\ cmds[next].path = p /\ Located(p) = at
      BY <1>1, <2>1, <3>1, OnlyReplaced
    <3>3. At("ReplaceWithTemp") /\ IInv /\ LitterInv /\ IsTree(dst) /\ InDirs(dst)
          /\ at \in Path
      BY <2>1, <2>2, <3>1, <3>2, ReadyParts DEF At, IsTree
    <3>4. dst[temp.file] = src[p] /\ Written(p)
      BY <2>1, <3>2, <3>3, WrittenWhole
    <3>5. temp.file # at
      BY <2>2, <3>3, IsOpen DEF LitterInv, Needers
    <3>6. SameAt(dst, dst', temp.file)
      <4>1. temp.file \notin Touched
        BY <3>2, <3>5 DEF Touched, Changers
      <4> QED BY <3>1, <3>4, <4>1 DEF Spares, Written, IsFile, Exists
    <3>7. IsFile(dst', temp.file) /\ dst'[temp.file] = src[p]
      BY <3>4, <3>6 DEF SameAt, Written, IsFile, Exists
    <3>8. \E n \in TempName : temp.file = Append(ParentDir(at), n)
      BY <1>1, <3>4 DEF Written, Beside
    <3>9. ~Exists(dst', at)
      <4>1. dst' = OsRemove(dst, at).tree
        BY <3>1, <3>2 DEF Stages, ReplaceStages
      <4>2. \A q \in DOMAIN OsRemove(dst, at).tree : SameAt(dst, OsRemove(dst, at).tree, q)
        BY <3>3, RemoveFacts
      <4>3. \A q \in DOMAIN dst' : SameAt(dst, dst', q)
        BY <4>1, <4>2
      <4> QED BY <2>4, <4>3 DEF Exists
    <3> QED BY <3>7, <3>8, <3>9
  <2> QED BY <2>3, <2>4
<1>2. CrashInv =>
        [Crash /\ FitToRun =>
           \A i \in OpsOf("LocalTemp") :
             LET p  == cmds[i].path
                 at == Resolve(world.dstRoot, <<>>, p)
             IN  IF Exists(dst', at) THEN dst'[at] \in {world.dst[at], src[p]}
                 ELSE \E n \in TempName :
                        LET q == Append(ParentDir(at), n)
                        IN  IsFile(dst', q) /\ dst'[q] = src[p]]_crashVars
  BY <1>1 DEF Place
<1> QED BY <1>2, CrashInvariant, PTL DEF CrashKeepsOldOrNew

-----------------------------------------------------------------------------
(* What the source and the destination have in common.                     *)

\* What the destination has as well is moved or kept.
LEMMA Matched ==
  ASSUME Ready, NEW p \in SrcFiles, NEW q \in DstNodes, IsFile(world.dst, q), world.dst[q] = src[p]
  PROVE  \E i \in DOMAIN cmds : cmds[i].path = p /\ cmds[i].op \in {"Transfer", "Keep"}
<1>1. IsWorld(world) /\ CoverInv /\ pc = "exec" /\ IsFile(src, p)
  BY ReadyParts DEF SrcFiles
<1>2. p \notin Pending
  BY <1>1 DEF CoverInv, Pending, Planned
<1>3. PICK i \in DOMAIN cmds : MadeIn(cmds, p) = {i}
  BY <1>1, <1>2 DEF CoverInv, OnceBut
<1>4. cmds[i].path = p
  BY <1>3 DEF MadeIn
<1>5. Match(p) # {}
  BY <1>1, MatchFound
<1> QED BY <1>4, <1>5, CommandKnown DEF Apt

\* A file that is to be moved is where Located says, and the command that is next does not
\* touch it.
LEMMA ToBeMoved ==
  ASSUME Ready, NEW i \in DOMAIN cmds, cmds[i].op = "Transfer", i \notin Past,
         NEW q, q = cmds[i].from, NEW x, x = Located(q)
  PROVE  Holds(dst, x, src[cmds[i].path]) /\ next <= Len(cmds) /\ x \notin Touched
<1>1. /\ world.dstRoot = <<>> /\ q \in DstNodes /\ IsFile(world.dst, q)
      /\ src[cmds[i].path] = world.dst[q]
  BY TransferKnown
<1>2. /\ IInv /\ RelocsInv /\ LitterInv /\ IsWorld(world)
      /\ DOMAIN cmds = 1..Len(cmds) /\ Len(cmds) \in Nat /\ next \in 1..(Len(cmds) + 1)
      /\ pc = "exec"
  BY ReadyParts
<1>3. next <= Len(cmds) /\ next <= i /\ i \in Int /\ next \in DOMAIN cmds /\ Past \subseteq DOMAIN cmds
  BY <1>2 DEF Past
<1>4. ASSUME NEW j \in DOMAIN cmds, cmds[j].op \in Changers, cmds[j].path = q  PROVE i < j
  <2>1. i \in OpsOf("Transfer") /\ SourcesInOrder
    BY DEF OpsOf, Ready, FitToRun
  <2>2. (CASE cmds[j].op = "Keep"     -> TRUE
           [] cmds[j].op = "Transfer" -> i < j
           [] cmds[j].op = "Conflict" -> j < i
           [] OTHER                   -> FALSE)
    BY <1>4, <2>1 DEF SourcesInOrder
  <2>3. cmds[j].op \in {"Transfer", "SrcFileDownload", "ReplaceWithTemp"}
    BY <1>4 DEF Changers
  <2>4. cmds[j].op # "Keep" /\ cmds[j].op # "Conflict"
    BY <2>3
  <2> QED BY <2>2, <2>4
<1>5. ~Spent(q)
  <2>1. i \in Uses(q)
    BY <1>2, <1>3 DEF Uses
  <2>2. ASSUME NEW j \in Past, cmds[j].op \in Changers, Place(cmds[j].path) = q  PROVE FALSE
    <3>1. cmds[j].path = q /\ j \in DOMAIN cmds
      BY <1>1, <1>3, <2>2 DEF Place, Resolve
    <3> QED BY <1>2, <1>3, <1>4, <2>2, <3>1 DEF Past
  <2> QED BY <2>1, <2>2 DEF Spent
<1>6. Holds(dst, x, world.dst[q])
  BY <1>1, <1>5, Unspent
<1> DEFINE c == cmds[next]
<1>7. At(c.op)
  BY <1>2, <1>3 DEF At
<1>8. ASSUME c.op \in Changers, Located(c.path) = x  PROVE FALSE
  <2>1. Located(c.path) = c.path /\ ~TempNamed(c.path)
    BY <1>1, <1>7, <1>8, TargetPlace DEF Changers, Place, Resolve
  <2>2. q \notin DOMAIN relocs /\ x = q
    BY <1>1, <1>2, <1>8, <2>1, LocatedNode
  <2>3. i < next
    BY <1>3, <1>4, <1>8, <2>1, <2>2
  <2> QED BY <1>2, <1>3, <2>3
<1>9. ASSUME c.op \in Copies, temp.file = x  PROVE FALSE
  <2>1. Written(c.path)
    BY <1>7, <1>9, FindsWritten DEF Copies, Needers
  <2> QED BY <1>1, <1>5, <1>9, <2>1 DEF Written
<1> QED BY <1>1, <1>3, <1>6, <1>8, <1>9 DEF Touched

\* A file that was made is not touched again.
LEMMA MadeStays ==
  ASSUME Ready, NEW i \in Past, cmds[i].op = "Transfer", NEW x, x = Place(cmds[i].path)
  PROVE  /\ Holds(dst, x, src[cmds[i].path]) /\ ~TempNamed(x)
         /\ next <= Len(cmds) /\ cmds[next].op \in Changers => Located(cmds[next].path) # x
<1>1. /\ IsWorld(world) /\ DOMAIN cmds = 1..Len(cmds) /\ Len(cmds) \in Nat
      /\ next \in 1..(Len(cmds) + 1) /\ pc = "exec"
  BY ReadyParts
<1>2. i \in DOMAIN cmds /\ i < next /\ i \in Int
  BY <1>1 DEF Past
<1>3. Holds(dst, x, src[cmds[i].path]) /\ ~TempNamed(x)
  BY <1>1, <1>2, CommandKnown, Places DEF Ready, RunInv, MadeInv, Changers
<1> DEFINE c == cmds[next]
<1>4. ASSUME next <= Len(cmds), c.op \in Changers, Located(c.path) = x  PROVE FALSE
  <2>1. next \in DOMAIN cmds /\ At(c.op)
    BY <1>1, <1>4 DEF At
  <2>2. Place(c.path) = x /\ c.path \in SrcNodes
    BY <1>4, <2>1, TargetPlace DEF Changers
  <2>3. c.path = cmds[i].path
    BY <1>1, <1>2, <2>2, CommandKnown, Places
  <2> QED BY <1>2, <2>1, <2>3, ReadyLists DEF InSequence, Precedes, Enders
<1> QED BY <1>3, <1>4

\* No copy goes to a place of the source's.
LEMMA CopiesElsewhere ==
  ASSUME Ready, next <= Len(cmds), NEW x, ~TempNamed(x), x \in Touched
  PROVE  cmds[next].op \in Changers /\ Located(cmds[next].path) = x
<1> DEFINE c == cmds[next]
<1>1. IInv /\ LitterInv /\ At(c.op)
  BY ReadyParts DEF At
<1>2. ASSUME c.op \in Copies  PROVE TempNamed(temp.file)
  BY <1>1, <1>2, IsOpen DEF LitterInv, Copies, Needers
<1> QED BY <1>2 DEF Touched

\* Whatever the stores, and wherever the process ends, contents that both had are not lost
\* (patch.go:67-72, util.go:23-28).
THEOREM CrashAlwaysKeepsMatched == CrashSpec => CrashKeepsMatched
<1>1. ASSUME CrashInv, FitToRun, Crash, NEW p \in SrcFiles,
             NEW q \in DstNodes, IsFile(world.dst, q), world.dst[q] = src[p]
      PROVE  \E x \in Files(dst') : dst'[x] = src[p]
  <2>1. Ready
    BY <1>1, CrashLeaves
  <2>2. PICK i \in DOMAIN cmds : cmds[i].path = p /\ cmds[i].op \in {"Transfer", "Keep"}
    BY <1>1, <2>1, Matched
  <2>3. ASSUME NEW x, Holds(dst, x, src[p]), SameAt(dst, dst', x)
        PROVE  \E y \in Files(dst') : dst'[y] = src[p]
    BY <2>3 DEF Holds, SameAt, Files, IsFile, Exists
  <2>4. CASE i \notin Past /\ cmds[i].op = "Transfer"
    <3> DEFINE x == Located(cmds[i].from)
    <3>1. Holds(dst, x, src[p]) /\ next <= Len(cmds) /\ x \notin Touched
      BY <2>1, <2>2, <2>4, ToBeMoved
    <3> HIDE DEF x
    <3>2. SameAt(dst, dst', x)
      <4>1. dst' = dst \/ Spares(dst, dst', Touched)
        <5>1. next \in Int /\ Len(cmds) \in Int
          BY <2>1, ReadyParts
        <5> QED BY <1>1, <3>1, <5>1, CrashLeaves
      <4> QED BY <3>1, <4>1 DEF Spares, SameAt, Holds, IsFile, Exists
    <3> QED BY <2>3, <3>1, <3>2
  <2>5. CASE ~(i \notin Past /\ cmds[i].op = "Transfer")
    <3> DEFINE x == Place(p)
    <3>1. /\ Holds(dst, x, src[p]) /\ ~TempNamed(x)
          /\ next <= Len(cmds) /\ cmds[next].op \in Changers => Located(cmds[next].path) # x
      <4>1. CASE cmds[i].op = "Transfer"
        BY <2>1, <2>2, <2>5, <4>1, MadeStays
      <4>2. CASE cmds[i].op = "Keep"
        <5>1. IsFile(src, p)
          BY DEF SrcFiles
        <5>2. /\ Holds(dst, x, src[p]) /\ ~TempNamed(x)
              /\ \A j \in DOMAIN cmds : cmds[j].op \in Changers => Place(cmds[j].path) # x
          BY <2>1, <2>2, <4>2, <5>1, KeptStays
        <5>3. ASSUME next <= Len(cmds), cmds[next].op \in Changers
              PROVE  Located(cmds[next].path) = Place(cmds[next].path) /\ next \in DOMAIN cmds
          <6>1. At(cmds[next].op) /\ cmds[next].op # "Conflict"
            BY <2>1, <5>3, ReadyParts DEF At, Changers
          <6> QED BY <2>1, <6>1, TargetPlace, PastKnown
        <5> QED BY <5>2, <5>3
      <4> QED BY <2>2, <4>1, <4>2
    <3> HIDE DEF x
    <3>2. SameAt(dst, dst', x)
      <4>1. x \in DOMAIN dst
        BY <3>1 DEF Holds, IsFile, Exists
      <4>2. next <= Len(cmds) => x \notin Touched
        BY <2>1, <3>1, CopiesElsewhere
      <4> QED BY <1>1, <3>1, <4>1, <4>2, CrashLeaves DEF Spares, SameAt
    <3> QED BY <2>3, <3>1, <3>2
  <2> QED BY <2>4, <2>5
<1>2. CrashInv =>
        [Crash /\ FitToRun =>
           \A p \in SrcFiles :
             (\E q \in DstNodes : IsFile(world.dst, q) /\ world.dst[q] = src[p])
               => \E q \in Files(dst') : dst'[q] = src[p]]_crashVars
  BY <1>1
<1> QED BY <1>2, CrashInvariant, PTL DEF CrashKeepsMatched

=============================================================================
