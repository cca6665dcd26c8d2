---------------------------- MODULE PatchProofs -----------------------------
(***************************************************************************)
(* What holds of a patch whatever the stores it synchronises: its types;   *)
(* of the list of commands that NewPatchPlan writes, that its reference    *)
(* counts are exact, that the blocks it copies do not overlap, and that it *)
(* makes every file once; and of its execution, that files that the plan   *)
(* does not touch stay as they are, that kept files keep their contents,   *)
(* that what is still needed is not moved away, and that nothing temporary *)
(* stays behind.                                                           *)
(***************************************************************************)
EXTENDS Patch, StoreProofs, FiniteSetTheorems

-----------------------------------------------------------------------------
(* The inductive invariant.  TypeOK alone is not inductive: that the       *)
(* destination stays a tree when bytes are written to a temporary file     *)
(* depends on the file being open, and so on what the planner puts before  *)
(* a copy in the list of commands.                                         *)

Planning == pc \in {"plan", "match", "ranges"}

\* The commands after which a temporary file is open, and those that need one.
Openers == {"LocalTemp", "LocalTempCopy", "SrcTempCopy"}
Needers == {"LocalTempCopy", "SrcTempCopy", "ReplaceWithTemp"}

\* Every command on a temporary file follows one that leaves it open, and every command
\* that reads a source file names one.
WellFormed(c) ==
  \A i \in DOMAIN c :
    /\ c[i].op \in Needers => i - 1 \in DOMAIN c /\ c[i - 1].op \in Openers
    /\ c[i].op \in {"SrcTempCopy", "SrcFileDownload"} => IsFile(src, c[i].path)

PlanInv ==
  /\ Planning => next = 1
  /\ pc \in {"match", "ranges"} => IsFile(src, scan.file)
  /\ pc = "match" => IsFile(dst, Located(scan.file))
  /\ pc = "ranges" => Len(cmds) # 0 /\ cmds[Len(cmds)].op \in Openers
  /\ WellFormed(cmds)

TempInv ==
  pc = "exec" /\ next > 1 /\ cmds[next - 1].op \in Openers =>
    /\ temp.file \in DOMAIN dst
    /\ dst[temp.file] \in Seq(Byte)
    /\ temp.local \in Entry

IInv == TypeOK /\ PlanInv /\ TempInv

-----------------------------------------------------------------------------
(* Facts about the stores.                                                 *)

\* The worlds and the nodes of their indexes.
LEMMA WorldFacts ==
  ASSUME IsWorld(world)
  PROVE  /\ IsTree(src) /\ IsTree(world.dst)
         /\ SrcNodes \subseteq Path /\ DstNodes \subseteq Path
         /\ SrcNodes \subseteq DOMAIN src /\ DstNodes \subseteq DOMAIN world.dst
         /\ world.dstRoot \in Path
BY DEF IsWorld, IsRoot, IsFile, IsDir, Exists, IsStore, IsTree, SrcNodes, DstNodes,
                        Under, src

\* A file of a tree is a sequence of bytes.
LEMMA FileBytes ==
  ASSUME NEW t, IsTree(t), NEW p, IsFile(t, p)
  PROVE  p \in DOMAIN t /\ t[p] \in Seq(Byte)
BY DEF IsTree, IsFile, Exists, Entry

\* Every node of an index is somewhere in the modelled tree, relocated or not.
LEMMA LocatedPath ==
  ASSUME TypeOK, NEW p \in SrcNodes \cup DstNodes
  PROVE  Located(p) \in Path
BY WorldFacts DEF TypeOK, Located, Resolve

\* What the index finds are nodes and blocks of it.
LEMMA MatchNodes ==
  ASSUME NEW p
  PROVE  Match(p) \subseteq DstNodes
BY DEF Match, StrongMatch, Found, LastAdded, FirstRow, DstNodes

\* A block that is found is somewhere in a source file.
LEMMA WindowMatchOffset ==
  ASSUME NEW b \in WindowMatch
  PROVE  b.offset \in Nat
<1>1. b \in Blocks(src, world.srcRoot)
  BY DEF WindowMatch, WeakBlock, Found, LastAdded, FirstRow
<1> QED BY <1>1 DEF Blocks

\* The type of each kind of command.
LEMMA CommandTypes ==
  ASSUME NEW p \in SrcNodes
  PROVE  /\ \A q \in DstNodes : Transfer(q, p) \in Command
         /\ Keep(p) \in Command
         /\ \A absolute \in BOOLEAN : Conflict(p, absolute) \in Command
         /\ SrcFileDownload(p) \in Command
         /\ ReplaceWithTemp(p) \in Command
         /\ \A n \in Nat : LocalTemp(p, n) \in Command
         /\ \A m, n \in Nat, k \in Int :
              LocalTempCopy(p, m, n, k) \in Command /\ SrcTempCopy(p, m, n, k) \in Command
BY DEF Transfer, Keep, Conflict, SrcFileDownload, ReplaceWithTemp, LocalTemp,
       LocalTempCopy, SrcTempCopy, Command

\* Adding commands to a well-formed list.
LEMMA WellFormedConcat ==
  ASSUME NEW S, NEW c \in Seq(S), NEW more \in Seq(S), WellFormed(c),
         \A i \in 1..Len(more) :
           /\ more[i].op \in Needers =>
                IF i = 1 THEN Len(c) # 0 /\ c[Len(c)].op \in Openers
                ELSE more[i - 1].op \in Openers
           /\ more[i].op \in {"SrcTempCopy", "SrcFileDownload"} => IsFile(src, more[i].path)
  PROVE  WellFormed(c \o more)
<1>1. Len(c) \in Nat /\ Len(more) \in Nat /\ DOMAIN c = 1..Len(c)
  BY LenProperties
<1>2. /\ c \o more \in Seq(S)
      /\ Len(c \o more) = Len(c) + Len(more)
      /\ \A i \in 1..(Len(c) + Len(more)) :
           (c \o more)[i] = IF i <= Len(c) THEN c[i] ELSE more[i - Len(c)]
  BY ConcatProperties
<1>3. DOMAIN (c \o more) = 1..(Len(c) + Len(more))
  BY <1>2, LenProperties
<1> SUFFICES ASSUME NEW i \in 1..(Len(c) + Len(more))
             PROVE  /\ (c \o more)[i].op \in Needers =>
                         /\ i - 1 \in 1..(Len(c) + Len(more))
                         /\ (c \o more)[i - 1].op \in Openers
                    /\ (c \o more)[i].op \in {"SrcTempCopy", "SrcFileDownload"} =>
                         IsFile(src, (c \o more)[i].path)
  BY <1>3 DEF WellFormed
<1>4. CASE i <= Len(c)
  <2>1. i \in DOMAIN c /\ (c \o more)[i] = c[i]
    BY <1>1, <1>2, <1>4
  <2>2. i - 1 \in 1..Len(c) => (c \o more)[i - 1] = c[i - 1]
    BY <1>1, <1>2, <1>4
  <2> QED BY <2>1, <2>2, <1>1, <1>4 DEF WellFormed
<1>5. CASE i > Len(c)
  <2> DEFINE j == i - Len(c)
  <2>1. j \in 1..Len(more) /\ (c \o more)[i] = more[j]
    BY <1>1, <1>2, <1>5
  <2>2. CASE j = 1
    <3>1. Len(c) # 0 => i - 1 \in 1..Len(c) /\ (c \o more)[i - 1] = c[Len(c)]
      BY <1>1, <1>2, <2>2
    <3> QED BY <2>1, <2>2, <3>1, <1>1
  <2>3. CASE j # 1
    <3>1. i - 1 \in 1..(Len(c) + Len(more)) /\ (c \o more)[i - 1] = more[j - 1]
      BY <1>1, <1>2, <2>1, <2>3
    <3> QED BY <2>1, <2>3, <3>1
  <2> QED BY <2>2, <2>3
<1> QED BY <1>1, <1>4, <1>5

-----------------------------------------------------------------------------
(* The invariant holds initially, ...                                      *)

\* Two stores have just been opened.
Begun == IsWorld(world) /\ Opened

LEMMA InitBegun == Init => Begun
BY WorldsAssumption DEF Init, Begun

\* The stores are trees when they are opened, and nothing is planned.
LEMMA IInvInit == Begun => IInv
<1> SUFFICES ASSUME Begun  PROVE IInv
  OBVIOUS
<1>1. IsWorld(world)
  BY DEF Begun, Opened
<1>2. TypeOK
  <2>1. IsTree(dst)
    BY <1>1, WorldFacts DEF Begun, Opened
  <2>2. refs \in [DstNodes -> Int]
    BY DEF Begun, Opened
  <2>3. cmds \in Seq(Command) /\ Len(cmds) = 0
    BY EmptySeq DEF Begun, Opened
  <2>4. unmatched \subseteq DstNodes /\ todo \subseteq SrcNodes
    BY DEF Begun, Opened
  <2>5. DOMAIN relocs = {}
    BY DEF Begun, Opened
  <2> QED BY <1>1, <2>1, <2>2, <2>3, <2>4, <2>5 DEF TypeOK, Begun, Opened
<1>3. PlanInv
  <2>1. DOMAIN cmds = {}
    BY DEF Begun, Opened
  <2> QED BY <2>1 DEF PlanInv, WellFormed, Begun, Opened
<1>4. TempInv
  BY DEF TempInv, Begun, Opened
<1> QED BY <1>2, <1>3, <1>4 DEF IInv

-----------------------------------------------------------------------------
(* ... a step of the planner preserves it, ...                             *)

\* What is derived from world does not change.
LEMMA WorldConstant ==
  ASSUME world' = world
  PROVE  /\ src' = src /\ SrcNodes' = SrcNodes /\ DstNodes' = DstNodes
         /\ Command' = Command /\ ScanState' = ScanState
BY DEF src, SrcNodes, DstNodes, Command, ScanState

\* A step that only adds commands to the plan and changes what the planner keeps.
LEMMA PlanStep ==
  ASSUME IInv, Planning, UNCHANGED <<world, execVars>>,
         NEW more \in Seq(Command), cmds' = cmds \o more,
         WellFormed(cmds \o more),
         todo' \subseteq SrcNodes, unmatched' \subseteq DstNodes,
         refs' \in [DstNodes -> Int],
         pc' \in {"plan", "match", "ranges", "exec"},
         pc' \in {"match", "ranges"} => scan' \in ScanState /\ IsFile(src, scan'.file),
         pc' = "match" => IsFile(dst, Resolve(world.dstRoot, relocs, scan'.file)),
         pc' = "ranges" => Len(cmds') # 0 /\ cmds'[Len(cmds')].op \in Openers
  PROVE  IInv'
<1>1. /\ dst' = dst /\ relocs' = relocs /\ next' = next /\ temp' = temp /\ world' = world
  BY DEF execVars
<1>2. /\ src' = src /\ SrcNodes' = SrcNodes /\ DstNodes' = DstNodes
      /\ Command' = Command /\ ScanState' = ScanState
  BY <1>1, WorldConstant
<1>3. next = 1
  BY DEF IInv, PlanInv
<1>4. cmds' \in Seq(Command) /\ Len(cmds') \in Nat
  <2>1. cmds \in Seq(Command)
    BY DEF IInv, TypeOK
  <2> QED BY <2>1, ConcatProperties, LenProperties
<1>5. TypeOK'
  <2>1. (/\ IsWorld(world) /\ IsTree(dst)
         /\ DOMAIN relocs \subseteq SrcNodes
         /\ \A p \in DOMAIN relocs : relocs[p] \in Path)'
    BY <1>1, <1>2 DEF IInv, TypeOK
  <2>2. next' \in 1..(Len(cmds') + 1)
    BY <1>1, <1>3, <1>4
  <2> QED BY <1>2, <1>4, <2>1, <2>2 DEF TypeOK
<1>6. PlanInv'
  <2>1. WellFormed(cmds)'
    BY <1>2 DEF WellFormed
  <2> QED BY <1>1, <1>2, <1>3, <2>1 DEF PlanInv, Located
<1>7. TempInv'
  BY <1>1, <1>3 DEF TempInv
<1> QED BY <1>5, <1>6, <1>7 DEF IInv

\* A visit that plans the commands `more`, none of which needs a temporary file.
LEMMA VisitStep ==
  ASSUME IInv, NEW p \in todo, Visit(p),
         NEW more \in Seq(Command), cmds' = cmds \o more,
         \A i \in 1..Len(more) :
           /\ more[i].op \notin Needers
           /\ more[i].op = "SrcFileDownload" => IsFile(src, more[i].path),
         refs' \in [DstNodes -> Int], pc' = "plan"
  PROVE  IInv'
<1>1. Planning /\ UNCHANGED <<world, execVars>>
  BY DEF Visit, Planning
<1>2. todo' \subseteq SrcNodes /\ unmatched' \subseteq DstNodes
  BY DEF Visit, IInv, TypeOK
<1>3. WellFormed(cmds \o more)
  <2>1. cmds \in Seq(Command) /\ WellFormed(cmds)
    BY DEF IInv, TypeOK, PlanInv
  <2>2. \A i \in 1..Len(more) :
           /\ more[i].op \in Needers =>
                IF i = 1 THEN Len(cmds) # 0 /\ cmds[Len(cmds)].op \in Openers
                ELSE more[i - 1].op \in Openers
           /\ more[i].op \in {"SrcTempCopy", "SrcFileDownload"} => IsFile(src, more[i].path)
    BY DEF Needers
  <2> QED BY <2>1, <2>2, WellFormedConcat
<1> QED BY <1>1, <1>2, <1>3, PlanStep

\* Sequences of no, one and two commands.
LEMMA ShortSeqs ==
  ASSUME NEW S, NEW c \in S, NEW d \in S
  PROVE  /\ <<c>> \in Seq(S) /\ Len(<<c>>) = 1 /\ <<c>>[1] = c
         /\ <<c, d>> \in Seq(S) /\ Len(<<c, d>>) = 2 /\ <<c, d>>[1] = c /\ <<c, d>>[2] = d
         /\ <<>> \in Seq(S) /\ Len(<<>>) = 0
OBVIOUS

\* A node that the destination has: one Keep or Transfer.
LEMMA PlanMatchedStep ==
  ASSUME IInv, NEW p \in todo, PlanMatched(p)
  PROVE  IInv'
<1>1. Visit(p) /\ p \in SrcNodes /\ pc' = "plan"
  BY DEF PlanMatched, IInv, TypeOK, Visit
<1>2. PICK q \in Match(p) :
        /\ refs' = [refs EXCEPT ![q] = @ + 1]
        /\ cmds' = Append(cmds, IF p = q THEN Keep(p) ELSE Transfer(q, p))
  BY DEF PlanMatched
<1>3. q \in DstNodes
  BY MatchNodes
<1> DEFINE c == IF p = q THEN Keep(p) ELSE Transfer(q, p)
<1>4. c \in Command /\ c.op \in {"Keep", "Transfer"}
  BY <1>1, <1>3, CommandTypes DEF Keep, Transfer
<1>5. refs' \in [DstNodes -> Int]
  BY <1>2, <1>3 DEF IInv, TypeOK
<1> HIDE DEF c
<1>6. cmds' = cmds \o <<c>>
  <2>1. cmds \in Seq(Command)
    BY DEF IInv, TypeOK
  <2> QED BY <2>1, <1>2, <1>4, AppendIsConcat DEF c
<1>7. \A i \in 1..Len(<<c>>) :
        <<c>>[i].op \notin Needers /\ <<c>>[i].op # "SrcFileDownload"
  BY <1>4 DEF Needers
<1>8. <<c>> \in Seq(Command)
  BY <1>4, ShortSeqs
<1> QED BY <1>1, <1>5, <1>6, <1>7, <1>8, VisitStep

\* A directory in the way of a file: a Conflict and a download of a file.
LEMMA PlanFileConflictStep ==
  ASSUME IInv, NEW p \in todo, PlanFileConflict(p)
  PROVE  IInv'
<1>1. Visit(p) /\ p \in SrcNodes /\ pc' = "plan" /\ IsFile(src, p)
  BY DEF PlanFileConflict, Plan, IInv, TypeOK, Visit
<1> DEFINE c == Conflict(p, FALSE)
           d == SrcFileDownload(p)
<1>2. c \in Command /\ d \in Command
  BY <1>1, CommandTypes
<1>3. c.op = "Conflict" /\ d.op = "SrcFileDownload" /\ d.path = p
  BY DEF Conflict, SrcFileDownload
<1>4. cmds' = cmds \o <<c, d>> /\ refs' \in [DstNodes -> Int]
  BY DEF PlanFileConflict, Plan, IInv, TypeOK
<1> HIDE DEF c, d
<1>5. \A i \in 1..Len(<<c, d>>) :
        /\ <<c, d>>[i].op \notin Needers
        /\ <<c, d>>[i].op = "SrcFileDownload" => IsFile(src, <<c, d>>[i].path)
  BY <1>1, <1>3 DEF Needers
<1> QED BY <1>1, <1>2, <1>4, <1>5, ShortSeqs, VisitStep

\* A file that is not there: a download of a file.
LEMMA PlanDownloadStep ==
  ASSUME IInv, NEW p \in todo, PlanDownload(p)
  PROVE  IInv'
<1>1. Visit(p) /\ p \in SrcNodes /\ pc' = "plan" /\ IsFile(src, p)
  BY DEF PlanDownload, Plan, IInv, TypeOK, Visit
<1> DEFINE d == SrcFileDownload(p)
<1>2. d \in Command /\ d.op = "SrcFileDownload" /\ d.path = p
  BY <1>1, CommandTypes DEF SrcFileDownload
<1>3. cmds' = cmds \o <<d>> /\ refs' \in [DstNodes -> Int]
  BY DEF PlanDownload, Plan, IInv, TypeOK
<1> HIDE DEF d
<1>4. \A i \in 1..Len(<<d>>) :
        <<d>>[i].op \notin Needers /\ IsFile(src, <<d>>[i].path)
  BY <1>1, <1>2 DEF Needers
<1>5. <<d>> \in Seq(Command)
  BY <1>2, ShortSeqs
<1> QED BY <1>1, <1>3, <1>4, <1>5, VisitStep

\* A directory: a Conflict, or nothing.
LEMMA PlanDirStep ==
  ASSUME IInv, NEW p \in todo, PlanDir(p)
  PROVE  IInv'
<1>1. Visit(p) /\ p \in SrcNodes /\ pc' = "plan"
  BY DEF PlanDir, Plan, IInv, TypeOK, Visit
<1> DEFINE c == Conflict(p, TRUE)
           more == IF IsFile(dst, Located(p)) THEN <<c>> ELSE <<>>
<1>2. c \in Command /\ c.op = "Conflict"
  BY <1>1, CommandTypes DEF Conflict
<1>3. cmds' = cmds \o more /\ refs' \in [DstNodes -> Int]
  BY DEF PlanDir, Plan, IInv, TypeOK
<1> HIDE DEF c
<1>4. more \in Seq(Command)
  BY <1>2, ShortSeqs
<1>5. \A i \in 1..Len(more) :
        more[i].op \notin Needers /\ more[i].op # "SrcFileDownload"
  BY <1>2 DEF Needers
<1> HIDE DEF more
<1> QED BY <1>1, <1>3, <1>4, <1>5, VisitStep

\* A step that adds no command.
LEMMA NoCommands ==
  ASSUME IInv
  PROVE  /\ <<>> \in Seq(Command) /\ cmds \o <<>> = cmds
         /\ WellFormed(cmds \o <<>>)
<1>1. cmds \in Seq(Command)
  BY DEF IInv, TypeOK
<1> QED BY <1>1, ConcatEmptySeq DEF IInv, PlanInv

\* A file to take blocks from: the scan begins, on a file.
LEMMA PlanFileStep ==
  ASSUME IInv, NEW p \in todo, PlanFile(p)
  PROVE  IInv'
<1>1. /\ Planning /\ UNCHANGED <<world, execVars>>
      /\ p \in SrcNodes /\ todo' \subseteq SrcNodes /\ unmatched' \subseteq DstNodes
  BY DEF PlanFile, Visit, Planning, IInv, TypeOK
<1>2. scan' \in ScanState /\ scan'.file = p
  <2>1. <<>> \in Seq([src : Nat, dst : Nat])
    OBVIOUS
  <2> QED BY <1>1, <2>1 DEF PlanFile, ScanState
<1>3. IsFile(src, p) /\ IsFile(dst, Resolve(world.dstRoot, relocs, p))
  BY DEF PlanFile, Located
<1>4. pc' = "match" /\ cmds' = cmds \o <<>> /\ refs' \in [DstNodes -> Int]
  BY NoCommands DEF PlanFile, IInv, TypeOK
<1> QED BY <1>1, <1>2, <1>3, <1>4, NoCommands, PlanStep

\* The steps of MatchFile add no command.
LEMMA MatchLoopStep ==
  ASSUME IInv, MatchBlock \/ MatchRoll
  PROVE  IInv'
<1>1. /\ Planning /\ UNCHANGED <<world, execVars>>
      /\ todo' \subseteq SrcNodes /\ unmatched' \subseteq DstNodes
      /\ refs' \in [DstNodes -> Int]
      /\ pc = "match" /\ pc' = "match" /\ cmds' = cmds
  BY DEF MatchBlock, MatchRoll, Planning, IInv, TypeOK
<1>2. cmds' = cmds \o <<>>
  BY <1>1, NoCommands
<1>3. scan \in ScanState /\ IsFile(src, scan.file) /\ IsFile(dst, Located(scan.file))
  BY <1>1 DEF IInv, TypeOK, PlanInv
<1>4. Local \in Seq(Byte) /\ scan.at \in Nat /\ BlockSize \in Nat
  BY <1>3, FileBytes, BlockSizeAssumption DEF IInv, TypeOK, Local, ScanState
<1>5. Len(Window) \in Nat
  BY <1>4, SliceType, LenProperties DEF Window
<1>6. scan' \in ScanState /\ scan'.file = scan.file
  <2>1. CASE MatchBlock
    <3>1. PICK b \in WindowMatch :
            scan' = [scan EXCEPT !.matches = Append(@, [src |-> b.offset, dst |-> scan.at]),
                                 !.at = @ + Len(Window)]
      BY <2>1 DEF MatchBlock
    <3> DEFINE m == [src |-> b.offset, dst |-> scan.at]
    <3>2. m \in [src : Nat, dst : Nat]
      BY <1>4, WindowMatchOffset
    <3>3. scan.matches \in Seq([src : Nat, dst : Nat])
      BY <1>3 DEF ScanState
    <3> HIDE DEF m
    <3>4. Append(scan.matches, m) \in Seq([src : Nat, dst : Nat])
      BY <3>2, <3>3, AppendProperties
    <3>5. scan' = [scan EXCEPT !.matches = Append(scan.matches, m),
                               !.at = scan.at + Len(Window)]
      BY <3>1 DEF m
    <3>6. scan.at + Len(Window) \in Nat
      BY <1>4, <1>5
    <3> QED BY <1>3, <3>4, <3>5, <3>6 DEF ScanState
  <2>2. CASE MatchRoll
    BY <2>2, <1>3, <1>4 DEF MatchRoll, ScanState
  <2> QED BY <2>1, <2>2
<1> QED BY <1>1, <1>2, <1>3, <1>6, NoCommands, PlanStep DEF Located

\* The copy of a block that was recognised.
CopyOf(m) ==
  LET left == Len(src[scan.file]) - m.src
  IN  LocalTempCopy(scan.file, m.src, m.dst, IF left > BlockSize THEN BlockSize ELSE left)

\* The first commands of the plan of a file.
LEMMA MatchDoneCommands ==
  ASSUME IInv, MatchDone
  PROVE  \E more \in Seq(Command) :
           /\ cmds' = cmds \o more
           /\ more[1] = LocalTemp(scan.file, Len(src[scan.file]))
           /\ Len(more) = Len(scan.matches) + 1
           /\ \A i \in 1..Len(scan.matches) : more[i + 1] = CopyOf(scan.matches[i])
           /\ more[1].op = "LocalTemp" /\ more[1].path = scan.file /\ Len(more) \in Nat \ {0}
           /\ \A i \in 2..Len(more) : more[i].op = "LocalTempCopy"
           /\ \A i \in 1..Len(more) : /\ more[i].op \in {"LocalTemp", "LocalTempCopy"}
                                      /\ more[i].path = scan.file
<1> DEFINE file == scan.file
           size == Len(src[file])
           length(m) == IF size - m.src > BlockSize THEN BlockSize ELSE size - m.src
           copy(m) == LocalTempCopy(file, m.src, m.dst, length(m))
           open == LocalTemp(file, size)
           copies == [i \in DOMAIN scan.matches |-> copy(scan.matches[i])]
           more == <<open>> \o copies
<1>1. pc = "match"
  BY DEF MatchDone
<1>2. scan \in ScanState /\ IsFile(src, file)
  BY <1>1 DEF IInv, TypeOK, PlanInv
<1>3. /\ file \in SrcNodes /\ size \in Nat /\ BlockSize \in Nat
      /\ scan.matches \in Seq([src : Nat, dst : Nat])
  <2>1. src[file] \in Seq(Byte)
    BY <1>2, FileBytes, WorldFacts DEF IInv, TypeOK
  <2> QED BY <1>2, <2>1, LenProperties, BlockSizeAssumption DEF ScanState
<1>4. open \in Command /\ open.op = "LocalTemp" /\ open.path = file
  BY <1>3, CommandTypes DEF LocalTemp
<1>5. \A i \in DOMAIN scan.matches :
        /\ copy(scan.matches[i]) \in Command
        /\ copy(scan.matches[i]).op = "LocalTempCopy" /\ copy(scan.matches[i]).path = file
  <2> SUFFICES ASSUME NEW i \in DOMAIN scan.matches
               PROVE  /\ copy(scan.matches[i]) \in Command
                      /\ copy(scan.matches[i]).op = "LocalTempCopy"
                      /\ copy(scan.matches[i]).path = file
    OBVIOUS
  <2> DEFINE m == scan.matches[i]
  <2>1. m.src \in Nat /\ m.dst \in Nat
    <3>1. i \in 1..Len(scan.matches)
      BY <1>3, LenProperties
    <3>2. m \in [src : Nat, dst : Nat]
      BY <1>3, <3>1, ElementOfSeq
    <3> QED BY <3>2
  <2> HIDE DEF m
  <2>2. length(m) \in Int
    BY <2>1, <1>3
  <2> HIDE DEF length
  <2> QED BY <2>1, <2>2, <1>3, CommandTypes DEF LocalTempCopy, m
<1>16. \A i \in DOMAIN scan.matches : copy(scan.matches[i]) = CopyOf(scan.matches[i])
  BY DEF CopyOf
<1>17. open = LocalTemp(scan.file, Len(src[scan.file]))
  OBVIOUS
<1> HIDE DEF open, copy
<1>6. /\ Len(scan.matches) \in Nat /\ DOMAIN scan.matches = 1..Len(scan.matches)
      /\ copies \in Seq(Command) /\ Len(copies) = Len(scan.matches)
  <2>1. Len(scan.matches) \in Nat /\ DOMAIN scan.matches = 1..Len(scan.matches)
    BY <1>3, LenProperties
  <2>2. copies \in [1..Len(scan.matches) -> Command]
    BY <1>5, <2>1
  <2>3. copies \in Seq(Command)
    BY <2>1, <2>2, SeqDef
  <2>4. DOMAIN copies = 1..Len(scan.matches)
    BY <2>1
  <2> HIDE DEF copies
  <2>5. Len(copies) = Len(scan.matches)
    BY <2>1, <2>3, <2>4, LenProperties
  <2> QED BY <2>1, <2>3, <2>5
<1>7. \A i \in 1..Len(copies) : copies[i].op = "LocalTempCopy"
  BY <1>5, <1>6
<1>15. \A i \in 1..Len(copies) : copies[i].path = file
  BY <1>5, <1>6
<1>18. \A i \in 1..Len(copies) : copies[i] = CopyOf(scan.matches[i])
  BY <1>6, <1>16
<1> HIDE DEF copies
<1>8. <<open>> \in Seq(Command) /\ Len(<<open>>) = 1 /\ <<open>>[1] = open
  BY <1>4, ShortSeqs
<1>9. /\ more \in Seq(Command) /\ Len(more) = 1 + Len(copies)
      /\ \A i \in 1..(1 + Len(copies)) : more[i] = IF i <= 1 THEN open ELSE copies[i - 1]
  <2>1. /\ more \in Seq(Command) /\ Len(more) = Len(<<open>>) + Len(copies)
        /\ \A i \in 1..(Len(<<open>>) + Len(copies)) :
             more[i] = IF i <= Len(<<open>>) THEN <<open>>[i] ELSE copies[i - Len(<<open>>)]
    BY <1>6, <1>8, ConcatProperties
  <2> HIDE DEF more
  <2> QED BY <1>8, <2>1, <1>6
<1> HIDE DEF more
<1>10. /\ \A i \in 2..Len(more) : more[i].op = "LocalTempCopy"
       /\ more[1].op = "LocalTemp" /\ more[1].path = file
       /\ Len(more) \in Nat \ {0}
  BY <1>4, <1>6, <1>7, <1>9
<1>14. \A i \in 1..Len(more) : more[i].path = file
  <2> SUFFICES ASSUME NEW i \in 1..Len(more), i # 1  PROVE more[i].path = file
    BY <1>10
  <2>1. i - 1 \in 1..Len(copies) /\ more[i] = copies[i - 1]
    BY <1>6, <1>9
  <2> QED BY <1>15, <2>1
<1>11. cmds \in Seq(Command)
  BY DEF IInv, TypeOK
<1>12. cmds' = cmds \o more
  <2>1. cmds' = (cmds \o <<open>>) \o copies
    BY DEF MatchDone, open, copies, copy, more
  <2> QED BY <2>1, <1>6, <1>8, <1>11, ConcatAssociative DEF more
<1>13. \A i \in 1..Len(more) : /\ more[i].op \in {"LocalTemp", "LocalTempCopy"}
                               /\ more[i].path = file
  BY <1>10, <1>14
<1>19. \A i \in 1..Len(scan.matches) : more[i + 1] = CopyOf(scan.matches[i])
  <2> SUFFICES ASSUME NEW i \in 1..Len(scan.matches)  PROVE more[i + 1] = CopyOf(scan.matches[i])
    OBVIOUS
  <2> DEFINE j == i + 1
  <2>1. j \in 1..(1 + Len(copies)) /\ ~(j <= 1) /\ j - 1 = i /\ i \in 1..Len(copies)
    BY <1>6
  <2> HIDE DEF j
  <2>2. more[j] = copies[i]
    BY <1>9, <2>1
  <2> QED BY <1>18, <2>1, <2>2 DEF j
<1>20. more[1] = LocalTemp(scan.file, Len(src[scan.file])) /\ Len(more) = Len(scan.matches) + 1
  BY <1>6, <1>9, <1>17
<1> QED BY <1>9, <1>10, <1>12, <1>13, <1>19, <1>20

\* The end of the scan: the temporary file is open for the ranges.
LEMMA MatchDoneStep ==
  ASSUME IInv, MatchDone
  PROVE  IInv'
<1>1. /\ Planning /\ UNCHANGED <<world, execVars>>
      /\ todo' \subseteq SrcNodes /\ unmatched' \subseteq DstNodes
      /\ refs' \in [DstNodes -> Int]
      /\ pc = "match" /\ pc' = "ranges" /\ scan' = scan
  BY DEF MatchDone, Planning, IInv, TypeOK
<1>2. scan \in ScanState /\ IsFile(src, scan.file)
  BY <1>1 DEF IInv, TypeOK, PlanInv
<1>3. PICK more \in Seq(Command) :
        /\ cmds' = cmds \o more
        /\ more[1].op = "LocalTemp" /\ Len(more) \in Nat \ {0}
        /\ \A i \in 2..Len(more) : more[i].op = "LocalTempCopy"
  BY MatchDoneCommands
<1>4. cmds \in Seq(Command) /\ WellFormed(cmds)
  BY DEF IInv, TypeOK, PlanInv
<1>5. WellFormed(cmds \o more)
  <2>1. \A i \in 1..Len(more) :
           /\ more[i].op \in Needers =>
                IF i = 1 THEN Len(cmds) # 0 /\ cmds[Len(cmds)].op \in Openers
                ELSE more[i - 1].op \in Openers
           /\ more[i].op \in {"SrcTempCopy", "SrcFileDownload"} => IsFile(src, more[i].path)
    BY <1>3 DEF Needers, Openers
  <2> QED BY <2>1, <1>4, WellFormedConcat
<1>6. Len(cmds') # 0 /\ cmds'[Len(cmds')].op \in Openers
  <2>1. Len(cmds) \in Nat
    BY <1>4, LenProperties
  <2>2. /\ Len(cmds \o more) = Len(cmds) + Len(more)
        /\ \A i \in 1..(Len(cmds) + Len(more)) :
             (cmds \o more)[i] = IF i <= Len(cmds) THEN cmds[i] ELSE more[i - Len(cmds)]
    BY <1>4, ConcatProperties
  <2>3. Len(cmds') = Len(cmds) + Len(more) /\ cmds'[Len(cmds')] = more[Len(more)]
    BY <1>3, <2>1, <2>2
  <2>4. more[Len(more)].op \in Openers
    BY <1>3 DEF Openers
  <2> QED BY <1>3, <2>1, <2>3, <2>4
<1> QED BY <1>1, <1>2, <1>3, <1>5, <1>6, PlanStep

\* The gaps NotMatched finds, and the end of the file's plan.
LEMMA FetchToFacts ==
  ASSUME IInv, pc = "ranges", NEW end \in Nat
  PROVE  /\ FetchTo(end) \in Seq(Command)
         /\ Len(FetchTo(end)) \in {0, 1}
         /\ \A i \in 1..Len(FetchTo(end)) :
              /\ FetchTo(end)[i].op = "SrcTempCopy" /\ IsFile(src, FetchTo(end)[i].path)
              /\ FetchTo(end)[i].path = scan.file
<1>1. /\ scan.file \in SrcNodes /\ scan.start \in Nat /\ IsFile(src, scan.file)
  BY DEF IInv, TypeOK, PlanInv, ScanState
<1> DEFINE c == SrcTempCopy(scan.file, scan.start, scan.start, end - scan.start)
<1>2. c \in Command /\ c.op = "SrcTempCopy" /\ c.path = scan.file
  <2>1. end - scan.start \in Int
    BY <1>1
  <2> QED BY <1>1, <2>1, CommandTypes DEF SrcTempCopy
<1>3. FetchTo(end) = IF scan.start < end THEN <<c>> ELSE <<>>
  BY DEF FetchTo
<1> HIDE DEF c
<1>4. <<c>> \in Seq(Command) /\ Len(<<c>>) = 1 /\ <<c>>[1] = c
  BY <1>2, ShortSeqs
<1>5. <<>> \in Seq(Command) /\ Len(<<>>) = 0
  BY EmptySeq
<1>6. CASE scan.start < end
  <2>1. FetchTo(end) = <<c>>
    BY <1>3, <1>6
  <2> QED BY <2>1, <1>1, <1>2, <1>4
<1>7. CASE ~(scan.start < end)
  <2>1. FetchTo(end) = <<>>
    BY <1>3, <1>7
  <2> QED BY <2>1, <1>5
<1> QED BY <1>6, <1>7

\* What a list of commands that leaves a temporary file open is after a gap is added.
LEMMA FetchWellFormed ==
  ASSUME IInv, pc = "ranges", NEW end \in Nat
  PROVE  /\ cmds \o FetchTo(end) \in Seq(Command)
         /\ WellFormed(cmds \o FetchTo(end))
         /\ Len(cmds \o FetchTo(end)) # 0
         /\ (cmds \o FetchTo(end))[Len(cmds \o FetchTo(end))].op \in Openers
<1> DEFINE more == FetchTo(end)
           all  == cmds \o more
<1>1. /\ more \in Seq(Command) /\ Len(more) \in {0, 1}
      /\ \A i \in 1..Len(more) : more[i].op = "SrcTempCopy" /\ IsFile(src, more[i].path)
  BY FetchToFacts
<1>2. /\ cmds \in Seq(Command) /\ WellFormed(cmds)
      /\ Len(cmds) # 0 /\ cmds[Len(cmds)].op \in Openers
  BY DEF IInv, TypeOK, PlanInv
<1> HIDE DEF more
<1>3. WellFormed(all)
  <2>1. \A i \in 1..Len(more) :
           /\ more[i].op \in Needers =>
                IF i = 1 THEN Len(cmds) # 0 /\ cmds[Len(cmds)].op \in Openers
                ELSE more[i - 1].op \in Openers
           /\ more[i].op \in {"SrcTempCopy", "SrcFileDownload"} => IsFile(src, more[i].path)
    BY <1>1, <1>2
  <2> QED BY <2>1, <1>1, <1>2, WellFormedConcat
<1>4. /\ all \in Seq(Command) /\ Len(all) = Len(cmds) + Len(more) /\ Len(cmds) \in Nat
      /\ \A i \in 1..(Len(cmds) + Len(more)) :
           all[i] = IF i <= Len(cmds) THEN cmds[i] ELSE more[i - Len(cmds)]
  BY <1>1, <1>2, ConcatProperties, LenProperties
<1> HIDE DEF all
<1>5. Len(all) # 0 /\ all[Len(all)].op \in Openers
  <2>1. CASE Len(more) = 0
    BY <2>1, <1>2, <1>4
  <2>2. CASE Len(more) = 1
    <3>1. Len(all) = Len(cmds) + 1 /\ all[Len(cmds) + 1] = more[1]
      BY <2>2, <1>4
    <3>2. more[1].op = "SrcTempCopy"
      BY <2>2, <1>1
    <3> QED BY <3>1, <3>2, <1>4 DEF Openers
  <2> QED BY <2>1, <2>2, <1>1
<1> QED BY <1>3, <1>4, <1>5 DEF all, more

\* One gap between two blocks.
LEMMA PlanRangeStep ==
  ASSUME IInv, PlanRange
  PROVE  IInv'
<1> DEFINE m == scan.matches[scan.range]
<1>1. /\ Planning /\ UNCHANGED <<world, execVars>>
      /\ todo' \subseteq SrcNodes /\ unmatched' \subseteq DstNodes
      /\ refs' \in [DstNodes -> Int]
      /\ pc = "ranges" /\ pc' = "ranges"
  BY DEF PlanRange, Planning, IInv, TypeOK
<1>2. scan \in ScanState /\ IsFile(src, scan.file) /\ BlockSize \in Nat
  BY <1>1, BlockSizeAssumption DEF IInv, TypeOK, PlanInv
<1>3. m \in [src : Nat, dst : Nat]
  <2>1. scan.matches \in Seq([src : Nat, dst : Nat])
    BY <1>2 DEF ScanState
  <2>2. scan.range \in 1..Len(scan.matches)
    BY <2>1, LenProperties DEF PlanRange
  <2> QED BY <2>1, <2>2, ElementOfSeq
<1>4. m.dst \in Nat
  BY <1>3
<1>5. scan' \in ScanState /\ scan'.file = scan.file
  <2>1. m.dst + BlockSize \in Nat
    BY <1>2, <1>4
  <2> DEFINE k == m.dst + BlockSize
             r == scan.range + 1
  <2>2. scan' = [scan EXCEPT !.start = k, !.range = r]
    BY DEF PlanRange
  <2>3. k \in Nat /\ r \in Nat
    BY <1>2, <2>1 DEF ScanState
  <2> HIDE DEF k, r
  <2> QED BY <1>2, <2>2, <2>3 DEF ScanState
<1>6. cmds' = cmds \o FetchTo(m.dst)
  BY DEF PlanRange
<1> HIDE DEF m
<1>7. FetchTo(m.dst) \in Seq(Command)
  BY <1>1, <1>4, FetchToFacts
<1> QED BY <1>1, <1>2, <1>4, <1>5, <1>6, <1>7, FetchWellFormed, PlanStep

\* The last gap, and the temporary file is still open for ReplaceWithTemp.
LEMMA PlanFileDoneStep ==
  ASSUME IInv, PlanFileDone
  PROVE  IInv'
<1> DEFINE file == scan.file
           gap  == FetchTo(Len(src[file]))
           c    == ReplaceWithTemp(file)
           more == gap \o <<c>>
<1>1. /\ Planning /\ UNCHANGED <<world, execVars>>
      /\ todo' \subseteq SrcNodes /\ unmatched' \subseteq DstNodes
      /\ refs' \in [DstNodes -> Int]
      /\ pc = "ranges" /\ pc' = "plan"
  BY DEF PlanFileDone, Planning, IInv, TypeOK
<1>2. file \in SrcNodes /\ IsFile(src, file)
  BY <1>1 DEF IInv, TypeOK, PlanInv, ScanState
<1>3. Len(src[file]) \in Nat
  <2>1. src[file] \in Seq(Byte)
    BY <1>2, FileBytes, WorldFacts DEF IInv, TypeOK
  <2> QED BY <2>1, LenProperties
<1>4. c \in Command /\ c.op = "ReplaceWithTemp"
  BY <1>2, CommandTypes DEF ReplaceWithTemp
<1>5. cmds \in Seq(Command) /\ gap \in Seq(Command)
  BY <1>1, <1>3, FetchToFacts DEF IInv, TypeOK
<1>6. /\ cmds \o gap \in Seq(Command) /\ WellFormed(cmds \o gap)
      /\ Len(cmds \o gap) # 0 /\ (cmds \o gap)[Len(cmds \o gap)].op \in Openers
  BY <1>1, <1>3, FetchWellFormed
<1>7. cmds' = (cmds \o gap) \o <<c>>
  BY DEF PlanFileDone
<1> HIDE DEF gap, c
<1>8. <<c>> \in Seq(Command) /\ Len(<<c>>) = 1 /\ <<c>>[1] = c
  BY <1>4, ShortSeqs
<1>9. WellFormed((cmds \o gap) \o <<c>>)
  <2>1. \A i \in 1..Len(<<c>>) :
           /\ <<c>>[i].op \in Needers =>
                IF i = 1 THEN Len(cmds \o gap) # 0 /\ (cmds \o gap)[Len(cmds \o gap)].op \in Openers
                ELSE <<c>>[i - 1].op \in Openers
           /\ <<c>>[i].op \in {"SrcTempCopy", "SrcFileDownload"} => IsFile(src, <<c>>[i].path)
    BY <1>4, <1>6, <1>8
  <2> QED BY <2>1, <1>6, <1>8, WellFormedConcat
<1>10. (cmds \o gap) \o <<c>> = cmds \o more /\ more \in Seq(Command)
  BY <1>5, <1>8, ConcatAssociative, ConcatProperties
<1> HIDE DEF more
<1>11. cmds' = cmds \o more /\ WellFormed(cmds \o more)
  BY <1>7, <1>9, <1>10
<1> QED BY <1>1, <1>10, <1>11, PlanStep

\* The end of the plan; no command has run.
LEMMA PlanDoneStep ==
  ASSUME IInv, PlanDone
  PROVE  IInv'
<1>1. /\ Planning /\ UNCHANGED <<world, execVars>>
      /\ todo' \subseteq SrcNodes /\ unmatched' \subseteq DstNodes
      /\ refs' \in [DstNodes -> Int]
      /\ pc' = "exec" /\ cmds' = cmds \o <<>>
  BY NoCommands DEF PlanDone, Planning, IInv, TypeOK, planVars
<1> QED BY <1>1, NoCommands, PlanStep

\* Every step of the planner.
LEMMA PlannerStep ==
  ASSUME IInv, Planner
  PROVE  IInv'
BY PlanMatchedStep, PlanFileConflictStep, PlanDownloadStep, PlanFileStep, PlanDirStep,
   MatchLoopStep, MatchDoneStep, PlanRangeStep, PlanFileDoneStep, PlanDoneStep
   DEF Planner

-----------------------------------------------------------------------------
(* ... and so does every command, the end of Exec, and Clean.              *)

\* The fields of a command, by its type.
LEMMA CommandFields ==
  ASSUME NEW c \in Command
  PROVE  /\ c.path \in SrcNodes
         /\ c.op = "Transfer" => c.from \in DstNodes
         /\ c.op = "LocalTemp" => c.size \in Nat
         /\ c.op \in {"LocalTempCopy", "SrcTempCopy"} =>
              c.from \in Nat /\ c.to \in Nat /\ c.length \in Int
BY DEF Command

\* A step after planning that leaves a tree and opens no temporary file wrongly.
LEMMA RunStep ==
  ASSUME IInv, ~Planning, UNCHANGED <<world, todo, cmds, scan>>,
         unmatched' \subseteq DstNodes, refs' \in [DstNodes -> Int],
         IsTree(dst'), DOMAIN relocs' \subseteq SrcNodes,
         \A p \in DOMAIN relocs' : relocs'[p] \in Path,
         pc' \in {"exec", "done", "failed", "clean"},
         next' \in 1..(Len(cmds) + 1),
         TempInv'
  PROVE  IInv'
<1>1. /\ src' = src /\ SrcNodes' = SrcNodes /\ DstNodes' = DstNodes
      /\ Command' = Command /\ ScanState' = ScanState
  BY WorldConstant
<1>2. TypeOK'
  BY <1>1 DEF IInv, TypeOK
<1>3. PlanInv'
  BY <1>1 DEF IInv, PlanInv, WellFormed, Planning
<1> QED BY <1>2, <1>3 DEF IInv

\* Exec is about to take a command of this type.
At(op) == pc = "exec" /\ next <= Len(cmds) /\ cmds[next].op = op

LEMMA TakeAt ==
  ASSUME NEW op, Take(op)
  PROVE  At(op)
BY DEF Take, At

\* What is known of the command that is next.
LEMMA AtFacts ==
  ASSUME IInv, NEW op, At(op)
  PROVE  /\ ~Planning /\ pc = "exec"
         /\ next \in 1..Len(cmds) /\ cmds[next] \in Command /\ cmds[next].op = op
         /\ cmds[next].path \in SrcNodes /\ Located(cmds[next].path) \in Path
<1>1. cmds \in Seq(Command) /\ next \in 1..(Len(cmds) + 1) /\ Len(cmds) \in Nat
  BY LenProperties DEF IInv, TypeOK
<1>2. ~Planning /\ pc = "exec" /\ next <= Len(cmds) /\ cmds[next].op = op
  BY DEF At, Planning
<1>3. next \in 1..Len(cmds) /\ cmds[next] \in Command
  BY <1>1, <1>2, ElementOfSeq
<1>4. cmds[next].path \in SrcNodes
  BY <1>3, CommandFields
<1>5. Located(cmds[next].path) \in Path
  BY <1>4, LocatedPath DEF IInv
<1> QED BY <1>2, <1>3, <1>4, <1>5

\* What is known of the command that Exec takes.
LEMMA TakeFacts ==
  ASSUME IInv, NEW op, Take(op)
  PROVE  /\ ~Planning /\ pc = "exec" /\ UNCHANGED <<world, todo, cmds, scan>>
         /\ unmatched' \subseteq DstNodes
         /\ next \in 1..Len(cmds) /\ next' \in 1..(Len(cmds) + 1)
         /\ cmds[next] \in Command /\ cmds[next].op = op
         /\ cmds[next].path \in SrcNodes /\ Located(cmds[next].path) \in Path
         /\ next' > 1 /\ cmds'[next' - 1] = cmds[next]
<1>1. /\ ~Planning /\ pc = "exec"
      /\ next \in 1..Len(cmds) /\ cmds[next] \in Command /\ cmds[next].op = op
      /\ cmds[next].path \in SrcNodes /\ Located(cmds[next].path) \in Path
  BY TakeAt, AtFacts
<1>2. /\ UNCHANGED <<world, todo, cmds, scan>>
      /\ unmatched' = unmatched /\ next' = next + 1
  BY DEF Take
<1>3. unmatched' \subseteq DstNodes
  BY <1>2 DEF IInv, TypeOK
<1>4. next' \in 1..(Len(cmds) + 1) /\ next' > 1 /\ cmds'[next' - 1] = cmds[next]
  BY <1>1, <1>2
<1> QED BY <1>1, <1>2, <1>3, <1>4

\* relocs and refs are typed in any state of the invariant.
LEMMA MapFacts ==
  ASSUME IInv
  PROVE  /\ DOMAIN relocs \subseteq SrcNodes
         /\ \A p \in DOMAIN relocs : relocs[p] \in Path
         /\ refs \in [DstNodes -> Int]
         /\ IsTree(dst)
BY DEF IInv, TypeOK

\* A command that leaves no temporary file open.
LEMMA PlainCommand ==
  ASSUME IInv, NEW op, Take(op), op \notin Openers,
         refs' \in [DstNodes -> Int],
         IsTree(dst'), DOMAIN relocs' \subseteq SrcNodes,
         \A p \in DOMAIN relocs' : relocs'[p] \in Path,
         pc' \in {"exec", "failed"}
  PROVE  IInv'
<1>1. TempInv'
  BY TakeFacts DEF TempInv
<1> QED BY <1>1, TakeFacts, RunStep

\* A file or directory is moved or copied, or the count underflows.
LEMMA TransferStep ==
  ASSUME IInv, ExecTransfer
  PROVE  IInv'
<1> DEFINE c    == cmds[next]
           left == refs[c.from] - 1
           from == Located(c.from)
           to   == Located(c.path)
<1>1. Take("Transfer") /\ UNCHANGED <<relocs, temp>>
  BY DEF ExecTransfer
<1>2. c \in Command /\ c.op = "Transfer" /\ to \in Path
  BY <1>1, TakeFacts
<1>3. c.from \in DstNodes /\ from \in Path
  BY <1>2, CommandFields, LocatedPath DEF IInv
<1>4. refs' = [refs EXCEPT ![c.from] = left] /\ left \in Int
  BY <1>3, MapFacts DEF ExecTransfer
<1>5. refs' \in [DstNodes -> Int]
  BY <1>4, MapFacts
<1>6. /\ dst' \in {MoveInto(dst, from, to).tree, CopyInto(dst, from, to).tree, Err(dst).tree}
      /\ pc' \in {"exec", "failed"}
  BY DEF ExecTransfer, Finish
<1> HIDE DEF c, from, to, left
<1>7. IsTree(dst')
  BY <1>2, <1>3, <1>6, MapFacts, MoveIntoTree, CopyIntoTree DEF Err
<1> QED BY <1>1, <1>5, <1>6, <1>7, MapFacts, PlainCommand DEF Openers

\* A Keep does nothing.
LEMMA KeepStep ==
  ASSUME IInv, ExecKeep
  PROVE  IInv'
<1>1. Take("Keep") /\ UNCHANGED <<dst, pc, refs, relocs>> /\ pc = "exec"
  BY DEF ExecKeep, Take
<1> QED BY <1>1, MapFacts, PlainCommand DEF Openers

\* TempFile's names are paths that do not exist.
LEMMA FreshPathsArePaths ==
  ASSUME NEW dir \in Path, NEW fresh \in FreshPaths(dst, dir)
  PROVE  fresh \in Path
<1>1. PICK n \in TempName : fresh = Append(dir, n)
  BY DEF FreshPaths
<1> QED BY <1>1, TempNameAssumption, AppendProperties DEF Path

\* Something is moved out of the way, to a path.
LEMMA ConflictStep ==
  ASSUME IInv, ExecConflict
  PROVE  IInv'
<1> DEFINE p == cmds[next].path
<1>1. Take("Conflict") /\ refs' = refs
  BY DEF ExecConflict
<1>2. p \in SrcNodes /\ p \in Path
  BY <1>1, TakeFacts, WorldFacts DEF IInv, TypeOK
<1>3. PICK fresh \in FreshPaths(dst, <<>>) :
        /\ Finish(Move(dst, p, fresh))
        /\ relocs' = IF Move(dst, p, fresh).ok THEN Put(relocs, p, fresh) ELSE relocs
  BY DEF ExecConflict
<1>4. fresh \in Path
  BY FreshPathsArePaths, EmptySeq DEF Path
<1>5. IsTree(dst') /\ pc' \in {"exec", "failed"}
  BY <1>2, <1>3, <1>4, MapFacts, MoveTree DEF Finish
<1>6. DOMAIN relocs' \subseteq SrcNodes /\ \A q \in DOMAIN relocs' : relocs'[q] \in Path
  BY <1>2, <1>3, <1>4, MapFacts DEF Put
<1> QED BY <1>1, <1>5, <1>6, MapFacts, PlainCommand DEF Openers

\* A conflict that cannot be relocated changes nothing.
LEMMA ConflictFailsStep ==
  ASSUME IInv, ExecConflictFails
  PROVE  IInv'
<1>1. /\ Take("Conflict") /\ UNCHANGED <<refs, relocs>>
      /\ dst' = dst /\ pc' = "failed"
  BY DEF ExecConflictFails, Finish, Err
<1> QED BY <1>1, MapFacts, PlainCommand DEF Openers

\* A temporary file of zeros is created, and is open.
LEMMA LocalTempStep ==
  ASSUME IInv, ExecLocalTemp
  PROVE  IInv'
<1> DEFINE c == cmds[next]
           p == Located(c.path)
<1>1. Take("LocalTemp") /\ UNCHANGED <<refs, relocs>>
  BY DEF ExecLocalTemp
<1>2. c \in Command /\ c.op = "LocalTemp" /\ p \in Path
  BY <1>1, TakeFacts
<1>3. c.size \in Nat
  BY <1>2, CommandFields
<1>4. CASE ~Exists(dst, p)
  <2>1. dst' = dst /\ pc' = "failed"
    BY <1>4 DEF ExecLocalTemp, Finish, Err
  <2>2. TempInv'
    BY <2>1 DEF TempInv
  <2> QED BY <1>1, <2>1, <2>2, MapFacts, TakeFacts, RunStep
<1>5. CASE Exists(dst, p)
  <2>1. PICK file \in FreshPaths(dst, ParentDir(p)) :
          /\ dst' = Put(dst, file, Zeros(c.size)) /\ pc' = "exec"
          /\ temp' = [local |-> dst[p], file |-> file]
    BY <1>5 DEF ExecLocalTemp, Finish, Ok
  <2>2. file \in Path
    BY <1>2, PrefixPath, FreshPathsArePaths
  <2>3. Zeros(c.size) \in Seq(Byte) /\ dst[p] \in Entry
    BY <1>3, <1>5, ZerosType, MapFacts DEF IsTree, Exists
  <2>4. IsTree(dst')
    BY <2>1, <2>2, <2>3, MapFacts, PutTree DEF Entry
  <2>5. TempInv'
    BY <2>1, <2>3 DEF TempInv, Put
  <2> QED BY <1>1, <2>1, <2>4, <2>5, MapFacts, TakeFacts, RunStep
<1> QED BY <1>4, <1>5

\* Writing to the open temporary file.
LEMMA CopyToTempFacts ==
  ASSUME IInv, temp.file \in DOMAIN dst, dst[temp.file] \in Seq(Byte),
         NEW c, c.from \in Nat, c.to \in Nat, c.length \in Int,
         NEW contents \in Seq(Byte)
  PROVE  LET t == CopyToTemp(c, contents).tree
         IN  IsTree(t) /\ temp.file \in DOMAIN t /\ t[temp.file] \in Seq(Byte)
<1> DEFINE bytes == IF c.length <= 0 THEN <<>> ELSE Slice(contents, c.from, c.length)
           after == WriteAt(dst[temp.file], c.to, bytes)
<1>1. bytes \in Seq(Byte)
  BY SliceType, EmptySeq
<1> HIDE DEF bytes
<1>2. after \in Seq(Byte)
  BY <1>1, WriteAtType
<1> HIDE DEF after
<1>3. IsTree(Put(dst, temp.file, after))
  BY <1>2, MapFacts, PutTree DEF IsTree, Entry
<1>4. CopyToTemp(c, contents).tree = Put(dst, temp.file, after)
  BY DEF CopyToTemp, Ok, Err, after, bytes
<1>5. temp.file \in DOMAIN Put(dst, temp.file, after) /\ Put(dst, temp.file, after)[temp.file] = after
  BY DEF Put
<1> QED BY <1>2, <1>3, <1>4, <1>5

\* A command on a temporary file finds it open.
LEMMA TempIsOpen ==
  ASSUME IInv, NEW op \in Needers, At(op)
  PROVE  /\ temp.file \in DOMAIN dst /\ dst[temp.file] \in Seq(Byte) /\ temp.local \in Entry
         /\ temp.file \in Path
<1>1. next \in DOMAIN cmds /\ cmds[next].op \in Needers /\ pc = "exec"
  BY AtFacts, LenProperties DEF IInv, TypeOK
<1>2. next - 1 \in DOMAIN cmds /\ cmds[next - 1].op \in Openers
  BY <1>1 DEF IInv, PlanInv, WellFormed
<1>3. next > 1
  BY <1>2, LenProperties, AtFacts DEF IInv, TypeOK
<1> QED BY <1>1, <1>2, <1>3, MapFacts DEF IInv, TempInv, IsTree

\* A copy into the open temporary file, from a file's contents.
LEMMA CopyCommand ==
  ASSUME IInv, NEW op \in {"LocalTempCopy", "SrcTempCopy"}, Take(op),
         NEW contents \in Entry,
         Finish(IF contents = Dir THEN Err(dst) ELSE CopyToTemp(cmds[next], contents)),
         UNCHANGED <<refs, relocs, temp>>
  PROVE  IInv'
<1>1. /\ temp.file \in DOMAIN dst /\ dst[temp.file] \in Seq(Byte) /\ temp.local \in Entry
  BY TempIsOpen, TakeAt DEF Needers
<1>2. cmds[next] \in Command /\ cmds[next].op = op
  BY TakeFacts
<1>3. cmds[next].from \in Nat /\ cmds[next].to \in Nat /\ cmds[next].length \in Int
  BY <1>2, CommandFields
<1>4. IsTree(dst') /\ temp.file \in DOMAIN dst' /\ dst'[temp.file] \in Seq(Byte)
  <2>1. CASE contents = Dir
    BY <2>1, <1>1, MapFacts DEF Finish, Err
  <2>2. CASE contents # Dir
    <3>1. contents \in Seq(Byte)
      BY <2>2 DEF Entry
    <3> QED BY <2>2, <3>1, <1>1, <1>3, CopyToTempFacts DEF Finish
  <2> QED BY <2>1, <2>2
<1>5. pc' \in {"exec", "failed"}
  BY DEF Finish
<1>6. TempInv'
  BY <1>1, <1>4 DEF TempInv
<1> QED BY <1>4, <1>5, <1>6, MapFacts, TakeFacts, RunStep

\* A block of the open local file is copied to the temporary file.
LEMMA LocalTempCopyStep ==
  ASSUME IInv, ExecLocalTempCopy
  PROVE  IInv'
<1>1. Take("LocalTempCopy")
  BY DEF ExecLocalTempCopy
<1>2. temp.local \in Entry
  BY <1>1, TempIsOpen, TakeAt DEF Needers
<1> QED BY <1>1, <1>2, CopyCommand DEF ExecLocalTempCopy

\* A range of a source file is copied to the temporary file.
LEMMA SrcTempCopyStep ==
  ASSUME IInv, ExecSrcTempCopy
  PROVE  IInv'
<1> DEFINE contents == src[cmds[next].path]
<1>1. Take("SrcTempCopy")
  BY DEF ExecSrcTempCopy
<1>2. next \in DOMAIN cmds /\ cmds[next].op = "SrcTempCopy"
  BY <1>1, TakeFacts, LenProperties DEF IInv, TypeOK
<1>3. IsFile(src, cmds[next].path)
  BY <1>2 DEF IInv, PlanInv, WellFormed
<1>4. contents \in Seq(Byte)
  BY <1>3, FileBytes, WorldFacts DEF IInv, TypeOK
<1>5. contents \in Entry /\ contents # Dir
  BY <1>4, EntryAssumption DEF Entry
<1>6. Finish(CopyToTemp(cmds[next], contents)) /\ UNCHANGED <<refs, relocs, temp>>
  BY DEF ExecSrcTempCopy
<1> HIDE DEF contents
<1>7. Finish(IF contents = Dir THEN Err(dst) ELSE CopyToTemp(cmds[next], contents))
  BY <1>5, <1>6
<1> QED BY <1>1, <1>5, <1>6, <1>7, CopyCommand

\* The temporary file takes the place of the file; it is open no more.
LEMMA ReplaceWithTempStep ==
  ASSUME IInv, ExecReplaceWithTemp
  PROVE  IInv'
<1> DEFINE p       == Located(cmds[next].path)
           removed == OsRemove(dst, p)
<1>1. Take("ReplaceWithTemp") /\ UNCHANGED <<refs, relocs>>
  BY DEF ExecReplaceWithTemp
<1>2. p \in Path /\ temp.file \in Path
  BY <1>1, TakeFacts, TempIsOpen, TakeAt DEF Needers
<1>3. IsTree(removed.tree)
  BY MapFacts, RemoveTree
<1>4. /\ dst' \in {Move(removed.tree, temp.file, p).tree, removed.tree}
      /\ pc' \in {"exec", "failed"}
  BY DEF ExecReplaceWithTemp, Finish
<1> HIDE DEF p, removed
<1>5. IsTree(dst')
  BY <1>2, <1>3, <1>4, MoveTree
<1> QED BY <1>1, <1>4, <1>5, MapFacts, PlainCommand DEF Openers

\* A source file is written to the destination.
LEMMA SrcFileDownloadStep ==
  ASSUME IInv, ExecSrcFileDownload
  PROVE  IInv'
<1> DEFINE p == cmds[next].path
<1>1. Take("SrcFileDownload") /\ UNCHANGED <<refs, relocs>>
  BY DEF ExecSrcFileDownload
<1>2. Located(p) \in Path
  BY <1>1, TakeFacts
<1>3. src[p] \in Entry
  BY <1>1, TakeFacts, WorldFacts DEF IInv, TypeOK, IsTree
<1>4. dst' = WriteFile(dst, Located(p), src[p]).tree /\ pc' \in {"exec", "failed"}
  BY DEF ExecSrcFileDownload, Finish
<1> HIDE DEF p
<1>5. IsTree(dst')
  BY <1>2, <1>3, <1>4, MapFacts, WriteFileTree
<1> QED BY <1>1, <1>4, <1>5, MapFacts, PlainCommand DEF Openers

\* The relocated conflicts are removed.
LEMMA ExecDoneStep ==
  ASSUME IInv, ExecDone
  PROVE  IInv'
<1>1. /\ ~Planning /\ UNCHANGED <<world, todo, cmds, scan, unmatched, refs, relocs, next>>
      /\ pc' = "done"
  BY DEF ExecDone, Planning, planVars
<1>2. unmatched' \subseteq DstNodes /\ next' \in 1..(Len(cmds) + 1)
  BY <1>1 DEF IInv, TypeOK
<1>3. IsTree(dst')
  BY MapFacts, WithoutTree DEF ExecDone
<1>4. TempInv'
  BY <1>1 DEF TempInv
<1> QED BY <1>1, <1>2, <1>3, <1>4, MapFacts, RunStep

\* A file is removed.
LEMMA CleanStep ==
  ASSUME IInv, NEW p \in unmatched, Clean(p)
  PROVE  IInv'
<1>1. /\ ~Planning /\ UNCHANGED <<world, todo, cmds, scan, refs, relocs, next>>
      /\ pc' = "clean"
  BY DEF Clean, Planning
<1>2. unmatched' \subseteq DstNodes /\ next' \in 1..(Len(cmds) + 1)
  BY <1>1 DEF IInv, TypeOK, Clean
<1>3. IsTree(dst')
  BY MapFacts, RemoveTree DEF Clean
<1>4. TempInv'
  BY <1>1 DEF TempInv
<1> QED BY <1>1, <1>2, <1>3, <1>4, MapFacts, RunStep

\* A step that changes nothing.
LEMMA StutterStep ==
  ASSUME IInv, UNCHANGED vars
  PROVE  IInv'
<1>1. /\ world' = world /\ dst' = dst /\ relocs' = relocs /\ pc' = pc /\ todo' = todo
      /\ unmatched' = unmatched /\ refs' = refs /\ cmds' = cmds /\ scan' = scan
      /\ next' = next /\ temp' = temp
  BY DEF vars
<1>2. /\ src' = src /\ SrcNodes' = SrcNodes /\ DstNodes' = DstNodes
      /\ Command' = Command /\ ScanState' = ScanState
  BY <1>1, WorldConstant
<1>3. TypeOK'
  BY <1>1, <1>2 DEF IInv, TypeOK
<1>4. PlanInv'
  BY <1>1, <1>2 DEF IInv, PlanInv, Planning, WellFormed, Located
<1>5. TempInv'
  BY <1>1 DEF IInv, TempInv
<1> QED BY <1>3, <1>4, <1>5 DEF IInv

\* Every step preserves the invariant.
LEMMA IInvStep == IInv /\ [Next]_vars => IInv'
<1> SUFFICES ASSUME IInv, [Next]_vars  PROVE IInv'
  OBVIOUS
<1>1. CASE Planner
  BY <1>1, PlannerStep
<1>2. CASE Exec
  BY <1>2, TransferStep, KeepStep, ConflictStep, ConflictFailsStep, LocalTempStep,
     LocalTempCopyStep, SrcTempCopyStep, ReplaceWithTempStep, SrcFileDownloadStep,
     ExecDoneStep DEF Exec
<1>3. CASE \E p \in unmatched : Clean(p)
  BY <1>3, CleanStep
<1>4. CASE UNCHANGED vars
  BY <1>4, StutterStep
<1> QED BY <1>1, <1>2, <1>3, <1>4 DEF Next

\* The strengthened invariant holds of every patch.
THEOREM Inductive == Spec => []IInv
<1>1. Init => IInv
  BY IInvInit, InitBegun
<1>2. IInv /\ [Next]_vars => IInv'
  BY IInvStep
<1> QED BY <1>1, <1>2, PTL DEF Spec

\* Type correctness: for every pair of stores, whatever the plan and wherever it fails,
\* the commands name nodes of the indexes and the destination remains a tree.
THEOREM TypeCorrect == Spec => []TypeOK
<1>1. IInv => TypeOK
  BY DEF IInv
<1> QED BY <1>1, Inductive, PTL

-----------------------------------------------------------------------------
(* The uses of a node in a list of commands.                               *)

\* Uses(q), for any list c of which the commands before the n-th have run.
UsesIn(c, n, q) ==
  {i \in DOMAIN c : \/ c[i].op = "Transfer" /\ c[i].from = q /\ i >= n
                    \/ c[i].op = "Keep" /\ c[i].path = q}

\* Whether the command d is a use of q that is still to come, when it is added to a plan.
Using(d, q) == \/ d.op = "Transfer" /\ d.from = q
               \/ d.op = "Keep" /\ d.path = q

\* The uses are some of the finitely many commands.
LEMMA UsesFinite ==
  ASSUME NEW c \in Seq(Command), NEW n, NEW q
  PROVE  /\ IsFiniteSet(UsesIn(c, n, q))
         /\ UsesIn(c, n, q) \subseteq 1..Len(c)
         /\ Cardinality(UsesIn(c, n, q)) \in Nat
<1>1. Len(c) \in Nat /\ DOMAIN c = 1..Len(c)
  BY LenProperties
<1>2. IsFiniteSet(1..Len(c))
  BY <1>1, FS_Interval
<1>3. UsesIn(c, n, q) \subseteq 1..Len(c)
  BY <1>1 DEF UsesIn
<1>4. IsFiniteSet(UsesIn(c, n, q))
  BY <1>2, <1>3, FS_Subset
<1> QED BY <1>3, <1>4, FS_CardinalityType

\* Commands that are neither a Transfer nor a Keep add no use.
LEMMA UsesConcatOther ==
  ASSUME NEW c \in Seq(Command), NEW more \in Seq(Command), NEW n, NEW q,
         \A i \in 1..Len(more) : more[i].op \notin {"Transfer", "Keep"}
  PROVE  UsesIn(c \o more, n, q) = UsesIn(c, n, q)
<1>1. /\ Len(c) \in Nat /\ Len(more) \in Nat /\ DOMAIN c = 1..Len(c)
      /\ DOMAIN (c \o more) = 1..(Len(c) + Len(more))
  BY ConcatProperties, LenProperties
<1>2. \A i \in 1..(Len(c) + Len(more)) :
        (c \o more)[i] = IF i <= Len(c) THEN c[i] ELSE more[i - Len(c)]
  BY ConcatProperties
<1>3. \A i \in 1..(Len(c) + Len(more)) :
        i > Len(c) => (c \o more)[i].op \notin {"Transfer", "Keep"}
  <2> SUFFICES ASSUME NEW i \in 1..(Len(c) + Len(more)), i > Len(c)
               PROVE  (c \o more)[i].op \notin {"Transfer", "Keep"}
    OBVIOUS
  <2>1. i - Len(c) \in 1..Len(more) /\ (c \o more)[i] = more[i - Len(c)]
    BY <1>1, <1>2
  <2> QED BY <2>1
<1>4. \A i \in 1..Len(c) : i \in 1..(Len(c) + Len(more)) /\ (c \o more)[i] = c[i]
  BY <1>1, <1>2
<1> QED BY <1>1, <1>3, <1>4 DEF UsesIn

\* A Transfer or a Keep of q at the end of a plan is one use more of q, and of no other.
LEMMA UsesAppend ==
  ASSUME NEW c \in Seq(Command), NEW d \in Command, NEW q
  PROVE  UsesIn(Append(c, d), 1, q)
           = UsesIn(c, 1, q) \cup (IF Using(d, q) THEN {Len(c) + 1} ELSE {})
<1>1. /\ Len(c) \in Nat /\ DOMAIN c = 1..Len(c)
      /\ DOMAIN Append(c, d) = 1..(Len(c) + 1)
      /\ \A i \in 1..Len(c) : Append(c, d)[i] = c[i]
      /\ Append(c, d)[Len(c) + 1] = d
  BY AppendProperties, LenProperties
<1>2. 1..(Len(c) + 1) = 1..Len(c) \cup {Len(c) + 1}
  BY <1>1
<1> QED BY <1>1, <1>2 DEF UsesIn, Using

\* Taking the n-th command uses up q when it is a Transfer from q.
LEMMA UsesTake ==
  ASSUME NEW c \in Seq(Command), NEW n \in 1..Len(c), NEW q
  PROVE  UsesIn(c, n + 1, q)
           = UsesIn(c, n, q) \ (IF c[n].op = "Transfer" /\ c[n].from = q THEN {n} ELSE {})
<1>1. Len(c) \in Nat /\ DOMAIN c = 1..Len(c)
  BY LenProperties
<1>2. \A i \in 1..Len(c) : i >= n + 1 <=> i >= n /\ i # n
  BY <1>1
<1> QED BY <1>1, <1>2 DEF UsesIn

-----------------------------------------------------------------------------
(* RefsExact in terms of UsesIn, and the steps.                            *)

\* RefsExact, said with UsesIn.
LEMMA RefsExactIn ==
  RefsExact <=> \A q \in DstNodes : refs[q] = Cardinality(UsesIn(cmds, next, q))
BY DEF RefsExact, Uses, UsesIn

\* The same of the next state.
LEMMA RefsExactInNext ==
  RefsExact' <=> \A q \in DstNodes' : refs'[q] = Cardinality(UsesIn(cmds', next', q))
BY DEF RefsExact, Uses, UsesIn

\* There are no commands, and all counts are zero.
LEMMA RefsInit == Begun => RefsExact
<1> SUFFICES ASSUME Begun, NEW q \in DstNodes  PROVE refs[q] = Cardinality(UsesIn(cmds, next, q))
  BY RefsExactIn
<1>1. refs[q] = 0 /\ DOMAIN cmds = {}
  BY DEF Begun, Opened
<1>2. UsesIn(cmds, next, q) = {}
  BY <1>1 DEF UsesIn
<1> QED BY <1>1, <1>2, FS_EmptySet

\* A step of the planner that adds other commands.
LEMMA RefsOtherPlan ==
  ASSUME IInv, RefsExact, UNCHANGED <<world, refs, next>>,
         NEW more \in Seq(Command), cmds' = cmds \o more,
         \A i \in 1..Len(more) : more[i].op \notin {"Transfer", "Keep"}
  PROVE  RefsExact'
<1>1. DstNodes' = DstNodes
  BY WorldConstant
<1>2. cmds \in Seq(Command)
  BY DEF IInv, TypeOK
<1>3. \A q : UsesIn(cmds', next', q) = UsesIn(cmds, next, q)
  BY <1>2, UsesConcatOther
<1> QED BY <1>1, <1>3, RefsExactIn, RefsExactInNext

\* Any step that leaves the commands as they are, and takes none that is a Transfer.
LEMMA RefsSame ==
  ASSUME RefsExact, UNCHANGED <<world, refs, cmds, next>>
  PROVE  RefsExact'
<1>1. DstNodes' = DstNodes
  BY WorldConstant
<1> QED BY <1>1, RefsExactIn, RefsExactInNext

\* A match is one use more of the node that matched, and of no other.
LEMMA RefsPlanMatched ==
  ASSUME IInv, RefsExact, NEW p \in todo, PlanMatched(p)
  PROVE  RefsExact'
<1>1. /\ p \in SrcNodes /\ next = 1 /\ next' = next /\ world' = world
      /\ cmds \in Seq(Command) /\ refs \in [DstNodes -> Int]
  BY DEF PlanMatched, Visit, execVars, IInv, TypeOK, PlanInv, Planning
<1>2. DstNodes' = DstNodes
  BY <1>1, WorldConstant
<1>3. PICK q \in Match(p) :
        /\ refs' = [refs EXCEPT ![q] = @ + 1]
        /\ cmds' = Append(cmds, IF p = q THEN Keep(p) ELSE Transfer(q, p))
  BY DEF PlanMatched
<1>4. q \in DstNodes
  BY MatchNodes
<1> DEFINE d == IF p = q THEN Keep(p) ELSE Transfer(q, p)
<1>5. d \in Command
  BY <1>1, <1>4, CommandTypes
<1>6. \A r : Using(d, r) <=> r = q
  BY DEF Using, Keep, Transfer
<1>7. cmds' = Append(cmds, d)
  BY <1>3
<1> HIDE DEF d
<1> SUFFICES ASSUME NEW r \in DstNodes
             PROVE  refs'[r] = Cardinality(UsesIn(cmds', next', r))
  BY <1>2, RefsExactInNext
<1>8. refs[r] = Cardinality(UsesIn(cmds, 1, r))
  BY <1>1, RefsExactIn
<1>9. CASE r = q
  <2>1. UsesIn(cmds', next', r) = UsesIn(cmds, 1, r) \cup {Len(cmds) + 1}
    BY <1>1, <1>5, <1>6, <1>7, <1>9, UsesAppend
  <2>2. Len(cmds) + 1 \notin UsesIn(cmds, 1, r)
    BY <1>1, UsesFinite, LenProperties
  <2>3. Cardinality(UsesIn(cmds', next', r)) = Cardinality(UsesIn(cmds, 1, r)) + 1
    BY <1>1, <2>1, <2>2, UsesFinite, FS_AddElement
  <2>4. refs'[r] = refs[r] + 1
    BY <1>1, <1>3, <1>4, <1>9
  <2> QED BY <1>8, <2>3, <2>4
<1>10. CASE r # q
  <2>1. UsesIn(Append(cmds, d), 1, r) = UsesIn(cmds, 1, r) \cup {}
    BY <1>1, <1>5, <1>6, <1>10, UsesAppend
  <2>2. refs'[r] = refs[r]
    BY <1>1, <1>3, <1>4, <1>10
  <2>3. UsesIn(cmds', next', r) = UsesIn(cmds, 1, r)
    BY <1>1, <1>7, <2>1
  <2> QED BY <1>8, <2>2, <2>3
<1> QED BY <1>9, <1>10

\* A Transfer is one use less of its source, and of no other node.
LEMMA RefsTransfer ==
  ASSUME IInv, RefsExact, ExecTransfer
  PROVE  RefsExact'
<1>1. Take("Transfer")
  BY DEF ExecTransfer
<1>2. /\ next \in 1..Len(cmds) /\ cmds[next] \in Command /\ cmds[next].op = "Transfer"
      /\ next' = next + 1 /\ cmds' = cmds /\ world' = world
  BY <1>1, TakeFacts DEF Take
<1>3. DstNodes' = DstNodes /\ cmds[next].from \in DstNodes
  BY <1>2, WorldConstant, CommandFields
<1>4. cmds \in Seq(Command) /\ refs \in [DstNodes -> Int]
  BY DEF IInv, TypeOK
<1> DEFINE q == cmds[next].from
<1>5. refs' = [refs EXCEPT ![q] = refs[q] - 1]
  BY DEF ExecTransfer
<1> SUFFICES ASSUME NEW r \in DstNodes
             PROVE  refs'[r] = Cardinality(UsesIn(cmds', next', r))
  BY <1>3, RefsExactInNext
<1>6. refs[r] = Cardinality(UsesIn(cmds, next, r))
  BY RefsExactIn
<1>7. CASE r = q
  <2>1. UsesIn(cmds', next', r) = UsesIn(cmds, next, r) \ {next}
    <3>1. UsesIn(cmds, next + 1, r) = UsesIn(cmds, next, r) \ {next}
      BY <1>2, <1>4, <1>7, UsesTake
    <3> QED BY <1>2, <3>1
  <2>2. next \in UsesIn(cmds, next, r)
    BY <1>2, <1>4, <1>7, LenProperties DEF UsesIn
  <2> DEFINE U == UsesIn(cmds, next, r)
  <2>3. IsFiniteSet(U) /\ next \in U
    BY <1>4, <2>2, UsesFinite
  <2> HIDE DEF U
  <2>4. Cardinality(U \ {next}) = Cardinality(U) - 1
    BY <2>3, FS_RemoveElement
  <2>5. Cardinality(UsesIn(cmds', next', r)) = Cardinality(UsesIn(cmds, next, r)) - 1
    BY <2>1, <2>4 DEF U
  <2>6. refs'[r] = refs[r] - 1
    BY <1>3, <1>4, <1>5, <1>7
  <2> QED BY <1>6, <2>5, <2>6
<1>8. CASE r # q
  <2>1. UsesIn(cmds, next + 1, r) = UsesIn(cmds, next, r) \ {}
    BY <1>2, <1>4, <1>8, UsesTake
  <2>2. UsesIn(cmds', next', r) = UsesIn(cmds, next, r)
    BY <1>2, <2>1
  <2>3. refs'[r] = refs[r]
    BY <1>4, <1>5, <1>8
  <2> QED BY <1>6, <2>2, <2>3
<1> QED BY <1>7, <1>8

\* Every other command leaves the counts as they are.
LEMMA RefsOtherCommand ==
  ASSUME IInv, RefsExact, NEW op, op # "Transfer", Take(op), refs' = refs
  PROVE  RefsExact'
<1>1. /\ next \in 1..Len(cmds) /\ cmds[next].op = op
      /\ next' = next + 1 /\ cmds' = cmds /\ world' = world
  BY TakeFacts DEF Take
<1>2. DstNodes' = DstNodes
  BY <1>1, WorldConstant
<1>3. cmds \in Seq(Command)
  BY DEF IInv, TypeOK
<1>4. \A q : UsesIn(cmds, next + 1, q) = UsesIn(cmds, next, q) \ {}
  BY <1>1, <1>3, UsesTake
<1>5. \A q : UsesIn(cmds', next', q) = UsesIn(cmds, next, q)
  BY <1>1, <1>4
<1> QED BY <1>1, <1>2, <1>5, RefsExactIn, RefsExactInNext

\* The commands that open and fill a temporary file are no uses.
LEMMA RefsMatchDone ==
  ASSUME IInv, RefsExact, MatchDone
  PROVE  RefsExact'
<1>1. PICK more \in Seq(Command) :
        /\ cmds' = cmds \o more
        /\ \A i \in 1..Len(more) : more[i].op \in {"LocalTemp", "LocalTempCopy"}
  BY MatchDoneCommands
<1>2. UNCHANGED <<world, refs, next>>
  BY DEF MatchDone, execVars
<1> QED BY <1>1, <1>2, RefsOtherPlan

\* Neither is the one that puts it in place, with the last gap before it.
LEMMA RefsFileDone ==
  ASSUME IInv, RefsExact, PlanFileDone
  PROVE  RefsExact'
<1> DEFINE gap == FetchTo(Len(src[scan.file]))
           c   == ReplaceWithTemp(scan.file)
<1>1. /\ pc = "ranges" /\ UNCHANGED <<world, refs, next>>
      /\ cmds' = cmds \o gap \o <<c>>
  BY DEF PlanFileDone, execVars
<1>2. scan.file \in SrcNodes /\ IsFile(src, scan.file) /\ cmds \in Seq(Command)
  BY <1>1 DEF IInv, TypeOK, PlanInv, ScanState
<1>3. Len(src[scan.file]) \in Nat
  <2>1. src[scan.file] \in Seq(Byte)
    BY <1>2, FileBytes, WorldFacts DEF IInv, TypeOK
  <2> QED BY <2>1, LenProperties
<1>4. c \in Command /\ c.op = "ReplaceWithTemp"
  BY <1>2, CommandTypes DEF ReplaceWithTemp
<1>5. gap \in Seq(Command) /\ \A i \in 1..Len(gap) : gap[i].op = "SrcTempCopy"
  BY <1>1, <1>3, FetchToFacts
<1> HIDE DEF gap, c
<1>6. <<c>> \in Seq(Command) /\ \A i \in 1..Len(<<c>>) : <<c>>[i].op \notin {"Transfer", "Keep"}
  BY <1>4, ShortSeqs
<1>7. DstNodes' = DstNodes
  BY <1>1, WorldConstant
<1>8. cmds \o gap \in Seq(Command)
  BY <1>2, <1>5, ConcatProperties
<1>9. \A q : UsesIn(cmds \o gap, next, q) = UsesIn(cmds, next, q)
  BY <1>2, <1>5, UsesConcatOther
<1>10. \A q : UsesIn((cmds \o gap) \o <<c>>, next, q) = UsesIn(cmds \o gap, next, q)
  <2> DEFINE all  == cmds \o gap
             last == <<c>>
  <2>1. /\ all \in Seq(Command) /\ last \in Seq(Command)
        /\ \A i \in 1..Len(last) : last[i].op \notin {"Transfer", "Keep"}
    BY <1>6, <1>8
  <2> HIDE DEF all, last
  <2>2. \A q : UsesIn(all \o last, next, q) = UsesIn(all, next, q)
    BY <2>1, UsesConcatOther
  <2> QED BY <2>2 DEF all, last
<1> QED BY <1>1, <1>7, <1>9, <1>10, RefsExactIn, RefsExactInNext

\* No step of the planner but PlanMatched adds a Transfer or a Keep.
LEMMA RefsPlanner ==
  ASSUME IInv, RefsExact, Planner
  PROVE  RefsExact'
<1>1. CASE \E p \in todo : PlanMatched(p)
  BY <1>1, RefsPlanMatched
<1>2. CASE \E p \in todo : PlanFileConflict(p)
  <2>1. PICK p \in todo : PlanFileConflict(p)
    BY <1>2
  <2> DEFINE c == Conflict(p, FALSE)
             d == SrcFileDownload(p)
  <2>2. c \in Command /\ d \in Command
    BY <2>1, CommandTypes DEF IInv, TypeOK
  <2>3. c.op = "Conflict" /\ d.op = "SrcFileDownload"
    BY DEF Conflict, SrcFileDownload
  <2>4. UNCHANGED <<world, refs, next>> /\ cmds' = cmds \o <<c, d>>
    BY <2>1 DEF PlanFileConflict, Visit, Plan, execVars
  <2> HIDE DEF c, d
  <2>5. <<c, d>> \in Seq(Command)
    BY <2>2, ShortSeqs
  <2>6. \A i \in 1..Len(<<c, d>>) : <<c, d>>[i].op \notin {"Transfer", "Keep"}
    BY <2>3
  <2> QED BY <2>4, <2>5, <2>6, RefsOtherPlan
<1>3. CASE \E p \in todo : PlanDownload(p)
  <2>1. PICK p \in todo : PlanDownload(p)
    BY <1>3
  <2> DEFINE d == SrcFileDownload(p)
  <2>2. d \in Command /\ d.op = "SrcFileDownload"
    BY <2>1, CommandTypes DEF IInv, TypeOK, SrcFileDownload
  <2>3. UNCHANGED <<world, refs, next>> /\ cmds' = cmds \o <<d>>
    BY <2>1 DEF PlanDownload, Visit, Plan, execVars
  <2> HIDE DEF d
  <2>4. <<d>> \in Seq(Command)
    BY <2>2, ShortSeqs
  <2>5. \A i \in 1..Len(<<d>>) : <<d>>[i].op \notin {"Transfer", "Keep"}
    BY <2>2
  <2> QED BY <2>3, <2>4, <2>5, RefsOtherPlan
<1>4. CASE \E p \in todo : PlanFile(p)
  <2>1. UNCHANGED <<world, refs, cmds, next>>
    BY <1>4 DEF PlanFile, Visit, execVars
  <2> QED BY <2>1, RefsSame
<1>5. CASE \E p \in todo : PlanDir(p)
  <2>1. PICK p \in todo : PlanDir(p)
    BY <1>5
  <2> DEFINE c == Conflict(p, TRUE)
             more == IF IsFile(dst, Located(p)) THEN <<c>> ELSE <<>>
  <2>2. c \in Command /\ c.op = "Conflict"
    BY <2>1, CommandTypes DEF IInv, TypeOK, Conflict
  <2>3. UNCHANGED <<world, refs, next>> /\ cmds' = cmds \o more
    BY <2>1 DEF PlanDir, Visit, Plan, execVars
  <2> HIDE DEF c
  <2>4. more \in Seq(Command)
    BY <2>2, ShortSeqs
  <2>5. \A i \in 1..Len(more) : more[i].op \notin {"Transfer", "Keep"}
    BY <2>2
  <2> HIDE DEF more
  <2> QED BY <2>3, <2>4, <2>5, RefsOtherPlan
<1>6. CASE MatchBlock \/ MatchRoll
  <2>1. UNCHANGED <<world, refs, cmds, next>>
    BY <1>6 DEF MatchBlock, MatchRoll, execVars
  <2> QED BY <2>1, RefsSame
<1>7. CASE MatchDone
  BY <1>7, RefsMatchDone
<1>8. CASE PlanRange
  <2> DEFINE end == scan.matches[scan.range].dst
  <2>1. /\ pc = "ranges" /\ UNCHANGED <<world, refs, next>>
        /\ cmds' = cmds \o FetchTo(end)
    BY <1>8 DEF PlanRange, execVars
  <2>2. end \in Nat
    <3>1. scan.matches \in Seq([src : Nat, dst : Nat])
      BY <2>1 DEF IInv, TypeOK, ScanState
    <3>2. scan.range \in 1..Len(scan.matches)
      BY <1>8, <3>1, LenProperties DEF PlanRange
    <3>3. scan.matches[scan.range] \in [src : Nat, dst : Nat]
      BY <3>1, <3>2, ElementOfSeq
    <3> QED BY <3>3
  <2> HIDE DEF end
  <2> QED BY <2>1, <2>2, FetchToFacts, RefsOtherPlan
<1>9. CASE PlanFileDone
  BY <1>9, RefsFileDone
<1>10. CASE PlanDone
  <2>1. UNCHANGED <<world, refs, cmds, next>>
    BY <1>10 DEF PlanDone, planVars, execVars
  <2> QED BY <2>1, RefsSame
<1> QED BY <1>1, <1>2, <1>3, <1>4, <1>5, <1>6, <1>7, <1>8, <1>9, <1>10 DEF Planner

\* Every step preserves RefsExact.
LEMMA RefsStep == IInv /\ RefsExact /\ [Next]_vars => RefsExact'
<1> SUFFICES ASSUME IInv, RefsExact, [Next]_vars  PROVE RefsExact'
  OBVIOUS
<1>1. CASE Planner
  BY <1>1, RefsPlanner
<1>2. CASE Exec
  <2>1. CASE ExecTransfer
    BY <2>1, RefsTransfer
  <2>2. CASE ExecDone
    <3>1. UNCHANGED <<world, refs, cmds, next>>
      BY <2>2 DEF ExecDone, planVars
    <3> QED BY <3>1, RefsSame
  <2>3. CASE ~ExecTransfer /\ ~ExecDone
    <3>1. PICK op : op # "Transfer" /\ Take(op) /\ refs' = refs
      BY <1>2, <2>3 DEF Exec, ExecKeep, ExecConflict, ExecConflictFails, ExecLocalTemp,
         ExecLocalTempCopy, ExecSrcTempCopy, ExecReplaceWithTemp, ExecSrcFileDownload
    <3> QED BY <3>1, RefsOtherCommand
  <2> QED BY <2>1, <2>2, <2>3
<1>3. CASE \E p \in unmatched : Clean(p)
  <2>1. UNCHANGED <<world, refs, cmds, next>>
    BY <1>3 DEF Clean
  <2> QED BY <2>1, RefsSame
<1>4. CASE UNCHANGED vars
  <2>1. UNCHANGED <<world, refs, cmds, next>>
    BY <1>4 DEF vars
  <2> QED BY <2>1, RefsSame
<1> QED BY <1>1, <1>2, <1>3, <1>4 DEF Next

\* The reference count of a destination node is at all times the number of commands that
\* still need it (patch.go:64, 358), for every pair of stores and every plan.
THEOREM RefsAlwaysExact == Spec => []RefsExact
<1>1. Init => RefsExact
  BY RefsInit, InitBegun
<1>2. IInv /\ RefsExact /\ [Next]_vars => RefsExact'
  BY RefsStep
<1> QED BY <1>1, <1>2, Inductive, PTL DEF Spec

\* No patch reports the reference count underflow of patch.go:74.
THEOREM RefsNeverUnderflow == Spec => []NoUnderflow
<1>1. IInv /\ RefsExact => NoUnderflow
  <2> SUFFICES ASSUME IInv, RefsExact, NEW q \in DstNodes  PROVE refs[q] >= 0
    BY DEF NoUnderflow
  <2>1. cmds \in Seq(Command)
    BY DEF IInv, TypeOK
  <2>2. refs[q] = Cardinality(UsesIn(cmds, next, q))
    BY RefsExactIn
  <2>3. Cardinality(UsesIn(cmds, next, q)) \in Nat
    BY <2>1, UsesFinite
  <2> QED BY <2>2, <2>3
<1> QED BY <1>1, Inductive, RefsAlwaysExact, PTL

-----------------------------------------------------------------------------
(* The blocks that MatchFile recognises lie one after the other.           *)

\* The window has left behind every block recognised so far, or is at the end of the file,
\* where it can recognise none: the last block of a file may be short.
BehindWindow ==
  pc = "match" =>
    \A i \in DOMAIN scan.matches :
      \/ scan.matches[i].dst + BlockSize <= scan.at
      \/ Len(Local) <= scan.at

MatchInv == MatchesDisjoint /\ BehindWindow

\* How far the window's bytes reach.
LEMMA WindowLength ==
  ASSUME Local \in Seq(Byte), scan.at \in Nat, Window # <<>>
  PROVE  /\ scan.at < Len(Local) /\ Len(Local) \in Nat
         /\ Len(Window) = IF scan.at + BlockSize < Len(Local) THEN BlockSize
                          ELSE Len(Local) - scan.at
<1>1. Len(Local) \in Nat /\ BlockSize \in Nat \ {0}
  BY LenProperties, BlockSizeAssumption
<1> DEFINE last == IF scan.at + BlockSize < Len(Local) THEN scan.at + BlockSize ELSE Len(Local)
<1>2. Window = SubSeq(Local, scan.at + 1, last)
  BY DEF Window, Slice
<1>3. last \in Int /\ last <= Len(Local)
  BY <1>1
<1>4. CASE scan.at < Len(Local)
  <2>1. scan.at + 1 \in 1..(Len(Local) + 1) /\ last \in scan.at..Len(Local)
    BY <1>1, <1>4
  <2> HIDE DEF last
  <2>2. Len(SubSeq(Local, scan.at + 1, last))
          = IF scan.at + 1 <= last THEN last - (scan.at + 1) + 1 ELSE 0
    BY <1>1, <2>1, SubSeqProperties
  <2> QED BY <1>1, <1>2, <1>4, <2>1, <2>2 DEF last
<1>5. CASE ~(scan.at < Len(Local))
  <2>1. scan.at + 1 > last
    BY <1>1, <1>5
  <2> HIDE DEF last
  <2>2. SubSeq(Local, scan.at + 1, last) = <<>>
    BY <1>3, <2>1
  <2> QED BY <1>2, <2>2
<1> QED BY <1>4, <1>5

\* What is known of the scan while MatchFile runs.
LEMMA ScanFacts ==
  ASSUME IInv, pc \in {"match", "ranges"}
  PROVE  /\ scan \in ScanState /\ scan.at \in Nat /\ BlockSize \in Nat \ {0}
         /\ scan.matches \in Seq([src : Nat, dst : Nat])
         /\ Len(scan.matches) \in Nat /\ DOMAIN scan.matches = 1..Len(scan.matches)
         /\ \A i \in DOMAIN scan.matches : scan.matches[i].dst \in Nat
         /\ pc = "match" => Local \in Seq(Byte) /\ Len(Local) \in Nat
<1>1. scan \in ScanState
  BY DEF IInv, TypeOK
<1>2. scan.at \in Nat /\ scan.matches \in Seq([src : Nat, dst : Nat])
  BY <1>1 DEF ScanState
<1>3. Len(scan.matches) \in Nat /\ DOMAIN scan.matches = 1..Len(scan.matches)
  BY <1>2, LenProperties
<1>4. \A i \in DOMAIN scan.matches : scan.matches[i].dst \in Nat
  <2> SUFFICES ASSUME NEW i \in 1..Len(scan.matches)  PROVE scan.matches[i].dst \in Nat
    BY <1>3
  <2>1. scan.matches[i] \in [src : Nat, dst : Nat]
    BY <1>2, ElementOfSeq
  <2> QED BY <2>1
<1>5. pc = "match" => Local \in Seq(Byte) /\ Len(Local) \in Nat
  <2> SUFFICES ASSUME pc = "match"  PROVE Local \in Seq(Byte) /\ Len(Local) \in Nat
    OBVIOUS
  <2>1. IsFile(dst, Located(scan.file)) /\ IsTree(dst)
    BY DEF IInv, TypeOK, PlanInv
  <2>2. Local \in Seq(Byte)
    BY <2>1, FileBytes DEF Local
  <2> QED BY <2>2, LenProperties
<1> QED BY <1>1, <1>2, <1>3, <1>4, <1>5, BlockSizeAssumption

-----------------------------------------------------------------------------
(* The steps.                                                              *)

\* Initially no block is recognised.
LEMMA MatchInvInit == Begun => MatchInv
BY DEF Begun, Opened, MatchInv, MatchesDisjoint, BehindWindow

\* The window steps over a block it recognises.
LEMMA MatchBlockDisjoint ==
  ASSUME IInv, MatchInv, MatchBlock
  PROVE  MatchInv'
<1>1. /\ pc = "match" /\ pc' = "match" /\ Window # <<>>
      /\ UNCHANGED <<world, dst, relocs>>
  BY DEF MatchBlock, execVars
<1>2. PICK b \in WindowMatch :
        scan' = [scan EXCEPT !.matches = Append(@, [src |-> b.offset, dst |-> scan.at]),
                             !.at = @ + Len(Window)]
  BY DEF MatchBlock
<1> DEFINE m == [src |-> b.offset, dst |-> scan.at]
           n == Len(scan.matches)
<1>3. /\ scan \in ScanState /\ scan.at \in Nat /\ BlockSize \in Nat \ {0}
      /\ scan.matches \in Seq([src : Nat, dst : Nat])
      /\ n \in Nat /\ DOMAIN scan.matches = 1..n
      /\ \A i \in 1..n : scan.matches[i].dst \in Nat
      /\ Local \in Seq(Byte) /\ Len(Local) \in Nat
  BY <1>1, ScanFacts
<1>4. /\ scan.at < Len(Local)
      /\ Len(Window) = IF scan.at + BlockSize < Len(Local) THEN BlockSize
                       ELSE Len(Local) - scan.at
  BY <1>1, <1>3, WindowLength
<1>5. m \in [src : Nat, dst : Nat] /\ m.dst = scan.at
  BY <1>3, WindowMatchOffset
<1>6. /\ scan'.matches = Append(scan.matches, m)
      /\ scan'.at = scan.at + Len(Window)
      /\ scan'.file = scan.file
  BY <1>2, <1>3 DEF ScanState
<1> HIDE DEF m
<1>7. /\ DOMAIN scan'.matches = 1..(n + 1)
      /\ \A i \in 1..n : scan'.matches[i] = scan.matches[i]
      /\ scan'.matches[n + 1] = m
  BY <1>3, <1>5, <1>6, AppendProperties DEF n
<1> HIDE DEF n
<1>8. Local' = Local
  BY <1>1, <1>6 DEF Local, Located
<1>9. \A i \in 1..n : scan.matches[i].dst + BlockSize <= scan.at
  <2> SUFFICES ASSUME NEW i \in 1..n  PROVE scan.matches[i].dst + BlockSize <= scan.at
    OBVIOUS
  <2>1. scan.matches[i].dst + BlockSize <= scan.at \/ Len(Local) <= scan.at
    BY <1>1, <1>3 DEF MatchInv, BehindWindow
  <2> QED BY <1>3, <1>4, <2>1
<1>10. MatchesDisjoint'
  <2> SUFFICES ASSUME NEW i \in 1..(n + 1), NEW j \in 1..(n + 1), i < j
               PROVE  scan'.matches[i].dst + BlockSize <= scan'.matches[j].dst
    BY <1>7 DEF MatchesDisjoint
  <2>1. i \in 1..n
    BY <1>3
  <2>2. CASE j \in 1..n
    BY <1>1, <1>3, <1>7, <2>1, <2>2 DEF MatchInv, MatchesDisjoint
  <2>3. CASE j = n + 1
    BY <1>5, <1>7, <1>9, <2>1, <2>3
  <2> QED BY <1>3, <2>2, <2>3
<1>11. BehindWindow'
  <2> SUFFICES ASSUME NEW i \in 1..(n + 1)
               PROVE  \/ scan'.matches[i].dst + BlockSize <= scan'.at
                      \/ Len(Local) <= scan'.at
    BY <1>7, <1>8 DEF BehindWindow
  <2>1. CASE scan.at + BlockSize < Len(Local)
    <3>1. scan'.at = scan.at + BlockSize
      BY <1>4, <1>6, <2>1
    <3>2. CASE i \in 1..n
      <4>1. /\ scan'.matches[i].dst = scan.matches[i].dst
            /\ scan.matches[i].dst \in Nat
            /\ scan.matches[i].dst + BlockSize <= scan.at
        BY <1>3, <1>7, <1>9, <3>2
      <4>2. scan.at \in Nat /\ BlockSize \in Nat
        BY <1>3
      <4>3. scan.matches[i].dst + BlockSize <= scan.at + BlockSize
        BY <4>1, <4>2
      <4> QED BY <3>1, <4>1, <4>3
    <3>3. CASE i = n + 1
      BY <1>5, <1>7, <1>3, <3>1, <3>3
    <3> QED BY <1>3, <3>2, <3>3
  <2>2. CASE ~(scan.at + BlockSize < Len(Local))
    BY <1>3, <1>4, <1>6, <2>2
  <2> QED BY <2>1, <2>2
<1> QED BY <1>10, <1>11 DEF MatchInv

\* The window rolls on by a byte.
LEMMA MatchRollDisjoint ==
  ASSUME IInv, MatchInv, MatchRoll
  PROVE  MatchInv'
<1>1. /\ pc = "match" /\ pc' = "match" /\ UNCHANGED <<world, dst, relocs>>
      /\ scan.at + BlockSize < Len(Local)
      /\ scan' = [scan EXCEPT !.at = @ + 1]
  BY DEF MatchRoll, execVars
<1>2. /\ scan \in ScanState /\ scan.at \in Nat /\ BlockSize \in Nat \ {0}
      /\ \A i \in DOMAIN scan.matches : scan.matches[i].dst \in Nat
      /\ Len(Local) \in Nat
  BY <1>1, ScanFacts
<1>3. /\ scan'.matches = scan.matches /\ scan'.at = scan.at + 1 /\ scan'.file = scan.file
  BY <1>1, <1>2 DEF ScanState
<1>4. Local' = Local
  BY <1>1, <1>3 DEF Local, Located
<1>5. MatchesDisjoint'
  BY <1>1, <1>3 DEF MatchInv, MatchesDisjoint
<1>6. BehindWindow'
  <2> SUFFICES ASSUME NEW i \in DOMAIN scan.matches
               PROVE  scan.matches[i].dst + BlockSize <= scan.at + 1
    BY <1>3 DEF BehindWindow
  <2>1. scan.matches[i].dst + BlockSize <= scan.at
    BY <1>1, <1>2 DEF MatchInv, BehindWindow
  <2> QED BY <1>2, <2>1
<1> QED BY <1>5, <1>6 DEF MatchInv

\* A step that leaves the matches of a scan that goes on, or ends the scan.
LEMMA MatchesKept ==
  ASSUME MatchInv,
         pc' # "match" \/ UNCHANGED <<world, dst, relocs, scan, pc>>,
         pc' = "ranges" => pc \in {"match", "ranges"} /\ scan'.matches = scan.matches
  PROVE  MatchInv'
<1>1. CASE UNCHANGED <<world, dst, relocs, scan, pc>>
  <2>1. Local' = Local
    BY <1>1 DEF Local, Located
  <2> QED BY <1>1, <2>1 DEF MatchInv, MatchesDisjoint, BehindWindow
<1>2. CASE pc' # "match"
  <2>1. BehindWindow'
    BY <1>2 DEF BehindWindow
  <2>2. MatchesDisjoint'
    BY <1>2 DEF MatchInv, MatchesDisjoint
  <2> QED BY <2>1, <2>2 DEF MatchInv
<1> QED BY <1>1, <1>2

\* Every step preserves the invariant: only MatchBlock adds a block.
LEMMA MatchInvStep == IInv /\ MatchInv /\ [Next]_vars => MatchInv'
<1> SUFFICES ASSUME IInv, MatchInv, [Next]_vars  PROVE MatchInv'
  OBVIOUS
<1>1. CASE MatchBlock
  BY <1>1, MatchBlockDisjoint
<1>2. CASE MatchRoll
  BY <1>2, MatchRollDisjoint
<1>3. CASE MatchDone
  <2>1. pc = "match" /\ pc' = "ranges" /\ scan' = scan
    BY <1>3 DEF MatchDone
  <2> QED BY <2>1, MatchesKept
<1>4. CASE PlanRange
  <2>1. pc = "ranges" /\ pc' = "ranges"
    BY <1>4 DEF PlanRange
  <2>2. scan \in ScanState
    BY <2>1 DEF IInv, TypeOK
  <2>3. scan'.matches = scan.matches
    BY <1>4, <2>2 DEF PlanRange, ScanState
  <2> QED BY <2>1, <2>3, MatchesKept
<1>5. CASE PlanFileDone \/ PlanDone
  <2>1. pc' \in {"plan", "exec"}
    BY <1>5 DEF PlanFileDone, PlanDone
  <2> QED BY <2>1, MatchesKept
<1>6. CASE \E p \in todo : PlanFile(p)
  <2>1. pc' = "match" /\ scan'.matches = <<>>
    BY <1>6 DEF PlanFile
  <2> QED BY <2>1 DEF MatchInv, MatchesDisjoint, BehindWindow
<1>7. CASE \E p \in todo : PlanMatched(p) \/ PlanFileConflict(p) \/ PlanDownload(p) \/ PlanDir(p)
  <2>1. pc' = "plan"
    BY <1>7 DEF PlanMatched, PlanFileConflict, PlanDownload, PlanDir, Plan, Visit
  <2> QED BY <2>1, MatchesKept
<1>8. CASE Exec
  <2>1. pc' \in {"exec", "failed", "done"}
    BY <1>8 DEF Exec, ExecTransfer, ExecKeep, ExecConflict, ExecConflictFails, ExecLocalTemp,
       ExecLocalTempCopy, ExecSrcTempCopy, ExecReplaceWithTemp, ExecSrcFileDownload,
       ExecDone, Take, Finish
  <2> QED BY <2>1, MatchesKept
<1>9. CASE \E p \in unmatched : Clean(p)
  <2>1. pc' = "clean"
    BY <1>9 DEF Clean
  <2> QED BY <2>1, MatchesKept
<1>10. CASE UNCHANGED vars
  <2>1. UNCHANGED <<world, dst, relocs, scan, pc>>
    BY <1>10 DEF vars
  <2>2. pc' = "ranges" => pc = "ranges" /\ scan' = scan
    BY <2>1
  <2> QED BY <2>1, <2>2, MatchesKept
<1> QED BY <1>1, <1>2, <1>3, <1>4, <1>5, <1>6, <1>7, <1>8, <1>9, <1>10 DEF Next, Planner

\* The blocks that MatchFile recognises in a file do not overlap and come in order
\* (match.go:68-120): the gaps that NotMatched lists between them are what is left.
THEOREM MatchesAlwaysDisjoint == Spec => []MatchesDisjoint
<1>1. Init => MatchInv
  BY MatchInvInit, InitBegun
<1>2. IInv /\ MatchInv /\ [Next]_vars => MatchInv'
  BY MatchInvStep
<1>3. MatchInv => MatchesDisjoint
  BY DEF MatchInv
<1> QED BY <1>1, <1>2, <1>3, Inductive, PTL DEF Spec

-----------------------------------------------------------------------------
(* The plan makes every file of the source once.                           *)

\* The commands that make a file, and those of them in the list c that make p.
Makers       == {"Transfer", "Keep", "SrcFileDownload", "LocalTemp"}
MadeIn(c, p) == {i \in DOMAIN c : c[i].path = p /\ c[i].op \in Makers}

\* c makes every file of the source once, but those in S, which it does not make.
OnceBut(c, S) ==
  \A p \in SrcFiles : IF p \in S THEN MadeIn(c, p) = {} ELSE \E i \in DOMAIN c : MadeIn(c, p) = {i}

\* The files that are yet to be planned: the one that is being matched has no command so far.
Pending == todo \cup (IF pc = "match" THEN {scan.file} ELSE {})

CoverInv ==
  /\ OnceBut(cmds, Pending)
  /\ pc = "match" => scan.file \notin todo
  /\ Planned => todo = {}
  /\ pc # "clean" => unmatched = {p \in DstNodes : IsFile(world.dst, p)} \ (SrcNodes \ todo)

\* What the commands that are added to a list make.
LEMMA MadeConcat ==
  ASSUME NEW c \in Seq(Command), NEW more \in Seq(Command), NEW p
  PROVE  /\ Len(c) \in Nat /\ Len(more) \in Nat
         /\ DOMAIN c = 1..Len(c) /\ DOMAIN (c \o more) = 1..(Len(c) + Len(more))
         /\ MadeIn(c \o more, p)
              = MadeIn(c, p) \cup {i \in (Len(c) + 1)..(Len(c) + Len(more)) :
                                     i - Len(c) \in MadeIn(more, p)}
<1>1. /\ Len(c) \in Nat /\ Len(more) \in Nat /\ DOMAIN c = 1..Len(c)
      /\ DOMAIN more = 1..Len(more)
      /\ DOMAIN (c \o more) = 1..(Len(c) + Len(more))
  BY ConcatProperties, LenProperties
<1>2. \A i \in 1..(Len(c) + Len(more)) :
        (c \o more)[i] = IF i <= Len(c) THEN c[i] ELSE more[i - Len(c)]
  BY ConcatProperties
<1> DEFINE all == c \o more
           n == Len(c)
           m == Len(more)
<1>3. \A i : i \in MadeIn(all, p) <=>
               i \in 1..(n + m) /\ all[i].path = p /\ all[i].op \in Makers
  BY <1>1 DEF MadeIn
<1>4. \A i : i \in MadeIn(c, p) <=> i \in 1..n /\ c[i].path = p /\ c[i].op \in Makers
  BY <1>1 DEF MadeIn
<1>5. \A i : i \in MadeIn(more, p) <=> i \in 1..m /\ more[i].path = p /\ more[i].op \in Makers
  BY <1>1 DEF MadeIn
<1>6. /\ n \in Nat /\ m \in Nat /\ DOMAIN c = 1..n /\ DOMAIN all = 1..(n + m)
      /\ \A i \in 1..(n + m) : all[i] = IF i <= n THEN c[i] ELSE more[i - n]
  BY <1>1, <1>2
<1> HIDE DEF all, n, m
<1>7. \A i : i \in MadeIn(all, p) <=>
               i \in MadeIn(c, p) \/ (i \in (n + 1)..(n + m) /\ i - n \in MadeIn(more, p))
  <2> TAKE i
  <2>1. CASE i \in 1..n
    <3>1. i \in 1..(n + m) /\ all[i] = c[i] /\ i \notin (n + 1)..(n + m)
      BY <1>6, <2>1
    <3> QED BY <1>3, <1>4, <2>1, <3>1
  <2>2. CASE i \in (n + 1)..(n + m)
    <3>1. i \in 1..(n + m) /\ all[i] = more[i - n] /\ i \notin 1..n /\ i - n \in 1..m
      BY <1>6, <2>2
    <3> QED BY <1>3, <1>4, <1>5, <2>2, <3>1
  <2>3. CASE i \notin 1..n /\ i \notin (n + 1)..(n + m)
    <3>1. i \notin 1..(n + m)
      BY <1>6, <2>3
    <3> QED BY <1>3, <1>4, <2>3, <3>1
  <2> QED BY <2>1, <2>2, <2>3
<1>8. MadeIn(all, p) = MadeIn(c, p) \cup {i \in (n + 1)..(n + m) : i - n \in MadeIn(more, p)}
  BY <1>7
<1> QED BY <1>6, <1>8 DEF all, n, m

\* Commands that do not make p.
LEMMA MadeNoMore ==
  ASSUME NEW c \in Seq(Command), NEW more \in Seq(Command), NEW p, MadeIn(more, p) = {}
  PROVE  /\ MadeIn(c \o more, p) = MadeIn(c, p)
         /\ DOMAIN c \subseteq DOMAIN (c \o more)
<1> DEFINE n   == Len(c)
           m   == Len(more)
           all == c \o more
<1>1. /\ n \in Nat /\ m \in Nat /\ DOMAIN c = 1..n /\ DOMAIN all = 1..(n + m)
      /\ MadeIn(all, p)
           = MadeIn(c, p) \cup {i \in (n + 1)..(n + m) : i - n \in MadeIn(more, p)}
  BY MadeConcat
<1> HIDE DEF n, m, all
<1>2. MadeIn(all, p) = MadeIn(c, p)
  BY <1>1
<1>3. DOMAIN c \subseteq DOMAIN all
  BY <1>1
<1> QED BY <1>2, <1>3 DEF all

\* Commands that make nothing leave what is made.
LEMMA MakesNothing ==
  ASSUME NEW c \in Seq(Command), NEW more \in Seq(Command), NEW S, OnceBut(c, S),
         \A i \in 1..Len(more) : more[i].op \notin Makers
  PROVE  OnceBut(c \o more, S)
<1> SUFFICES ASSUME NEW p \in SrcFiles
             PROVE  IF p \in S THEN MadeIn(c \o more, p) = {}
                    ELSE \E i \in DOMAIN (c \o more) : MadeIn(c \o more, p) = {i}
  BY Zenon DEF OnceBut
<1>1. MadeIn(more, p) = {}
  BY LenProperties DEF MadeIn
<1>2. /\ MadeIn(c \o more, p) = MadeIn(c, p)
      /\ DOMAIN c \subseteq DOMAIN (c \o more)
  BY <1>1, MadeNoMore
<1>3. IF p \in S THEN MadeIn(c, p) = {} ELSE \E i \in DOMAIN c : MadeIn(c, p) = {i}
  BY Zenon DEF OnceBut
<1> QED BY <1>2, <1>3

\* Commands of which one, the k-th, makes a file, which is not made before.
LEMMA MakesOne ==
  ASSUME NEW c \in Seq(Command), NEW more \in Seq(Command), NEW S, NEW T, OnceBut(c, S),
         NEW k \in 1..Len(more), more[k].op \in Makers, more[k].path \in S,
         T = S \ {more[k].path},
         \A i \in 1..Len(more) : i # k => more[i].op \notin Makers
  PROVE  OnceBut(c \o more, T)
<1> SUFFICES ASSUME NEW p \in SrcFiles
             PROVE  IF p \in T THEN MadeIn(c \o more, p) = {}
                    ELSE \E i \in DOMAIN (c \o more) : MadeIn(c \o more, p) = {i}
  BY Zenon DEF OnceBut
<1>0. Len(more) \in Nat /\ DOMAIN more = 1..Len(more)
  BY LenProperties
<1>1. IF p \in S THEN MadeIn(c, p) = {} ELSE \E i \in DOMAIN c : MadeIn(c, p) = {i}
  BY Zenon DEF OnceBut
<1>2. CASE p # more[k].path
  <2>1. MadeIn(more, p) = {}
    BY <1>0, <1>2 DEF MadeIn
  <2>2. MadeIn(c \o more, p) = MadeIn(c, p) /\ DOMAIN c \subseteq DOMAIN (c \o more)
    BY <2>1, MadeNoMore
  <2>3. p \in T <=> p \in S
    BY <1>2
  <2> QED BY <1>1, <2>2, <2>3
<1>3. CASE p = more[k].path
  <2>1. p \in S /\ p \notin T
    BY <1>3
  <2>2. MadeIn(more, p) = {k}
    BY <1>0, <1>3 DEF MadeIn
  <2> DEFINE n == Len(c)
             m == Len(more)
  <2>3. /\ n \in Nat /\ m \in Nat /\ DOMAIN (c \o more) = 1..(n + m)
        /\ MadeIn(c \o more, p)
             = MadeIn(c, p) \cup {i \in (n + 1)..(n + m) : i - n \in MadeIn(more, p)}
    BY MadeConcat
  <2>4. k \in 1..m
    OBVIOUS
  <2> HIDE DEF n, m
  <2>5. \A i \in (n + 1)..(n + m) : i - n = k <=> i = n + k
    <3> SUFFICES ASSUME NEW i \in (n + 1)..(n + m)  PROVE i - n = k <=> i = n + k
      OBVIOUS
    <3>1. i \in Int /\ n \in Int /\ m \in Int
      BY <2>3
    <3>2. k \in Int
      BY <2>3, <2>4
    <3> HIDE DEF n, m
    <3> QED BY <3>1, <3>2
  <2>6. n + k \in (n + 1)..(n + m) /\ n + k \in 1..(n + m)
    BY <2>3, <2>4
  <2>7. MadeIn(c \o more, p) = {n + k}
    BY <1>1, <2>1, <2>2, <2>3, <2>5, <2>6
  <2> QED BY <2>1, <2>3, <2>6, <2>7
<1> QED BY <1>2, <1>3

-----------------------------------------------------------------------------
(* The steps of CoverInv.                                                  *)

\* The conjuncts of CoverInv that do not speak of the commands.
CoverRest ==
  /\ pc = "match" => scan.file \notin todo
  /\ Planned => todo = {}
  /\ pc # "clean" => unmatched = {p \in DstNodes : IsFile(world.dst, p)} \ (SrcNodes \ todo)

\* CoverInv of the next state: the stores, and so their files, are the same.
LEMMA CoverNext ==
  ASSUME world' = world, OnceBut(cmds', Pending'), CoverRest'
  PROVE  CoverInv'
<1>1. SrcFiles' = SrcFiles
  BY DEF SrcFiles, SrcNodes, src
<1>2. OnceBut(cmds, Pending)'
  BY <1>1 DEF OnceBut, MadeIn
<1> QED BY <1>2 DEF CoverInv, CoverRest

\* Nothing is planned, and every file is pending.
LEMMA CoverInit == Begun => CoverInv
<1> SUFFICES ASSUME Begun  PROVE CoverInv
  OBVIOUS
<1>1. DOMAIN cmds = {} /\ Pending = SrcNodes /\ todo = SrcNodes /\ pc = "plan"
  BY DEF Begun, Opened, Pending
<1>2. \A p \in SrcFiles : p \in Pending
  BY <1>1 DEF SrcFiles
<1>3. OnceBut(cmds, Pending)
  BY <1>1, <1>2 DEF OnceBut, MadeIn
<1>4. unmatched = {p \in DstNodes : IsFile(world.dst, p)} \ (SrcNodes \ todo)
  BY <1>1 DEF Begun, Opened
<1> QED BY <1>1, <1>3, <1>4 DEF CoverInv, Planned

\* A visit: the path is to be planned no more, and is not left to Clean.
LEMMA CoverVisit ==
  ASSUME IInv, CoverInv, NEW p \in todo, Visit(p), pc' \in {"plan", "match"},
         pc' = "match" => scan'.file = p
  PROVE  /\ world' = world /\ cmds \in Seq(Command) /\ OnceBut(cmds, todo)
         /\ p \in SrcNodes
         /\ todo' = todo \ {p}
         /\ CoverRest'
<1>1. /\ pc = "plan" /\ world' = world /\ todo' = todo \ {p} /\ unmatched' = unmatched \ {p}
  BY DEF Visit
<1>2. p \in SrcNodes /\ cmds \in Seq(Command)
  BY DEF IInv, TypeOK
<1>3. Pending = todo
  BY <1>1 DEF Pending
<1>4. SrcNodes' = SrcNodes /\ DstNodes' = DstNodes
  BY <1>1, WorldConstant
<1> DEFINE D == {q \in DstNodes : IsFile(world.dst, q)}
<1>5. unmatched = D \ (SrcNodes \ todo)
  BY <1>1 DEF CoverInv
<1>6. {q \in DstNodes : IsFile(world.dst, q)}' = D
  BY <1>1, <1>4
<1> HIDE DEF D
<1>7. unmatched' = D \ (SrcNodes \ todo')
  BY <1>1, <1>2, <1>5
<1>8. CoverRest'
  BY <1>1, <1>4, <1>6, <1>7 DEF CoverRest, Planned
<1> QED BY <1>1, <1>2, <1>3, <1>8 DEF CoverInv

\* A visit that plans nothing that makes a file, of a path that is no file.
LEMMA CoverNoFile ==
  ASSUME NEW c, NEW S, NEW p, p \notin SrcFiles, OnceBut(c, S)
  PROVE  OnceBut(c, S \ {p})
BY DEF OnceBut

\* A file or directory that the destination has: one command makes it.
LEMMA CoverPlanMatched ==
  ASSUME IInv, CoverInv, NEW p \in todo, PlanMatched(p)
  PROVE  CoverInv'
<1>1. Visit(p) /\ pc' = "plan"
  BY DEF PlanMatched, Visit
<1>2. /\ world' = world /\ cmds \in Seq(Command) /\ OnceBut(cmds, todo) /\ p \in SrcNodes
      /\ todo' = todo \ {p} /\ CoverRest'
  BY <1>1, CoverVisit
<1>3. Pending' = todo \ {p}
  BY <1>1, <1>2 DEF Pending
<1>4. PICK q \in Match(p) : cmds' = Append(cmds, IF p = q THEN Keep(p) ELSE Transfer(q, p))
  BY DEF PlanMatched
<1> DEFINE d == IF p = q THEN Keep(p) ELSE Transfer(q, p)
<1>5. d \in Command /\ d.op \in Makers /\ d.path = p
  BY <1>2, MatchNodes, CommandTypes DEF Keep, Transfer, Makers
<1>6. cmds' = Append(cmds, d)
  BY <1>4
<1> HIDE DEF d
<1>7. cmds' = cmds \o <<d>>
  BY <1>2, <1>5, <1>6, AppendIsConcat
<1> DEFINE more == <<d>>
<1>8. more \in Seq(Command) /\ Len(more) = 1 /\ more[1] = d
  BY <1>5, ShortSeqs
<1>9. cmds' = cmds \o more
  BY <1>7
<1> HIDE DEF more
<1>10. 1 \in 1..Len(more) /\ \A i \in 1..Len(more) : i # 1 => more[i].op \notin Makers
  BY <1>8
<1>11. OnceBut(cmds \o more, todo \ {p})
  BY <1>2, <1>5, <1>8, <1>10, MakesOne
<1> QED BY <1>2, <1>3, <1>9, <1>11, CoverNext

\* A directory in the way of the file: it is downloaded after the Conflict.
LEMMA CoverPlanFileConflict ==
  ASSUME IInv, CoverInv, NEW p \in todo, PlanFileConflict(p)
  PROVE  CoverInv'
<1>1. Visit(p) /\ pc' = "plan"
  BY DEF PlanFileConflict, Plan, Visit
<1>2. /\ world' = world /\ cmds \in Seq(Command) /\ OnceBut(cmds, todo) /\ p \in SrcNodes
      /\ todo' = todo \ {p} /\ CoverRest'
  BY <1>1, CoverVisit
<1>3. Pending' = todo \ {p}
  BY <1>1, <1>2 DEF Pending
<1> DEFINE c == Conflict(p, FALSE)
           d == SrcFileDownload(p)
<1>4. /\ c \in Command /\ c.op = "Conflict"
      /\ d \in Command /\ d.op = "SrcFileDownload" /\ d.path = p
  BY <1>2, CommandTypes DEF Conflict, SrcFileDownload
<1>5. cmds' = cmds \o <<c, d>>
  BY DEF PlanFileConflict, Plan
<1> HIDE DEF c, d
<1> DEFINE more == <<c, d>>
<1>6. more \in Seq(Command) /\ Len(more) = 2 /\ more[1] = c /\ more[2] = d
  BY <1>4, ShortSeqs
<1>7. cmds' = cmds \o more
  BY <1>5
<1> HIDE DEF more
<1>8. /\ 2 \in 1..Len(more) /\ more[2].op \in Makers /\ more[2].path = p
      /\ \A i \in 1..Len(more) : i # 2 => more[i].op \notin Makers
  BY <1>4, <1>6 DEF Makers
<1>9. OnceBut(cmds \o more, todo \ {p})
  BY <1>2, <1>6, <1>8, MakesOne
<1> QED BY <1>2, <1>3, <1>7, <1>9, CoverNext

\* A file that is not there: it is downloaded.
LEMMA CoverPlanDownload ==
  ASSUME IInv, CoverInv, NEW p \in todo, PlanDownload(p)
  PROVE  CoverInv'
<1>1. Visit(p) /\ pc' = "plan"
  BY DEF PlanDownload, Plan, Visit
<1>2. /\ world' = world /\ cmds \in Seq(Command) /\ OnceBut(cmds, todo) /\ p \in SrcNodes
      /\ todo' = todo \ {p} /\ CoverRest'
  BY <1>1, CoverVisit
<1>3. Pending' = todo \ {p}
  BY <1>1, <1>2 DEF Pending
<1> DEFINE d == SrcFileDownload(p)
<1>4. d \in Command /\ d.op \in Makers /\ d.path = p
  BY <1>2, CommandTypes DEF SrcFileDownload, Makers
<1>5. cmds' = cmds \o <<d>>
  BY DEF PlanDownload, Plan
<1> HIDE DEF d
<1> DEFINE more == <<d>>
<1>6. more \in Seq(Command) /\ Len(more) = 1 /\ more[1] = d
  BY <1>4, ShortSeqs
<1>7. cmds' = cmds \o more
  BY <1>5
<1> HIDE DEF more
<1>8. 1 \in 1..Len(more) /\ \A i \in 1..Len(more) : i # 1 => more[i].op \notin Makers
  BY <1>6
<1>9. OnceBut(cmds \o more, todo \ {p})
  BY <1>2, <1>4, <1>6, <1>8, MakesOne
<1> QED BY <1>2, <1>3, <1>7, <1>9, CoverNext

\* A file to take blocks from: it is still pending.
LEMMA CoverPlanFile ==
  ASSUME IInv, CoverInv, NEW p \in todo, PlanFile(p)
  PROVE  CoverInv'
<1>1. Visit(p) /\ pc' = "match" /\ scan'.file = p /\ cmds' = cmds
  BY DEF PlanFile
<1>2. /\ world' = world /\ cmds \in Seq(Command) /\ OnceBut(cmds, todo) /\ p \in SrcNodes
      /\ todo' = todo \ {p} /\ CoverRest'
  BY <1>1, CoverVisit
<1>3. Pending' = todo
  BY <1>1, <1>2 DEF Pending
<1>4. OnceBut(cmds', Pending')
  BY <1>1, <1>2, <1>3
<1> QED BY <1>2, <1>4, CoverNext

\* A directory is no file, and at most a Conflict is planned for it.
LEMMA CoverPlanDir ==
  ASSUME IInv, CoverInv, NEW p \in todo, PlanDir(p)
  PROVE  CoverInv'
<1>1. Visit(p) /\ pc' = "plan" /\ p \notin SrcFiles
  BY DEF PlanDir, Plan, Visit, IsDir, IsFile, SrcFiles
<1>2. /\ world' = world /\ cmds \in Seq(Command) /\ OnceBut(cmds, todo) /\ p \in SrcNodes
      /\ todo' = todo \ {p} /\ CoverRest'
  BY <1>1, CoverVisit
<1>3. Pending' = todo \ {p}
  BY <1>1, <1>2 DEF Pending
<1> DEFINE c == Conflict(p, TRUE)
           more == IF IsFile(dst, Located(p)) THEN <<c>> ELSE <<>>
<1>4. c \in Command /\ c.op \notin Makers
  BY <1>2, CommandTypes DEF Conflict, Makers
<1>5. cmds' = cmds \o more
  BY DEF PlanDir, Plan
<1> HIDE DEF c
<1>6. more \in Seq(Command) /\ \A i \in 1..Len(more) : more[i].op \notin Makers
  BY <1>4, ShortSeqs
<1> HIDE DEF more
<1>7. OnceBut(cmds \o more, todo)
  BY <1>2, <1>6, MakesNothing
<1>8. OnceBut(cmds \o more, todo \ {p})
  BY <1>1, <1>7, CoverNoFile
<1> QED BY <1>2, <1>3, <1>5, <1>8, CoverNext

\* The other steps of the planner leave what it has still to visit, and the unmatched files.
LEMMA CoverKept ==
  ASSUME CoverInv, UNCHANGED <<world, todo, unmatched>>, pc # "clean",
         pc' = "match" => scan'.file \notin todo,
         Planned' => Planned \/ todo = {}
  PROVE  CoverRest'
<1>1. SrcNodes' = SrcNodes /\ DstNodes' = DstNodes
  BY WorldConstant
<1>2. {q \in DstNodes : IsFile(world.dst, q)}' = {q \in DstNodes : IsFile(world.dst, q)}
  BY <1>1
<1> QED BY <1>1, <1>2 DEF CoverInv, CoverRest

\* While a file is matched nothing is planned.
LEMMA CoverMatch ==
  ASSUME IInv, CoverInv, MatchBlock \/ MatchRoll
  PROVE  CoverInv'
<1>1. /\ pc = "match" /\ pc' = "match" /\ UNCHANGED <<world, todo, unmatched, cmds>>
  BY DEF MatchBlock, MatchRoll
<1>2. scan \in ScanState
  BY <1>1 DEF IInv, TypeOK
<1>3. scan'.file = scan.file
  BY <1>2 DEF MatchBlock, MatchRoll, ScanState
<1>4. CoverRest'
  BY <1>1, <1>3, CoverKept DEF CoverInv, Planned
<1>5. OnceBut(cmds', Pending')
  BY <1>1, <1>3 DEF CoverInv, Pending
<1> QED BY <1>1, <1>4, <1>5, CoverNext

\* The temporary file makes the file that was matched.
LEMMA CoverMatchDone ==
  ASSUME IInv, CoverInv, MatchDone
  PROVE  CoverInv'
<1>1. /\ pc = "match" /\ pc' = "ranges" /\ UNCHANGED <<world, todo, unmatched>>
      /\ cmds \in Seq(Command)
  BY DEF MatchDone, IInv, TypeOK
<1>2. PICK more \in Seq(Command) :
        /\ cmds' = cmds \o more
        /\ more[1].op = "LocalTemp" /\ more[1].path = scan.file /\ Len(more) \in Nat \ {0}
        /\ \A i \in 2..Len(more) : more[i].op = "LocalTempCopy"
  BY MatchDoneCommands
<1> DEFINE p == scan.file
<1>3. Pending = todo \cup {p} /\ p \notin todo /\ Pending' = todo
  BY <1>1 DEF Pending, CoverInv
<1>4. OnceBut(cmds, todo \cup {p})
  BY <1>3 DEF CoverInv
<1>5. 1 \in 1..Len(more) /\ more[1].op \in Makers /\ more[1].path = p
  BY <1>2 DEF Makers
<1>6. \A i \in 1..Len(more) : i # 1 => more[i].op \notin Makers
  <2> SUFFICES ASSUME NEW i \in 1..Len(more), i # 1  PROVE more[i].op \notin Makers
    OBVIOUS
  <2>1. i \in 2..Len(more)
    BY <1>2
  <2> QED BY <1>2, <2>1 DEF Makers
<1> HIDE DEF p
<1> DEFINE S == todo \cup {p}
<1>7. p \in S /\ todo = S \ {p} /\ OnceBut(cmds, S)
  BY <1>3, <1>4
<1> HIDE DEF S
<1>8. OnceBut(cmds \o more, todo)
  BY <1>1, <1>5, <1>6, <1>7, MakesOne
<1>9. CoverRest'
  BY <1>1, CoverKept DEF Planned
<1> QED BY <1>1, <1>2, <1>3, <1>8, <1>9, CoverNext

\* The ranges that are fetched and the replacement make no other file.
LEMMA CoverRanges ==
  ASSUME IInv, CoverInv, UNCHANGED <<world, todo, unmatched>>, pc = "ranges",
         pc' \in {"ranges", "plan"},
         NEW more \in Seq(Command), cmds' = cmds \o more,
         \A i \in 1..Len(more) : more[i].op \notin Makers
  PROVE  CoverInv'
<1>1. Pending = todo /\ Pending' = todo /\ cmds \in Seq(Command)
  BY DEF Pending, IInv, TypeOK
<1>2. OnceBut(cmds, todo)
  BY <1>1 DEF CoverInv
<1>3. OnceBut(cmds \o more, todo)
  BY <1>1, <1>2, MakesNothing
<1>4. CoverRest'
  BY CoverKept DEF Planned
<1> QED BY <1>1, <1>3, <1>4, CoverNext

\* A gap between two blocks.
LEMMA CoverPlanRange ==
  ASSUME IInv, CoverInv, PlanRange
  PROVE  CoverInv'
<1> DEFINE end  == scan.matches[scan.range].dst
           more == FetchTo(end)
<1>1. /\ pc = "ranges" /\ pc' = "ranges" /\ UNCHANGED <<world, todo, unmatched>>
      /\ cmds' = cmds \o more
  BY DEF PlanRange
<1>2. end \in Nat
  <2>1. scan.matches \in Seq([src : Nat, dst : Nat])
    BY <1>1 DEF IInv, TypeOK, ScanState
  <2>2. scan.range \in 1..Len(scan.matches)
    BY <2>1, LenProperties DEF PlanRange
  <2>3. scan.matches[scan.range] \in [src : Nat, dst : Nat]
    BY <2>1, <2>2, ElementOfSeq
  <2> QED BY <2>3
<1> HIDE DEF end
<1>3. more \in Seq(Command) /\ \A i \in 1..Len(more) : more[i].op \notin Makers
  BY <1>1, <1>2, FetchToFacts DEF Makers
<1> HIDE DEF more
<1> QED BY <1>1, <1>3, CoverRanges

\* The last gap, and the replacement.
LEMMA CoverPlanFileDone ==
  ASSUME IInv, CoverInv, PlanFileDone
  PROVE  CoverInv'
<1> DEFINE gap == FetchTo(Len(src[scan.file]))
           c   == ReplaceWithTemp(scan.file)
<1>1. /\ pc = "ranges" /\ pc' = "plan" /\ UNCHANGED <<world, todo, unmatched>>
      /\ cmds' = cmds \o gap \o <<c>>
  BY DEF PlanFileDone
<1>2. scan.file \in SrcNodes /\ IsFile(src, scan.file) /\ cmds \in Seq(Command)
  BY <1>1 DEF IInv, TypeOK, PlanInv, ScanState
<1>3. Len(src[scan.file]) \in Nat
  <2>1. src[scan.file] \in Seq(Byte)
    BY <1>2, FileBytes, WorldFacts DEF IInv, TypeOK
  <2> QED BY <2>1, LenProperties
<1>4. c \in Command /\ c.op \notin Makers
  BY <1>2, CommandTypes DEF ReplaceWithTemp, Makers
<1>5. gap \in Seq(Command) /\ \A i \in 1..Len(gap) : gap[i].op \notin Makers
  BY <1>1, <1>3, FetchToFacts DEF Makers
<1> HIDE DEF gap, c
<1> DEFINE last == <<c>>
<1>6. last \in Seq(Command) /\ \A i \in 1..Len(last) : last[i].op \notin Makers
  BY <1>4, ShortSeqs
<1>7. cmds' = (cmds \o gap) \o last
  BY <1>1
<1> HIDE DEF last
<1>8. Pending = todo /\ Pending' = todo
  BY <1>1 DEF Pending
<1>9. OnceBut(cmds, todo)
  BY <1>8 DEF CoverInv
<1>10. OnceBut(cmds \o gap, todo)
  BY <1>2, <1>5, <1>9, MakesNothing
<1>11. cmds \o gap \in Seq(Command)
  BY <1>2, <1>5, ConcatProperties
<1> DEFINE all == cmds \o gap
<1>12. all \in Seq(Command) /\ OnceBut(all, todo) /\ cmds' = all \o last
  BY <1>7, <1>10, <1>11
<1> HIDE DEF all
<1>13. OnceBut(all \o last, todo)
  BY <1>6, <1>12, MakesNothing
<1>14. CoverRest'
  BY <1>1, CoverKept DEF Planned
<1> QED BY <1>1, <1>8, <1>12, <1>13, <1>14, CoverNext

\* A step that leaves the plan: it is complete, and Exec and Clean do not change it.
LEMMA CoverSame ==
  ASSUME CoverInv, UNCHANGED <<world, todo, cmds, scan>>,
         pc' = "match" <=> pc = "match",
         Planned' => Planned \/ todo = {},
         pc' # "clean" => pc # "clean" /\ unmatched' = unmatched
  PROVE  CoverInv'
<1>1. SrcNodes' = SrcNodes /\ DstNodes' = DstNodes
  BY WorldConstant
<1>2. {q \in DstNodes : IsFile(world.dst, q)}' = {q \in DstNodes : IsFile(world.dst, q)}
  BY <1>1
<1>3. CoverRest'
  BY <1>1, <1>2 DEF CoverInv, CoverRest
<1>4. OnceBut(cmds', Pending')
  BY DEF CoverInv, Pending
<1> QED BY <1>3, <1>4, CoverNext

\* Every step preserves the invariant.
LEMMA CoverStep == IInv /\ CoverInv /\ [Next]_vars => CoverInv'
<1> SUFFICES ASSUME IInv, CoverInv, [Next]_vars  PROVE CoverInv'
  OBVIOUS
<1>1. CASE \E p \in todo : \/ PlanMatched(p) \/ PlanFileConflict(p) \/ PlanDownload(p)
                           \/ PlanFile(p) \/ PlanDir(p)
  BY <1>1, CoverPlanMatched, CoverPlanFileConflict, CoverPlanDownload, CoverPlanFile,
     CoverPlanDir
<1>2. CASE MatchBlock \/ MatchRoll
  BY <1>2, CoverMatch
<1>3. CASE MatchDone \/ PlanRange \/ PlanFileDone
  BY <1>3, CoverMatchDone, CoverPlanRange, CoverPlanFileDone
<1>4. CASE PlanDone
  <2>1. /\ UNCHANGED <<world, todo, cmds, scan, unmatched>>
        /\ pc = "plan" /\ pc' = "exec" /\ todo = {}
    BY <1>4 DEF PlanDone, planVars
  <2> QED BY <2>1, CoverSame DEF Planned
<1>5. CASE Exec
  <2>1. /\ UNCHANGED <<world, todo, cmds, scan, unmatched>>
        /\ pc = "exec" /\ pc' \in {"exec", "failed", "done"}
    BY <1>5 DEF Exec, ExecTransfer, ExecKeep, ExecConflict, ExecConflictFails, ExecLocalTemp,
       ExecLocalTempCopy, ExecSrcTempCopy, ExecReplaceWithTemp, ExecSrcFileDownload,
       ExecDone, Take, Finish, planVars
  <2> QED BY <2>1, CoverSame DEF Planned
<1>6. CASE \E p \in unmatched : Clean(p)
  <2>1. /\ UNCHANGED <<world, todo, cmds, scan>>
        /\ pc \in {"done", "clean"} /\ pc' = "clean"
    BY <1>6 DEF Clean
  <2> QED BY <2>1, CoverSame DEF Planned
<1>7. CASE UNCHANGED vars
  <2>1. UNCHANGED <<world, todo, cmds, scan, pc, unmatched>>
    BY <1>7 DEF vars
  <2> QED BY <2>1, CoverSame DEF Planned
<1> QED BY <1>1, <1>2, <1>3, <1>4, <1>5, <1>6, <1>7 DEF Next, Planner

\* What CoverInv says of a complete plan.
LEMMA CoverIsCovered == CoverInv => PlanCovers
<1> SUFFICES ASSUME CoverInv, Planned  PROVE
      /\ \A p \in SrcFiles :
           Cardinality({i \in DOMAIN cmds :
             cmds[i].path = p /\ cmds[i].op \in {"Transfer", "Keep", "SrcFileDownload", "LocalTemp"}})
           = 1
      /\ pc # "clean" => unmatched = {p \in DstNodes \ SrcNodes : IsFile(world.dst, p)}
  BY DEF PlanCovers
<1>1. todo = {} /\ Pending = {}
  BY DEF CoverInv, Pending, Planned
<1>2. ASSUME NEW p \in SrcFiles  PROVE Cardinality(MadeIn(cmds, p)) = 1
  <2>1. PICK i \in DOMAIN cmds : MadeIn(cmds, p) = {i}
    BY <1>1 DEF CoverInv, OnceBut
  <2> QED BY <2>1, FS_Singleton
<1>3. pc # "clean" => unmatched = {p \in DstNodes : IsFile(world.dst, p)} \ SrcNodes
  BY <1>1 DEF CoverInv
<1> QED BY <1>2, <1>3 DEF MadeIn, Makers

\* For every pair of stores the plan makes each file of the source once, and leaves to
\* Clean just the files of the destination that the source has not got (patch.go:304-331).
THEOREM PlanAlwaysCovers == Spec => []PlanCovers
<1>1. Init => CoverInv
  BY CoverInit, InitBegun
<1>2. IInv /\ CoverInv /\ [Next]_vars => CoverInv'
  BY CoverStep
<1>3. CoverInv => PlanCovers
  BY CoverIsCovered
<1> QED BY <1>1, <1>2, <1>3, Inductive, PTL DEF Spec


-----------------------------------------------------------------------------
(* What the execution of a plan does to the destination.  First the list   *)
(* of commands: what the planner knew when it added each.                  *)

\* Whether a command is one that the planner would add for its path.
Apt(c) ==
  /\ c.op = "Transfer" => c.from \in Match(c.path) /\ c.from # c.path
  /\ c.op = "Keep" => c.path \in Match(c.path)
  /\ c.op \notin {"Transfer", "Keep"} => Match(c.path) = {}
  /\ c.op = "Conflict" /\ c.absolute =>
       IsDir(src, c.path) /\ IsFile(world.dst, Resolve(world.dstRoot, <<>>, c.path))
  /\ c.op \notin {"Transfer", "Keep", "Conflict"} => IsFile(src, c.path)

\* A temporary file that is opened is used by the next command.
Followed(c) == \A i \in DOMAIN c : i # Len(c) /\ c[i].op \in Openers => c[i + 1].op \in Needers

\* No path has two conflicts.
OneConflict(c) ==
  \A i, j \in DOMAIN c :
    c[i].op = "Conflict" /\ c[j].op = "Conflict" /\ c[i].path = c[j].path => i = j

\* A list of commands that are apt, none of them for a path in S.
Orderly(c, S) ==
  /\ \A i \in DOMAIN c : Apt(c[i]) /\ c[i].path \notin S
  /\ OneConflict(c)
  /\ Followed(c)

\* The list leaves no temporary file open.
Closed(c) == Len(c) # 0 => c[Len(c)].op \notin Openers

ShapeInv ==
  /\ Orderly(cmds, todo)
  /\ pc # "ranges" => Closed(cmds)
  /\ Planning => dst = world.dst /\ relocs = <<>>
  /\ pc \in {"match", "ranges"} => Match(scan.file) = {} /\ scan.file \notin todo

\* Two lists, one after the other.
LEMMA OrderlyConcat ==
  ASSUME NEW c \in Seq(Command), NEW more \in Seq(Command), NEW S, NEW T,
         T \subseteq S, Orderly(c, S),
         \A i \in 1..Len(more) : Apt(more[i]) /\ more[i].path \notin T,
         \A i \in 1..Len(more) : more[i].op = "Conflict" => i = 1 /\ more[i].path \in S,
         Followed(more),
         Len(c) # 0 /\ c[Len(c)].op \in Openers /\ Len(more) # 0 => more[1].op \in Needers
  PROVE  Orderly(c \o more, T)
<1> DEFINE n == Len(c)
           m == Len(more)
           all == c \o more
<1>1. /\ n \in Nat /\ m \in Nat /\ DOMAIN c = 1..n /\ DOMAIN more = 1..m
      /\ DOMAIN all = 1..(n + m) /\ Len(all) = n + m
      /\ \A i \in 1..(n + m) : all[i] = IF i <= n THEN c[i] ELSE more[i - n]
  <2>1. /\ all \in Seq(Command) /\ Len(all) = n + m
        /\ \A i \in 1..(n + m) : all[i] = IF i <= n THEN c[i] ELSE more[i - n]
    BY ConcatProperties
  <2> HIDE DEF all
  <2> QED BY <2>1, LenProperties
<1>2. /\ \A i \in 1..n : Apt(c[i]) /\ c[i].path \notin S
      /\ OneConflict(c) /\ Followed(c)
  BY <1>1 DEF Orderly
<1>3. \A i \in 1..m : Apt(more[i]) /\ more[i].path \notin T
  OBVIOUS
<1>4. \A i \in 1..m : more[i].op = "Conflict" => i = 1 /\ more[i].path \in S
  OBVIOUS
<1>5. n # 0 /\ c[n].op \in Openers /\ m # 0 => more[1].op \in Needers
  OBVIOUS
<1> HIDE DEF n, m, all
<1>6. \A i \in 1..n : all[i] = c[i] /\ i \in 1..(n + m)
  BY <1>1
<1>7. \A i \in 1..(n + m) : i \notin 1..n => i - n \in 1..m /\ all[i] = more[i - n]
  BY <1>1
<1>8. \A i \in 1..(n + m) : Apt(all[i]) /\ all[i].path \notin T
  BY <1>2, <1>3, <1>6, <1>7
<1>9. OneConflict(all)
  <2> SUFFICES ASSUME NEW i \in 1..(n + m), NEW j \in 1..(n + m), all[i].op = "Conflict",
                      all[j].op = "Conflict", all[i].path = all[j].path
               PROVE  i = j
    BY <1>1 DEF OneConflict
  <2>1. \A k \in {i, j} : k \notin 1..n => k = n + 1 /\ all[k].path \in S
    <3> SUFFICES ASSUME NEW k \in {i, j}, k \notin 1..n  PROVE k = n + 1 /\ all[k].path \in S
      OBVIOUS
    <3> DEFINE h == k - n
    <3>1. h \in 1..m /\ all[k] = more[h] /\ all[k].op = "Conflict" /\ k = n + h
      BY <1>1, <1>7
    <3> HIDE DEF h
    <3> QED BY <1>1, <1>4, <3>1
  <2>2. \A k \in {i, j} : k \in 1..n => all[k].path \notin S
    BY <1>2, <1>6
  <2>3. CASE i \in 1..n /\ j \in 1..n
    BY <1>1, <1>2, <1>6, <2>3 DEF OneConflict
  <2>4. CASE i \notin 1..n \/ j \notin 1..n
    BY <2>1, <2>2, <2>4
  <2> QED BY <2>3, <2>4
<1>10. Followed(all)
  <2> SUFFICES ASSUME NEW i \in 1..(n + m), i # n + m, all[i].op \in Openers
               PROVE  all[i + 1].op \in Needers
    BY <1>1 DEF Followed
  <2>1. CASE i \in 1..n /\ i # n
    <3>1. i + 1 \in 1..n
      BY <1>1, <2>1
    <3>2. all[i] = c[i] /\ all[i + 1] = c[i + 1]
      BY <1>6, <2>1, <3>1
    <3> QED BY <1>1, <1>2, <2>1, <3>2 DEF Followed, n
  <2>2. CASE i = n
    <3> DEFINE j == n + 1
    <3>1. n # 0 /\ m # 0 /\ j \in 1..(n + m) /\ j \notin 1..n /\ j - n = 1 /\ n \in 1..n
      BY <1>1, <2>2
    <3> HIDE DEF j
    <3>2. all[j] = more[1] /\ all[n] = c[n]
      BY <1>6, <1>7, <3>1
    <3> QED BY <1>5, <2>2, <3>1, <3>2 DEF j
  <2>3. CASE i \notin 1..n
    <3> DEFINE h == i - n
               j == i + 1
    <3>1. /\ h \in 1..m /\ all[i] = more[h] /\ h # m
          /\ j \in 1..(n + m) /\ j \notin 1..n /\ j - n = h + 1
      BY <1>1, <1>7, <2>3
    <3> HIDE DEF h, j
    <3>2. all[j] = more[h + 1]
      BY <1>7, <3>1
    <3>3. more[h + 1].op \in Needers
      BY <1>1, <3>1 DEF Followed, m
    <3> QED BY <3>2, <3>3 DEF j
  <2> QED BY <2>1, <2>2, <2>3
<1> QED BY <1>1, <1>8, <1>9, <1>10 DEF Orderly, all

\* ... and whether the second leaves a temporary file open.
LEMMA ClosedConcat ==
  ASSUME NEW c \in Seq(Command), NEW more \in Seq(Command), Closed(c),
         \A i \in 1..Len(more) : more[i].op \notin Openers
  PROVE  Closed(c \o more)
<1> DEFINE n == Len(c)
           m == Len(more)
           all == c \o more
<1>1. /\ n \in Nat /\ m \in Nat /\ Len(all) = n + m
      /\ \A i \in 1..(n + m) : all[i] = IF i <= n THEN c[i] ELSE more[i - n]
  BY ConcatProperties, LenProperties
<1>2. n # 0 => c[n].op \notin Openers
  BY DEF Closed
<1>3. \A i \in 1..m : more[i].op \notin Openers
  OBVIOUS
<1> HIDE DEF n, m, all
<1>4. ASSUME n + m # 0  PROVE all[n + m].op \notin Openers
  <2> DEFINE k == n + m
  <2>1. CASE m = 0
    <3>1. k = n /\ k \in 1..(n + m) /\ k <= n
      BY <1>1, <1>4, <2>1
    <3> HIDE DEF k
    <3> QED BY <1>1, <1>2, <1>4, <2>1, <3>1 DEF k
  <2>2. CASE m # 0
    <3>1. k \in 1..(n + m) /\ ~(k <= n) /\ k - n = m /\ m \in 1..m
      BY <1>1, <2>2
    <3> HIDE DEF k
    <3>2. all[k] = more[m]
      BY <1>1, <3>1
    <3> QED BY <1>3, <3>1, <3>2 DEF k
  <2> QED BY <2>1, <2>2
<1> QED BY <1>1, <1>4 DEF Closed, all

\* The stores are the same in the next state: so is what is apt.
LEMMA ShapeNext ==
  ASSUME world' = world, Orderly(cmds', todo'),
         pc' # "ranges" => Closed(cmds'),
         Planning' => dst' = world.dst /\ relocs' = <<>>,
         pc' \in {"match", "ranges"} => Match(scan'.file) = {} /\ scan'.file \notin todo'
  PROVE  ShapeInv'
<1>1. Orderly(cmds, todo)'
  BY DEF Orderly, OneConflict, Followed, Apt, Match, src
<1>2. pc' \in {"match", "ranges"} => (Match(scan.file) = {})' /\ scan'.file \notin todo'
  BY DEF Match, src
<1>3. (pc # "ranges" => Closed(cmds))'
  BY DEF Closed
<1> QED BY <1>1, <1>2, <1>3 DEF ShapeInv

\* No commands, and the destination as it was opened.
LEMMA ShapeInit == Begun => ShapeInv
<1> SUFFICES ASSUME Begun  PROVE ShapeInv
  OBVIOUS
<1>1. /\ dst = world.dst /\ relocs = <<>> /\ pc = "plan" /\ cmds = <<>>
  BY DEF Begun, Opened
<1>2. DOMAIN cmds = {} /\ Len(cmds) = 0
  BY <1>1
<1> QED BY <1>1, <1>2 DEF ShapeInv, Orderly, OneConflict, Followed, Closed

\* A visit adds commands for the visited path, which has none so far.
LEMMA ShapeVisit ==
  ASSUME IInv, ShapeInv, NEW p \in todo, Visit(p), pc' = "plan",
         NEW more \in Seq(Command), cmds' = cmds \o more,
         \A i \in 1..Len(more) : /\ Apt(more[i]) /\ more[i].path = p
                                 /\ more[i].op \notin Openers
                                 /\ more[i].op = "Conflict" => i = 1
  PROVE  ShapeInv'
<1>1. /\ pc = "plan" /\ todo' = todo \ {p} /\ UNCHANGED <<world, dst, relocs>>
      /\ cmds \in Seq(Command) /\ Len(more) \in Nat
  BY LenProperties DEF Visit, execVars, IInv, TypeOK
<1>2. Orderly(cmds, todo) /\ Closed(cmds) /\ dst = world.dst /\ relocs = <<>>
  BY <1>1 DEF ShapeInv, Planning
<1>3. Followed(more)
  <2>1. DOMAIN more = 1..Len(more)
    BY LenProperties
  <2> QED BY <2>1 DEF Followed
<1>4. ~(Len(cmds) # 0 /\ cmds[Len(cmds)].op \in Openers)
  BY <1>2 DEF Closed
<1>5. Orderly(cmds \o more, todo \ {p})
  BY <1>1, <1>2, <1>3, <1>4, OrderlyConcat
<1>6. Closed(cmds \o more)
  BY <1>1, <1>2, ClosedConcat
<1>7. Orderly(cmds', todo') /\ Closed(cmds')
  BY <1>1, <1>5, <1>6
<1> QED BY <1>1, <1>2, <1>7, ShapeNext

\* What the planner knows of a path it visits.
LEMMA VisitFacts ==
  ASSUME IInv, ShapeInv, NEW p \in todo, Visit(p)
  PROVE  /\ p \in SrcNodes /\ p \in DOMAIN src /\ pc = "plan" /\ cmds \in Seq(Command)
         /\ dst = world.dst /\ Located(p) = Resolve(world.dstRoot, <<>>, p)
<1>1. p \in SrcNodes /\ pc = "plan" /\ cmds \in Seq(Command) /\ IsWorld(world)
  BY DEF Visit, IInv, TypeOK
<1>2. dst = world.dst /\ relocs = <<>>
  BY <1>1 DEF ShapeInv, Planning
<1> QED BY <1>1, <1>2, WorldFacts DEF Located

\* A node that the destination has.
LEMMA ShapePlanMatched ==
  ASSUME IInv, ShapeInv, NEW p \in todo, PlanMatched(p)
  PROVE  ShapeInv'
<1>1. Visit(p) /\ pc' = "plan"
  BY DEF PlanMatched, Visit
<1>2. p \in SrcNodes /\ cmds \in Seq(Command)
  BY <1>1, VisitFacts
<1>3. PICK q \in Match(p) : cmds' = Append(cmds, IF p = q THEN Keep(p) ELSE Transfer(q, p))
  BY DEF PlanMatched
<1> DEFINE d == IF p = q THEN Keep(p) ELSE Transfer(q, p)
<1>4. d \in Command /\ d.path = p /\ d.op \in {"Keep", "Transfer"} /\ Apt(d)
  <2>1. d \in Command
    BY <1>2, MatchNodes, CommandTypes
  <2>2. CASE p = q
    BY <1>2, <2>1, <2>2 DEF Keep, Apt
  <2>3. CASE p # q
    BY <1>2, <2>1, <2>3 DEF Transfer, Apt
  <2> QED BY <2>2, <2>3
<1>5. cmds' = Append(cmds, d)
  BY <1>3
<1> HIDE DEF d
<1>6. cmds' = cmds \o <<d>>
  BY <1>2, <1>4, <1>5, AppendIsConcat
<1> DEFINE more == <<d>>
<1>7. more \in Seq(Command) /\ Len(more) = 1 /\ more[1] = d /\ cmds' = cmds \o more
  BY <1>4, <1>6, ShortSeqs
<1> HIDE DEF more
<1>8. \A i \in 1..Len(more) : /\ Apt(more[i]) /\ more[i].path = p
                              /\ more[i].op \notin Openers
                              /\ more[i].op = "Conflict" => i = 1
  BY <1>4, <1>7 DEF Openers
<1> QED BY <1>1, <1>7, <1>8, ShapeVisit

\* A directory in the way of the file.
LEMMA ShapePlanFileConflict ==
  ASSUME IInv, ShapeInv, NEW p \in todo, PlanFileConflict(p)
  PROVE  ShapeInv'
<1>1. Visit(p) /\ pc' = "plan" /\ Match(p) = {} /\ IsFile(src, p)
  BY DEF PlanFileConflict, Plan, Visit
<1>2. p \in SrcNodes /\ cmds \in Seq(Command)
  BY <1>1, VisitFacts
<1> DEFINE c == Conflict(p, FALSE)
           d == SrcFileDownload(p)
<1>3. /\ c \in Command /\ c.path = p /\ c.op = "Conflict" /\ Apt(c)
      /\ d \in Command /\ d.path = p /\ d.op = "SrcFileDownload" /\ Apt(d)
  <2>1. c \in Command /\ d \in Command
    BY <1>2, CommandTypes
  <2> QED BY <1>1, <2>1 DEF Conflict, SrcFileDownload, Apt
<1>4. cmds' = cmds \o <<c, d>>
  BY DEF PlanFileConflict, Plan
<1> HIDE DEF c, d
<1> DEFINE more == <<c, d>>
<1>5. more \in Seq(Command) /\ Len(more) = 2 /\ more[1] = c /\ more[2] = d /\ cmds' = cmds \o more
  BY <1>3, <1>4, ShortSeqs
<1> HIDE DEF more
<1>6. \A i \in 1..Len(more) : /\ Apt(more[i]) /\ more[i].path = p
                              /\ more[i].op \notin Openers
                              /\ more[i].op = "Conflict" => i = 1
  BY <1>3, <1>5 DEF Openers
<1> QED BY <1>1, <1>5, <1>6, ShapeVisit

\* A file that is not there.
LEMMA ShapePlanDownload ==
  ASSUME IInv, ShapeInv, NEW p \in todo, PlanDownload(p)
  PROVE  ShapeInv'
<1>1. Visit(p) /\ pc' = "plan" /\ Match(p) = {} /\ IsFile(src, p)
  BY DEF PlanDownload, Plan, Visit
<1>2. p \in SrcNodes /\ cmds \in Seq(Command)
  BY <1>1, VisitFacts
<1> DEFINE d == SrcFileDownload(p)
<1>3. d \in Command /\ d.path = p /\ d.op = "SrcFileDownload" /\ Apt(d)
  <2>1. d \in Command
    BY <1>2, CommandTypes
  <2> QED BY <1>1, <2>1 DEF SrcFileDownload, Apt
<1>4. cmds' = cmds \o <<d>>
  BY DEF PlanDownload, Plan
<1> HIDE DEF d
<1> DEFINE more == <<d>>
<1>5. more \in Seq(Command) /\ Len(more) = 1 /\ more[1] = d /\ cmds' = cmds \o more
  BY <1>3, <1>4, ShortSeqs
<1> HIDE DEF more
<1>6. \A i \in 1..Len(more) : /\ Apt(more[i]) /\ more[i].path = p
                              /\ more[i].op \notin Openers
                              /\ more[i].op = "Conflict" => i = 1
  BY <1>3, <1>5 DEF Openers
<1> QED BY <1>1, <1>5, <1>6, ShapeVisit

\* A directory: there may be a file in its way.
LEMMA ShapePlanDir ==
  ASSUME IInv, ShapeInv, NEW p \in todo, PlanDir(p)
  PROVE  ShapeInv'
<1>1. Visit(p) /\ pc' = "plan" /\ Match(p) = {} /\ IsDir(src, p)
  BY DEF PlanDir, Plan, Visit
<1>2. /\ p \in SrcNodes /\ cmds \in Seq(Command)
      /\ dst = world.dst /\ Located(p) = Resolve(world.dstRoot, <<>>, p)
  BY <1>1, VisitFacts
<1> DEFINE c == Conflict(p, TRUE)
           more == IF IsFile(dst, Located(p)) THEN <<c>> ELSE <<>>
<1>3. /\ c \in Command /\ c.path = p /\ c.op = "Conflict"
      /\ IsFile(dst, Located(p)) => Apt(c)
  <2>1. c \in Command
    BY <1>2, CommandTypes
  <2> QED BY <1>1, <1>2, <2>1 DEF Conflict, Apt
<1>4. cmds' = cmds \o more
  BY DEF PlanDir, Plan
<1> HIDE DEF c
<1>5. /\ more \in Seq(Command)
      /\ \A i \in 1..Len(more) : /\ Apt(more[i]) /\ more[i].path = p
                                 /\ more[i].op \notin Openers
                                 /\ more[i].op = "Conflict" => i = 1
  <2>1. CASE IsFile(dst, Located(p))
    <3>1. more = <<c>>
      BY <2>1
    <3>2. <<c>> \in Seq(Command) /\ Len(<<c>>) = 1 /\ <<c>>[1] = c
      BY <1>3, ShortSeqs
    <3> HIDE DEF more
    <3>3. more \in Seq(Command) /\ Len(more) = 1 /\ more[1] = c
      BY <3>1, <3>2
    <3> QED BY <1>3, <2>1, <3>3 DEF Openers
  <2>2. CASE ~IsFile(dst, Located(p))
    <3>1. more = <<>>
      BY <2>2
    <3> HIDE DEF more
    <3> QED BY <3>1
  <2> QED BY <2>1, <2>2
<1> HIDE DEF more
<1> QED BY <1>1, <1>4, <1>5, ShapeVisit

\* A file to match: it has no commands yet, and nobody else will plan it.
LEMMA ShapePlanFile ==
  ASSUME IInv, ShapeInv, NEW p \in todo, PlanFile(p)
  PROVE  ShapeInv'
<1>1. /\ Visit(p) /\ pc' = "match" /\ cmds' = cmds /\ Match(p) = {} /\ scan'.file = p
      /\ pc = "plan" /\ todo' = todo \ {p} /\ UNCHANGED <<world, dst, relocs>>
  BY DEF PlanFile, Visit, execVars
<1>2. Orderly(cmds, todo) /\ Closed(cmds) /\ dst = world.dst /\ relocs = <<>>
  BY <1>1 DEF ShapeInv, Planning
<1>3. Orderly(cmds', todo')
  BY <1>1, <1>2 DEF Orderly
<1> QED BY <1>1, <1>2, <1>3, ShapeNext

\* The commands for the file that is matched.
LEMMA ShapeScan ==
  ASSUME IInv, ShapeInv, UNCHANGED <<world, todo, dst, relocs>>, pc \in {"match", "ranges"},
         NEW more \in Seq(Command), cmds' = cmds \o more, Followed(more),
         \A i \in 1..Len(more) : more[i].path = scan.file /\ more[i].op \notin {"Transfer", "Keep", "Conflict"},
         pc = "ranges" /\ Len(more) # 0 => more[1].op \in Needers,
         pc' \in {"match", "ranges"} => scan'.file = scan.file,
         pc' # "ranges" => Closed(cmds')
  PROVE  ShapeInv'
<1>1. /\ cmds \in Seq(Command) /\ IsFile(src, scan.file)
      /\ Orderly(cmds, todo) /\ Match(scan.file) = {} /\ scan.file \notin todo
      /\ pc # "ranges" => Closed(cmds)
      /\ dst = world.dst /\ relocs = <<>>
  BY DEF ShapeInv, IInv, TypeOK, PlanInv, Planning
<1>2. \A i \in 1..Len(more) : Apt(more[i]) /\ more[i].path \notin todo
  BY <1>1 DEF Apt
<1>3. Len(cmds) # 0 /\ cmds[Len(cmds)].op \in Openers /\ Len(more) # 0 => more[1].op \in Needers
  BY <1>1 DEF Closed
<1>4. Orderly(cmds \o more, todo)
  BY <1>1, <1>2, <1>3, OrderlyConcat
<1>5. Orderly(cmds', todo')
  BY <1>4
<1> QED BY <1>1, <1>5, ShapeNext

\* The window moves.
LEMMA ShapeMatchLoop ==
  ASSUME IInv, ShapeInv, MatchBlock \/ MatchRoll
  PROVE  ShapeInv'
<1>1. /\ pc = "match" /\ pc' = "match" /\ UNCHANGED <<world, todo, cmds, dst, relocs>>
  BY DEF MatchBlock, MatchRoll, execVars
<1>2. scan \in ScanState
  BY <1>1 DEF IInv, TypeOK
<1>3. scan'.file = scan.file
  BY <1>2 DEF MatchBlock, MatchRoll, ScanState
<1>4. cmds \in Seq(Command) /\ Closed(cmds)
  BY <1>1 DEF IInv, TypeOK, ShapeInv
<1> DEFINE more == <<>>
<1>5. more \in Seq(Command) /\ Len(more) = 0 /\ cmds' = cmds \o more /\ DOMAIN more = {}
  BY <1>1, <1>4, ConcatEmptySeq
<1> HIDE DEF more
<1>6. Followed(more)
  BY <1>5 DEF Followed
<1>7. cmds' = cmds
  BY DEF MatchBlock, MatchRoll
<1>8. \A i \in 1..Len(more) :
        more[i].path = scan.file /\ more[i].op \notin {"Transfer", "Keep", "Conflict"}
  BY <1>5
<1> QED BY <1>1, <1>3, <1>4, <1>5, <1>6, <1>7, <1>8, ShapeScan

\* The temporary file is opened; each command leaves it open, and all but the first need it.
LEMMA ShapeMatchDone ==
  ASSUME IInv, ShapeInv, MatchDone
  PROVE  ShapeInv'
<1>1. /\ pc = "match" /\ pc' = "ranges" /\ UNCHANGED <<world, todo, dst, relocs, scan>>
  BY DEF MatchDone, execVars
<1>2. PICK more \in Seq(Command) :
        /\ cmds' = cmds \o more /\ Len(more) \in Nat \ {0}
        /\ \A i \in 2..Len(more) : more[i].op = "LocalTempCopy"
        /\ \A i \in 1..Len(more) : /\ more[i].op \in {"LocalTemp", "LocalTempCopy"}
                                   /\ more[i].path = scan.file
  BY MatchDoneCommands
<1>3. Followed(more)
  <2> SUFFICES ASSUME NEW i \in DOMAIN more, i # Len(more)  PROVE more[i + 1].op \in Needers
    BY DEF Followed
  <2>1. i + 1 \in 2..Len(more)
    BY <1>2, LenProperties
  <2> QED BY <1>2, <2>1 DEF Needers
<1> QED BY <1>1, <1>2, <1>3, ShapeScan

\* The ranges that are fetched, and the end of the file's commands.
LEMMA FetchShape ==
  ASSUME IInv, pc = "ranges", NEW end \in Nat
  PROVE  /\ FetchTo(end) \in Seq(Command) /\ Len(FetchTo(end)) \in {0, 1}
         /\ \A i \in 1..Len(FetchTo(end)) :
              FetchTo(end)[i].op = "SrcTempCopy" /\ FetchTo(end)[i].path = scan.file
         /\ Followed(FetchTo(end))
<1> DEFINE more == FetchTo(end)
<1>1. /\ more \in Seq(Command) /\ Len(more) \in {0, 1}
      /\ \A i \in 1..Len(more) : more[i].op = "SrcTempCopy" /\ more[i].path = scan.file
  BY FetchToFacts
<1> HIDE DEF more
<1>2. DOMAIN more = 1..Len(more)
  BY <1>1, LenProperties
<1>3. Followed(more)
  BY <1>1, <1>2 DEF Followed
<1> QED BY <1>1, <1>3 DEF more

\* A gap between two blocks.
LEMMA ShapePlanRange ==
  ASSUME IInv, ShapeInv, PlanRange
  PROVE  ShapeInv'
<1> DEFINE end  == scan.matches[scan.range].dst
           more == FetchTo(end)
<1>1. /\ pc = "ranges" /\ pc' = "ranges" /\ UNCHANGED <<world, todo, dst, relocs>>
      /\ cmds' = cmds \o more
  BY DEF PlanRange, execVars
<1>2. scan'.file = scan.file
  BY <1>1 DEF PlanRange, IInv, TypeOK, ScanState
<1>3. end \in Nat
  <2>1. scan.matches \in Seq([src : Nat, dst : Nat])
    BY <1>1 DEF IInv, TypeOK, ScanState
  <2>2. scan.range \in 1..Len(scan.matches)
    BY <2>1, LenProperties DEF PlanRange
  <2>3. scan.matches[scan.range] \in [src : Nat, dst : Nat]
    BY <2>1, <2>2, ElementOfSeq
  <2> QED BY <2>3
<1> HIDE DEF end
<1>4. /\ more \in Seq(Command) /\ Len(more) \in {0, 1} /\ Followed(more)
      /\ \A i \in 1..Len(more) : more[i].op = "SrcTempCopy" /\ more[i].path = scan.file
  BY <1>1, <1>3, FetchShape
<1> HIDE DEF more
<1>5. Len(more) # 0 => more[1].op \in Needers
  BY <1>4 DEF Needers
<1> QED BY <1>1, <1>2, <1>4, <1>5, ShapeScan

\* The last gap, and the end of the file's commands.
LEMMA ShapePlanFileDone ==
  ASSUME IInv, ShapeInv, PlanFileDone
  PROVE  ShapeInv'
<1> DEFINE file == scan.file
           gap  == FetchTo(Len(src[file]))
           c    == ReplaceWithTemp(file)
           more == gap \o <<c>>
<1>1. /\ pc = "ranges" /\ pc' = "plan" /\ UNCHANGED <<world, todo, dst, relocs>>
      /\ cmds' = cmds \o gap \o <<c>> /\ cmds \in Seq(Command)
  BY DEF PlanFileDone, execVars, IInv, TypeOK
<1>2. file \in SrcNodes /\ Len(src[file]) \in Nat
  <2>1. file \in SrcNodes /\ IsFile(src, file)
    BY <1>1 DEF IInv, TypeOK, PlanInv, ScanState
  <2>2. src[file] \in Seq(Byte)
    BY <2>1, FileBytes, WorldFacts DEF IInv, TypeOK
  <2> QED BY <2>1, <2>2, LenProperties
<1>3. c \in Command /\ c.op = "ReplaceWithTemp" /\ c.path = file
  BY <1>2, CommandTypes DEF ReplaceWithTemp
<1>4. /\ gap \in Seq(Command) /\ Len(gap) \in {0, 1}
      /\ \A i \in 1..Len(gap) : gap[i].op = "SrcTempCopy" /\ gap[i].path = file
  BY <1>1, <1>2, FetchShape
<1> HIDE DEF gap, c
<1>5. <<c>> \in Seq(Command) /\ Len(<<c>>) = 1 /\ <<c>>[1] = c
  BY <1>3, ShortSeqs
<1>6. cmds' = cmds \o more
  BY <1>1, <1>4, <1>5, ConcatAssociative
<1>7. /\ more \in Seq(Command) /\ Len(more) = Len(gap) + 1 /\ DOMAIN more = 1..Len(more)
      /\ \A i \in 1..(Len(gap) + 1) : more[i] = IF i <= Len(gap) THEN gap[i] ELSE c
  <2> DEFINE last == <<c>>
  <2>1. last \in Seq(Command) /\ Len(last) = 1 /\ last[1] = c
    BY <1>5
  <2> HIDE DEF last
  <2>2. /\ gap \o last \in Seq(Command) /\ Len(gap \o last) = Len(gap) + Len(last)
        /\ \A i \in 1..(Len(gap) + Len(last)) :
             (gap \o last)[i] = IF i <= Len(gap) THEN gap[i] ELSE last[i - Len(gap)]
    BY <1>4, <2>1, ConcatProperties
  <2>3. more = gap \o last
    BY DEF last
  <2> HIDE DEF more
  <2>4. \A i \in 1..(Len(gap) + 1) : ~(i <= Len(gap)) => i - Len(gap) = 1
    BY <1>4
  <2> QED BY <1>4, <2>1, <2>2, <2>3, <2>4, LenProperties
<1> HIDE DEF more
<1>8. /\ Len(more) \in {1, 2} /\ more[Len(more)] = c
      /\ Len(more) = 2 => more[1].op = "SrcTempCopy" /\ more[1].path = file
  BY <1>4, <1>7
<1>9. Followed(more)
  BY <1>3, <1>7, <1>8 DEF Followed, Needers
<1>10. /\ more[1].op \in Needers
       /\ \A i \in 1..Len(more) : /\ more[i].path = file
                                  /\ more[i].op \notin {"Transfer", "Keep", "Conflict"}
  BY <1>3, <1>8 DEF Needers
<1>11. Closed(cmds')
  <2> DEFINE n == Len(cmds)
             m == Len(more)
             all == cmds \o more
  <2>1. /\ n \in Nat /\ Len(all) = n + m
        /\ \A i \in 1..(n + m) : all[i] = IF i <= n THEN cmds[i] ELSE more[i - n]
    BY <1>1, <1>7, ConcatProperties, LenProperties
  <2>2. m \in {1, 2} /\ more[m] = c
    BY <1>8
  <2> HIDE DEF n, m, all
  <2> DEFINE k == n + m
  <2>3. k \in 1..(n + m) /\ ~(k <= n) /\ k - n = m
    BY <2>1, <2>2
  <2> HIDE DEF k
  <2>4. all[k] = c
    BY <2>1, <2>2, <2>3
  <2>5. Len(all) = k
    BY <2>1 DEF k
  <2> QED BY <1>3, <1>6, <2>4, <2>5 DEF Closed, Openers, all
<1> QED BY <1>1, <1>6, <1>7, <1>9, <1>10, <1>11, ShapeScan

\* A step that does not plan.
LEMMA ShapeSame ==
  ASSUME IInv, ShapeInv, UNCHANGED <<world, todo, cmds, scan>>,
         pc' = "ranges" <=> pc = "ranges", pc' = "match" <=> pc = "match",
         Planning' => Planning /\ UNCHANGED <<dst, relocs>>
  PROVE  ShapeInv'
<1>1. /\ Orderly(cmds, todo)
      /\ pc # "ranges" => Closed(cmds)
      /\ Planning => dst = world.dst /\ relocs = <<>>
      /\ pc \in {"match", "ranges"} => Match(scan.file) = {} /\ scan.file \notin todo
  BY DEF ShapeInv
<1>2. cmds' = cmds /\ todo' = todo
  OBVIOUS
<1>3. Orderly(cmds', todo')
  BY <1>1, <1>2
<1>4. pc' # "ranges" => Closed(cmds')
  BY <1>1, <1>2
<1> QED BY <1>1, <1>3, <1>4, ShapeNext

\* Every step preserves the invariant.
LEMMA ShapeStep == IInv /\ ShapeInv /\ [Next]_vars => ShapeInv'
<1> SUFFICES ASSUME IInv, ShapeInv, [Next]_vars  PROVE ShapeInv'
  OBVIOUS
<1>1. CASE \E p \in todo : \/ PlanMatched(p) \/ PlanFileConflict(p) \/ PlanDownload(p)
                           \/ PlanFile(p) \/ PlanDir(p)
  BY <1>1, ShapePlanMatched, ShapePlanFileConflict, ShapePlanDownload, ShapePlanFile,
     ShapePlanDir
<1>2. CASE MatchBlock \/ MatchRoll
  BY <1>2, ShapeMatchLoop
<1>3. CASE MatchDone \/ PlanRange \/ PlanFileDone
  BY <1>3, ShapeMatchDone, ShapePlanRange, ShapePlanFileDone
<1>4. CASE PlanDone
  <2>1. UNCHANGED <<world, todo, cmds, scan>> /\ pc = "plan" /\ pc' = "exec"
    BY <1>4 DEF PlanDone, planVars
  <2> QED BY <2>1, ShapeSame DEF Planning
<1>5. CASE Exec
  <2>1. /\ UNCHANGED <<world, todo, cmds, scan>>
        /\ pc = "exec" /\ pc' \in {"exec", "failed", "done"}
    BY <1>5 DEF Exec, ExecTransfer, ExecKeep, ExecConflict, ExecConflictFails, ExecLocalTemp,
       ExecLocalTempCopy, ExecSrcTempCopy, ExecReplaceWithTemp, ExecSrcFileDownload,
       ExecDone, Take, Finish, planVars
  <2> QED BY <2>1, ShapeSame DEF Planning
<1>6. CASE \E p \in unmatched : Clean(p)
  <2>1. /\ UNCHANGED <<world, todo, cmds, scan>>
        /\ pc \in {"done", "clean"} /\ pc' = "clean"
    BY <1>6 DEF Clean
  <2> QED BY <2>1, ShapeSame DEF Planning
<1>7. CASE UNCHANGED vars
  <2>1. UNCHANGED <<world, todo, cmds, scan, pc, dst, relocs>>
    BY <1>7 DEF vars
  <2> QED BY <2>1, ShapeSame DEF Planning
<1> QED BY <1>1, <1>2, <1>3, <1>4, <1>5, <1>6, <1>7 DEF Next, Planner

-----------------------------------------------------------------------------
(* The names that TempFile invents.  A path has one only if it is the      *)
(* temporary file that is open, or a conflict that was moved away, or if a *)
(* patch before has left it.                                               *)

\* A temporary file is open.
Open == pc = "exec" /\ next > 1 /\ cmds[next - 1].op \in Openers

\* At or below what was moved out of the way.
Relocated(rel, q) == \E p \in DOMAIN rel : IsPrefix(rel[p], q) /\ ~TempNamed(SubPath(q, rel[p]))

\* Not below anything that was moved out of the way.
Apart(q, rel) == \A p \in DOMAIN rel : ~IsPrefix(rel[p], q)

\* Invented names only in S, in what was moved out of the way, and where they were.
Tidy(t, rel, S) ==
  \A q \in DOMAIN t :
    TempNamed(q) => \/ q \in S
                    \/ Relocated(rel, q)
                    \/ q \in DOMAIN world.dst /\ Apart(q, rel)

\* What was moved away was a file where the source has a directory, and is now in the root
\* directory under an invented name.
RelocsInv ==
  \A p \in DOMAIN relocs :
    /\ world.dstRoot = <<>> /\ IsDir(src, p) /\ Match(p) = {}
    /\ \E n \in TempName : relocs[p] = <<n>>
    /\ \E i \in 1..(next - 1) : cmds[i].op = "Conflict" /\ cmds[i].path = p

LitterInv ==
  /\ InDirs(dst)
  /\ RelocsInv
  /\ Open => TempNamed(temp.file)
  /\ pc = "exec" => Tidy(dst, relocs, IF Open THEN {temp.file} ELSE {})
  /\ pc \in {"done", "clean"} => \A q \in DOMAIN dst : TempNamed(q) => q \in DOMAIN world.dst

\* A path has an invented name if its beginning or its end has one.
LEMMA TempBelow ==
  ASSUME NEW top \in Path, NEW s \in Path
  PROVE  TempNamed(top \o s) <=> TempNamed(top) \/ TempNamed(s)
<1> DEFINE p == top \o s
           n == Len(top)
           m == Len(s)
<1>1. /\ n \in Nat /\ m \in Nat /\ DOMAIN top = 1..n /\ DOMAIN s = 1..m
      /\ p \in Path /\ Len(p) = n + m
      /\ \A i \in 1..m : p[n + i] = s[i]
      /\ \A i \in 1..n : p[i] = top[i]
  BY PutBelow, LenProperties DEF Path
<1> HIDE DEF p
<1>2. DOMAIN p = 1..(n + m)
  BY <1>1, LenProperties DEF Path
<1> HIDE DEF n, m
<1>3. ASSUME TempNamed(p)  PROVE TempNamed(top) \/ TempNamed(s)
  <2>1. PICK i \in 1..(n + m) : p[i] \in TempName
    BY <1>2, <1>3 DEF TempNamed
  <2>2. CASE i \in 1..n
    BY <1>1, <2>1, <2>2 DEF TempNamed
  <2>3. CASE i \notin 1..n
    <3> DEFINE j == i - n
    <3>1. j \in 1..m /\ i = n + j
      BY <1>1, <2>3
    <3> HIDE DEF j
    <3>2. s[j] \in TempName
      BY <1>1, <2>1, <3>1
    <3> QED BY <1>1, <3>1, <3>2 DEF TempNamed
  <2> QED BY <2>2, <2>3
<1>4. ASSUME TempNamed(top)  PROVE TempNamed(p)
  <2>1. PICK i \in 1..n : top[i] \in TempName
    BY <1>1, <1>4 DEF TempNamed
  <2>2. i \in 1..(n + m) /\ p[i] = top[i]
    BY <1>1
  <2> QED BY <1>2, <2>1, <2>2 DEF TempNamed
<1>5. ASSUME TempNamed(s)  PROVE TempNamed(p)
  <2>1. PICK i \in 1..m : s[i] \in TempName
    BY <1>1, <1>5 DEF TempNamed
  <2> DEFINE j == n + i
  <2>2. j \in 1..(n + m) /\ p[j] = s[i]
    BY <1>1
  <2> HIDE DEF j
  <2> QED BY <1>2, <2>1, <2>2 DEF TempNamed
<1> QED BY <1>3, <1>4, <1>5 DEF p

\* ... what is below an invented name has one.
LEMMA TempPrefix ==
  ASSUME NEW top \in Path, NEW p \in Path, IsPrefix(top, p), TempNamed(top)
  PROVE  TempNamed(p)
<1> DEFINE s == SubPath(p, top)
<1>1. s \in Path /\ p = top \o s
  BY BelowIsPath
<1> HIDE DEF s
<1>2. TempNamed(top \o s)
  BY <1>1, TempBelow
<1> QED BY <1>1, <1>2

\* ... a path that TempFile creates has one.
LEMMA InventedName ==
  ASSUME NEW dir \in Path, NEW n \in TempName
  PROVE  /\ Append(dir, n) \in Path /\ Append(dir, n) # <<>> /\ TempNamed(Append(dir, n))
         /\ ParentDir(Append(dir, n)) = dir
         /\ <<n>> \in Path /\ <<n>> # <<>> /\ TempNamed(<<n>>) /\ Len(<<n>>) = 1
<1>1. n \in Name
  BY TempNameAssumption
<1> DEFINE p == Append(dir, n)
           k == Len(dir)
<1>2. /\ k \in Nat /\ DOMAIN dir = 1..k
      /\ p \in Path /\ Len(p) = k + 1 /\ p[k + 1] = n
      /\ \A i \in 1..k : p[i] = dir[i]
  BY <1>1, AppendProperties, LenProperties DEF Path
<1> HIDE DEF p, k
<1>3. DOMAIN p = 1..(k + 1) /\ k + 1 \in 1..(k + 1) /\ k + 1 # 0
  BY <1>2, LenProperties DEF Path
<1>4. TempNamed(p) /\ p # <<>>
  BY <1>2, <1>3, EmptySeq DEF TempNamed
<1>5. ParentDir(p) = dir
  <2>0. /\ ParentDir(p) \in Path /\ Len(ParentDir(p)) = Len(p) - 1
        /\ \A i \in 1..(Len(p) - 1) : ParentDir(p)[i] = p[i]
    BY <1>2, <1>4, ParentFacts
  <2>1. /\ ParentDir(p) \in Path /\ Len(ParentDir(p)) = k
        /\ \A i \in 1..k : ParentDir(p)[i] = p[i]
    <3>1. Len(p) - 1 = k
      BY <1>2
    <3> QED BY <2>0, <3>1
  <2>2. \A i \in 1..k : ParentDir(p)[i] = dir[i]
    BY <1>2, <2>1
  <2>3. Len(dir) = k
    BY DEF k
  <2> QED BY <2>1, <2>2, <2>3, SeqEqual DEF Path
<1>6. <<n>> \in Path /\ Len(<<n>>) = 1 /\ <<n>>[1] = n
  BY <1>1, ShortSeqs DEF Path
<1> DEFINE one == <<n>>
<1>7. one \in Path /\ Len(one) = 1 /\ one[1] = n
  BY <1>6
<1> HIDE DEF one
<1>8. one # <<>> /\ TempNamed(one)
  <2>1. one # <<>>
    BY <1>7, EmptySeq
  <2>2. DOMAIN one = 1..1
    BY <1>7, LenProperties DEF Path
  <2> QED BY <1>7, <2>1, <2>2 DEF TempNamed
<1> QED BY <1>2, <1>4, <1>5, <1>7, <1>8 DEF p, one

\* The source has no invented names.
LEMMA StoreNames ==
  ASSUME IsWorld(world)
  PROVE  /\ \A p \in SrcNodes : ~TempNamed(p)
         /\ ~TempNamed(world.dstRoot) /\ InDirs(world.dst) /\ IsDir(src, <<>>)
BY WorldFacts DEF IsWorld, IsStore, IsRoot, IsFile, IsDir, Exists, src

-----------------------------------------------------------------------------
(* What a command can know of the places it works on.                      *)

\* A node is where it was, or was moved to an invented name.
LEMMA LocatedFacts ==
  ASSUME IInv, RelocsInv, NEW p \in SrcNodes \cup DstNodes
  PROVE  /\ Located(p) \in Path
         /\ p \notin DOMAIN relocs => /\ world.dstRoot = <<>> => Located(p) = p
                                      /\ \/ p \in SrcNodes
                                         \/ world.dstRoot # <<>>
                                         => ~TempNamed(Located(p))
         /\ p \in DOMAIN relocs => TempNamed(Located(p)) /\ \E n \in TempName : Located(p) = <<n>>
<1>1. TypeOK /\ IsWorld(world)
  BY DEF IInv, TypeOK
<1>2. Located(p) \in Path
  BY <1>1, LocatedPath
<1>3. (p \in SrcNodes => ~TempNamed(p)) /\ ~TempNamed(world.dstRoot)
  BY <1>1, StoreNames
<1>4. CASE p \in DOMAIN relocs
  <2>1. PICK n \in TempName : relocs[p] = <<n>>
    BY <1>4 DEF RelocsInv
  <2>2. Located(p) = <<n>>
    BY <1>4, <2>1 DEF RelocsInv, Located, Resolve
  <2>3. TempNamed(<<n>>)
    BY EmptySeq, InventedName DEF Path
  <2> QED BY <1>2, <1>4, <2>2, <2>3
<1>5. CASE p \notin DOMAIN relocs
  BY <1>2, <1>3, <1>5 DEF Located, Resolve
<1> QED BY <1>4, <1>5

\* A node of the destination that was not moved away is where it was.
LEMMA WhereItWas ==
  ASSUME IsWorld(world), NEW p \in DstNodes, p \notin DOMAIN relocs
  PROVE  Located(p) = p
<1>1. CASE world.dstRoot = <<>>
  BY <1>1 DEF Located, Resolve
<1>2. CASE world.dstRoot # <<>>
  <2>1. /\ IsTree(world.dst) /\ InDirs(world.dst) /\ world.dstRoot \in Path
        /\ ~IsDir(world.dst, world.dstRoot)
    BY <1>2, WorldFacts DEF IsWorld, IsStore, IsRoot, IsFile, IsDir
  <2>2. p = world.dstRoot
    BY <2>1, NothingBelow DEF DstNodes
  <2> QED BY <1>2, <2>2 DEF Located, Resolve
<1> QED BY <1>1, <1>2

\* Unless a command is a conflict, its path is where it was: a conflict that is moved away
\* is a file where the source has a directory, and the directory is made, not transferred.
LEMMA TargetFacts ==
  ASSUME IInv, ShapeInv, RelocsInv, NEW op, At(op)
  PROVE  /\ cmds[next] \in Command /\ cmds[next].op = op /\ Apt(cmds[next])
         /\ next \in 1..Len(cmds) /\ cmds[next].path \in SrcNodes
         /\ op # "Conflict" => /\ Located(cmds[next].path) \in Path
                               /\ ~TempNamed(Located(cmds[next].path))
                               /\ world.dstRoot = <<>> =>
                                    Located(cmds[next].path) = cmds[next].path
<1> DEFINE c == cmds[next]
<1>1. next \in 1..Len(cmds) /\ c \in Command /\ c.op = op /\ c.path \in SrcNodes
  BY AtFacts
<1>2. Apt(c)
  <2>1. next \in DOMAIN cmds
    BY <1>1, LenProperties DEF IInv, TypeOK
  <2> QED BY <2>1 DEF ShapeInv, Orderly
<1> HIDE DEF c
<1>3. ASSUME op # "Conflict"  PROVE c.path \notin DOMAIN relocs
  <2> SUFFICES ASSUME c.path \in DOMAIN relocs  PROVE FALSE
    OBVIOUS
  <2>1. IsDir(src, c.path) /\ Match(c.path) = {}
    BY DEF RelocsInv
  <2> QED BY <1>1, <1>2, <1>3, <2>1 DEF Apt, IsDir, IsFile
<1>4. op # "Conflict" => /\ Located(c.path) \in Path /\ ~TempNamed(Located(c.path))
                         /\ world.dstRoot = <<>> => Located(c.path) = c.path
  BY <1>1, <1>3, LocatedFacts
<1> QED BY <1>1, <1>2, <1>4 DEF c

\* A command that does not need a temporary file finds none open, ...
LEMMA NotOpen ==
  ASSUME IInv, ShapeInv, NEW op, At(op), op \notin Needers
  PROVE  ~Open
<1>1. /\ cmds \in Seq(Command) /\ next \in 1..Len(cmds) /\ cmds[next].op = op
      /\ Followed(cmds)
  BY AtFacts DEF IInv, TypeOK, ShapeInv, Orderly
<1> SUFFICES ASSUME next > 1, cmds[next - 1].op \in Openers  PROVE FALSE
  BY DEF Open
<1> DEFINE i == next - 1
<1>2. i \in 1..Len(cmds) /\ i # Len(cmds) /\ i + 1 = next
  BY <1>1, LenProperties
<1>3. cmds[i].op \in Openers
  OBVIOUS
<1> HIDE DEF i
<1>4. i \in DOMAIN cmds
  BY <1>1, <1>2, LenProperties
<1>5. cmds[i + 1].op \in Needers
  BY <1>2, <1>3, <1>4, <1>1 DEF Followed
<1> QED BY <1>1, <1>2, <1>5

\* ... one that does finds one, ...
LEMMA IsOpen ==
  ASSUME IInv, NEW op \in Needers, At(op)
  PROVE  Open
<1>1. /\ cmds \in Seq(Command) /\ next \in 1..Len(cmds) /\ cmds[next].op = op
      /\ WellFormed(cmds) /\ pc = "exec"
  BY AtFacts DEF IInv, TypeOK, PlanInv
<1>2. next \in DOMAIN cmds
  BY <1>1, LenProperties
<1>3. next - 1 \in DOMAIN cmds /\ cmds[next - 1].op \in Openers
  BY <1>1, <1>2 DEF WellFormed
<1>4. next > 1
  BY <1>1, <1>3, LenProperties
<1> QED BY <1>1, <1>3, <1>4 DEF Open

\* ... and after the last command there is none.
LEMMA NotOpenAtEnd ==
  ASSUME IInv, ShapeInv, pc = "exec", next > Len(cmds)
  PROVE  ~Open
<1>1. cmds \in Seq(Command) /\ next \in 1..(Len(cmds) + 1) /\ Len(cmds) \in Nat /\ Closed(cmds)
  BY LenProperties DEF IInv, TypeOK, ShapeInv
<1>2. next - 1 = Len(cmds)
  BY <1>1
<1>3. next > 1 => Len(cmds) # 0
  BY <1>1
<1> QED BY <1>1, <1>2, <1>3 DEF Open, Closed

\* A path has nothing below itself.
LEMMA NothingSub ==
  ASSUME NEW p \in Path
  PROVE  SubPath(p, p) = <<>> /\ ~TempNamed(SubPath(p, p))
<1> DEFINE s == SubPath(p, p)
<1>1. s \in Path /\ p = p \o s
  BY BelowIsPath, PrefixReflexive DEF Path
<1> HIDE DEF s
<1>2. s = <<>>
  BY <1>1, PutBelow
<1> QED BY <1>2 DEF TempNamed, s

\* What the destination's node has below it if it has the source's checksum.
LEMMA MatchedClear ==
  ASSUME IsWorld(world), NEW p \in SrcNodes, NEW f \in Match(p), NEW x \in DOMAIN world.dst,
         IsPrefix(f, x)
  PROVE  ~TempNamed(SubPath(x, f))
<1>1. /\ IsTree(world.dst) /\ InDirs(world.dst) /\ IsTree(src) /\ p \in Path /\ f \in Path
      /\ p \in DOMAIN src /\ f \in DOMAIN world.dst /\ x \in Path
      /\ \A y \in DOMAIN src : ~TempNamed(y)
  BY WorldFacts, MatchNodes, StoreNames DEF IsTree, IsWorld, src
<1>2. SameStrong(src, p, world.dst, f) /\ IsFile(src, p) = IsFile(world.dst, f)
  BY DEF Match, StrongMatch, Found, LastAdded, FirstRow
<1>3. CASE IsFile(world.dst, f)
  <2>1. x = f
    BY <1>1, <1>3, NothingBelow DEF Under, IsFile, IsDir
  <2> QED BY <1>1, <2>1, NothingSub
<1>4. CASE ~IsFile(world.dst, f)
  <2>1. IsDir(src, p) /\ IsDir(world.dst, f) /\ ~IsFile(src, p)
    BY <1>1, <1>2, <1>4 DEF IsFile, IsDir, Exists
  <2>2. DeepContents(src, p) = DeepContents(world.dst, f)
    BY <1>2, <1>4, <2>1 DEF SameStrong
  <2>3. <<SubPath(x, f), world.dst[x]>> \in DeepContents(world.dst, f)
    BY DEF DeepContents, Under, SubPath
  <2>4. PICK y \in Under(src, p) : SubPath(y, p) = SubPath(x, f)
    <3> DEFINE s == SubPath(x, f)
               e == world.dst[x]
    <3>1. <<s, e>> \in {<<SubPath(y, p), src[y]>> : y \in Under(src, p)}
      BY <2>2, <2>3 DEF DeepContents, SubPath
    <3> HIDE DEF s, e
    <3>2. \E y \in Under(src, p) : <<s, e>> = <<SubPath(y, p), src[y]>>
      BY <3>1
    <3> QED BY <3>2 DEF s
  <2>5. y \in Path /\ IsPrefix(p, y) /\ ~TempNamed(y)
    BY <1>1 DEF Under, IsTree
  <2> DEFINE s == SubPath(y, p)
  <2>6. s \in Path /\ y = p \o s
    BY <1>1, <2>5, BelowIsPath
  <2> HIDE DEF s
  <2>7. ~TempNamed(s)
    BY <1>1, <2>5, <2>6, TempBelow
  <2> QED BY <2>4, <2>7 DEF s
<1> QED BY <1>3, <1>4

\* Whatever is moved out of a directory has not got the name that the directory has.
LEMMA MovedClear ==
  ASSUME RelocsInv, NEW from \in Path, from # <<>>, NEW p \in Path, IsPrefix(from, p),
         TempNamed(SubPath(p, from)) => Relocated(relocs, p)
  PROVE  SubPath(p, from) \in Path /\ ~TempNamed(SubPath(p, from))
<1> DEFINE s == SubPath(p, from)
<1>1. s \in Path /\ p = from \o s
  BY BelowIsPath
<1>2. TempNamed(s) => Relocated(relocs, p)
  OBVIOUS
<1> HIDE DEF s
<1> SUFFICES ASSUME TempNamed(s)  PROVE FALSE
  BY <1>1 DEF s
<1>3. PICK a \in DOMAIN relocs : IsPrefix(relocs[a], p) /\ ~TempNamed(SubPath(p, relocs[a]))
  BY <1>2 DEF Relocated
<1>4. PICK n \in TempName : relocs[a] = <<n>>
  BY DEF RelocsInv
<1> DEFINE top == <<n>>
           r == SubPath(p, top)
           k == Len(from)
<1>5. top \in Path /\ Len(top) = 1
  BY EmptySeq, InventedName DEF Path
<1> HIDE DEF top
<1>6. r \in Path /\ p = top \o r /\ ~TempNamed(r)
  BY <1>3, <1>4, <1>5, BelowIsPath DEF top
<1> HIDE DEF r
<1>7. /\ k \in Nat \ {0} /\ Len(s) \in Nat /\ Len(r) \in Nat
      /\ Len(p) = k + Len(s) /\ Len(p) = 1 + Len(r)
  <2>1. Len(from \o s) = k + Len(s) /\ k \in Nat /\ Len(s) \in Nat
    BY <1>1, PutBelow
  <2>2. Len(top \o r) = Len(top) + Len(r) /\ Len(r) \in Nat
    BY <1>5, <1>6, PutBelow
  <2>3. k # 0
    BY EmptySeq DEF Path
  <2> QED BY <1>1, <1>5, <1>6, <2>1, <2>2, <2>3
<1>8. PICK i \in 1..Len(s) : s[i] \in TempName
  BY <1>1, LenProperties DEF TempNamed, Path
<1> DEFINE j == k + i - 1
<1>9. j \in 1..Len(r) /\ 1 + j = k + i
  BY <1>7
<1>10. p[k + i] = s[i]
  BY <1>1, PutBelow
<1> HIDE DEF j
<1>11. p[1 + j] = r[j]
  <2>1. \A h \in 1..Len(r) : (top \o r)[Len(top) + h] = r[h]
    BY <1>5, <1>6, PutBelow
  <2>2. \A h \in 1..Len(r) : p[1 + h] = r[h]
    BY <1>5, <1>6, <2>1
  <2> QED BY <1>9, <2>2
<1>12. r[j] \in TempName
  BY <1>8, <1>9, <1>10, <1>11
<1>13. j \in DOMAIN r
  BY <1>6, <1>9, LenProperties DEF Path
<1> QED BY <1>6, <1>12, <1>13 DEF TempNamed

-----------------------------------------------------------------------------
(* The files that no command may touch.                                    *)

\* A file of the destination, in a directory, that the plan at most keeps and copies: it is
\* neither made by a command, nor in a directory that is transferred.
Protected(q) ==
  /\ world.dstRoot = <<>> /\ IsFile(world.dst, q)
  /\ \A i \in DOMAIN cmds : cmds[i].path = q => cmds[i].op = "Keep"
  /\ \A i \in OpsOf("Transfer") :
       IsPrefix(cmds[i].from, q) =>
         cmds[i].from = q /\ \E j \in OpsOf("Keep") : cmds[j].path = q

\* It is at all times as it was.  Only Clean may remove it, if the source has no such file.
\* TempFile does not invent its name, nor that of a directory it is in.
GuardInv ==
  /\ Planned => unmatched \cap SrcNodes = {}
  /\ pc = "exec" =>
       \A q \in DstNodes : Protected(q) => Apart(q, relocs) /\ (Open => q # temp.file)
  /\ \A q \in DstNodes :
       Protected(q) /\ (pc = "clean" => q \in SrcNodes) => SameAt(world.dst, dst, q)

\* A step that leaves the protected files alone.
Spared == \A q \in DstNodes : Protected(q) /\ q \in DOMAIN dst => SameAt(dst, dst', q)

\* What a command has to leave behind.
Leaves(op) ==
  /\ InDirs(dst')
  /\ RelocsInv'
  /\ pc' = "exec" => Tidy(dst', relocs', IF op \in Openers THEN {temp'.file} ELSE {})
  /\ pc' = "exec" /\ op \in Openers => TempNamed(temp'.file)
  /\ pc' = "exec" =>
       \A q \in DstNodes :
         Protected(q) => Apart(q, relocs') /\ (op \in Openers => q # temp'.file)
  /\ Spared

\* A command that leaves all that behind preserves the invariant.
LEMMA CommandStep ==
  ASSUME IInv, GuardInv, NEW op, Take(op), pc' \in {"exec", "failed"}, Leaves(op)
  PROVE  LitterInv' /\ GuardInv'
<1>1. /\ pc = "exec" /\ UNCHANGED <<world, cmds, unmatched>>
      /\ next' > 1 /\ cmds'[next' - 1].op = op
  BY TakeFacts DEF Take
<1>2. LitterInv'
  <2>1. Open' <=> pc' = "exec" /\ op \in Openers
    BY <1>1 DEF Open
  <2>2. pc' = "exec" => Tidy(dst', relocs', IF Open' THEN {temp'.file} ELSE {})
    BY <2>1 DEF Leaves
  <2>3. (pc = "exec" => Tidy(dst, relocs, IF Open THEN {temp.file} ELSE {}))'
    BY <1>1, <2>2 DEF Tidy, Relocated, Apart
  <2> QED BY <1>1, <2>1, <2>3 DEF Leaves, LitterInv
<1>3. GuardInv'
  <2>1. Planned /\ SrcNodes' = SrcNodes /\ DstNodes' = DstNodes
    BY <1>1, WorldConstant DEF Planned
  <2>2. ASSUME NEW q \in DstNodes, Protected(q)'  PROVE SameAt(world.dst, dst', q)
    <3>1. Protected(q)
      BY <1>1, <2>2 DEF Protected, OpsOf
    <3>2. SameAt(world.dst, dst, q)
      BY <1>1, <3>1 DEF GuardInv
    <3>3. SameAt(dst, dst', q)
      BY <3>1, <3>2 DEF Leaves, Spared, SameAt
    <3> QED BY <3>2, <3>3, SameTwice
  <2>3. (unmatched \cap SrcNodes = {})'
    BY <1>1, <2>1 DEF GuardInv
  <2>4. (\A q \in DstNodes :
           Protected(q) /\ (pc = "clean" => q \in SrcNodes) => SameAt(world.dst, dst, q))'
    BY <1>1, <2>1, <2>2 DEF SameAt
  <2>5. (pc = "exec" =>
           \A q \in DstNodes : Protected(q) => Apart(q, relocs) /\ (Open => q # temp.file))'
    <3>1. Open' <=> pc' = "exec" /\ op \in Openers
      BY <1>1 DEF Open
    <3>2. ASSUME NEW q \in DstNodes, Protected(q)'  PROVE Protected(q)
      BY <1>1, <3>2 DEF Protected, OpsOf
    <3> QED BY <2>1, <3>1, <3>2 DEF Leaves, Apart
  <2> QED BY <2>3, <2>4, <2>5 DEF GuardInv
<1> QED BY <1>2, <1>3

\* The places before the next command.
LEMMA IndexesGrow ==
  ASSUME NEW n \in Int, NEW m \in Int, m >= n
  PROVE  \A i \in 1..(n - 1) : i \in 1..(m - 1)
OBVIOUS

\* What is moved away stays where it is.
LEMMA RelocsSame ==
  ASSUME IInv, RelocsInv, UNCHANGED <<world, relocs, cmds>>, next' \in Int, next' >= next
  PROVE  RelocsInv'
<1>1. next \in Int
  BY LenProperties DEF IInv, TypeOK
<1>2. \A i \in 1..(next - 1) : i \in 1..(next' - 1)
  BY <1>1, IndexesGrow, Zenon
<1>3. \A p \in DOMAIN relocs :
        /\ world.dstRoot = <<>> /\ IsDir(src, p) /\ Match(p) = {}
        /\ \E n \in TempName : relocs[p] = <<n>>
        /\ \E i \in 1..(next' - 1) : cmds[i].op = "Conflict" /\ cmds[i].path = p
  BY <1>2 DEF RelocsInv
<1> QED BY <1>3 DEF RelocsInv, Match, src

\* The next command does what the one before did.
LEMMA NextCounts ==
  ASSUME IInv, NEW op, Take(op)
  PROVE  next' \in Int /\ next' >= next /\ UNCHANGED <<world, cmds>>
BY TakeFacts, LenProperties DEF Take, IInv, TypeOK

\* A protected file has a name of its own, and only a Keep has its path.
LEMMA ProtectedFacts ==
  ASSUME IInv, NEW q \in DstNodes, Protected(q)
  PROVE  /\ world.dstRoot = <<>> /\ IsFile(world.dst, q) /\ q \in Path
         /\ \A op : Take(op) /\ op # "Keep" => cmds[next].path # q
<1>1. IsWorld(world) /\ cmds \in Seq(Command)
  BY DEF IInv, TypeOK
<1>2. ASSUME NEW op, Take(op), op # "Keep"  PROVE cmds[next].path # q
  <2>1. next \in 1..Len(cmds) /\ cmds[next].op = op
    BY <1>2, TakeFacts
  <2>2. next \in DOMAIN cmds
    BY <1>1, <2>1, LenProperties
  <2> QED BY <1>2, <2>1, <2>2 DEF Protected
<1>3. q \in Path
  BY <1>1, WorldFacts
<1> QED BY <1>2, <1>3 DEF Protected

\* A command that only changes its own place, and the open temporary file, spares the
\* protected.
LEMMA OthersSpared ==
  ASSUME IInv, ShapeInv, RelocsInv, GuardInv, NEW op, Take(op), op \notin {"Keep", "Conflict"},
         \A q \in DOMAIN dst :
           q # Located(cmds[next].path) /\ (Open => q # temp.file) => SameAt(dst, dst', q)
  PROVE  Spared
<1> SUFFICES ASSUME NEW q \in DstNodes, Protected(q), q \in DOMAIN dst
             PROVE  SameAt(dst, dst', q)
  BY DEF Spared
<1>1. world.dstRoot = <<>> /\ cmds[next].path # q
  BY ProtectedFacts
<1>2. Located(cmds[next].path) = cmds[next].path
  BY <1>1, TargetFacts, TakeAt
<1>3. Open => q # temp.file
  BY DEF GuardInv, Take
<1> QED BY <1>1, <1>2, <1>3

\* Only names that were there, and others that are not invented.
LEMMA StaysTidy ==
  ASSUME NEW t, NEW u, NEW rel, Tidy(t, rel, {}),
         \A q \in DOMAIN u : q \in DOMAIN t \/ ~TempNamed(q)
  PROVE  Tidy(u, rel, {})
BY DEF Tidy

-----------------------------------------------------------------------------
(* What each command leaves behind.                                        *)

\* A command runs on a destination in which everything is in a directory, and in which no
\* temporary file is open unless the command needs it.
LEMMA Before ==
  ASSUME IInv, ShapeInv, LitterInv, NEW op, Take(op)
  PROVE  /\ IsTree(dst) /\ InDirs(dst) /\ RelocsInv
         /\ op \notin Needers => Tidy(dst, relocs, {})
         /\ op \in Needers => /\ TempNamed(temp.file) /\ temp.file \in Path /\ Open
                              /\ Tidy(dst, relocs, {temp.file})
<1>1. IsTree(dst) /\ InDirs(dst) /\ RelocsInv /\ pc = "exec"
  BY DEF IInv, TypeOK, LitterInv, Take
<1>2. CASE op \notin Needers
  <2>1. ~Open
    BY <1>2, NotOpen, TakeAt
  <2> QED BY <1>1, <1>2, <2>1 DEF LitterInv
<1>3. CASE op \in Needers
  <2>1. Open /\ temp.file \in Path
    BY <1>3, IsOpen, TempIsOpen, TakeAt
  <2> QED BY <1>1, <1>3, <2>1 DEF LitterInv
<1> QED BY <1>2, <1>3

\* A transfer moves its source only if no other command still needs it.
LEMMA TransferCounts ==
  ASSUME IInv, RefsExact', ExecTransfer, NEW q \in DstNodes, q = cmds[next].from,
         Uses(q)' # {}
  PROVE  refs[q] - 1 > 0
<1>1. Take("Transfer")
  BY DEF ExecTransfer
<1>2. world' = world /\ cmds' = cmds /\ next' = next + 1 /\ cmds \in Seq(Command)
  BY <1>1, TakeFacts DEF Take, IInv, TypeOK
<1>3. refs' = [refs EXCEPT ![q] = refs[q] - 1] /\ refs \in [DstNodes -> Int]
  BY MapFacts DEF ExecTransfer
<1>4. refs'[q] = refs[q] - 1
  BY <1>3
<1>5. q \in DstNodes'
  BY <1>2, WorldConstant
<1>6. refs'[q] = Cardinality(UsesIn(cmds', next', q))
  BY <1>5, RefsExactInNext
<1>7. Uses(q)' = UsesIn(cmds', next', q)
  BY DEF Uses, UsesIn
<1> DEFINE S == UsesIn(cmds, next', q)
<1>8. IsFiniteSet(S) /\ Cardinality(S) \in Nat
  BY <1>2, UsesFinite
<1>9. S # {} /\ refs'[q] = Cardinality(S)
  BY <1>2, <1>6, <1>7
<1> HIDE DEF S
<1>10. Cardinality(S) # 0
  BY <1>8, <1>9, FS_EmptySet
<1> QED BY <1>4, <1>8, <1>9, <1>10

\* What a transfer does to the tree.
Transferred(t, from, to, left) ==
  IF left = 0 THEN MoveInto(t, from, to)
  ELSE IF left > 0 THEN CopyInto(t, from, to)
  ELSE Err(t)

TransferOnly(t, u, from, to, left) ==
  /\ InDirs(u)
  /\ \A q \in DOMAIN t : q # to /\ (left = 0 => ~IsPrefix(from, q)) => SameAt(t, u, q)
  /\ \A q \in DOMAIN u :
       \/ q \in DOMAIN t
       \/ IsPrefix(q, to)
       \/ from # <<>> /\ \E p \in Under(t, from) : q = to \o SubPath(p, from)

\* A transfer changes its two ends and nothing else.
LEMMA TransferEffect ==
  ASSUME NEW t, IsTree(t), InDirs(t), NEW from \in Path, NEW to \in Path, NEW left
  PROVE  TransferOnly(t, Transferred(t, from, to, left).tree, from, to, left)
<1> DEFINE r == Transferred(t, from, to, left)
<1> HIDE DEF r
<1> SUFFICES TransferOnly(t, r.tree, from, to, left)
  BY DEF r
<1>1. CASE left = 0
  <2>1. r = MoveInto(t, from, to)
    BY <1>1 DEF Transferred, r
  <2>2. /\ InDirs(MoveInto(t, from, to).tree)
        /\ \A q \in DOMAIN t :
             q # to /\ (MoveInto(t, from, to).ok => ~IsPrefix(from, q)) =>
               SameAt(t, MoveInto(t, from, to).tree, q)
        /\ \A q \in DOMAIN MoveInto(t, from, to).tree :
             \/ q \in DOMAIN t /\ SameAt(t, MoveInto(t, from, to).tree, q)
             \/ IsPrefix(q, to) /\ IsDir(MoveInto(t, from, to).tree, q)
             \/ MovedTo(t, MoveInto(t, from, to), from, to, q)
    BY MoveIntoFacts, Zenon
  <2>3. /\ InDirs(r.tree)
        /\ \A q \in DOMAIN t : q # to /\ (r.ok => ~IsPrefix(from, q)) => SameAt(t, r.tree, q)
        /\ \A q \in DOMAIN r.tree :
             q \in DOMAIN t \/ IsPrefix(q, to) \/ MovedTo(t, r, from, to, q)
    BY <2>1, <2>2, Zenon
  <2> QED BY <1>1, <2>3 DEF MovedTo, TransferOnly
<1>2. CASE left # 0 /\ left > 0
  <2>1. r = CopyInto(t, from, to)
    BY <1>2 DEF Transferred, r
  <2>2. /\ InDirs(CopyInto(t, from, to).tree)
        /\ \A q \in DOMAIN t : q # to => SameAt(t, CopyInto(t, from, to).tree, q)
        /\ \A q \in DOMAIN CopyInto(t, from, to).tree :
             \/ q \in DOMAIN t
             \/ IsPrefix(q, to) /\ (q = to \/ IsDir(CopyInto(t, from, to).tree, q))
    BY CopyIntoFacts, Zenon
  <2>3. /\ InDirs(r.tree)
        /\ \A q \in DOMAIN t : q # to => SameAt(t, r.tree, q)
        /\ \A q \in DOMAIN r.tree : q \in DOMAIN t \/ IsPrefix(q, to)
    BY <2>1, <2>2, Zenon
  <2> QED BY <1>2, <2>3 DEF TransferOnly
<1>3. CASE left # 0 /\ ~(left > 0)
  BY <1>3 DEF Transferred, r, Err, SameAt, TransferOnly
<1> QED BY <1>1, <1>2, <1>3

\* A path above one without invented names has none.
LEMMA ClearAbove ==
  ASSUME NEW to \in Path, ~TempNamed(to)
  PROVE  \A q \in Path : IsPrefix(q, to) => ~TempNamed(q)
BY TempPrefix

\* A file or a directory is transferred.
LEMMA TransferLeaves ==
  ASSUME IInv, RefsExact', IInv', ShapeInv, LitterInv, GuardInv, ExecTransfer
  PROVE  Leaves("Transfer")
<1> DEFINE f    == cmds[next].from
           left == refs[f] - 1
           from == Located(f)
           to   == Located(cmds[next].path)
           r    == Transferred(dst, from, to, left)
<1>1. /\ Take("Transfer") /\ dst' = r.tree /\ UNCHANGED <<world, relocs, cmds>>
      /\ next' \in Int /\ next' >= next /\ IsWorld(world) /\ pc = "exec"
  <2>1. Take("Transfer") /\ dst' = r.tree /\ relocs' = relocs
    BY DEF ExecTransfer, Finish, Transferred
  <2> QED BY <2>1, NextCounts DEF IInv, TypeOK, Take
<1>2. IsTree(dst) /\ InDirs(dst) /\ RelocsInv /\ Tidy(dst, relocs, {}) /\ IsTree(dst')
  BY <1>1, Before DEF Needers, IInv, TypeOK
<1>3. /\ to \in Path /\ ~TempNamed(to) /\ f \in DstNodes /\ cmds[next].path \in SrcNodes
      /\ world.dstRoot = <<>> => to = cmds[next].path
      /\ f \in Match(cmds[next].path)
  BY <1>1, <1>2, TargetFacts, TakeAt, CommandFields DEF Apt
<1>4. /\ from \in Path
      /\ f \notin DOMAIN relocs => from = f
      /\ f \in DOMAIN relocs => from = relocs[f]
  <2>1. f \in DOMAIN relocs => from = relocs[f]
    BY <1>2 DEF RelocsInv, Located, Resolve
  <2> QED BY <1>1, <1>2, <1>3, <2>1, LocatedFacts, WhereItWas
<1>5. TransferOnly(dst, r.tree, from, to, left)
  BY <1>2, <1>3, <1>4, TransferEffect
<1> HIDE DEF r, left, from, to
<1>6. RelocsInv'
  BY <1>1, <1>2, RelocsSame
<1>7. Tidy(dst', relocs', {})
  <2> SUFFICES ASSUME NEW q \in DOMAIN dst', q \notin DOMAIN dst, TempNamed(q)  PROVE FALSE
    BY <1>1, <1>2 DEF Tidy
  <2>1. q \in Path
    BY <1>2 DEF IsTree
  <2>2. ~IsPrefix(q, to)
    BY <1>3, <2>1, ClearAbove
  <2>3. PICK p \in Under(dst, from) : from # <<>> /\ q = to \o SubPath(p, from)
    BY <1>1, <1>5, <2>2 DEF TransferOnly
  <2>4. p \in Path /\ IsPrefix(from, p) /\ p \in DOMAIN dst
    BY <1>2, <2>3 DEF Under, IsTree
  <2>5. ASSUME TempNamed(SubPath(p, from))  PROVE Relocated(relocs, p)
    <3> DEFINE s == SubPath(p, from)
    <3>1. s \in Path /\ p = from \o s /\ TempNamed(s)
      BY <1>4, <2>4, <2>5, BelowIsPath
    <3> HIDE DEF s
    <3>2. TempNamed(p)
      BY <1>4, <3>1, TempBelow
    <3> SUFFICES ASSUME p \in DOMAIN world.dst, Apart(p, relocs)  PROVE FALSE
      BY <1>2, <2>4, <3>2 DEF Tidy
    <3>3. from = f
      BY <1>4, <2>4 DEF Apart
    <3> QED BY <1>1, <1>3, <2>4, <2>5, <3>3, MatchedClear
  <2>6. SubPath(p, from) \in Path /\ ~TempNamed(SubPath(p, from))
    BY <1>2, <1>4, <2>3, <2>4, <2>5, MovedClear
  <2> QED BY <1>3, <2>3, <2>6, TempBelow
<1>8. Spared
  <2> SUFFICES ASSUME NEW q \in DstNodes, Protected(q), q \in DOMAIN dst
               PROVE  SameAt(dst, dst', q)
    BY DEF Spared
  <2>1. /\ world.dstRoot = <<>> /\ q \in Path /\ cmds[next].path # q
    BY <1>1, ProtectedFacts
  <2>2. q # to
    BY <1>3, <2>1
  <2>3. ASSUME left = 0, IsPrefix(from, q)  PROVE FALSE
    <3>1. Apart(q, relocs)
      BY <1>1 DEF GuardInv
    <3>2. from = f
      BY <1>4, <2>3, <3>1 DEF Apart
    <3>3. next \in DOMAIN cmds /\ cmds[next].op = "Transfer" /\ cmds \in Seq(Command)
      BY <1>1, TakeFacts, LenProperties DEF IInv, TypeOK
    <3>4. f = q /\ \E j \in OpsOf("Keep") : cmds[j].path = q
      BY <2>3, <3>2, <3>3 DEF Protected, OpsOf
    <3>5. PICK j \in DOMAIN cmds : cmds[j].op = "Keep" /\ cmds[j].path = q
      BY <3>4 DEF OpsOf
    <3>6. Uses(q)' # {}
      BY <1>1, <3>5 DEF Uses
    <3>7. refs[q] - 1 > 0
      BY <3>4, <3>6, TransferCounts
    <3> QED BY <2>3, <3>4, <3>7 DEF left
  <2> QED BY <1>1, <1>5, <2>2, <2>3 DEF TransferOnly
<1>9. \A q \in DstNodes : Protected(q) => Apart(q, relocs')
  BY <1>1 DEF GuardInv
<1> QED BY <1>1, <1>5, <1>6, <1>7, <1>8, <1>9 DEF Leaves, Openers, TransferOnly

\* A Keep does nothing, and a conflict that cannot be moved ends the patch.
LEMMA NothingLeaves ==
  ASSUME IInv, ShapeInv, LitterInv, GuardInv, NEW op \in {"Keep", "Conflict"}, Take(op),
         UNCHANGED <<dst, relocs>>
  PROVE  Leaves(op)
<1>1. IsTree(dst) /\ InDirs(dst) /\ RelocsInv /\ Tidy(dst, relocs, {})
  BY Before DEF Needers
<1>2. RelocsInv'
  BY <1>1, NextCounts, RelocsSame
<1>3. \A q \in DstNodes : Protected(q) => Apart(q, relocs')
  BY DEF GuardInv, Take
<1> QED BY <1>1, <1>2, <1>3 DEF Leaves, Spared, SameAt, Openers

\* A source file is written to where it belongs.
LEMMA DownloadLeaves ==
  ASSUME IInv, IInv', ShapeInv, LitterInv, GuardInv, ExecSrcFileDownload
  PROVE  Leaves("SrcFileDownload")
<1> DEFINE p  == cmds[next].path
           to == Located(p)
           r  == WriteFile(dst, to, src[p])
<1>1. Take("SrcFileDownload") /\ dst' = r.tree /\ relocs' = relocs
  BY DEF ExecSrcFileDownload, Finish
<1>2. /\ IsTree(dst) /\ InDirs(dst) /\ RelocsInv /\ Tidy(dst, relocs, {}) /\ IsTree(dst')
  BY <1>1, Before DEF Needers, IInv, TypeOK
<1>3. to \in Path /\ ~TempNamed(to) /\ p \in SrcNodes
  BY <1>1, <1>2, TargetFacts, TakeAt
<1>4. src[p] \in Entry
  BY <1>3, WorldFacts DEF IInv, TypeOK, IsTree
<1>5. /\ InDirs(r.tree)
      /\ \A q \in DOMAIN dst : q # to => SameAt(dst, r.tree, q)
      /\ \A q \in DOMAIN r.tree :
           q \in DOMAIN dst \/ (IsPrefix(q, to) /\ (q = to \/ IsDir(r.tree, q)))
  <2> DEFINE c == src[p]
  <2>1. c \in Entry
    BY <1>4
  <2> HIDE DEF c, to
  <2>2. /\ InDirs(WriteFile(dst, to, c).tree)
        /\ \A q \in DOMAIN dst : q # to => SameAt(dst, WriteFile(dst, to, c).tree, q)
        /\ \A q \in DOMAIN WriteFile(dst, to, c).tree :
             \/ q \in DOMAIN dst
             \/ IsPrefix(q, to) /\ (q = to \/ IsDir(WriteFile(dst, to, c).tree, q))
    BY <1>2, <1>3, <2>1, WriteFileFacts, Zenon
  <2>3. r = WriteFile(dst, to, c)
    BY DEF c
  <2> HIDE DEF r
  <2> QED BY <2>2, <2>3, Zenon
<1> HIDE DEF r, to
<1>6. RelocsInv'
  BY <1>1, <1>2, NextCounts, RelocsSame
<1>7. Tidy(dst', relocs', {})
  <2>1. \A q \in DOMAIN dst' : q \in DOMAIN dst \/ ~TempNamed(q)
    BY <1>1, <1>2, <1>3, <1>5, ClearAbove DEF IsTree
  <2> QED BY <1>1, <1>2, <2>1, StaysTidy
<1>8. Spared
  BY <1>1, <1>2, <1>5, OthersSpared DEF to
<1>9. \A q \in DstNodes : Protected(q) => Apart(q, relocs')
  BY <1>1 DEF GuardInv, Take
<1> QED BY <1>1, <1>5, <1>6, <1>7, <1>8, <1>9 DEF Leaves, Openers

\* What Move does to the tree, as far as it matters here.
MoveOnly(t, r, from, to) ==
  /\ InDirs(r.tree)
  /\ \A q \in DOMAIN t : q # to /\ ~IsPrefix(from, q) => SameAt(t, r.tree, q)
  /\ \A q \in DOMAIN r.tree : q \in DOMAIN t \/ MovedTo(t, r, from, to, q)
  /\ r.ok /\ from # to => \A q \in DOMAIN r.tree : ~IsPrefix(from, q)

\* A move changes its two ends and nothing else.
LEMMA MoveEffect ==
  ASSUME NEW t, IsTree(t), InDirs(t), NEW from \in Path, NEW to \in Path
  PROVE  MoveOnly(t, Move(t, from, to), from, to)
<1> DEFINE r == Move(t, from, to)
<1>1. /\ InDirs(Move(t, from, to).tree)
      /\ \A q \in DOMAIN t :
           q # to /\ (Move(t, from, to).ok => ~IsPrefix(from, q)) =>
             SameAt(t, Move(t, from, to).tree, q)
      /\ \A q \in DOMAIN Move(t, from, to).tree :
           \/ q \in DOMAIN t /\ SameAt(t, Move(t, from, to).tree, q)
           \/ MovedTo(t, Move(t, from, to), from, to, q)
      /\ Move(t, from, to).ok /\ from # to =>
           /\ from \in DOMAIN t /\ to \in DOMAIN Move(t, from, to).tree
           /\ Move(t, from, to).tree[to] = t[from]
           /\ \A q \in DOMAIN Move(t, from, to).tree : ~IsPrefix(from, q)
  BY MoveFacts, Zenon
<1>2. /\ InDirs(r.tree)
      /\ \A q \in DOMAIN t : q # to /\ (r.ok => ~IsPrefix(from, q)) => SameAt(t, r.tree, q)
      /\ \A q \in DOMAIN r.tree : q \in DOMAIN t \/ MovedTo(t, r, from, to, q)
      /\ r.ok /\ from # to => \A q \in DOMAIN r.tree : ~IsPrefix(from, q)
  BY <1>1, Zenon
<1> HIDE DEF r
<1>3. MoveOnly(t, r, from, to)
  BY <1>2 DEF MoveOnly
<1> QED BY <1>3 DEF r

\* The first conflict at the path, with nothing protected at or below it.
LEMMA ConflictIsNew ==
  ASSUME IInv, ShapeInv, LitterInv, Take("Conflict"), NEW p, p = cmds[next].path,
         cmds[next].absolute, world.dstRoot = <<>>
  PROVE  /\ p \in SrcNodes /\ p \in Path /\ p \notin DOMAIN relocs
         /\ IsDir(src, p) /\ Match(p) = {} /\ IsFile(world.dst, p)
         /\ \A q \in DstNodes : Protected(q) => ~IsPrefix(p, q)
<1>1. /\ Apt(cmds[next]) /\ next \in 1..Len(cmds) /\ p \in SrcNodes /\ RelocsInv
      /\ cmds[next].op = "Conflict" /\ cmds \in Seq(Command) /\ IsWorld(world)
  BY TargetFacts, TakeAt DEF LitterInv, IInv, TypeOK
<1>2. IsDir(src, p) /\ Match(p) = {} /\ IsFile(world.dst, p) /\ p \in Path
  BY <1>1, WorldFacts DEF Apt, Resolve
<1>3. p \notin DOMAIN relocs
  <2> SUFFICES ASSUME p \in DOMAIN relocs  PROVE FALSE
    OBVIOUS
  <2>1. PICK i \in 1..(next - 1) : cmds[i].op = "Conflict" /\ cmds[i].path = p
    BY <1>1 DEF RelocsInv
  <2>2. i # next /\ i \in DOMAIN cmds /\ next \in DOMAIN cmds
    BY <1>1, LenProperties
  <2> QED BY <1>1, <2>1, <2>2 DEF ShapeInv, Orderly, OneConflict
<1>4. ASSUME NEW q \in DstNodes, Protected(q), IsPrefix(p, q)  PROVE FALSE
  <2>1. q \in Path /\ IsFile(world.dst, q) /\ p # q
    BY <1>1, <1>4, ProtectedFacts
  <2>2. IsTree(world.dst) /\ InDirs(world.dst)
    BY <1>1, WorldFacts, StoreNames
  <2>3. IsDir(world.dst, p)
    BY <1>2, <1>4, <2>1, <2>2, InDirsAbove DEF IsFile, Exists
  <2> QED BY <1>2, <2>3 DEF IsDir, IsFile
<1> QED BY <1>1, <1>2, <1>3, <1>4

\* What is not there has nothing below it.
LEMMA FreshAbove ==
  ASSUME NEW t, IsTree(t), InDirs(t), NEW fresh \in Path, fresh \notin DOMAIN t,
         NEW q \in DOMAIN t
  PROVE  ~IsPrefix(fresh, q)
<1> SUFFICES ASSUME IsPrefix(fresh, q)  PROVE FALSE
  OBVIOUS
<1>1. q \in Path /\ fresh # q
  BY DEF IsTree
<1>2. IsDir(t, fresh)
  BY <1>1, InDirsAbove
<1> QED BY <1>2 DEF IsDir, Exists

\* A file in the way of a directory is moved to an invented name in the root directory.
LEMMA ConflictLeaves ==
  ASSUME IInv, IInv', ShapeInv, LitterInv, GuardInv, ExecConflict
  PROVE  Leaves("Conflict")
<1> DEFINE p == cmds[next].path
<1>1. PICK fresh \in FreshPaths(dst, <<>>) :
        LET r == Move(dst, p, fresh)
        IN  /\ cmds[next].absolute /\ world.dstRoot = <<>>
            /\ Finish(r)
            /\ relocs' = IF r.ok THEN Put(relocs, p, fresh) ELSE relocs
  BY DEF ExecConflict
<1> DEFINE r == Move(dst, p, fresh)
<1>2. /\ Take("Conflict") /\ cmds[next].absolute /\ world.dstRoot = <<>> /\ dst' = r.tree
      /\ pc' = IF r.ok THEN "exec" ELSE "failed"
      /\ relocs' = IF r.ok THEN Put(relocs, p, fresh) ELSE relocs
  BY <1>1 DEF ExecConflict, Finish
<1>3. /\ IsTree(dst) /\ InDirs(dst) /\ RelocsInv /\ Tidy(dst, relocs, {})
  BY <1>2, Before DEF Needers
<1>4. /\ p \in SrcNodes /\ p \in Path /\ p \notin DOMAIN relocs /\ IsDir(src, p) /\ Match(p) = {}
      /\ IsFile(world.dst, p)
      /\ \A q \in DstNodes : Protected(q) => ~IsPrefix(p, q)
  BY <1>2, ConflictIsNew
<1>5. PICK n \in TempName : fresh = <<n>>
  BY DEF FreshPaths
<1>6. fresh \in Path /\ TempNamed(fresh) /\ Len(fresh) = 1 /\ fresh \notin DOMAIN dst
  BY <1>5, EmptySeq, InventedName DEF Path, FreshPaths, Exists
<1>7. MoveOnly(dst, r, p, fresh)
  BY <1>3, <1>4, <1>6, MoveEffect
<1>8. next \in 1..Len(cmds) /\ cmds[next].op = "Conflict" /\ next' = next + 1
  BY <1>2, TakeFacts DEF Take
<1> HIDE DEF r
<1>9. RelocsInv'
  <2>1. CASE ~r.ok
    BY <1>2, <1>3, <2>1, NextCounts, RelocsSame
  <2>2. CASE r.ok
    <3>1. /\ DOMAIN relocs' = DOMAIN relocs \cup {p} /\ relocs'[p] = fresh
          /\ \A a \in DOMAIN relocs : relocs'[a] = relocs[a]
      BY <1>2, <1>4, <2>2 DEF Put
    <3>2. \A i \in 1..(next - 1) : i \in 1..(next' - 1)
      BY <1>8, LenProperties
    <3>3. next \in 1..(next' - 1)
      BY <1>8, LenProperties
    <3>4. UNCHANGED <<world, cmds>>
      BY <1>2, NextCounts
    <3>5. ASSUME NEW a \in DOMAIN relocs'
          PROVE  /\ world.dstRoot = <<>> /\ IsDir(src, a) /\ Match(a) = {}
                 /\ \E m \in TempName : relocs'[a] = <<m>>
                 /\ \E i \in 1..(next' - 1) : cmds[i].op = "Conflict" /\ cmds[i].path = a
      <4>1. CASE a = p
        BY <1>2, <1>4, <1>5, <1>8, <3>1, <3>3, <4>1
      <4>2. CASE a # p
        BY <1>3, <3>1, <3>2, <4>2 DEF RelocsInv
      <4> QED BY <4>1, <4>2
    <3> QED BY <3>4, <3>5 DEF RelocsInv, Match, src
  <2> QED BY <2>1, <2>2
<1>10. ASSUME r.ok  PROVE Tidy(dst', relocs', {})
  <2>1. /\ DOMAIN relocs' = DOMAIN relocs \cup {p} /\ relocs'[p] = fresh
        /\ \A a \in DOMAIN relocs : relocs'[a] = relocs[a]
    BY <1>2, <1>4, <1>10 DEF Put
  <2> SUFFICES ASSUME NEW q \in DOMAIN dst', TempNamed(q)
               PROVE  Relocated(relocs', q) \/ (q \in DOMAIN world.dst /\ Apart(q, relocs'))
    BY DEF Tidy
  <2>2. CASE q \in DOMAIN dst
    <3>1. ~IsPrefix(fresh, q)
      BY <1>3, <1>6, <2>2, FreshAbove
    <3> QED BY <1>3, <2>1, <2>2, <3>1 DEF Tidy, Relocated, Apart
  <2>3. CASE q \notin DOMAIN dst
    <3>1. MovedTo(dst, r, p, fresh, q)
      BY <1>2, <1>7, <2>3 DEF MoveOnly
    <3>2. PICK x \in Under(dst, p) : p # <<>> /\ q = fresh \o SubPath(x, p)
      BY <3>1 DEF MovedTo
    <3>3. x \in Path /\ IsPrefix(p, x) /\ x \in DOMAIN dst
      BY <1>3 DEF Under, IsTree
    <3>4. ASSUME TempNamed(SubPath(x, p))  PROVE Relocated(relocs, x)
      <4> DEFINE s == SubPath(x, p)
      <4>1. s \in Path /\ x = p \o s /\ TempNamed(s)
        BY <1>4, <3>3, <3>4, BelowIsPath
      <4> HIDE DEF s
      <4>2. TempNamed(x)
        BY <1>4, <4>1, TempBelow
      <4> SUFFICES ASSUME x \in DOMAIN world.dst  PROVE FALSE
        BY <1>3, <3>3, <4>2 DEF Tidy
      <4>3. IsTree(world.dst) /\ InDirs(world.dst)
        BY WorldFacts, StoreNames DEF IInv, TypeOK
      <4>4. x = p
        BY <1>4, <3>3, <4>3, NothingBelow DEF Under, IsFile, IsDir
      <4> QED BY <1>4, <3>4, <4>4, NothingSub
    <3>5. SubPath(x, p) \in Path /\ ~TempNamed(SubPath(x, p))
      BY <1>3, <1>4, <3>2, <3>3, <3>4, MovedClear
    <3> DEFINE s == SubPath(x, p)
    <3>6. s \in Path /\ ~TempNamed(s) /\ q = fresh \o s
      BY <3>2, <3>5
    <3> HIDE DEF s
    <3>7. IsPrefix(fresh, q) /\ SubPath(q, fresh) = s
      BY <1>6, <3>6, PutBelow
    <3> QED BY <2>1, <3>6, <3>7 DEF Relocated
  <2> QED BY <2>2, <2>3
<1>11. Spared
  <2> SUFFICES ASSUME NEW q \in DstNodes, Protected(q), q \in DOMAIN dst
               PROVE  SameAt(dst, dst', q)
    BY DEF Spared
  <2>1. ~IsPrefix(p, q) /\ q # fresh
    BY <1>4, <1>6
  <2> QED BY <1>2, <1>7, <2>1 DEF MoveOnly
<1>12. pc' = "exec" => Tidy(dst', relocs', {})
  BY <1>2, <1>10
<1>13. ASSUME r.ok, NEW q \in DstNodes, Protected(q)  PROVE Apart(q, relocs')
  <2>1. Apart(q, relocs) /\ q \in DOMAIN dst
    BY <1>2, <1>13 DEF GuardInv, Take, SameAt
  <2>2. ~IsPrefix(fresh, q)
    BY <1>3, <1>6, <2>1, FreshAbove
  <2> QED BY <1>2, <1>13, <2>1, <2>2 DEF Apart, Put
<1>14. pc' = "exec" => \A q \in DstNodes : Protected(q) => Apart(q, relocs')
  BY <1>2, <1>13
<1> QED BY <1>2, <1>7, <1>9, <1>11, <1>12, <1>14 DEF Leaves, MoveOnly, Openers

\* A temporary file is made next to the file it will replace.
LEMMA LocalTempLeaves ==
  ASSUME IInv, IInv', ShapeInv, LitterInv, GuardInv, ExecLocalTemp
  PROVE  Leaves("LocalTemp")
<1> DEFINE c == cmds[next]
           p == Located(c.path)
<1>1. Take("LocalTemp") /\ relocs' = relocs
  BY DEF ExecLocalTemp
<1>2. /\ IsTree(dst) /\ InDirs(dst) /\ RelocsInv /\ Tidy(dst, relocs, {})
  BY <1>1, Before DEF Needers
<1>3. /\ c \in Command /\ c.op = "LocalTemp" /\ c.path \in SrcNodes /\ Apt(c)
      /\ p \in Path /\ ~TempNamed(p) /\ (world.dstRoot = <<>> => p = c.path)
  BY <1>1, <1>2, TargetFacts, TakeAt
<1>4. RelocsInv'
  BY <1>1, <1>2, NextCounts, RelocsSame
<1>5. CASE ~Exists(dst, p)
  <2>1. dst' = dst /\ pc' = "failed"
    BY <1>5 DEF ExecLocalTemp, Finish, Err
  <2> QED BY <1>2, <1>4, <2>1 DEF Leaves, Spared, SameAt
<1>6. CASE Exists(dst, p)
  <2>1. PICK file \in FreshPaths(dst, ParentDir(p)) :
          /\ dst' = Put(dst, file, Zeros(c.size))
          /\ temp' = [local |-> dst[p], file |-> file]
    BY <1>6 DEF ExecLocalTemp, Finish, Ok
  <2>2. ParentDir(p) \in Path
    BY <1>3, PrefixPath
  <2>3. file \in Path /\ file # <<>> /\ TempNamed(file) /\ ParentDir(file) = ParentDir(p)
    BY <2>2, InventedName DEF FreshPaths
  <2>4. file \notin DOMAIN dst
    BY DEF FreshPaths, Exists
  <2>5. p # <<>>
    <3>1. IsFile(src, c.path) /\ IsDir(src, <<>>)
      BY <1>3, StoreNames DEF Apt, IInv, TypeOK
    <3>2. c.path # <<>>
      BY <3>1 DEF IsFile, IsDir
    <3>3. c.path \notin DOMAIN relocs
      BY <1>2, <3>1 DEF RelocsInv, IsFile, IsDir
    <3> QED BY <3>2, <3>3 DEF Located, Resolve
  <2>6. IsDir(dst, ParentDir(p))
    <3>1. IsPrefix(ParentDir(p), p) /\ ParentDir(p) # p
      BY <1>3, <2>5, ParentFacts DEF IsStrictPrefix
    <3> QED BY <1>2, <1>6, <2>2, <3>1, InDirsAbove DEF Exists
  <2>7. Zeros(c.size) \in Entry
    BY <1>1, <1>3, CommandFields, ZerosType DEF Entry
  <2> DEFINE e == Zeros(c.size)
  <2>8. e \in Entry /\ dst' = Put(dst, file, e)
    BY <2>1, <2>7
  <2> HIDE DEF e
  <2>9. ~IsDir(dst, file) /\ IsDir(dst, ParentDir(file))
    BY <2>3, <2>4, <2>6 DEF IsDir, Exists
  <2>10. /\ InDirs(Put(dst, file, e)) /\ DOMAIN Put(dst, file, e) = DOMAIN dst \cup {file}
         /\ \A q \in DOMAIN dst : q # file => SameAt(dst, Put(dst, file, e), q)
    BY <1>2, <2>3, <2>8, <2>9, PutDirs
  <2>11. /\ InDirs(dst') /\ DOMAIN dst' = DOMAIN dst \cup {file}
         /\ \A q \in DOMAIN dst : q # file => SameAt(dst, dst', q)
    BY <2>8, <2>10
  <2>12. Spared
    BY <1>1, <1>2, <2>4, <2>11, OthersSpared
  <2>13. Tidy(dst', relocs', {temp'.file}) /\ TempNamed(temp'.file)
    BY <1>1, <1>2, <2>1, <2>3, <2>11 DEF Tidy
  <2>14. \A q \in DstNodes : Protected(q) => Apart(q, relocs') /\ q # temp'.file
    BY <1>1, <2>1, <2>4 DEF GuardInv, SameAt, Take
  <2> QED BY <1>4, <2>11, <2>12, <2>13, <2>14 DEF Leaves, Openers
<1> QED BY <1>5, <1>6

\* Bytes are written to the open temporary file.
LEMMA CopyLeaves ==
  ASSUME IInv, IInv', ShapeInv, LitterInv, GuardInv, NEW op \in {"LocalTempCopy", "SrcTempCopy"}, Take(op),
         NEW contents \in Entry,
         Finish(IF contents = Dir THEN Err(dst) ELSE CopyToTemp(cmds[next], contents)),
         UNCHANGED <<refs, relocs, temp>>
  PROVE  Leaves(op)
<1> DEFINE c == cmds[next]
<1>1. op \in Needers /\ op \in Openers
  BY DEF Needers, Openers
<1>2. /\ IsTree(dst) /\ InDirs(dst) /\ RelocsInv /\ IsWorld(world) /\ world' = world
      /\ TempNamed(temp.file) /\ Tidy(dst, relocs, {temp.file}) /\ Open
  BY <1>1, Before DEF IInv, TypeOK, Take
<1>3. temp.file \in DOMAIN dst /\ dst[temp.file] \in Seq(Byte) /\ temp.file \in Path
  BY <1>1, TempIsOpen, TakeAt
<1>4. RelocsInv'
  BY <1>2, NextCounts, RelocsSame
<1>5. CASE contents = Dir
  <2>1. dst' = dst /\ pc' = "failed"
    BY <1>5 DEF Finish, Err
  <2> QED BY <1>2, <1>4, <2>1 DEF Leaves, Spared, SameAt
<1>6. CASE contents # Dir
  <2> DEFINE bytes == IF c.length <= 0 THEN <<>> ELSE Slice(contents, c.from, c.length)
             e     == WriteAt(dst[temp.file], c.to, bytes)
             f     == temp.file
  <2>1. dst' = Put(dst, temp.file, e)
    BY <1>6 DEF Finish, CopyToTemp, Ok, Err
  <2>2. e \in Entry
    <3>1. contents \in Seq(Byte)
      BY <1>6 DEF Entry
    <3>2. c.from \in Nat /\ c.to \in Nat /\ c.length \in Int
      BY TakeFacts, CommandFields
    <3>3. bytes \in Seq(Byte)
      <4>1. CASE c.length <= 0
        BY <4>1, EmptySeq
      <4>2. CASE ~(c.length <= 0)
        <5>1. c.length \in Nat
          BY <3>2, <4>2
        <5> QED BY <3>1, <3>2, <4>2, <5>1, SliceType
      <4> QED BY <4>1, <4>2
    <3> HIDE DEF bytes
    <3> QED BY <1>3, <3>2, <3>3, WriteAtType DEF Entry
  <2> HIDE DEF e
  <2>3. f \in DOMAIN dst /\ f \in Path /\ ~IsDir(dst, f)
    BY <1>3, EntryAssumption DEF IsDir
  <2>4. dst' = Put(dst, f, e)
    BY <2>1
  <2>5. TempNamed(f) /\ Tidy(dst, relocs, {f}) /\ temp'.file = f
    BY <1>2
  <2> HIDE DEF f
  <2>6. /\ InDirs(Put(dst, f, e)) /\ DOMAIN Put(dst, f, e) = DOMAIN dst \cup {f}
        /\ \A q \in DOMAIN dst : q # f => SameAt(dst, Put(dst, f, e), q)
    BY <1>2, <2>2, <2>3, PutDirs
  <2>7. /\ InDirs(dst') /\ DOMAIN dst' = DOMAIN dst
        /\ \A q \in DOMAIN dst : q # f => SameAt(dst, dst', q)
    BY <2>3, <2>4, <2>6
  <2>8. Spared
    <3>1. Open => f = temp.file
      BY DEF f
    <3> QED BY <1>2, <2>7, <3>1, OthersSpared
  <2>9. Tidy(dst', relocs', {temp'.file}) /\ TempNamed(temp'.file)
    BY <2>5, <2>7 DEF Tidy
  <2>10. \A q \in DstNodes : Protected(q) => Apart(q, relocs') /\ q # temp'.file
    BY <1>2 DEF GuardInv, Take
  <2> QED BY <1>1, <1>4, <2>7, <2>8, <2>9, <2>10 DEF Leaves
<1> QED BY <1>5, <1>6

\* A block that the destination has.
LEMMA LocalTempCopyLeaves ==
  ASSUME IInv, IInv', ShapeInv, LitterInv, GuardInv, ExecLocalTempCopy
  PROVE  Leaves("LocalTempCopy")
<1> DEFINE contents == temp.local
<1>1. Take("LocalTempCopy") /\ UNCHANGED <<refs, relocs, temp>>
  BY DEF ExecLocalTempCopy
<1>2. contents \in Entry
  BY <1>1, TempIsOpen, TakeAt DEF Needers
<1>3. Finish(IF contents = Dir THEN Err(dst) ELSE CopyToTemp(cmds[next], contents))
  BY DEF ExecLocalTempCopy
<1> HIDE DEF contents
<1> QED BY <1>1, <1>2, <1>3, CopyLeaves

\* A block of the source.
LEMMA SrcTempCopyLeaves ==
  ASSUME IInv, IInv', ShapeInv, LitterInv, GuardInv, ExecSrcTempCopy
  PROVE  Leaves("SrcTempCopy")
<1> DEFINE contents == src[cmds[next].path]
<1>1. Take("SrcTempCopy") /\ UNCHANGED <<refs, relocs, temp>>
  BY DEF ExecSrcTempCopy
<1>2. contents \in Entry /\ contents # Dir
  <2>1. cmds[next].path \in SrcNodes /\ IsFile(src, cmds[next].path)
    BY <1>1, TargetFacts, TakeAt DEF LitterInv, Apt
  <2> QED BY <2>1, WorldFacts DEF IInv, TypeOK, IsTree, IsFile
<1>3. Finish(IF contents = Dir THEN Err(dst) ELSE CopyToTemp(cmds[next], contents))
  BY <1>2 DEF ExecSrcTempCopy
<1> HIDE DEF contents
<1> QED BY <1>1, <1>2, <1>3, CopyLeaves

\* The temporary file takes the place of the file.
LEMMA ReplaceLeaves ==
  ASSUME IInv, IInv', ShapeInv, LitterInv, GuardInv, ExecReplaceWithTemp
  PROVE  Leaves("ReplaceWithTemp")
<1> DEFINE p == Located(cmds[next].path)
           f == temp.file
           t == OsRemove(dst, p).tree
           r == Move(t, f, p)
<1>1. /\ Take("ReplaceWithTemp") /\ relocs' = relocs
      /\ IF OsRemove(dst, p).ok THEN dst' = r.tree /\ pc' = IF r.ok THEN "exec" ELSE "failed"
         ELSE dst' = t /\ pc' = "failed"
  BY DEF ExecReplaceWithTemp, Finish
<1>2. /\ IsTree(dst) /\ InDirs(dst) /\ RelocsInv /\ f \in Path /\ TempNamed(f)
      /\ Tidy(dst, relocs, {f}) /\ Open
  BY <1>1, Before DEF Needers
<1>3. f \in DOMAIN dst /\ dst[f] \in Seq(Byte)
  BY <1>1, TempIsOpen, TakeAt DEF Needers
<1>4. p \in Path /\ ~TempNamed(p)
  BY <1>1, <1>2, TargetFacts, TakeAt
<1>5. RelocsInv'
  BY <1>1, <1>2, NextCounts, RelocsSame
<1> DEFINE ok == OsRemove(dst, p).ok
<1>5a. f = temp.file
  OBVIOUS
<1> HIDE DEF p, f
<1>6. /\ IsTree(t) /\ InDirs(t)
      /\ \A q \in DOMAIN dst : q # p => SameAt(dst, t, q)
      /\ \A q \in DOMAIN t : q \in DOMAIN dst
  <2>1. /\ IsTree(OsRemove(dst, p).tree) /\ InDirs(OsRemove(dst, p).tree)
        /\ \A q \in DOMAIN dst : q # p => SameAt(dst, OsRemove(dst, p).tree, q)
        /\ \A q \in DOMAIN OsRemove(dst, p).tree :
             q \in DOMAIN dst /\ SameAt(dst, OsRemove(dst, p).tree, q)
    BY <1>2, <1>4, RemoveFacts, Zenon
  <2> QED BY <2>1, Zenon
<1>7. /\ ok => dst' = r.tree /\ pc' = IF r.ok THEN "exec" ELSE "failed"
      /\ ~ok => dst' = t /\ pc' = "failed"
  BY <1>1
<1> HIDE DEF t, ok
<1>8. MoveOnly(t, r, f, p)
  BY <1>2, <1>4, <1>6, MoveEffect
<1> HIDE DEF r
<1>9. InDirs(dst')
  BY <1>6, <1>7, <1>8 DEF MoveOnly
<1>10. ASSUME ok, r.ok  PROVE Tidy(dst', relocs', {})
  <2> SUFFICES ASSUME NEW q \in DOMAIN dst', TempNamed(q)
               PROVE  Relocated(relocs, q) \/ (q \in DOMAIN world.dst /\ Apart(q, relocs))
    BY <1>1 DEF Tidy
  <2>1. f # p
    BY <1>2, <1>4
  <2>2. CASE q \in DOMAIN t
    <3>1. ~IsPrefix(f, q)
      BY <1>7, <1>8, <1>10, <2>1 DEF MoveOnly
    <3>2. q # f
      BY <1>2, <3>1, PrefixReflexive DEF Path
    <3> QED BY <1>2, <1>6, <2>2, <3>2 DEF Tidy
  <2>3. CASE q \notin DOMAIN t
    <3>1. MovedTo(t, r, f, p, q)
      BY <1>7, <1>8, <1>10, <2>3 DEF MoveOnly
    <3>2. PICK x \in Under(t, f) : q = p \o SubPath(x, f)
      BY <3>1 DEF MovedTo
    <3>3. x \in DOMAIN t /\ x \in Path /\ IsPrefix(f, x)
      BY <1>6 DEF Under, IsTree
    <3>4. x \in Under(dst, f)
      BY <1>6, <3>3 DEF Under
    <3>5. ~IsDir(dst, f)
      BY <1>3, EntryAssumption DEF IsDir
    <3>6. x = f
      BY <1>2, <3>4, <3>5, NothingBelow
    <3> DEFINE s == SubPath(x, f)
    <3>7. s = <<>> /\ ~TempNamed(s)
      BY <1>2, <3>6, NothingSub
    <3>8. q = p \o s
      BY <3>2
    <3> HIDE DEF s
    <3>9. s \in Path
      BY <3>7, EmptySeq DEF Path
    <3> QED BY <1>4, <3>7, <3>8, <3>9, TempBelow
  <2> QED BY <2>2, <2>3
<1>11. Spared
  <2>1. ASSUME NEW q \in DOMAIN dst, q # p, q # f  PROVE SameAt(dst, dst', q)
    <3>1. SameAt(dst, t, q) /\ q \in Path
      BY <1>2, <1>6, <2>1 DEF IsTree
    <3>2. ~IsPrefix(f, q)
      BY <1>2, <1>3, <2>1, NothingBelow, EntryAssumption DEF Under, IsDir
    <3>3. CASE ok
      <4>1. SameAt(t, r.tree, q)
        BY <1>8, <2>1, <3>1, <3>2 DEF MoveOnly, SameAt
      <4> QED BY <1>7, <3>1, <3>3, <4>1, SameTwice
    <3>4. CASE ~ok
      BY <1>7, <3>1, <3>4
    <3> QED BY <3>3, <3>4
  <2> QED BY <1>1, <1>2, <1>5a, <2>1, OthersSpared DEF p
<1>12. pc' = "exec" => Tidy(dst', relocs', {})
  BY <1>7, <1>10
<1>13. \A q \in DstNodes : Protected(q) => Apart(q, relocs')
  BY <1>1 DEF GuardInv, Take
<1> QED BY <1>5, <1>9, <1>11, <1>12, <1>13 DEF Leaves, Openers

-----------------------------------------------------------------------------
(* The other steps.                                                        *)

\* The planner looks and does not touch.
LEMMA PlannerLooks ==
  ASSUME Planner
  PROVE  /\ Planning /\ UNCHANGED <<world, dst, relocs, next, temp>>
         /\ pc' \in {"plan", "match", "ranges", "exec"}
BY DEF Planner, PlanMatched, PlanFileConflict, PlanDownload, PlanFile, PlanDir, Plan, Visit,
       MatchBlock, MatchRoll, MatchDone, PlanRange, PlanFileDone, PlanDone, execVars, Planning

\* The destination as it was opened.
LEMMA LitterFresh ==
  ASSUME IsWorld(world), dst = world.dst, relocs = <<>>, next = 1,
         pc \in {"plan", "match", "ranges", "exec"}
  PROVE  LitterInv
<1>1. InDirs(dst)
  BY StoreNames
<1>2. ~Open /\ DOMAIN relocs = {}
  BY DEF Open
<1> QED BY <1>1, <1>2 DEF LitterInv, RelocsInv, Tidy, Apart

\* The planner leaves no litter, ...
LEMMA LitterPlanner ==
  ASSUME IInv, ShapeInv, Planner
  PROVE  LitterInv'
<1>1. /\ IsWorld(world) /\ dst = world.dst /\ relocs = <<>> /\ next = 1
      /\ UNCHANGED <<world, dst, relocs, next>> /\ pc' \in {"plan", "match", "ranges", "exec"}
  BY PlannerLooks DEF IInv, TypeOK, PlanInv, ShapeInv
<1>2. /\ (IsWorld(world))' /\ (dst = world.dst)' /\ (relocs = <<>>)' /\ (next = 1)'
      /\ (pc \in {"plan", "match", "ranges", "exec"})'
  BY <1>1
<1> QED BY <1>2, LitterFresh, PTL

\* ... and touches no file.
LEMMA GuardPlanner ==
  ASSUME IInv, ShapeInv, CoverInv', Planner
  PROVE  GuardInv'
<1>1. /\ world' = world /\ dst' = world'.dst /\ pc' # "clean" /\ IsWorld(world)
  BY PlannerLooks DEF IInv, TypeOK, ShapeInv
<1>2. (Planned => unmatched \cap SrcNodes = {})'
  BY <1>1 DEF CoverInv
<1>3. DstNodes \subseteq DOMAIN world.dst /\ DstNodes' = DstNodes
  BY <1>1, WorldFacts, WorldConstant
<1>4. \A q \in DstNodes : SameAt(world'.dst, dst', q)
  BY <1>1, <1>3 DEF SameAt
<1>5. (\A q \in DstNodes : SameAt(world.dst, dst, q))'
  BY <1>3, <1>4 DEF SameAt
<1>6. relocs' = <<>> /\ next' = 1
  BY PlannerLooks DEF ShapeInv, IInv, PlanInv
<1>7. DOMAIN relocs' = {} /\ ~Open'
  BY <1>6 DEF Open
<1> QED BY <1>2, <1>5, <1>7 DEF GuardInv, Apart

\* Cleanup removes what was moved away, and so every name that the patch has invented.
LEMMA ExecDoneKeeps ==
  ASSUME IInv, ShapeInv, LitterInv, GuardInv, ExecDone
  PROVE  LitterInv' /\ GuardInv'
<1> DEFINE gone == UNION {Under(dst, relocs[p]) : p \in DOMAIN relocs}
<1>1. /\ pc = "exec" /\ next > Len(cmds) /\ dst' = Without(dst, gone) /\ pc' = "done"
      /\ UNCHANGED <<world, relocs, next, cmds, unmatched>>
  BY DEF ExecDone, planVars
<1>2. IsTree(dst) /\ InDirs(dst) /\ RelocsInv /\ Tidy(dst, relocs, {})
  <2>1. ~Open
    BY <1>1, NotOpenAtEnd
  <2> QED BY <1>1, <2>1 DEF LitterInv, IInv, TypeOK
<1>3. \A q : q \in gone <=> q \in DOMAIN dst /\ \E p \in DOMAIN relocs : IsPrefix(relocs[p], q)
  BY DEF Under
<1> HIDE DEF gone
<1>4. DOMAIN dst' = DOMAIN dst \ gone /\ \A q \in DOMAIN dst \ gone : SameAt(dst, dst', q)
  BY <1>1 DEF Without, SameAt
<1>5. ASSUME NEW p \in DOMAIN relocs  PROVE relocs[p] \in Path /\ TempNamed(relocs[p])
  <2>1. PICK n \in TempName : relocs[p] = <<n>>
    BY <1>2 DEF RelocsInv
  <2>2. <<n>> \in Path /\ TempNamed(<<n>>)
    BY EmptySeq, InventedName DEF Path
  <2> QED BY <2>1, <2>2
<1>6. LitterInv'
  <2>1. \A q \in DOMAIN dst' : TempNamed(q) => q \in DOMAIN world.dst
    BY <1>2, <1>3, <1>4 DEF Tidy, Relocated
  <2>2. InDirs(dst')
    <3>1. IsTree(dst')
      BY <1>1, <1>2, WithoutTree
    <3> SUFFICES ASSUME NEW q \in DOMAIN dst', NEW a \in Path, IsPrefix(a, q), a # q
                 PROVE  IsDir(dst', a)
      BY <3>1, InDirsAbove
    <3>2. q \in DOMAIN dst /\ q \notin gone /\ q \in Path
      BY <1>2, <1>4 DEF IsTree
    <3>3. IsDir(dst, a)
      BY <1>2, <3>2, InDirsAbove
    <3>4. ASSUME NEW p \in DOMAIN relocs, IsPrefix(relocs[p], a)  PROVE FALSE
      <4>1. IsPrefix(relocs[p], q)
        BY <1>5, <3>2, <3>4, PrefixTransitive DEF Path
      <4> QED BY <1>3, <3>2, <4>1
    <3>5. a \in DOMAIN dst \ gone
      BY <1>3, <3>3, <3>4 DEF IsDir, Exists
    <3> QED BY <1>4, <3>3, <3>5 DEF IsDir, Exists, SameAt
  <2>3. RelocsInv'
    <3>1. next \in Int
      BY LenProperties DEF IInv, TypeOK
    <3> QED BY <1>1, <1>2, <3>1, RelocsSame
  <2>4. ~Open'
    BY <1>1 DEF Open
  <2> QED BY <1>1, <2>1, <2>2, <2>3, <2>4 DEF LitterInv
<1>7. GuardInv'
  <2>1. Planned /\ SrcNodes' = SrcNodes /\ DstNodes' = DstNodes
    BY <1>1, WorldConstant DEF Planned
  <2>2. ASSUME NEW q \in DstNodes, Protected(q)'  PROVE SameAt(world.dst, dst', q)
    <3>1. Protected(q)
      BY <1>1, <2>2 DEF Protected, OpsOf
    <3>2. SameAt(world.dst, dst, q)
      BY <1>1, <3>1 DEF GuardInv
    <3>4. \A p \in DOMAIN relocs : ~IsPrefix(relocs[p], q)
      BY <1>1, <3>1 DEF GuardInv, Apart
    <3>5. SameAt(dst, dst', q)
      BY <1>3, <1>4, <3>2, <3>4 DEF SameAt
    <3> QED BY <3>2, <3>5, SameTwice
  <2>3. (unmatched \cap SrcNodes = {})'
    BY <1>1, <2>1 DEF GuardInv
  <2>4. (\A q \in DstNodes :
           Protected(q) /\ (pc = "clean" => q \in SrcNodes) => SameAt(world.dst, dst, q))'
    BY <1>1, <2>1, <2>2 DEF SameAt
  <2> QED BY <1>1, <2>3, <2>4 DEF GuardInv
<1> QED BY <1>6, <1>7

\* Clean removes a file that the source has not got.
LEMMA CleanKeeps ==
  ASSUME IInv, ShapeInv, LitterInv, GuardInv, NEW u \in unmatched, Clean(u)
  PROVE  LitterInv' /\ GuardInv'
<1> DEFINE at == Located(u)
           t  == OsRemove(dst, at).tree
<1>1. /\ pc \in {"done", "clean"} /\ pc' = "clean" /\ dst' = t /\ unmatched' = unmatched \ {u}
      /\ UNCHANGED <<world, relocs, next, cmds>>
  BY DEF Clean
<1>2. /\ IsTree(dst) /\ InDirs(dst) /\ RelocsInv /\ u \in DstNodes
      /\ \A q \in DOMAIN dst : TempNamed(q) => q \in DOMAIN world.dst
  BY <1>1 DEF LitterInv, IInv, TypeOK
<1>3. /\ at \in Path
      /\ u \notin DOMAIN relocs /\ world.dstRoot = <<>> => at = u
  BY <1>2, LocatedFacts
<1> HIDE DEF at
<1>4. /\ InDirs(dst')
      /\ \A q \in DOMAIN dst : q # at => SameAt(dst, dst', q)
      /\ \A q \in DOMAIN dst' : q \in DOMAIN dst
  <2>1. /\ InDirs(OsRemove(dst, at).tree)
        /\ \A q \in DOMAIN dst : q # at => SameAt(dst, OsRemove(dst, at).tree, q)
        /\ \A q \in DOMAIN OsRemove(dst, at).tree :
             q \in DOMAIN dst /\ SameAt(dst, OsRemove(dst, at).tree, q)
    BY <1>2, <1>3, RemoveFacts, Zenon
  <2>2. /\ InDirs(t)
        /\ \A q \in DOMAIN dst : q # at => SameAt(dst, t, q)
        /\ \A q \in DOMAIN t : q \in DOMAIN dst
    BY <2>1, Zenon
  <2> HIDE DEF t
  <2> QED BY <1>1, <2>2
<1>5. LitterInv'
  <2>1. RelocsInv'
    <3>1. next \in Int
      BY LenProperties DEF IInv, TypeOK
    <3> QED BY <1>1, <1>2, <3>1, RelocsSame
  <2>2. ~Open'
    BY <1>1 DEF Open
  <2> QED BY <1>1, <1>2, <1>4, <2>1, <2>2 DEF LitterInv
<1>6. GuardInv'
  <2>1. Planned /\ SrcNodes' = SrcNodes /\ DstNodes' = DstNodes
    BY <1>1, WorldConstant DEF Planned
  <2>2. unmatched \cap SrcNodes = {}
    BY <2>1 DEF GuardInv
  <2>3. ASSUME NEW q \in DstNodes, Protected(q)', q \in SrcNodes
        PROVE  SameAt(world.dst, dst', q)
    <3>1. Protected(q)
      BY <1>1, <2>3 DEF Protected, OpsOf
    <3>2. SameAt(world.dst, dst, q)
      BY <2>3, <3>1 DEF GuardInv
    <3>3. u \notin DOMAIN relocs /\ u # q
      BY <2>2, <2>3 DEF IInv, TypeOK
    <3>4. at # q
      BY <1>3, <3>1, <3>3 DEF Protected
    <3>5. SameAt(dst, dst', q)
      BY <1>4, <3>2, <3>4 DEF SameAt
    <3> QED BY <3>2, <3>5, SameTwice
  <2>4. (unmatched \cap SrcNodes = {})'
    BY <1>1, <2>1, <2>2
  <2>5. (\A q \in DstNodes :
           Protected(q) /\ (pc = "clean" => q \in SrcNodes) => SameAt(world.dst, dst, q))'
    BY <1>1, <2>1, <2>3 DEF SameAt
  <2> QED BY <1>1, <2>4, <2>5 DEF GuardInv
<1> QED BY <1>5, <1>6

\* Nothing changes.
LEMMA StutterKeeps ==
  ASSUME LitterInv, GuardInv, UNCHANGED vars
  PROVE  LitterInv' /\ GuardInv'
<1>1. UNCHANGED <<world, dst, relocs, pc, unmatched, cmds, next, temp>>
  BY DEF vars
<1>2. LitterInv'
  <2>1. InDirs(dst') /\ RelocsInv'
    BY <1>1 DEF LitterInv, RelocsInv, Match, src
  <2>2. (Open => TempNamed(temp.file))'
    BY <1>1 DEF LitterInv, Open
  <2>3. (pc = "exec" => Tidy(dst, relocs, IF Open THEN {temp.file} ELSE {}))'
    <3>1. Open' <=> Open
      BY <1>1 DEF Open
    <3> QED BY <1>1, <3>1 DEF LitterInv, Tidy, Relocated, Apart
  <2>4. (pc \in {"done", "clean"} =>
           \A q \in DOMAIN dst : TempNamed(q) => q \in DOMAIN world.dst)'
    BY <1>1 DEF LitterInv
  <2> QED BY <2>1, <2>2, <2>3, <2>4 DEF LitterInv
<1>3. GuardInv'
  BY <1>1 DEF GuardInv, Planned, SrcNodes, DstNodes, Protected, OpsOf, SameAt, src, Apart, Open
<1> QED BY <1>2, <1>3

-----------------------------------------------------------------------------
(* The invariant of a patch, and what follows from it.                     *)

FullInv == IInv /\ RefsExact /\ CoverInv /\ ShapeInv /\ LitterInv /\ GuardInv

\* It holds of a destination that has just been opened, ...
LEMMA FullInit == Begun => FullInv
<1> SUFFICES ASSUME Begun  PROVE FullInv
  OBVIOUS
<1>1. IInv /\ RefsExact /\ CoverInv /\ ShapeInv
  BY IInvInit, RefsInit, CoverInit, ShapeInit
<1>2. LitterInv
  BY LitterFresh DEF Begun, Opened
<1>3. GuardInv
  <2>1. pc = "plan" /\ dst = world.dst /\ IsWorld(world)
    BY DEF Begun, Opened
  <2> QED BY <2>1, WorldFacts DEF GuardInv, Planned, SameAt
<1> QED BY <1>1, <1>2, <1>3 DEF FullInv


\* ... every command preserves it, ...
LEMMA CommandsKeep ==
  ASSUME FullInv, IInv', RefsExact', Exec
  PROVE  LitterInv' /\ GuardInv'
<1>1. IInv /\ ShapeInv /\ LitterInv /\ GuardInv
  BY DEF FullInv
<1>2. CASE ExecTransfer
  <2>1. Take("Transfer") /\ pc' \in {"exec", "failed"}
    BY <1>2 DEF ExecTransfer, Finish
  <2> QED BY <1>1, <1>2, <2>1, TransferLeaves, CommandStep
<1>3. CASE ExecKeep
  <2>1. Take("Keep") /\ pc' \in {"exec", "failed"} /\ UNCHANGED <<dst, relocs>>
    BY <1>3 DEF ExecKeep, Take
  <2>2. Leaves("Keep")
    BY <1>1, <2>1, NothingLeaves
  <2> QED BY <1>1, <2>1, <2>2, CommandStep
<1>4. CASE ExecConflict
  <2>1. Take("Conflict") /\ pc' \in {"exec", "failed"}
    BY <1>4 DEF ExecConflict, Finish
  <2> QED BY <1>1, <1>4, <2>1, ConflictLeaves, CommandStep
<1>5. CASE ExecConflictFails
  <2>1. Take("Conflict") /\ pc' \in {"exec", "failed"} /\ UNCHANGED <<dst, relocs>>
    BY <1>5 DEF ExecConflictFails, Finish, Err
  <2>2. Leaves("Conflict")
    BY <1>1, <2>1, NothingLeaves
  <2> QED BY <1>1, <2>1, <2>2, CommandStep
<1>6. CASE ExecLocalTemp
  <2>1. Take("LocalTemp") /\ pc' \in {"exec", "failed"}
    BY <1>6 DEF ExecLocalTemp, Finish
  <2> QED BY <1>1, <1>6, <2>1, LocalTempLeaves, CommandStep
<1>7. CASE ExecLocalTempCopy
  <2>1. Take("LocalTempCopy") /\ pc' \in {"exec", "failed"}
    BY <1>7 DEF ExecLocalTempCopy, Finish
  <2> QED BY <1>1, <1>7, <2>1, LocalTempCopyLeaves, CommandStep
<1>8. CASE ExecSrcTempCopy
  <2>1. Take("SrcTempCopy") /\ pc' \in {"exec", "failed"}
    BY <1>8 DEF ExecSrcTempCopy, Finish
  <2> QED BY <1>1, <1>8, <2>1, SrcTempCopyLeaves, CommandStep
<1>9. CASE ExecReplaceWithTemp
  <2>1. Take("ReplaceWithTemp") /\ pc' \in {"exec", "failed"}
    BY <1>9 DEF ExecReplaceWithTemp, Finish
  <2> QED BY <1>1, <1>9, <2>1, ReplaceLeaves, CommandStep
<1>10. CASE ExecSrcFileDownload
  <2>1. Take("SrcFileDownload") /\ pc' \in {"exec", "failed"}
    BY <1>10 DEF ExecSrcFileDownload, Finish
  <2> QED BY <1>1, <1>10, <2>1, DownloadLeaves, CommandStep
<1>11. CASE ExecDone
  BY <1>1, <1>11, ExecDoneKeeps
<1> QED BY <1>2, <1>3, <1>4, <1>5, <1>6, <1>7, <1>8, <1>9, <1>10, <1>11 DEF Exec

\* ... and so does every other step.
LEMMA FullStep == FullInv /\ [Next]_vars => FullInv'
<1> SUFFICES ASSUME FullInv, [Next]_vars  PROVE FullInv'
  OBVIOUS
<1>1. IInv /\ RefsExact /\ CoverInv /\ ShapeInv /\ LitterInv /\ GuardInv
  BY DEF FullInv
<1>2. IInv' /\ RefsExact' /\ CoverInv' /\ ShapeInv'
  BY <1>1, IInvStep, RefsStep, CoverStep, ShapeStep
<1>3. CASE Planner
  BY <1>1, <1>2, <1>3, LitterPlanner, GuardPlanner DEF FullInv
<1>4. CASE Exec
  BY <1>2, <1>4, CommandsKeep DEF FullInv
<1>5. CASE \E p \in unmatched : Clean(p)
  BY <1>1, <1>2, <1>5, CleanKeeps DEF FullInv
<1>6. CASE UNCHANGED vars
  BY <1>1, <1>2, <1>6, StutterKeeps DEF FullInv
<1> QED BY <1>3, <1>4, <1>5, <1>6 DEF Next

\* ... so that it holds of every patch, at all times.
THEOREM PatchInvariant == Spec => []FullInv
BY FullInit, InitBegun, FullStep, PTL DEF Spec

\* Nothing temporary is left behind by a patch that succeeds, whatever the stores.
THEOREM NeverLitters == Spec => []NoLitter
<1>1. FullInv => NoLitter
  BY DEF FullInv, LitterInv, NoLitter
<1> QED BY <1>1, PatchInvariant, PTL

\* A file that no command names is as it was, after every command, and after one that
\* fails.
THEOREM BystandersAlwaysUntouched == Spec => []BystandersUntouched
<1>1. ASSUME FullInv  PROVE BystandersUntouched
  <2> SUFFICES ASSUME Planned, pc # "clean", NEW q \in DstNodes,
                      IsFile(world.dst, q), world.dstRoot = <<>>,
                      ~\E i \in DOMAIN cmds : cmds[i].path = q,
                      ~\E i \in OpsOf("Transfer") : Within(q, cmds[i].from)
               PROVE  IsFile(dst, q) /\ dst[q] = world.dst[q]
    BY DEF BystandersUntouched
  <2>1. Protected(q)
    BY DEF Protected, Within
  <2>2. SameAt(world.dst, dst, q)
    BY <1>1, <2>1 DEF FullInv, GuardInv
  <2> QED BY <2>2 DEF SameAt, IsFile, Exists
<1> QED BY <1>1, PatchInvariant, PTL

\* A file that the plan keeps has the source's contents, however many files are copied from
\* it, and after Clean.
THEOREM KeptAlwaysIntact == Spec => []KeptIntact
<1>1. ASSUME FullInv  PROVE KeptIntact
  <2> SUFFICES ASSUME Planned, world.dstRoot = <<>>, NEW i \in OpsOf("Keep"), NEW p,
                      p = cmds[i].path, IsFile(src, p),
                      ~\E j \in OpsOf("Transfer") : IsStrictPrefix(cmds[j].from, p)
               PROVE  IsFile(dst, p) /\ dst[p] = src[p]
    BY DEF KeptIntact
  <2>1. /\ i \in DOMAIN cmds /\ cmds[i].op = "Keep" /\ cmds \in Seq(Command)
        /\ \A j \in DOMAIN cmds : Apt(cmds[j])
    BY <1>1 DEF FullInv, OpsOf, IInv, TypeOK, ShapeInv, Orderly
  <2>2. p \in SrcNodes /\ p \in Match(p)
    <3>1. cmds[i] \in Command
      BY <2>1, ElementOfSeq, LenProperties
    <3> QED BY <2>1, <3>1, CommandFields DEF Apt
  <2>3. IsFile(world.dst, p) /\ p \in DstNodes /\ world.dst[p] = src[p]
    <3>1. p \in DstNodes /\ IsFile(world.dst, p)
      BY <2>2, MatchNodes DEF Match
    <3>2. SameStrong(src, p, world.dst, p)
      BY <2>2 DEF Match, StrongMatch, Found, LastAdded, FirstRow
    <3>3. ~IsDir(src, p) /\ ~IsDir(world.dst, p)
      BY <3>1 DEF IsFile, IsDir
    <3> QED BY <3>1, <3>2, <3>3 DEF SameStrong
  <2>4. ASSUME NEW j \in DOMAIN cmds, cmds[j].path = p  PROVE cmds[j].op = "Keep"
    <3>1. cmds[j].op \in {"Transfer", "Keep"}
      BY <2>1, <2>2, <2>4 DEF Apt
    <3>2. \E k \in DOMAIN cmds : MadeIn(cmds, p) = {k}
      <4>1. p \in SrcFiles /\ p \notin Pending
        BY <1>1, <2>2 DEF SrcFiles, Pending, FullInv, CoverInv, Planned
      <4> QED BY <1>1, <4>1 DEF FullInv, CoverInv, OnceBut
    <3>3. i \in MadeIn(cmds, p) /\ j \in MadeIn(cmds, p)
      BY <2>1, <2>4, <3>1 DEF MadeIn, Makers
    <3>4. i = j
      BY <3>2, <3>3
    <3> QED BY <2>1, <3>4
  <2>5. ASSUME NEW j \in OpsOf("Transfer"), IsPrefix(cmds[j].from, p)
        PROVE  cmds[j].from = p /\ \E k \in OpsOf("Keep") : cmds[k].path = p
    BY <2>5 DEF IsStrictPrefix
  <2>6. Protected(p)
    BY <2>3, <2>4, <2>5 DEF Protected
  <2>7. SameAt(world.dst, dst, p)
    BY <1>1, <2>2, <2>3, <2>6 DEF FullInv, GuardInv
  <2> QED BY <2>3, <2>7 DEF SameAt, IsFile, Exists
<1> QED BY <1>1, PatchInvariant, PTL

\* What other commands still need is not moved away by a transfer, and not written over.
LEMMA TransferSpares ==
  ASSUME FullInv, RefsExact', ExecTransfer, world.dstRoot = <<>>, NEW q \in DstNodes,
         cmds[next].from = q, Uses(q)' # {}, NEW at, at = Located(q), at \in DOMAIN dst
  PROVE  SameAt(dst, dst', at)
<1> DEFINE left == refs[q] - 1
           to   == Located(cmds[next].path)
           r    == Transferred(dst, at, to, left)
<1>1. IInv /\ ShapeInv /\ LitterInv
  BY DEF FullInv
<1>2. Take("Transfer") /\ dst' = r.tree
  BY DEF ExecTransfer, Finish, Transferred
<1>3. IsTree(dst) /\ InDirs(dst) /\ RelocsInv
  BY <1>1, <1>2, Before
<1>4. /\ to \in Path /\ ~TempNamed(to) /\ to = cmds[next].path
      /\ cmds[next].path # q
  BY <1>1, <1>2, <1>3, TargetFacts, TakeAt DEF Apt
<1>5. at \in Path /\ at # to
  BY <1>1, <1>3, <1>4, LocatedFacts
<1>6. left > 0
  BY <1>1, TransferCounts
<1> HIDE DEF left, to
<1>7. TransferOnly(dst, r.tree, at, to, left)
  BY <1>3, <1>4, <1>5, TransferEffect
<1> HIDE DEF r
<1> QED BY <1>2, <1>5, <1>6, <1>7 DEF TransferOnly

\* No step of any patch takes away, or writes over, what a later command or a Keep still needs,
\* for every pair of stores.
THEOREM LaterUsesAlwaysSurvive == Spec => LaterUsesSurvive
<1>1. ASSUME FullInv, FullInv', [Next]_vars
      PROVE  [\A q \in DstNodes :
                LET at == Located(q)
                IN  /\ ExecTransfer /\ world.dstRoot = <<>>
                    /\ cmds[next].from = q /\ Uses(q)' # {}
                    => /\ Exists(dst, at) => Exists(dst', at)
                       /\ IsFile(dst, at) => dst'[at] = dst[at]]_vars
  <2> SUFFICES ASSUME NEW q \in DstNodes, ExecTransfer, world.dstRoot = <<>>,
                      cmds[next].from = q, Uses(q)' # {},
                      NEW at, at = Located(q), at \in DOMAIN dst
               PROVE  at \in DOMAIN dst' /\ dst'[at] = dst[at]
    BY DEF IsFile, Exists
  <2>1. RefsExact'
    BY <1>1 DEF FullInv
  <2>2. SameAt(dst, dst', at)
    BY <1>1, <2>1, TransferSpares
  <2> QED BY <2>2 DEF SameAt
<1> QED BY <1>1, PatchInvariant, PTL DEF Spec, LaterUsesSurvive

=============================================================================
