----------------------------- MODULE SyncProofs -----------------------------
(***************************************************************************)
(* A plan that is fit to run makes the destination's files the source's,   *)
(* SetMode then sets their modes, and rp's status says so, whatever the    *)
(* stores.                                                                 *)
(***************************************************************************)
EXTENDS PatchProofs, PatchModes, Rp

\* Where a node goes while nothing is relocated.
Place(p) == Resolve(world.dstRoot, <<>>, p)

-----------------------------------------------------------------------------
(* The list of commands.                                                   *)

Starters == {"Transfer", "Keep", "Conflict", "LocalTemp"}
Enders   == {"Transfer", "Keep", "SrcFileDownload", "ReplaceWithTemp"}
Copies   == {"LocalTempCopy", "SrcTempCopy"}

\* Directories before what is below them; the commands for a path are those of one visit, from
\* one that starts it to one that ends it.
Precedes(x, y) ==
  /\ Len(x.path) <= Len(y.path)
  /\ x.path = y.path => x.op \notin Enders /\ y.op \notin Starters

InSequence(c) == \A i, j \in DOMAIN c : i < j => Precedes(c[i], c[j])

\* A command on a temporary file is for the path of the command before.
Chained(c) ==
  \A i \in DOMAIN c : c[i].op \in Needers => i - 1 \in DOMAIN c /\ c[i - 1].path = c[i].path

\* The commands, in any order.
All(c) == {c[i] : i \in DOMAIN c}

\* Byte x of a file is in what a command copies, the rest of the file being no longer.
Covers(d, x) ==
  \/ d.op = "LocalTempCopy" /\ d.to <= x /\ x < d.to + BlockSize
  \/ d.op = "SrcTempCopy" /\ d.to <= x /\ x < d.to + d.length

\* Commands of S copy the first n bytes of p.
Covered(S, p, n) ==
  \A x \in Nat : x < n /\ x < Len(src[p]) => \E d \in S : d.path = p /\ Covers(d, x)

\* What the planner knew of the destination and of the lengths.
Informed(S, d) ==
  /\ d.op = "SrcFileDownload" =>
       \/ ~Exists(world.dst, Place(d.path))
       \/ \E e \in S : e.op = "Conflict" /\ ~e.absolute
  /\ d.op \in Openers \cup Needers => IsFile(world.dst, Place(d.path))
  /\ d.op = "LocalTemp" => d.size = Len(src[d.path])
  /\ d.op = "LocalTempCopy" =>
       d.length = (IF Len(src[d.path]) - d.from > BlockSize THEN BlockSize
                   ELSE Len(src[d.path]) - d.from)
  /\ d.op = "SrcTempCopy" =>
       /\ d.from = d.to /\ d.length > 0
       /\ \/ d.from + d.length <= Len(src[d.path])
          \/ \E e \in S : /\ e.op = "LocalTempCopy" /\ e.path = d.path
                          /\ e.to = d.from + d.length
  /\ d.op = "ReplaceWithTemp" => Covered(S, d.path, Len(src[d.path]))

\* Where a directory of the source takes the place of a file, a command is about the file.
Gives(S, p) ==
  IsDir(src, p) /\ IsFile(world.dst, Place(p)) =>
    \E d \in S : d.path = p /\ d.op \in {"Transfer", "Keep", "Conflict"}

\* A temporary file that is opened replaces the file, unless that is still to be planned.
Completed(S, open) ==
  \A d \in S : d.op = "LocalTemp" =>
    d.path \in open \/ \E e \in S : e.op = "ReplaceWithTemp" /\ e.path = d.path

\* What is known of a list of commands for all nodes but those of `rest`.
Listed(c, rest, open) ==
  /\ InSequence(c) /\ Chained(c)
  /\ \A d \in All(c) : Informed(All(c), d)
  /\ \A p \in SrcNodes \ rest : Gives(All(c), p)
  /\ Completed(All(c), open)
  /\ \A d \in All(c) : \A q \in rest : Len(d.path) <= Len(q)

\* While the blocks of a file are matched it has no command, and then none that ends its visit.
ScanListed(c, rest, phase, s) ==
  /\ phase \in {"match", "ranges"} =>
       /\ \A q \in rest : Len(s.file) <= Len(q)
       /\ \A d \in All(c) : Len(d.path) <= Len(s.file)
       /\ IsFile(world.dst, Place(s.file))
  /\ phase = "match" =>
       /\ s.start = 0
       /\ \A d \in All(c) : d.path # s.file
  /\ phase = "ranges" =>
       /\ c[Len(c)].path = s.file
       /\ \A d \in All(c) : d.path = s.file => d.op \in Openers
       /\ \A k \in DOMAIN s.matches :
            \E d \in All(c) : /\ d.op = "LocalTempCopy" /\ d.path = s.file
                              /\ d.to = s.matches[k].dst
       /\ Covered(All(c), s.file, s.start)

\* The file whose ranges are being planned.
Unfinished(phase, s) == IF phase = "ranges" THEN {s.file} ELSE {}

ListInv == Listed(cmds, todo, Unfinished(pc, scan)) /\ ScanListed(cmds, todo, pc, scan)

-----------------------------------------------------------------------------
(* Lists, one after the other.                                             *)

\* The commands of two lists.
LEMMA ConcatIndexes ==
  ASSUME NEW c \in Seq(Command), NEW more \in Seq(Command), NEW n, NEW m,
         n = Len(c), m = Len(more)
  PROVE  /\ c \o more \in Seq(Command)
         /\ n \in Nat /\ m \in Nat /\ DOMAIN c = 1..n /\ DOMAIN more = 1..m
         /\ Len(c \o more) = n + m /\ DOMAIN (c \o more) = 1..(n + m)
         /\ \A i \in 1..n : i \in 1..(n + m) /\ (c \o more)[i] = c[i]
         /\ \A i \in 1..(n + m) : i \notin 1..n => i - n \in 1..m /\ (c \o more)[i] = more[i - n]
         /\ \A j \in 1..m : j + n \in 1..(n + m) /\ j + n \notin 1..n /\ (c \o more)[j + n] = more[j]
<1> DEFINE all == c \o more
<1>1. /\ n \in Nat /\ m \in Nat /\ DOMAIN c = 1..n /\ DOMAIN more = 1..m
      /\ all \in Seq(Command) /\ Len(all) = n + m
      /\ \A i \in 1..(n + m) : all[i] = IF i <= n THEN c[i] ELSE more[i - n]
  BY ConcatProperties, LenProperties
<1> HIDE DEF all
<1>2. DOMAIN all = 1..(n + m)
  BY <1>1, LenProperties
<1>3. \A i \in 1..n : i \in 1..(n + m) /\ all[i] = c[i]
  BY <1>1
<1>4. \A i \in 1..(n + m) : i \notin 1..n => i - n \in 1..m /\ all[i] = more[i - n]
  BY <1>1
<1>5. ASSUME NEW j \in 1..m
      PROVE  j + n \in 1..(n + m) /\ j + n \notin 1..n /\ all[j + n] = more[j]
  <2> DEFINE i == j + n
  <2>1. i \in 1..(n + m) /\ i \notin 1..n /\ i - n = j
    BY <1>1
  <2> HIDE DEF i
  <2>2. all[i] = more[j]
    BY <1>4, <2>1
  <2> QED BY <2>1, <2>2 DEF i
<1> QED BY <1>1, <1>2, <1>3, <1>4, <1>5 DEF all

\* The commands of both lists.
LEMMA AllConcat ==
  ASSUME NEW c \in Seq(Command), NEW more \in Seq(Command)
  PROVE  All(c \o more) = All(c) \cup All(more)
<1> DEFINE n == Len(c)
           m == Len(more)
           all == c \o more
<1>1. /\ n \in Nat /\ m \in Nat /\ DOMAIN c = 1..n /\ DOMAIN more = 1..m
      /\ DOMAIN all = 1..(n + m)
      /\ \A i \in 1..n : i \in 1..(n + m) /\ all[i] = c[i]
      /\ \A i \in 1..(n + m) : i \notin 1..n => i - n \in 1..m /\ all[i] = more[i - n]
      /\ \A j \in 1..m : j + n \in 1..(n + m) /\ j + n \notin 1..n /\ all[j + n] = more[j]
  BY ConcatIndexes
<1> HIDE DEF n, m, all
<1>2. ASSUME NEW i \in 1..(n + m)  PROVE all[i] \in All(c) \cup All(more)
  BY <1>1 DEF All
<1>3. ASSUME NEW i \in 1..n  PROVE c[i] \in All(all)
  BY <1>1 DEF All
<1>4. ASSUME NEW j \in 1..m  PROVE more[j] \in All(all)
  BY <1>1 DEF All
<1> QED BY <1>1, <1>2, <1>3, <1>4 DEF All, all

\* What is added for a visit comes after all that is there.
LEMMA InSequenceConcat ==
  ASSUME NEW c \in Seq(Command), NEW more \in Seq(Command), InSequence(c), InSequence(more),
         \A d \in All(c) : \A e \in All(more) : Precedes(d, e)
  PROVE  InSequence(c \o more)
<1> DEFINE n == Len(c)
           m == Len(more)
           all == c \o more
<1>1. /\ n \in Nat /\ m \in Nat /\ DOMAIN c = 1..n /\ DOMAIN more = 1..m
      /\ DOMAIN all = 1..(n + m)
      /\ \A i \in 1..n : i \in 1..(n + m) /\ all[i] = c[i]
      /\ \A i \in 1..(n + m) : i \notin 1..n => i - n \in 1..m /\ all[i] = more[i - n]
  BY ConcatIndexes
<1> HIDE DEF n, m, all
<1> SUFFICES ASSUME NEW i \in 1..(n + m), NEW j \in 1..(n + m), i < j
             PROVE  Precedes(all[i], all[j])
  BY <1>1 DEF InSequence, all
<1>2. CASE i \in 1..n /\ j \in 1..n
  BY <1>1, <1>2 DEF InSequence
<1>3. CASE i \in 1..n /\ j \notin 1..n
  <2>1. all[i] \in All(c) /\ all[j] \in All(more)
    BY <1>1, <1>3 DEF All
  <2> QED BY <2>1
<1>4. CASE i \notin 1..n
  <2> DEFINE h == i - n
             k == j - n
  <2>1. j \notin 1..n
    BY <1>1, <1>4
  <2>2. h \in 1..m /\ k \in 1..m /\ h < k /\ all[i] = more[h] /\ all[j] = more[k]
    BY <1>1, <1>4, <2>1
  <2> HIDE DEF h, k
  <2> QED BY <1>1, <2>2 DEF InSequence
<1> QED BY <1>2, <1>3, <1>4

\* A command on a temporary file is for the path of the one before, across the join too.
LEMMA ChainedConcat ==
  ASSUME NEW c \in Seq(Command), NEW more \in Seq(Command), Chained(c),
         \A i \in 1..Len(more) :
           more[i].op \in Needers =>
             IF i = 1 THEN Len(c) # 0 /\ c[Len(c)].path = more[i].path
             ELSE more[i - 1].path = more[i].path
  PROVE  Chained(c \o more)
<1> DEFINE n == Len(c)
           m == Len(more)
           all == c \o more
<1>1. /\ n \in Nat /\ m \in Nat /\ DOMAIN c = 1..n /\ DOMAIN more = 1..m
      /\ DOMAIN all = 1..(n + m)
      /\ \A i \in 1..n : i \in 1..(n + m) /\ all[i] = c[i]
      /\ \A i \in 1..(n + m) : i \notin 1..n => i - n \in 1..m /\ all[i] = more[i - n]
  BY ConcatIndexes
<1>2. \A i \in 1..m :
        more[i].op \in Needers =>
          IF i = 1 THEN n # 0 /\ c[n].path = more[i].path ELSE more[i - 1].path = more[i].path
  OBVIOUS
<1> HIDE DEF n, m, all
<1> SUFFICES ASSUME NEW i \in 1..(n + m), all[i].op \in Needers
             PROVE  i - 1 \in 1..(n + m) /\ all[i - 1].path = all[i].path
  BY <1>1 DEF Chained, all
<1>3. CASE i \in 1..n
  <2>1. i - 1 \in 1..n /\ c[i - 1].path = c[i].path
    BY <1>1, <1>3 DEF Chained
  <2> QED BY <1>1, <1>3, <2>1
<1>4. CASE i = n + 1
  <2>1. i \notin 1..n /\ i - n = 1 /\ i - 1 = n
    BY <1>1, <1>4
  <2>2. all[i] = more[1] /\ 1 \in 1..m
    BY <1>1, <2>1
  <2>3. n # 0 /\ c[n].path = more[1].path
    BY <1>2, <2>2
  <2>4. n \in 1..n
    BY <1>1, <2>3
  <2> QED BY <1>1, <2>1, <2>2, <2>3, <2>4
<1>5. CASE i \notin 1..n /\ i # n + 1
  <2> DEFINE h == i - n
             k == i - 1
  <2>1. h \in 1..m /\ h # 1 /\ k \in 1..(n + m) /\ k \notin 1..n /\ k - n = h - 1
    BY <1>1, <1>5
  <2> HIDE DEF h, k
  <2>2. all[i] = more[h] /\ all[k] = more[h - 1]
    BY <1>1, <1>5, <2>1 DEF h
  <2>3. more[h - 1].path = more[h].path
    BY <1>2, <2>1, <2>2
  <2> QED BY <2>1, <2>2, <2>3 DEF k
<1> QED BY <1>3, <1>4, <1>5

\* More commands take nothing back.
LEMMA InformedGrows ==
  ASSUME NEW S, NEW T, S \subseteq T, NEW d
  PROVE  /\ Informed(S, d) => Informed(T, d)
         /\ \A p : Gives(S, p) => Gives(T, p)
         /\ \A p, n : Covered(S, p, n) => Covered(T, p, n)
<1>1. \A p, n : Covered(S, p, n) => Covered(T, p, n)
  BY DEF Covered
<1>2. \A p : Gives(S, p) => Gives(T, p)
  BY DEF Gives
<1>3. ASSUME Informed(S, d)  PROVE Informed(T, d)
  <2> DEFINE left == Len(src[d.path])
  <2>1. /\ d.op = "SrcFileDownload" =>
              \/ ~Exists(world.dst, Place(d.path))
              \/ \E e \in T : e.op = "Conflict" /\ ~e.absolute
        /\ d.op \in Openers \cup Needers => IsFile(world.dst, Place(d.path))
        /\ d.op = "LocalTemp" => d.size = left
    BY <1>3 DEF Informed
  <2>2. d.op = "SrcTempCopy" =>
          /\ d.from = d.to /\ d.length > 0
          /\ \/ d.from + d.length <= left
             \/ \E e \in T : /\ e.op = "LocalTempCopy" /\ e.path = d.path
                             /\ e.to = d.from + d.length
    BY <1>3 DEF Informed
  <2>3. d.op = "LocalTempCopy" =>
          d.length = (IF left - d.from > BlockSize THEN BlockSize ELSE left - d.from)
    BY <1>3 DEF Informed
  <2>4. d.op = "ReplaceWithTemp" => Covered(T, d.path, left)
    BY <1>1, <1>3 DEF Informed
  <2> QED BY <2>1, <2>2, <2>3, <2>4 DEF Informed
<1> QED BY <1>1, <1>2, <1>3

\* A list that grows by the commands of a visit, or of a part of one.
LEMMA ListedConcat ==
  ASSUME NEW c \in Seq(Command), NEW more \in Seq(Command), NEW S, NEW T, T \subseteq S,
         NEW open, NEW still, Listed(c, S, open),
         \A d \in All(c) : \A e \in All(more) : Precedes(d, e),
         InSequence(more),
         \A i \in 1..Len(more) :
           more[i].op \in Needers =>
             IF i = 1 THEN Len(c) # 0 /\ c[Len(c)].path = more[i].path
             ELSE more[i - 1].path = more[i].path,
         \A d \in All(more) : Informed(All(c) \cup All(more), d),
         \A d \in All(more) : \A q \in T : Len(d.path) <= Len(q),
         \A p \in (S \cap SrcNodes) \ T : Gives(All(more), p),
         Completed(All(c) \cup All(more), still)
  PROVE  Listed(c \o more, T, still)
<1> DEFINE all == c \o more
           U == All(c) \cup All(more)
<1>1. All(all) = U /\ All(c) \subseteq U /\ All(more) \subseteq U
  BY AllConcat
<1>2. /\ InSequence(c) /\ Chained(c)
      /\ \A d \in All(c) : Informed(All(c), d)
      /\ \A p \in SrcNodes \ S : Gives(All(c), p)
      /\ \A d \in All(c) : \A q \in S : Len(d.path) <= Len(q)
  BY DEF Listed
<1>3. InSequence(all) /\ Chained(all)
  BY <1>2, InSequenceConcat, ChainedConcat
<1>4. \A d \in All(more) : Informed(U, d)
  OBVIOUS
<1>5. Completed(U, still)
  OBVIOUS
<1> HIDE DEF all, U
<1>6. \A d \in U : Informed(U, d)
  <2>1. \A d \in All(c) : Informed(U, d)
    BY <1>1, <1>2, InformedGrows
  <2> QED BY <1>4, <2>1 DEF U
<1>7. \A p \in SrcNodes \ T : Gives(U, p)
  <2>1. \A p \in SrcNodes \ S : Gives(U, p)
    BY <1>1, <1>2, InformedGrows
  <2>2. \A p \in (S \cap SrcNodes) \ T : Gives(U, p)
    BY <1>1, InformedGrows
  <2> QED BY <2>1, <2>2
<1>8. \A d \in U : \A q \in T : Len(d.path) <= Len(q)
  BY <1>2 DEF U
<1> QED BY <1>1, <1>3, <1>5, <1>6, <1>7, <1>8 DEF Listed, all

-----------------------------------------------------------------------------
(* The planner keeps what is known of its list.                            *)

\* The stores are the same in the next state: so is what is known.
LEMMA ListNext ==
  ASSUME world' = world, Listed(cmds', todo', Unfinished(pc', scan')),
         ScanListed(cmds', todo', pc', scan')
  PROVE  ListInv'
<1>1. Listed(cmds, todo, Unfinished(pc, scan))'
  BY DEF Listed, Unfinished, InSequence, Precedes, Chained, All, Completed, Informed, Gives,
         Covered, Place, SrcNodes, src
<1>2. ScanListed(cmds, todo, pc, scan)'
  BY DEF ScanListed, All, Covered, Place, src
<1> QED BY <1>1, <1>2 DEF ListInv

\* No command at first.
LEMMA ListInit == Begun => ListInv
<1> SUFFICES ASSUME Begun  PROVE ListInv
  OBVIOUS
<1>1. pc = "plan" /\ cmds = <<>> /\ todo = SrcNodes
  BY DEF Begun, Opened
<1>2. DOMAIN cmds = {} /\ All(cmds) = {}
  BY <1>1 DEF All
<1>3. Listed(cmds, todo, Unfinished(pc, scan))
  BY <1>1, <1>2 DEF Listed, InSequence, Chained, Completed
<1>4. ScanListed(cmds, todo, pc, scan)
  BY <1>1 DEF ScanListed
<1> QED BY <1>3, <1>4 DEF ListInv

\* What comes before and after a visited node.
LEMMA VisitOrder ==
  ASSUME IInv, ShapeInv, ListInv, NEW p \in todo, Visit(p)
  PROVE  /\ \A d \in All(cmds) : Len(d.path) <= Len(p) /\ d.path # p
         /\ \A q \in todo \ {p} : Len(p) <= Len(q)
<1>1. \A d \in All(cmds) : Len(d.path) <= Len(p) /\ d.path # p
  <2>1. \A d \in All(cmds) : Len(d.path) <= Len(p)
    BY DEF ListInv, Listed
  <2>2. \A d \in All(cmds) : d.path # p
    BY DEF ShapeInv, Orderly, All
  <2> QED BY <2>1, <2>2
<1>2. ASSUME NEW q \in todo \ {p}  PROVE Len(p) <= Len(q)
  <2>1. p \in Path /\ q \in Path
    BY WorldFacts DEF IInv, TypeOK
  <2>2. Len(p) \in Nat /\ Len(q) \in Nat
    BY <2>1, LenProperties DEF Path
  <2>3. Len(p) < Len(q) \/ Len(p) = Len(q)
    BY DEF Visit, WalkedBefore
  <2> QED BY <2>2, <2>3
<1> QED BY <1>1, <1>2

\* A visit adds commands for the visited path.
LEMMA ListVisit ==
  ASSUME IInv, ShapeInv, ListInv, NEW p \in todo, Visit(p), pc' = "plan",
         NEW more \in Seq(Command), cmds' = cmds \o more,
         \A d \in All(more) : /\ d.path = p /\ d.op \notin Openers \cup Needers
                              /\ Informed(All(more), d),
         InSequence(more), Gives(All(more), p)
  PROVE  ListInv'
<1>1. /\ pc = "plan" /\ todo' = todo \ {p} /\ world' = world
      /\ cmds \in Seq(Command) /\ p \in SrcNodes
  BY DEF Visit, execVars, IInv, TypeOK
<1>2. Listed(cmds, todo, {})
  BY <1>1 DEF ListInv, Unfinished
<1>3. /\ \A d \in All(cmds) : Len(d.path) <= Len(p) /\ d.path # p
      /\ \A q \in todo \ {p} : Len(p) <= Len(q)
  BY VisitOrder
<1>4. \A d \in All(cmds) : \A e \in All(more) : Precedes(d, e)
  BY <1>3 DEF Precedes
<1>5. \A i \in 1..Len(more) : more[i].op \notin Needers
  <2>1. DOMAIN more = 1..Len(more)
    BY LenProperties
  <2> QED BY <2>1 DEF All
<1>6. \A d \in All(more) : Informed(All(cmds) \cup All(more), d)
  BY InformedGrows
<1>7. Completed(All(cmds) \cup All(more), {})
  <2>1. Completed(All(cmds), {})
    BY <1>2 DEF Listed
  <2>2. \A d \in All(more) : d.op # "LocalTemp"
    BY DEF Openers
  <2> QED BY <2>1, <2>2 DEF Completed
<1>8. \A d \in All(more) : \A q \in todo \ {p} : Len(d.path) <= Len(q)
  BY <1>3
<1>9. \A q \in (todo \cap SrcNodes) \ (todo \ {p}) : Gives(All(more), q)
  <2>1. \A q \in (todo \cap SrcNodes) \ (todo \ {p}) : q = p
    OBVIOUS
  <2> QED BY <2>1
<1>10. Listed(cmds \o more, todo \ {p}, {})
  BY <1>1, <1>2, <1>4, <1>5, <1>6, <1>7, <1>8, <1>9, ListedConcat
<1>11. Listed(cmds', todo', Unfinished(pc', scan'))
  BY <1>1, <1>10 DEF Unfinished
<1>12. ScanListed(cmds', todo', pc', scan')
  BY DEF ScanListed
<1> QED BY <1>1, <1>11, <1>12, ListNext

\* A visit that adds one command, ...
LEMMA OneCommand ==
  ASSUME NEW d \in Command, NEW more, more = <<d>>
  PROVE  more \in Seq(Command) /\ All(more) = {d} /\ InSequence(more)
<1>1. more \in Seq(Command) /\ Len(more) = 1 /\ more[1] = d
  BY ShortSeqs
<1>2. DOMAIN more = 1..1
  BY <1>1, LenProperties
<1>3. All(more) = {d}
  BY <1>1, <1>2 DEF All
<1>4. InSequence(more)
  BY <1>2 DEF InSequence
<1> QED BY <1>1, <1>3, <1>4

\* ... and one that adds two.
LEMMA TwoCommands ==
  ASSUME NEW c \in Command, NEW d \in Command, Precedes(c, d), NEW more, more = <<c, d>>
  PROVE  more \in Seq(Command) /\ All(more) = {c, d} /\ InSequence(more)
<1>1. more \in Seq(Command) /\ Len(more) = 2 /\ more[1] = c /\ more[2] = d
  BY ShortSeqs
<1>2. DOMAIN more = 1..2
  BY <1>1, LenProperties
<1>3. All(more) = {c, d}
  BY <1>1, <1>2 DEF All
<1>4. InSequence(more)
  <2> SUFFICES ASSUME NEW i \in 1..2, NEW j \in 1..2, i < j  PROVE Precedes(more[i], more[j])
    BY <1>2 DEF InSequence
  <2>1. i = 1 /\ j = 2
    OBVIOUS
  <2> QED BY <1>1, <2>1
<1> QED BY <1>1, <1>3, <1>4

\* A node that the destination has.
LEMMA ListPlanMatched ==
  ASSUME IInv, ShapeInv, ListInv, NEW p \in todo, PlanMatched(p)
  PROVE  ListInv'
<1>1. Visit(p) /\ pc' = "plan"
  BY DEF PlanMatched, Visit
<1>2. p \in SrcNodes /\ cmds \in Seq(Command)
  BY <1>1, VisitFacts
<1>3. PICK q \in Match(p) : cmds' = Append(cmds, IF p = q THEN Keep(p) ELSE Transfer(q, p))
  BY DEF PlanMatched
<1> DEFINE d == IF p = q THEN Keep(p) ELSE Transfer(q, p)
<1>4. d \in Command /\ d.path = p /\ d.op \in {"Keep", "Transfer"}
  <2>1. d \in Command
    BY <1>2, MatchNodes, CommandTypes
  <2> QED BY <2>1 DEF Keep, Transfer
<1>5. cmds' = Append(cmds, d)
  BY <1>3
<1> HIDE DEF d
<1>6. cmds' = cmds \o <<d>>
  BY <1>2, <1>4, <1>5, AppendIsConcat
<1> DEFINE more == <<d>>
<1>7. more \in Seq(Command) /\ All(more) = {d} /\ InSequence(more) /\ cmds' = cmds \o more
  BY <1>4, <1>6, OneCommand
<1> HIDE DEF more
<1>8. Informed(All(more), d) /\ d.op \notin Openers \cup Needers
  BY <1>4 DEF Informed, Openers, Needers
<1>9. Gives(All(more), p)
  BY <1>4, <1>7 DEF Gives
<1> QED BY <1>1, <1>4, <1>7, <1>8, <1>9, ListVisit

\* A directory in the way of a file.
LEMMA ListPlanFileConflict ==
  ASSUME IInv, ShapeInv, ListInv, NEW p \in todo, PlanFileConflict(p)
  PROVE  ListInv'
<1>1. Visit(p) /\ pc' = "plan" /\ IsFile(src, p)
  BY DEF PlanFileConflict, Plan, Visit
<1>2. p \in SrcNodes /\ cmds \in Seq(Command) /\ Len(p) \in Nat
  <2>1. p \in SrcNodes /\ cmds \in Seq(Command)
    BY <1>1, VisitFacts
  <2>2. p \in Path
    BY <2>1, WorldFacts DEF IInv, TypeOK
  <2> QED BY <2>1, <2>2, LenProperties DEF Path
<1> DEFINE c == Conflict(p, FALSE)
           d == SrcFileDownload(p)
<1>3. /\ c \in Command /\ c.path = p /\ c.op = "Conflict" /\ ~c.absolute
      /\ d \in Command /\ d.path = p /\ d.op = "SrcFileDownload"
  <2>1. c \in Command /\ d \in Command
    BY <1>2, CommandTypes
  <2> QED BY <2>1 DEF Conflict, SrcFileDownload
<1>4. cmds' = cmds \o <<c, d>>
  BY DEF PlanFileConflict, Plan
<1> HIDE DEF c, d
<1> DEFINE more == <<c, d>>
<1>5. Precedes(c, d)
  BY <1>2, <1>3 DEF Precedes, Enders, Starters
<1>6. more \in Seq(Command) /\ All(more) = {c, d} /\ InSequence(more) /\ cmds' = cmds \o more
  BY <1>3, <1>4, <1>5, TwoCommands
<1> HIDE DEF more
<1>7. /\ Informed(All(more), c) /\ c.op \notin Openers \cup Needers
      /\ Informed(All(more), d) /\ d.op \notin Openers \cup Needers
  BY <1>3, <1>6 DEF Informed, Openers, Needers
<1>8. Gives(All(more), p)
  BY <1>1 DEF Gives, IsFile, IsDir
<1> QED BY <1>1, <1>3, <1>6, <1>7, <1>8, ListVisit

\* A file that the destination has not got.
LEMMA ListPlanDownload ==
  ASSUME IInv, ShapeInv, ListInv, NEW p \in todo, PlanDownload(p)
  PROVE  ListInv'
<1>1. Visit(p) /\ pc' = "plan" /\ IsFile(src, p) /\ ~Exists(dst, Located(p))
  BY DEF PlanDownload, Plan, Visit
<1>2. /\ p \in SrcNodes /\ cmds \in Seq(Command)
      /\ dst = world.dst /\ Located(p) = Place(p)
  BY <1>1, VisitFacts DEF Place
<1> DEFINE d == SrcFileDownload(p)
<1>3. d \in Command /\ d.path = p /\ d.op = "SrcFileDownload"
  <2>1. d \in Command
    BY <1>2, CommandTypes
  <2> QED BY <2>1 DEF SrcFileDownload
<1>4. cmds' = cmds \o <<d>>
  BY DEF PlanDownload, Plan
<1> HIDE DEF d
<1> DEFINE more == <<d>>
<1>5. more \in Seq(Command) /\ All(more) = {d} /\ InSequence(more) /\ cmds' = cmds \o more
  BY <1>3, <1>4, OneCommand
<1> HIDE DEF more
<1>6. Informed(All(more), d) /\ d.op \notin Openers \cup Needers
  BY <1>1, <1>2, <1>3 DEF Informed, Openers, Needers
<1>7. Gives(All(more), p)
  BY <1>1 DEF Gives, IsFile, IsDir
<1> QED BY <1>1, <1>3, <1>5, <1>6, <1>7, ListVisit

\* A directory, perhaps where the destination has a file.
LEMMA ListPlanDir ==
  ASSUME IInv, ShapeInv, ListInv, NEW p \in todo, PlanDir(p)
  PROVE  ListInv'
<1>1. Visit(p) /\ pc' = "plan"
  BY DEF PlanDir, Plan, Visit
<1>2. /\ p \in SrcNodes /\ cmds \in Seq(Command)
      /\ dst = world.dst /\ Located(p) = Place(p)
  BY <1>1, VisitFacts DEF Place
<1>3. CASE IsFile(dst, Located(p))
  <2> DEFINE c == Conflict(p, TRUE)
  <2>1. c \in Command /\ c.path = p /\ c.op = "Conflict"
    <3>1. c \in Command
      BY <1>2, CommandTypes
    <3> QED BY <3>1 DEF Conflict
  <2>2. cmds' = cmds \o <<c>>
    BY <1>3 DEF PlanDir, Plan
  <2> HIDE DEF c
  <2> DEFINE more == <<c>>
  <2>3. more \in Seq(Command) /\ All(more) = {c} /\ InSequence(more) /\ cmds' = cmds \o more
    BY <2>1, <2>2, OneCommand
  <2> HIDE DEF more
  <2>4. Informed(All(more), c) /\ c.op \notin Openers \cup Needers
    BY <2>1 DEF Informed, Openers, Needers
  <2>5. Gives(All(more), p)
    BY <2>1, <2>3 DEF Gives
  <2> QED BY <1>1, <2>1, <2>3, <2>4, <2>5, ListVisit
<1>4. CASE ~IsFile(dst, Located(p))
  <2> DEFINE more == <<>>
  <2>1. cmds' = cmds \o more
    BY <1>4 DEF PlanDir, Plan
  <2>2. more \in Seq(Command) /\ DOMAIN more = {}
    OBVIOUS
  <2> HIDE DEF more
  <2>3. All(more) = {} /\ InSequence(more)
    BY <2>2 DEF All, InSequence
  <2>4. Gives(All(more), p)
    BY <1>2, <1>4 DEF Gives
  <2> QED BY <1>1, <2>1, <2>2, <2>3, <2>4, ListVisit
<1> QED BY <1>3, <1>4

\* A file to match: it has no command yet.
LEMMA ListPlanFile ==
  ASSUME IInv, ShapeInv, ListInv, NEW p \in todo, PlanFile(p)
  PROVE  ListInv'
<1>1. /\ Visit(p) /\ pc' = "match" /\ cmds' = cmds /\ scan'.file = p /\ scan'.start = 0
      /\ pc = "plan" /\ todo' = todo \ {p} /\ world' = world
      /\ IsFile(src, p) /\ IsFile(dst, Located(p))
  BY DEF PlanFile, Visit, execVars
<1>2. dst = world.dst /\ Located(p) = Place(p)
  BY <1>1, VisitFacts DEF Place
<1>3. /\ \A d \in All(cmds) : Len(d.path) <= Len(p) /\ d.path # p
      /\ \A q \in todo \ {p} : Len(p) <= Len(q)
  BY <1>1, VisitOrder
<1>4. Listed(cmds, todo, {})
  BY <1>1 DEF ListInv, Unfinished
<1>5. Gives(All(cmds), p)
  BY <1>1 DEF Gives, IsFile, IsDir
<1>6. Listed(cmds, todo \ {p}, {})
  <2>1. \A q \in SrcNodes \ (todo \ {p}) : Gives(All(cmds), q)
    BY <1>4, <1>5 DEF Listed
  <2> QED BY <1>4, <2>1 DEF Listed
<1>7. Listed(cmds', todo', Unfinished(pc', scan'))
  BY <1>1, <1>6 DEF Unfinished
<1>8. ScanListed(cmds', todo', pc', scan')
  BY <1>1, <1>2, <1>3 DEF ScanListed
<1> QED BY <1>1, <1>7, <1>8, ListNext

\* The window moves.
LEMMA ListMatchLoop ==
  ASSUME IInv, ListInv, MatchBlock \/ MatchRoll
  PROVE  ListInv'
<1>1. /\ pc = "match" /\ pc' = "match" /\ world' = world /\ todo' = todo /\ cmds' = cmds
  BY DEF MatchBlock, MatchRoll
<1>2. scan \in ScanState
  BY <1>1 DEF IInv, TypeOK
<1>3. scan'.file = scan.file /\ scan'.start = scan.start
  BY <1>2 DEF MatchBlock, MatchRoll, ScanState
<1>4. Listed(cmds', todo', Unfinished(pc', scan'))
  BY <1>1 DEF ListInv, Unfinished
<1>5. ScanListed(cmds', todo', pc', scan')
  BY <1>1, <1>3 DEF ListInv, ScanListed
<1> QED BY <1>1, <1>4, <1>5, ListNext

\* The last command of two lists.
LEMMA LastConcat ==
  ASSUME NEW c \in Seq(Command), NEW more \in Seq(Command), NEW p,
         Len(more) = 0 => c[Len(c)].path = p,
         \A i \in 1..Len(more) : more[i].path = p
  PROVE  (c \o more)[Len(c \o more)].path = p
<1> DEFINE n == Len(c)
           m == Len(more)
           all == c \o more
<1>1. /\ n \in Nat /\ m \in Nat /\ DOMAIN more = 1..m /\ Len(all) = n + m
      /\ \A j \in 1..m : j + n \in 1..(n + m) /\ all[j + n] = more[j]
  BY ConcatIndexes
<1>2. CASE m = 0
  <2>1. all = c
    <3>1. more = <<>>
      BY <1>2, EmptySeq
    <3> QED BY <3>1, ConcatEmptySeq
  <2> QED BY <1>2, <2>1
<1>3. CASE m # 0
  <2>1. \A i \in 1..m : more[i].path = p
    OBVIOUS
  <2> HIDE DEF n, m, all
  <2>2. m \in 1..m /\ m + n = n + m
    BY <1>1, <1>3
  <2>3. all[m + n].path = p
    BY <1>1, <2>1, <2>2
  <2>4. all[Len(all)].path = p
    BY <1>1, <2>2, <2>3
  <2> QED BY <2>4 DEF all
<1> QED BY <1>2, <1>3

\* The file that is scanned, and where the list is.
LEMMA ScanPlace ==
  ASSUME IInv, ListInv, pc \in {"match", "ranges"}
  PROVE  /\ scan \in ScanState /\ scan.file \in SrcNodes /\ cmds \in Seq(Command)
         /\ Len(scan.file) \in Nat /\ scan.start \in Nat
         /\ IsFile(src, scan.file) /\ src[scan.file] \in Seq(Byte) /\ Len(src[scan.file]) \in Nat
         /\ IsFile(world.dst, Place(scan.file))
         /\ \A q \in todo : Len(scan.file) <= Len(q)
         /\ \A d \in All(cmds) : Len(d.path) <= Len(scan.file)
         /\ \A d \in All(cmds) : d.path = scan.file => pc = "ranges" /\ d.op \in Openers
<1>1. /\ scan \in ScanState /\ cmds \in Seq(Command) /\ IsWorld(world) /\ IsFile(src, scan.file)
  BY DEF IInv, TypeOK, PlanInv
<1>2. scan.file \in SrcNodes /\ scan.start \in Nat
  BY <1>1 DEF ScanState
<1>3. scan.file \in Path
  BY <1>1, <1>2, WorldFacts
<1>4. Len(scan.file) \in Nat
  BY <1>3, LenProperties DEF Path
<1>5. src[scan.file] \in Seq(Byte)
  BY <1>1, WorldFacts, FileBytes
<1>6. Len(src[scan.file]) \in Nat
  BY <1>5, LenProperties
<1>7. /\ IsFile(world.dst, Place(scan.file))
      /\ \A q \in todo : Len(scan.file) <= Len(q)
      /\ \A d \in All(cmds) : Len(d.path) <= Len(scan.file)
  BY DEF ListInv, ScanListed
<1>8. \A d \in All(cmds) : d.path = scan.file => pc = "ranges" /\ d.op \in Openers
  BY DEF ListInv, ScanListed
<1> QED BY <1>1, <1>2, <1>4, <1>5, <1>6, <1>7, <1>8

\* The list grows by commands for the file that is scanned.
LEMMA ListScan ==
  ASSUME IInv, ListInv, pc \in {"match", "ranges"}, world' = world, todo' = todo,
         NEW more \in Seq(Command), cmds' = cmds \o more, InSequence(more),
         \A d \in All(more) : /\ d.path = scan.file
                              /\ d.op \notin {"Transfer", "Keep", "Conflict"}
                              /\ d.op = "LocalTemp" => pc = "match"
                              /\ Informed(All(cmds) \cup All(more), d),
         \A i \in 1..Len(more) :
           more[i].op \in Needers =>
             IF i = 1 THEN pc = "ranges" ELSE more[i - 1].path = scan.file,
         \/ pc' = "ranges" /\ scan'.file = scan.file
         \/ pc' = "plan" /\ \E e \in All(more) : e.op = "ReplaceWithTemp"
  PROVE  Listed(cmds', todo', Unfinished(pc', scan'))
<1> DEFINE file == scan.file
<1>1. /\ Len(file) \in Nat /\ cmds \in Seq(Command)
      /\ \A q \in todo : Len(file) <= Len(q)
      /\ \A d \in All(cmds) : Len(d.path) <= Len(file)
      /\ \A d \in All(cmds) : d.path = file => pc = "ranges" /\ d.op \in Openers
  BY ScanPlace
<1>2. Listed(cmds, todo, Unfinished(pc, scan))
  BY DEF ListInv
<1>3. \A d \in All(cmds) : \A e \in All(more) : Precedes(d, e)
  <2> SUFFICES ASSUME NEW d \in All(cmds), NEW e \in All(more)  PROVE Precedes(d, e)
    OBVIOUS
  <2>1. e.path = file /\ Len(d.path) <= Len(e.path)
    BY <1>1
  <2>2. d.path = e.path => d.op \notin Enders /\ e.op \notin Starters
    BY <1>1, <2>1 DEF Enders, Starters, Openers
  <2> QED BY <2>1, <2>2 DEF Precedes
<1>4. \A i \in 1..Len(more) :
        more[i].op \in Needers =>
          IF i = 1 THEN Len(cmds) # 0 /\ cmds[Len(cmds)].path = more[i].path
          ELSE more[i - 1].path = more[i].path
  <2>1. \A i \in 1..Len(more) : more[i].path = file
    <3>1. DOMAIN more = 1..Len(more)
      BY LenProperties
    <3> QED BY <3>1 DEF All
  <2>2. pc = "ranges" => Len(cmds) # 0 /\ cmds[Len(cmds)].path = file
    BY DEF IInv, PlanInv, ListInv, ScanListed
  <2> QED BY <2>1, <2>2
<1>5. \A d \in All(more) : \A q \in todo : Len(d.path) <= Len(q)
  BY <1>1
<1>6. Completed(All(cmds) \cup All(more), Unfinished(pc', scan'))
  <2> DEFINE U == All(cmds) \cup All(more)
  <2> SUFFICES ASSUME NEW d \in U, d.op = "LocalTemp"
               PROVE  \/ d.path \in Unfinished(pc', scan')
                      \/ \E e \in U : e.op = "ReplaceWithTemp" /\ e.path = d.path
    BY DEF Completed
  <2>1. d.path = file \/ \E e \in U : e.op = "ReplaceWithTemp" /\ e.path = d.path
    <3>1. CASE d \in All(cmds)
      BY <1>2, <3>1 DEF Listed, Completed, Unfinished
    <3>2. CASE d \in All(more)
      BY <3>2
    <3> QED BY <3>1, <3>2
  <2>2. CASE d.path = file
    BY <2>2 DEF Unfinished
  <2> QED BY <2>1, <2>2
<1>7. \A p \in (todo \cap SrcNodes) \ todo : Gives(All(more), p)
  OBVIOUS
<1>8. \A d \in All(more) : Informed(All(cmds) \cup All(more), d)
  OBVIOUS
<1> HIDE DEF file
<1>9. Listed(cmds \o more, todo, Unfinished(pc', scan'))
  BY <1>1, <1>2, <1>3, <1>4, <1>5, <1>6, <1>7, <1>8, ListedConcat
<1> QED BY <1>9

\* The temporary file, and a copy of every block that was recognised.
LEMMA ListMatchDone ==
  ASSUME IInv, ListInv, MatchDone
  PROVE  ListInv'
<1> DEFINE file == scan.file
           n == Len(scan.matches)
<1>1. /\ pc = "match" /\ pc' = "ranges" /\ UNCHANGED <<world, todo, scan>>
  BY DEF MatchDone
<1>2. /\ scan \in ScanState /\ file \in SrcNodes /\ cmds \in Seq(Command) /\ Len(file) \in Nat
      /\ IsFile(world.dst, Place(file))
      /\ \A q \in todo : Len(file) <= Len(q)
      /\ \A d \in All(cmds) : Len(d.path) <= Len(file) /\ d.path # file
  BY <1>1, ScanPlace
<1>3. n \in Nat /\ DOMAIN scan.matches = 1..n
  BY <1>2, LenProperties DEF ScanState
<1>4. PICK more \in Seq(Command) :
        /\ cmds' = cmds \o more
        /\ more[1] = LocalTemp(file, Len(src[file]))
        /\ Len(more) = n + 1
        /\ \A i \in 1..n : more[i + 1] = CopyOf(scan.matches[i])
        /\ \A i \in 2..Len(more) : more[i].op = "LocalTempCopy"
        /\ \A i \in 1..Len(more) : /\ more[i].op \in {"LocalTemp", "LocalTempCopy"}
                                   /\ more[i].path = file
  BY MatchDoneCommands
<1> HIDE DEF n
<1>5. DOMAIN more = 1..(n + 1) /\ Len(more) # 0
  BY <1>3, <1>4, LenProperties
<1>6. \A d \in All(more) : /\ d.path = file /\ d.op \in {"LocalTemp", "LocalTempCopy"}
                           /\ d.op = "LocalTemp" => d.size = Len(src[file])
                           /\ d.op = "LocalTempCopy" =>
                                \E i \in 1..n : d = CopyOf(scan.matches[i])
  <2> SUFFICES ASSUME NEW j \in 1..(n + 1)
               PROVE  /\ more[j].path = file /\ more[j].op \in {"LocalTemp", "LocalTempCopy"}
                      /\ more[j].op = "LocalTemp" => more[j].size = Len(src[file])
                      /\ more[j].op = "LocalTempCopy" =>
                           \E i \in 1..n : more[j] = CopyOf(scan.matches[i])
    BY <1>5 DEF All
  <2>1. CASE j = 1
    <3>1. more[1].op = "LocalTemp" /\ more[1].path = file /\ more[1].size = Len(src[file])
      BY <1>4 DEF LocalTemp
    <3>2. more[j] = more[1]
      BY <2>1
    <3> QED BY <3>1, <3>2
  <2>2. CASE j # 1
    <3> DEFINE i == j - 1
    <3>1. i \in 1..n /\ j = i + 1 /\ j \in 2..Len(more)
      BY <1>3, <1>4, <2>2
    <3> HIDE DEF i
    <3>2. more[j] = CopyOf(scan.matches[i]) /\ more[j].op = "LocalTempCopy"
      BY <1>4, <3>1
    <3> QED BY <1>4, <1>5, <3>1, <3>2
  <2> QED BY <2>1, <2>2
<1>7. \A i \in 1..n : CopyOf(scan.matches[i]) \in All(more)
  <2> SUFFICES ASSUME NEW i \in 1..n  PROVE CopyOf(scan.matches[i]) \in All(more)
    OBVIOUS
  <2>1. i + 1 \in 1..(n + 1) /\ more[i + 1] = CopyOf(scan.matches[i])
    BY <1>3, <1>4
  <2> QED BY <1>5, <2>1 DEF All
<1>8. InSequence(more)
  <2> SUFFICES ASSUME NEW i \in 1..(n + 1), NEW j \in 1..(n + 1), i < j
               PROVE  Precedes(more[i], more[j])
    BY <1>5 DEF InSequence
  <2>1. j \in 2..Len(more) /\ i \in 1..Len(more)
    BY <1>3, <1>4
  <2>2. /\ more[i].path = file /\ more[j].path = file /\ more[j].op = "LocalTempCopy"
        /\ more[i].op \in {"LocalTemp", "LocalTempCopy"}
    BY <1>4, <1>5, <2>1
  <2> QED BY <1>2, <2>2 DEF Precedes, Enders, Starters
<1>9. \A i \in 1..Len(more) :
        more[i].op \in Needers =>
          IF i = 1 THEN pc = "ranges" ELSE more[i - 1].path = file
  <2>1. more[1].op = "LocalTemp"
    BY <1>4 DEF LocalTemp
  <2>2. ASSUME NEW i \in 1..Len(more), i # 1  PROVE more[i - 1].path = file
    <3>1. i - 1 \in 1..Len(more)
      BY <1>3, <1>4, <2>2
    <3> QED BY <1>4, <3>1
  <2> QED BY <2>1, <2>2 DEF Needers
<1>10. ASSUME NEW d \in All(more)  PROVE Informed(All(cmds) \cup All(more), d)
  <2>1. CASE d.op = "LocalTemp"
    BY <1>2, <1>6, <2>1 DEF Informed
  <2>2. CASE d.op = "LocalTempCopy"
    <3>1. PICK i \in 1..n : d = CopyOf(scan.matches[i])
      BY <1>6, <2>2
    <3> DEFINE left == Len(src[file]) - scan.matches[i].src
    <3>2. d = LocalTempCopy(file, scan.matches[i].src, scan.matches[i].dst,
                            IF left > BlockSize THEN BlockSize ELSE left)
      BY <3>1 DEF CopyOf
    <3>3. /\ d.path = file /\ d.from = scan.matches[i].src
          /\ d.length = IF left > BlockSize THEN BlockSize ELSE left
      BY <3>2 DEF LocalTempCopy
    <3>4. d.length = (IF Len(src[d.path]) - d.from > BlockSize THEN BlockSize
                      ELSE Len(src[d.path]) - d.from)
      BY <3>3
    <3> HIDE DEF left, file
    <3>5. IsFile(world.dst, Place(d.path))
      BY <1>2, <3>3
    <3> QED BY <2>2, <3>4, <3>5 DEF Informed
  <2> QED BY <1>6, <2>1, <2>2
<1>11. Listed(cmds', todo', Unfinished(pc', scan'))
  <2>1. \A d \in All(more) : /\ d.path = scan.file
                             /\ d.op \notin {"Transfer", "Keep", "Conflict"}
                             /\ d.op = "LocalTemp" => pc = "match"
                             /\ Informed(All(cmds) \cup All(more), d)
    BY <1>1, <1>6, <1>10
  <2> QED BY <1>1, <1>4, <1>8, <1>9, <2>1, ListScan
<1>12. ScanListed(cmds', todo', pc', scan')
  <2>1. All(cmds') = All(cmds) \cup All(more)
    BY <1>2, <1>4, AllConcat
  <2>2. cmds'[Len(cmds')].path = file
    BY <1>2, <1>4, <1>5, LastConcat
  <2>3. \A d \in All(cmds') : Len(d.path) <= Len(file)
    BY <1>2, <1>6, <2>1
  <2>4. \A d \in All(cmds') : d.path = file => d.op \in Openers
    BY <1>2, <1>6, <2>1 DEF Openers
  <2>5. \A k \in DOMAIN scan.matches :
          \E d \in All(cmds') : /\ d.op = "LocalTempCopy" /\ d.path = file
                                /\ d.to = scan.matches[k].dst
    <3> SUFFICES ASSUME NEW k \in 1..n
                 PROVE  \E d \in All(cmds') : /\ d.op = "LocalTempCopy" /\ d.path = file
                                              /\ d.to = scan.matches[k].dst
      BY <1>3
    <3> DEFINE d == CopyOf(scan.matches[k])
    <3>1. d \in All(cmds')
      BY <1>7, <2>1
    <3>2. d.op = "LocalTempCopy" /\ d.path = file /\ d.to = scan.matches[k].dst
      BY DEF CopyOf, LocalTempCopy
    <3> QED BY <3>1, <3>2
  <2>6. scan.start = 0
    BY <1>1 DEF ListInv, ScanListed
  <2>7. Covered(All(cmds'), file, scan.start)
    BY <2>6 DEF Covered
  <2> QED BY <1>1, <1>2, <2>2, <2>3, <2>4, <2>5, <2>7 DEF ScanListed
<1> QED BY <1>1, <1>11, <1>12, ListNext

\* What is fetched from the source up to `end`.
LEMMA FetchCommands ==
  ASSUME IInv, ListInv, pc = "ranges", NEW end \in Nat, NEW more, more = FetchTo(end)
  PROVE  /\ more \in Seq(Command) /\ Len(more) \in {0, 1}
         /\ \A d \in All(more) : /\ d.op = "SrcTempCopy" /\ d.path = scan.file
                                 /\ d.from = scan.start /\ d.to = scan.start
                                 /\ d.length = end - scan.start /\ d.length > 0
         /\ scan.start < end => All(more) # {}
         /\ InSequence(more)
<1> DEFINE c == SrcTempCopy(scan.file, scan.start, scan.start, end - scan.start)
<1>1. scan.file \in SrcNodes /\ scan.start \in Nat /\ end - scan.start \in Int
  BY ScanPlace
<1>2. /\ c \in Command
      /\ c.op = "SrcTempCopy" /\ c.path = scan.file /\ c.from = scan.start
      /\ c.to = scan.start /\ c.length = end - scan.start
  <2>1. c \in Command
    BY <1>1, CommandTypes
  <2> QED BY <2>1 DEF SrcTempCopy
<1>3. more = IF scan.start < end THEN <<c>> ELSE <<>>
  BY DEF FetchTo
<1>4. more \in Seq(Command) /\ Len(more) \in {0, 1}
  BY FetchToFacts
<1> HIDE DEF c
<1>5. CASE scan.start < end
  <2>1. All(more) = {c} /\ InSequence(more)
    BY <1>2, <1>3, <1>5, OneCommand
  <2>2. c.length > 0
    BY <1>1, <1>2, <1>5
  <2> QED BY <1>2, <1>4, <2>1, <2>2
<1>6. CASE ~(scan.start < end)
  <2>1. more = <<>>
    BY <1>3, <1>6
  <2>2. DOMAIN more = {}
    BY <2>1
  <2>3. All(more) = {} /\ InSequence(more)
    BY <2>2 DEF All, InSequence
  <2> QED BY <1>4, <1>6, <2>3
<1> QED BY <1>5, <1>6

\* With what is fetched, all the bytes before `end` are copied.
LEMMA CoveredTo ==
  ASSUME IInv, ListInv, pc = "ranges", NEW end \in Nat, NEW T, All(FetchTo(end)) \subseteq T,
         All(cmds) \subseteq T
  PROVE  Covered(T, scan.file, end)
<1> DEFINE more == FetchTo(end)
<1>1. /\ \A d \in All(more) : /\ d.op = "SrcTempCopy" /\ d.path = scan.file
                              /\ d.to = scan.start /\ d.length = end - scan.start
      /\ scan.start < end => All(more) # {}
  BY FetchCommands
<1>2. Covered(All(cmds), scan.file, scan.start) /\ scan.start \in Nat
  BY ScanPlace DEF ListInv, ScanListed
<1>3. All(more) \subseteq T
  OBVIOUS
<1> HIDE DEF more
<1> SUFFICES ASSUME NEW x \in Nat, x < end, x < Len(src[scan.file])
             PROVE  \E d \in T : d.path = scan.file /\ Covers(d, x)
  BY DEF Covered
<1>4. CASE x < scan.start
  BY <1>2, <1>4 DEF Covered
<1>5. CASE ~(x < scan.start)
  <2>1. scan.start < end
    BY <1>2, <1>5
  <2>2. PICK d \in All(more) : TRUE
    BY <1>1, <2>1
  <2>3. d.op = "SrcTempCopy" /\ d.to = scan.start /\ d.length = end - scan.start
    BY <1>1
  <2>4. d.to <= x /\ x < d.to + d.length
    BY <1>2, <1>5, <2>3
  <2>5. Covers(d, x)
    BY <2>3, <2>4 DEF Covers
  <2> QED BY <1>1, <1>3, <2>5
<1> QED BY <1>4, <1>5

\* The range before a block that was recognised.
LEMMA ListPlanRange ==
  ASSUME IInv, ListInv, PlanRange
  PROVE  ListInv'
<1> DEFINE file == scan.file
           end  == scan.matches[scan.range].dst
           more == FetchTo(end)
           U    == All(cmds) \cup All(more)
<1>1. /\ pc = "ranges" /\ pc' = "ranges" /\ UNCHANGED <<world, todo>>
      /\ cmds' = cmds \o more /\ scan.range \in DOMAIN scan.matches
  BY DEF PlanRange
<1>2. /\ scan \in ScanState /\ file \in SrcNodes /\ cmds \in Seq(Command) /\ Len(file) \in Nat
      /\ IsFile(world.dst, Place(file))
      /\ \A q \in todo : Len(file) <= Len(q)
      /\ \A d \in All(cmds) : Len(d.path) <= Len(file)
      /\ \A d \in All(cmds) : d.path = file => d.op \in Openers
  BY <1>1, ScanPlace
<1>3. /\ scan'.file = file /\ scan'.matches = scan.matches /\ scan'.start = end + BlockSize
  BY <1>2 DEF PlanRange, ScanState
<1>4. end \in Nat
  <2>1. scan.matches \in Seq([src : Nat, dst : Nat])
    BY <1>2 DEF ScanState
  <2>2. scan.range \in 1..Len(scan.matches)
    BY <1>1, <2>1, LenProperties
  <2>3. scan.matches[scan.range] \in [src : Nat, dst : Nat]
    BY <2>1, <2>2, ElementOfSeq
  <2> QED BY <2>3
<1>5. PICK e \in All(cmds) : e.op = "LocalTempCopy" /\ e.path = file /\ e.to = end
  BY <1>1 DEF ListInv, ScanListed
<1>6. /\ \A k \in DOMAIN scan.matches :
           \E d \in All(cmds) : /\ d.op = "LocalTempCopy" /\ d.path = file
                                /\ d.to = scan.matches[k].dst
      /\ cmds[Len(cmds)].path = file /\ scan.start \in Nat
  BY <1>1, ScanPlace DEF ListInv, ScanListed
<1> HIDE DEF end
<1>7. /\ more \in Seq(Command) /\ Len(more) \in {0, 1}
      /\ \A d \in All(more) : /\ d.op = "SrcTempCopy" /\ d.path = file
                              /\ d.from = scan.start /\ d.to = scan.start
                              /\ d.length = end - scan.start /\ d.length > 0
      /\ InSequence(more)
  BY <1>1, <1>4, FetchCommands
<1>8. Covered(U, file, end)
  BY <1>1, <1>4, CoveredTo
<1> HIDE DEF more
<1>9. ASSUME NEW d \in All(more)  PROVE Informed(U, d)
  <2>1. /\ d.op = "SrcTempCopy" /\ d.path = file /\ d.from = d.to /\ d.length > 0
        /\ e.to = d.from + d.length
    BY <1>4, <1>5, <1>6, <1>7
  <2>2. e \in U
    OBVIOUS
  <2> HIDE DEF U, file
  <2> QED BY <1>2, <1>5, <2>1, <2>2 DEF Informed
<1>10. Listed(cmds', todo', Unfinished(pc', scan'))
  <2>1. \A d \in All(more) : /\ d.path = scan.file
                             /\ d.op \notin {"Transfer", "Keep", "Conflict"}
                             /\ d.op = "LocalTemp" => pc = "match"
                             /\ Informed(All(cmds) \cup All(more), d)
    BY <1>7, <1>9
  <2>2. \A i \in 1..Len(more) :
          more[i].op \in Needers =>
            IF i = 1 THEN pc = "ranges" ELSE more[i - 1].path = scan.file
    BY <1>1, <1>7
  <2> QED BY <1>1, <1>3, <1>7, <2>1, <2>2, ListScan
<1>11. ScanListed(cmds', todo', pc', scan')
  <2>1. All(cmds') = U
    BY <1>1, <1>2, <1>7, AllConcat
  <2>2. cmds'[Len(cmds')].path = file
    <3>1. \A i \in 1..Len(more) : more[i].path = file
      <4>1. DOMAIN more = 1..Len(more)
        BY <1>7, LenProperties
      <4> QED BY <1>7, <4>1 DEF All
    <3> QED BY <1>1, <1>2, <1>6, <1>7, <3>1, LastConcat
  <2>3. \A d \in U : Len(d.path) <= Len(file)
    BY <1>2, <1>7
  <2>4. \A d \in U : d.path = file => d.op \in Openers
    BY <1>2, <1>7 DEF Openers
  <2>5. Covered(U, file, end + BlockSize)
    <3> SUFFICES ASSUME NEW x \in Nat, x < end + BlockSize, x < Len(src[file])
                 PROVE  \E d \in U : d.path = file /\ Covers(d, x)
      BY DEF Covered
    <3>1. CASE x < end
      BY <1>8, <3>1 DEF Covered
    <3>2. CASE ~(x < end)
      <4>1. Covers(e, x)
        BY <1>4, <1>5, <3>2 DEF Covers
      <4> QED BY <1>5, <4>1
    <3> QED BY <3>1, <3>2
  <2>6. \A k \in DOMAIN scan'.matches :
          \E d \in U : /\ d.op = "LocalTempCopy" /\ d.path = file
                       /\ d.to = scan'.matches[k].dst
    BY <1>3, <1>6
  <2> HIDE DEF U, file
  <2> QED BY <1>1, <1>2, <1>3, <2>1, <2>2, <2>3, <2>4, <2>5, <2>6 DEF ScanListed
<1> QED BY <1>1, <1>10, <1>11, ListNext

\* Three lists, one after the other.
LEMMA ThreeLists ==
  ASSUME NEW c \in Seq(Command), NEW d \in Seq(Command), NEW e \in Seq(Command)
  PROVE  (c \o d) \o e = c \o (d \o e)
BY ConcatAssociative

\* The rest of the file, and the end of its commands.
LEMMA ListPlanFileDone ==
  ASSUME IInv, ListInv, PlanFileDone
  PROVE  ListInv'
<1> DEFINE file == scan.file
           size == Len(src[file])
           gap  == FetchTo(size)
           c    == ReplaceWithTemp(file)
           last == <<c>>
           more == gap \o last
           U    == All(cmds) \cup All(more)
<1>1. /\ pc = "ranges" /\ pc' = "plan" /\ UNCHANGED <<world, todo>>
      /\ cmds' = (cmds \o gap) \o last
  BY DEF PlanFileDone
<1>2. /\ file \in SrcNodes /\ cmds \in Seq(Command) /\ Len(file) \in Nat
      /\ size \in Nat /\ scan.start \in Nat /\ IsFile(world.dst, Place(file))
  BY <1>1, ScanPlace
<1>3. c \in Command /\ c.op = "ReplaceWithTemp" /\ c.path = file
  BY <1>2, CommandTypes DEF ReplaceWithTemp
<1>4. /\ gap \in Seq(Command) /\ Len(gap) \in {0, 1}
      /\ \A d \in All(gap) : /\ d.op = "SrcTempCopy" /\ d.path = file
                             /\ d.from = scan.start /\ d.to = scan.start
                             /\ d.length = size - scan.start /\ d.length > 0
      /\ InSequence(gap)
  BY <1>1, <1>2, FetchCommands
<1>5. \A T : All(gap) \subseteq T /\ All(cmds) \subseteq T => Covered(T, file, size)
  BY <1>1, <1>2, CoveredTo
<1> HIDE DEF gap, c, size
<1>6. /\ last \in Seq(Command) /\ All(last) = {c} /\ InSequence(last)
  BY <1>3, OneCommand
<1>7. Len(last) = 1 /\ last[1] = c
  OBVIOUS
<1> HIDE DEF last
<1>8. cmds' = cmds \o more
  <2>1. cmds \in Seq(Command) /\ gap \in Seq(Command) /\ last \in Seq(Command)
    BY <1>2, <1>4, <1>6
  <2>2. (cmds \o gap) \o last = cmds \o (gap \o last)
    BY <2>1, ThreeLists
  <2> QED BY <1>1, <2>2
<1>9. more \in Seq(Command) /\ All(more) = All(gap) \cup {c}
  BY <1>4, <1>6, AllConcat, ConcatProperties
<1>10. InSequence(more)
  <2>1. \A d \in All(gap) : \A e \in All(last) : Precedes(d, e)
    BY <1>2, <1>3, <1>4, <1>6 DEF Precedes, Enders, Starters
  <2> QED BY <1>4, <1>6, <2>1, InSequenceConcat
<1> HIDE DEF more
<1>11. Covered(U, file, size)
  BY <1>5, <1>9
<1>12. ASSUME NEW d \in All(more)  PROVE Informed(U, d)
  <2>1. CASE d = c
    BY <1>2, <1>3, <1>11, <2>1 DEF Informed, size
  <2>2. CASE d \in All(gap)
    <3>1. /\ d.op = "SrcTempCopy" /\ d.path = file /\ d.from = d.to /\ d.length > 0
          /\ d.from + d.length <= size
      BY <1>2, <1>4, <2>2
    <3> QED BY <1>2, <3>1 DEF Informed, size
  <2> QED BY <1>9, <2>1, <2>2
<1>13. Listed(cmds', todo', Unfinished(pc', scan'))
  <2>1. \A d \in All(more) : /\ d.path = scan.file
                             /\ d.op \notin {"Transfer", "Keep", "Conflict"}
                             /\ d.op = "LocalTemp" => pc = "match"
                             /\ Informed(All(cmds) \cup All(more), d)
    BY <1>3, <1>4, <1>9, <1>12
  <2>2. \A i \in 1..Len(more) :
          more[i].op \in Needers =>
            IF i = 1 THEN pc = "ranges" ELSE more[i - 1].path = scan.file
    <3> SUFFICES ASSUME NEW i \in 1..Len(more), i # 1  PROVE more[i - 1].path = scan.file
      BY <1>1
    <3>1. DOMAIN more = 1..Len(more) /\ Len(more) \in Nat
      BY <1>9, LenProperties
    <3>2. i - 1 \in DOMAIN more
      BY <3>1
    <3>3. more[i - 1] \in All(more)
      BY <3>2 DEF All
    <3> QED BY <2>1, <3>3
  <2>3. \E e \in All(more) : e.op = "ReplaceWithTemp"
    BY <1>3, <1>9
  <2> QED BY <1>1, <1>8, <1>9, <1>10, <2>1, <2>2, <2>3, ListScan
<1>14. ScanListed(cmds', todo', pc', scan')
  BY <1>1 DEF ScanListed
<1> QED BY <1>1, <1>13, <1>14, ListNext

\* A step that does not plan.
LEMMA ListSame ==
  ASSUME ListInv, UNCHANGED <<world, todo, cmds, scan>>,
         pc' = pc \/ {pc, pc'} \cap {"match", "ranges"} = {}
  PROVE  ListInv'
<1>1. /\ Listed(cmds, todo, Unfinished(pc, scan)) /\ ScanListed(cmds, todo, pc, scan)
      /\ world' = world /\ todo' = todo /\ cmds' = cmds /\ scan' = scan
  BY DEF ListInv
<1>2. CASE pc' = pc
  <2>1. Listed(cmds', todo', Unfinished(pc', scan')) /\ ScanListed(cmds', todo', pc', scan')
    BY <1>1, <1>2
  <2> QED BY <1>1, <2>1, ListNext
<1>3. CASE {pc, pc'} \cap {"match", "ranges"} = {}
  <2>1. Unfinished(pc, scan) = {} /\ Unfinished(pc', scan') = {}
    BY <1>3 DEF Unfinished
  <2>2. Listed(cmds', todo', Unfinished(pc', scan'))
    BY <1>1, <2>1
  <2>3. ScanListed(cmds', todo', pc', scan')
    BY <1>3 DEF ScanListed
  <2> QED BY <1>1, <2>2, <2>3, ListNext
<1> QED BY <1>2, <1>3

\* Every step keeps what is known of the list.
LEMMA ListStep == IInv /\ ShapeInv /\ ListInv /\ [Next]_vars => ListInv'
<1> SUFFICES ASSUME IInv, ShapeInv, ListInv, [Next]_vars  PROVE ListInv'
  OBVIOUS
<1>1. CASE \E p \in todo : \/ PlanMatched(p) \/ PlanFileConflict(p) \/ PlanDownload(p)
                           \/ PlanFile(p) \/ PlanDir(p)
  BY <1>1, ListPlanMatched, ListPlanFileConflict, ListPlanDownload, ListPlanFile, ListPlanDir
<1>2. CASE MatchBlock \/ MatchRoll
  BY <1>2, ListMatchLoop
<1>3. CASE MatchDone \/ PlanRange \/ PlanFileDone
  BY <1>3, ListMatchDone, ListPlanRange, ListPlanFileDone
<1>4. CASE PlanDone
  <2>1. UNCHANGED <<world, todo, cmds, scan>> /\ pc = "plan" /\ pc' = "exec"
    BY <1>4 DEF PlanDone, planVars
  <2> QED BY <2>1, ListSame
<1>5. CASE Exec
  <2>1. /\ UNCHANGED <<world, todo, cmds, scan>>
        /\ pc = "exec" /\ pc' \in {"exec", "failed", "done"}
    BY <1>5 DEF Exec, ExecTransfer, ExecKeep, ExecConflict, ExecConflictFails, ExecLocalTemp,
       ExecLocalTempCopy, ExecSrcTempCopy, ExecReplaceWithTemp, ExecSrcFileDownload,
       ExecDone, Take, Finish, planVars
  <2> QED BY <2>1, ListSame
<1>6. CASE \E p \in unmatched : Clean(p)
  <2>1. /\ UNCHANGED <<world, todo, cmds, scan>>
        /\ pc \in {"done", "clean"} /\ pc' = "clean"
    BY <1>6 DEF Clean
  <2> QED BY <2>1, ListSame
<1>7. CASE UNCHANGED vars
  <2>1. UNCHANGED <<world, todo, cmds, scan>> /\ pc' = pc
    BY <1>7 DEF vars
  <2> QED BY <2>1, ListSame
<1> QED BY <1>1, <1>2, <1>3, <1>4, <1>5, <1>6, <1>7 DEF Next, Planner

-----------------------------------------------------------------------------
(* The execution of a list that is fit to run.                             *)

Changers == {"Transfer", "SrcFileDownload", "ReplaceWithTemp"}

\* The commands that have been taken.
Past == 1..(next - 1)

\* The file q has been moved away for good or replaced.
Spent(q) ==
  \E i \in Past :
    \/ cmds[i].op = "Transfer" /\ cmds[i].from = q /\ Uses(q) = {}
    \/ cmds[i].op \in Changers /\ Place(cmds[i].path) = q

Holds(t, p, e) == IsFile(t, p) /\ t[p] = e

\* A file that is not spent is where Located says.
IntactInv ==
  \A q \in DstNodes :
    IsFile(world.dst, q) /\ ~Spent(q) => Holds(dst, Located(q), world.dst[q])

\* A file that a command made has the source's contents.
MadeInv ==
  \A i \in Past :
    cmds[i].op \in Changers => Holds(dst, Place(cmds[i].path), src[cmds[i].path])

\* No two files are in one place.
DistinctInv ==
  \A q, r \in DstNodes :
    /\ IsFile(world.dst, q) /\ ~Spent(q)
    /\ IsFile(world.dst, r) /\ ~Spent(r)
    /\ Located(q) = Located(r)
    => q = r

\* The directories are where they were.
DirsInv == \A q \in DOMAIN world.dst : IsDir(world.dst, q) => IsDir(dst, q)

\* Every conflict so far has been relocated.
MovedInv == \A i \in Past : cmds[i].op = "Conflict" => cmds[i].path \in DOMAIN relocs

\* Where what is in the destination comes from.
Origin(p, e) ==
  IF e = Dir THEN IsDir(world.dst, p) \/ IsDir(src, p)
  ELSE \/ TempNamed(p)
       \/ IsFile(world.dst, p) /\ p \notin DOMAIN relocs
       \/ \E s \in SrcFiles : Place(s) = p

EntriesInv == \A p \in DOMAIN dst : Origin(p, dst[p])

\* The bytes of the source that the command d has copied are there.
Copied(bytes, d) ==
  \A x \in Nat : d.to <= x /\ x < d.to + d.length => bytes[x + 1] = src[d.path][x + 1]

\* In the directory of p, with an invented name.
Beside(f, p) == \E n \in TempName : f = Append(ParentDir(p), n)

\* The temporary file for p is as long as the source's, and has its bytes wherever a command
\* has copied to.  What the copies read is the destination's file as it was.
Written(p) ==
  /\ temp.local = world.dst[Place(p)]
  /\ Beside(temp.file, Place(p))
  /\ IsFile(dst, temp.file) /\ Len(dst[temp.file]) = Len(src[p])
  /\ \A r \in DstNodes : IsFile(world.dst, r) /\ Located(r) = temp.file => Spent(r)
  /\ \A i \in Past :
       cmds[i].path = p /\ cmds[i].op \in Copies => Copied(dst[temp.file], cmds[i])

WrittenInv == Open => Written(cmds[next - 1].path)

RunInv ==
  /\ IntactInv /\ DirsInv /\ MadeInv /\ DistinctInv /\ MovedInv /\ EntriesInv
  /\ WrittenInv

\* Nothing of what was moved away is left, and Clean knows what is not the source's.
CleanInv ==
  /\ \A q \in DOMAIN dst : Apart(q, relocs)
  /\ world.dstRoot = <<>> => Synced /\ Files(dst) \subseteq SrcFiles \cup unmatched

FitInv ==
  Planned /\ FitToRun =>
    /\ pc # "failed"
    /\ pc = "exec" => RunInv
    /\ pc \in {"done", "clean"} => CleanInv
    /\ pc = "done" => Synced

-----------------------------------------------------------------------------
(* What is known while a list that is fit to run is executed.              *)

Ready == FullInv /\ ListInv /\ FitToRun /\ RunInv /\ pc = "exec"

\* The parts of FullInv.
LEMMA ReadyParts ==
  ASSUME Ready
  PROVE  /\ IInv /\ RefsExact /\ CoverInv /\ ShapeInv /\ LitterInv /\ GuardInv
         /\ IsWorld(world) /\ IsTree(dst) /\ InDirs(dst) /\ RelocsInv
         /\ cmds \in Seq(Command) /\ DOMAIN cmds = 1..Len(cmds) /\ Len(cmds) \in Nat
         /\ next \in 1..(Len(cmds) + 1) /\ pc = "exec"
BY LenProperties DEF Ready, FullInv, IInv, TypeOK, LitterInv

\* The complete list.
LEMMA ReadyLists ==
  ASSUME Ready
  PROVE  /\ InSequence(cmds) /\ Chained(cmds) /\ Completed(All(cmds), {})
         /\ \A d \in All(cmds) : Informed(All(cmds), d)
         /\ \A p \in SrcNodes : Gives(All(cmds), p)
<1>1. todo = {}
  BY ReadyParts DEF CoverInv, Planned
<1>2. Listed(cmds, {}, {})
  BY <1>1, ReadyParts DEF Ready, ListInv, Unfinished
<1> QED BY <1>2 DEF Listed

\* The places of nodes.
LEMMA Places ==
  ASSUME IsWorld(world)
  PROVE  /\ \A q \in DstNodes : Place(q) = q
         /\ \A x, y \in SrcNodes : Place(x) = Place(y) => x = y
         /\ \A x \in SrcNodes : Place(x) \in Path /\ ~TempNamed(Place(x))
         /\ world.dstRoot = <<>> => /\ \A x : Place(x) = x
                                    /\ SrcNodes = DOMAIN src /\ DstNodes = DOMAIN world.dst
         /\ world.dstRoot # <<>> => /\ \A x : Place(x) = world.dstRoot
                                    /\ DstNodes = {world.dstRoot} /\ IsFile(world.dst, world.dstRoot)
<1>1. IsWorld(world)
  BY WorldsAssumption
<1>2. /\ IsTree(src) /\ IsTree(world.dst) /\ SrcNodes \subseteq Path /\ world.dstRoot \in Path
      /\ \A x \in SrcNodes : ~TempNamed(x)
      /\ ~TempNamed(world.dstRoot)
  BY WorldFacts, StoreNames
<1>3. \A t : IsTree(t) => Under(t, <<>>) = DOMAIN t
  <2> SUFFICES ASSUME NEW t, IsTree(t), NEW q \in DOMAIN t  PROVE IsPrefix(<<>>, q)
    BY DEF Under
  <2>1. q \in Seq(Name) /\ Len(q) \in Nat
    BY LenProperties DEF IsTree, Path
  <2> DEFINE e == <<>>
  <2>2. e \in Seq(Name) /\ Len(e) = 0
    BY EmptySeq
  <2> HIDE DEF e
  <2>3. IsPrefix(e, q)
    <3>1. Len(e) <= Len(q) /\ \A i \in 1..Len(e) : e[i] = q[i]
      BY <2>1, <2>2
    <3> QED BY <2>1, <2>2, <3>1, PrefixElements
  <2> QED BY <2>3 DEF e
<1>4. CASE world.dstRoot = <<>>
  <2>1. world.srcRoot = <<>>
    BY <1>1, <1>4 DEF IsWorld
  <2>2. SrcNodes = DOMAIN src /\ DstNodes = DOMAIN world.dst
    BY <1>2, <1>3, <1>4, <2>1 DEF SrcNodes, DstNodes, src
  <2>3. \A x : Place(x) = x
    BY <1>4 DEF Place, Resolve
  <2> QED BY <1>2, <1>4, <2>2, <2>3
<1>5. CASE world.dstRoot # <<>>
  <2>1. world.srcRoot # <<>> /\ IsFile(src, world.srcRoot) /\ IsFile(world.dst, world.dstRoot)
    BY <1>1, <1>5 DEF IsWorld, IsRoot, src
  <2>2. \A x : Place(x) = world.dstRoot
    BY <1>5 DEF Place, Resolve
  <2>3. InDirs(src) /\ InDirs(world.dst)
    BY <1>1 DEF IsWorld, IsStore, src
  <2>4. \A t, p : IsTree(t) /\ InDirs(t) /\ IsFile(t, p) => Under(t, p) = {p}
    <3> SUFFICES ASSUME NEW t, IsTree(t), InDirs(t), NEW p, IsFile(t, p)  PROVE Under(t, p) = {p}
      OBVIOUS
    <3>1. p \in Path /\ ~IsDir(t, p) /\ p \in DOMAIN t
      BY DEF IsTree, IsFile, IsDir, Exists
    <3>2. Under(t, p) \subseteq {p}
      BY <3>1, NothingBelow
    <3>3. p \in Under(t, p)
      BY <3>1, PrefixReflexive DEF Under, Path
    <3> QED BY <3>2, <3>3
  <2>5. SrcNodes = {world.srcRoot} /\ DstNodes = {world.dstRoot}
    BY <1>2, <2>1, <2>3, <2>4 DEF SrcNodes, DstNodes, src
  <2> QED BY <1>2, <1>5, <2>1, <2>2, <2>5
<1> QED BY <1>4, <1>5

\* Where a node of the destination is.
LEMMA LocatedNode ==
  ASSUME IInv, RelocsInv, NEW q \in DstNodes
  PROVE  /\ q \in Path /\ Located(q) \in Path
         /\ q \notin DOMAIN relocs => Located(q) = q
         /\ q \in DOMAIN relocs => Located(q) = relocs[q] /\ TempNamed(Located(q))
<1>1. IsWorld(world)
  BY DEF IInv, TypeOK
<1>2. q \in Path /\ Place(q) = q
  BY <1>1, WorldFacts, Places
<1>3. q \notin DOMAIN relocs => Located(q) = q
  BY <1>2 DEF Located, Place, Resolve
<1>4. Located(q) \in Path /\ (q \in DOMAIN relocs => TempNamed(Located(q)))
  BY LocatedFacts
<1>5. q \in DOMAIN relocs => Located(q) = relocs[q]
  BY DEF RelocsInv, Located, Resolve
<1> QED BY <1>2, <1>3, <1>4, <1>5

\* A command is apt, and the planner was informed.
LEMMA CommandKnown ==
  ASSUME Ready, NEW i \in DOMAIN cmds
  PROVE  /\ cmds[i] \in Command /\ cmds[i] \in All(cmds) /\ cmds[i].path \in SrcNodes
         /\ Apt(cmds[i]) /\ Informed(All(cmds), cmds[i])
<1>1. cmds[i] \in Command /\ cmds[i] \in All(cmds)
  BY ReadyParts, ElementOfSeq DEF All
<1>2. cmds[i].path \in SrcNodes
  BY <1>1, CommandFields
<1>3. Apt(cmds[i])
  BY ReadyParts DEF ShapeInv, Orderly
<1> QED BY <1>1, <1>2, <1>3, ReadyLists

\* A match of a file.
LEMMA SameFiles ==
  ASSUME NEW t, NEW p, NEW u, NEW q, SameStrong(t, p, u, q), IsFile(t, p), IsFile(u, q)
  PROVE  t[p] = u[q]
<1>1. ~IsDir(t, p)
  BY DEF IsFile, IsDir
<1> QED BY <1>1 DEF SameStrong

\* A match has what it is a match for.
LEMMA MatchKnown ==
  ASSUME NEW p, NEW q \in Match(p)
  PROVE  /\ q \in DstNodes /\ (IsFile(src, p) <=> IsFile(world.dst, q))
         /\ IsFile(src, p) => src[p] = world.dst[q]
<1>1. q \in StrongMatch(world.repo, world.dst, world.dstRoot, src, p)
  BY DEF Match
<1>2. q \in DstNodes /\ (IsFile(src, p) <=> IsFile(world.dst, q))
  BY MatchNodes DEF Match, IsFile
<1>3. SameStrong(src, p, world.dst, q)
  BY <1>1 DEF StrongMatch, Found, LastAdded, FirstRow
<1>4. ASSUME IsFile(src, p)  PROVE src[p] = world.dst[q]
  BY <1>2, <1>3, <1>4, SameFiles
<1> QED BY <1>2, <1>4

\* A transfer is of a file with the source's contents.
LEMMA TransferKnown ==
  ASSUME Ready, NEW i \in DOMAIN cmds, cmds[i].op = "Transfer"
  PROVE  /\ world.dstRoot = <<>> /\ cmds[i].from \in DstNodes /\ cmds[i].from # cmds[i].path
         /\ IsFile(world.dst, cmds[i].from) /\ IsFile(src, cmds[i].path)
         /\ src[cmds[i].path] = world.dst[cmds[i].from]
         /\ ~IsDir(world.dst, cmds[i].path)
<1> DEFINE q == cmds[i].from
           p == cmds[i].path
<1>1. q \in Match(p) /\ q # p
  BY CommandKnown DEF Apt
<1>2. world.dstRoot = <<>> /\ IsFile(world.dst, q) /\ ~IsDir(world.dst, p)
  BY DEF Ready, FitToRun, TransfersFiles, OpsOf
<1> QED BY <1>1, <1>2, MatchKnown

\* A kept file has the source's contents.
LEMMA KeepKnown ==
  ASSUME Ready, NEW i \in DOMAIN cmds, cmds[i].op = "Keep"
  PROVE  /\ cmds[i].path \in DstNodes
         /\ IsFile(src, cmds[i].path) <=> IsFile(world.dst, cmds[i].path)
         /\ IsFile(src, cmds[i].path) => src[cmds[i].path] = world.dst[cmds[i].path]
<1>1. cmds[i].path \in Match(cmds[i].path)
  BY CommandKnown DEF Apt
<1> QED BY <1>1, MatchKnown

\* What is made is a file.
LEMMA ChangerKnown ==
  ASSUME Ready, NEW i \in DOMAIN cmds, cmds[i].op \in Changers
  PROVE  IsFile(src, cmds[i].path) /\ cmds[i].path \in SrcNodes /\ cmds[i].path \in SrcFiles
<1>1. IsFile(src, cmds[i].path)
  <2>1. CASE cmds[i].op = "Transfer"
    BY <2>1, TransferKnown
  <2>2. CASE cmds[i].op # "Transfer"
    BY <2>2, CommandKnown DEF Apt, Changers
  <2> QED BY <2>1, <2>2
<1> QED BY <1>1, CommandKnown DEF SrcFiles

\* A conflict is a file of the destination where the source has a directory.
LEMMA ConflictKnown ==
  ASSUME Ready, NEW i \in DOMAIN cmds, cmds[i].op = "Conflict"
  PROVE  /\ world.dstRoot = <<>> /\ cmds[i].absolute
         /\ IsDir(src, cmds[i].path) /\ IsFile(world.dst, cmds[i].path)
         /\ cmds[i].path \in DstNodes
<1>1. world.dstRoot = <<>> /\ cmds[i].absolute
  BY DEF Ready, FitToRun, ConflictsAreFiles, OpsOf
<1>2. IsDir(src, cmds[i].path) /\ IsFile(world.dst, cmds[i].path)
  BY <1>1, CommandKnown DEF Apt, Resolve
<1> QED BY <1>1, <1>2, ReadyParts, Places DEF IsFile, Exists

\* A directory of the source has such a conflict where the destination has a file.
LEMMA GivesConflict ==
  ASSUME Ready, NEW p \in SrcNodes, IsDir(src, p), IsFile(world.dst, p), world.dstRoot = <<>>
  PROVE  \E i \in DOMAIN cmds : cmds[i].op = "Conflict" /\ cmds[i].path = p
<1>1. IsFile(world.dst, Place(p)) /\ Gives(All(cmds), p)
  BY ReadyParts, ReadyLists, Places
<1>2. PICK i \in DOMAIN cmds : /\ cmds[i].path = p
                               /\ cmds[i].op \in {"Transfer", "Keep", "Conflict"}
  BY <1>1 DEF Gives, All
<1>3. ~IsFile(src, p)
  BY DEF IsFile, IsDir
<1>4. cmds[i].op # "Transfer"
  BY <1>2, <1>3, TransferKnown
<1>5. cmds[i].op # "Keep"
  BY <1>2, <1>3, KeepKnown
<1> QED BY <1>2, <1>4, <1>5

\* What has been taken, and what is next.
LEMMA PastKnown ==
  ASSUME Ready, NEW op, At(op)
  PROVE  /\ Past \subseteq DOMAIN cmds /\ next \in DOMAIN cmds /\ cmds[next].op = op
         /\ next \notin Past
         /\ \A i \in Past : i < next
         /\ \A i \in DOMAIN cmds : i \in Past \/ i = next \/ next < i
<1>1. /\ DOMAIN cmds = 1..Len(cmds) /\ Len(cmds) \in Nat
      /\ next \in 1..Len(cmds) /\ cmds[next].op = op
  BY ReadyParts, AtFacts
<1> QED BY <1>1 DEF Past

\* A command joins the past.
LEMMA PastGrows ==
  ASSUME Ready, NEW op, Take(op)
  PROVE  /\ Past \subseteq DOMAIN cmds /\ next \in DOMAIN cmds /\ cmds[next].op = op
         /\ Past' = Past \cup {next} /\ next \notin Past
         /\ \A i \in Past : i < next
         /\ \A i \in DOMAIN cmds : i \in Past \/ i = next \/ next < i
         /\ UNCHANGED <<world, cmds>>
<1>1. /\ cmds \in Seq(Command) /\ DOMAIN cmds = 1..Len(cmds) /\ Len(cmds) \in Nat
      /\ next \in 1..Len(cmds) /\ cmds[next].op = op
      /\ next' = next + 1 /\ UNCHANGED <<world, cmds>>
  BY ReadyParts, TakeFacts DEF Take
<1>2. Past' = 1..next
  BY <1>1 DEF Past
<1> QED BY <1>1, <1>2 DEF Past

\* What is spent stays so.
LEMMA SpentGrows ==
  ASSUME Ready, NEW op, Take(op), NEW q
  PROVE  Spent(q) => Spent(q)'
<1>1. Past' = Past \cup {next} /\ UNCHANGED <<world, cmds>>
  BY PastGrows
<1>2. next \in Nat /\ next' = next + 1
  BY ReadyParts DEF Take
<1>3. Uses(q)' \subseteq Uses(q)
  <2> SUFFICES ASSUME NEW i \in DOMAIN cmds, i >= next'  PROVE i >= next
    BY <1>1 DEF Uses
  <2> QED BY <1>2, ReadyParts
<1>4. \A x : Place(x)' = Place(x)
  BY <1>1 DEF Place
<1> QED BY <1>1, <1>3, <1>4 DEF Spent

\* A file that is not spent is there.
LEMMA Unspent ==
  ASSUME Ready, NEW q \in DstNodes, IsFile(world.dst, q), ~Spent(q)
  PROVE  /\ Located(q) \in DOMAIN dst /\ IsFile(dst, Located(q))
         /\ dst[Located(q)] = world.dst[q] /\ Holds(dst, Located(q), world.dst[q])
BY DEF Ready, RunInv, IntactInv, Holds, IsFile, Exists

\* What is relocated is a file of the destination.
LEMMA RelocatedFile ==
  ASSUME Ready, NEW q \in DOMAIN relocs
  PROVE  /\ q \in DstNodes /\ IsFile(world.dst, q) /\ Located(q) = relocs[q]
         /\ relocs[q] \in Path /\ TempNamed(relocs[q])
         /\ ~Spent(q) => relocs[q] \in DOMAIN dst
<1>1. PICK i \in 1..(next - 1) : cmds[i].op = "Conflict" /\ cmds[i].path = q
  BY ReadyParts DEF RelocsInv
<1>2. i \in DOMAIN cmds
  BY <1>1, ReadyParts
<1>3. q \in DstNodes /\ IsFile(world.dst, q)
  BY <1>1, <1>2, ConflictKnown
<1>4. Located(q) = relocs[q] /\ relocs[q] \in Path /\ TempNamed(relocs[q])
  BY <1>3, ReadyParts, LocatedNode
<1> QED BY <1>3, <1>4, Unspent

\* The place of a command other than a conflict.
LEMMA TargetPlace ==
  ASSUME Ready, NEW op, At(op), op # "Conflict", NEW c, c = cmds[next]
  PROVE  /\ c.path \in SrcNodes /\ Located(c.path) = Place(c.path)
         /\ Place(c.path) \in Path /\ ~TempNamed(Place(c.path))
<1>1. /\ c.path \in SrcNodes /\ ~TempNamed(Located(c.path))
      /\ world.dstRoot = <<>> => Located(c.path) = c.path
  BY ReadyParts, TargetFacts
<1>2. /\ Place(c.path) \in Path /\ ~TempNamed(Place(c.path))
      /\ world.dstRoot = <<>> => Place(c.path) = c.path
  BY <1>1, ReadyParts, Places
<1>3. world.dstRoot # <<>> => Located(c.path) = Place(c.path)
  BY DEF Located, Place, Resolve
<1> QED BY <1>1, <1>2, <1>3

-----------------------------------------------------------------------------
(* RunInv after a command, part by part.                                   *)

\* The files that are still not spent are there.
LEMMA IntactNext ==
  ASSUME Ready, NEW op, Take(op),
         \A q \in DstNodes :
           IsFile(world.dst, q) /\ ~Spent(q)' => Holds(dst', Located(q)', world.dst[q])
  PROVE  IntactInv'
<1>1. UNCHANGED <<world, cmds>> /\ DstNodes' = DstNodes
  BY PastGrows, WorldConstant
<1> QED BY <1>1 DEF IntactInv

\* ... if they are as they were.
LEMMA IntactSame ==
  ASSUME Ready, NEW op, Take(op), relocs' = relocs,
         \A q \in DstNodes : IsFile(world.dst, q) /\ ~Spent(q)' => SameAt(dst, dst', Located(q))
  PROVE  IntactInv'
<1>1. UNCHANGED world
  BY PastGrows
<1> SUFFICES ASSUME NEW q \in DstNodes, IsFile(world.dst, q), ~Spent(q)'
             PROVE  Holds(dst', Located(q)', world.dst[q])
  BY IntactNext
<1>2. ~Spent(q)
  BY SpentGrows
<1>3. Located(q)' = Located(q)
  BY <1>1 DEF Located
<1>4. Holds(dst, Located(q), world.dst[q]) /\ SameAt(dst, dst', Located(q))
  BY <1>2, Unspent
<1> QED BY <1>3, <1>4 DEF Holds, SameAt, IsFile, Exists

\* The directories are there, if they are in the tree before.
LEMMA DirsNext ==
  ASSUME Ready, NEW op, Take(op), \A q \in DOMAIN dst : IsDir(dst, q) => IsDir(dst', q)
  PROVE  DirsInv'
<1>1. UNCHANGED world
  BY PastGrows
<1> QED BY <1>1 DEF Ready, RunInv, DirsInv, IsDir, Exists

\* The files made so far are there, and so is the one the command makes.
LEMMA MadeNext ==
  ASSUME Ready, NEW op, Take(op),
         \A i \in Past : cmds[i].op \in Changers =>
           \/ SameAt(dst, dst', Place(cmds[i].path))
           \/ Holds(dst', Place(cmds[i].path), src[cmds[i].path]),
         op \in Changers => Holds(dst', Place(cmds[next].path), src[cmds[next].path])
  PROVE  MadeInv'
<1>1. /\ UNCHANGED <<world, cmds>> /\ Past' = Past \cup {next} /\ cmds[next].op = op
  BY PastGrows
<1>2. ASSUME NEW i \in Past, cmds[i].op \in Changers
      PROVE  Holds(dst', Place(cmds[i].path), src[cmds[i].path])
  <2>1. Holds(dst, Place(cmds[i].path), src[cmds[i].path])
    BY <1>2 DEF Ready, RunInv, MadeInv
  <2> QED BY <1>2, <2>1 DEF Holds, SameAt, IsFile, Exists
<1> QED BY <1>1, <1>2 DEF MadeInv, Place, src

\* What is in the destination was there, or has an origin.
LEMMA EntriesNext ==
  ASSUME Ready, NEW op, Take(op), relocs' = relocs,
         \A p \in DOMAIN dst' :
           \/ p \in DOMAIN dst /\ SameAt(dst, dst', p)
           \/ Origin(p, dst'[p])
  PROVE  EntriesInv'
<1>1. UNCHANGED world
  BY PastGrows
<1>2. ASSUME NEW p \in DOMAIN dst'  PROVE Origin(p, dst'[p])
  BY DEF Ready, RunInv, EntriesInv, SameAt
<1> QED BY <1>1, <1>2 DEF EntriesInv, Origin, SrcFiles, SrcNodes, Place, src

\* Nothing is relocated.
LEMMA RelocsNext ==
  ASSUME Ready, NEW op, Take(op), op # "Conflict", relocs' = relocs
  PROVE  DistinctInv' /\ MovedInv'
<1>1. /\ UNCHANGED <<world, cmds>> /\ Past' = Past \cup {next} /\ cmds[next].op = op
  BY PastGrows
<1>2. DistinctInv'
  <2>1. \A q : Spent(q) => Spent(q)'
    BY SpentGrows
  <2>2. DstNodes' = DstNodes /\ \A q : Located(q)' = Located(q)
    BY <1>1, WorldConstant DEF Located
  <2> QED BY <1>1, <2>1, <2>2 DEF Ready, RunInv, DistinctInv
<1>3. MovedInv'
  BY <1>1 DEF Ready, RunInv, MovedInv
<1> QED BY <1>2, <1>3

\* After a command that leaves no temporary file open.
LEMMA ClosedNext ==
  ASSUME Ready, NEW op, Take(op), op \notin Openers
  PROVE  WrittenInv'
<1>1. cmds'[next' - 1].op = op
  BY ReadyParts, TakeFacts
<1> QED BY <1>1 DEF WrittenInv, Open

\* A Keep changes nothing.
LEMMA FitKeep ==
  ASSUME Ready, ExecKeep
  PROVE  pc' = "exec" /\ RunInv'
<1>1. Take("Keep") /\ UNCHANGED <<dst, pc, relocs>>
  BY DEF ExecKeep
<1>2. \A p \in DOMAIN dst : SameAt(dst, dst', p)
  BY <1>1 DEF SameAt
<1>3. IntactInv'
  <2> SUFFICES ASSUME NEW q \in DstNodes, IsFile(world.dst, q), ~Spent(q)'
               PROVE  SameAt(dst, dst', Located(q))
    BY <1>1, IntactSame
  <2>1. ~Spent(q)
    BY <1>1, SpentGrows
  <2> QED BY <1>2, <2>1, Unspent
<1>4. MadeInv'
  <2> SUFFICES ASSUME NEW i \in Past, cmds[i].op \in Changers
               PROVE  SameAt(dst, dst', Place(cmds[i].path))
    BY <1>1, MadeNext DEF Changers
  <2> QED BY <1>2 DEF Ready, RunInv, MadeInv, Holds, IsFile, Exists
<1>5. EntriesInv'
  BY <1>1, <1>2, EntriesNext
<1>6. DirsInv' /\ DistinctInv' /\ MovedInv' /\ WrittenInv'
  BY <1>1, DirsNext, RelocsNext, ClosedNext DEF Openers
<1> QED BY <1>1, <1>3, <1>4, <1>5, <1>6 DEF RunInv, Ready

-----------------------------------------------------------------------------
(* Commands that make a file of the source.                                *)

\* What is above a node is a directory of its store.
LEMMA StoreDirs ==
  ASSUME IsWorld(world)
  PROVE  /\ \A p \in DOMAIN src : \A q \in Path : IsPrefix(q, p) /\ q # p => IsDir(src, q)
         /\ \A p \in DOMAIN world.dst :
              \A q \in Path : IsPrefix(q, p) /\ q # p => IsDir(world.dst, q)
<1>1. InDirs(src) /\ InDirs(world.dst) /\ IsTree(src) /\ IsTree(world.dst)
  BY WorldsAssumption, WorldFacts DEF IsWorld, IsStore, src
<1> QED BY <1>1, InDirsAbove

\* From t to u, e is put at p, with directories above it, and nothing taken away but what is
\* in S.
Makes(t, u, p, e, S) ==
  /\ Holds(u, p, e)
  /\ \A q \in DOMAIN t : q \notin S /\ q # p => SameAt(t, u, q)
  /\ \A q \in DOMAIN u :
       \/ q \in DOMAIN t /\ SameAt(t, u, q)
       \/ q = p
       \/ IsPrefix(q, p) /\ IsDir(u, q)

Sets(p, e, S) == Makes(dst, dst', p, e, S)

\* RunInv after a command that makes a file of the source.
LEMMA ChangerKeeps ==
  ASSUME Ready, IInv', NEW op \in Changers, Take(op), relocs' = relocs, pc' = "exec",
         NEW c, c = cmds[next], NEW p, p = Place(c.path), NEW S, Sets(p, src[c.path], S),
         \A q \in DstNodes : IsFile(world.dst, q) /\ Located(q) \in S => Spent(q)',
         \A i \in Past : cmds[i].op \in Changers => Place(cmds[i].path) \notin S,
         \A q \in S \cup {p} : ~IsDir(dst, q)
  PROVE  RunInv'
<1>1. /\ UNCHANGED <<world, cmds>> /\ Past' = Past \cup {next} /\ next \in DOMAIN cmds
      /\ cmds[next].op = op /\ Past \subseteq DOMAIN cmds
      /\ IsWorld(world) /\ IInv /\ RelocsInv /\ op # "Conflict"
  BY PastGrows, ReadyParts DEF Changers
<1>2. IsFile(src, c.path) /\ c.path \in SrcNodes /\ c.path \in SrcFiles
  BY <1>1, ChangerKnown
<1>3. p \in Path /\ ~TempNamed(p)
  BY <1>1, TargetPlace, TakeAt
<1>4. Spent(p)'
  BY <1>1 DEF Spent, Place
<1>5. IntactInv'
  <2> SUFFICES ASSUME NEW q \in DstNodes, IsFile(world.dst, q), ~Spent(q)'
               PROVE  SameAt(dst, dst', Located(q))
    BY IntactSame
  <2>1. Located(q) \in DOMAIN dst
    BY SpentGrows, Unspent
  <2>2. Located(q) # p
    BY <1>1, <1>3, <1>4, LocatedNode
  <2> QED BY <2>1, <2>2 DEF Sets, Makes
<1>6. MadeInv'
  <2> SUFFICES ASSUME NEW i \in Past, cmds[i].op \in Changers
               PROVE  \/ SameAt(dst, dst', Place(cmds[i].path))
                      \/ Holds(dst', Place(cmds[i].path), src[cmds[i].path])
    BY <1>1, MadeNext DEF Sets, Makes
  <2>1. Place(cmds[i].path) \in DOMAIN dst
    BY DEF Ready, RunInv, MadeInv, Holds, IsFile, Exists
  <2>2. CASE Place(cmds[i].path) = p
    <3>1. cmds[i].path = c.path
      BY <1>1, <1>2, <2>2, CommandKnown, Places
    <3> QED BY <3>1 DEF Sets, Makes
  <2>3. CASE Place(cmds[i].path) # p
    BY <2>1, <2>3 DEF Sets, Makes
  <2> QED BY <2>2, <2>3
<1>7. EntriesInv'
  <2> SUFFICES ASSUME NEW q \in DOMAIN dst', ~(q \in DOMAIN dst /\ SameAt(dst, dst', q))
               PROVE  Origin(q, dst'[q])
    BY <1>1, EntriesNext
  <2>1. CASE q = p
    BY <1>2, <2>1 DEF Sets, Makes, Origin, Holds, IsFile
  <2>2. CASE q # p
    <3>1. IsPrefix(q, p) /\ dst'[q] = Dir /\ q \in Path
      BY <2>2 DEF Sets, Makes, IsDir, IInv, TypeOK, IsTree
    <3>2. p \in DOMAIN src \/ p \in DOMAIN world.dst
      BY <1>1, <1>2, Places, WorldFacts DEF IsFile, Exists
    <3>3. IsDir(src, q) \/ IsDir(world.dst, q)
      BY <1>1, <2>2, <3>1, <3>2, StoreDirs
    <3> QED BY <3>1, <3>3 DEF Origin
  <2> QED BY <2>1, <2>2
<1>8. DistinctInv' /\ MovedInv'
  BY <1>1, RelocsNext
<1>9. WrittenInv'
  BY ClosedNext DEF Changers, Openers
<1>10. DirsInv'
  BY DirsNext DEF Sets, Makes, SameAt, IsDir, Exists
<1> QED BY <1>5, <1>6, <1>7, <1>8, <1>9, <1>10 DEF RunInv

\* There is room for the file that a transfer or a download makes.
LEMMA CanMakeTarget ==
  ASSUME Ready, NEW op \in {"Transfer", "SrcFileDownload"}, Take(op), NEW c, c = cmds[next]
  PROVE  CanMake(dst, Place(c.path)) /\ world.dstRoot = <<>>
<1> DEFINE p == c.path
<1>1. /\ next \in DOMAIN cmds /\ c.op = op /\ IsWorld(world) /\ op \in Changers
      /\ IInv /\ RelocsInv
  BY PastGrows, ReadyParts DEF Changers
<1>2. IsFile(src, p) /\ p \in SrcNodes
  BY <1>1, ChangerKnown
<1>3. world.dstRoot = <<>> /\ ~IsDir(world.dst, p)
  <2>1. CASE op = "Transfer"
    BY <1>1, <2>1, TransferKnown
  <2>2. CASE op = "SrcFileDownload"
    <3>1. ~\E e \in All(cmds) : e.op = "Conflict" /\ ~e.absolute
      BY ConflictKnown DEF All
    <3>2. ~Exists(world.dst, Place(p))
      BY <1>1, <2>2, <3>1, CommandKnown DEF Informed
    <3> QED BY <1>1, <3>2, Places DEF IsFile, IsDir
  <2> QED BY <2>1, <2>2
<1>4. Place(p) = p /\ p \in Path /\ ~TempNamed(p) /\ SrcNodes = DOMAIN src
  BY <1>1, <1>2, <1>3, Places
<1> HIDE DEF p
<1>5. p # <<>>
  BY <1>1, <1>2, StoreNames DEF IsFile, IsDir
<1>6. ~IsDir(dst, p)
  <2> SUFFICES ASSUME IsDir(dst, p)  PROVE FALSE
    OBVIOUS
  <2>1. Origin(p, Dir)
    BY DEF Ready, RunInv, EntriesInv, IsDir, Exists
  <2> QED BY <1>2, <1>3, <2>1 DEF Origin, IsFile, IsDir
<1>7. ASSUME NEW a \in Path, IsPrefix(a, p), a # p, IsFile(dst, a)  PROVE FALSE
  <2>1. dst[a] # Dir /\ Origin(a, dst[a])
    BY <1>7 DEF Ready, RunInv, EntriesInv, IsFile, Exists
  <2>2. IsDir(src, a) /\ ~TempNamed(a)
    BY <1>1, <1>2, <1>4, <1>7, StoreDirs, ClearAbove
  <2>3. ~\E s \in SrcFiles : Place(s) = a
    BY <1>1, <1>3, <2>2, Places DEF SrcFiles, IsFile, IsDir
  <2>4. IsFile(world.dst, a) /\ a \notin DOMAIN relocs
    BY <2>1, <2>2, <2>3 DEF Origin
  <2>5. a \in SrcNodes
    BY <1>4, <2>2 DEF IsDir, Exists
  <2>6. PICK i \in DOMAIN cmds : cmds[i].op = "Conflict" /\ cmds[i].path = a
    BY <1>3, <2>2, <2>4, <2>5, GivesConflict
  <2>7. i \notin Past
    BY <2>4, <2>6 DEF Ready, RunInv, MovedInv
  <2>8. next < i
    BY <1>1, <2>6, <2>7, PastGrows
  <2>9. Len(p) <= Len(a)
    BY <1>1, <2>6, <2>8, ReadyLists DEF InSequence, Precedes, p
  <2>10. Len(a) <= Len(p) /\ (Len(a) = Len(p) => a = p) /\ Len(a) \in Nat /\ Len(p) \in Nat
    <3>1. a \in Seq(Name) /\ p \in Seq(Name)
      BY <1>4 DEF Path
    <3>2. Len(a) <= Len(p) /\ \A j \in 1..Len(a) : a[j] = p[j]
      BY <1>7, <3>1, PrefixElements
    <3> QED BY <3>1, <3>2, SeqEqual, LenProperties
  <2> QED BY <1>7, <2>9, <2>10
<1>8. CanMake(dst, p)
  BY <1>5, <1>6, <1>7 DEF CanMake
<1> QED BY <1>3, <1>4, <1>8 DEF p

\* What a transfer reads is still there: no command has replaced or moved it.
LEMMA TransferUnspent ==
  ASSUME Ready, Take("Transfer"), NEW q, q = cmds[next].from
  PROVE  ~Spent(q)
<1>1. /\ next \in DOMAIN cmds /\ cmds[next].op = "Transfer" /\ Past \subseteq DOMAIN cmds
      /\ \A i \in Past : i < next
      /\ next \in Int
  BY PastGrows, ReadyParts
<1>2. world.dstRoot = <<>>
  BY <1>1, TransferKnown
<1>3. next \in Uses(q)
  BY <1>1 DEF Uses
<1>4. ASSUME NEW i \in Past, cmds[i].op \in Changers, Place(cmds[i].path) = q  PROVE FALSE
  <2>1. cmds[i].path = q /\ i < next /\ i \in DOMAIN cmds
    BY <1>1, <1>2, <1>4 DEF Place, Resolve
  <2>2. next \in OpsOf("Transfer") /\ SourcesInOrder
    BY <1>1 DEF OpsOf, Ready, FitToRun
  <2>3. (CASE cmds[i].op = "Keep"     -> TRUE
           [] cmds[i].op = "Transfer" -> next < i
           [] cmds[i].op = "Conflict" -> i < next
           [] OTHER                   -> FALSE)
    BY <2>1, <2>2 DEF SourcesInOrder
  <2>4. cmds[i].op \in {"Transfer", "SrcFileDownload", "ReplaceWithTemp"}
    BY <1>4 DEF Changers
  <2>5. cmds[i].op # "Keep" /\ cmds[i].op # "Conflict"
    BY <2>4
  <2>6. next < i
    BY <2>3, <2>5
  <2> QED BY <1>1, <2>1, <2>6 DEF Past
<1> QED BY <1>3, <1>4 DEF Spent

\* A transfer counts down to the uses that are left.
LEMMA TransferCounted ==
  ASSUME IInv, RefsExact', ExecTransfer, NEW q \in DstNodes, q = cmds[next].from
  PROVE  refs[q] - 1 \in Nat /\ (refs[q] - 1 = 0 => Uses(q)' = {})
<1>1. Take("Transfer")
  BY DEF ExecTransfer
<1>2. world' = world /\ cmds' = cmds /\ cmds \in Seq(Command)
  BY <1>1, TakeFacts DEF IInv, TypeOK
<1>3. refs' = [refs EXCEPT ![q] = refs[q] - 1] /\ refs \in [DstNodes -> Int]
  BY MapFacts DEF ExecTransfer
<1>4. refs'[q] = refs[q] - 1
  BY <1>3
<1>5. q \in DstNodes'
  BY <1>2, WorldConstant
<1>6. refs'[q] = Cardinality(UsesIn(cmds', next', q))
  BY <1>5, RefsExactInNext
<1>7. Uses(q)' = UsesIn(cmds', next', q)
  BY DEF Uses, UsesIn
<1> DEFINE S == UsesIn(cmds, next', q)
<1>8. IsFiniteSet(S) /\ Cardinality(S) \in Nat
  BY <1>2, UsesFinite
<1>9. Uses(q)' = S /\ refs'[q] = Cardinality(S)
  BY <1>2, <1>6, <1>7
<1> HIDE DEF S
<1>10. Cardinality(S) = 0 => S = {}
  BY <1>8, FS_EmptySet
<1> QED BY <1>4, <1>8, <1>9, <1>10

\* A file that is moved or copied is where it has to be.
LEMMA TransferMakes ==
  ASSUME NEW t, IsTree(t), InDirs(t), NEW from \in Path, NEW to \in Path, from # to,
         IsFile(t, from), CanMake(t, to), NEW left \in Nat,
         NEW r, r = Transferred(t, from, to, left)
  PROVE  r.ok /\ Makes(t, r.tree, to, t[from], IF left = 0 THEN {from} ELSE {})
<1>1. from \in DOMAIN t /\ t[from] # Dir /\ ~IsDir(t, from)
  BY DEF IsFile, IsDir, Exists
<1>2. Under(t, from) \subseteq {from}
  BY <1>1, NothingBelow
<1>3. CASE left = 0
  <2>1. r = MoveInto(t, from, to)
    BY <1>3 DEF Transferred
  <2>2. /\ \A q \in DOMAIN t :
             q # to /\ (MoveInto(t, from, to).ok => ~IsPrefix(from, q)) =>
               SameAt(t, MoveInto(t, from, to).tree, q)
        /\ \A q \in DOMAIN MoveInto(t, from, to).tree :
             \/ q \in DOMAIN t /\ SameAt(t, MoveInto(t, from, to).tree, q)
             \/ IsPrefix(q, to) /\ IsDir(MoveInto(t, from, to).tree, q)
             \/ MovedTo(t, MoveInto(t, from, to), from, to, q)
        /\ MoveInto(t, from, to).ok /\ IsFile(t, from) /\ from # to =>
             /\ to \in DOMAIN MoveInto(t, from, to).tree
             /\ MoveInto(t, from, to).tree[to] = t[from]
             /\ \A q \in DOMAIN MoveInto(t, from, to).tree : ~IsPrefix(from, q)
        /\ IsFile(t, from) /\ CanMake(t, to) /\ from # to => MoveInto(t, from, to).ok
    BY MoveIntoFacts, Zenon
  <2>3. /\ \A q \in DOMAIN t : q # to /\ (r.ok => ~IsPrefix(from, q)) => SameAt(t, r.tree, q)
        /\ \A q \in DOMAIN r.tree :
             \/ q \in DOMAIN t /\ SameAt(t, r.tree, q)
             \/ IsPrefix(q, to) /\ IsDir(r.tree, q)
             \/ MovedTo(t, r, from, to, q)
        /\ to \in DOMAIN r.tree /\ r.tree[to] = t[from]
        /\ r.ok
    BY <2>1, <2>2, Zenon
  <2>4. ASSUME NEW q \in DOMAIN r.tree, MovedTo(t, r, from, to, q)  PROVE q = to
    <3>1. q = to \o SubPath(from, from)
      BY <1>2, <2>4 DEF MovedTo
    <3> DEFINE s == SubPath(from, from)
    <3>2. s \in Path /\ from = from \o s
      BY PrefixReflexive, BelowIsPath DEF Path
    <3>3. q = to \o s
      BY <3>1
    <3> HIDE DEF s
    <3>4. s = <<>>
      BY <3>2, PutBelow
    <3> QED BY <3>3, <3>4, ConcatEmptySeq DEF Path
  <2>5. \A q \in DOMAIN t : q \notin {from} => ~IsPrefix(from, q)
    BY <1>2 DEF Under
  <2>6. \A q \in DOMAIN t : q \notin {from} /\ q # to => SameAt(t, r.tree, q)
    BY <2>3, <2>5
  <2>7. \A q \in DOMAIN r.tree : \/ q \in DOMAIN t /\ SameAt(t, r.tree, q)
                                 \/ q = to
                                 \/ IsPrefix(q, to) /\ IsDir(r.tree, q)
    BY <2>3, <2>4
  <2>8. Holds(r.tree, to, t[from])
    BY <1>1, <2>3 DEF Holds, IsFile, Exists
  <2> QED BY <1>3, <2>3, <2>6, <2>7, <2>8 DEF Makes
<1>4. CASE left # 0
  <2>1. r = CopyInto(t, from, to)
    BY <1>4 DEF Transferred
  <2>2. /\ \A q \in DOMAIN t : q # to => SameAt(t, CopyInto(t, from, to).tree, q)
        /\ \A q \in DOMAIN CopyInto(t, from, to).tree :
             \/ q \in DOMAIN t
             \/ IsPrefix(q, to) /\ (q = to \/ IsDir(CopyInto(t, from, to).tree, q))
        /\ CopyInto(t, from, to).ok /\ from # to =>
             /\ IsFile(t, from)
             /\ to \in DOMAIN CopyInto(t, from, to).tree
             /\ CopyInto(t, from, to).tree[to] = t[from]
        /\ CanMake(t, to) /\ IsFile(t, from) => CopyInto(t, from, to).ok
    BY CopyIntoFacts, Zenon
  <2>3. /\ \A q \in DOMAIN t : q # to => SameAt(t, r.tree, q)
        /\ \A q \in DOMAIN r.tree : q \in DOMAIN t \/ (IsPrefix(q, to) /\ (q = to \/ IsDir(r.tree, q)))
        /\ to \in DOMAIN r.tree /\ r.tree[to] = t[from]
        /\ r.ok
    BY <2>1, <2>2, Zenon
  <2>4. Holds(r.tree, to, t[from])
    BY <1>1, <2>3 DEF Holds, IsFile, Exists
  <2>5. \A q \in DOMAIN r.tree : \/ q \in DOMAIN t /\ SameAt(t, r.tree, q)
                                 \/ q = to
                                 \/ IsPrefix(q, to) /\ IsDir(r.tree, q)
    BY <2>3
  <2> QED BY <1>4, <2>3, <2>4, <2>5 DEF Makes
<1> QED BY <1>3, <1>4

\* A transfer makes its file.
LEMMA FitTransfer ==
  ASSUME Ready, IInv', RefsExact', ExecTransfer
  PROVE  pc' = "exec" /\ RunInv'
<1>0. PICK q : q = cmds[next].from
  OBVIOUS
<1> DEFINE c    == cmds[next]
           left == refs[q] - 1
           from == Located(q)
           to   == Located(c.path)
           p    == Place(c.path)
           r    == Transferred(dst, from, to, left)
           S    == IF left = 0 THEN {from} ELSE {}
<1>1. Take("Transfer") /\ Finish(r) /\ relocs' = relocs
  BY <1>0 DEF ExecTransfer, Transferred
<1>2. /\ next \in DOMAIN cmds /\ c.op = "Transfer" /\ c.from = q /\ Past \subseteq DOMAIN cmds
      /\ IsWorld(world) /\ IInv /\ RelocsInv /\ IsTree(dst) /\ InDirs(dst)
      /\ UNCHANGED <<world, cmds>> /\ Past' = Past \cup {next}
  BY <1>0, <1>1, PastGrows, ReadyParts
<1>3. /\ world.dstRoot = <<>> /\ q \in DstNodes /\ q # c.path
      /\ IsFile(world.dst, q) /\ src[c.path] = world.dst[q]
  BY <1>2, TransferKnown
<1>4. ~Spent(q)
  BY <1>0, <1>1, TransferUnspent
<1>5. left \in Nat /\ (left = 0 => Uses(q)' = {})
  BY <1>0, <1>2, <1>3, TransferCounted
<1>6. IsFile(dst, from) /\ dst[from] = src[c.path]
  BY <1>3, <1>4, Unspent
<1>7. c.path \in SrcNodes /\ to = p /\ p \in Path /\ ~TempNamed(p) /\ CanMake(dst, p) /\ p = c.path
  BY <1>1, <1>3, TargetPlace, TakeAt, CanMakeTarget DEF Place, Resolve
<1>8. from \in Path /\ from # p
  BY <1>2, <1>3, <1>7, LocatedNode
<1>9. \A z \in DstNodes : IsFile(world.dst, z) /\ Located(z) = from /\ left = 0 => Spent(z)'
  <2> SUFFICES ASSUME NEW z \in DstNodes, IsFile(world.dst, z), Located(z) = from, left = 0
               PROVE  Spent(z)'
    OBVIOUS
  <2>1. CASE Spent(z)
    BY <1>1, <2>1, SpentGrows
  <2>2. CASE ~Spent(z)
    <3>1. z = q
      BY <1>3, <1>4, <2>2 DEF Ready, RunInv, DistinctInv
    <3>2. Uses(q)' = {}
      BY <1>5
    <3> QED BY <1>2, <3>1, <3>2 DEF Spent
  <2> QED BY <2>1, <2>2
<1>10. \A i \in Past : cmds[i].op \in Changers => Place(cmds[i].path) # from
  <2> SUFFICES ASSUME NEW i \in Past, cmds[i].op \in Changers, Place(cmds[i].path) = from
               PROVE  FALSE
    OBVIOUS
  <2>1. ~TempNamed(from)
    BY <1>2, CommandKnown, Places
  <2>2. from = q
    BY <1>2, <1>3, <2>1, LocatedNode
  <2> QED BY <1>4, <2>2 DEF Spent
<1>11. r.ok /\ Makes(dst, r.tree, p, dst[from], S)
  <2> DEFINE at == Located(q)
  <2>1. at = from /\ at \in Path /\ at # p /\ IsFile(dst, at) /\ r = Transferred(dst, at, p, left)
    BY <1>6, <1>7, <1>8
  <2> HIDE DEF at, left, p, r
  <2>2. r.ok /\ Makes(dst, r.tree, p, dst[at], IF left = 0 THEN {at} ELSE {})
    BY <1>2, <1>5, <1>7, <2>1, TransferMakes
  <2> QED BY <2>1, <2>2
<1>12. pc' = "exec" /\ Sets(p, src[c.path], S)
  BY <1>1, <1>6, <1>11 DEF Finish, Sets
<1>13. "Transfer" \in Changers
  BY DEF Changers
<1>14. \A z \in DstNodes : IsFile(world.dst, z) /\ Located(z) \in S => Spent(z)'
  BY <1>9
<1>15. \A i \in Past : cmds[i].op \in Changers => Place(cmds[i].path) \notin S
  BY <1>10
<1>16. \A z \in S \cup {p} : ~IsDir(dst, z)
  BY <1>6, <1>7 DEF CanMake, IsFile, IsDir
<1> HIDE DEF S, p, c
<1> QED BY <1>1, <1>12, <1>13, <1>14, <1>15, <1>16, ChangerKeeps DEF c, p

\* A file that is written is made.
LEMMA WriteMakes ==
  ASSUME NEW t, IsTree(t), InDirs(t), NEW p \in Path, NEW e \in Entry, e # Dir, CanMake(t, p),
         NEW r, r = WriteFile(t, p, e)
  PROVE  r.ok /\ Makes(t, r.tree, p, e, {})
<1>1. /\ \A q \in DOMAIN t : q # p => SameAt(t, WriteFile(t, p, e).tree, q)
      /\ \A q \in DOMAIN WriteFile(t, p, e).tree :
           q \in DOMAIN t \/ (IsPrefix(q, p) /\ (q = p \/ IsDir(WriteFile(t, p, e).tree, q)))
  BY WriteFileFacts, Zenon
<1>2. CanMake(t, p) => WriteFile(t, p, e).ok
  BY WriteFileFacts, Zenon
<1>3. WriteFile(t, p, e).ok => p \in DOMAIN WriteFile(t, p, e).tree
  BY WriteFileFacts, Zenon
<1>4. WriteFile(t, p, e).ok => WriteFile(t, p, e).tree[p] = e
  <2> DEFINE w == WriteFile(t, p, e)
  <2>1. w.ok => w.tree[p] = e
    BY WriteFileFacts
  <2> QED BY <2>1
<1>5. /\ \A q \in DOMAIN t : q # p => SameAt(t, r.tree, q)
      /\ \A q \in DOMAIN r.tree : q \in DOMAIN t \/ (IsPrefix(q, p) /\ (q = p \/ IsDir(r.tree, q)))
      /\ p \in DOMAIN r.tree /\ r.tree[p] = e /\ r.ok
  BY <1>1, <1>2, <1>3, <1>4
<1>6. Holds(r.tree, p, e)
  BY <1>5 DEF Holds, IsFile, Exists
<1>7. \A q \in DOMAIN r.tree : \/ q \in DOMAIN t /\ SameAt(t, r.tree, q)
                               \/ q = p
                               \/ IsPrefix(q, p) /\ IsDir(r.tree, q)
  BY <1>5
<1> QED BY <1>5, <1>6, <1>7 DEF Makes

\* A download makes its file.
LEMMA FitDownload ==
  ASSUME Ready, IInv', ExecSrcFileDownload
  PROVE  pc' = "exec" /\ RunInv'
<1> DEFINE c == cmds[next]
           e == src[c.path]
           p == Place(c.path)
           r == WriteFile(dst, p, e)
           S == {}
<1>1. Take("SrcFileDownload") /\ Finish(WriteFile(dst, Located(c.path), e)) /\ relocs' = relocs
  BY DEF ExecSrcFileDownload
<1>2. /\ next \in DOMAIN cmds /\ c.op = "SrcFileDownload"
      /\ IsWorld(world) /\ IsTree(dst) /\ InDirs(dst)
  BY <1>1, PastGrows, ReadyParts
<1>3. Located(c.path) = p /\ p \in Path /\ CanMake(dst, p)
  BY <1>1, TargetPlace, TakeAt, CanMakeTarget
<1>4. IsFile(src, c.path) /\ c.path \in DOMAIN src /\ e # Dir /\ e \in Entry
  BY <1>2, ChangerKnown, WorldFacts DEF Changers, IsFile, Exists, IsTree
<1>5. Finish(r)
  BY <1>1, <1>3
<1> HIDE DEF p, e
<1>6. r.ok /\ Makes(dst, r.tree, p, e, {})
  BY <1>2, <1>3, <1>4, WriteMakes
<1>7. pc' = "exec" /\ Sets(p, e, S)
  BY <1>5, <1>6 DEF Finish, Sets
<1>8. /\ "SrcFileDownload" \in Changers
      /\ \A q \in DstNodes : IsFile(world.dst, q) /\ Located(q) \in S => Spent(q)'
      /\ \A i \in Past : cmds[i].op \in Changers => Place(cmds[i].path) \notin S
      /\ \A q \in S \cup {p} : ~IsDir(dst, q)
  BY <1>3 DEF Changers, CanMake
<1> HIDE DEF S, c
<1> QED BY <1>1, <1>7, <1>8, ChangerKeeps DEF c, p, e

-----------------------------------------------------------------------------
(* Conflicts.                                                              *)

\* The top is a directory.
LEMMA TopIsDir ==
  ASSUME NEW t, IsTree(t), InDirs(t), NEW p \in DOMAIN t, p # <<>>
  PROVE  IsDir(t, <<>>)
<1> DEFINE e == <<>>
<1>1. e \in Seq(Name) /\ Len(e) = 0 /\ p # e
  BY EmptySeq
<1>2. p \in Seq(Name) /\ Len(p) \in Nat
  BY LenProperties DEF IsTree, Path
<1> HIDE DEF e
<1>3. Len(e) <= Len(p) /\ \A i \in 1..Len(e) : e[i] = p[i]
  BY <1>1, <1>2
<1>4. IsPrefix(e, p)
  BY <1>1, <1>2, <1>3, PrefixElements
<1>5. IsDir(t, e)
  BY <1>1, <1>4, InDirsAbove DEF Path
<1> QED BY <1>5 DEF e

\* A file that is renamed.
LEMMA MoveMakes ==
  ASSUME NEW t, IsTree(t), InDirs(t), NEW from \in Path, NEW to \in Path, from # to,
         IsFile(t, from), ~IsDir(t, to), IsDir(t, ParentDir(to)),
         NEW r, r = Move(t, from, to)
  PROVE  /\ r.ok /\ Makes(t, r.tree, to, t[from], {from}) /\ from \notin DOMAIN r.tree
         /\ \A q \in DOMAIN r.tree : (q \in DOMAIN t /\ SameAt(t, r.tree, q)) \/ q = to
<1>1. from \in DOMAIN t /\ t[from] # Dir /\ ~IsDir(t, from)
  BY DEF IsFile, IsDir, Exists
<1>2. Under(t, from) \subseteq {from}
  BY <1>1, NothingBelow
<1>3. /\ \A q \in DOMAIN t :
           q # to /\ (Move(t, from, to).ok => ~IsPrefix(from, q)) => SameAt(t, Move(t, from, to).tree, q)
      /\ \A q \in DOMAIN Move(t, from, to).tree :
           \/ q \in DOMAIN t /\ SameAt(t, Move(t, from, to).tree, q)
           \/ MovedTo(t, Move(t, from, to), from, to, q)
      /\ Move(t, from, to).ok /\ from # to =>
           /\ from \in DOMAIN t /\ to \in DOMAIN Move(t, from, to).tree
           /\ Move(t, from, to).tree[to] = t[from]
           /\ \A q \in DOMAIN Move(t, from, to).tree : ~IsPrefix(from, q)
  BY MoveFacts, Zenon
<1>4. Move(t, from, to).ok
  BY MoveFacts, Zenon
<1>5. /\ \A q \in DOMAIN t : q # to /\ (r.ok => ~IsPrefix(from, q)) => SameAt(t, r.tree, q)
      /\ \A q \in DOMAIN r.tree :
           (q \in DOMAIN t /\ SameAt(t, r.tree, q)) \/ MovedTo(t, r, from, to, q)
      /\ to \in DOMAIN r.tree /\ r.tree[to] = t[from]
      /\ \A q \in DOMAIN r.tree : ~IsPrefix(from, q)
      /\ r.ok
  BY <1>3, <1>4, Zenon
<1>6. ASSUME NEW q \in DOMAIN r.tree, MovedTo(t, r, from, to, q)  PROVE q = to
  <2>1. q = to \o SubPath(from, from)
    BY <1>2, <1>6 DEF MovedTo
  <2> DEFINE s == SubPath(from, from)
  <2>2. s \in Path /\ from = from \o s
    BY PrefixReflexive, BelowIsPath DEF Path
  <2>3. q = to \o s
    BY <2>1
  <2> HIDE DEF s
  <2>4. s = <<>>
    BY <2>2, PutBelow
  <2> QED BY <2>3, <2>4, ConcatEmptySeq DEF Path
<1>7. \A q \in DOMAIN r.tree : (q \in DOMAIN t /\ SameAt(t, r.tree, q)) \/ q = to
  BY <1>5, <1>6
<1>8. \A q \in DOMAIN t : q \notin {from} /\ q # to => SameAt(t, r.tree, q)
  BY <1>2, <1>5 DEF Under
<1>9. Holds(r.tree, to, t[from])
  BY <1>1, <1>5 DEF Holds, IsFile, Exists
<1>10. from \notin DOMAIN r.tree
  BY <1>5, PrefixReflexive DEF Path
<1> QED BY <1>5, <1>7, <1>8, <1>9, <1>10 DEF Makes

\* What is in the way of a directory is there to be moved.
LEMMA ConflictUnspent ==
  ASSUME Ready, Take("Conflict"), NEW p, p = cmds[next].path
  PROVE  ~Spent(p)
<1>1. /\ next \in DOMAIN cmds /\ cmds[next].op = "Conflict" /\ Past \subseteq DOMAIN cmds
      /\ \A i \in Past : i < next
      /\ next \in Int
  BY PastGrows, ReadyParts
<1>2. world.dstRoot = <<>> /\ IsDir(src, p)
  BY <1>1, ConflictKnown
<1>3. ASSUME NEW i \in Past, cmds[i].op = "Transfer", cmds[i].from = p  PROVE FALSE
  <2>1. i \in OpsOf("Transfer") /\ SourcesInOrder
    BY <1>1, <1>3 DEF OpsOf, Ready, FitToRun
  <2>2. (CASE cmds[next].op = "Keep"     -> TRUE
           [] cmds[next].op = "Transfer" -> i < next
           [] cmds[next].op = "Conflict" -> next < i
           [] OTHER                      -> FALSE)
    BY <1>1, <1>3, <2>1 DEF SourcesInOrder
  <2>3. next < i
    BY <1>1, <2>2
  <2> QED BY <1>1, <2>3 DEF Past
<1>4. ASSUME NEW i \in Past, cmds[i].op \in Changers, Place(cmds[i].path) = p  PROVE FALSE
  <2>1. cmds[i].path = p /\ IsFile(src, cmds[i].path)
    BY <1>1, <1>2, <1>4, ChangerKnown DEF Place, Resolve
  <2> QED BY <1>2, <2>1 DEF IsFile, IsDir
<1> QED BY <1>3, <1>4 DEF Spent

\* A conflict is relocated.
LEMMA FitConflict ==
  ASSUME Ready, IInv', ExecConflict
  PROVE  pc' = "exec" /\ RunInv'
<1>0. PICK p : p = cmds[next].path
  OBVIOUS
<1>1. Take("Conflict")
  BY DEF ExecConflict
<1>2. PICK fresh \in FreshPaths(dst, <<>>) :
        LET r == Move(dst, p, fresh)
        IN  Finish(r) /\ relocs' = IF r.ok THEN Put(relocs, p, fresh) ELSE relocs
  BY <1>0 DEF ExecConflict
<1> DEFINE r == Move(dst, p, fresh)
<1>3. Finish(r) /\ relocs' = IF r.ok THEN Put(relocs, p, fresh) ELSE relocs
  BY <1>2
<1>4. /\ next \in DOMAIN cmds /\ cmds[next].op = "Conflict" /\ cmds[next].path = p
      /\ Past \subseteq DOMAIN cmds /\ Past' = Past \cup {next}
      /\ IsWorld(world) /\ IInv /\ ShapeInv /\ LitterInv /\ RelocsInv
      /\ IsTree(dst) /\ InDirs(dst) /\ UNCHANGED <<world, cmds>>
  BY <1>0, <1>1, PastGrows, ReadyParts
<1>5. /\ world.dstRoot = <<>> /\ cmds[next].absolute /\ IsDir(src, p)
      /\ IsFile(world.dst, p) /\ p \in DstNodes
  BY <1>4, ConflictKnown
<1>6. p \notin DOMAIN relocs /\ p \in Path
  BY <1>1, <1>4, <1>5, ConflictIsNew
<1>7. Located(p) = p /\ \A q : Place(q) = q
  BY <1>5, <1>6 DEF Located, Place, Resolve
<1>8. IsFile(dst, p) /\ dst[p] = world.dst[p] /\ p \in DOMAIN dst /\ ~TempNamed(p)
  <2>1. p \in SrcNodes
    BY <1>4, CommandKnown
  <2> QED BY <1>0, <1>1, <1>4, <1>5, <1>7, <2>1, ConflictUnspent, Unspent, Places
<1>9. fresh \in Path /\ TempNamed(fresh) /\ ParentDir(fresh) = <<>> /\ fresh \notin DOMAIN dst
  <2>1. PICK n \in TempName : fresh = Append(<<>>, n)
    BY DEF FreshPaths
  <2> DEFINE e == <<>>
  <2>2. e \in Path
    BY EmptySeq DEF Path
  <2> HIDE DEF e
  <2>3. Append(e, n) \in Path /\ TempNamed(Append(e, n)) /\ ParentDir(Append(e, n)) = e
    BY <2>2, InventedName
  <2> QED BY <2>1, <2>3 DEF e, FreshPaths, Exists
<1>10. IsDir(dst, ParentDir(fresh))
  <2>1. p # <<>>
    BY <1>4, <1>5, WorldsAssumption DEF IsWorld, IsStore, IsDir, IsFile
  <2> QED BY <1>4, <1>8, <1>9, <2>1, TopIsDir
<1>11. p # fresh /\ ~IsDir(dst, fresh)
  BY <1>8, <1>9 DEF IsDir, Exists
<1>12. /\ r.ok /\ Makes(dst, r.tree, fresh, dst[p], {p}) /\ p \notin DOMAIN r.tree
       /\ \A q \in DOMAIN r.tree : (q \in DOMAIN dst /\ SameAt(dst, r.tree, q)) \/ q = fresh
  <2>1. r = Move(dst, p, fresh)
    OBVIOUS
  <2> HIDE DEF r
  <2>2. /\ IsTree(dst) /\ InDirs(dst) /\ p \in Path /\ fresh \in Path /\ p # fresh
        /\ IsFile(dst, p) /\ ~IsDir(dst, fresh)
    BY <1>4, <1>6, <1>8, <1>9, <1>11
  <2> QED BY <1>10, <2>1, <2>2, MoveMakes
<1> HIDE DEF r
<1>13. /\ pc' = "exec" /\ Holds(dst', fresh, world.dst[p]) /\ p \notin DOMAIN dst'
       /\ \A q \in DOMAIN dst' : (q \in DOMAIN dst /\ SameAt(dst, dst', q)) \/ q = fresh
       /\ \A q \in DOMAIN dst : q # p /\ q # fresh => SameAt(dst, dst', q)
  BY <1>3, <1>8, <1>12 DEF Finish, Makes
<1>14. /\ DOMAIN relocs' = DOMAIN relocs \cup {p} /\ relocs'[p] = fresh
       /\ \A q \in DOMAIN relocs : relocs'[q] = relocs[q]
  BY <1>3, <1>6, <1>12 DEF Put
<1>15. IntactInv'
  <2> SUFFICES ASSUME NEW q \in DstNodes, IsFile(world.dst, q), ~Spent(q)'
               PROVE  Holds(dst', Located(q)', world.dst[q])
    BY <1>1, IntactNext
  <2>1. CASE q = p
    <3>1. Located(q)' = fresh
      BY <1>4, <1>5, <1>14, <2>1 DEF Located, Resolve
    <3> QED BY <1>13, <2>1, <3>1
  <2>2. CASE q # p
    <3>1. Located(q)' = Located(q)
      BY <1>4, <1>14, <2>2 DEF Located, Resolve
    <3>2. Located(q) \in DOMAIN dst /\ Holds(dst, Located(q), world.dst[q])
      BY <1>1, SpentGrows, Unspent
    <3>3. Located(q) # p
      BY <1>4, <1>8, <2>2, LocatedNode
    <3>4. SameAt(dst, dst', Located(q))
      BY <1>9, <1>13, <3>2, <3>3
    <3> QED BY <3>1, <3>2, <3>4 DEF Holds, SameAt, IsFile, Exists
  <2> QED BY <2>1, <2>2
<1>16. MadeInv'
  <2> SUFFICES ASSUME NEW i \in Past, cmds[i].op \in Changers
               PROVE  SameAt(dst, dst', Place(cmds[i].path))
    BY <1>1, MadeNext DEF Changers
  <2>1. Place(cmds[i].path) \in DOMAIN dst
    BY DEF Ready, RunInv, MadeInv, Holds, IsFile, Exists
  <2>2. IsFile(src, cmds[i].path)
    BY <1>4, ChangerKnown
  <2>3. Place(cmds[i].path) # p
    BY <1>5, <1>7, <2>2 DEF IsFile, IsDir
  <2> QED BY <1>9, <1>13, <2>1, <2>3
<1>17. DistinctInv'
  <2> SUFFICES ASSUME NEW a \in DstNodes, IsFile(world.dst, a), ~Spent(a)',
                      NEW b \in DstNodes, IsFile(world.dst, b), ~Spent(b)',
                      Located(a)' = Located(b)'
               PROVE  a = b
    BY <1>4, WorldConstant DEF DistinctInv
  <2>1. ~Spent(a) /\ ~Spent(b)
    BY <1>1, SpentGrows
  <2>2. Located(a) # fresh /\ Located(b) # fresh
    BY <1>9, <2>1, Unspent
  <2>3. Located(p)' = fresh
    BY <1>4, <1>5, <1>14 DEF Located, Resolve
  <2>4. \A q : q # p => Located(q)' = Located(q)
    BY <1>4, <1>14 DEF Located, Resolve
  <2> QED BY <2>1, <2>2, <2>3, <2>4 DEF Ready, RunInv, DistinctInv
<1>18. MovedInv'
  BY <1>4, <1>14 DEF Ready, RunInv, MovedInv
<1>19. EntriesInv'
  <2> SUFFICES ASSUME NEW q \in DOMAIN dst', NEW e, e = dst'[q]  PROVE Origin(q, e)'
    BY DEF EntriesInv, Origin
  <2>1. CASE q = fresh
    BY <1>9, <1>13, <2>1 DEF Origin, Holds, IsFile
  <2>2. CASE q # fresh
    <3>1. q # p /\ e = dst[q] /\ Origin(q, e)
      BY <1>13, <2>2 DEF SameAt, Ready, RunInv, EntriesInv
    <3>2. q \in DOMAIN relocs' => q \in DOMAIN relocs
      BY <1>14, <3>1
    <3> QED BY <1>4, <3>1, <3>2 DEF Origin, SrcFiles, SrcNodes, Place, src
  <2> QED BY <2>1, <2>2
<1>20. WrittenInv'
  BY <1>1, ClosedNext DEF Openers
<1>21. DirsInv'
  BY <1>1, <1>8, <1>9, <1>13, DirsNext DEF SameAt, IsFile, IsDir, Exists
<1> QED BY <1>13, <1>15, <1>16, <1>17, <1>18, <1>19, <1>20, <1>21 DEF RunInv

\* No conflict fails to be.
LEMMA NoConflictFails ==
  ASSUME Ready
  PROVE  ~ExecConflictFails
<1> SUFFICES ASSUME ExecConflictFails  PROVE FALSE
  OBVIOUS
<1>1. next \in DOMAIN cmds /\ cmds[next].op = "Conflict"
  BY PastGrows DEF ExecConflictFails
<1>2. world.dstRoot = <<>> /\ cmds[next].absolute
  BY <1>1, ConflictKnown
<1> QED BY <1>2 DEF ExecConflictFails

-----------------------------------------------------------------------------
(* Files that are put together from blocks.                                *)

\* The file to replace is there, as it was.
LEMMA PlaceUnspent ==
  ASSUME Ready, NEW op \in Openers \cup Needers, Take(op), NEW p, p = Place(cmds[next].path)
  PROVE  /\ p \in DstNodes /\ IsFile(world.dst, p) /\ p \in Path /\ ~TempNamed(p)
         /\ ~Spent(p) /\ Located(cmds[next].path) = p /\ Located(p) = p
         /\ p \in DOMAIN dst /\ IsFile(dst, p) /\ dst[p] = world.dst[p]
<1> DEFINE c == cmds[next]
<1>1. /\ next \in DOMAIN cmds /\ c.op = op /\ Past \subseteq DOMAIN cmds
      /\ \A i \in Past : i < next
      /\ next \in Int /\ IsWorld(world)
  BY PastGrows, ReadyParts
<1>2. op \notin Starters \/ op = "LocalTemp"
  BY DEF Starters, Openers, Needers
<1>3. IsFile(world.dst, p) /\ c.path \in SrcNodes
  BY <1>1, CommandKnown DEF Informed
<1>4. /\ world.dstRoot = <<>> => p = c.path /\ DstNodes = DOMAIN world.dst
      /\ world.dstRoot # <<>> => p = world.dstRoot /\ DstNodes = {world.dstRoot}
  BY <1>1, Places
<1>5. p \in DstNodes
  BY <1>3, <1>4 DEF IsFile, Exists
<1>6. Located(c.path) = p /\ p \in Path /\ ~TempNamed(p)
  BY <1>1, TargetPlace, TakeAt DEF Openers, Needers
<1>7. Located(p) = p
  BY <1>4, <1>6 DEF Located, Resolve
<1>8. ASSUME NEW i \in Past, cmds[i].op = "Transfer", cmds[i].from = p  PROVE FALSE
  <2>1. i \in OpsOf("Transfer") /\ SourcesInOrder /\ world.dstRoot = <<>>
    BY <1>1, <1>8, TransferKnown DEF OpsOf, Ready, FitToRun
  <2>2. (CASE c.op = "Keep"     -> TRUE
           [] c.op = "Transfer" -> i < next
           [] c.op = "Conflict" -> next < i
           [] OTHER             -> FALSE)
    BY <1>1, <1>4, <1>8, <2>1 DEF SourcesInOrder
  <2>3. c.op # "Keep" /\ c.op # "Transfer" /\ c.op # "Conflict"
    BY <1>1 DEF Openers, Needers
  <2> QED BY <2>2, <2>3
<1>9. ASSUME NEW i \in Past, cmds[i].op \in Changers, Place(cmds[i].path) = p  PROVE FALSE
  <2>1. i \in DOMAIN cmds /\ i < next /\ cmds[i].path \in SrcNodes
    BY <1>1, CommandKnown
  <2>2. cmds[i].path = c.path
    BY <1>1, <1>3, <1>9, <2>1, Places
  <2>3. cmds[i].op \notin Enders
    BY <1>1, <2>1, <2>2, ReadyLists DEF InSequence, Precedes
  <2> QED BY <1>9, <2>3 DEF Changers, Enders
<1>10. ~Spent(p)
  BY <1>8, <1>9 DEF Spent
<1> QED BY <1>3, <1>5, <1>6, <1>7, <1>10, Unspent

\* WrittenInv after a command that leaves a temporary file open.
LEMMA WrittenNext ==
  ASSUME Ready, NEW op, Take(op), relocs' = relocs,
         NEW p, p = cmds[next].path, NEW f, f = temp'.file, NEW bytes, bytes = dst'[f],
         temp'.local = world.dst[Place(p)], Beside(f, Place(p)), IsFile(dst', f),
         Len(bytes) = Len(src[p]),
         \A r \in DstNodes : IsFile(world.dst, r) /\ Located(r) = f => Spent(r)',
         \A i \in Past : cmds[i].path = p /\ cmds[i].op \in Copies => Copied(bytes, cmds[i]),
         op \in Copies => Copied(bytes, cmds[next])
  PROVE  WrittenInv'
<1>1. /\ UNCHANGED <<world, cmds>> /\ Past' = Past \cup {next} /\ cmds[next].op = op
      /\ cmds'[next' - 1] = cmds[next]
  BY PastGrows, ReadyParts, TakeFacts
<1>2. /\ src' = src /\ Place(p)' = Place(p)
      /\ DstNodes' = DstNodes /\ \A q : Located(q)' = Located(q)
  BY <1>1, WorldConstant DEF Place, src, Located
<1>3. \A i \in Past \cup {next} :
        cmds[i].path = p /\ cmds[i].op \in Copies => Copied(bytes, cmds[i])
  BY <1>1
<1>4. Written(p)'
  BY <1>1, <1>2, <1>3 DEF Written, Beside, Copied
<1>5. cmds'[next' - 1].path = p
  BY <1>1
<1> QED BY <1>4, <1>5 DEF WrittenInv, Written, Beside, Copied, Place, src, Spent, Uses, Past, Located,
                         DstNodes

\* A temporary file is opened for the file.
LEMMA FitLocalTemp ==
  ASSUME Ready, IInv', ExecLocalTemp
  PROVE  pc' = "exec" /\ RunInv'
<1> DEFINE c == cmds[next]
           p == Place(c.path)
           e == Zeros(c.size)
<1>1. Take("LocalTemp") /\ relocs' = relocs /\ "LocalTemp" \in Openers
  BY DEF ExecLocalTemp, Openers
<1>2. /\ next \in DOMAIN cmds /\ c.op = "LocalTemp" /\ Past \subseteq DOMAIN cmds
      /\ \A i \in Past : i < next
      /\ IsWorld(world) /\ IsTree(dst) /\ InDirs(dst)
  BY <1>1, PastGrows, ReadyParts
<1>3. /\ Located(c.path) = p /\ p \in DOMAIN dst /\ IsFile(dst, p) /\ dst[p] = world.dst[p]
      /\ p \in Path /\ IsFile(world.dst, p) /\ p \in DstNodes
  BY <1>1, PlaceUnspent
<1>4. PICK file \in FreshPaths(dst, ParentDir(p)) :
        /\ Finish(Ok(Put(dst, file, e)))
        /\ temp' = [local |-> dst[p], file |-> file]
  BY <1>3 DEF ExecLocalTemp, Exists
<1>5. pc' = "exec" /\ dst' = Put(dst, file, e) /\ temp'.local = dst[p] /\ temp'.file = file
  BY <1>4 DEF Finish, Ok
<1>6. c \in Command /\ IsFile(src, c.path) /\ c.size = Len(src[c.path]) /\ c.size \in Nat
  BY <1>2, CommandKnown, CommandFields DEF Apt, Informed
<1>7. e \in Entry /\ Len(e) = c.size /\ e # Dir
  <2>1. e \in Seq(Byte)
    BY <1>6, ZerosType
  <2>2. Len(e) = c.size
    <3> DEFINE n == c.size
    <3>1. n \in Nat
      BY <1>6
    <3> HIDE DEF n
    <3>2. Len([i \in 1..n |-> 0]) = n
      BY <3>1
    <3> QED BY <3>2 DEF Zeros, n
  <2> QED BY <2>1, <2>2, EntryAssumption DEF Entry
<1> HIDE DEF c, p, e
<1>8. ParentDir(p) \in Path
  BY <1>3, PrefixPath
<1>9. /\ file \in Path /\ file # <<>> /\ TempNamed(file) /\ ParentDir(file) = ParentDir(p)
      /\ file \notin DOMAIN dst
  BY <1>8, InventedName DEF FreshPaths, Exists
<1>10. p # <<>>
  BY <1>2, <1>3, WorldsAssumption DEF IsWorld, IsStore, IsDir, IsFile
<1>11. IsDir(dst, ParentDir(p))
  <2>1. IsPrefix(ParentDir(p), p) /\ ParentDir(p) # p
    BY <1>3, <1>10, ParentFacts DEF IsStrictPrefix
  <2> QED BY <1>2, <1>3, <1>8, <2>1, InDirsAbove
<1>12. ~IsDir(dst, file) /\ IsDir(dst, ParentDir(file))
  BY <1>9, <1>11 DEF IsDir, Exists
<1>13. /\ DOMAIN Put(dst, file, e) = DOMAIN dst \cup {file} /\ Put(dst, file, e)[file] = e
       /\ \A q \in DOMAIN dst : q # file => SameAt(dst, Put(dst, file, e), q)
  <2>1. /\ file \in Path /\ e \in Entry /\ ~IsDir(dst, file)
        /\ file # <<>> /\ IsDir(dst, ParentDir(file))
    BY <1>7, <1>9, <1>12
  <2> QED BY <1>2, <2>1, PutDirs
<1>14. /\ DOMAIN dst' = DOMAIN dst \cup {file} /\ dst'[file] = e
       /\ \A q \in DOMAIN dst : SameAt(dst, dst', q)
  BY <1>5, <1>9, <1>13
<1>15. IntactInv'
  <2> SUFFICES ASSUME NEW q \in DstNodes, IsFile(world.dst, q), ~Spent(q)'
               PROVE  SameAt(dst, dst', Located(q))
    BY <1>1, IntactSame
  <2>1. ~Spent(q)
    BY <1>1, SpentGrows
  <2> QED BY <1>14, <2>1, Unspent
<1>16. MadeInv'
  <2> SUFFICES ASSUME NEW i \in Past, cmds[i].op \in Changers
               PROVE  SameAt(dst, dst', Place(cmds[i].path))
    BY <1>1, MadeNext DEF Changers
  <2> QED BY <1>14 DEF Ready, RunInv, MadeInv, Holds, IsFile, Exists
<1>17. EntriesInv'
  <2>1. Origin(file, dst'[file])
    BY <1>7, <1>9, <1>14 DEF Origin
  <2> QED BY <1>1, <1>14, <2>1, EntriesNext
<1>18. DistinctInv' /\ MovedInv'
  BY <1>1, RelocsNext
<1>19. WrittenInv'
  <2>1. IsFile(dst', file)
    BY <1>7, <1>14 DEF IsFile, Exists
  <2>2. \A r \in DstNodes : IsFile(world.dst, r) /\ Located(r) = file => Spent(r)'
    BY <1>1, <1>9, Unspent, SpentGrows
  <2>3. ASSUME NEW i \in Past, cmds[i].path = c.path, cmds[i].op \in Copies  PROVE FALSE
    <3>1. i \in DOMAIN cmds /\ i < next
      BY <1>2
    <3>2. c.op \notin Starters
      BY <1>2, <2>3, <3>1, ReadyLists DEF InSequence, Precedes, c
    <3> QED BY <1>2, <3>2 DEF Starters
  <2>4. "LocalTemp" \notin Copies
    BY DEF Copies
  <2>5. temp'.local = world.dst[Place(c.path)]
    BY <1>3, <1>5 DEF p
  <2> DEFINE path == c.path
  <2>6. path = cmds[next].path
    BY DEF c
  <2>7. Len(e) = Len(src[path])
    BY <1>6, <1>7
  <2>8. Beside(file, Place(path))
    BY DEF Beside, FreshPaths, p
  <2> HIDE DEF path
  <2> QED BY <1>1, <1>5, <1>14, <2>1, <2>2, <2>3, <2>4, <2>5, <2>6, <2>7, <2>8, WrittenNext
          DEF path
<1>20. DirsInv'
  BY <1>1, <1>14, DirsNext DEF SameAt, IsDir, Exists
<1> QED BY <1>5, <1>15, <1>16, <1>17, <1>18, <1>19, <1>20 DEF RunInv

\* A range that is there.
LEMMA SliceWithin ==
  ASSUME NEW c \in Seq(Byte), NEW o \in Nat, NEW n \in Nat, n # 0, o + n <= Len(c)
  PROVE  /\ Slice(c, o, n) \in Seq(Byte) /\ Len(Slice(c, o, n)) = n
         /\ \A j \in 1..n : Slice(c, o, n)[j] = c[o + j]
<1> DEFINE a == o + 1
           b == o + n
           s == SubSeq(c, a, b)
<1>1. Len(c) \in Nat
  BY LenProperties
<1>2. a \in Int /\ b \in Int /\ a <= b /\ b - a + 1 = n /\ \A i \in a..b : i \in 1..Len(c)
  BY <1>1
<1>3. Slice(c, o, n) = s
  <2>1. o + n < Len(c) \/ Len(c) = b
    BY <1>1
  <2> QED BY <2>1 DEF Slice
<1>4. \A j \in 1..n : a + j - 1 = o + j
  OBVIOUS
<1> HIDE DEF a, b
<1>5. \A i \in a..b : c[i] \in Byte
  BY <1>2, ElementOfSeq
<1>6. s \in Seq(Byte) /\ Len(s) = n /\ \A j \in 1..n : s[j] = c[a + j - 1]
  BY <1>2, <1>5, SubSeqProperties
<1> QED BY <1>3, <1>4, <1>6

\* Bytes that are written into a file.
LEMMA WriteWithin ==
  ASSUME NEW c \in Seq(Byte), NEW o \in Nat, NEW b \in Seq(Byte), Len(b) # 0,
         o + Len(b) <= Len(c)
  PROVE  /\ Len(WriteAt(c, o, b)) = Len(c)
         /\ \A i \in 1..Len(c) :
              WriteAt(c, o, b)[i] = IF i > o /\ i <= o + Len(b) THEN b[i - o] ELSE c[i]
<1> DEFINE n == Len(c)
           end == o + Len(b)
           e(i) == IF i > o /\ i <= end THEN b[i - o] ELSE IF i <= n THEN c[i] ELSE 0
<1>1. n \in Nat /\ Len(b) \in Nat /\ end \in Nat /\ end <= n
  BY LenProperties
<1>2. b # <<>>
  BY EmptySeq
<1>3. WriteAt(c, o, b) = [i \in 1..n |-> e(i)]
  <2>1. (IF end > n THEN end ELSE n) = n
    BY <1>1
  <2> QED BY <1>2, <2>1 DEF WriteAt
<1>4. Len([i \in 1..n |-> e(i)]) = n
  <2> HIDE DEF n, e
  <2> QED BY <1>1
<1>5. \A i \in 1..n : e(i) = IF i > o /\ i <= end THEN b[i - o] ELSE c[i]
  BY <1>1
<1> HIDE DEF n, end, e
<1>6. \A i \in 1..n : WriteAt(c, o, b)[i] = e(i)
  BY <1>3
<1> QED BY <1>3, <1>4, <1>5, <1>6 DEF n, end

\* What is copied goes to where it came from, within the file.
LEMMA CopyBound ==
  ASSUME Ready, NEW d \in All(cmds), d.op \in Copies
  PROVE  /\ d.from \in Nat /\ d.to = d.from /\ d.length \in Nat /\ d.length # 0
         /\ d.from + d.length <= Len(src[d.path]) /\ Len(src[d.path]) \in Nat
<1>1. ASSUME NEW e \in All(cmds), e.op \in Copies
      PROVE  /\ Informed(All(cmds), e) /\ Len(src[e.path]) \in Nat
             /\ e.from \in Nat /\ e.to \in Nat /\ e.length \in Int
  <2>1. PICK i \in DOMAIN cmds : e = cmds[i]
    BY DEF All
  <2>2. e \in Command /\ Apt(e) /\ Informed(All(cmds), e)
    BY <2>1, CommandKnown
  <2>3. src[e.path] \in Seq(Byte)
    BY <1>1, <2>2, ReadyParts, WorldFacts, FileBytes DEF Apt, Copies
  <2> QED BY <1>1, <2>2, <2>3, CommandFields, LenProperties DEF Copies
<1>2. ASSUME NEW e \in All(cmds), e.op = "LocalTempCopy"
      PROVE  e.to = e.from /\ e.length > 0 /\ e.from + e.length <= Len(src[e.path])
  <2>1. PICK i \in DOMAIN cmds : e = cmds[i]
    BY DEF All
  <2>2. e.from = e.to /\ e.length > 0
    BY <1>2, <2>1 DEF Ready, FitToRun, BlocksInPlace, OpsOf
  <2> DEFINE n == Len(src[e.path])
  <2>3. e.length = (IF n - e.from > BlockSize THEN BlockSize ELSE n - e.from)
    BY <1>1, <1>2 DEF Informed, Copies
  <2>4. n \in Nat /\ e.from \in Nat /\ e.length \in Int /\ BlockSize \in Nat
    BY <1>1, <1>2, BlockSizeAssumption DEF Copies
  <2> HIDE DEF n
  <2>5. e.from + e.length <= n
    BY <2>3, <2>4
  <2> QED BY <2>2, <2>5 DEF n
<1>3. CASE d.op = "LocalTempCopy"
  BY <1>1, <1>2, <1>3
<1>4. CASE d.op = "SrcTempCopy"
  <2> DEFINE n == Len(src[d.path])
  <2>1. /\ d.from = d.to /\ d.length > 0
        /\ \/ d.from + d.length <= n
           \/ \E e \in All(cmds) : /\ e.op = "LocalTempCopy" /\ e.path = d.path
                                   /\ e.to = d.from + d.length
    BY <1>1, <1>4 DEF Informed
  <2>2. n \in Nat /\ d.from \in Nat /\ d.length \in Int
    BY <1>1
  <2>3. d.from + d.length <= n
    <3>1. CASE d.from + d.length <= n
      BY <3>1
    <3>2. CASE ~(d.from + d.length <= n)
      <4>1. PICK e \in All(cmds) : /\ e.op = "LocalTempCopy" /\ e.path = d.path
                                   /\ e.to = d.from + d.length
        BY <2>1, <3>2
      <4>2. e.to = e.from /\ e.length > 0 /\ e.from + e.length <= n
        BY <1>2, <4>1
      <4>3. e.from \in Nat /\ e.length \in Int
        BY <1>1, <4>1 DEF Copies
      <4> HIDE DEF n
      <4> QED BY <2>2, <4>1, <4>2, <4>3
    <3> QED BY <3>1, <3>2
  <2> HIDE DEF n
  <2> QED BY <2>1, <2>2, <2>3 DEF n
<1> QED BY <1>3, <1>4 DEF Copies

\* The temporary file that a command needs is the one for its path.
LEMMA FindsWritten ==
  ASSUME Ready, NEW op \in Needers, At(op), NEW p, p = cmds[next].path
  PROVE  Written(p)
<1>1. next \in DOMAIN cmds /\ cmds[next].op = op
  BY PastKnown
<1>2. cmds[next - 1].path = p
  BY <1>1, ReadyLists DEF Chained
<1>3. Open
  BY ReadyParts, IsOpen
<1> QED BY <1>2, <1>3 DEF Ready, RunInv, WrittenInv

\* new is old, with n bytes of s, after the first o, in their place.
Spliced(new, old, s, o, n) ==
  /\ new \in Seq(Byte) /\ Len(new) = Len(s)
  /\ \A i \in 1..Len(s) : new[i] = IF i > o /\ i <= o + n THEN s[i] ELSE old[i]

\* A range of the source's file written over the same range of a file as long.
LEMMA CopyWithin ==
  ASSUME NEW old \in Seq(Byte), NEW s \in Seq(Byte), Len(old) = Len(s), NEW o \in Nat,
         NEW n \in Nat, n # 0, o + n <= Len(s), NEW new, new = WriteAt(old, o, Slice(s, o, n))
  PROVE  Spliced(new, old, s, o, n)
<1> DEFINE b == Slice(s, o, n)
<1>1. b \in Seq(Byte) /\ Len(b) = n /\ \A j \in 1..n : b[j] = s[o + j]
  BY SliceWithin
<1>2. new = WriteAt(old, o, b)
  OBVIOUS
<1> HIDE DEF b
<1>3. /\ Len(new) = Len(s)
      /\ \A i \in 1..Len(s) : new[i] = IF i > o /\ i <= o + n THEN b[i - o] ELSE old[i]
  BY <1>1, <1>2, WriteWithin
<1>4. new \in Seq(Byte)
  BY <1>1, <1>2, WriteAtType
<1>5. ASSUME NEW i \in 1..Len(s), i > o, i <= o + n  PROVE b[i - o] = s[i]
  <2>1. i - o \in 1..n /\ o + (i - o) = i
    BY <1>5, LenProperties
  <2> QED BY <1>1, <2>1
<1> QED BY <1>3, <1>4, <1>5 DEF Spliced

\* A copy brings the bytes of the source.
LEMMA CopyStep ==
  ASSUME Ready, IInv', NEW op \in Copies, Take(op), NEW c, c = cmds[next],
         NEW contents \in Seq(Byte), Finish(CopyToTemp(c, contents)), UNCHANGED <<relocs, temp>>,
         c.from + c.length <= Len(contents),
         Slice(contents, c.from, c.length) = Slice(src[c.path], c.from, c.length)
  PROVE  pc' = "exec" /\ RunInv'
<1> DEFINE p == c.path
           f == temp.file
           s == src[p]
           old == dst[f]
           b == Slice(s, c.from, c.length)
           new == WriteAt(old, c.to, b)
<1>1. /\ op \in Openers \cup Needers /\ op \in Needers /\ op \notin Changers /\ op # "Conflict"
      /\ op \in {"LocalTempCopy", "SrcTempCopy"}
  BY DEF Openers, Needers, Copies, Changers
<1>2. /\ next \in DOMAIN cmds /\ c.op = op /\ Past \subseteq DOMAIN cmds /\ c \in All(cmds)
      /\ IsWorld(world) /\ IsTree(dst) /\ InDirs(dst) /\ IInv /\ RelocsInv /\ Apt(c)
      /\ c.path \in SrcNodes
  BY PastGrows, ReadyParts, CommandKnown
<1>3. /\ c.from \in Nat /\ c.to = c.from /\ c.length \in Nat /\ c.length # 0
      /\ c.from + c.length <= Len(s) /\ Len(s) \in Nat
  BY <1>2, CopyBound
<1>4. s \in Seq(Byte)
  BY <1>1, <1>2, WorldFacts, FileBytes DEF Apt
<1>5. Written(p)
  BY <1>1, FindsWritten, TakeAt
<1>6. /\ f \in DOMAIN dst /\ old \in Seq(Byte) /\ f \in Path /\ TempNamed(f)
  <2>1. /\ f \in DOMAIN dst /\ old \in Seq(Byte) /\ f \in Path
    BY <1>1, <1>2, TempIsOpen, TakeAt
  <2>2. TempNamed(f)
    BY <1>1, <1>2, ReadyParts, IsOpen, TakeAt DEF LitterInv
  <2> QED BY <2>1, <2>2
<1>7. Len(old) = Len(s)
  BY <1>5 DEF Written
<1>8. CopyToTemp(c, contents) = Ok(Put(dst, f, new))
  <2>1. ~(c.length <= 0)
    BY <1>3
  <2>2. Len(b) = c.length
    BY <1>3, <1>4, SliceWithin
  <2>3. ~(Len(b) < c.length)
    BY <1>3, <2>2
  <2>4. Slice(contents, c.from, c.length) = b
    OBVIOUS
  <2> HIDE DEF b
  <2> QED BY <2>1, <2>3, <2>4 DEF CopyToTemp
<1>9. pc' = "exec" /\ dst' = Put(dst, f, new)
  BY <1>8 DEF Finish, Ok
<1>10. /\ new \in Seq(Byte) /\ Len(new) = Len(s)
       /\ \A i \in 1..Len(s) :
            new[i] = IF i > c.from /\ i <= c.from + c.length THEN s[i] ELSE old[i]
  <2> DEFINE o == c.from
             n == c.length
  <2>1. new = WriteAt(old, o, Slice(s, o, n))
    BY <1>3
  <2>2. o \in Nat /\ n \in Nat /\ n # 0 /\ o + n <= Len(s)
    BY <1>3
  <2>3. old \in Seq(Byte) /\ s \in Seq(Byte) /\ Len(old) = Len(s)
    BY <1>4, <1>6, <1>7
  <2> HIDE DEF s, old, new, o, n
  <2>4. Spliced(new, old, s, o, n)
    BY <2>1, <2>2, <2>3, CopyWithin
  <2> QED BY <2>4 DEF Spliced, o, n
<1> HIDE DEF new, old
<1>11. new # Dir /\ new \in Entry
  BY <1>10, EntryAssumption DEF Entry
<1>12. /\ DOMAIN dst' = DOMAIN dst /\ dst'[f] = new
       /\ \A q \in DOMAIN dst : q # f => SameAt(dst, dst', q)
  BY <1>6, <1>9 DEF Put, SameAt
<1> DEFINE copied(bytes, d) == \A x \in Nat :
             d.to <= x /\ x < d.to + d.length => bytes[x + 1] = s[x + 1]
<1>13. copied(new, c)
  <2> SUFFICES ASSUME NEW x \in Nat, c.to <= x, x < c.to + c.length  PROVE new[x + 1] = s[x + 1]
    OBVIOUS
  <2>1. x + 1 \in 1..Len(s) /\ x + 1 > c.from /\ x + 1 <= c.from + c.length
    BY <1>3
  <2> QED BY <1>10, <2>1
<1>14. ASSUME NEW d \in All(cmds), d.op \in Copies, d.path = p, copied(old, d)
       PROVE  copied(new, d)
  <2> SUFFICES ASSUME NEW x \in Nat, d.to <= x, x < d.to + d.length  PROVE new[x + 1] = s[x + 1]
    OBVIOUS
  <2>1. d.to = d.from /\ d.from \in Nat /\ d.length \in Nat /\ d.from + d.length <= Len(s)
    BY <1>14, CopyBound
  <2>2. x + 1 \in 1..Len(s)
    BY <1>3, <2>1
  <2>3. old[x + 1] = s[x + 1]
    BY <1>14
  <2> QED BY <1>10, <2>2, <2>3
<1>15. IntactInv'
  <2> SUFFICES ASSUME NEW q \in DstNodes, IsFile(world.dst, q), ~Spent(q)'
               PROVE  SameAt(dst, dst', Located(q))
    BY IntactSame
  <2>1. ~Spent(q)
    BY SpentGrows
  <2>2. Located(q) # f
    BY <1>5, <2>1 DEF Written
  <2> QED BY <1>12, <2>1, <2>2, Unspent
<1>16. MadeInv'
  <2> SUFFICES ASSUME NEW i \in Past, cmds[i].op \in Changers
               PROVE  SameAt(dst, dst', Place(cmds[i].path))
    BY <1>1, MadeNext
  <2>1. Place(cmds[i].path) # f
    BY <1>2, <1>6, CommandKnown, Places
  <2>2. Place(cmds[i].path) \in DOMAIN dst
    BY DEF Ready, RunInv, MadeInv, Holds, IsFile, Exists
  <2> QED BY <1>12, <2>1, <2>2
<1>17. EntriesInv'
  <2>1. Origin(f, dst'[f])
    BY <1>6, <1>11, <1>12 DEF Origin
  <2> QED BY <1>12, <2>1, EntriesNext
<1>18. DistinctInv' /\ MovedInv'
  BY <1>1, RelocsNext
<1>19. WrittenInv'
  <2>1. f = temp'.file /\ IsFile(dst', f)
    BY <1>6, <1>11, <1>12 DEF IsFile, Exists
  <2>2. temp'.local = world.dst[Place(p)]
    BY <1>5 DEF Written
  <2>3. \A r \in DstNodes : IsFile(world.dst, r) /\ Located(r) = f => Spent(r)'
    BY <1>5, SpentGrows DEF Written
  <2>4. ASSUME NEW i \in Past, cmds[i].path = p, cmds[i].op \in Copies
        PROVE  Copied(new, cmds[i])
    <3>1. cmds[i] \in All(cmds)
      BY <1>2 DEF All
    <3>2. copied(old, cmds[i])
      BY <1>5, <2>4 DEF Written, Copied, old
    <3> QED BY <1>14, <2>4, <3>1, <3>2 DEF Copied
  <2>5. Copied(new, c)
    BY <1>13 DEF Copied
  <2> DEFINE path == c.path
             file == f
  <2>6. path = cmds[next].path /\ file = temp'.file /\ new = dst'[file] /\ path = p
    BY <1>12, <2>1
  <2> HIDE DEF path, file
  <2>7. /\ Len(new) = Len(src[path]) /\ temp'.local = world.dst[Place(path)]
        /\ IsFile(dst', file) /\ Beside(file, Place(path))
    BY <1>5, <1>10, <2>1, <2>2 DEF path, file, Written
  <2>8. \A r \in DstNodes : IsFile(world.dst, r) /\ Located(r) = file => Spent(r)'
    BY <2>3 DEF file
  <2>9. \A i \in Past : cmds[i].path = path /\ cmds[i].op \in Copies => Copied(new, cmds[i])
    BY <2>4 DEF path
  <2> QED BY <2>5, <2>6, <2>7, <2>8, <2>9, WrittenNext
<1>20. DirsInv'
  <2>1. ~IsDir(dst, f)
    BY <1>5 DEF Written, IsFile, IsDir
  <2> QED BY <1>12, <2>1, DirsNext DEF SameAt, IsDir, Exists
<1> QED BY <1>9, <1>15, <1>16, <1>17, <1>18, <1>19, <1>20 DEF RunInv

\* A block that the destination has.
LEMMA FitLocalTempCopy ==
  ASSUME Ready, IInv', ExecLocalTempCopy
  PROVE  pc' = "exec" /\ RunInv'
<1> DEFINE c == cmds[next]
           contents == temp.local
<1>1. /\ Take("LocalTempCopy") /\ UNCHANGED <<relocs, temp>>
      /\ Finish(IF contents = Dir THEN Err(dst) ELSE CopyToTemp(c, contents))
      /\ "LocalTempCopy" \in Copies /\ "LocalTempCopy" \in Needers
  BY DEF ExecLocalTempCopy, Copies, Needers
<1>2. next \in DOMAIN cmds /\ c.op = "LocalTempCopy" /\ IsWorld(world)
  BY <1>1, PastGrows, ReadyParts
<1>3. contents = world.dst[Place(c.path)] /\ IsFile(world.dst, Place(c.path))
  <2>1. Written(c.path)
    BY <1>1, FindsWritten, TakeAt
  <2>2. IsFile(world.dst, Place(c.path))
    BY <1>1, PlaceUnspent
  <2> QED BY <2>1, <2>2 DEF Written
<1>4. contents \in Seq(Byte) /\ contents # Dir
  BY <1>2, <1>3, WorldFacts, FileBytes DEF IsFile
<1>5. /\ c.from + c.length <= Len(contents)
      /\ Slice(contents, c.from, c.length) = Slice(src[c.path], c.from, c.length)
  <2>1. next \in OpsOf("LocalTempCopy") /\ BlocksInPlace
    BY <1>2 DEF OpsOf, Ready, FitToRun
  <2> QED BY <1>3, <2>1 DEF BlocksInPlace, Place
<1> HIDE DEF contents, c
<1> QED BY <1>1, <1>4, <1>5, CopyStep DEF c, contents

\* What the destination has not got.
LEMMA FitSrcTempCopy ==
  ASSUME Ready, IInv', ExecSrcTempCopy
  PROVE  pc' = "exec" /\ RunInv'
<1> DEFINE c == cmds[next]
           contents == src[c.path]
<1>1. /\ Take("SrcTempCopy") /\ UNCHANGED <<relocs, temp>>
      /\ Finish(CopyToTemp(c, contents))
      /\ "SrcTempCopy" \in Copies
  BY DEF ExecSrcTempCopy, Copies
<1>2. next \in DOMAIN cmds /\ c.op = "SrcTempCopy" /\ IsWorld(world) /\ c \in All(cmds)
  BY <1>1, PastGrows, ReadyParts, CommandKnown
<1>3. contents \in Seq(Byte)
  BY <1>2, CommandKnown, WorldFacts, FileBytes DEF Apt
<1>4. c.from + c.length <= Len(contents)
  BY <1>1, <1>2, CopyBound
<1>5. Slice(contents, c.from, c.length) = Slice(src[c.path], c.from, c.length)
  OBVIOUS
<1> HIDE DEF contents, c
<1> QED BY <1>1, <1>3, <1>4, <1>5, CopyStep DEF c, contents

\* When the temporary file takes the file's place all its bytes have been copied.
LEMMA WrittenWhole ==
  ASSUME Ready, At("ReplaceWithTemp"), NEW p, p = cmds[next].path
  PROVE  dst[temp.file] = src[p] /\ Written(p)
<1>1. /\ next \in DOMAIN cmds /\ cmds[next].op = "ReplaceWithTemp" /\ Past \subseteq DOMAIN cmds
      /\ \A i \in DOMAIN cmds : i \in Past \/ i = next \/ next < i
      /\ IsWorld(world) /\ IInv /\ "ReplaceWithTemp" \in Needers
  BY PastKnown, ReadyParts DEF Needers
<1>2. Written(p)
  BY <1>1, FindsWritten
<1> DEFINE s == src[p]
           w == dst[temp.file]
           n == Len(s)
<1>3. s \in Seq(Byte) /\ w \in Seq(Byte) /\ Len(w) = n /\ n \in Nat
  <2>1. IsFile(src, p)
    BY <1>1, CommandKnown DEF Apt
  <2>2. s \in Seq(Byte)
    BY <1>1, <2>1, WorldFacts, FileBytes
  <2>3. IsTree(dst) /\ IsFile(dst, temp.file)
    BY <1>2, ReadyParts DEF Written
  <2>4. w \in Seq(Byte)
    BY <2>3, FileBytes
  <2> QED BY <1>2, <2>2, <2>4, LenProperties DEF Written
<1>4. Covered(All(cmds), p, n)
  BY <1>1, CommandKnown DEF Informed
<1>5. ASSUME NEW x \in Nat, x < n  PROVE w[x + 1] = s[x + 1]
  <2>1. PICK d \in All(cmds) : d.path = p /\ Covers(d, x)
    BY <1>4, <1>5 DEF Covered
  <2>2. PICK i \in DOMAIN cmds : d = cmds[i]
    BY DEF All
  <2>3. d.op \in Copies /\ d.op # "ReplaceWithTemp"
    BY <2>1 DEF Covers, Copies
  <2>4. ~(next < i)
    BY <1>1, <2>1, <2>2, ReadyLists DEF InSequence, Precedes, Enders
  <2>5. i \in Past
    BY <1>1, <2>2, <2>3, <2>4
  <2>6. Copied(w, d)
    BY <1>2, <2>1, <2>2, <2>3, <2>5 DEF Written
  <2>7. d.from \in Nat /\ d.to = d.from /\ d.length \in Nat
    BY <2>3, CopyBound
  <2>8. d.op = "LocalTempCopy" =>
          d.length = (IF n - d.from > BlockSize THEN BlockSize ELSE n - d.from)
    BY <2>1, ReadyLists DEF Informed
  <2> HIDE DEF n
  <2>9. d.to <= x /\ x < d.to + d.length
    BY <1>3, <1>5, <2>1, <2>7, <2>8, BlockSizeAssumption DEF Covers
  <2> QED BY <2>1, <2>6, <2>9 DEF Copied
<1> HIDE DEF s, w
<1>6. ASSUME NEW k \in 1..n  PROVE w[k] = s[k]
  <2> DEFINE x == k - 1
  <2>1. x \in Nat /\ x < n /\ x + 1 = k
    BY <1>3
  <2> HIDE DEF x, n
  <2> QED BY <1>5, <2>1
<1>7. w = s
  BY <1>3, <1>6, SeqEqual
<1> QED BY <1>2, <1>7 DEF w, s

\* The temporary file takes the file's place.
LEMMA FitReplace ==
  ASSUME Ready, IInv', ExecReplaceWithTemp
  PROVE  pc' = "exec" /\ RunInv'
<1> DEFINE c == cmds[next]
           p == Place(c.path)
           f == temp.file
           x == OsRemove(dst, p)
           t == x.tree
           r == Move(t, f, p)
           S == {f}
<1>1. /\ Take("ReplaceWithTemp") /\ relocs' = relocs
      /\ "ReplaceWithTemp" \in Needers /\ "ReplaceWithTemp" \in Changers
  BY DEF ExecReplaceWithTemp, Needers, Changers
<1>2. /\ next \in DOMAIN cmds /\ Past \subseteq DOMAIN cmds
      /\ IsWorld(world) /\ IsTree(dst) /\ InDirs(dst) /\ IInv /\ RelocsInv /\ LitterInv
  BY <1>1, PastGrows, ReadyParts
<1>3. /\ Located(c.path) = p /\ p \in DOMAIN dst /\ IsFile(dst, p) /\ p \in Path /\ ~TempNamed(p)
      /\ IsFile(world.dst, p)
  BY <1>1, PlaceUnspent
<1>4. Finish(IF x.ok THEN r ELSE x)
  BY <1>3 DEF ExecReplaceWithTemp
<1>5. dst[f] = src[c.path] /\ Written(c.path)
  BY <1>1, WrittenWhole, TakeAt
<1>6. f \in DOMAIN dst /\ IsFile(dst, f) /\ f \in Path /\ TempNamed(f)
  <2>1. IsFile(dst, f) /\ f \in DOMAIN dst
    BY <1>5 DEF Written, IsFile, Exists
  <2>2. TempNamed(f)
    BY <1>1, <1>2, IsOpen, TakeAt DEF LitterInv
  <2> QED BY <1>2, <2>1, <2>2 DEF IsTree
<1>7. f # p
  BY <1>3, <1>6
<1>8. /\ IsTree(t) /\ InDirs(t)
      /\ \A q \in DOMAIN dst : q # p => SameAt(dst, t, q)
      /\ \A q \in DOMAIN t : q \in DOMAIN dst /\ SameAt(dst, t, q)
      /\ x.ok /\ p \notin DOMAIN t
  <2> HIDE DEF p
  <2> QED BY <1>2, <1>3, RemoveFacts
<1>9. IsDir(t, ParentDir(p))
  <2>1. p # <<>>
    BY <1>2, <1>3, WorldsAssumption DEF IsWorld, IsStore, IsDir, IsFile
  <2>2. ParentDir(p) \in Path
    BY <1>3, PrefixPath
  <2>3. IsPrefix(ParentDir(p), p) /\ ParentDir(p) # p
    BY <1>3, <2>1, ParentFacts DEF IsStrictPrefix
  <2>4. IsDir(dst, ParentDir(p))
    BY <1>2, <1>3, <2>2, <2>3, InDirsAbove
  <2> QED BY <1>8, <2>3, <2>4 DEF IsDir, Exists, SameAt
<1>10. IsFile(t, f) /\ t[f] = dst[f] /\ ~IsDir(t, p)
  BY <1>6, <1>7, <1>8 DEF IsFile, IsDir, Exists, SameAt
<1> HIDE DEF t, x, p, f
<1>11. /\ r.ok /\ Makes(t, r.tree, p, t[f], {f})
       /\ \A q \in DOMAIN r.tree : (q \in DOMAIN t /\ SameAt(t, r.tree, q)) \/ q = p
  <2>1. r = Move(t, f, p)
    OBVIOUS
  <2> HIDE DEF r
  <2>2. IsTree(t) /\ InDirs(t) /\ f \in Path /\ p \in Path /\ f # p
    BY <1>3, <1>6, <1>7, <1>8
  <2> QED BY <1>9, <1>10, <2>1, <2>2, MoveMakes
<1> HIDE DEF r
<1>12. Makes(dst, r.tree, p, src[c.path], {f})
  <2>1. Holds(r.tree, p, src[c.path])
    BY <1>5, <1>10, <1>11 DEF Makes, f
  <2>2. \A q \in DOMAIN dst : q \notin {f} /\ q # p => SameAt(dst, r.tree, q)
    BY <1>8, <1>11 DEF Makes, SameAt
  <2>3. \A q \in DOMAIN r.tree : (q \in DOMAIN dst /\ SameAt(dst, r.tree, q)) \/ q = p
    BY <1>8, <1>11 DEF SameAt
  <2> QED BY <2>1, <2>2, <2>3 DEF Makes
<1>13. pc' = "exec" /\ Sets(p, src[c.path], S)
  BY <1>4, <1>8, <1>11, <1>12 DEF Finish, Sets
<1>14. \A q \in DstNodes : IsFile(world.dst, q) /\ Located(q) \in S => Spent(q)'
  <2> SUFFICES ASSUME NEW q \in DstNodes, IsFile(world.dst, q), Located(q) = f  PROVE Spent(q)'
    OBVIOUS
  <2>1. Spent(q)
    BY <1>5 DEF Written, f
  <2> QED BY <1>1, <2>1, SpentGrows
<1>15. \A i \in Past : cmds[i].op \in Changers => Place(cmds[i].path) \notin S
  BY <1>2, <1>6, CommandKnown, Places
<1>16. \A q \in S \cup {p} : ~IsDir(dst, q)
  BY <1>3, <1>6 DEF IsFile, IsDir
<1> HIDE DEF S, c
<1> QED BY <1>1, <1>13, <1>14, <1>15, <1>16, ChangerKeeps DEF c, p

-----------------------------------------------------------------------------
(* The end of the list.                                                    *)

\* Cleanup takes nothing away but what was moved.
LEMMA CleanupSpares ==
  ASSUME Ready, ExecDone
  PROVE  /\ \A q \in DOMAIN dst : ~TempNamed(q) => SameAt(dst, dst', q)
         /\ \A q \in DOMAIN dst' : q \in DOMAIN dst /\ SameAt(dst, dst', q) /\ Apart(q, relocs)
<1> DEFINE gone == UNION {Under(dst, relocs[p]) : p \in DOMAIN relocs}
<1>1. dst' = Without(dst, gone)
  BY DEF ExecDone
<1>2. \A q : q \in gone <=> q \in DOMAIN dst /\ \E p \in DOMAIN relocs : IsPrefix(relocs[p], q)
  BY DEF Under
<1> HIDE DEF gone
<1>3. DOMAIN dst' = DOMAIN dst \ gone /\ \A q \in DOMAIN dst \ gone : SameAt(dst, dst', q)
  BY <1>1 DEF Without, SameAt
<1>4. ASSUME NEW q \in DOMAIN dst, ~TempNamed(q)  PROVE q \notin gone
  <2>1. q \in Path
    BY ReadyParts DEF IsTree
  <2>2. \A p \in DOMAIN relocs : ~IsPrefix(relocs[p], q)
    BY <1>4, <2>1, RelocatedFile, TempPrefix
  <2> QED BY <1>2, <2>2
<1> QED BY <1>2, <1>3, <1>4 DEF Apart

\* A kept file is where it was, and no command makes another one there.
LEMMA KeptStays ==
  ASSUME Ready, NEW i \in DOMAIN cmds, cmds[i].op = "Keep", NEW p, p = cmds[i].path, IsFile(src, p)
  PROVE  /\ Holds(dst, Place(p), src[p]) /\ ~TempNamed(Place(p))
         /\ \A j \in DOMAIN cmds : cmds[j].op \in Changers => Place(cmds[j].path) # Place(p)
<1>1. /\ IInv /\ RelocsInv /\ IsWorld(world) /\ DOMAIN cmds = 1..Len(cmds) /\ Len(cmds) \in Nat
  BY ReadyParts
<1>2. p \in SrcNodes /\ p \in DstNodes /\ IsFile(world.dst, p) /\ src[p] = world.dst[p]
  BY KeepKnown, CommandKnown
<1>3. p \notin DOMAIN relocs
  BY <1>1 DEF RelocsInv, IsFile, IsDir
<1>4. Located(p) = p /\ Place(p) = p
  BY <1>1, <1>2, <1>3, LocatedNode, Places
<1>5. ASSUME NEW j \in DOMAIN cmds, cmds[j].op \in Changers, Place(cmds[j].path) = p
      PROVE  FALSE
  <2>1. cmds[j].path = p
    BY <1>1, <1>2, <1>4, <1>5, CommandKnown, Places
  <2>2. i < j \/ j < i
    BY <1>1, <1>5 DEF Changers
  <2>3. cmds[i].op \in Enders /\ cmds[j].op \in Enders
    BY <1>5 DEF Enders, Changers
  <2> QED BY <2>1, <2>2, <2>3, ReadyLists DEF InSequence, Precedes
<1>6. ~Spent(p)
  <2>1. i \in Uses(p)
    BY DEF Uses
  <2>2. Past \subseteq DOMAIN cmds
    BY ReadyParts DEF Past
  <2> QED BY <1>5, <2>1, <2>2 DEF Spent
<1> QED BY <1>1, <1>2, <1>4, <1>5, <1>6, Unspent, Places

\* When all commands have run every file of the source is where it belongs.
LEMMA AllMade ==
  ASSUME Ready, Past = DOMAIN cmds, NEW p \in SrcFiles
  PROVE  Holds(dst, Place(p), src[p])
<1>1. /\ IInv /\ RelocsInv /\ CoverInv /\ IsWorld(world) /\ pc = "exec"
      /\ DOMAIN cmds = 1..Len(cmds) /\ Len(cmds) \in Nat
      /\ p \in SrcNodes /\ IsFile(src, p)
  BY ReadyParts DEF SrcFiles
<1>2. PICK i \in DOMAIN cmds : cmds[i].path = p /\ cmds[i].op \in Makers
  <2>1. p \notin Pending
    BY <1>1 DEF CoverInv, Pending, Planned
  <2>2. PICK i \in DOMAIN cmds : MadeIn(cmds, p) = {i}
    BY <1>1, <2>1 DEF CoverInv, OnceBut
  <2> QED BY <2>2 DEF MadeIn
<1>3. \A j \in DOMAIN cmds :
        cmds[j].op \in Changers => Holds(dst, Place(cmds[j].path), src[cmds[j].path])
  BY DEF Ready, RunInv, MadeInv
<1>4. CASE cmds[i].op \in Changers
  BY <1>2, <1>3, <1>4
<1>5. CASE cmds[i].op = "LocalTemp"
  <2>1. PICK e \in All(cmds) : e.op = "ReplaceWithTemp" /\ e.path = p
    BY <1>2, <1>5, ReadyLists DEF Completed, All
  <2>2. PICK j \in DOMAIN cmds : e = cmds[j]
    BY DEF All
  <2> QED BY <1>3, <2>1, <2>2 DEF Changers
<1>6. CASE cmds[i].op = "Keep"
  BY <1>1, <1>2, <1>6, KeptStays
<1> QED BY <1>2, <1>4, <1>5, <1>6 DEF Makers, Changers

\* What is left is of the source, or Clean's.
LEMMA AllAccounted ==
  ASSUME Ready, Past = DOMAIN cmds, world.dstRoot = <<>>,
         NEW q \in DOMAIN dst, IsFile(dst, q), TempNamed(q) => q \in DOMAIN world.dst
  PROVE  q \in SrcFiles \cup unmatched
<1>1. CoverInv /\ IsWorld(world) /\ pc = "exec"
  BY ReadyParts
<1>2. /\ \A x : Place(x) = x
      /\ SrcNodes = DOMAIN src /\ DstNodes = DOMAIN world.dst
  BY <1>1, Places
<1>3. dst[q] # Dir /\ Origin(q, dst[q])
  BY DEF Ready, RunInv, EntriesInv, IsFile
<1>4. q \in SrcFiles \/ (IsFile(world.dst, q) /\ q \notin DOMAIN relocs)
  <2>1. CASE TempNamed(q)
    <3>1. IsFile(world.dst, q)
      BY <1>3, <2>1 DEF Ready, RunInv, DirsInv, IsFile, IsDir, Exists
    <3>2. q \notin SrcNodes /\ DOMAIN relocs \subseteq SrcNodes
      BY <1>1, <2>1, ReadyParts, StoreNames DEF IInv, TypeOK
    <3> QED BY <3>1, <3>2
  <2>2. CASE ~TempNamed(q)
    BY <1>2, <1>3, <2>2 DEF Origin
  <2> QED BY <2>1, <2>2
<1> SUFFICES ASSUME IsFile(world.dst, q), q \notin DOMAIN relocs, q \notin SrcFiles
             PROVE  q \in unmatched
  BY <1>4
<1>5. q \in DstNodes
  BY <1>2 DEF IsFile, Exists
<1>6. q \notin SrcNodes
  <2> SUFFICES ASSUME q \in SrcNodes  PROVE FALSE
    OBVIOUS
  <2>1. IsDir(src, q)
    BY <1>2 DEF SrcFiles, IsFile, IsDir, Exists
  <2>2. PICK i \in DOMAIN cmds : cmds[i].op = "Conflict" /\ cmds[i].path = q
    BY <2>1, GivesConflict
  <2> QED BY <2>2 DEF Ready, RunInv, MovedInv
<1> QED BY <1>1, <1>5, <1>6 DEF CoverInv

\* The patch is done.
LEMMA FitDone ==
  ASSUME Ready, LitterInv', ExecDone
  PROVE  pc' = "done" /\ CleanInv' /\ Synced'
<1>1. /\ pc' = "done" /\ next > Len(cmds) /\ UNCHANGED <<world, unmatched>>
  BY DEF ExecDone, planVars
<1>2. Past = DOMAIN cmds /\ IsWorld(world)
  BY <1>1, ReadyParts DEF Past
<1>3. ASSUME NEW p \in SrcFiles  PROVE Holds(dst', Place(p), src[p])
  <2>1. Holds(dst, Place(p), src[p])
    BY <1>2, AllMade
  <2>2. ~TempNamed(Place(p)) /\ Place(p) \in DOMAIN dst
    BY <1>2, <2>1, Places DEF Holds, IsFile, Exists, SrcFiles
  <2>3. SameAt(dst, dst', Place(p))
    BY <2>2, CleanupSpares
  <2> QED BY <2>1, <2>3 DEF Holds, SameAt, IsFile, Exists
<1>4. Synced'
  BY <1>1, <1>3 DEF Synced, SrcFiles, SrcNodes, src, Place, Holds
<1>5. ASSUME world.dstRoot = <<>>, NEW q \in DOMAIN dst', IsFile(dst', q)
      PROVE  q \in SrcFiles \cup unmatched
  <2>1. q \in DOMAIN dst /\ SameAt(dst, dst', q)
    BY CleanupSpares
  <2>2. IsFile(dst, q)
    BY <1>5, <2>1 DEF SameAt, IsFile, Exists
  <2>3. TempNamed(q) => q \in DOMAIN world.dst
    BY <1>1 DEF LitterInv
  <2> QED BY <1>2, <1>5, <2>1, <2>2, <2>3, AllAccounted
<1>6. CleanInv'
  <2>1. \A q \in DOMAIN dst' : Apart(q, relocs)
    BY CleanupSpares
  <2>2. relocs' = relocs
    BY DEF ExecDone
  <2> QED BY <1>1, <1>4, <1>5, <2>1, <2>2 DEF CleanInv, Files, SrcFiles, SrcNodes, src, Apart
<1> QED BY <1>1, <1>4, <1>6

\* Clean takes away a file that the source has not got.
LEMMA FitClean ==
  ASSUME FullInv, CleanInv, NEW u \in unmatched, Clean(u)
  PROVE  pc' = "clean" /\ CleanInv'
<1>1. /\ pc \in {"done", "clean"} /\ pc' = "clean"
      /\ dst' = OsRemove(dst, Located(u)).tree /\ unmatched' = unmatched \ {u} /\ world' = world
  BY DEF Clean
<1>2. /\ IInv /\ RelocsInv /\ IsTree(dst) /\ InDirs(dst) /\ IsWorld(world)
      /\ u \in DstNodes /\ u \notin SrcNodes /\ u \notin DOMAIN relocs
  BY <1>1 DEF FullInv, IInv, TypeOK, LitterInv, GuardInv, Planned
<1>3. Located(u) = u /\ u \in Path
  BY <1>2, LocatedNode
<1>4. /\ \A q \in DOMAIN dst : q # u => SameAt(dst, dst', q)
      /\ \A q \in DOMAIN dst' : q \in DOMAIN dst /\ SameAt(dst, dst', q)
      /\ IsFile(dst, u) => u \notin DOMAIN dst'
  <2> DEFINE r == OsRemove(dst, u)
  <2>1. /\ \A q \in DOMAIN dst : q # u => SameAt(dst, r.tree, q)
        /\ \A q \in DOMAIN r.tree : q \in DOMAIN dst /\ SameAt(dst, r.tree, q)
        /\ IsFile(dst, u) => r.ok
        /\ r.ok => u \notin DOMAIN r.tree
    BY <1>2, <1>3, RemoveFacts
  <2>2. dst' = r.tree
    BY <1>1, <1>3
  <2> HIDE DEF r
  <2> QED BY <2>1, <2>2
<1> SUFFICES ASSUME world.dstRoot = <<>>
             PROVE  /\ \A p \in SrcFiles : Holds(dst', Place(p), src[p])
                    /\ \A q \in DOMAIN dst' : IsFile(dst', q) => q \in SrcFiles \cup unmatched'
  <2>1. relocs' = relocs
    BY DEF Clean
  <2>2. \A q \in DOMAIN dst' : Apart(q, relocs)
    BY <1>4 DEF CleanInv
  <2> QED BY <1>1, <2>1, <2>2 DEF CleanInv, Synced, Holds, Place, Files, SrcFiles, SrcNodes, src, Apart
<1>5. \A p : Place(p) = p
  BY <1>2, Places
<1>6. ASSUME NEW p \in SrcFiles  PROVE Holds(dst', Place(p), src[p])
  <2>1. IsFile(dst, p) /\ dst[p] = src[p]
    BY <1>5 DEF CleanInv, Synced, Place
  <2>2. p # u /\ p \in DOMAIN dst
    BY <1>2, <2>1 DEF SrcFiles, IsFile, Exists
  <2> QED BY <1>4, <1>5, <2>1, <2>2 DEF Holds, SameAt, IsFile, Exists
<1>7. ASSUME NEW q \in DOMAIN dst', IsFile(dst', q)  PROVE q \in SrcFiles \cup unmatched'
  <2>1. q \in DOMAIN dst /\ IsFile(dst, q)
    BY <1>4, <1>7 DEF SameAt, IsFile, Exists
  <2>2. q # u
    BY <1>4, <2>1
  <2>3. q \in SrcFiles \cup unmatched
    BY <2>1 DEF CleanInv, Files
  <2> QED BY <1>1, <2>2, <2>3
<1> QED BY <1>6, <1>7

-----------------------------------------------------------------------------
(* FitInv holds at all times.                                              *)

\* A list begins on the destination as it was opened.
LEMMA RunFresh ==
  ASSUME IsWorld(world), dst = world.dst, relocs = <<>>, next = 1
  PROVE  RunInv
<1>1. Past = {} /\ DOMAIN relocs = {} /\ ~Open
  BY DEF Past, Open
<1>2. IntactInv
  <2> SUFFICES ASSUME NEW q \in DstNodes, IsFile(world.dst, q)
               PROVE  Holds(dst, Located(q), world.dst[q])
    BY DEF IntactInv
  <2>1. Located(q) = Place(q)
    BY DEF Located, Place
  <2>2. Place(q) = q
    BY Places
  <2> QED BY <2>1, <2>2 DEF Holds
<1>3. EntriesInv
  <2> SUFFICES ASSUME NEW p \in DOMAIN dst  PROVE Origin(p, dst[p])
    BY DEF EntriesInv
  <2> QED BY <1>1 DEF Origin, IsDir, IsFile, Exists
<1>4. DistinctInv
  <2>1. \A q \in DstNodes : Located(q) = q
    BY Places DEF Located, Place
  <2> QED BY <2>1 DEF DistinctInv
<1> QED BY <1>1, <1>2, <1>3, <1>4 DEF RunInv, DirsInv, MadeInv, MovedInv, WrittenInv

\* Whether a list is fit to run does not depend on how far it has run.
LEMMA FitSame ==
  ASSUME UNCHANGED <<world, cmds>>
  PROVE  FitToRun' <=> FitToRun
<1>1. TransfersFiles' <=> TransfersFiles
  BY DEF TransfersFiles, OpsOf
<1>2. SourcesInOrder' <=> SourcesInOrder
  BY DEF SourcesInOrder, OpsOf
<1>3. ConflictsAreFiles' <=> ConflictsAreFiles
  BY DEF ConflictsAreFiles, OpsOf
<1>4. BlocksInPlace' <=> BlocksInPlace
  BY DEF BlocksInPlace, OpsOf, src
<1> QED BY <1>1, <1>2, <1>3, <1>4 DEF FitToRun

\* A step of the planner.
LEMMA FitPlanner ==
  ASSUME FullInv, Planner
  PROVE  FitInv'
<1>1. /\ IsWorld(world) /\ dst = world.dst /\ relocs = <<>> /\ next = 1
      /\ UNCHANGED <<world, dst, relocs, next>> /\ pc' \in {"plan", "match", "ranges", "exec"}
  BY PlannerLooks DEF FullInv, IInv, TypeOK, PlanInv, ShapeInv
<1>2. (IsWorld(world))' /\ (dst = world.dst)' /\ (relocs = <<>>)' /\ (next = 1)'
  BY <1>1
<1>3. RunInv'
  BY <1>2, RunFresh, PTL
<1>4. CASE pc' = "exec"
  BY <1>3, <1>4 DEF FitInv
<1>5. CASE pc' # "exec"
  BY <1>1, <1>5 DEF FitInv, Planned
<1> QED BY <1>4, <1>5

\* A command of a list that is fit to run, and the end of it.
LEMMA FitExec ==
  ASSUME Ready, FullInv', Exec
  PROVE  FitInv'
<1>1. IInv' /\ RefsExact' /\ LitterInv'
  BY DEF FullInv
<1>2. \/ pc' = "exec" /\ RunInv'
      \/ ExecDone
  <2>1. CASE ExecTransfer
    BY <1>1, <2>1, FitTransfer
  <2>2. CASE ExecKeep
    BY <2>2, FitKeep
  <2>3. CASE ExecConflict
    BY <1>1, <2>3, FitConflict
  <2>4. CASE ExecConflictFails
    BY <2>4, NoConflictFails
  <2>5. CASE ExecLocalTemp
    BY <1>1, <2>5, FitLocalTemp
  <2>6. CASE ExecLocalTempCopy
    BY <1>1, <2>6, FitLocalTempCopy
  <2>7. CASE ExecSrcTempCopy
    BY <1>1, <2>7, FitSrcTempCopy
  <2>8. CASE ExecReplaceWithTemp
    BY <1>1, <2>8, FitReplace
  <2>9. CASE ExecSrcFileDownload
    BY <1>1, <2>9, FitDownload
  <2> QED BY <2>1, <2>2, <2>3, <2>4, <2>5, <2>6, <2>7, <2>8, <2>9 DEF Exec
<1>3. CASE pc' = "exec" /\ RunInv'
  BY <1>3 DEF FitInv
<1>4. CASE ExecDone
  BY <1>1, <1>4, FitDone DEF FitInv
<1> QED BY <1>2, <1>3, <1>4

\* Nothing changes.
LEMMA FitStutter ==
  ASSUME FitInv, UNCHANGED vars
  PROVE  FitInv'
<1>1. UNCHANGED <<world, dst, relocs, pc, unmatched, cmds, next, temp>>
  BY DEF vars
<1>2. FitToRun' <=> FitToRun
  BY <1>1, FitSame
<1>3. /\ Past' = Past /\ Changers' = Changers /\ DstNodes' = DstNodes /\ src' = src
      /\ SrcFiles' = SrcFiles
      /\ \A p : Place(p)' = Place(p)
  BY <1>1 DEF Past, Changers, DstNodes, src, SrcFiles, SrcNodes, Place
<1>4. \A q : Spent(q)' = Spent(q) /\ Located(q)' = Located(q)
  BY <1>1, <1>3 DEF Spent, Uses, Located
<1>5. RunInv => RunInv'
  <2> SUFFICES ASSUME RunInv  PROVE RunInv'
    OBVIOUS
  <2>1. IntactInv'
    BY <1>1, <1>3, <1>4 DEF RunInv, IntactInv
  <2>2. MadeInv'
    BY <1>1, <1>3 DEF RunInv, MadeInv
  <2>3. DistinctInv' /\ MovedInv'
    BY <1>1, <1>3, <1>4 DEF RunInv, DistinctInv, MovedInv
  <2>4. EntriesInv' /\ DirsInv'
    BY <1>1, <1>3 DEF RunInv, EntriesInv, Origin, DirsInv
  <2>5. WrittenInv'
    BY <1>1, <1>3, <1>4 DEF RunInv, WrittenInv, Open, Written, Beside, Copied
  <2> QED BY <2>1, <2>2, <2>3, <2>4, <2>5 DEF RunInv
<1>6. (Synced => Synced') /\ (CleanInv => CleanInv')
  BY <1>1, <1>3 DEF Synced, CleanInv, Files, Apart
<1> QED BY <1>1, <1>2, <1>5, <1>6 DEF FitInv, Planned

\* Every step preserves it.
LEMMA FitStep == FullInv /\ FullInv' /\ ListInv /\ FitInv /\ [Next]_vars => FitInv'
<1> SUFFICES ASSUME FullInv, FullInv', ListInv, FitInv, [Next]_vars  PROVE FitInv'
  OBVIOUS
<1>1. CASE Planner
  BY <1>1, FitPlanner
<1>2. CASE Exec
  <2>1. pc = "exec" /\ UNCHANGED <<world, cmds>>
    BY <1>2 DEF Exec, ExecTransfer, ExecKeep, ExecConflict, ExecConflictFails, ExecLocalTemp,
                ExecLocalTempCopy, ExecSrcTempCopy, ExecReplaceWithTemp, ExecSrcFileDownload,
                ExecDone, Take, planVars
  <2>2. CASE FitToRun
    <3>1. Ready
      BY <2>1, <2>2 DEF Ready, FitInv, Planned
    <3> QED BY <1>2, <3>1, FitExec
  <2>3. CASE ~FitToRun
    BY <2>1, <2>3, FitSame DEF FitInv
  <2> QED BY <2>2, <2>3
<1>3. CASE \E u \in unmatched : Clean(u)
  <2>1. PICK u \in unmatched : Clean(u)
    BY <1>3
  <2>2. pc \in {"done", "clean"} /\ UNCHANGED <<world, cmds>>
    BY <2>1 DEF Clean
  <2>3. CASE FitToRun
    <3>1. CleanInv
      BY <2>2, <2>3 DEF FitInv, Planned
    <3>2. pc' = "clean" /\ CleanInv'
      BY <2>1, <3>1, FitClean
    <3> QED BY <3>2 DEF FitInv
  <2>4. CASE ~FitToRun
    BY <2>2, <2>4, FitSame DEF FitInv
  <2> QED BY <2>3, <2>4
<1>4. CASE UNCHANGED vars
  BY <1>4, FitStutter
<1> QED BY <1>1, <1>2, <1>3, <1>4 DEF Next

\* All that is known of a patch.
SyncInv == FullInv /\ ListInv /\ FitInv

\* It holds before anything is planned, ...
LEMMA SyncInit == Begun => SyncInv
<1>1. Begun => FullInv /\ ListInv
  BY FullInit, ListInit
<1>2. Begun => FitInv
  BY DEF Begun, Opened, FitInv, Planned
<1> QED BY <1>1, <1>2 DEF SyncInv

\* ... and every step preserves it.
LEMMA SyncStep == SyncInv /\ [Next]_vars => SyncInv'
<1>1. FullInv => IInv /\ ShapeInv
  BY DEF FullInv
<1> QED BY <1>1, FullStep, ListStep, FitStep DEF SyncInv

\* What is planned, and what has been done of it, is at all times as ListInv and FitInv say.
THEOREM SyncInvariant == Spec => []SyncInv
BY SyncInit, InitBegun, SyncStep, PTL DEF Spec

\* A plan that is fit to run runs to its end and makes the destination's files the source's,
\* whatever the stores (patch_test.go:24).
THEOREM FitPlansAlwaysSync == Spec => []FitPlansSync
<1>1. SyncInv => FitPlansSync
  BY DEF SyncInv, FitInv, FitPlansSync
<1> QED BY <1>1, SyncInvariant, PTL

\* What Clean leaves.
LEMMA SyncMirrors == SyncInv => CleanMirrors
<1> SUFFICES ASSUME SyncInv, pc = "clean", unmatched = {}, FitToRun, world.dstRoot = <<>>
             PROVE  Synced /\ Files(dst) = SrcFiles
  BY DEF CleanMirrors
<1>1. Synced /\ Files(dst) \subseteq SrcFiles
  BY DEF SyncInv, FitInv, Planned, CleanInv
<1>2. \A p : Resolve(world.dstRoot, <<>>, p) = p
  BY DEF Resolve
<1>3. SrcFiles \subseteq Files(dst)
  BY <1>1, <1>2 DEF Synced, Files, IsFile, Exists
<1> QED BY <1>1, <1>3

\* Clean then leaves the source's files and no other.
THEOREM CleanAlwaysMirrors == Spec => []CleanMirrors
BY SyncMirrors, SyncInvariant, PTL

-----------------------------------------------------------------------------
(* SetMode, after a patch.                                                 *)

\* Of the nodes that SetMode has visited it has set the modes of those that are where they
\* are looked for, and reported the others.
ModesInv ==
  /\ SyncInv
  /\ ~setMode => modes = <<>> /\ modeErrors = {}
  /\ setMode =>
       /\ pc = "done" \/ (pc = "clean" /\ unmatched = {})
       /\ unset \subseteq SrcNodes /\ modeErrors \subseteq SrcNodes
       /\ \A p \in modeErrors : ~Exists(dst, Located(p))
       /\ \A x \in DOMAIN modes :
            modes[x] \in SrcNodes /\ x = Located(modes[x]) /\ Exists(dst, x)
       /\ \A p \in SrcNodes \ unset : Exists(dst, Located(p)) => Located(p) \in DOMAIN modes

LEMMA ModesInvInit == ModesInit => ModesInv
BY SyncInit, InitBegun DEF ModesInit, ModesInv

\* The call finds what the patch has left.
LEMMA ModesInvBegins ==
  ASSUME ModesInv, SetModeBegins
  PROVE  ModesInv'
<1>1. /\ ~setMode /\ (pc = "done" \/ (pc = "clean" /\ unmatched = {}))
      /\ setMode' /\ unset' = SrcNodes /\ UNCHANGED vars /\ UNCHANGED <<modes, modeErrors>>
  BY DEF SetModeBegins
<1>2. SyncInv' /\ modes' = <<>> /\ modeErrors' = {}
  BY <1>1, SyncStep DEF ModesInv
<1>3. pc' = pc /\ unmatched' = unmatched /\ unset' = SrcNodes'
  BY <1>1 DEF vars, SrcNodes
<1> QED BY <1>1, <1>2, <1>3 DEF ModesInv

\* A visit sets one mode or reports one error.
LEMMA ModesInvOf ==
  ASSUME ModesInv, NEW p \in unset, SetModeOf(p)
  PROVE  ModesInv'
<1> DEFINE at == Located(p)
<1>1. /\ setMode /\ setMode' = setMode /\ unset' = unset \ {p} /\ UNCHANGED vars
      /\ IF Exists(dst, at)
         THEN modes' = Put(modes, at, p) /\ modeErrors' = modeErrors
         ELSE modeErrors' = modeErrors \cup {p} /\ modes' = modes
  BY DEF SetModeOf
<1>2. /\ pc' = pc /\ unmatched' = unmatched /\ dst' = dst /\ SrcNodes' = SrcNodes
      /\ world' = world /\ relocs' = relocs
  BY <1>1 DEF vars, SrcNodes
<1>3. SyncInv'
  BY <1>1, SyncStep DEF ModesInv
<1>4. p \in SrcNodes /\ unset' \subseteq SrcNodes /\ modeErrors' \subseteq SrcNodes
  BY <1>1 DEF ModesInv
<1> HIDE DEF at
<1>5. \A q \in modeErrors' : ~Exists(dst, Located(q))
  BY <1>1 DEF ModesInv, at
<1>6. /\ \A x \in DOMAIN modes' :
           modes'[x] \in SrcNodes /\ x = Located(modes'[x]) /\ Exists(dst, x)
      /\ \A q \in SrcNodes \ unset' : Exists(dst, Located(q)) => Located(q) \in DOMAIN modes'
  <2>1. CASE Exists(dst, at)
    <3>1. /\ DOMAIN modes' = DOMAIN modes \cup {at}
          /\ \A x \in DOMAIN modes' : modes'[x] = IF x = at THEN p ELSE modes[x]
      BY <1>1, <2>1 DEF Put
    <3>2. \A x \in DOMAIN modes' :
            modes'[x] \in SrcNodes /\ x = Located(modes'[x]) /\ Exists(dst, x)
      BY <1>1, <1>4, <2>1, <3>1 DEF ModesInv, at
    <3>3. \A q \in SrcNodes \ unset' : Exists(dst, Located(q)) => Located(q) \in DOMAIN modes'
      BY <1>1, <3>1 DEF ModesInv, at
    <3> QED BY <3>2, <3>3
  <2>2. CASE ~Exists(dst, at)
    BY <1>1, <2>2 DEF ModesInv, at
  <2> QED BY <2>1, <2>2
<1>7. /\ setMode' /\ (pc' = "done" \/ (pc' = "clean" /\ unmatched' = {}))
  BY <1>1, <1>2 DEF ModesInv
<1>8. /\ (\A q \in modeErrors : ~Exists(dst, Located(q)))'
      /\ (\A x \in DOMAIN modes :
            modes[x] \in SrcNodes /\ x = Located(modes[x]) /\ Exists(dst, x))'
      /\ (\A q \in SrcNodes \ unset : Exists(dst, Located(q)) => Located(q) \in DOMAIN modes)'
  BY <1>2, <1>5, <1>6 DEF Located
<1>9. (unset \subseteq SrcNodes /\ modeErrors \subseteq SrcNodes)'
  BY <1>2, <1>4
<1> QED BY <1>3, <1>7, <1>8, <1>9 DEF ModesInv

LEMMA ModesInvStep == ModesInv /\ [ModesNext]_modesVars => ModesInv'
<1> SUFFICES ASSUME ModesInv, [ModesNext]_modesVars
             PROVE  ModesInv'
  OBVIOUS
<1>1. CASE Next /\ ~setMode /\ UNCHANGED modeVars
  <2>1. SyncInv'
    BY <1>1, SyncStep DEF ModesInv
  <2> QED BY <1>1, <2>1 DEF ModesInv, modeVars
<1>2. CASE SetModeBegins
  BY <1>2, ModesInvBegins
<1>3. ASSUME NEW p \in unset, SetModeOf(p)  PROVE ModesInv'
  BY <1>3, ModesInvOf
<1>4. CASE UNCHANGED modesVars
  <2>1. SyncInv'
    BY <1>4, SyncStep DEF ModesInv, modesVars
  <2>2. UNCHANGED <<modes, modeErrors, setMode, unset, pc, unmatched, dst, relocs, world>>
    BY <1>4 DEF modesVars, modeVars, vars
  <2>3. SrcNodes' = SrcNodes /\ \A q : Located(q)' = Located(q)
    BY <2>2 DEF SrcNodes, Located
  <2> QED BY <2>1, <2>2, <2>3 DEF ModesInv
<1> QED BY <1>1, <1>2, <1>3, <1>4 DEF ModesNext, SetMode

THEOREM ModesInvariant == ModesSpec => []ModesInv
BY ModesInvInit, ModesInvStep, PTL DEF ModesSpec

\* After a patch that was fit to run the source's files are where SetMode looks for them, and
\* it looks nowhere else for what is there.
LEMMA ModesPlaces ==
  ASSUME ModesInv, ModesSet, FitToRun
  PROVE  /\ \A p \in SrcFiles : Located(p) = Place(p) /\ Exists(dst, Place(p))
         /\ \A q \in SrcNodes : Exists(dst, Located(q)) => Located(q) = Place(q)
         /\ \A x, y \in SrcNodes : Place(x) = Place(y) => x = y
         /\ world.dstRoot = <<>> => \A x : Place(x) = x
         /\ world.dstRoot # <<>> => \A q \in SrcNodes : Exists(dst, Located(q))
         /\ IsTree(dst) /\ InDirs(dst)
<1>1. /\ IInv /\ RelocsInv /\ IsTree(dst) /\ InDirs(dst) /\ IsWorld(world) /\ pc \in {"done", "clean"}
      /\ DOMAIN relocs \subseteq SrcNodes /\ Exists(dst, world.dstRoot) /\ CleanInv
  BY DEF ModesInv, ModesSet, SyncInv, FullInv, IInv, TypeOK, LitterInv, FitInv, Planned
<1>2. /\ \A x, y \in SrcNodes : Place(x) = Place(y) => x = y
      /\ world.dstRoot = <<>> => \A x : Place(x) = x
      /\ world.dstRoot # <<>> => \A x : Place(x) = world.dstRoot
  BY <1>1, Places
<1>3. \A q \in SrcNodes : Exists(dst, Located(q)) => Located(q) = Place(q)
  <2> SUFFICES ASSUME NEW q \in SrcNodes, Exists(dst, Located(q)), q \in DOMAIN relocs
               PROVE  FALSE
    BY DEF Located, Place, Resolve
  <2>1. Located(q) = relocs[q] /\ Located(q) \in Path /\ Located(q) \in DOMAIN dst
    BY <1>1, LocatedFacts DEF RelocsInv, Located, Resolve, Exists
  <2>2. Apart(Located(q), relocs)
    BY <1>1, <2>1 DEF CleanInv
  <2> QED BY <2>1, <2>2, PrefixReflexive DEF Apart, Path
<1>4. \A p \in SrcFiles : Located(p) = Place(p)
  BY <1>1 DEF RelocsInv, SrcFiles, IsFile, IsDir, Located, Place, Resolve
<1>5. \A p \in SrcFiles : Exists(dst, Place(p))
  BY <1>1, <1>2 DEF CleanInv, Synced, IsFile, Place
<1>6. world.dstRoot # <<>> => \A q \in SrcNodes : Exists(dst, Located(q))
  BY <1>1 DEF Located, Resolve
<1> QED BY <1>1, <1>2, <1>3, <1>4, <1>5, <1>6

\* Each file of the destination gets the mode of the source's file, and what the source has
\* not got keeps its own, whatever the stores.
THEOREM ModesAlwaysRight == ModesSpec => []FilesGetTheirModes
<1>1. ModesInv => FilesGetTheirModes
  <2> SUFFICES ASSUME ModesInv, ModesSet, FitToRun
               PROVE  /\ \A p \in SrcFiles : Place(p) \in DOMAIN modes /\ modes[Place(p)] = p
                      /\ world.dstRoot = <<>> => DOMAIN modes \subseteq SrcNodes
    BY DEF FilesGetTheirModes, Place
  <2>1. /\ unset = {} /\ setMode
        /\ \A x \in DOMAIN modes :
             modes[x] \in SrcNodes /\ x = Located(modes[x]) /\ Exists(dst, x)
        /\ \A q \in SrcNodes : Exists(dst, Located(q)) => Located(q) \in DOMAIN modes
    BY DEF ModesInv, ModesSet
  <2>2. \A x \in DOMAIN modes : modes[x] \in SrcNodes /\ x = Place(modes[x])
    BY <2>1, ModesPlaces
  <2>3. ASSUME NEW p \in SrcFiles
        PROVE  Place(p) \in DOMAIN modes /\ modes[Place(p)] = p
    <3>1. p \in SrcNodes /\ Place(p) \in DOMAIN modes
      BY <2>1, ModesPlaces DEF SrcFiles
    <3> QED BY <2>2, <3>1, ModesPlaces
  <2>4. world.dstRoot = <<>> => DOMAIN modes \subseteq SrcNodes
    BY <2>2, ModesPlaces
  <2> QED BY <2>3, <2>4
<1> QED BY <1>1, ModesInvariant, PTL

\* SetMode reports errors for directories only that are relocated or hold no file, whatever
\* the stores.
THEOREM OnlyDirsEverFail == ModesSpec => []OnlyDirsFail
<1>1. ModesInv => OnlyDirsFail
  <2> SUFFICES ASSUME ModesInv, ModesSet, FitToRun, NEW p \in modeErrors
               PROVE  /\ IsDir(src, p)
                      /\ p \in DOMAIN relocs \/ \A q \in Under(src, p) : IsDir(src, q)
    BY DEF OnlyDirsFail
  <2>1. p \in SrcNodes /\ ~Exists(dst, Located(p)) /\ IsWorld(world)
    BY DEF ModesInv, ModesSet, SyncInv, FullInv, IInv, TypeOK
  <2>2. world.dstRoot = <<>> /\ p \notin SrcFiles
    BY <2>1, ModesPlaces
  <2>3. SrcNodes = DOMAIN src /\ DOMAIN src \subseteq Path
    BY <2>1, <2>2, Places, WorldFacts
  <2>4. IsDir(src, p)
    BY <2>1, <2>2, <2>3 DEF SrcFiles, IsFile, IsDir, Exists
  <2>5. ASSUME p \notin DOMAIN relocs, NEW q \in Under(src, p)
        PROVE  IsDir(src, q)
    <3>1. q \in SrcNodes /\ IsPrefix(p, q)
      BY <2>3 DEF Under
    <3>2. SUFFICES ASSUME q \in SrcFiles PROVE FALSE
      BY <2>3, <3>1 DEF SrcFiles, IsFile, IsDir, Exists
    <3>3. q \in DOMAIN dst /\ Located(p) = p
      BY <2>2, <2>5, <3>2, ModesPlaces DEF Exists, Located, Resolve
    <3>4. p \in Path /\ q \in Path
      BY <2>1, <2>3, <3>1
    <3>5. p \in DOMAIN dst
      BY <3>1, <3>3, <3>4, ModesPlaces, InDirsAbove DEF IsDir, Exists
    <3> QED BY <2>1, <3>3, <3>5 DEF Exists
  <2> QED BY <2>4, <2>5
<1> QED BY <1>1, ModesInvariant, PTL

-----------------------------------------------------------------------------
(* rp: what it leaves behind, for all directories and however it ends.     *)

\* What main has checked when it has come so far: a directory is not patched from or onto
\* anything else, and status 0 is that of a patch that is done.
MainInv ==
  /\ args.src = "dir" /\ stage # "stat" => args.dst \in {"dir", "missing"}
  /\ stage = "patch" => args.dst # "missing"
  /\ exit = "ok" /\ args.src = "dir" => stage = "patch" /\ pc = "done"

\* The patch is as it should be, Clean has not been called, and main has made its checks.
RpInv ==
  /\ SyncInv /\ world \in Worlds
  /\ pc # "clean"
  /\ MainInv

\* Every step of main is one of the patch or leaves it alone.
LEMMA RpStep ==
  ASSUME RpNext
  PROVE  /\ Planner \/ Exec \/ UNCHANGED vars
         /\ UNCHANGED args
         /\ exit = "none"
<1>1. CASE StatArgs
  BY <1>1 DEF StatArgs, Running
<1>2. CASE OpenDatabase("srcdb", "srcstore") \/ OpenDatabase("dstdb", "dststore")
  BY <1>2 DEF OpenDatabase, Running
<1>3. CASE OpenStore("srcstore", args.src, "dstdb") \/ OpenStore("dststore", args.dst, "patch")
  BY <1>3 DEF OpenStore, Running
<1>4. CASE PatchDirs
  BY <1>4 DEF PatchDirs, Running, rpVars
<1>5. CASE PatchEnds
  BY <1>5 DEF PatchEnds, Running
<1>6. CASE PatchNothing
  BY <1>6 DEF PatchNothing, Running
<1> QED BY <1>1, <1>2, <1>3, <1>4, <1>5, <1>6 DEF RpNext

\* Each check of main stays made, and status 0 is given at the end of the patch only, or when
\* there was no patch.
LEMMA MainStep ==
  ASSUME MainInv, RpNext
  PROVE  MainInv'
<1>1. exit = "none" /\ args' = args
  BY RpStep
<1>2. CASE StatArgs
  BY <1>1, <1>2 DEF StatArgs, Die, Continue, Running, MainInv
<1>3. CASE OpenDatabase("srcdb", "srcstore") \/ OpenDatabase("dstdb", "dststore")
  BY <1>1, <1>3 DEF OpenDatabase, Die, Continue, Running, MainInv
<1>4. CASE OpenStore("srcstore", args.src, "dstdb") \/ OpenStore("dststore", args.dst, "patch")
  BY <1>1, <1>4 DEF OpenStore, Die, Continue, Panic, Running, MainInv
<1>5. CASE PatchDirs
  BY <1>1, <1>5 DEF PatchDirs, rpVars, MainInv
<1>6. CASE PatchEnds
  BY <1>1, <1>6 DEF PatchEnds, Die, vars, Running, MainInv
<1>7. CASE PatchNothing
  BY <1>1, <1>7 DEF PatchNothing, Die, MainInv
<1> QED BY <1>2, <1>3, <1>4, <1>5, <1>6, <1>7 DEF RpNext

\* Neither the planner nor a command is Clean, or goes on to another world.
LEMMA PatchNotClean ==
  ASSUME Planner \/ Exec
  PROVE  pc' # "clean" /\ world' = world
<1>1. CASE Planner
  BY <1>1, PlannerLooks
<1>2. CASE Exec
  BY <1>2 DEF Exec, ExecTransfer, ExecKeep, ExecConflict, ExecConflictFails, ExecLocalTemp,
              ExecLocalTempCopy, ExecSrcTempCopy, ExecReplaceWithTemp, ExecSrcFileDownload,
              ExecDone, Finish, Take, planVars
<1> QED BY <1>1, <1>2

\* The invariant of rp.
THEOREM RpInvariant == RpSpec => []RpInv
<1>1. RpInit => RpInv
  BY SyncInit, InitBegun DEF RpInit, RpInv, MainInv, Init, Opened
<1>2. ASSUME RpInv, [RpNext]_runVars  PROVE RpInv'
  <2>1. CASE RpNext
    <3>1. [Next]_vars /\ UNCHANGED args /\ exit = "none"
      BY <2>1, RpStep DEF Next
    <3>2. SyncInv'
      BY <1>2, <3>1, SyncStep DEF RpInv
    <3>3. pc' # "clean"
      BY <1>2, <2>1, RpStep, PatchNotClean DEF RpInv, vars
    <3>4. MainInv'
      BY <1>2, <2>1, MainStep DEF RpInv
    <3>5. world' = world
      BY <2>1, RpStep, PatchNotClean DEF vars
    <3> QED BY <1>2, <3>1, <3>2, <3>3, <3>4, <3>5 DEF RpInv
  <2>2. CASE UNCHANGED runVars
    <3>1. UNCHANGED vars /\ UNCHANGED <<args, stage, exit>>
      BY <2>2 DEF runVars, rpVars
    <3>2. SyncInv'
      BY <1>2, <3>1, SyncStep DEF RpInv
    <3>3. UNCHANGED <<pc, world>>
      BY <3>1 DEF vars
    <3> QED BY <1>2, <3>1, <3>2, <3>3 DEF RpInv, MainInv
  <2> QED BY <1>2, <2>1, <2>2
<1> QED BY <1>1, <1>2, PTL DEF RpSpec

\* Whatever the directories, and however rp ends, it takes nothing away that the source has
\* nothing for, unless a Transfer moved it.
THEOREM ExtrasAlwaysStay == RpSpec => []ExtrasStay
<1>1. ASSUME RpInv  PROVE ExtrasStay
  <2> SUFFICES ASSUME NEW q \in DstNodes \ SrcNodes, IsFile(world.dst, q),
                      ~\E i \in OpsOf("Transfer") : Within(q, cmds[i].from)
               PROVE  IsFile(dst, q) /\ dst[q] = world.dst[q]
    BY DEF ExtrasStay
  <2>1. IsWorld(world) /\ cmds \in Seq(Command)
    BY <1>1 DEF RpInv, SyncInv, FullInv, IInv, TypeOK
  <2>2. world.dstRoot = <<>>
    BY <1>1, RpWorldsAssumption DEF RpInv
  <2>3. \A i \in DOMAIN cmds : cmds[i].path # q
    <3> SUFFICES ASSUME NEW i \in DOMAIN cmds  PROVE cmds[i].path \in SrcNodes
      OBVIOUS
    <3>1. cmds[i] \in Command
      BY <2>1, ElementOfSeq, LenProperties
    <3> QED BY <3>1, CommandFields
  <2>4. Protected(q)
    BY <2>2, <2>3 DEF Protected, Within
  <2>5. SameAt(world.dst, dst, q)
    BY <1>1, <2>4 DEF RpInv, SyncInv, FullInv, GuardInv
  <2> QED BY <2>5 DEF SameAt, IsFile, Exists
<1> QED BY <1>1, RpInvariant, PTL

\* Status 0 for two directories means that every command of the plan ran, and that
\* nothing temporary is left but what a patch before has left.
OkMeansDone == exit = "ok" /\ args.src = "dir" => pc = "done" /\ NoLitter

\* ... whatever the directories, and whether or not the plan was fit to run.
THEOREM OkAlwaysMeansDone == RpSpec => []OkMeansDone
<1>1. RpInv => OkMeansDone
  BY DEF RpInv, MainInv, SyncInv, FullInv, LitterInv, NoLitter, OkMeansDone
<1> QED BY <1>1, RpInvariant, PTL

\* If the plan was fit to run, the destination's files are the source's, whatever the
\* directories.
THEOREM OkAlwaysMeansSynced == RpSpec => []OkMeansSynced
<1>1. RpInv => OkMeansSynced
  <2> SUFFICES ASSUME RpInv, exit = "ok", args.src = "dir"
               PROVE  args.dst = "dir" /\ pc = "done" /\ NoLitter /\ (FitToRun => Synced)
    BY DEF OkMeansSynced
  <2>1. args.dst = "dir" /\ pc = "done" /\ SyncInv
    BY DEF RpInv, MainInv
  <2>2. NoLitter
    BY <2>1 DEF SyncInv, FullInv, LitterInv, NoLitter
  <2>3. FitToRun => Synced
    BY <2>1 DEF SyncInv, FitInv, Planned
  <2> QED BY <2>1, <2>2, <2>3
<1> QED BY <1>1, RpInvariant, PTL

=============================================================================
