------------------------------ MODULE MoveProofs ------------------------------
(***************************************************************************)
(* What holds of Move whatever the tree and the paths are, whichever call  *)
(* fails, and wherever the process ends.                                   *)
(***************************************************************************)
EXTENDS MoveSteps, StoreProofs

\* But at the path `to` a tree is as it was.
KeptIn(t) ==
  /\ \A p \in Path \ {move.to} : p \in DOMAIN t <=> p \in DOMAIN move.tree
  /\ \A p \in DOMAIN t \ {move.to} : t[p] = move.tree[p]

Kept == KeptIn(tree)

\* Neither path is at or below the other.
Separate == ~IsPrefix(move.from, move.to) /\ ~IsPrefix(move.to, move.from)

\* What the patch takes for the whole move.
OneStep == Move(move.tree, move.from, move.to)

\* A file is written at `to`: the first bytes of the one to be moved, which is what a move in
\* one step brings there.
Written ==
  /\ Separate /\ move.from \in DOMAIN move.tree
  /\ OneStep.ok
  /\ Under(tree, move.to) = {move.to}
  /\ tree[move.to] \in Seq(Byte) /\ Len(tree[move.to]) <= Len(From)
  /\ \A i \in 1..Len(tree[move.to]) : tree[move.to][i] = From[i]

\* The inductive invariant: until the last step only what is at `to` has been touched, and only
\* the file that the move itself has made is ever written.
IInv ==
  /\ IsMove(move) /\ IsTree(tree)
  /\ pc \in {"remove", "rename", "create", "copy", "unlink", "ok", "error", "crashed"}
  /\ pc = "remove" => tree = move.tree
  /\ pc \in {"rename", "create"} => tree \in {move.tree, OsRemove(move.tree, move.to).tree}
  /\ pc = "create" => move.from # move.to /\ Exists(tree, move.from)
  /\ pc \in {"copy", "unlink"} /\ From # Dir => Written
  /\ pc = "unlink" => From # Dir /\ tree[move.to] = From
  /\ pc # "ok" => Kept
  /\ pc = "ok" => Content(tree, move.to) = Moved
  /\ pc = "ok" /\ move.from # move.to => ~Exists(tree, move.from) /\ OneStep = Ok(tree)
  /\ RestUntouched

-----------------------------------------------------------------------------
(* The two paths and the tree.                                             *)

\* What a move is.
LEMMA MoveType ==
  ASSUME IsMove(move)
  PROVE  /\ move.from \in Path /\ move.to \in Path /\ IsTree(move.tree) /\ InDirs(move.tree)
         /\ DOMAIN move.tree \subseteq Path
         /\ move.from \in DOMAIN move.tree => From \in Entry
         /\ IsPrefix(move.from, move.from) /\ IsPrefix(move.to, move.to)
BY PrefixReflexive DEF IsMove, IsTree, From, Path

\* Nothing is both at or below `from` and at or below `to`.
LEMMA Apart ==
  ASSUME IsMove(move), Separate
  PROVE  \A p \in Path : ~(IsPrefix(move.from, p) /\ IsPrefix(move.to, p))
BY MoveType, PrefixesComparable DEF Path, Separate

\* As long as it is so, the source is all there but for what was in the way.
LEMMA KeptFacts ==
  ASSUME IsMove(move), IsTree(tree), Kept
  PROVE  Untouched /\ RestUntouched
<1> DEFINE f == move.from
           o == move.to
           below(p) == SubSeq(p, Len(f) + 1, Len(p))
<1>1. DOMAIN tree \subseteq Path /\ DOMAIN move.tree \subseteq Path
  BY MoveType DEF IsTree
<1>2. Under(tree, f) \ {o} = Under(move.tree, f) \ {o}
  BY <1>1 DEF Under, Kept, KeptIn
<1>3. \A p \in Under(tree, f) \ {o} : tree[p] = move.tree[p]
  BY <1>1 DEF Under, Kept, KeptIn
<1>4. Untouched
  <2>1. /\ ContentBut(tree, f, o) = {<<below(p), tree[p]>> : p \in Under(tree, f) \ {o}}
        /\ ContentBut(move.tree, f, o)
             = {<<below(p), move.tree[p]>> : p \in Under(move.tree, f) \ {o}}
    BY DEF ContentBut
  <2> HIDE DEF below, f, o
  <2>2. ContentBut(tree, f, o) = ContentBut(move.tree, f, o)
    BY <1>2, <1>3, <2>1
  <2> QED BY <2>2 DEF Untouched, f, o
<1>5. RestUntouched
  <2>1. IsPrefix(o, o)
    BY MoveType
  <2> QED BY <1>1, <2>1 DEF Kept, KeptIn, RestUntouched
<1> QED BY <1>4, <1>5

\* A source that `to` is no part of is whole.
LEMMA SourceFacts ==
  ASSUME IsMove(move), Separate, IsTree(tree), Kept
  PROVE  /\ Under(tree, move.from) = Under(move.tree, move.from)
         /\ Content(tree, move.from) = Moved
         /\ move.from \in DOMAIN tree <=> move.from \in DOMAIN move.tree
         /\ move.from \in DOMAIN tree => tree[move.from] = From
<1>1. DOMAIN tree \subseteq Path /\ DOMAIN move.tree \subseteq Path
      /\ move.from \in Path /\ move.from # move.to /\ ~IsPrefix(move.from, move.to)
  BY MoveType DEF IsTree, Separate
<1>2. Under(tree, move.from) = Under(move.tree, move.from)
  BY <1>1 DEF Under, Kept, KeptIn
<1>3. \A p \in Under(tree, move.from) : tree[p] = move.tree[p]
  BY <1>1 DEF Under, Kept, KeptIn
<1>4. Content(tree, move.from) = Moved
  <2> DEFINE below(p) == SubSeq(p, Len(move.from) + 1, Len(p))
  <2>1. /\ Content(tree, move.from) = {<<below(p), tree[p]>> : p \in Under(tree, move.from)}
        /\ Moved = {<<below(p), move.tree[p]>> : p \in Under(move.tree, move.from)}
    BY DEF Content, Moved
  <2> HIDE DEF below
  <2> QED BY <1>2, <1>3, <2>1
<1>5. /\ move.from \in DOMAIN tree <=> move.from \in DOMAIN move.tree
      /\ move.from \in DOMAIN tree => tree[move.from] = From
  BY <1>1 DEF Kept, KeptIn, From
<1> QED BY <1>2, <1>4, <1>5

\* Whether or not what is in the way has been removed, nothing else is touched; and if a file
\* can be made at `to`, there is nothing below.
LEMMA RemovedFacts ==
  ASSUME IsMove(move), NEW u \in {move.tree, OsRemove(move.tree, move.to).tree}
  PROVE  /\ IsTree(u) /\ InDirs(u) /\ KeptIn(u)
         /\ ~IsDir(u, move.to) => Under(u, move.to) \subseteq {move.to}
<1> DEFINE t == move.tree
           o == move.to
<1>1. IsTree(t) /\ InDirs(t) /\ o \in Path /\ IsPrefix(o, o)
  BY MoveType
<1>2. CASE u = t
  BY <1>1, <1>2, NothingBelow DEF KeptIn
<1>3. CASE u # t
  <2>1. Children(t, o) = {} /\ u = Without(t, {o})
    BY <1>3 DEF OsRemove, Ok, Err
  <2>2. Under(t, o) \subseteq {o}
    BY <1>1, <2>1, NothingBelow
  <2>3. Under(u, o) \subseteq {o}
    BY <2>1, <2>2 DEF Under, Without
  <2>4. KeptIn(u)
    BY <1>1, <2>1 DEF KeptIn, Without
  <2>5. IsTree(u) /\ InDirs(u)
    BY <1>1, <1>3, RemoveFacts
  <2> QED BY <2>3, <2>4, <2>5
<1> QED BY <1>2, <1>3

\* A rename that succeeds does so between separate paths, or from a path to itself.
LEMMA RenameSeparate ==
  ASSUME IsMove(move), NEW u, IsTree(u), InDirs(u), OsRename(u, move.from, move.to).ok,
         move.from # move.to
  PROVE  Separate /\ Exists(u, move.from)
<1> DEFINE f == move.from
           o == move.to
<1>1. f \in Path /\ o \in Path /\ IsPrefix(o, o)
  BY MoveType
<1>2. /\ Exists(u, f) /\ ~IsStrictPrefix(f, o)
      /\ \/ ~Exists(u, o)
         \/ IsFile(u, f) /\ IsFile(u, o)
         \/ IsDir(u, f) /\ IsDir(u, o) /\ Children(u, o) = {}
  BY DEF OsRename, Ok, Err
<1>3. ~IsPrefix(f, o)
  BY <1>2 DEF IsStrictPrefix
<1>4. ASSUME IsPrefix(o, f)  PROVE FALSE
  <2>1. IsDir(u, o)
    BY <1>1, <1>2, <1>4, InDirsAbove DEF Exists
  <2>2. Children(u, o) = {}
    BY <1>2, <2>1 DEF IsDir, IsFile
  <2>3. f \in Under(u, o)
    BY <1>2, <1>4 DEF Under, Exists
  <2> QED BY <1>1, <2>2, <2>3, NothingBelow
<1> QED BY <1>2, <1>3, <1>4 DEF Separate

\* What a rename does not touch, and where it brings p.
Stays(t, from, to)  == DOMAIN t \ (Under(t, from) \cup Under(t, to))
NewAt(from, to, p)  == to \o SubSeq(p, Len(from) + 1, Len(p))
Comes(t, from, to)  == {NewAt(from, to, p) : p \in Under(t, from)}

LEMMA RenamedByPath ==
  ASSUME NEW t, IsTree(t), NEW from \in Path, NEW to \in Path
  PROVE  LET r == Renamed(t, from, to)
         IN  /\ IsTree(r)
             /\ DOMAIN r = Stays(t, from, to) \cup Comes(t, from, to)
             /\ \A p \in Stays(t, from, to) : r[p] = t[p]
             /\ \A p \in Under(t, from) : r[NewAt(from, to, p)] = t[p]
<1>1. LET q == Renamed(t, from, to)
          stay == DOMAIN t \ (Under(t, from) \cup Under(t, to))
          below(p) == SubSeq(p, Len(from) + 1, Len(p))
      IN  /\ q = [p \in DOMAIN q |-> q[p]]
          /\ DOMAIN q = stay \cup {to \o below(p) : p \in Under(t, from)}
          /\ \A p \in stay : q[p] = t[p]
          /\ \A p \in Under(t, from) : /\ p \in DOMAIN t /\ below(p) \in Path
                                       /\ to \o below(p) \in Path /\ to \o below(p) \notin stay
                                       /\ q[to \o below(p)] = t[p]
  BY RenamedFacts, Zenon
<1>2. IsTree(Renamed(t, from, to))
  BY RenamedTree
<1> QED BY <1>1, <1>2, Zenon DEF Stays, NewAt, Comes

\* Two trees with the same entries are one.
LEMMA SameTree ==
  ASSUME NEW q, IsTree(q), NEW r, IsTree(r), DOMAIN q = DOMAIN r,
         \A p \in DOMAIN q : q[p] = r[p]
  PROVE  q = r
BY DEF IsTree

\* Removing what is replaced anyway makes no difference.
LEMMA RenamedSame ==
  ASSUME NEW t, IsTree(t), NEW f \in Path, NEW o \in Path, Under(t, o) \subseteq {o},
         ~IsPrefix(f, o), NEW v, v = Without(t, {o}), IsTree(v)
  PROVE  Renamed(v, f, o) = Renamed(t, f, o)
<1> DEFINE q == Renamed(v, f, o)
           r == Renamed(t, f, o)
<1>1. IsPrefix(o, o)
  BY PrefixReflexive DEF Path
<1>2. \A p : p \in DOMAIN v <=> p \in DOMAIN t /\ p # o
  BY DEF Without
<1>3. /\ Under(v, f) = Under(t, f) /\ Stays(v, f, o) = Stays(t, f, o)
      /\ Comes(v, f, o) = Comes(t, f, o)
  BY <1>1, <1>2 DEF Under, Stays, Comes
<1>4. /\ IsTree(r)
      /\ DOMAIN r = Stays(t, f, o) \cup Comes(t, f, o)
      /\ \A p \in Stays(t, f, o) : r[p] = t[p]
      /\ \A p \in Under(t, f) : r[NewAt(f, o, p)] = t[p]
  BY RenamedByPath
<1>5. /\ IsTree(q)
      /\ DOMAIN q = Stays(v, f, o) \cup Comes(v, f, o)
      /\ \A p \in Stays(v, f, o) : q[p] = v[p]
      /\ \A p \in Under(v, f) : q[NewAt(f, o, p)] = v[p]
  BY RenamedByPath
<1>6. \A p \in Stays(t, f, o) \cup Under(t, f) : p \in DOMAIN v /\ v[p] = t[p]
  BY <1>2, <1>3 DEF Under, Stays, Without
<1> HIDE DEF q, r
<1>7. DOMAIN q = DOMAIN r
  BY <1>3, <1>4, <1>5
<1>8. \A p \in DOMAIN q : q[p] = r[p]
  <2>1. \A p \in Comes(t, f, o) : q[p] = r[p]
    <3>1. \A p \in Under(t, f) : q[NewAt(f, o, p)] = r[NewAt(f, o, p)]
      BY <1>3, <1>4, <1>5, <1>6
    <3> QED BY <3>1 DEF Comes
  <2> QED BY <1>3, <1>4, <1>5, <1>6, <2>1
<1>9. q = r
  BY <1>4, <1>5, <1>7, <1>8, SameTree
<1> QED BY <1>9 DEF q, r

\* Whether or not what is in the way has been removed, a rename that succeeds does the same.
LEMMA RenamedAsPatch ==
  ASSUME IsMove(move), NEW u \in {move.tree, OsRemove(move.tree, move.to).tree},
         OsRename(u, move.from, move.to).ok, move.from # move.to
  PROVE  OneStep = OsRename(u, move.from, move.to)
<1> DEFINE t == move.tree
           f == move.from
           o == move.to
           v == OsRemove(t, o).tree
<1>1. f \in Path /\ o \in Path /\ IsTree(t) /\ InDirs(t) /\ IsPrefix(o, o) /\ IsPrefix(f, f)
  BY MoveType
<1>2. OneStep = OsRename(v, f, o)
  BY DEF OneStep, Move, OsRemove, Ok, Err
<1>3. CASE u = v
  BY <1>2, <1>3
<1>4. CASE u = t /\ u # v
  <2>1. v = Without(t, {o}) /\ Children(t, o) = {}
    BY <1>4 DEF OsRemove, Ok, Err
  <2>2. Separate /\ Exists(t, f) /\ IsDir(t, ParentDir(o)) /\ ~IsStrictPrefix(f, o)
    BY <1>1, <1>4, RenameSeparate DEF OsRename, Ok, Err
  <2>3. o # <<>>
    <3>1. o = <<>> => IsPrefix(o, f)
      BY <1>1, LenProperties DEF IsPrefix, Path
    <3> QED BY <2>2, <3>1 DEF Separate
  <2>4. ParentDir(o) # o
    BY <1>1, <2>3, ParentFacts DEF IsStrictPrefix
  <2>5. Exists(v, f) /\ IsDir(v, ParentDir(o)) /\ ~Exists(v, o) /\ IsTree(v)
    <3>1. IsTree(v)
      BY <1>1, RemoveTree
    <3>2. f # o /\ v[ParentDir(o)] = t[ParentDir(o)]
      BY <2>1, <2>2, <2>4 DEF Without, IsDir, Exists
    <3> QED BY <2>1, <2>2, <2>4, <3>1, <3>2 DEF Without, Exists, IsDir
  <2>6. OsRename(v, f, o) = Ok(Renamed(v, f, o)) /\ OsRename(t, f, o) = Ok(Renamed(t, f, o))
    BY <1>4, <2>2, <2>5 DEF OsRename, Ok, Err
  <2>7. Renamed(v, f, o) = Renamed(t, f, o)
    <3>1. ~IsPrefix(f, o)
      BY <2>2 DEF Separate
    <3>2. Under(t, o) \subseteq {o}
      BY <1>1, <2>1, NothingBelow
    <3> HIDE DEF t, f, o, v
    <3> QED BY <1>1, <2>1, <2>5, <3>1, <3>2, RenamedSame
  <2> QED BY <1>2, <1>4, <2>6, <2>7
<1> QED BY <1>3, <1>4

\* A rename that succeeds brings everything that was at and below `from` to `to`.
LEMMA RenameMoves ==
  ASSUME IsMove(move), Separate, IsTree(tree), Kept,
         tree' = Renamed(tree, move.from, move.to), move' = move
  PROVE  /\ IsTree(tree') /\ Content(tree', move.to) = Moved
         /\ ~Exists(tree', move.from) /\ RestUntouched'
<1> DEFINE f == move.from
           o == move.to
           r == Renamed(tree, f, o)
           stay == DOMAIN tree \ (Under(tree, f) \cup Under(tree, o))
           below(p) == SubSeq(p, Len(f) + 1, Len(p))
           rest(q) == SubSeq(q, Len(o) + 1, Len(q))
           new(p) == o \o below(p)
<1>1. f \in Path /\ o \in Path
  BY MoveType
<1>2. /\ DOMAIN tree' = stay \cup {new(p) : p \in Under(tree, f)}
      /\ \A p \in stay : tree'[p] = tree[p]
      /\ \A p \in Under(tree, f) : /\ p \in DOMAIN tree /\ below(p) \in Path
                                   /\ new(p) \in Path /\ new(p) \notin stay
                                   /\ tree'[new(p)] = tree[p]
  <2>1. /\ r = [p \in DOMAIN r |-> r[p]]
        /\ DOMAIN r = stay \cup {o \o below(p) : p \in Under(tree, f)}
        /\ \A p \in stay : r[p] = tree[p]
        /\ \A p \in Under(tree, f) : /\ p \in DOMAIN tree /\ below(p) \in Path
                                     /\ o \o below(p) \in Path /\ o \o below(p) \notin stay
                                     /\ r[o \o below(p)] = tree[p]
    BY <1>1, RenamedFacts, Zenon
  <2>2. tree' = r
    OBVIOUS
  <2> HIDE DEF r, stay, below
  <2> QED BY <2>1, <2>2
<1>3. \A p \in Under(tree, f) : IsPrefix(o, new(p)) /\ rest(new(p)) = below(p)
  <2> SUFFICES ASSUME NEW p \in Under(tree, f)
               PROVE  IsPrefix(o, new(p)) /\ rest(new(p)) = below(p)
    OBVIOUS
  <2> DEFINE s == below(p)
  <2>1. s \in Seq(Name) /\ o \in Seq(Name)
    BY <1>1, <1>2 DEF Path
  <2> HIDE DEF s
  <2>2. IsPrefix(o, o \o s) /\ rest(o \o s) = s
    BY <2>1, ConcatBelow
  <2> QED BY <2>2 DEF s
<1>4. IsTree(tree')
  BY <1>1, RenamedTree
<1>5. \A p \in stay : p \in DOMAIN tree /\ ~IsPrefix(o, p) /\ ~IsPrefix(f, p)
  BY DEF Under
<1>6. /\ Content(tree', o) = {<<rest(q), tree'[q]>> : q \in Under(tree', o)}
      /\ Content(tree, f) = {<<below(p), tree[p]>> : p \in Under(tree, f)}
  BY DEF Content
<1>7. Under(tree', o) = {q \in DOMAIN tree' : IsPrefix(o, q)}
  BY DEF Under
<1>8. \A p \in Path : p \in DOMAIN tree /\ ~IsPrefix(o, p) /\ ~IsPrefix(f, p) => p \in stay
  BY DEF Under
<1> HIDE DEF stay, below, rest, new, r
<1>9. Under(tree', o) = {new(p) : p \in Under(tree, f)}
  BY <1>2, <1>3, <1>5, <1>7
<1>10. Content(tree', o) = Content(tree, f)
  BY <1>2, <1>3, <1>6, <1>9
<1>11. ~Exists(tree', f)
  <2>1. IsPrefix(f, f)
    BY MoveType
  <2> QED BY <1>1, <1>2, <1>3, <1>5, <2>1, Apart DEF Exists
<1>12. RestUntouched'
  <2>1. DOMAIN tree \subseteq Path /\ DOMAIN move.tree \subseteq Path /\ DOMAIN tree' \subseteq Path
    BY <1>4, MoveType DEF IsTree
  <2>0. IsPrefix(o, o)
    BY MoveType
  <2> SUFFICES ASSUME NEW p \in DOMAIN tree' \cup DOMAIN move.tree,
                      ~IsPrefix(f, p), ~IsPrefix(o, p)
               PROVE  p \in DOMAIN tree' /\ p \in DOMAIN move.tree /\ tree'[p] = move.tree[p]
    BY DEF RestUntouched
  <2>2. p \in stay
    BY <1>2, <1>3, <1>8, <2>0, <2>1 DEF Kept, KeptIn
  <2>3. tree'[p] = tree[p] /\ p \in DOMAIN tree
    BY <1>2, <1>5, <2>2
  <2> QED BY <1>2, <2>0, <2>1, <2>2, <2>3 DEF Kept, KeptIn
<1> QED BY <1>4, <1>10, <1>11, <1>12, SourceFacts

\* What is written at `to` does not touch the source.
LEMMA WriteKeeps ==
  ASSUME IsMove(move), IsTree(tree), Kept, NEW x \in Seq(Byte), tree' = Put(tree, move.to, x),
         move' = move, Under(tree, move.to) \subseteq {move.to}
  PROVE  /\ IsTree(tree') /\ Kept' /\ Under(tree', move.to) = {move.to}
         /\ tree'[move.to] = x
<1>1. move.to \in Path /\ IsPrefix(move.to, move.to) /\ x \in Entry
  BY MoveType DEF Entry
<1>2. IsTree(tree')
  BY <1>1, PutTree
<1>3. Kept'
  BY <1>1 DEF Kept, KeptIn, Put
<1>4. Under(tree', move.to) = {move.to} /\ tree'[move.to] = x
  BY <1>1 DEF Under, Put
<1> QED BY <1>2, <1>3, <1>4

\* Where a file can be made in another directory for one that is there, a move in one step
\* would succeed.
LEMMA CreatePossible ==
  ASSUME IsMove(move), NEW u \in {move.tree, OsRemove(move.tree, move.to).tree},
         IsDir(u, ParentDir(move.to)), ~IsDir(u, move.to),
         move.from # move.to, Exists(u, move.from), From # Dir
  PROVE  Separate /\ OneStep.ok /\ move.from \in DOMAIN move.tree
<1> DEFINE t == move.tree
           f == move.from
           o == move.to
           d == ParentDir(o)
           v == OsRemove(t, o).tree
<1>1. f \in Path /\ o \in Path /\ d \in Path /\ IsTree(t)
  BY MoveType, PrefixPath
<1>2. /\ IsTree(u) /\ InDirs(u) /\ KeptIn(u) /\ KeptIn(v)
      /\ v = t \/ v = Without(t, {o})
  BY RemovedFacts DEF OsRemove, Ok, Err
<1>3. f \in DOMAIN t /\ u[f] = From /\ f \in DOMAIN v /\ v[f] = From
  BY <1>1, <1>2 DEF KeptIn, Exists, From
<1>4. ~IsPrefix(f, o)
  <2> SUFFICES ASSUME IsPrefix(f, o)  PROVE FALSE
    OBVIOUS
  <2>1. o # <<>> /\ IsPrefix(f, d)
    BY <1>1, AboveParent
  <2>2. IsDir(u, f)
    BY <1>1, <1>2, <2>1, InDirsAbove DEF IsDir, Exists
  <2> QED BY <1>3, <2>2 DEF IsDir
<1>5. ~IsPrefix(o, f)
  BY <1>1, <1>2, InDirsAbove DEF Exists
<1>6. d # o
  <2>1. o = <<>> => IsPrefix(o, f)
    BY <1>1, LenProperties DEF IsPrefix, Path
  <2> QED BY <1>1, <1>5, <2>1, ParentFacts DEF IsStrictPrefix
<1>7. IsDir(v, d)
  BY <1>1, <1>2, <1>6 DEF KeptIn, IsDir, Exists
<1>8. ~IsDir(v, o)
  BY <1>2 DEF Without, IsDir, Exists
<1>9. OsRename(v, f, o).ok
  BY <1>3, <1>4, <1>7, <1>8 DEF OsRename, IsStrictPrefix, Exists, IsFile, IsDir, Ok
<1>10. OneStep = OsRename(v, f, o)
  BY DEF OneStep, Move, OsRemove, Exists, Ok, Err
<1> QED BY <1>3, <1>4, <1>5, <1>9, <1>10 DEF Separate

\* A file that was copied and then unlinked has moved as in one step.
LEMMA CopiedAsPatch ==
  ASSUME IsMove(move), Kept, IsTree(tree), Written, From # Dir, tree[move.to] = From,
         NEW u, u = Without(tree, {move.from})
  PROVE  OneStep = Ok(u)
<1> DEFINE t == move.tree
           f == move.from
           o == move.to
           v == OsRemove(t, o).tree
           r == Renamed(v, f, o)
<1>1. /\ f \in Path /\ o \in Path /\ IsTree(t) /\ IsPrefix(o, o) /\ IsPrefix(f, f)
      /\ DOMAIN tree \subseteq Path /\ f # o /\ o \in DOMAIN tree
  BY MoveType DEF IsTree, Written, Separate, Under
<1>2. IsTree(v) /\ InDirs(v) /\ KeptIn(v) /\ DOMAIN v \subseteq Path
  BY RemovedFacts DEF IsTree
<1>3. f \in DOMAIN v /\ v[f] = From
  BY <1>1, <1>2 DEF KeptIn, Written, From
<1>4. OneStep = OsRename(v, f, o) /\ OneStep.ok
  BY DEF OneStep, Move, OsRemove, Exists, Ok, Err, Written
<1>5. OneStep = Ok(r) /\ ~IsDir(v, o)
  BY <1>1, <1>3, <1>4 DEF OsRename, IsFile, IsDir, Exists, Ok, Err
<1>6. Under(v, o) \subseteq {o} /\ Under(v, f) = {f}
  <2>1. Under(v, o) \subseteq {o}
    BY <1>1, <1>2, <1>5, NothingBelow
  <2>2. ~IsDir(v, f)
    BY <1>3 DEF IsDir
  <2>3. Under(v, f) \subseteq {f}
    BY <1>1, <1>2, <2>2, NothingBelow
  <2>4. f \in Under(v, f)
    BY <1>1, <1>3 DEF Under
  <2> QED BY <2>1, <2>3, <2>4
<1> HIDE DEF v
<1>7. NewAt(f, o, f) = o
  <2>1. Len(f) \in Nat /\ SubSeq(f, Len(f) + 1, Len(f)) = <<>>
    BY <1>1, SubSeqEmpty, LenProperties DEF Path
  <2>2. o \in Seq(Name)
    BY <1>1 DEF Path
  <2>3. o \o <<>> = o
    BY <2>2, ConcatEmptySeq
  <2> QED BY <2>1, <2>3 DEF NewAt
<1>8. Comes(v, f, o) = {o}
  BY <1>6, <1>7 DEF Comes
<1>9. /\ IsTree(r)
      /\ DOMAIN r = Stays(v, f, o) \cup {o}
      /\ \A p \in Stays(v, f, o) : r[p] = v[p]
      /\ r[o] = From
  <2>1. r[NewAt(f, o, f)] = v[f]
    <3>1. \A p \in Under(v, f) : r[NewAt(f, o, p)] = v[p]
      BY <1>1, <1>2, RenamedByPath
    <3> QED BY <1>6, <3>1
  <2>2. /\ IsTree(r)
        /\ DOMAIN r = Stays(v, f, o) \cup Comes(v, f, o)
        /\ \A p \in Stays(v, f, o) : r[p] = v[p]
    BY <1>1, <1>2, RenamedByPath
  <2> QED BY <1>3, <1>7, <1>8, <2>1, <2>2
<1>10. Stays(v, f, o) = DOMAIN v \ {f, o}
  BY <1>1, <1>6 DEF Stays, Under
<1>11. \A p \in Path \ {o} : /\ p \in DOMAIN v <=> p \in DOMAIN tree
                             /\ p \in DOMAIN v => v[p] = tree[p]
  BY <1>2 DEF Kept, KeptIn
<1>12. IsTree(u) /\ DOMAIN u = DOMAIN tree \ {f} /\ \A p \in DOMAIN u : u[p] = tree[p]
  BY WithoutTree DEF Without
<1> HIDE DEF r
<1>13. DOMAIN r = DOMAIN u
  BY <1>1, <1>2, <1>9, <1>10, <1>11, <1>12
<1>14. \A p \in DOMAIN r : r[p] = u[p]
  BY <1>1, <1>2, <1>9, <1>10, <1>11, <1>12, <1>13
<1>15. r = u
  BY <1>9, <1>12, <1>13, <1>14, SameTree
<1> QED BY <1>5, <1>15

\* A source that is a file is unlinked: nothing is below it.
LEMMA UnlinkMoves ==
  ASSUME IInv, Unlink
  PROVE  /\ IsTree(tree') /\ Content(tree', move.to) = Moved
         /\ ~Exists(tree', move.from) /\ OneStep = Ok(tree') /\ RestUntouched'
<1> DEFINE f == move.from
           o == move.to
<1>1. /\ IsMove(move) /\ IsTree(tree) /\ Kept /\ From # Dir /\ Written /\ Separate /\ tree[o] = From
      /\ tree' = OsRemove(tree, f).tree /\ move' = move
  BY DEF IInv, Unlink, Written
<1>2. /\ f \in Path /\ o \in Path /\ IsTree(move.tree) /\ f \in DOMAIN move.tree
      /\ InDirs(move.tree)
      /\ IsPrefix(f, f) /\ IsPrefix(o, o) /\ ~IsPrefix(f, o)
      /\ \A p \in Path : ~(IsPrefix(f, p) /\ IsPrefix(o, p))
  BY <1>1, MoveType, Apart DEF Separate, Written
<1>3. /\ Under(tree, f) = Under(move.tree, f) /\ f \in DOMAIN tree /\ tree[f] = From
      /\ RestUntouched
  BY <1>1, <1>2, KeptFacts, SourceFacts
<1>4. Under(move.tree, f) = {f}
  <2>1. ~IsDir(move.tree, f)
    BY <1>1 DEF IsDir, From
  <2>2. Under(move.tree, f) \subseteq {f}
    BY <1>2, <2>1, NothingBelow
  <2> QED BY <1>2, <2>2 DEF Under
<1>5. Children(tree, f) = {}
  <2> SUFFICES ASSUME NEW q \in Children(tree, f)  PROVE FALSE
    OBVIOUS
  <2>1. q \in DOMAIN tree /\ q \in Path /\ q # <<>> /\ ParentDir(q) = f
    BY <1>1 DEF Children, IsTree
  <2>2. IsPrefix(f, q) /\ q # f
    BY <2>1, ParentFacts DEF IsStrictPrefix
  <2> QED BY <1>3, <1>4, <2>1, <2>2 DEF Under
<1>6. tree' = Without(tree, {f})
  BY <1>1, <1>3, <1>5 DEF OsRemove, Exists, Ok
<1>7. IsTree(tree') /\ ~Exists(tree', f)
  <2>1. IsTree(tree')
    BY <1>1, <1>6, WithoutTree
  <2>2. f \notin DOMAIN tree'
    BY <1>6 DEF Without
  <2> QED BY <2>1, <2>2 DEF Exists
<1>8. Under(tree', o) = {o} /\ tree'[o] = From
  BY <1>1, <1>2, <1>6 DEF Under, Without, Written
<1>9. Content(tree', o) = Moved
  <2> DEFINE below(p, top) == SubSeq(p, Len(top) + 1, Len(p))
  <2>1. /\ Content(tree', o) = {<<below(q, o), tree'[q]>> : q \in Under(tree', o)}
        /\ Moved = {<<below(p, f), move.tree[p]>> : p \in Under(move.tree, f)}
    BY DEF Content, Moved
  <2>2. below(o, o) = <<>> /\ below(f, f) = <<>>
    BY <1>2, SubSeqEmpty, LenProperties DEF Path
  <2> HIDE DEF below
  <2> QED BY <1>4, <1>8, <2>1, <2>2 DEF From
<1>10. RestUntouched'
  BY <1>1, <1>2, <1>3, <1>6 DEF RestUntouched, Without
<1>11. OneStep = Ok(tree')
  BY <1>1, <1>6, CopiedAsPatch
<1> QED BY <1>7, <1>9, <1>10, <1>11

-----------------------------------------------------------------------------
(* The invariant is preserved.                                             *)

\* A step that leaves the tree and the move, and does not end it.
LEMMA TreeStays ==
  ASSUME IInv, UNCHANGED <<move, tree>>, pc # "ok"
  PROVE  /\ Kept' /\ RestUntouched' /\ IsMove(move') /\ IsTree(tree')
         /\ From' = From /\ (Written' <=> Written)
BY DEF IInv, Kept, KeptIn, RestUntouched, From, Written, Under, Separate, OneStep

\* What is kept in the next state.
LEMMA KeptRest ==
  ASSUME IsMove(move), move' = move, IsTree(tree'), Kept'
  PROVE  RestUntouched'
<1>1. /\ DOMAIN tree' \subseteq Path /\ DOMAIN move.tree \subseteq Path
      /\ IsPrefix(move.to, move.to)
  BY MoveType DEF IsTree
<1> QED BY <1>1 DEF Kept, KeptIn, RestUntouched

LEMMA StepInv ==
  ASSUME IInv, [Next]_vars
  PROVE  IInv'
<1>1. IsMove(move) /\ IsTree(tree) /\ RestUntouched
  BY DEF IInv
<1>2. CASE UNCHANGED vars
  <2>1. move' = move /\ tree' = tree /\ pc' = pc
    BY <1>2 DEF vars
  <2>2. /\ Kept' <=> Kept
        /\ Written' <=> Written
        /\ RestUntouched' <=> RestUntouched
        /\ From' = From /\ Moved' = Moved /\ OneStep' = OneStep
    BY <2>1 DEF Kept, KeptIn, Written, RestUntouched, From, Moved, Separate, OneStep
  <2> QED BY <2>1, <2>2 DEF IInv
<1>3. CASE RemoveTarget
  <2>1. /\ pc' = "rename" /\ move' = move
        /\ tree' \in {move.tree, OsRemove(move.tree, move.to).tree}
    BY <1>3 DEF RemoveTarget, IInv
  <2>2. IsTree(tree') /\ Kept'
    <3>1. \A u \in {move.tree, OsRemove(move.tree, move.to).tree} : IsTree(u) /\ KeptIn(u)
      BY <1>1, RemovedFacts
    <3> QED BY <2>1, <3>1 DEF Kept, KeptIn
  <2>3. RestUntouched'
    BY <1>1, <2>1, <2>2, KeptRest
  <2> QED BY <1>1, <2>1, <2>2, <2>3 DEF IInv
<1>4. CASE Rename
  <2> DEFINE r == OsRename(tree, move.from, move.to)
  <2>1. /\ pc = "rename" /\ move' = move /\ Kept
        /\ tree \in {move.tree, OsRemove(move.tree, move.to).tree} /\ InDirs(tree)
        /\ tree' = r.tree /\ pc' = (IF r.ok THEN "ok" ELSE "error")
    BY <1>1, <1>4, RemovedFacts DEF Rename, IInv
  <2>2. Moved' = Moved /\ OneStep' = OneStep
    BY <2>1 DEF Moved, Content, Under, OneStep
  <2>3. CASE r.ok /\ move.from # move.to
    <3>1. Separate
      BY <1>1, <2>1, <2>3, RenameSeparate
    <3>2. tree' = Renamed(tree, move.from, move.to)
      BY <2>1, <2>3 DEF OsRename, Ok, Err
    <3>3. /\ IsTree(tree') /\ Content(tree', move.to) = Moved
          /\ ~Exists(tree', move.from) /\ RestUntouched'
      BY <1>1, <2>1, <3>1, <3>2, RenameMoves
    <3>4. OneStep = Ok(tree')
      <4>1. OneStep = r
        BY <1>1, <2>1, <2>3, RenamedAsPatch
      <4>2. r = Ok(r.tree)
        BY <2>3 DEF OsRename, Ok, Err
      <4> QED BY <2>1, <4>1, <4>2
    <3> HIDE DEF r
    <3> QED BY <1>1, <2>1, <2>2, <2>3, <3>3, <3>4 DEF IInv
  <2>4. CASE r.ok /\ move.from = move.to
    <3>1. tree' = tree /\ Exists(tree, move.from)
      BY <2>1, <2>4 DEF OsRename, Ok, Err
    <3>2. tree = move.tree
      BY <2>1, <2>4, <3>1 DEF OsRemove, Without, Exists, Ok, Err
    <3>3. Content(tree', move.to) = Moved
      BY <2>4, <3>1, <3>2 DEF Moved
    <3>4. RestUntouched'
      BY <1>1, <2>1, <3>1, KeptRest DEF Kept, KeptIn
    <3> HIDE DEF r
    <3> QED BY <1>1, <2>1, <2>2, <2>4, <3>1, <3>3, <3>4 DEF IInv
  <2>5. CASE ~r.ok
    <3>1. tree' = tree
      BY <2>1, <2>5 DEF OsRename, Ok, Err
    <3> HIDE DEF r
    <3> QED BY <1>1, <2>1, <2>5, <3>1, TreeStays DEF IInv
  <2> QED BY <2>3, <2>4, <2>5
<1>5. CASE RenameAcross
  <2>1. /\ pc = "rename" /\ UNCHANGED <<move, tree>>
        /\ pc' = (IF Exists(tree, move.from) THEN "create" ELSE "error")
        /\ move.from # move.to
    BY <1>1, <1>5 DEF RenameAcross, IsMove
  <2> QED BY <2>1, TreeStays DEF IInv
<1>6. CASE Create
  <2> DEFINE r == OsCreate(tree, move.to)
  <2>1. /\ pc = "create" /\ move' = move /\ Kept
        /\ tree \in {move.tree, OsRemove(move.tree, move.to).tree}
        /\ move.from # move.to /\ Exists(tree, move.from)
        /\ tree' = r.tree /\ pc' = (IF r.ok THEN "copy" ELSE "error")
    BY <1>6 DEF Create, IInv
  <2>2. CASE r.ok
    <3>1. /\ IsDir(tree, ParentDir(move.to)) /\ ~IsDir(tree, move.to)
          /\ tree' = Put(tree, move.to, <<>>)
      BY <2>1, <2>2 DEF OsCreate, Ok, Err
    <3>2. Under(tree, move.to) \subseteq {move.to}
      BY <1>1, <2>1, <3>1, RemovedFacts
    <3>3. <<>> \in Seq(Byte) /\ Len(<<>>) = 0
      BY EmptySeq
    <3>4. /\ IsTree(tree') /\ Kept' /\ Under(tree', move.to) = {move.to}
          /\ tree'[move.to] = <<>>
      BY <1>1, <2>1, <3>1, <3>2, <3>3, WriteKeeps
    <3>5. From # Dir => Written'
      <4>1. From # Dir => Separate /\ OneStep.ok /\ move.from \in DOMAIN move.tree
        BY <1>1, <2>1, <3>1, CreatePossible
      <4>2. From # Dir => Len(From) \in Nat
        BY <1>1, <4>1, MoveType, LenProperties DEF Entry
      <4> QED BY <2>1, <3>3, <3>4, <4>1, <4>2 DEF Written, From, Separate, OneStep
    <3>6. RestUntouched'
      BY <1>1, <2>1, <3>4, KeptRest
    <3> HIDE DEF r
    <3> QED BY <1>1, <2>1, <2>2, <3>4, <3>5, <3>6 DEF IInv, From
  <2>3. CASE ~r.ok
    <3>1. tree' = tree
      BY <2>1, <2>3 DEF OsCreate, Ok, Err
    <3> HIDE DEF r
    <3> QED BY <1>1, <2>1, <2>3, <3>1, TreeStays DEF IInv
  <2> QED BY <2>2, <2>3
<1>7. CASE CopyByte
  <2> DEFINE c == tree[move.to]
             x == Append(c, From[Len(c) + 1])
  <2>1. /\ pc = "copy" /\ pc' = pc /\ move' = move /\ Kept /\ Written /\ From # Dir
        /\ Len(c) < Len(From) /\ tree' = Put(tree, move.to, x)
    BY <1>7 DEF CopyByte, IInv
  <2>2. /\ c \in Seq(Byte) /\ From \in Seq(Byte) /\ Len(c) \in Nat /\ Len(From) \in Nat
        /\ \A i \in 1..Len(c) : c[i] = From[i]
    BY <1>1, <2>1, MoveType, LenProperties DEF Written, Entry
  <2>3. From[Len(c) + 1] \in Byte
    BY <2>1, <2>2, ElementOfSeq
  <2> HIDE DEF c
  <2>4. /\ x \in Seq(Byte) /\ Len(x) = Len(c) + 1
        /\ \A i \in 1..Len(c) : x[i] = c[i]
        /\ x[Len(c) + 1] = From[Len(c) + 1]
    BY <2>2, <2>3, AppendProperties
  <2> HIDE DEF x
  <2>5. Under(tree, move.to) \subseteq {move.to}
    BY <2>1 DEF Written
  <2>6. /\ IsTree(tree') /\ Kept' /\ Under(tree', move.to) = {move.to}
        /\ tree'[move.to] = x
    BY <1>1, <2>1, <2>4, <2>5, WriteKeeps
  <2>7. \A i \in 1..Len(x) : x[i] = From[i]
    BY <2>2, <2>4
  <2>8. From' = From
    BY <2>1 DEF From
  <2>9. Written'
    BY <2>1, <2>2, <2>4, <2>6, <2>7, <2>8 DEF Written, Separate, OneStep
  <2>10. RestUntouched'
    BY <1>1, <2>1, <2>6, KeptRest
  <2> QED BY <1>1, <2>1, <2>6, <2>8, <2>9, <2>10 DEF IInv
<1>8. CASE CopyDir \/ \E step \in {"rename", "create", "copy", "unlink"} : Fail(step)
  <2>1. pc' = "error" /\ UNCHANGED <<move, tree>> /\ pc # "ok"
    BY <1>8 DEF CopyDir, Fail
  <2> QED BY <2>1, TreeStays DEF IInv
<1>9. CASE CopyEnds
  <2>1. /\ pc = "copy" /\ pc' = "unlink" /\ From # Dir /\ tree[move.to] = From
        /\ UNCHANGED <<move, tree>>
    BY <1>9 DEF CopyEnds
  <2> QED BY <2>1, TreeStays DEF IInv
<1>10. CASE Unlink
  <2>1. pc' = "ok" /\ move' = move
    BY <1>10 DEF Unlink
  <2>2. Moved' = Moved /\ OneStep' = OneStep
    BY <2>1 DEF Moved, Content, Under, OneStep
  <2> QED BY <1>1, <1>10, <2>1, <2>2, UnlinkMoves DEF IInv
<1>11. CASE Crash
  <2>1. pc' = "crashed" /\ UNCHANGED <<move, tree>> /\ pc # "ok"
    BY <1>11 DEF Crash
  <2> QED BY <2>1, TreeStays DEF IInv
<1> QED BY <1>2, <1>3, <1>4, <1>5, <1>6, <1>7, <1>8, <1>9, <1>10, <1>11 DEF Next, Call

-----------------------------------------------------------------------------
(* The theorems.                                                           *)

\* Before the first call the tree is as it was.
LEMMA InitInv ==
  ASSUME Init
  PROVE  IInv
<1>1. move \in Moves /\ tree = move.tree /\ pc = "remove" /\ IsMove(move)
  BY MovesAssumption DEF Init
<1>2. IsTree(tree) /\ Kept /\ RestUntouched
  BY <1>1 DEF IsMove, Kept, KeptIn, RestUntouched
<1> QED BY <1>1, <1>2 DEF IInv

\* Whatever is moved where, whichever calls fail and wherever the process ends, nothing but
\* what was in the way is touched until a rename or an unlink that is the last step.
THEOREM MoveInv == Spec => []IInv
<1>1. Init => IInv
  BY InitInv
<1>2. IInv /\ [Next]_vars => IInv'
  BY StepInv
<1> QED BY <1>1, <1>2, PTL DEF Spec

\* Wherever Move stops, at an error or because the process ends, what was to be moved is whole
\* where it is to go, or where it was but for what was in the way (util.go:24-59).  A path moved
\* to itself, into itself or out of itself is no exception, and what is lost of it is what Move
\* removes first.
THEOREM MoveIsSafe == Spec => []SourceSafe
<1>1. IInv => SourceSafe
  BY KeptFacts DEF IInv, SourceSafe
<1> QED BY <1>1, MoveInv, PTL

\* Move changes nothing but what is at and below the two paths (util.go:24-59).
THEOREM MoveTouchesNothingElse == Spec => []RestUntouched
<1>1. IInv => RestUntouched
  BY DEF IInv
<1> QED BY <1>1, MoveInv, PTL

\* What Move returns is true: without an error all of it is there and, unless it is the same
\* place, nothing here; with one all of it is here but for what was in the way.
THEOREM MoveReturnsTruth == Spec => []ReturnsTruth
<1>1. IInv => ReturnsTruth
  BY KeptFacts DEF IInv, ReturnsTruth
<1> QED BY <1>1, MoveInv, PTL

\* A move that succeeds, by a rename or by a copy, has done what the move in one step does that
\* the patch is proved to work with.
THEOREM MoveRefinesPatch == Spec => []MovesAsPatch
<1>1. IInv => MovesAsPatch
  BY DEF IInv, MovesAsPatch, OneStep
<1> QED BY <1>1, MoveInv, PTL

=============================================================================
