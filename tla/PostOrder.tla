------------------------------ MODULE PostOrder -------------------------------
(***************************************************************************)
(* PostOrderWalk of fs/util.go: a walk of a directory, with a stack, that  *)
(* visits a directory after everything below it.                           *)
(*                                                                         *)
(* A turn of the loop is an action.  The error channel has a receiver; it  *)
(* is modelled by the errors it gets.                                      *)
(***************************************************************************)
EXTENDS FileSystem, FiniteSets

CONSTANTS
  Rank,    \* the alphabetical order of names
  Walks    \* what there is to walk

\* A directory, or an empty tree if there is none; the entries that cannot be opened; and
\* whether there is an error channel.
IsWalk(w) ==
  /\ IsTree(w.tree) /\ InDirs(w.tree)
  /\ DOMAIN w.tree # {} => IsDir(w.tree, <<>>)
  /\ IsFiniteSet(DOMAIN w.tree)
  /\ w.bad \subseteq DOMAIN w.tree
  /\ w.listens \in BOOLEAN

ASSUME WalksAssumption == \A w \in Walks : IsWalk(w)
ASSUME RankAssumption  == Rank \in [Name -> Int]

VARIABLES
  walk,      \* what is walked
  stack,     \* postNodes, the current one last; info is the path that FileInfo is of
  visited,   \* the visits of the visitor
  reported   \* paths in the errors it sent

vars == <<walk, stack, visited, reported>>

Node(p, info, seen) == [path |-> p, info |-> info, seen |-> seen]

Reports(p) == reported' = IF walk.listens THEN Append(reported, p) ELSE reported

Init ==
  /\ walk \in Walks
  /\ visited = <<>>
  /\ LET there == Exists(walk.tree, <<>>)
     IN  /\ stack = IF there THEN <<Node(<<>>, <<>>, FALSE)>> ELSE <<>>
         /\ reported = IF there \/ ~walk.listens THEN <<>> ELSE <<(<<>>)>>

Top == Last(stack)

\* Faulty variant: files are pushed last.
PushedFilesLast(p, q) ==
  \/ IsDir(walk.tree, p) /\ IsFile(walk.tree, q)
  \/ IsFile(walk.tree, p) = IsFile(walk.tree, q) /\ Rank[Last(p)] > Rank[Last(q)]

\* The order of sortFileInfo: what is pushed first is visited last.
PushedBefore(p, q) ==
  \/ IsFile(walk.tree, p) /\ IsDir(walk.tree, q)
  \/ IsFile(walk.tree, p) = IsFile(walk.tree, q) /\ Rank[Last(p)] > Rank[Last(q)]

\* What sort.Sort can make of S: nothing comes after what it is to come before.
Sorted(S) == {s \in SetToSeqs(S) : \A i, j \in DOMAIN s : i < j => ~PushedBefore(s[j], s[i])}

Seen == [stack EXCEPT ![Len(stack)].seen = TRUE]

\* The directory's entries are pushed.  &info is the address of the loop's variable, which
\* in the end holds the last entry: all of them share that one's FileInfo.
Expand ==
  /\ stack # <<>> /\ ~Top.seen
  /\ IsDir(walk.tree, Top.info) /\ IsDir(walk.tree, Top.path) /\ Top.path \notin walk.bad
  /\ \E entries \in Sorted(Children(walk.tree, Top.path)) :
       stack' = Seen \o [i \in DOMAIN entries |-> Node(entries[i], Last(entries), FALSE)]
  /\ UNCHANGED <<walk, visited, reported>>

\* Faulty variant: what cannot be opened is taken off the stack.
ExpandDropping ==
  /\ stack # <<>> /\ ~Top.seen
  /\ IsDir(walk.tree, Top.info) /\ Top.path \in walk.bad
  /\ stack' = Front(stack)
  /\ UNCHANGED <<walk, visited, reported>>

\* os.Open fails, and nobody is told.
ExpandUnopened ==
  /\ stack # <<>> /\ ~Top.seen
  /\ IsDir(walk.tree, Top.info) /\ Top.path \in walk.bad
  /\ stack' = Seen
  /\ UNCHANGED <<walk, visited, reported>>

\* A file that is taken for a directory is opened, and cannot be listed.
ExpandFile ==
  /\ stack # <<>> /\ ~Top.seen
  /\ IsDir(walk.tree, Top.info) /\ IsFile(walk.tree, Top.path) /\ Top.path \notin walk.bad
  /\ stack' = Seen
  /\ Reports(Top.path)
  /\ UNCHANGED <<walk, visited>>

\* A directory whose entries are done, or a file, is visited and taken off the stack.
Visit ==
  /\ stack # <<>>
  /\ Top.seen \/ IsFile(walk.tree, Top.info)
  /\ stack' = Front(stack)
  /\ visited' = Append(visited, [path |-> Top.path,
                 op |-> IF IsDir(walk.tree, Top.info) THEN "VisitDir" ELSE "VisitFile"])
  /\ UNCHANGED <<walk, reported>>

Next == Expand \/ ExpandUnopened \/ ExpandFile \/ Visit

Spec == Init /\ [][Next]_vars /\ WF_vars(Next)

-----------------------------------------------------------------------------

\* The entries the walk can get to.
Reachable == {p \in DOMAIN walk.tree : \A q \in walk.bad : ~IsStrictPrefix(q, p)}

VisitAt(p) == {i \in DOMAIN visited : visited[i].path = p}

ComesFirst(q, p) ==
  IF IsDir(walk.tree, q) = IsDir(walk.tree, p) THEN Rank[Last(q)] < Rank[Last(p)]
  ELSE IsDir(walk.tree, q)

\* q is to be visited before p: it is in the directory p, or comes first in the same one.
Precedes(q, p) ==
  \/ IsStrictPrefix(p, q)
  \/ q # <<>> /\ p # <<>> /\ ParentDir(q) = ParentDir(p) /\ ComesFirst(q, p)

\* An entry is visited once, after everything below it that can be got to, and among the
\* entries of a directory directories come first, each kind by name, as the tests expect
\* (walk_test.go:48, 88-93).
InPostOrder ==
  \A p \in Reachable :
    /\ Cardinality(VisitAt(p)) <= 1
    /\ \A q \in Reachable : Precedes(q, p) =>
         \A i \in VisitAt(p) : \E j \in VisitAt(q) : j < i

\* The walk ends with every entry visited that it can get to.
VisitsAll == <>[](stack = <<>> /\ \A p \in Reachable : VisitAt(p) # {})

=============================================================================
