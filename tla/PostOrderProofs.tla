-------------------------- MODULE PostOrderProofs ---------------------------
(***************************************************************************)
(* What holds of PostOrderWalk whatever the directory is, and whichever of *)
(* its entries cannot be opened.                                           *)
(***************************************************************************)
EXTENDS PostOrder, StoreProofs, FiniteSetTheorems

Tree == walk.tree

\* A node of the stack, and a call of the visitor.
WalkNode == [path : Reachable, info : DOMAIN Tree, seen : BOOLEAN]
Call     == [path : Reachable, op : {"VisitDir", "VisitFile"}]

\* A node that has a file's FileInfo is a file.
TypeInv ==
  /\ walk \in Walks
  /\ stack \in Seq(WalkNode)
  /\ visited \in Seq(Call)
  /\ \A m \in 1..Len(stack) : IsFile(Tree, stack[m].info) => IsFile(Tree, stack[m].path)

\* Entry q is not visited before node m of the stack s is dealt with.
Pending(s, m, q) ==
  \/ s[m].path = q
  \/ ~s[m].seen /\ IsStrictPrefix(s[m].path, q)

\* Every entry is in one place: it has been visited, once, or waits for one node.
PlaceInv ==
  /\ \A m, n \in 1..Len(stack) : m # n => ~Pending(stack, m, stack[n].path)
  /\ \A i \in 1..Len(visited) : \A m \in 1..Len(stack) : ~Pending(stack, m, visited[i].path)
  /\ \A i, j \in 1..Len(visited) : i # j => visited[i].path # visited[j].path
  /\ \A q \in Reachable :
       \/ \E i \in 1..Len(visited) : visited[i].path = q
       \/ \E m \in 1..Len(stack) : Pending(stack, m, q)

\* What is to be visited before node n has been visited, or waits for n or one on top of it.
StackOrder ==
  \A n \in 1..Len(stack) : \A q \in Reachable : Precedes(q, stack[n].path) =>
    \/ \E i \in 1..Len(visited) : visited[i].path = q
    \/ \E m \in n..Len(stack) : Pending(stack, m, q)

VisitOrder ==
  \A i \in 1..Len(visited) : \A q \in Reachable : Precedes(q, visited[i].path) =>
    \E j \in 1..(i - 1) : visited[j].path = q

\* The inductive invariant.
PostInv == TypeInv /\ PlaceInv /\ StackOrder /\ VisitOrder

-----------------------------------------------------------------------------
(* The entries of a directory.                                             *)

\* A function on the numbers from 1 on is a sequence.
LEMMA SequenceOf ==
  ASSUME NEW S, NEW n \in Nat, NEW f, f = [i \in 1..n |-> f[i]], \A i \in 1..n : f[i] \in S
  PROVE  f \in Seq(S) /\ Len(f) = n
<1>1. f \in [1..n -> S]
  OBVIOUS
<1> QED BY <1>1, LenProperties

\* What is walked, and what can be got to in it.
LEMMA WalkFacts ==
  ASSUME walk \in Walks
  PROVE  /\ IsTree(Tree) /\ InDirs(Tree) /\ IsFiniteSet(DOMAIN Tree)
         /\ DOMAIN Tree # {} => IsDir(Tree, <<>>)
         /\ DOMAIN Tree \subseteq Path
         /\ Reachable \subseteq DOMAIN Tree
         /\ walk.bad \subseteq DOMAIN Tree
BY WalksAssumption DEF IsWalk, IsTree, Reachable, Tree

\* Strictly below is transitive, and what is strictly above a path is all in one line.
LEMMA StrictTransitive ==
  ASSUME NEW p \in Path, NEW q \in Path, NEW r \in Path,
         IsStrictPrefix(p, q), q = r \/ IsStrictPrefix(q, r)
  PROVE  IsStrictPrefix(p, r)
<1>1. CASE q = r
  BY <1>1
<1>2. CASE IsStrictPrefix(q, r)
  <2>1. IsPrefix(p, r)
    BY <1>2, PrefixTransitive DEF Path, IsStrictPrefix
  <2>2. ASSUME p = r  PROVE FALSE
    BY <1>2, <2>2, PrefixAntisymmetric DEF Path, IsStrictPrefix
  <2> QED BY <2>1, <2>2 DEF IsStrictPrefix
<1> QED BY <1>1, <1>2

LEMMA NotAboveItself ==
  ASSUME NEW p \in Path, NEW q \in Path, IsStrictPrefix(p, q)
  PROVE  ~IsStrictPrefix(q, p)
BY PrefixAntisymmetric DEF Path, IsStrictPrefix

\* An entry of a directory, and what is above it.
LEMMA ChildFacts ==
  ASSUME NEW c \in Path, c # <<>>
  PROVE  /\ ParentDir(c) \in Path
         /\ IsStrictPrefix(ParentDir(c), c)
         /\ \A q \in Path : IsStrictPrefix(q, c) =>
              q = ParentDir(c) \/ IsStrictPrefix(q, ParentDir(c))
BY ParentFacts, AboveParent DEF IsStrictPrefix

\* What is below a directory is one of its entries, or below one.
LEMMA BelowEntry ==
  ASSUME NEW t, IsTree(t), InDirs(t), NEW p \in Path, NEW q \in DOMAIN t, IsStrictPrefix(p, q)
  PROVE  \E c \in Children(t, p) : c = q \/ IsStrictPrefix(c, q)
<1> DEFINE m == Len(p)
           n == Len(q)
           c == SubSeq(q, 1, m + 1)
<1>1. /\ q \in Seq(Name) /\ p \in Seq(Name) /\ q \in Path
      /\ m \in Nat /\ n \in Nat /\ m < n /\ \A i \in 1..m : p[i] = q[i]
  <2>1. q \in Seq(Name) /\ p \in Seq(Name) /\ q \in Path
    BY DEF IsTree, Path
  <2>2. m \in Nat /\ n \in Nat /\ m <= n /\ \A i \in 1..m : p[i] = q[i]
    BY <2>1, PrefixElements, LenProperties DEF IsStrictPrefix
  <2>3. m # n
    BY <2>1, <2>2, SeqEqual DEF IsStrictPrefix
  <2> QED BY <2>1, <2>2, <2>3
<1>2. c \in Seq(Name) /\ Len(c) = m + 1 /\ \A i \in 1..(m + 1) : c[i] = q[i]
  <2>1. \A i \in 1..(m + 1) : q[i] \in Name
    BY <1>1, ElementOfSeq
  <2> QED BY <1>1, <2>1, SubSeqProperties
<1> HIDE DEF c
<1>3. IsPrefix(c, q)
  <2>1. Len(c) <= n
    BY <1>1, <1>2
  <2>2. \A i \in 1..Len(c) : c[i] = q[i]
    BY <1>2
  <2> QED BY <1>1, <1>2, <2>1, <2>2, PrefixElements
<1>4. c # <<>> /\ c \in Path
  BY <1>1, <1>2, EmptySeq DEF Path
<1>5. ParentDir(c) = p
  <2>1. /\ ParentDir(c) \in Seq(Name) /\ Len(ParentDir(c)) = m
        /\ \A i \in 1..m : ParentDir(c)[i] = c[i]
    <3>1. /\ ParentDir(c) \in Path /\ Len(ParentDir(c)) = Len(c) - 1
          /\ \A i \in 1..(Len(c) - 1) : ParentDir(c)[i] = c[i]
      BY <1>4, ParentFacts
    <3>2. Len(c) - 1 = m
      BY <1>1, <1>2
    <3> QED BY <3>1, <3>2 DEF Path
  <2>2. \A i \in 1..m : ParentDir(c)[i] = p[i]
    BY <1>1, <1>2, <2>1
  <2> QED BY <1>1, <2>1, <2>2, SeqEqual
<1>6. c \in DOMAIN t
  BY <1>3, <1>4, InDirsAbove DEF IsDir, Exists
<1> QED BY <1>3, <1>4, <1>5, <1>6 DEF Children, IsStrictPrefix

\* A sequence that takes each element of a finite set at most once takes them all.
LEMMA SortedFacts ==
  ASSUME NEW S, IsFiniteSet(S), NEW s \in Sorted(S)
  PROVE  /\ s \in Seq(S)
         /\ \A x \in S : \E i \in 1..Len(s) : s[i] = x
         /\ \A i, j \in 1..Len(s) : i # j => s[i] # s[j]
         /\ \A i, j \in 1..Len(s) : i < j => ~PushedBefore(s[j], s[i])
<1> DEFINE n == Cardinality(S)
<1>1. n \in Nat
  BY FS_CardinalityType
<1>2. s \in [1..n -> S] /\ \A i, j \in 1..n : i # j => s[i] # s[j]
  BY DEF Sorted, SetToSeqs
<1>3. s \in Seq(S) /\ Len(s) = n /\ DOMAIN s = 1..n
  BY <1>1, <1>2, LenProperties
<1>4. s \in Injection(1..n, S)
  BY <1>2 DEF Injection, IsInjective
<1>5. Cardinality(1..n) = n
  BY <1>1, FS_Interval
<1>6. s \in Surjection(1..n, S)
  BY <1>4, <1>5, FS_Injection
<1>7. \A x \in S : \E i \in 1..n : s[i] = x
  BY <1>6 DEF Surjection
<1>8. \A i, j \in 1..n : i < j => ~PushedBefore(s[j], s[i])
  BY <1>3 DEF Sorted
<1> QED BY <1>2, <1>3, <1>7, <1>8

\* What Expand pushes for the directory p: its entries, all of them, in their order.
LEMMA EntriesFacts ==
  ASSUME walk \in Walks, NEW p \in Reachable, IsDir(Tree, p), p \notin walk.bad,
         NEW es \in Sorted(Children(Tree, p))
  PROVE  /\ es \in Seq(Reachable)
         /\ \A i \in 1..Len(es) :
              /\ es[i] \in Reachable /\ IsStrictPrefix(p, es[i])
              /\ \A q \in Path : IsStrictPrefix(q, es[i]) => q = p \/ IsStrictPrefix(q, p)
         /\ \A i, j \in 1..Len(es) : i # j => es[i] # es[j]
         /\ \A q \in Reachable : IsStrictPrefix(p, q) =>
              \E i \in 1..Len(es) : es[i] = q \/ IsStrictPrefix(es[i], q)
<1> DEFINE S == Children(Tree, p)
<1>1. /\ S \subseteq DOMAIN Tree /\ DOMAIN Tree \subseteq Path /\ IsFiniteSet(S)
      /\ p \in Path /\ Reachable \subseteq DOMAIN Tree /\ walk.bad \subseteq Path
      /\ IsTree(Tree) /\ InDirs(Tree)
  BY WalkFacts, FS_Subset DEF Children
<1>2. \A c \in S : /\ IsStrictPrefix(p, c)
                   /\ \A q \in Path : IsStrictPrefix(q, c) => q = p \/ IsStrictPrefix(q, p)
  <2> SUFFICES ASSUME NEW c \in S
               PROVE  /\ IsStrictPrefix(p, c)
                      /\ \A q \in Path :
                           IsStrictPrefix(q, c) => q = p \/ IsStrictPrefix(q, p)
    OBVIOUS
  <2>1. c \in Path /\ c # <<>> /\ ParentDir(c) = p
    BY <1>1 DEF Children
  <2> QED BY <2>1, ChildFacts
<1>3. S \subseteq Reachable
  BY <1>1, <1>2 DEF Reachable, Tree
<1>4. /\ es \in Seq(S)
      /\ \A x \in S : \E i \in 1..Len(es) : es[i] = x
      /\ \A i, j \in 1..Len(es) : i # j => es[i] # es[j]
  BY <1>1, SortedFacts
<1>5. \A i \in 1..Len(es) : es[i] \in S
  BY <1>4, ElementOfSeq
<1>6. es \in Seq(Reachable)
  BY <1>3, <1>4, <1>5
<1>7. \A q \in Reachable : IsStrictPrefix(p, q) =>
        \E i \in 1..Len(es) : es[i] = q \/ IsStrictPrefix(es[i], q)
  BY <1>1, <1>4, BelowEntry
<1> QED BY <1>2, <1>3, <1>4, <1>5, <1>6, <1>7

\* The last entry is a directory if any is.
LEMMA LastEntry ==
  ASSUME walk \in Walks, NEW p, NEW es \in Sorted(Children(Tree, p)),
         NEW i \in 1..Len(es), IsFile(Tree, Last(es))
  PROVE  IsFile(Tree, es[i])
<1>1. Children(Tree, p) \subseteq DOMAIN Tree /\ IsFiniteSet(Children(Tree, p))
  BY WalkFacts, FS_Subset DEF Children
<1>2. /\ es \in Seq(Children(Tree, p)) /\ Len(es) \in Nat
      /\ \A j, k \in 1..Len(es) : j < k => ~PushedBefore(es[k], es[j])
  BY <1>1, SortedFacts, LenProperties
<1>3. es[i] \in DOMAIN Tree
  BY <1>1, <1>2, ElementOfSeq
<1>4. CASE i = Len(es)
  BY <1>4 DEF Last
<1>5. CASE i < Len(es)
  <2>1. ~PushedBefore(Last(es), es[i])
    BY <1>2, <1>5 DEF Last
  <2> QED BY <1>3, <2>1 DEF PushedBefore, Tree, IsFile, IsDir, Exists
<1> QED BY <1>2, <1>4, <1>5

\* An entry that comes first is pushed later.
LEMMA FirstIsLater ==
  ASSUME walk \in Walks, NEW p \in Path, NEW es \in Sorted(Children(Tree, p)),
         NEW i \in 1..Len(es), NEW q \in DOMAIN Tree, q # <<>>, ParentDir(q) = ParentDir(es[i]),
         ComesFirst(q, es[i])
  PROVE  \E j \in (i + 1)..Len(es) : es[j] = q
<1> DEFINE S == Children(Tree, p)
<1>1. S \subseteq DOMAIN Tree /\ IsFiniteSet(S) /\ DOMAIN Tree \subseteq Path
  BY WalkFacts, FS_Subset DEF Children
<1>2. /\ es \in Seq(S) /\ Len(es) \in Nat
      /\ \A x \in S : \E j \in 1..Len(es) : es[j] = x
      /\ \A j, k \in 1..Len(es) : j < k => ~PushedBefore(es[k], es[j])
  BY <1>1, SortedFacts, LenProperties
<1>3. es[i] \in S
  BY <1>2, ElementOfSeq
<1>4. q \in S
  BY <1>3 DEF Children
<1>5. PICK j \in 1..Len(es) : es[j] = q
  BY <1>2, <1>4
<1>6. \A r \in S : Rank[Last(r)] \in Int
  <2> SUFFICES ASSUME NEW r \in S  PROVE Last(r) \in Name
    BY RankAssumption
  <2>1. r \in Path /\ r # <<>>
    BY <1>1 DEF Children
  <2>2. r \in Seq(Name) /\ Len(r) \in 1..Len(r)
    BY <2>1, ParentFacts DEF Path
  <2> QED BY <2>2, ElementOfSeq DEF Last
<1>7. Rank[Last(q)] \in Int /\ Rank[Last(es[i])] \in Int
  BY <1>3, <1>4, <1>6
<1>8. PushedBefore(es[i], q) /\ q # es[i]
  BY <1>1, <1>3, <1>7 DEF ComesFirst, PushedBefore, Tree, IsFile, IsDir, Exists
<1>9. ~(j < i)
  BY <1>2, <1>5, <1>8
<1>10. j # i
  BY <1>5, <1>8
<1> QED BY <1>2, <1>5, <1>9, <1>10

\* Nothing is to be visited before itself.
LEMMA NotBeforeItself ==
  ASSUME walk \in Walks, NEW p \in DOMAIN Tree
  PROVE  ~Precedes(p, p)
<1> SUFFICES ASSUME p # <<>>, ComesFirst(p, p)  PROVE FALSE
  BY DEF Precedes, IsStrictPrefix
<1>1. p \in Seq(Name) /\ Len(p) \in 1..Len(p)
  BY WalkFacts, ParentFacts DEF Path
<1>2. Rank[Last(p)] \in Int
  BY <1>1, ElementOfSeq, RankAssumption DEF Last
<1> QED BY <1>2 DEF ComesFirst

-----------------------------------------------------------------------------
(* Each turn of the loop keeps the invariant.                              *)

\* The nodes of the stack.
LEMMA StackFacts ==
  ASSUME TypeInv
  PROVE  /\ Len(stack) \in Nat /\ Len(visited) \in Nat
         /\ \A m \in 1..Len(stack) :
              /\ stack[m] \in WalkNode /\ stack[m].path \in Reachable /\ stack[m].path \in Path
         /\ \A i \in 1..Len(visited) : visited[i].path \in Reachable
         /\ stack # <<>> => Len(stack) \in 1..Len(stack) /\ Top = stack[Len(stack)]
         /\ Reachable \subseteq Path
<1>1. \A m \in 1..Len(stack) : stack[m] \in WalkNode
  BY ElementOfSeq DEF TypeInv
<1>2. \A i \in 1..Len(visited) : visited[i] \in Call
  BY ElementOfSeq DEF TypeInv
<1>3. Len(stack) \in Nat /\ Len(visited) \in Nat /\ (stack # <<>> => Len(stack) # 0)
  BY EmptySeq, LenProperties DEF TypeInv
<1>4. Reachable \subseteq Path
  BY WalkFacts DEF TypeInv
<1> QED BY <1>1, <1>2, <1>3, <1>4 DEF WalkNode, Call, Top, Last

\* The current node is marked.
LEMMA SeenFacts ==
  ASSUME TypeInv, stack # <<>>
  PROVE  /\ Seen \in Seq(WalkNode) /\ Len(Seen) = Len(stack)
         /\ \A m \in 1..Len(stack) :
              /\ Seen[m].path = stack[m].path /\ Seen[m].info = stack[m].info
              /\ Seen[m].seen = (m = Len(stack) \/ stack[m].seen)
<1> DEFINE n == Len(stack)
<1>1. /\ stack \in Seq(WalkNode) /\ n \in Nat /\ n \in 1..n /\ DOMAIN stack = 1..n
      /\ \A m \in 1..n : stack[m] \in WalkNode
  BY StackFacts, LenProperties DEF TypeInv
<1>2. Seen = [m \in 1..n |-> IF m = n THEN [stack[m] EXCEPT !.seen = TRUE] ELSE stack[m]]
  BY <1>1 DEF Seen
<1>3. \A m \in 1..n : /\ Seen[m] \in WalkNode
                      /\ Seen[m].path = stack[m].path /\ Seen[m].info = stack[m].info
                      /\ Seen[m].seen = (m = n \/ stack[m].seen)
  BY <1>1, <1>2 DEF WalkNode
<1>4. Seen \in Seq(WalkNode) /\ Len(Seen) = n
  <2>1. Seen = [m \in 1..n |-> Seen[m]]
    BY <1>2
  <2> QED BY <1>1, <1>3, <2>1, SequenceOf
<1> QED BY <1>3, <1>4

\* The stack after Expand.
LEMMA ExpandedStack ==
  ASSUME PostInv, Expand
  PROVE  \E es \in Sorted(Children(Tree, Top.path)) :
           LET n == Len(stack)
           IN  /\ stack' \in Seq(WalkNode) /\ Len(stack') = n + Len(es)
               /\ \A m \in 1..n :
                    /\ stack'[m].path = stack[m].path /\ stack'[m].info = stack[m].info
                    /\ stack'[m].seen = (m = n \/ stack[m].seen)
               /\ \A i \in 1..Len(es) :
                    /\ stack'[n + i].path = es[i] /\ ~stack'[n + i].seen
                    /\ stack'[n + i].info = Last(es)
<1> DEFINE n == Len(stack)
           p == Top.path
<1>1. /\ stack # <<>> /\ TypeInv /\ walk \in Walks /\ IsDir(Tree, p) /\ p \notin walk.bad
  BY DEF PostInv, TypeInv, Expand, Tree
<1>2. PICK es \in Sorted(Children(Tree, p)) :
        stack' = Seen \o [i \in DOMAIN es |-> Node(es[i], Last(es), FALSE)]
  BY DEF Expand, Tree
<1> DEFINE more == [i \in DOMAIN es |-> Node(es[i], Last(es), FALSE)]
<1>3. p \in Reachable /\ n \in Nat
  BY <1>1, StackFacts
<1>4. es \in Seq(Reachable) /\ Len(es) \in Nat /\ DOMAIN es = 1..Len(es)
      /\ \A i \in 1..Len(es) : es[i] \in Reachable
  BY <1>1, <1>3, EntriesFacts, LenProperties
<1>5. \A i \in 1..Len(es) : Last(es) \in DOMAIN Tree
  <2> SUFFICES ASSUME NEW i \in 1..Len(es)  PROVE es[Len(es)] \in DOMAIN Tree
    BY DEF Last
  <2> QED BY <1>4, <1>1, WalkFacts
<1>6. \A i \in 1..Len(es) : more[i] \in WalkNode /\ more[i] = Node(es[i], Last(es), FALSE)
  BY <1>4, <1>5 DEF Node, WalkNode
<1>7. more \in Seq(WalkNode) /\ Len(more) = Len(es)
  <2>1. more = [i \in 1..Len(es) |-> more[i]]
    BY <1>4
  <2> HIDE DEF more
  <2> QED BY <1>4, <1>6, <2>1, SequenceOf
<1> HIDE DEF more
<1>8. Seen \in Seq(WalkNode) /\ Len(Seen) = n
  BY <1>1, SeenFacts
<1>9. /\ stack' \in Seq(WalkNode) /\ Len(stack') = n + Len(es)
      /\ \A j \in 1..(n + Len(es)) : stack'[j] = IF j <= n THEN Seen[j] ELSE more[j - n]
  <2>1. stack' = Seen \o more
    BY <1>2 DEF more
  <2>2. /\ Seen \o more \in Seq(WalkNode) /\ Len(Seen \o more) = Len(Seen) + Len(more)
        /\ \A j \in 1..(Len(Seen) + Len(more)) :
             (Seen \o more)[j] = IF j <= Len(Seen) THEN Seen[j] ELSE more[j - Len(Seen)]
    BY <1>7, <1>8, ConcatProperties
  <2> QED BY <1>7, <1>8, <2>1, <2>2
<1>10. \A m \in 1..n : stack'[m] = Seen[m]
  BY <1>3, <1>4, <1>9
<1>11. \A i \in 1..Len(es) : stack'[n + i] = Node(es[i], Last(es), FALSE)
  <2> SUFFICES ASSUME NEW i \in 1..Len(es)
               PROVE  stack'[n + i] = Node(es[i], Last(es), FALSE)
    OBVIOUS
  <2>1. n + i \in 1..(n + Len(es)) /\ ~(n + i <= n) /\ (n + i) - n = i
    BY <1>3, <1>4
  <2>2. stack'[n + i] = more[i]
    BY <1>9, <2>1
  <2> QED BY <1>6, <2>2
<1>12. \A m \in 1..n :
         /\ stack'[m].path = stack[m].path /\ stack'[m].info = stack[m].info
         /\ stack'[m].seen = (m = n \/ stack[m].seen)
  BY <1>1, <1>10, SeenFacts
<1>13. \A i \in 1..Len(es) :
         /\ stack'[n + i].path = es[i] /\ ~stack'[n + i].seen /\ stack'[n + i].info = Last(es)
  <2> SUFFICES ASSUME NEW i \in 1..Len(es)
               PROVE  /\ stack'[n + i].path = es[i] /\ ~stack'[n + i].seen
                      /\ stack'[n + i].info = Last(es)
    OBVIOUS
  <2>1. stack'[n + i] = [path |-> es[i], info |-> Last(es), seen |-> FALSE]
    BY <1>11 DEF Node
  <2> QED BY <2>1
<1> QED BY <1>2, <1>9, <1>12, <1>13

\* What waits for a node of the new stack waited for it, or for the directory that is
\* expanded; and what waited for that one waits for it, or for one of its entries.
LEMMA ExpandedPending ==
  ASSUME PostInv, Expand,
         NEW es \in Sorted(Children(Tree, Top.path)),
         \A m \in 1..Len(stack) :
           /\ stack'[m].path = stack[m].path
           /\ stack'[m].seen = (m = Len(stack) \/ stack[m].seen),
         \A i \in 1..Len(es) :
           stack'[Len(stack) + i].path = es[i] /\ ~stack'[Len(stack) + i].seen,
         NEW q \in Reachable
  PROVE  LET n == Len(stack)
         IN  /\ \A m \in 1..n : Pending(stack', m, q) => Pending(stack, m, q)
             /\ \A i \in 1..Len(es) :
                  Pending(stack', n + i, q) => Pending(stack, n, q) /\ q # Top.path
             /\ \A m \in 1..(n - 1) : Pending(stack, m, q) => Pending(stack', m, q)
             /\ Pending(stack', n, q) <=> q = Top.path
             /\ Pending(stack, n, q) =>
                  Pending(stack', n, q) \/ \E i \in 1..Len(es) : Pending(stack', n + i, q)
<1> DEFINE n == Len(stack)
           p == Top.path
<1>1. /\ TypeInv /\ walk \in Walks /\ stack # <<>> /\ ~Top.seen /\ IsDir(Tree, p)
      /\ p \notin walk.bad
  BY DEF PostInv, TypeInv, Expand, Tree
<1>2. n \in Nat /\ n \in 1..n /\ Top = stack[n] /\ p \in Reachable /\ Reachable \subseteq Path
  BY <1>1, StackFacts
<1>3. /\ es \in Seq(Reachable) /\ Len(es) \in Nat
      /\ \A i \in 1..Len(es) : es[i] \in Reachable /\ IsStrictPrefix(p, es[i])
      /\ IsStrictPrefix(p, q) =>
           \E i \in 1..Len(es) : es[i] = q \/ IsStrictPrefix(es[i], q)
  BY <1>1, <1>2, EntriesFacts, LenProperties
<1>4. \A m \in 1..n : Pending(stack', m, q) => Pending(stack, m, q)
  BY <1>2 DEF Pending
<1>5. \A i \in 1..Len(es) : Pending(stack', n + i, q) => Pending(stack, n, q) /\ q # p
  <2> SUFFICES ASSUME NEW i \in 1..Len(es), Pending(stack', n + i, q)
               PROVE  Pending(stack, n, q) /\ q # p
    OBVIOUS
  <2>1. es[i] = q \/ IsStrictPrefix(es[i], q)
    BY DEF Pending
  <2>2. IsStrictPrefix(p, q)
    BY <1>2, <1>3, <2>1, StrictTransitive
  <2> QED BY <1>1, <1>2, <2>2 DEF Pending, IsStrictPrefix
<1>6. \A m \in 1..(n - 1) : Pending(stack, m, q) => Pending(stack', m, q)
  <2> SUFFICES ASSUME NEW m \in 1..(n - 1), Pending(stack, m, q)  PROVE Pending(stack', m, q)
    OBVIOUS
  <2>1. m \in 1..n /\ m # n
    BY <1>2
  <2> QED BY <2>1 DEF Pending
<1>7. Pending(stack', n, q) <=> q = p
  BY <1>2 DEF Pending
<1>8. ASSUME Pending(stack, n, q)
      PROVE  Pending(stack', n, q) \/ \E i \in 1..Len(es) : Pending(stack', n + i, q)
  <2>1. CASE q = p
    BY <1>7, <2>1
  <2>2. CASE IsStrictPrefix(p, q)
    <3>1. PICK i \in 1..Len(es) : es[i] = q \/ IsStrictPrefix(es[i], q)
      BY <1>3, <2>2
    <3>2. Pending(stack', n + i, q)
      BY <3>1 DEF Pending
    <3> QED BY <3>2
  <2> QED BY <1>2, <1>8, <2>1, <2>2 DEF Pending
<1> QED BY <1>4, <1>5, <1>6, <1>7, <1>8

\* Expand keeps the invariant.
LEMMA ExpandInv ==
  ASSUME PostInv, Expand
  PROVE  PostInv'
<1> DEFINE n == Len(stack)
           p == Top.path
<1>1. /\ TypeInv /\ PlaceInv /\ StackOrder /\ VisitOrder
      /\ walk \in Walks /\ stack # <<>> /\ ~Top.seen /\ IsDir(Tree, p)
      /\ p \notin walk.bad /\ walk' = walk /\ visited' = visited
  BY DEF PostInv, TypeInv, Expand, Tree
<1>2. /\ n \in Nat /\ n \in 1..n /\ Top = stack[n] /\ p \in Reachable /\ Reachable \subseteq Path
      /\ \A m \in 1..n : stack[m].path \in Reachable
      /\ \A i \in 1..Len(visited) : visited[i].path \in Reachable
  BY <1>1, StackFacts
<1>3. PICK es \in Sorted(Children(Tree, p)) :
        /\ stack' \in Seq(WalkNode) /\ Len(stack') = n + Len(es)
        /\ \A m \in 1..n :
             /\ stack'[m].path = stack[m].path /\ stack'[m].info = stack[m].info
             /\ stack'[m].seen = (m = n \/ stack[m].seen)
        /\ \A i \in 1..Len(es) :
             /\ stack'[n + i].path = es[i] /\ ~stack'[n + i].seen
             /\ stack'[n + i].info = Last(es)
  BY ExpandedStack
<1> DEFINE k == Len(es)
<1>4. /\ es \in Seq(Reachable) /\ k \in Nat
      /\ \A i \in 1..k : es[i] \in Reachable /\ IsStrictPrefix(p, es[i])
      /\ \A i \in 1..k : \A q \in Path :
           IsStrictPrefix(q, es[i]) => q = p \/ IsStrictPrefix(q, p)
      /\ \A i, j \in 1..k : i # j => es[i] # es[j]
  BY <1>1, <1>2, EntriesFacts, LenProperties
<1>5. Reachable' = Reachable /\ Tree' = Tree /\ WalkNode' = WalkNode /\ Call' = Call
  BY <1>1 DEF Reachable, Tree, WalkNode, Call
<1>6. \A q \in Reachable :
        /\ \A m \in 1..n : Pending(stack', m, q) => Pending(stack, m, q)
        /\ \A i \in 1..k : Pending(stack', n + i, q) => Pending(stack, n, q) /\ q # p
        /\ \A m \in 1..(n - 1) : Pending(stack, m, q) => Pending(stack', m, q)
        /\ Pending(stack', n, q) <=> q = p
        /\ Pending(stack, n, q) => Pending(stack', n, q) \/ \E i \in 1..k : Pending(stack', n + i, q)
  BY <1>3, ExpandedPending
<1>7. \A m \in 1..Len(stack') : m \in 1..n \/ \E i \in 1..k : m = n + i
  <2> SUFFICES ASSUME NEW m \in 1..(n + k), m \notin 1..n
               PROVE  \E i \in 1..k : m = n + i
    BY <1>3
  <2>1. m - n \in 1..k /\ m = n + (m - n)
    BY <1>2, <1>4
  <2> QED BY <2>1
<1>8. \A i \in 1..k : n + i \in 1..Len(stack') /\ n + i \in n..Len(stack') /\ n + i > n
  BY <1>2, <1>3, <1>4
<1>9. 1..n \subseteq 1..Len(stack')
  BY <1>2, <1>3, <1>4
<1>10. TypeInv'
  <2>1. \A m \in 1..Len(stack') : IsFile(Tree, stack'[m].info) => IsFile(Tree, stack'[m].path)
    <3> SUFFICES ASSUME NEW m \in 1..Len(stack'), IsFile(Tree, stack'[m].info)
                 PROVE  IsFile(Tree, stack'[m].path)
      OBVIOUS
    <3>1. CASE m \in 1..n
      BY <1>1, <1>3, <3>1 DEF TypeInv
    <3>2. ASSUME NEW i \in 1..k, m = n + i  PROVE IsFile(Tree, stack'[m].path)
      <4>1. stack'[m].path = es[i] /\ IsFile(Tree, Last(es))
        BY <1>3, <3>2
      <4> QED BY <1>1, <4>1, LastEntry
    <3> QED BY <1>7, <3>1, <3>2
  <2> QED BY <1>1, <1>3, <1>5, <2>1 DEF TypeInv
<1>11. PlaceInv'
  <2>1. \A m, l \in 1..Len(stack') : m # l => ~Pending(stack', m, stack'[l].path)
    <3> SUFFICES ASSUME NEW m \in 1..Len(stack'), NEW l \in 1..Len(stack'), m # l,
                        Pending(stack', m, stack'[l].path)
                 PROVE  FALSE
      OBVIOUS
    <3> DEFINE q == stack'[l].path
    <3>0. q \in Reachable
      <4>1. CASE l \in 1..n
        BY <1>2, <1>3, <4>1
      <4>2. ASSUME NEW i \in 1..k, l = n + i  PROVE q \in Reachable
        BY <1>3, <1>4, <4>2
      <4> QED BY <1>7, <4>1, <4>2
    <3>1. CASE m \in 1..n /\ l \in 1..n
      <4>1. q = stack[l].path /\ Pending(stack, m, q)
        BY <1>3, <1>6, <3>0, <3>1 DEF Pending
      <4> QED BY <1>1, <3>1, <4>1 DEF PlaceInv
    <3>2. ASSUME l \in 1..n, NEW i \in 1..k, m = n + i  PROVE FALSE
      <4>1. q = stack[l].path /\ Pending(stack, n, q) /\ q # p
        BY <1>3, <1>6, <3>0, <3>2 DEF Pending
      <4>2. l = n
        BY <1>1, <1>2, <3>2, <4>1 DEF PlaceInv
      <4> QED BY <1>2, <4>1, <4>2
    <3>3. ASSUME m \in 1..n, NEW j \in 1..k, l = n + j  PROVE FALSE
      <4>1. q = es[j] /\ Pending(stack', m, q) /\ Pending(stack, m, q) /\ stack[m].path \in Path
        BY <1>2, <1>3, <1>6, <3>0, <3>3 DEF Pending
      <4>2. IsStrictPrefix(p, q) /\ p # q
        BY <1>4, <3>3, <4>1 DEF IsStrictPrefix
      <4>3. m # n
        BY <1>6, <3>0, <4>1, <4>2
      <4>4. CASE stack[m].path = q
        <5>1. Pending(stack, n, stack[m].path)
          BY <1>1, <1>2, <4>2, <4>4 DEF Pending
        <5> QED BY <1>1, <1>2, <3>3, <4>3, <5>1 DEF PlaceInv
      <4>5. CASE ~stack[m].seen /\ IsStrictPrefix(stack[m].path, q)
        <5>1. stack[m].path = p \/ IsStrictPrefix(stack[m].path, p)
          BY <1>4, <3>3, <4>1, <4>5
        <5>2. Pending(stack, m, stack[n].path)
          BY <1>2, <4>5, <5>1 DEF Pending
        <5> QED BY <1>1, <1>2, <3>3, <4>3, <5>2 DEF PlaceInv
      <4> QED BY <4>1, <4>4, <4>5 DEF Pending
    <3>4. ASSUME NEW i \in 1..k, m = n + i, NEW j \in 1..k, l = n + j  PROVE FALSE
      <4>1. q = es[j] /\ i # j /\ es[i] # es[j] /\ es[i] \in Path
        BY <1>2, <1>3, <1>4, <3>4
      <4>2. IsStrictPrefix(es[i], es[j])
        BY <1>3, <3>4, <4>1 DEF Pending
      <4>3. es[i] = p \/ IsStrictPrefix(es[i], p)
        BY <1>4, <4>1, <4>2
      <4>4. IsStrictPrefix(p, es[i])
        BY <1>4
      <4> QED BY <1>2, <4>1, <4>3, <4>4, NotAboveItself DEF IsStrictPrefix
    <3> QED BY <1>7, <3>1, <3>2, <3>3, <3>4
  <2>2. \A i \in 1..Len(visited) : \A m \in 1..Len(stack') : ~Pending(stack', m, visited[i].path)
    <3> SUFFICES ASSUME NEW i \in 1..Len(visited), NEW m \in 1..Len(stack'),
                        Pending(stack', m, visited[i].path)
                 PROVE  \E l \in 1..n : Pending(stack, l, visited[i].path)
      BY <1>1 DEF PlaceInv
    <3>1. visited[i].path \in Reachable /\ visited' = visited
      BY <1>1, <1>2
    <3>2. CASE m \in 1..n
      <4>1. Pending(stack, m, visited[i].path)
        BY <1>6, <3>1, <3>2
      <4> QED BY <3>2, <4>1
    <3>3. ASSUME NEW j \in 1..k, m = n + j  PROVE \E l \in 1..n : Pending(stack, l, visited[i].path)
      <4>1. Pending(stack, n, visited[i].path)
        BY <1>6, <3>1, <3>3
      <4> QED BY <1>2, <4>1
    <3> QED BY <1>7, <3>2, <3>3
  <2>3. ASSUME NEW q \in Reachable, \A i \in 1..Len(visited) : visited[i].path # q
        PROVE  \E m \in 1..Len(stack') : Pending(stack', m, q)
    <3>1. PICK m \in 1..n : Pending(stack, m, q)
      BY <1>1, <2>3 DEF PlaceInv
    <3>2. CASE m = n
      BY <1>2, <1>6, <1>8, <1>9, <3>1, <3>2
    <3>3. CASE m # n
      <4>1. m \in 1..(n - 1)
        BY <1>2, <3>3
      <4> QED BY <1>6, <1>9, <3>1, <4>1
    <3> QED BY <3>2, <3>3
  <2> QED BY <1>1, <1>5, <2>1, <2>2, <2>3 DEF PlaceInv
<1>12. StackOrder'
  <2> SUFFICES ASSUME NEW l \in 1..Len(stack'), NEW q \in Reachable,
                      Precedes(q, stack'[l].path),
                      \A i \in 1..Len(visited) : visited[i].path # q
               PROVE  \E m \in l..Len(stack') : Pending(stack', m, q)
    BY <1>1, <1>5 DEF StackOrder, Precedes, ComesFirst
  <2>1. CASE l \in 1..n
    <3>1. PICK m \in l..n : Pending(stack, m, q)
      BY <1>1, <1>3, <2>1 DEF StackOrder
    <3>2. CASE m = n
      <4>1. n \in l..Len(stack') /\ \A i \in 1..k : n + i \in l..Len(stack')
        BY <1>2, <1>3, <1>4, <2>1
      <4> QED BY <1>6, <3>1, <3>2, <4>1
    <3>3. CASE m # n
      <4>1. m \in 1..(n - 1) /\ m \in l..Len(stack')
        BY <1>2, <1>3, <1>4, <2>1, <3>3
      <4> QED BY <1>6, <3>1, <4>1
    <3> QED BY <3>2, <3>3
  <2>2. ASSUME NEW i \in 1..k, l = n + i
        PROVE  \E m \in l..Len(stack') : Pending(stack', m, q)
    <3>1. stack'[l].path = es[i] /\ ~stack'[l].seen /\ l \in l..Len(stack')
      BY <1>3, <1>8, <2>2
    <3>2. CASE IsStrictPrefix(es[i], q)
      <4>1. Pending(stack', l, q)
        BY <3>1, <3>2 DEF Pending
      <4> QED BY <3>1, <4>1
    <3>3. CASE q # <<>> /\ ParentDir(q) = ParentDir(es[i]) /\ ComesFirst(q, es[i])
      <4>1. p \in Path /\ q \in DOMAIN Tree
        BY <1>1, <1>2, WalkFacts
      <4>2. PICK j \in (i + 1)..k : es[j] = q
        BY <1>1, <3>3, <4>1, FirstIsLater
      <4>3. j \in 1..k /\ n + j \in l..Len(stack')
        BY <1>2, <1>3, <1>4, <2>2, <4>2
      <4>4. Pending(stack', n + j, q)
        BY <1>3, <4>2, <4>3 DEF Pending
      <4> QED BY <4>3, <4>4
    <3> QED BY <3>1, <3>2, <3>3 DEF Precedes
  <2> QED BY <1>7, <2>1, <2>2
<1>13. VisitOrder'
  BY <1>1, <1>5 DEF VisitOrder, Precedes, ComesFirst
<1> QED BY <1>10, <1>11, <1>12, <1>13 DEF PostInv

\* What cannot be listed has nothing below it that can be got to; it stays on the stack and
\* is visited in the next turn.
LEMMA UnlistedInv ==
  ASSUME PostInv, ExpandUnopened \/ ExpandFile
  PROVE  PostInv'
<1> DEFINE n == Len(stack)
           p == Top.path
<1>1. /\ TypeInv /\ PlaceInv /\ StackOrder /\ VisitOrder
      /\ walk \in Walks /\ stack # <<>> /\ stack' = Seen
      /\ p \in walk.bad \/ IsFile(Tree, p)
      /\ walk' = walk /\ visited' = visited
  <2>1. TypeInv /\ PlaceInv /\ StackOrder /\ VisitOrder /\ walk \in Walks
    BY DEF PostInv, TypeInv
  <2>2. CASE ExpandUnopened
    BY <2>1, <2>2 DEF ExpandUnopened
  <2>3. CASE ExpandFile
    BY <2>1, <2>3 DEF ExpandFile, Tree
  <2> QED BY <2>2, <2>3
<1>2. /\ n \in Nat /\ n \in 1..n /\ Top = stack[n] /\ p \in Reachable
      /\ \A m \in 1..n : stack[m].path \in Reachable
      /\ \A i \in 1..Len(visited) : visited[i].path \in Reachable
  BY <1>1, StackFacts
<1>3. /\ stack' \in Seq(WalkNode) /\ Len(stack') = n
      /\ \A m \in 1..n :
           /\ stack'[m].path = stack[m].path /\ stack'[m].info = stack[m].info
           /\ stack'[m].seen = (m = n \/ stack[m].seen)
  BY <1>1, SeenFacts
<1>4. \A q \in Reachable : ~IsStrictPrefix(p, q)
  <2> SUFFICES ASSUME NEW q \in Reachable, IsStrictPrefix(p, q), p \notin walk.bad
               PROVE  FALSE
    BY DEF Reachable
  <2>1. p \in Path /\ q \in DOMAIN Tree /\ IsTree(Tree) /\ InDirs(Tree)
    BY <1>1, <1>2, WalkFacts
  <2>2. IsDir(Tree, p)
    BY <2>1, InDirsAbove DEF IsStrictPrefix
  <2> QED BY <1>1, <2>2 DEF IsFile, IsDir
<1>5. \A q \in Reachable : \A m \in 1..n : Pending(stack', m, q) <=> Pending(stack, m, q)
  <2> SUFFICES ASSUME NEW q \in Reachable, NEW m \in 1..n
               PROVE  Pending(stack', m, q) <=> Pending(stack, m, q)
    OBVIOUS
  <2>1. CASE m = n
    BY <1>2, <1>3, <1>4, <2>1 DEF Pending
  <2>2. CASE m # n
    BY <1>3, <2>2 DEF Pending
  <2> QED BY <2>1, <2>2
<1>6. Reachable' = Reachable /\ Tree' = Tree /\ WalkNode' = WalkNode /\ Call' = Call
  BY <1>1 DEF Reachable, Tree, WalkNode, Call
<1>7. TypeInv'
  BY <1>1, <1>3, <1>6 DEF TypeInv
<1>8. PlaceInv'
  <2>1. \A m, l \in 1..n : m # l => ~Pending(stack', m, stack'[l].path)
    BY <1>1, <1>2, <1>3, <1>5 DEF PlaceInv
  <2>2. \A i \in 1..Len(visited) : \A m \in 1..n : ~Pending(stack', m, visited[i].path)
    BY <1>1, <1>2, <1>5 DEF PlaceInv
  <2>3. \A q \in Reachable : (\E i \in 1..Len(visited) : visited[i].path = q)
                               \/ \E m \in 1..n : Pending(stack', m, q)
    BY <1>1, <1>5 DEF PlaceInv
  <2> QED BY <1>1, <1>3, <1>6, <2>1, <2>2, <2>3 DEF PlaceInv
<1>9. StackOrder'
  <2> SUFFICES ASSUME NEW l \in 1..n, NEW q \in Reachable, Precedes(q, stack[l].path),
                      \A i \in 1..Len(visited) : visited[i].path # q
               PROVE  \E m \in l..n : Pending(stack', m, q)
    BY <1>1, <1>3, <1>6 DEF StackOrder, Precedes, ComesFirst
  <2>1. PICK m \in l..n : Pending(stack, m, q)
    BY <1>1 DEF StackOrder
  <2>2. m \in 1..n
    BY <1>2
  <2> QED BY <1>5, <2>1, <2>2
<1>10. VisitOrder'
  BY <1>1, <1>6 DEF VisitOrder, Precedes, ComesFirst
<1> QED BY <1>7, <1>8, <1>9, <1>10 DEF PostInv

\* When a node is visited nothing waits for it but itself.
LEMMA VisitInv ==
  ASSUME PostInv, Visit
  PROVE  PostInv'
<1> DEFINE n == Len(stack)
           v == Len(visited)
           p == Top.path
           call == [path |-> p,
                    op |-> IF IsDir(Tree, Top.info) THEN "VisitDir" ELSE "VisitFile"]
<1>1. /\ TypeInv /\ PlaceInv /\ StackOrder /\ VisitOrder
      /\ walk \in Walks /\ stack # <<>> /\ stack' = Front(stack)
      /\ Top.seen \/ IsFile(Tree, Top.info)
      /\ walk' = walk /\ visited' = Append(visited, call)
  BY DEF PostInv, TypeInv, Visit, Tree
<1>2. /\ n \in Nat /\ v \in Nat /\ n \in 1..n /\ Top = stack[n] /\ p \in Reachable
      /\ \A m \in 1..n : stack[m].path \in Reachable /\ stack[m] \in WalkNode
      /\ \A i \in 1..v : visited[i].path \in Reachable
  BY <1>1, StackFacts
<1>3. /\ stack' \in Seq(WalkNode) /\ Len(stack') = n - 1
      /\ \A m \in 1..(n - 1) : stack'[m] = stack[m]
  <2>1. stack \in Seq(WalkNode)
    BY <1>1 DEF TypeInv
  <2>2. \A m \in 1..(n - 1) : stack[m] \in WalkNode
    BY <1>2
  <2>3. /\ SubSeq(stack, 1, n - 1) \in Seq(WalkNode)
        /\ Len(SubSeq(stack, 1, n - 1)) = n - 1
        /\ \A m \in 1..(n - 1) : SubSeq(stack, 1, n - 1)[m] = stack[m]
    <3>1. /\ SubSeq(stack, 1, n - 1) \in Seq(WalkNode)
          /\ Len(SubSeq(stack, 1, n - 1)) = IF 1 <= n - 1 THEN n - 1 - 1 + 1 ELSE 0
          /\ \A i \in 1..(n - 1 - 1 + 1) : SubSeq(stack, 1, n - 1)[i] = stack[1 + i - 1]
      BY <1>2, <2>1, <2>2, SubSeqProperties
    <3>2. n - 1 - 1 + 1 = n - 1 /\ \A i \in 1..(n - 1) : 1 + i - 1 = i
      BY <1>2
    <3> QED BY <1>2, <3>1, <3>2
  <2> QED BY <1>1, <2>3 DEF Front
<1>4. /\ visited' \in Seq(Call) /\ Len(visited') = v + 1
      /\ \A i \in 1..v : visited'[i] = visited[i]
      /\ visited'[v + 1].path = p
  <2>1. visited \in Seq(Call) /\ call \in Call
    BY <1>1, <1>2 DEF TypeInv, Call
  <2> HIDE DEF call
  <2>2. /\ Append(visited, call) \in Seq(Call)
        /\ Len(Append(visited, call)) = v + 1
        /\ \A i \in 1..v : Append(visited, call)[i] = visited[i]
        /\ Append(visited, call)[v + 1] = call
    BY <2>1, AppendProperties
  <2>3. call.path = p
    BY DEF call
  <2> QED BY <1>1, <2>2, <2>3
<1>5. \A q \in Reachable : Pending(stack, n, q) => q = p
  <2> SUFFICES ASSUME NEW q \in Reachable, ~Top.seen, IsStrictPrefix(p, q)
               PROVE  FALSE
    BY <1>2 DEF Pending
  <2>1. IsFile(Tree, p)
    BY <1>1, <1>2 DEF TypeInv
  <2>2. p \in Path /\ q \in DOMAIN Tree /\ IsTree(Tree) /\ InDirs(Tree)
    BY <1>1, <1>2, WalkFacts
  <2>3. IsDir(Tree, p)
    BY <2>2, InDirsAbove DEF IsStrictPrefix
  <2> QED BY <2>1, <2>3 DEF IsFile, IsDir
<1>6. Reachable' = Reachable /\ Tree' = Tree /\ WalkNode' = WalkNode /\ Call' = Call
  BY <1>1 DEF Reachable, Tree, WalkNode, Call
<1>7. \A q : \A m \in 1..(n - 1) : Pending(stack', m, q) <=> Pending(stack, m, q)
  BY <1>3 DEF Pending
<1>8. 1..(n - 1) \subseteq 1..n /\ (\A m \in 1..n : m # n => m \in 1..(n - 1))
      /\ 1..v \subseteq 1..(v + 1) /\ v + 1 \in 1..(v + 1)
      /\ (\A i \in 1..(v + 1) : i # v + 1 => i \in 1..v)
  BY <1>2
<1>9. TypeInv'
  BY <1>1, <1>3, <1>4, <1>6, <1>8 DEF TypeInv
<1>10. PlaceInv'
  <2>1. \A m, l \in 1..(n - 1) : m # l => ~Pending(stack', m, stack'[l].path)
    BY <1>1, <1>3, <1>7, <1>8 DEF PlaceInv
  <2>2. \A i \in 1..(v + 1) : \A m \in 1..(n - 1) : ~Pending(stack', m, visited'[i].path)
    <3> SUFFICES ASSUME NEW i \in 1..(v + 1), NEW m \in 1..(n - 1)
                 PROVE  ~Pending(stack, m, visited'[i].path)
      BY <1>7
    <3>1. CASE i = v + 1
      <4>1. m \in 1..n /\ m # n
        BY <1>2
      <4> QED BY <1>1, <1>2, <1>4, <3>1, <4>1 DEF PlaceInv
    <3>2. CASE i # v + 1
      BY <1>1, <1>4, <1>8, <3>2 DEF PlaceInv
    <3> QED BY <3>1, <3>2
  <2>3. \A i \in 1..v : visited[i].path # p
    <3> SUFFICES ASSUME NEW i \in 1..v, visited[i].path = p  PROVE FALSE
      OBVIOUS
    <3>1. Pending(stack, n, visited[i].path)
      BY <1>2 DEF Pending
    <3> QED BY <1>1, <1>2, <3>1 DEF PlaceInv
  <2>4. \A i, j \in 1..(v + 1) : i # j => visited'[i].path # visited'[j].path
    <3> SUFFICES ASSUME NEW i \in 1..(v + 1), NEW j \in 1..(v + 1), i # j
                 PROVE  visited'[i].path # visited'[j].path
      OBVIOUS
    <3>1. CASE i # v + 1 /\ j # v + 1
      BY <1>1, <1>4, <1>8, <3>1 DEF PlaceInv
    <3>2. CASE i = v + 1
      BY <1>4, <1>8, <2>3, <3>2
    <3>3. CASE j = v + 1
      BY <1>4, <1>8, <2>3, <3>3
    <3> QED BY <3>1, <3>2, <3>3
  <2>5. ASSUME NEW q \in Reachable, \A i \in 1..(v + 1) : visited'[i].path # q
        PROVE  \E m \in 1..(n - 1) : Pending(stack', m, q)
    <3>1. q # p /\ \A i \in 1..v : visited[i].path # q
      BY <1>4, <1>8, <2>5
    <3>2. PICK m \in 1..n : Pending(stack, m, q)
      BY <1>1, <3>1 DEF PlaceInv
    <3>3. m \in 1..(n - 1)
      BY <1>5, <1>8, <3>1, <3>2
    <3> QED BY <1>7, <3>2, <3>3
  <2> QED BY <1>3, <1>4, <1>6, <2>1, <2>2, <2>4, <2>5 DEF PlaceInv
<1>11. StackOrder'
  <2> SUFFICES ASSUME NEW l \in 1..(n - 1), NEW q \in Reachable,
                      Precedes(q, stack[l].path),
                      \A i \in 1..(v + 1) : visited'[i].path # q
               PROVE  \E m \in l..(n - 1) : Pending(stack', m, q)
    <3>1. \A q, r : Precedes(q, r)' <=> Precedes(q, r)
      BY <1>1 DEF Precedes, ComesFirst
    <3>2. \A l \in 1..(n - 1) : stack'[l].path = stack[l].path
      BY <1>3
    <3> QED BY <1>3, <1>4, <1>6, <3>1, <3>2 DEF StackOrder
  <2>1. q # p /\ \A i \in 1..v : visited[i].path # q
    BY <1>4, <1>8
  <2>2. PICK m \in l..n : Pending(stack, m, q)
    BY <1>1, <1>8, <2>1 DEF StackOrder
  <2>3. m # n
    BY <1>5, <2>1, <2>2
  <2>4. m \in l..(n - 1) /\ m \in 1..(n - 1)
    BY <1>2, <2>3
  <2> QED BY <1>7, <2>2, <2>4
<1>12. VisitOrder'
  <2> SUFFICES ASSUME NEW i \in 1..(v + 1), NEW q \in Reachable,
                      Precedes(q, visited'[i].path)
               PROVE  \E j \in 1..(i - 1) : visited'[j].path = q
    BY <1>1, <1>4, <1>6 DEF VisitOrder, Precedes, ComesFirst
  <2>1. CASE i = v + 1
    <3>1. (\E j \in 1..v : visited[j].path = q) \/ \E m \in n..n : Pending(stack, m, q)
      BY <1>1, <1>2, <1>4, <2>1 DEF StackOrder
    <3>2. ~Pending(stack, n, q)
      <4> SUFFICES ASSUME Pending(stack, n, q)  PROVE FALSE
        OBVIOUS
      <4>1. q = p /\ Precedes(p, p)
        BY <1>4, <1>5, <2>1
      <4>2. p \in DOMAIN Tree
        BY <1>1, <1>2, WalkFacts
      <4> QED BY <1>1, <4>1, <4>2, NotBeforeItself
    <3>3. PICK j \in 1..v : visited[j].path = q
      <4>1. \A m \in n..n : m = n
        BY <1>2
      <4> QED BY <3>1, <3>2, <4>1
    <3>4. j \in 1..(i - 1)
      BY <1>2, <2>1
    <3> QED BY <1>4, <3>3, <3>4
  <2>2. CASE i # v + 1
    <3>1. i \in 1..v
      BY <1>8, <2>2
    <3>2. PICK j \in 1..(i - 1) : visited[j].path = q
      BY <1>1, <1>4, <3>1 DEF VisitOrder
    <3>3. j \in 1..v
      BY <1>2, <3>1
    <3> QED BY <1>4, <3>2, <3>3
  <2> QED BY <2>1, <2>2
<1> QED BY <1>9, <1>10, <1>11, <1>12 DEF PostInv

-----------------------------------------------------------------------------
(* The theorems.                                                           *)

LEMMA PostInvInit == Init => PostInv
<1> SUFFICES ASSUME Init  PROVE PostInv
  OBVIOUS
<1>1. /\ walk \in Walks /\ visited = <<>>
      /\ stack = IF Exists(Tree, <<>>) THEN <<Node(<<>>, <<>>, FALSE)>> ELSE <<>>
  BY DEF Init, Tree
<1>2. VisitOrder /\ Len(visited) = 0 /\ visited \in Seq(Call)
  BY <1>1, EmptySeq DEF VisitOrder
<1>3. CASE Exists(Tree, <<>>)
  <2>1. stack = <<Node(<<>>, <<>>, FALSE)>> /\ <<>> \in DOMAIN Tree /\ <<>> \in Path
    BY <1>1, <1>3, EmptySeq DEF Exists, Path
  <2>2. \A q \in Path : IsPrefix(<<>>, q)
    <3>1. \A q \in Seq(Name) : Len(<<>>) = 0 /\ Len(q) \in Nat
      BY EmptySeq, LenProperties
    <3>2. \A q \in Seq(Name) :
            Len(<<>>) <= Len(q) /\ \A i \in 1..Len(<<>>) : (<<>>)[i] = q[i]
      BY <3>1
    <3> QED BY <2>1, <3>2, PrefixElements DEF Path
  <2>3. <<>> \in Reachable
    <3> SUFFICES ASSUME NEW q \in walk.bad, IsStrictPrefix(q, <<>>)  PROVE FALSE
      BY <2>1 DEF Reachable, Tree
    <3>1. q \in Path
      BY <1>1, WalkFacts
    <3> QED BY <2>1, <2>2, <3>1, PrefixAntisymmetric DEF IsStrictPrefix, Path
  <2>4. stack \in Seq(WalkNode) /\ Len(stack) = 1 /\ stack[1] = Node(<<>>, <<>>, FALSE)
    BY <2>1, <2>3 DEF Node, WalkNode
  <2>5. \A q \in Reachable : Pending(stack, 1, q)
    <3>1. Reachable \subseteq Path
      BY <1>1, WalkFacts
    <3> QED BY <2>2, <2>4, <3>1 DEF Pending, Node, IsStrictPrefix
  <2>6. TypeInv
    BY <1>1, <1>2, <2>4 DEF TypeInv, Node
  <2>7. PlaceInv
    BY <1>2, <2>4, <2>5 DEF PlaceInv
  <2>8. StackOrder
    BY <2>4, <2>5 DEF StackOrder
  <2> QED BY <1>2, <2>6, <2>7, <2>8 DEF PostInv
<1>4. CASE ~Exists(Tree, <<>>)
  <2>1. stack = <<>> /\ Len(stack) = 0 /\ stack \in Seq(WalkNode)
    BY <1>1, <1>4, EmptySeq
  <2>2. Reachable = {}
    BY <1>1, <1>4, WalkFacts DEF IsDir
  <2>3. TypeInv
    <3>1. \A m \in 1..Len(stack) : FALSE
      BY <2>1
    <3>2. visited \in Seq(Call)
      BY <1>2
    <3> QED BY <1>1, <2>1, <3>1, <3>2 DEF TypeInv
  <2>4. PlaceInv /\ StackOrder
    BY <1>2, <2>1, <2>2 DEF PlaceInv, StackOrder
  <2> QED BY <1>2, <2>3, <2>4 DEF PostInv
<1> QED BY <1>3, <1>4

\* Nodes and visits keep to the order at all times: PostInv is inductive.
THEOREM PostOrderInvariant == Spec => []PostInv
<1>1. PostInv /\ [Next]_vars => PostInv'
  <2> SUFFICES ASSUME PostInv, [Next]_vars  PROVE PostInv'
    OBVIOUS
  <2>1. CASE Next
    BY <2>1, ExpandInv, UnlistedInv, VisitInv DEF Next
  <2>2. CASE UNCHANGED vars
    <3>1. walk' = walk /\ stack' = stack /\ visited' = visited
      BY <2>2 DEF vars
    <3> QED BY <3>1 DEF PostInv, TypeInv, PlaceInv, StackOrder, VisitOrder, WalkNode, Call,
                        Reachable, Tree, Precedes, ComesFirst
  <2> QED BY <2>1, <2>2
<1> QED BY <1>1, PostInvInit, PTL DEF Spec

\* An entry that can be got to is visited at most once, after everything in it and before it
\* in its directory (walk_test.go:48, 88-93), whatever cannot be opened.
THEOREM WalkIsInPostOrder == Spec => []InPostOrder
<1>1. PostInv => InPostOrder
  <2> SUFFICES ASSUME PostInv, NEW p \in Reachable
               PROVE  /\ Cardinality(VisitAt(p)) <= 1
                      /\ \A q \in Reachable : Precedes(q, p) =>
                           \A i \in VisitAt(p) : \E j \in VisitAt(q) : j < i
    BY DEF InPostOrder
  <2>1. PlaceInv /\ VisitOrder /\ Len(visited) \in Nat /\ DOMAIN visited = 1..Len(visited)
    BY LenProperties DEF PostInv, TypeInv
  <2>2. Cardinality(VisitAt(p)) <= 1
    <3>1. CASE VisitAt(p) = {}
      BY <3>1, FS_EmptySet
    <3>2. ASSUME NEW i \in VisitAt(p)  PROVE Cardinality(VisitAt(p)) <= 1
      <4>1. VisitAt(p) = {i}
        BY <2>1, <3>2 DEF VisitAt, PlaceInv
      <4>2. Cardinality({i}) = 1
        BY FS_Singleton
      <4> QED BY <4>1, <4>2
    <3> QED BY <3>1, <3>2
  <2>3. ASSUME NEW q \in Reachable, Precedes(q, p), NEW i \in VisitAt(p)
        PROVE  \E j \in VisitAt(q) : j < i
    <3>1. i \in 1..Len(visited) /\ visited[i].path = p
      BY <2>1, <2>3 DEF VisitAt
    <3>2. PICK j \in 1..(i - 1) : visited[j].path = q
      BY <2>1, <2>3, <3>1 DEF VisitOrder
    <3>3. j \in VisitAt(q) /\ j < i
      BY <2>1, <3>1, <3>2 DEF VisitAt
    <3> QED BY <3>3
  <2> QED BY <2>2, <2>3
<1> QED BY <1>1, PostOrderInvariant, PTL

\* A walk that has ended has visited everything that can be got to: what is left of VisitsAll
\* is that it ends.
THEOREM WalkLeavesNothingOut ==
  Spec => [](stack = <<>> => \A p \in Reachable : VisitAt(p) # {})
<1>1. PostInv => (stack = <<>> => \A p \in Reachable : VisitAt(p) # {})
  <2> SUFFICES ASSUME PostInv, stack = <<>>, NEW p \in Reachable  PROVE VisitAt(p) # {}
    OBVIOUS
  <2>1. PlaceInv /\ DOMAIN visited = 1..Len(visited) /\ 1..Len(stack) = {}
    BY EmptySeq, LenProperties DEF PostInv, TypeInv
  <2> QED BY <2>1 DEF PlaceInv, VisitAt
<1> QED BY <1>1, PostOrderInvariant, PTL

=============================================================================
