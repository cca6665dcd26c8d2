---------------------------- MODULE StoreProofs -----------------------------
(***************************************************************************)
(* Lemmas: about paths; that whatever the calls of FileSystem and          *)
(* LocalStore do, succeed or fail, they leave a tree; what each call       *)
(* leaves as it was, and what it puts where; and about bytes.              *)
(***************************************************************************)
EXTENDS LocalStore, SequenceTheorems, FiniteSetTheorems, TLAPS

\* A path's parent, and all its prefixes, are paths.
LEMMA PrefixPath ==
  ASSUME NEW p \in Path
  PROVE  /\ Prefixes(p) \subseteq Path
         /\ ParentDir(p) \in Path
<1>1. \A l \in Int : l <= Len(p) => SubSeq(p, 1, l) \in Path
  <2> SUFFICES ASSUME NEW l \in Int, l <= Len(p)  PROVE SubSeq(p, 1, l) \in Path
    OBVIOUS
  <2>1. p \in Seq(Name) /\ Len(p) \in Nat
    BY LenProperties DEF Path
  <2>2. \A i \in 1..l : p[i] \in Name
    BY <2>1, ElementOfSeq
  <2> QED BY <2>2, SubSeqProperties DEF Path
<1>2. Len(p) \in Nat
  BY LenProperties DEF Path
<1>3. Prefixes(p) \subseteq Path
  <2> SUFFICES ASSUME NEW l \in 0..Len(p)  PROVE SubSeq(p, 1, l) \in Path
    BY DEF Prefixes
  <2> QED BY <1>1, <1>2
<1>4. Len(p) - 1 \in Int /\ Len(p) - 1 <= Len(p)
  BY <1>2
<1> QED BY <1>1, <1>3, <1>4 DEF ParentDir

\* A prefix, element by element.
LEMMA PrefixElements ==
  ASSUME NEW S, NEW q \in Seq(S), NEW p \in Seq(S)
  PROVE  IsPrefix(q, p) <=> Len(q) <= Len(p) /\ \A i \in 1..Len(q) : q[i] = p[i]
<1>1. Len(q) \in Nat /\ Len(p) \in Nat /\ SubSeq(q, 1, Len(q)) = q
  BY LenProperties, SubSeqFull
<1>2. SUFFICES ASSUME Len(q) <= Len(p)
               PROVE  SubSeq(q, 1, Len(q)) = SubSeq(p, 1, Len(q))
                        <=> \A i \in 1..Len(q) : q[i] = p[i]
  BY DEF IsPrefix
<1> DEFINE s == SubSeq(p, 1, Len(q))
<1>3. s \in Seq(S) /\ Len(s) = Len(q) /\ \A i \in 1..Len(q) : s[i] = p[i]
  <2>1. \A i \in 1..Len(q) : p[i] \in S
    BY <1>1, <1>2, ElementOfSeq
  <2>2. /\ s \in Seq(S)
        /\ Len(s) = IF 1 <= Len(q) THEN Len(q) - 1 + 1 ELSE 0
        /\ \A i \in 1..(Len(q) - 1 + 1) : s[i] = p[1 + i - 1]
    BY <1>1, <2>1, SubSeqProperties
  <2> QED BY <1>1, <2>2
<1> HIDE DEF s
<1>4. s = q <=> \A i \in 1..Len(q) : q[i] = p[i]
  BY <1>3, SeqEqual
<1> QED BY <1>1, <1>4 DEF s

\* Prefixes are the sequences that are prefixes, and a prefix of a prefix is one.
LEMMA PrefixesArePrefixes ==
  ASSUME NEW S, NEW q \in Seq(S), NEW p \in Seq(S), IsPrefix(q, p)
  PROVE  q \in Prefixes(p)
<1>1. Len(q) \in 0..Len(p)
  BY LenProperties DEF IsPrefix
<1>2. q = SubSeq(p, 1, Len(q))
  BY SubSeqFull DEF IsPrefix
<1> QED BY <1>1, <1>2, Zenon DEF Prefixes

LEMMA PrefixTransitive ==
  ASSUME NEW S, NEW p \in Seq(S), NEW q \in Seq(S), NEW r \in Seq(S),
         IsPrefix(r, q), IsPrefix(q, p)
  PROVE  IsPrefix(r, p)
<1>1. Len(q) \in Nat /\ Len(p) \in Nat /\ Len(r) \in Nat
  BY LenProperties
<1>2. Len(r) <= Len(q) /\ \A i \in 1..Len(r) : r[i] = q[i]
  BY PrefixElements
<1>3. Len(q) <= Len(p) /\ \A i \in 1..Len(q) : q[i] = p[i]
  BY PrefixElements
<1>4. Len(r) <= Len(p) /\ \A i \in 1..Len(r) : r[i] = p[i]
  BY <1>1, <1>2, <1>3
<1> QED BY <1>4, PrefixElements

LEMMA PrefixReflexive ==
  ASSUME NEW S, NEW p \in Seq(S)
  PROVE  IsPrefix(p, p)
BY LenProperties DEF IsPrefix

\* Two sequences that are prefixes of one another are the same.
LEMMA PrefixAntisymmetric ==
  ASSUME NEW S, NEW p \in Seq(S), NEW q \in Seq(S), IsPrefix(p, q), IsPrefix(q, p)
  PROVE  p = q
<1>1. Len(q) \in Nat /\ Len(p) \in Nat
  BY LenProperties
<1>2. Len(p) <= Len(q) /\ \A i \in 1..Len(p) : p[i] = q[i]
  BY PrefixElements
<1>3. Len(q) <= Len(p)
  BY PrefixElements
<1> QED BY <1>1, <1>2, <1>3, SeqEqual

\* A path is its parent with its last name.
LEMMA ParentFacts ==
  ASSUME NEW p \in Path, p # <<>>
  PROVE  /\ ParentDir(p) \in Path
         /\ Len(p) \in Nat \ {0} /\ Len(ParentDir(p)) = Len(p) - 1
         /\ \A i \in 1..(Len(p) - 1) : ParentDir(p)[i] = p[i]
         /\ IsStrictPrefix(ParentDir(p), p)
         /\ ParentDir(p) \in Prefixes(p) \ {p}
<1>1. p \in Seq(Name) /\ ParentDir(p) \in Seq(Name) /\ Len(p) \in Nat \ {0}
  BY PrefixPath, EmptySeq DEF Path
<1>2. \A i \in 1..(Len(p) - 1) : p[i] \in Name
  BY <1>1, ElementOfSeq
<1> DEFINE n == Len(p) - 1
           s == SubSeq(p, 1, n)
<1>3. n \in Nat /\ \A i \in 1..n : p[i] \in Name
  BY <1>1, <1>2
<1>4. /\ Len(ParentDir(p)) = Len(p) - 1
      /\ \A i \in 1..(Len(p) - 1) : ParentDir(p)[i] = p[i]
  <2> HIDE DEF n
  <2>1. /\ Len(s) = IF 1 <= n THEN n - 1 + 1 ELSE 0
        /\ \A i \in 1..(n - 1 + 1) : s[i] = p[1 + i - 1]
    BY <1>3, SubSeqProperties
  <2> HIDE DEF s
  <2>2. Len(s) = n /\ \A i \in 1..n : s[i] = p[i]
    BY <1>3, <2>1
  <2> QED BY <2>2 DEF ParentDir, s, n
<1> HIDE DEF n, s
<1>5. IsPrefix(ParentDir(p), p) /\ ParentDir(p) # p
  BY <1>1, <1>4, PrefixElements
<1>6. ParentDir(p) \in Prefixes(p)
  BY <1>1, <1>5, PrefixesArePrefixes
<1> QED BY <1>1, <1>4, <1>5, <1>6 DEF IsStrictPrefix, Path

\* A path is known by its parent and its last name.
LEMMA SameParentSameName ==
  ASSUME NEW p \in Path, NEW q \in Path, p # <<>>, q # <<>>,
         ParentDir(p) = ParentDir(q), Last(p) = Last(q)
  PROVE  p = q
<1>1. Len(p) \in Nat \ {0} /\ Len(q) \in Nat \ {0} /\ Len(p) = Len(q)
  BY ParentFacts
<1>2. \A i \in 1..(Len(p) - 1) : p[i] = q[i]
  BY <1>1, ParentFacts
<1>3. p[Len(p)] = q[Len(p)]
  BY <1>1 DEF Last
<1>4. \A i \in 1..Len(p) : p[i] = q[i]
  BY <1>1, <1>2, <1>3
<1> QED BY <1>1, <1>4, SeqEqual DEF Path

\* What is below a prefix, and what a prefix is put before.
LEMMA BelowFacts ==
  ASSUME NEW S, NEW top \in Seq(S), NEW p \in Seq(S), IsPrefix(top, p)
  PROVE  LET s == SubSeq(p, Len(top) + 1, Len(p))
         IN  s \in Seq(S) /\ p = top \o s
<1> DEFINE m == Len(top)
           n == Len(p)
           s == SubSeq(p, m + 1, n)
<1>1. m \in Nat /\ n \in Nat /\ m <= n
  BY LenProperties DEF IsPrefix
<1>2. \A i \in (m + 1)..n : p[i] \in S
  BY <1>1, ElementOfSeq
<1>3. s \in Seq(S)
  <2> HIDE DEF m, n
  <2> QED BY <1>1, <1>2, SubSeqProperties
<1>4. top = SubSeq(p, 1, m)
  BY SubSeqFull DEF IsPrefix
<1>5. SubSeq(p, 1, m) \o s = SubSeq(p, 1, n)
  <2>1. 1 \in 1..(Len(p) + 1) /\ m \in (1 - 1)..Len(p) /\ n \in m..Len(p)
    BY <1>1
  <2> HIDE DEF m, n
  <2> QED BY <2>1, ConcatAdjacentSubSeq, Zenon
<1>6. SubSeq(p, 1, n) = p
  BY SubSeqFull
<1> HIDE DEF s, m, n
<1>7. p = top \o s
  BY <1>4, <1>5, <1>6
<1> QED BY <1>3, <1>7 DEF s, m, n

LEMMA ConcatBelow ==
  ASSUME NEW S, NEW top \in Seq(S), NEW s \in Seq(S)
  PROVE  /\ top \o s \in Seq(S) /\ IsPrefix(top, top \o s)
         /\ SubSeq(top \o s, Len(top) + 1, Len(top \o s)) = s
<1> DEFINE c == top \o s
           m == Len(top)
           n == Len(s)
           u == SubSeq(c, m + 1, Len(c))
<1>1. /\ m \in Nat /\ n \in Nat /\ c \in Seq(S) /\ Len(c) = m + n
      /\ \A i \in 1..(m + n) : c[i] = IF i <= m THEN top[i] ELSE s[i - m]
  BY LenProperties, ConcatProperties
<1> HIDE DEF c, m, n
<1>2. \A i \in (m + 1)..Len(c) : c[i] \in S
  BY <1>1, ElementOfSeq
<1>3. /\ u \in Seq(S)
      /\ Len(u) = IF m + 1 <= Len(c) THEN Len(c) - (m + 1) + 1 ELSE 0
      /\ \A i \in 1..(Len(c) - (m + 1) + 1) : u[i] = c[(m + 1) + i - 1]
  BY <1>1, <1>2, SubSeqProperties, (m + 1) \in Int, Len(c) \in Int
<1> HIDE DEF u
<1>4. Len(u) = n /\ \A i \in 1..n : u[i] = c[m + i]
  BY <1>1, <1>3
<1>5. \A i \in 1..n : u[i] = s[i]
  <2>1. \A i \in 1..n : m + i \in 1..(m + n) /\ ~(m + i <= m) /\ (m + i) - m = i
    BY <1>1
  <2> QED BY <1>1, <1>4, <2>1
<1>6. u = s
  BY <1>1, <1>3, <1>4, <1>5, SeqEqual DEF n
<1>7. IsPrefix(top, c)
  BY <1>1, PrefixElements DEF m
<1> QED BY <1>1, <1>6, <1>7 DEF u, c, m

\* Of two prefixes of a sequence one is a prefix of the other.
LEMMA PrefixesComparable ==
  ASSUME NEW S, NEW p \in Seq(S), NEW q \in Seq(S), NEW r \in Seq(S),
         IsPrefix(p, r), IsPrefix(q, r)
  PROVE  IsPrefix(p, q) \/ IsPrefix(q, p)
<1>1. Len(p) \in Nat /\ Len(q) \in Nat
  BY LenProperties
<1>2. \A i \in 1..Len(p) : p[i] = r[i]
  BY PrefixElements
<1>3. \A i \in 1..Len(q) : q[i] = r[i]
  BY PrefixElements
<1>4. CASE Len(p) <= Len(q)
  BY <1>1, <1>2, <1>3, <1>4, PrefixElements
<1>5. CASE Len(q) <= Len(p)
  BY <1>1, <1>2, <1>3, <1>5, PrefixElements
<1> QED BY <1>1, <1>4, <1>5

-----------------------------------------------------------------------------
(* Trees.                                                                  *)

\* Put, Without: the two ways a tree is changed.
LEMMA PutTree ==
  ASSUME NEW t, IsTree(t), NEW p \in Path, NEW e \in Entry
  PROVE  IsTree(Put(t, p, e))
<1>1. IsFiniteSet(DOMAIN t \cup {p})
  BY FS_AddElement DEF IsTree
<1> QED BY <1>1 DEF IsTree, Put

\* Removing entries leaves a tree.
LEMMA WithoutTree ==
  ASSUME NEW t, IsTree(t), NEW S
  PROVE  IsTree(Without(t, S))
<1>1. IsFiniteSet(DOMAIN t \ S)
  BY FS_Subset, DOMAIN t \ S \subseteq DOMAIN t DEF IsTree
<1> QED BY <1>1 DEF IsTree, Without

\* Making directories leaves a tree.
LEMMA MkdirAllTree ==
  ASSUME NEW t, IsTree(t), NEW p \in Path
  PROVE  IsTree(OsMkdirAll(t, p).tree)
<1>1. Prefixes(p) \subseteq Path
  BY PrefixPath
<1>2. IsFiniteSet(DOMAIN t \cup Prefixes(p))
  <2> DEFINE upTo == [n \in 0..Len(p) |-> SubSeq(p, 1, n)]
  <2>1. upTo \in Surjection(0..Len(p), Prefixes(p))
    BY DEF Prefixes, Surjection
  <2>2. IsFiniteSet(0..Len(p))
    BY LenProperties, FS_Interval DEF Path
  <2>3. IsFiniteSet(Prefixes(p))
    BY <2>1, <2>2, FS_Surjection
  <2> QED BY <2>3, FS_Union DEF IsTree
<1> QED BY <1>1, <1>2 DEF OsMkdirAll, IsTree, Ok, Err, Exists, Entry

\* Creating a file leaves a tree.
LEMMA CreateTree ==
  ASSUME NEW t, IsTree(t), NEW p \in Path
  PROVE  IsTree(OsCreate(t, p).tree)
<1>1. <<>> \in Entry
  BY DEF Entry
<1> QED BY <1>1, PutTree DEF OsCreate, Ok, Err

\* Removing a file or directory leaves a tree.
LEMMA RemoveTree ==
  ASSUME NEW t, IsTree(t), NEW p
  PROVE  IsTree(OsRemove(t, p).tree)
BY WithoutTree DEF OsRemove, Ok, Err

\* Moving a subtree: what is neither moved nor in the way stays, and what is moved has the
\* same names below.
LEMMA RenamedFacts ==
  ASSUME NEW t, IsTree(t), NEW from \in Path, NEW to \in Path
  PROVE  LET r == Renamed(t, from, to)
             stay == DOMAIN t \ (Under(t, from) \cup Under(t, to))
             below(p) == SubSeq(p, Len(from) + 1, Len(p))
         IN  /\ r = [p \in DOMAIN r |-> r[p]]
             /\ DOMAIN r = stay \cup {to \o below(p) : p \in Under(t, from)}
             /\ \A p \in stay : r[p] = t[p]
             /\ \A p \in Under(t, from) : /\ p \in DOMAIN t /\ below(p) \in Path
                                          /\ to \o below(p) \in Path /\ to \o below(p) \notin stay
                                          /\ r[to \o below(p)] = t[p]
<1> DEFINE stay == DOMAIN t \ (Under(t, from) \cup Under(t, to))
           below(p, top) == SubSeq(p, Len(top) + 1, Len(p))
           moved == {to \o below(p, from) : p \in Under(t, from)}
           r == [p \in stay \cup moved |->
                   IF p \in stay THEN t[p] ELSE t[from \o below(p, to)]]
<1>1. Renamed(t, from, to) = r
  BY DEF Renamed
<1>2. ASSUME NEW p \in Under(t, from)
      PROVE  /\ p \in DOMAIN t /\ below(p, from) \in Path /\ p = from \o below(p, from)
             /\ to \o below(p, from) \in Path /\ to \o below(p, from) \notin stay
             /\ below(to \o below(p, from), to) = below(p, from)
  <2>1. p \in DOMAIN t /\ p \in Seq(Name) /\ IsPrefix(from, p)
    BY DEF Under, IsTree, Path
  <2> DEFINE s == below(p, from)
  <2>2. s \in Seq(Name) /\ p = from \o s
    BY <2>1, BelowFacts DEF Path
  <2> HIDE DEF s
  <2>3. to \o s \in Seq(Name) /\ IsPrefix(to, to \o s) /\ below(to \o s, to) = s
    BY <2>2, ConcatBelow DEF Path
  <2>4. to \o s \notin stay
    BY <2>3 DEF Under
  <2> QED BY <2>1, <2>2, <2>3, <2>4 DEF s, Path
<1> HIDE DEF stay, below
<1>3. \A p \in Under(t, from) : to \o below(p, from) \in moved
  OBVIOUS
<1>4. \A p \in Under(t, from) : r[to \o below(p, from)] = t[p]
  BY <1>2, <1>3
<1>5. r = [p \in DOMAIN r |-> r[p]] /\ DOMAIN r = stay \cup moved /\ \A p \in stay : r[p] = t[p]
  OBVIOUS
<1> QED BY <1>1, <1>2, <1>4, <1>5 DEF stay, below

\* It keeps every path a path and every entry an entry.
LEMMA RenamedTree ==
  ASSUME NEW t, IsTree(t), NEW from \in Path, NEW to \in Path
  PROVE  IsTree(Renamed(t, from, to))
<1> DEFINE stay == DOMAIN t \ (Under(t, from) \cup Under(t, to))
           below(p) == SubSeq(p, Len(from) + 1, Len(p))
           r == Renamed(t, from, to)
<1>1. /\ r = [p \in DOMAIN r |-> r[p]]
      /\ DOMAIN r = stay \cup {to \o below(p) : p \in Under(t, from)}
      /\ \A p \in stay : r[p] = t[p]
      /\ \A p \in Under(t, from) : /\ p \in DOMAIN t /\ below(p) \in Path
                                   /\ to \o below(p) \in Path /\ to \o below(p) \notin stay
                                   /\ r[to \o below(p)] = t[p]
  BY RenamedFacts, Zenon
<1>2. \A p \in stay : p \in DOMAIN t
  OBVIOUS
<1> HIDE DEF stay, below, r
<1>3. ASSUME NEW q \in DOMAIN r  PROVE q \in Path /\ r[q] \in Entry
  <2>1. CASE q \in stay
    BY <1>1, <1>2, <2>1 DEF IsTree
  <2>2. CASE q \notin stay
    <3> PICK p \in Under(t, from) : q = to \o below(p)
      BY <1>1, <2>2
    <3> QED BY <1>1 DEF IsTree
  <2> QED BY <2>1, <2>2
<1>4. IsFiniteSet(DOMAIN r)
  <2> DEFINE moved == {to \o below(p) : p \in Under(t, from)}
             goes  == [p \in Under(t, from) |-> to \o below(p)]
  <2>1. IsFiniteSet(stay) /\ IsFiniteSet(Under(t, from))
    <3>1. stay \subseteq DOMAIN t /\ Under(t, from) \subseteq DOMAIN t
      BY <1>2 DEF Under
    <3> QED BY <3>1, FS_Subset DEF IsTree
  <2>2. goes \in Surjection(Under(t, from), moved)
    BY DEF Surjection
  <2>3. IsFiniteSet(moved)
    BY <2>1, <2>2, FS_Surjection
  <2>4. IsFiniteSet(stay \cup moved)
    BY <2>1, <2>3, FS_Union
  <2> QED BY <1>1, <2>4
<1> QED BY <1>1, <1>3, <1>4 DEF IsTree, r

\* A rename leaves a tree, whether it succeeds or not.
LEMMA RenameTree ==
  ASSUME NEW t, IsTree(t), NEW from \in Path, NEW to \in Path
  PROVE  IsTree(OsRename(t, from, to).tree)
BY RenamedTree DEF OsRename, Ok, Err

\* So does the removal and the rename of Move.
LEMMA MoveTree ==
  ASSUME NEW t, IsTree(t), NEW from \in Path, NEW to \in Path
  PROVE  IsTree(Move(t, from, to).tree)
BY RemoveTree, RenameTree DEF Move

\* So does a move that makes the directories it needs.
LEMMA MoveIntoTree ==
  ASSUME NEW t, IsTree(t), NEW from \in Path, NEW to \in Path
  PROVE  IsTree(MoveInto(t, from, to).tree)
<1>1. IsTree(MkParentDirs(t, to).tree)
  BY PrefixPath, MkdirAllTree DEF MkParentDirs
<1> QED BY <1>1, MoveTree DEF MoveInto

\* A copy leaves a tree, wherever it fails.
LEMMA CopyIntoTree ==
  ASSUME NEW t, IsTree(t), NEW from \in Path, NEW to \in Path
  PROVE  IsTree(CopyInto(t, from, to).tree)
<1> DEFINE made    == MkParentDirs(t, to)
           created == OsCreate(made.tree, to)
<1>1. IsTree(made.tree)
  BY PrefixPath, MkdirAllTree DEF MkParentDirs
<1> HIDE DEF made
<1>2. IsTree(created.tree)
  BY <1>1, CreateTree
<1>3. Exists(made.tree, from) /\ created.ok => created.tree[from] \in Entry
  <2>1. created.ok => created.tree = Put(made.tree, to, <<>>)
    BY DEF OsCreate, Ok, Err
  <2> QED BY <2>1, <1>1, <1>2 DEF Exists, Put, IsTree
<1> HIDE DEF created
<1>4. Exists(made.tree, from) /\ created.ok =>
        IsTree(Put(created.tree, to, created.tree[from]))
  BY <1>2, <1>3, PutTree
<1> QED BY <1>1, <1>2, <1>4 DEF CopyInto, Ok, Err, made, created

\* So does a download.
LEMMA WriteFileTree ==
  ASSUME NEW t, IsTree(t), NEW p \in Path, NEW contents \in Entry
  PROVE  IsTree(WriteFile(t, p, contents).tree)
<1> DEFINE made    == MkParentDirs(t, p)
           created == OsCreate(made.tree, p)
<1>1. IsTree(made.tree)
  BY PrefixPath, MkdirAllTree DEF MkParentDirs
<1> HIDE DEF made
<1>2. IsTree(created.tree)
  BY <1>1, CreateTree
<1> HIDE DEF created
<1>3. IsTree(Put(created.tree, p, contents))
  BY <1>2, PutTree
<1> QED BY <1>1, <1>2, <1>3 DEF WriteFile, Ok, Err, made, created

\* Below what is no directory, or an empty one, there is nothing.
LEMMA NothingBelow ==
  ASSUME NEW t, IsTree(t), InDirs(t), NEW p \in Path, ~IsDir(t, p) \/ Children(t, p) = {}
  PROVE  Under(t, p) \subseteq {p}
<1> SUFFICES ASSUME NEW q \in Under(t, p), q # p  PROVE FALSE
  OBVIOUS
<1>1. q \in DOMAIN t /\ q \in Seq(Name) /\ p \in Seq(Name) /\ IsPrefix(p, q)
  BY DEF Under, IsTree, Path
<1>2. IsDir(t, p)
  BY <1>1, PrefixesArePrefixes DEF InDirs
<1> DEFINE m == Len(p)
           n == Len(q)
           c == SubSeq(q, 1, m + 1)
<1>3. m \in Nat /\ n \in Nat /\ m < n /\ \A i \in 1..m : p[i] = q[i]
  <2>1. m \in Nat /\ n \in Nat /\ m <= n /\ \A i \in 1..m : p[i] = q[i]
    BY <1>1, LenProperties, PrefixElements
  <2>2. m # n
    BY <1>1, <2>1, SeqEqual
  <2> QED BY <2>1, <2>2
<1>4. c \in Prefixes(q)
  <2>1. m + 1 \in 0..n
    BY <1>3
  <2> QED BY <2>1 DEF Prefixes
<1>5. c \in DOMAIN t /\ c \in Path
  <2>1. c = q \/ IsDir(t, c)
    BY <1>1, <1>4 DEF InDirs
  <2> HIDE DEF c
  <2> QED BY <1>1, <2>1 DEF IsDir, Exists, IsTree
<1>6. Len(c) = m + 1 /\ \A i \in 1..(m + 1) : c[i] = q[i]
  <2>1. \A i \in 1..(m + 1) : q[i] \in Name
    BY <1>1, <1>3, ElementOfSeq
  <2> HIDE DEF m, n
  <2>2. /\ Len(c) = IF 1 <= m + 1 THEN (m + 1) - 1 + 1 ELSE 0
        /\ \A i \in 1..((m + 1) - 1 + 1) : c[i] = q[1 + i - 1]
    BY <1>3, <2>1, SubSeqProperties, (m + 1) \in Int
  <2>3. /\ 1 <= m + 1 /\ (m + 1) - 1 + 1 = m + 1
        /\ \A i \in 1..(m + 1) : 1 + i - 1 = i
    BY <1>3
  <2> HIDE DEF c
  <2> QED BY <2>2, <2>3
<1> HIDE DEF c
<1>7. c # <<>>
  BY <1>3, <1>6, EmptySeq
<1>8. ParentDir(c) = p
  <2>1. /\ ParentDir(c) \in Seq(Name) /\ Len(ParentDir(c)) = m
        /\ \A i \in 1..m : ParentDir(c)[i] = c[i]
    <3> HIDE DEF m
    <3>1. /\ ParentDir(c) \in Seq(Name) /\ Len(ParentDir(c)) = Len(c) - 1
          /\ \A i \in 1..(Len(c) - 1) : ParentDir(c)[i] = c[i]
      BY <1>5, <1>7, ParentFacts DEF Path
    <3> QED BY <1>3, <1>6, <3>1
  <2>2. \A i \in 1..m : ParentDir(c)[i] = p[i]
    BY <1>3, <1>6, <2>1
  <2> QED BY <1>1, <2>1, <2>2, SeqEqual
<1> QED BY <1>2, <1>5, <1>7, <1>8 DEF Children

-----------------------------------------------------------------------------
(* Directories: what the calls leave where it was, and that there is       *)
(* always a directory above what there is.                                 *)

\* The prefixes of a path are the paths that are prefixes of it.
LEMMA PrefixesOfPath ==
  ASSUME NEW p \in Path, NEW q
  PROVE  q \in Prefixes(p) <=> q \in Path /\ IsPrefix(q, p)
<1>1. ASSUME q \in Prefixes(p)  PROVE q \in Path /\ IsPrefix(q, p)
  <2>1. q \in Path /\ p \in Seq(Name) /\ Len(p) \in Nat
    BY <1>1, PrefixPath, LenProperties DEF Path
  <2>2. PICK l \in 0..Len(p) : q = SubSeq(p, 1, l)
    BY <1>1 DEF Prefixes
  <2>3. \A i \in 1..l : p[i] \in Name
    BY <2>1, <2>2, ElementOfSeq
  <2>4. Len(q) = l /\ \A i \in 1..l : q[i] = p[i]
    <3>1. /\ Len(q) = IF 1 <= l THEN l - 1 + 1 ELSE 0
          /\ \A i \in 1..(l - 1 + 1) : q[i] = p[1 + i - 1]
      BY <2>2, <2>3, SubSeqProperties
    <3>2. l - 1 + 1 = l /\ \A i \in 1..l : 1 + i - 1 = i
      BY <2>2
    <3> QED BY <2>2, <3>1, <3>2
  <2>5. q \in Seq(Name) /\ Len(q) <= Len(p)
    BY <2>1, <2>2, <2>4 DEF Path
  <2>6. IsPrefix(q, p)
    BY <2>1, <2>4, <2>5, PrefixElements
  <2> QED BY <2>1, <2>6
<1>2. ASSUME q \in Path, IsPrefix(q, p)  PROVE q \in Prefixes(p)
  BY <1>2, PrefixesArePrefixes DEF Path
<1> QED BY <1>1, <1>2

\* InDirs, in terms of the paths above.
LEMMA InDirsAbove ==
  ASSUME NEW t, IsTree(t)
  PROVE  InDirs(t) <=>
           \A p \in DOMAIN t : \A q \in Path : IsPrefix(q, p) /\ q # p => IsDir(t, q)
BY PrefixesOfPath DEF InDirs, IsTree

\* What is above a path is its parent, or above it.
LEMMA AboveParent ==
  ASSUME NEW p \in Path, NEW q \in Path, IsPrefix(q, p), q # p
  PROVE  p # <<>> /\ IsPrefix(q, ParentDir(p))
<1>1. p \in Seq(Name) /\ q \in Seq(Name) /\ Len(p) \in Nat /\ Len(q) \in Nat
  BY LenProperties DEF Path
<1>2. Len(q) <= Len(p) /\ \A i \in 1..Len(q) : q[i] = p[i]
  BY <1>1, PrefixElements
<1>3. Len(q) # Len(p)
  BY <1>1, <1>2, SeqEqual
<1>4. p # <<>>
  BY <1>1, <1>2, <1>3
<1>5. /\ ParentDir(p) \in Seq(Name) /\ Len(ParentDir(p)) = Len(p) - 1
      /\ \A i \in 1..(Len(p) - 1) : ParentDir(p)[i] = p[i]
  BY <1>4, ParentFacts DEF Path
<1>6. Len(q) <= Len(ParentDir(p)) /\ \A i \in 1..Len(q) : q[i] = ParentDir(p)[i]
  BY <1>1, <1>2, <1>3, <1>5
<1> QED BY <1>1, <1>4, <1>5, <1>6, PrefixElements

\* What is in t at q is there in u.
SameAt(t, u, q) == q \in DOMAIN u /\ u[q] = t[q]

\* An entry that is no directory, before and after, leaves all in directories.
LEMMA PutDirs ==
  ASSUME NEW t, IsTree(t), InDirs(t), NEW p \in Path, NEW e \in Entry,
         ~IsDir(t, p),
         p \in DOMAIN t \/ (p # <<>> /\ IsDir(t, ParentDir(p)))
  PROVE  /\ IsTree(Put(t, p, e)) /\ InDirs(Put(t, p, e))
         /\ DOMAIN Put(t, p, e) = DOMAIN t \cup {p} /\ Put(t, p, e)[p] = e
         /\ \A q \in DOMAIN t : q # p => SameAt(t, Put(t, p, e), q)
<1> DEFINE u == Put(t, p, e)
<1>1. IsTree(u)
  BY PutTree
<1>2. /\ DOMAIN u = DOMAIN t \cup {p} /\ u[p] = e
      /\ \A q \in DOMAIN t : q # p => SameAt(t, u, q)
  BY DEF Put, SameAt
<1> HIDE DEF u
<1>3. ASSUME NEW r \in DOMAIN u, NEW q \in Path, IsPrefix(q, r), q # r  PROVE IsDir(u, q)
  <2>1. IsDir(t, q)
    <3>1. CASE r \in DOMAIN t
      BY <1>3, <3>1, InDirsAbove
    <3>2. CASE r \notin DOMAIN t
      <4>1. r = p /\ p # <<>> /\ IsDir(t, ParentDir(p))
        BY <1>2, <3>2
      <4>2. IsPrefix(q, ParentDir(p)) /\ ParentDir(p) \in DOMAIN t
        BY <1>3, <4>1, AboveParent DEF IsDir, Exists
      <4> QED BY <4>1, <4>2, InDirsAbove
    <3> QED BY <3>1, <3>2
  <2> QED BY <1>2, <2>1 DEF IsDir, Exists, SameAt
<1>4. InDirs(u)
  BY <1>1, <1>3, InDirsAbove
<1> QED BY <1>1, <1>2, <1>4 DEF u

\* os.MkdirAll adds directories, above the path and at it, and takes nothing away.
LEMMA MkdirFacts ==
  ASSUME NEW t, IsTree(t), InDirs(t), NEW p \in Path
  PROVE  LET r == OsMkdirAll(t, p)
         IN  /\ IsTree(r.tree) /\ InDirs(r.tree)
             /\ \A q \in DOMAIN t : SameAt(t, r.tree, q)
             /\ \A q \in DOMAIN r.tree : q \in DOMAIN t \/ (IsPrefix(q, p) /\ IsDir(r.tree, q))
             /\ r.ok => IsDir(r.tree, p)
             /\ (\A q \in Path : IsPrefix(q, p) => ~IsFile(t, q)) => r.ok
<1> DEFINE r == OsMkdirAll(t, p)
           u == r.tree
<1>1. CASE \E q \in Prefixes(p) : IsFile(t, q)
  <2>1. u = t /\ ~r.ok
    BY <1>1 DEF OsMkdirAll, Err
  <2>2. \E q \in Path : IsPrefix(q, p) /\ IsFile(t, q)
    BY <1>1, PrefixesOfPath
  <2> HIDE DEF r
  <2> QED BY <2>1, <2>2 DEF SameAt, r
<1>2. CASE ~\E q \in Prefixes(p) : IsFile(t, q)
  <2>1. u = [q \in DOMAIN t \cup Prefixes(p) |-> IF Exists(t, q) THEN t[q] ELSE Dir] /\ r.ok
    BY <1>2 DEF OsMkdirAll, Ok
  <2>2. IsTree(u)
    BY MkdirAllTree
  <2> HIDE DEF r
  <2>3. DOMAIN u = DOMAIN t \cup Prefixes(p) /\ \A q \in DOMAIN t : SameAt(t, u, q)
    BY <2>1 DEF Exists, SameAt
  <2>4. \A q \in Path : IsPrefix(q, p) => IsDir(u, q)
    <3> SUFFICES ASSUME NEW q \in Path, IsPrefix(q, p)  PROVE IsDir(u, q)
      OBVIOUS
    <3>1. q \in Prefixes(p)
      BY PrefixesOfPath
    <3>2. ~IsFile(t, q)
      BY <1>2, <3>1
    <3> QED BY <2>1, <3>1, <3>2 DEF IsDir, IsFile, Exists
  <2>5. ASSUME NEW x \in DOMAIN u, NEW q \in Path, IsPrefix(q, x), q # x  PROVE IsDir(u, q)
    <3>1. CASE x \in DOMAIN t
      <4>1. IsDir(t, q)
        BY <2>5, <3>1, InDirsAbove
      <4> QED BY <2>3, <4>1 DEF IsDir, Exists, SameAt
    <3>2. CASE x \notin DOMAIN t
      <4>1. x \in Path /\ IsPrefix(x, p)
        BY <2>3, <3>2, PrefixesOfPath
      <4>2. IsPrefix(q, p)
        BY <2>5, <4>1, PrefixTransitive DEF Path
      <4> QED BY <2>4, <4>2
    <3> QED BY <3>1, <3>2
  <2>6. InDirs(u)
    BY <2>2, <2>5, InDirsAbove
  <2>7. \A q \in DOMAIN u : q \in DOMAIN t \/ (IsPrefix(q, p) /\ IsDir(u, q))
    BY <2>3, <2>4, PrefixesOfPath
  <2>8. IsDir(u, p)
    BY <2>4, PrefixReflexive DEF Path
  <2> QED BY <2>1, <2>2, <2>3, <2>6, <2>7, <2>8 DEF r
<1> QED BY <1>1, <1>2

\* os.Remove takes away one path, with nothing below it.
LEMMA RemoveFacts ==
  ASSUME NEW t, IsTree(t), InDirs(t), NEW p \in Path
  PROVE  LET r == OsRemove(t, p)
         IN  /\ IsTree(r.tree) /\ InDirs(r.tree)
             /\ \A q \in DOMAIN t : q # p => SameAt(t, r.tree, q)
             /\ \A q \in DOMAIN r.tree : q \in DOMAIN t /\ SameAt(t, r.tree, q)
             /\ IF r.ok THEN p \in DOMAIN t /\ Under(t, p) = {p} /\ p \notin DOMAIN r.tree
                ELSE r.tree = t
             /\ IsFile(t, p) => r.ok
<1> DEFINE r == OsRemove(t, p)
           u == r.tree
<1>1. IsTree(u)
  BY RemoveTree
<1>2. CASE ~(Exists(t, p) /\ Children(t, p) = {})
  <2>1. u = t /\ ~r.ok
    BY <1>2 DEF OsRemove, Err
  <2>2. ~IsFile(t, p)
    <3> SUFFICES ASSUME IsFile(t, p), NEW c \in Children(t, p)  PROVE FALSE
      BY <1>2 DEF IsFile
    <3>1. c \in DOMAIN t /\ c \in Path /\ c # <<>> /\ ParentDir(c) = p
      BY DEF Children, IsTree
    <3>2. IsPrefix(p, c) /\ p # c
      BY <3>1, ParentFacts DEF IsStrictPrefix
    <3>3. IsDir(t, p)
      BY <3>1, <3>2, InDirsAbove
    <3> QED BY <3>3 DEF IsDir, IsFile
  <2> HIDE DEF r
  <2> QED BY <2>1, <2>2 DEF SameAt, r
<1>3. CASE Exists(t, p) /\ Children(t, p) = {}
  <2>1. r.ok /\ u = Without(t, {p})
    BY <1>3 DEF OsRemove, Ok
  <2>2. Under(t, p) = {p}
    <3>1. Under(t, p) \subseteq {p}
      BY <1>3, NothingBelow
    <3> QED BY <1>3, <3>1, PrefixReflexive DEF Under, Exists, Path
  <2> HIDE DEF r
  <2>3. DOMAIN u = DOMAIN t \ {p} /\ \A q \in DOMAIN u : SameAt(t, u, q)
    BY <2>1 DEF Without, SameAt
  <2>4. ASSUME NEW x \in DOMAIN u, NEW q \in Path, IsPrefix(q, x), q # x  PROVE IsDir(u, q)
    <3>1. x \in DOMAIN t /\ x # p
      BY <2>3
    <3>2. IsDir(t, q)
      BY <2>4, <3>1, InDirsAbove
    <3>3. q # p
      BY <2>2, <2>4, <3>1 DEF Under
    <3> QED BY <2>3, <3>2, <3>3 DEF IsDir, Exists, SameAt
  <2>5. InDirs(u)
    BY <1>1, <2>4, InDirsAbove
  <2> QED BY <1>1, <1>3, <2>1, <2>2, <2>3, <2>5 DEF r, Exists
<1> QED BY <1>2, <1>3

\* os.Create, followed by a write of the file.
LEMMA CreateFacts ==
  ASSUME NEW t, IsTree(t), InDirs(t), NEW p \in Path
  PROVE  LET r == OsCreate(t, p)
         IN  /\ IsTree(r.tree) /\ InDirs(r.tree)
             /\ \A q \in DOMAIN t : q # p => SameAt(t, r.tree, q)
             /\ DOMAIN r.tree \subseteq DOMAIN t \cup {p}
             /\ IF r.ok THEN p \in DOMAIN r.tree /\ ~IsDir(r.tree, p) ELSE r.tree = t
             /\ r.ok <=> IsDir(t, ParentDir(p)) /\ ~IsDir(t, p)
<1> DEFINE r == OsCreate(t, p)
           u == r.tree
<1>1. CASE IsDir(t, ParentDir(p)) /\ ~IsDir(t, p)
  <2> DEFINE e == <<>>
  <2>1. r.ok /\ u = Put(t, p, e)
    BY <1>1 DEF OsCreate, Ok
  <2>2. p # <<>>
    <3> SUFFICES ASSUME p = <<>>  PROVE FALSE
      OBVIOUS
    <3>1. ParentDir(p) = <<>>
      BY DEF ParentDir
    <3> QED BY <1>1, <3>1
  <2>3. e \in Entry /\ e # Dir
    BY EmptySeq, EntryAssumption DEF Entry
  <2> HIDE DEF r, e
  <2>4. /\ IsTree(u) /\ InDirs(u) /\ DOMAIN u = DOMAIN t \cup {p} /\ u[p] = e
        /\ \A q \in DOMAIN t : q # p => SameAt(t, u, q)
    <3> DEFINE w == Put(t, p, e)
    <3>1. /\ IsTree(w) /\ InDirs(w) /\ DOMAIN w = DOMAIN t \cup {p} /\ w[p] = e
          /\ \A q \in DOMAIN t : q # p => SameAt(t, w, q)
      BY <1>1, <2>2, <2>3, PutDirs
    <3> HIDE DEF w
    <3>2. u = w
      BY <2>1 DEF w
    <3> QED BY <3>1, <3>2
  <2> QED BY <1>1, <2>1, <2>3, <2>4 DEF r, IsDir
<1>2. CASE ~(IsDir(t, ParentDir(p)) /\ ~IsDir(t, p))
  <2>1. ~r.ok /\ u = t
    BY <1>2 DEF OsCreate, Err
  <2> HIDE DEF r
  <2> QED BY <1>2, <2>1 DEF r, SameAt
<1> QED BY <1>1, <1>2


\* What is kept twice is kept.
LEMMA SameTwice ==
  ASSUME NEW t, NEW u, NEW w, NEW q, SameAt(t, u, q), SameAt(u, w, q)
  PROVE  SameAt(t, w, q)
BY DEF SameAt

\* No file where a directory above p has to be, and no directory at p.
CanMake(t, p) ==
  /\ p # <<>> /\ ~IsDir(t, p)
  /\ \A q \in Path : IsPrefix(q, p) /\ q # p => ~IsFile(t, q)

\* The directories above p are made, and nothing is at p that was not there.
LEMMA MadeAbove ==
  ASSUME NEW t, IsTree(t), InDirs(t), NEW p \in Path
  PROVE  LET r == OsMkdirAll(t, ParentDir(p))
         IN  /\ IsTree(r.tree) /\ InDirs(r.tree)
             /\ \A q \in DOMAIN t : SameAt(t, r.tree, q)
             /\ \A q \in DOMAIN r.tree : q \in DOMAIN t \/ (IsPrefix(q, p) /\ IsDir(r.tree, q))
             /\ r.ok => IsDir(r.tree, ParentDir(p))
             /\ CanMake(t, p) => r.ok /\ ~IsDir(r.tree, p)
<1> DEFINE r == OsMkdirAll(t, ParentDir(p))
           d == ParentDir(p)
           u == r.tree
<1>1. d \in Path
  BY PrefixPath
<1>2. /\ IsTree(u) /\ InDirs(u) /\ \A q \in DOMAIN t : SameAt(t, u, q)
      /\ \A q \in DOMAIN u : q \in DOMAIN t \/ (IsPrefix(q, d) /\ IsDir(u, q))
      /\ r.ok => IsDir(u, d)
      /\ (\A q \in Path : IsPrefix(q, d) => ~IsFile(t, q)) => r.ok
  BY <1>1, MkdirFacts, Zenon
<1>3. IsPrefix(d, p) /\ (p # <<>> => d # p)
  <2>1. CASE p = <<>>
    <3>1. d = p
      BY <2>1 DEF ParentDir
    <3> QED BY <2>1, <3>1, PrefixReflexive DEF Path
  <2>2. CASE p # <<>>
    BY <2>2, ParentFacts DEF IsStrictPrefix
  <2> QED BY <2>1, <2>2
<1> HIDE DEF r, d
<1>4. ASSUME NEW q \in Path, IsPrefix(q, d)  PROVE IsPrefix(q, p) /\ (p # <<>> => q # p)
  <2>1. IsPrefix(q, p)
    BY <1>1, <1>3, <1>4, PrefixTransitive DEF Path
  <2>2. q = p => d = p
    BY <1>1, <1>3, <1>4, PrefixAntisymmetric DEF Path
  <2> QED BY <1>3, <2>1, <2>2
<1>5. \A q \in DOMAIN u : q \in DOMAIN t \/ (IsPrefix(q, p) /\ IsDir(u, q))
  BY <1>2, <1>4 DEF IsTree
<1>6. ASSUME CanMake(t, p)  PROVE r.ok /\ ~IsDir(u, p)
  <2>1. r.ok
    BY <1>2, <1>4, <1>6 DEF CanMake
  <2>2. ASSUME IsDir(u, p)  PROVE FALSE
    <3>1. p \in DOMAIN t
      BY <1>2, <1>4, <1>6, <2>2 DEF CanMake, IsDir, Exists
    <3> QED BY <1>2, <1>6, <2>2, <3>1 DEF CanMake, IsDir, Exists, SameAt
  <2> QED BY <2>1, <2>2
<1> QED BY <1>2, <1>5, <1>6 DEF r, d

\* A file is written: nothing else changes but for the directories made above it.
LEMMA WriteFileFacts ==
  ASSUME NEW t, IsTree(t), InDirs(t), NEW p \in Path, NEW c \in Entry
  PROVE  LET r == WriteFile(t, p, c)
         IN  /\ IsTree(r.tree) /\ InDirs(r.tree)
             /\ \A q \in DOMAIN t : q # p => SameAt(t, r.tree, q)
             /\ \A q \in DOMAIN r.tree :
                  q \in DOMAIN t \/ (IsPrefix(q, p) /\ (q = p \/ IsDir(r.tree, q)))
             /\ r.ok => p \in DOMAIN r.tree /\ r.tree[p] = c
             /\ CanMake(t, p) => r.ok
<1> DEFINE r       == WriteFile(t, p, c)
           made    == OsMkdirAll(t, ParentDir(p))
           m       == made.tree
           created == OsCreate(m, p)
           k       == created.tree
           w       == Put(k, p, c)
<1>1. r = IF ~made.ok THEN made ELSE IF created.ok THEN Ok(w) ELSE created
  BY DEF WriteFile, MkParentDirs
<1>2. /\ IsTree(m) /\ InDirs(m) /\ \A q \in DOMAIN t : SameAt(t, m, q)
      /\ \A q \in DOMAIN m : q \in DOMAIN t \/ (IsPrefix(q, p) /\ IsDir(m, q))
      /\ made.ok => IsDir(m, ParentDir(p))
      /\ CanMake(t, p) => made.ok /\ ~IsDir(m, p)
  BY MadeAbove, Zenon
<1> HIDE DEF made
<1>3. /\ IsTree(k) /\ InDirs(k) /\ \A q \in DOMAIN m : q # p => SameAt(m, k, q)
      /\ DOMAIN k \subseteq DOMAIN m \cup {p}
      /\ IF created.ok THEN p \in DOMAIN k /\ ~IsDir(k, p) ELSE k = m
      /\ created.ok <=> IsDir(m, ParentDir(p)) /\ ~IsDir(m, p)
  <2> HIDE DEF m
  <2>1. IsTree(m) /\ InDirs(m)
    BY <1>2 DEF m
  <2> QED BY <2>1, CreateFacts, Zenon
<1> HIDE DEF created, r
<1>4. IsPrefix(p, p)
  BY PrefixReflexive DEF Path
<1>5. CASE ~made.ok
  <2>1. r = made
    BY <1>1, <1>5
  <2> QED BY <1>2, <1>5, <2>1 DEF r
<1>6. CASE made.ok /\ ~created.ok
  <2>1. r = created /\ r.tree = m
    BY <1>1, <1>3, <1>6
  <2> QED BY <1>2, <1>3, <1>6, <2>1 DEF r
<1>7. CASE made.ok /\ created.ok
  <2>1. r.tree = w /\ r.ok
    BY <1>1, <1>7 DEF Ok
  <2>2. /\ IsTree(w) /\ InDirs(w) /\ DOMAIN w = DOMAIN k \cup {p} /\ w[p] = c
        /\ \A q \in DOMAIN k : q # p => SameAt(k, w, q)
    <3> HIDE DEF k
    <3> QED BY <1>3, <1>7, PutDirs DEF k
  <2> HIDE DEF w
  <2>3. \A q \in DOMAIN m : q # p => SameAt(m, w, q)
    BY <1>3, <2>2 DEF SameAt
  <2>4. \A q \in DOMAIN t : q # p => SameAt(t, w, q)
    BY <1>2, <2>3 DEF SameAt
  <2>5. \A q \in DOMAIN w : q \in DOMAIN t \/ (IsPrefix(q, p) /\ (q = p \/ IsDir(w, q)))
    <3> SUFFICES ASSUME NEW q \in DOMAIN w, q # p, q \notin DOMAIN t
                 PROVE  IsPrefix(q, p) /\ IsDir(w, q)
      BY <1>4
    <3>1. q \in DOMAIN m
      BY <1>3, <2>2
    <3>2. IsPrefix(q, p) /\ IsDir(m, q)
      BY <1>2, <3>1
    <3> QED BY <2>3, <3>1, <3>2 DEF IsDir, Exists, SameAt
  <2> QED BY <2>1, <2>2, <2>4, <2>5 DEF r
<1> QED BY <1>5, <1>6, <1>7

\* A file is copied: nothing else changes but for the directories made above the copy.
LEMMA CopyIntoFacts ==
  ASSUME NEW t, IsTree(t), InDirs(t), NEW from \in Path, NEW to \in Path
  PROVE  LET r == CopyInto(t, from, to)
         IN  /\ IsTree(r.tree) /\ InDirs(r.tree)
             /\ \A q \in DOMAIN t : q # to => SameAt(t, r.tree, q)
             /\ \A q \in DOMAIN r.tree :
                  q \in DOMAIN t \/ (IsPrefix(q, to) /\ (q = to \/ IsDir(r.tree, q)))
             /\ r.ok /\ from # to => /\ IsFile(t, from)
                                     /\ to \in DOMAIN r.tree /\ r.tree[to] = t[from]
             /\ CanMake(t, to) /\ IsFile(t, from) => r.ok
<1> DEFINE r       == CopyInto(t, from, to)
           made    == OsMkdirAll(t, ParentDir(to))
           m       == made.tree
           created == OsCreate(m, to)
           k       == created.tree
           w       == Put(k, to, k[from])
<1>1. r = IF ~made.ok \/ ~Exists(m, from) THEN Err(m)
          ELSE IF ~created.ok THEN created
          ELSE IF IsDir(m, from) THEN Err(k)
          ELSE Ok(w)
  BY DEF CopyInto, MkParentDirs
<1>2. /\ IsTree(m) /\ InDirs(m) /\ \A q \in DOMAIN t : SameAt(t, m, q)
      /\ \A q \in DOMAIN m : q \in DOMAIN t \/ (IsPrefix(q, to) /\ IsDir(m, q))
      /\ made.ok => IsDir(m, ParentDir(to))
      /\ CanMake(t, to) => made.ok /\ ~IsDir(m, to)
  BY MadeAbove, Zenon
<1> HIDE DEF made
<1>3. /\ IsTree(k) /\ InDirs(k) /\ \A q \in DOMAIN m : q # to => SameAt(m, k, q)
      /\ DOMAIN k \subseteq DOMAIN m \cup {to}
      /\ IF created.ok THEN to \in DOMAIN k /\ ~IsDir(k, to) ELSE k = m
      /\ created.ok <=> IsDir(m, ParentDir(to)) /\ ~IsDir(m, to)
  <2> HIDE DEF m
  <2>1. IsTree(m) /\ InDirs(m)
    BY <1>2 DEF m
  <2> QED BY <2>1, CreateFacts, Zenon
<1> HIDE DEF created, r
<1>4. IsPrefix(to, to)
  BY PrefixReflexive DEF Path
<1>5. ASSUME NEW u, IsTree(u), InDirs(u),
             \A q \in DOMAIN m : q # to => SameAt(m, u, q), DOMAIN u \subseteq DOMAIN m \cup {to}
      PROVE  /\ \A q \in DOMAIN t : q # to => SameAt(t, u, q)
             /\ \A q \in DOMAIN u :
                  q \in DOMAIN t \/ (IsPrefix(q, to) /\ (q = to \/ IsDir(u, q)))
  <2>1. \A q \in DOMAIN t : q # to => SameAt(t, u, q)
    BY <1>2, <1>5 DEF SameAt
  <2>2. \A q \in DOMAIN u : q \in DOMAIN t \/ (IsPrefix(q, to) /\ (q = to \/ IsDir(u, q)))
    <3> SUFFICES ASSUME NEW q \in DOMAIN u, q # to, q \notin DOMAIN t
                 PROVE  IsPrefix(q, to) /\ IsDir(u, q)
      BY <1>4
    <3>1. q \in DOMAIN m
      BY <1>5
    <3>2. IsPrefix(q, to) /\ IsDir(m, q)
      BY <1>2, <3>1
    <3> QED BY <1>5, <3>1, <3>2 DEF IsDir, Exists, SameAt
  <2> QED BY <2>1, <2>2
<1>6. CanMake(t, to) /\ IsFile(t, from) => made.ok /\ Exists(m, from) /\ created.ok /\ ~IsDir(m, from)
  BY <1>2, <1>3 DEF IsFile, Exists, IsDir, SameAt
<1>7. CASE ~made.ok \/ ~Exists(m, from)
  <2>1. r.tree = m /\ ~r.ok
    BY <1>1, <1>7 DEF Err
  <2>2. \A q \in DOMAIN m : SameAt(m, m, q)
    BY DEF SameAt
  <2> QED BY <1>2, <1>5, <1>6, <1>7, <2>1, <2>2 DEF r
<1>8. CASE made.ok /\ Exists(m, from) /\ (~created.ok \/ IsDir(m, from))
  <2>1. r.tree = k /\ ~r.ok
    BY <1>1, <1>8 DEF Err
  <2> QED BY <1>3, <1>5, <1>6, <1>8, <2>1 DEF r
<1>9. CASE made.ok /\ Exists(m, from) /\ created.ok /\ ~IsDir(m, from)
  <2>1. r.tree = w /\ r.ok
    BY <1>1, <1>9 DEF Ok
  <2> DEFINE e == k[from]
  <2>2. e \in Entry
    <3>1. from \in DOMAIN k
      BY <1>3, <1>9 DEF Exists, SameAt
    <3> QED BY <1>3, <3>1 DEF IsTree
  <2>3. from # to => e = m[from]
    BY <1>3, <1>9 DEF Exists, SameAt
  <2> HIDE DEF e
  <2>4. /\ IsTree(w) /\ InDirs(w) /\ DOMAIN w = DOMAIN k \cup {to} /\ w[to] = e
        /\ \A q \in DOMAIN k : q # to => SameAt(k, w, q)
    <3> DEFINE x == Put(k, to, e)
    <3>1. /\ IsTree(x) /\ InDirs(x) /\ DOMAIN x = DOMAIN k \cup {to} /\ x[to] = e
          /\ \A q \in DOMAIN k : q # to => SameAt(k, x, q)
      <4> HIDE DEF k
      <4> QED BY <1>3, <1>9, <2>2, PutDirs DEF k
    <3> QED BY <3>1 DEF e
  <2> HIDE DEF w
  <2>5. \A q \in DOMAIN m : q # to => SameAt(m, w, q)
    BY <1>3, <2>4 DEF SameAt
  <2>6. DOMAIN w \subseteq DOMAIN m \cup {to}
    BY <1>3, <2>4
  <2>7. IsFile(t, from) /\ m[from] = t[from]
    <3>1. from \in DOMAIN t
      BY <1>2, <1>9 DEF Exists
    <3> QED BY <1>2, <1>9, <3>1 DEF IsFile, IsDir, Exists, SameAt
  <2>8. /\ \A q \in DOMAIN t : q # to => SameAt(t, w, q)
        /\ \A q \in DOMAIN w :
             q \in DOMAIN t \/ (IsPrefix(q, to) /\ (q = to \/ IsDir(w, q)))
    BY <1>5, <2>4, <2>5, <2>6
  <2> QED BY <2>1, <2>3, <2>4, <2>7, <2>8 DEF r
<1> QED BY <1>7, <1>8, <1>9


\* The path p, which is at or below `top`, seen from there.
SubPath(p, top) == SubSeq(p, Len(top) + 1, Len(p))

\* The same path below another directory.
LEMMA BelowIsPath ==
  ASSUME NEW top \in Path, NEW p \in Path, IsPrefix(top, p)
  PROVE  SubPath(p, top) \in Path /\ p = top \o SubPath(p, top)
BY BelowFacts DEF Path, SubPath

LEMMA PutBelow ==
  ASSUME NEW top \in Path, NEW s \in Path
  PROVE  /\ top \o s \in Path /\ IsPrefix(top, top \o s) /\ SubPath(top \o s, top) = s
         /\ top \o s = top => s = <<>>
         /\ Len(top \o s) = Len(top) + Len(s) /\ Len(top) \in Nat /\ Len(s) \in Nat
         /\ \A i \in 1..Len(s) : (top \o s)[Len(top) + i] = s[i]
         /\ \A i \in 1..Len(top) : (top \o s)[i] = top[i]
<1>1. top \in Seq(Name) /\ s \in Seq(Name) /\ Len(top) \in Nat /\ Len(s) \in Nat
  BY LenProperties DEF Path
<1>2. top \o s \in Path /\ IsPrefix(top, top \o s) /\ SubPath(top \o s, top) = s
  BY <1>1, ConcatBelow DEF Path, SubPath
<1> DEFINE all == top \o s
           n == Len(top)
           k == Len(s)
<1>3. Len(all) = n + k /\ \A i \in 1..(n + k) : all[i] = IF i <= n THEN top[i] ELSE s[i - n]
  BY <1>1, ConcatProperties
<1>4. n \in Nat /\ k \in Nat
  BY <1>1
<1> HIDE DEF all, n, k
<1>5. \A i \in 1..n : all[i] = top[i]
  BY <1>3, <1>4
<1>6. \A i \in 1..k : all[n + i] = s[i]
  <2> SUFFICES ASSUME NEW i \in 1..k  PROVE all[n + i] = s[i]
    OBVIOUS
  <2> DEFINE j == n + i
  <2>1. j \in 1..(n + k) /\ ~(j <= n) /\ j - n = i
    BY <1>4
  <2> HIDE DEF j
  <2>2. all[j] = s[j - n]
    BY <1>3, <2>1
  <2>3. all[j] = s[i]
    BY <2>1, <2>2
  <2> QED BY <2>3 DEF j
<1>7. all = top => s = <<>>
  <2> SUFFICES ASSUME all = top  PROVE s = <<>>
    OBVIOUS
  <2>1. Len(s) = 0
    BY <1>3, <1>4 DEF n, k
  <2> QED BY <1>1, <2>1, EmptySeq
<1> QED BY <1>2, <1>3, <1>4, <1>5, <1>6, <1>7 DEF all, n, k

\* What is above a path below one directory is above it below the other.
LEMMA PrefixBelow ==
  ASSUME NEW f \in Path, NEW o \in Path, NEW x \in Path, NEW y \in Path,
         IsPrefix(o \o x, o \o y)
  PROVE  IsPrefix(f \o x, f \o y) /\ (o \o x # o \o y => f \o x # f \o y)
<1>1. IsPrefix(x, y)
  <2> DEFINE u == o \o x
             w == o \o y
             n == Len(o)
             j == Len(x)
             k == Len(y)
  <2>1. /\ u \in Seq(Name) /\ w \in Seq(Name) /\ n \in Nat /\ j \in Nat /\ k \in Nat
        /\ Len(u) = n + j /\ Len(w) = n + k
        /\ \A i \in 1..j : u[n + i] = x[i]
        /\ \A i \in 1..k : w[n + i] = y[i]
    BY PutBelow DEF Path
  <2>5. IsPrefix(u, w)
    OBVIOUS
  <2> HIDE DEF u, w, n, j, k
  <2>6. u \in Seq(Name) /\ w \in Seq(Name)
    BY <2>1
  <2>2. Len(u) <= Len(w) /\ \A i \in 1..Len(u) : u[i] = w[i]
    BY ONLY <2>5, <2>6, PrefixElements
  <2>3. j <= k
    BY <2>1, <2>2
  <2>4. \A i \in 1..j : x[i] = y[i]
    <3> SUFFICES ASSUME NEW i \in 1..j  PROVE x[i] = y[i]
      OBVIOUS
    <3>1. n + i \in 1..(n + j) /\ i \in 1..k
      BY <2>1, <2>3
    <3> QED BY <2>1, <2>2, <3>1
  <2> QED BY <2>3, <2>4, PrefixElements DEF Path, j, k
<1>2. IsPrefix(f \o x, f \o y)
  <2> DEFINE u == f \o x
             w == f \o y
             n == Len(f)
             j == Len(x)
             k == Len(y)
  <2>1. /\ u \in Seq(Name) /\ w \in Seq(Name) /\ n \in Nat /\ j \in Nat /\ k \in Nat
        /\ Len(u) = n + j /\ Len(w) = n + k
        /\ \A i \in 1..j : u[n + i] = x[i]
        /\ \A i \in 1..k : w[n + i] = y[i]
        /\ \A i \in 1..n : u[i] = f[i]
        /\ \A i \in 1..n : w[i] = f[i]
    BY PutBelow DEF Path
  <2>2. j <= k /\ \A i \in 1..j : x[i] = y[i]
    BY <1>1, PrefixElements DEF Path
  <2> HIDE DEF u, w, n, j, k
  <2>3. \A i \in 1..(n + j) : u[i] = w[i]
    <3> SUFFICES ASSUME NEW i \in 1..(n + j)  PROVE u[i] = w[i]
      OBVIOUS
    <3>1. CASE i \in 1..n
      BY <2>1, <3>1
    <3>2. CASE i \notin 1..n
      <4>1. i - n \in 1..j /\ i - n \in 1..k /\ n + (i - n) = i
        BY <2>1, <2>2, <3>2
      <4> QED BY <2>1, <2>2, <4>1
    <3> QED BY <3>1, <3>2
  <2>4. Len(u) <= Len(w)
    BY <2>1, <2>2
  <2>5. IsPrefix(u, w)
    BY <2>1, <2>3, <2>4, PrefixElements
  <2> QED BY <2>5 DEF u, w
<1>3. f \o x = f \o y => x = y
  <2>1. SubPath(f \o x, f) = x /\ SubPath(f \o y, f) = y
    BY PutBelow
  <2> QED BY <2>1
<1> QED BY <1>2, <1>3

\* A rename that is possible: what it moves, what it leaves, and that all is in directories.
LEMMA RenamedDirs ==
  ASSUME NEW t, IsTree(t), InDirs(t), NEW from \in Path, NEW to \in Path, from # to,
         from \in DOMAIN t, IsDir(t, ParentDir(to)), ~IsStrictPrefix(from, to),
         Under(t, to) \subseteq {to}
  PROVE  LET u == Renamed(t, from, to)
         IN  /\ IsTree(u) /\ InDirs(u)
             /\ from # <<>> /\ ~IsPrefix(from, to)
             /\ \A q \in DOMAIN t : ~IsPrefix(from, q) /\ q # to => SameAt(t, u, q)
             /\ \A q \in DOMAIN u :
                  \/ q \in DOMAIN t /\ q # to /\ SameAt(t, u, q)
                  \/ \E p \in Under(t, from) : q = to \o SubPath(p, from) /\ u[q] = t[p]
             /\ \A p \in Under(t, from) : /\ to \o SubPath(p, from) \in DOMAIN u
                                          /\ u[to \o SubPath(p, from)] = t[p]
             /\ \A q \in DOMAIN u : ~IsPrefix(from, q)
<1> DEFINE u == Renamed(t, from, to)
           stay == DOMAIN t \ (Under(t, from) \cup Under(t, to))
<1>1. from \in Path /\ IsTree(u)
  BY RenamedTree
<1>2. /\ DOMAIN u = stay \cup {to \o SubPath(p, from) : p \in Under(t, from)}
      /\ \A p \in stay : u[p] = t[p]
      /\ \A p \in Under(t, from) : /\ p \in DOMAIN t /\ SubPath(p, from) \in Path
                                   /\ to \o SubPath(p, from) \in Path
                                   /\ to \o SubPath(p, from) \notin stay
                                   /\ u[to \o SubPath(p, from)] = t[p]
  <2> DEFINE below(p) == SubSeq(p, Len(from) + 1, Len(p))
  <2>1. /\ u = [p \in DOMAIN u |-> u[p]]
        /\ DOMAIN u = stay \cup {to \o below(p) : p \in Under(t, from)}
        /\ \A p \in stay : u[p] = t[p]
        /\ \A p \in Under(t, from) : /\ p \in DOMAIN t /\ below(p) \in Path
                                     /\ to \o below(p) \in Path /\ to \o below(p) \notin stay
                                     /\ u[to \o below(p)] = t[p]
    BY RenamedFacts, Zenon
  <2> HIDE DEF u, stay
  <2> QED BY <2>1 DEF SubPath
<1>3. \A q : q \in stay <=> q \in DOMAIN t /\ ~IsPrefix(from, q) /\ ~IsPrefix(to, q)
  BY DEF Under
<1>4. \A q \in DOMAIN t : IsPrefix(to, q) => q = to
  BY DEF Under
<1>5. \A p : p \in Under(t, from) <=> p \in DOMAIN t /\ IsPrefix(from, p)
  BY DEF Under
<1> HIDE DEF u, stay
<1>6. ~IsPrefix(from, to) /\ ~IsPrefix(to, from)
  BY <1>4 DEF IsStrictPrefix
<1>7. from # <<>>
  <2> SUFFICES ASSUME from = <<>>  PROVE FALSE
    OBVIOUS
  <2>1. from \in Seq(Name) /\ to \in Seq(Name) /\ Len(from) = 0 /\ Len(to) \in Nat
    BY <1>1, LenProperties DEF Path
  <2>2. Len(from) <= Len(to) /\ \A i \in 1..Len(from) : from[i] = to[i]
    BY <2>1
  <2>3. IsPrefix(from, to)
    BY <2>1, <2>2, PrefixElements
  <2> QED BY <1>6, <2>3
<1>8. \A p \in Under(t, from) : p \in Path /\ IsPrefix(to, to \o SubPath(p, from))
  BY <1>2, PutBelow DEF IsTree
<1>9. \A q \in DOMAIN t : ~IsPrefix(from, q) /\ q # to => SameAt(t, u, q)
  BY <1>2, <1>3, <1>4 DEF SameAt
<1>10. \A q \in DOMAIN u :
         \/ q \in stay /\ q \in DOMAIN t /\ q # to /\ SameAt(t, u, q)
         \/ \E p \in Under(t, from) : q = to \o SubPath(p, from) /\ u[q] = t[p]
  <2>1. IsPrefix(to, to)
    BY PrefixReflexive DEF Path
  <2> QED BY <1>2, <1>3, <2>1 DEF SameAt
<1>11. \A q \in DOMAIN u : ~IsPrefix(from, q)
  <2> SUFFICES ASSUME NEW q \in DOMAIN u, IsPrefix(from, q)  PROVE FALSE
    OBVIOUS
  <2>1. PICK p \in Under(t, from) : q = to \o SubPath(p, from)
    BY <1>3, <1>10
  <2>2. IsPrefix(to, q) /\ q \in Path
    BY <1>2, <1>8, <2>1
  <2> QED BY <1>1, <1>6, <2>2, PrefixesComparable DEF Path
<1>12. ASSUME NEW x \in DOMAIN u, NEW q \in Path, IsPrefix(q, x), q # x  PROVE IsDir(u, q)
  <2>1. CASE x \in stay
    <3>1. x \in DOMAIN t /\ x \in Path
      BY <1>3, <2>1 DEF IsTree
    <3>2. IsDir(t, q)
      BY <1>12, <3>1, InDirsAbove
    <3>3. ~IsPrefix(from, q) /\ ~IsPrefix(to, q)
      BY <1>1, <1>3, <1>12, <2>1, <3>1, PrefixTransitive DEF Path
    <3> QED BY <1>2, <1>3, <3>2, <3>3 DEF IsDir, Exists
  <2>2. CASE x \notin stay
    <3>1. PICK p \in Under(t, from) : x = to \o SubPath(p, from) /\ u[x] = t[p]
      BY <1>10, <2>2
    <3> DEFINE s == SubPath(p, from)
    <3>2. s \in Path /\ x \in Path /\ p \in DOMAIN t /\ p \in Path /\ p = from \o s /\ x = to \o s
      BY <1>1, <1>2, <1>5, <1>8, <3>1, BelowIsPath
    <3> HIDE DEF s
    <3>3. IsPrefix(to, x)
      BY <3>2, PutBelow
    <3>4. CASE IsPrefix(q, to) /\ q # to
      <4>1. to # <<>> /\ IsPrefix(q, ParentDir(to))
        BY <3>4, AboveParent
      <4>2. IsDir(t, q)
        BY <4>1, InDirsAbove DEF IsDir, Exists
      <4>3. ~IsPrefix(from, q)
        BY <1>1, <1>6, <3>4, PrefixTransitive DEF Path
      <4> QED BY <1>9, <3>4, <4>2, <4>3 DEF IsDir, Exists, SameAt
    <3>5. CASE IsPrefix(to, q)
      <4> DEFINE r == SubPath(q, to)
      <4>1. r \in Path /\ q = to \o r
        BY <3>5, BelowIsPath
      <4> HIDE DEF r
      <4>2. IsPrefix(from \o r, p) /\ from \o r # p
        <5>1. IsPrefix(to \o r, to \o s) /\ to \o r # to \o s
          BY <1>12, <3>2, <4>1
        <5> QED BY <1>1, <3>2, <4>1, <5>1, PrefixBelow
      <4>3. /\ from \o r \in Path /\ IsPrefix(from, from \o r)
            /\ SubPath(from \o r, from) = r
        BY <1>1, <4>1, PutBelow
      <4>4. IsDir(t, from \o r)
        BY <3>2, <4>2, <4>3, InDirsAbove
      <4>5. from \o r \in Under(t, from) /\ t[from \o r] = Dir
        BY <1>5, <4>3, <4>4 DEF IsDir, Exists
      <4>6. to \o r \in DOMAIN u /\ u[to \o r] = Dir
        BY <1>2, <4>3, <4>5
      <4> QED BY <4>1, <4>6 DEF IsDir, Exists
    <3>6. IsPrefix(q, to) \/ IsPrefix(to, q)
      BY <1>12, <3>2, <3>3, PrefixesComparable DEF Path
    <3> QED BY <3>4, <3>5, <3>6
  <2> QED BY <2>1, <2>2
<1>13. InDirs(u)
  BY <1>1, <1>12, InDirsAbove
<1>14. \A q \in DOMAIN u :
         \/ q \in DOMAIN t /\ q # to /\ SameAt(t, u, q)
         \/ \E p \in Under(t, from) : q = to \o SubPath(p, from) /\ u[q] = t[p]
  BY <1>10
<1>15. \A p \in Under(t, from) : /\ to \o SubPath(p, from) \in DOMAIN u
                                 /\ u[to \o SubPath(p, from)] = t[p]
  BY <1>2
<1> QED BY <1>1, <1>6, <1>7, <1>9, <1>11, <1>13, <1>14, <1>15 DEF u

\* What a rename that succeeds has found.
LEMMA RenamePossible ==
  ASSUME NEW t, IsTree(t), InDirs(t), NEW from \in Path, NEW to \in Path, from # to
  PROVE  LET r == OsRename(t, from, to)
         IN  /\ IF r.ok
                THEN /\ r.tree = Renamed(t, from, to) /\ from \in DOMAIN t
                     /\ IsDir(t, ParentDir(to)) /\ ~IsStrictPrefix(from, to)
                     /\ Under(t, to) \subseteq {to}
                ELSE r.tree = t
             /\ IsFile(t, from) /\ ~Exists(t, to) /\ IsDir(t, ParentDir(to)) => r.ok
<1> DEFINE r == OsRename(t, from, to)
           possible ==
             /\ Exists(t, from)
             /\ IsDir(t, ParentDir(to))
             /\ ~IsStrictPrefix(from, to)
             /\ \/ ~Exists(t, to)
                \/ IsFile(t, from) /\ IsFile(t, to)
                \/ IsDir(t, from) /\ IsDir(t, to) /\ Children(t, to) = {}
<1>1. r = IF possible THEN Ok(Renamed(t, from, to)) ELSE Err(t)
  BY DEF OsRename
<1>2. ASSUME possible  PROVE Under(t, to) \subseteq {to}
  <2>1. ~IsDir(t, to) \/ Children(t, to) = {}
    BY <1>2 DEF IsDir, IsFile
  <2> QED BY <2>1, NothingBelow
<1>3. IsFile(t, from) /\ ~Exists(t, to) /\ IsDir(t, ParentDir(to)) => possible
  <2> SUFFICES ASSUME IsFile(t, from), IsDir(t, ParentDir(to)), IsStrictPrefix(from, to)  PROVE FALSE
    BY DEF IsFile
  <2>1. IsPrefix(from, ParentDir(to))
    BY AboveParent DEF IsStrictPrefix
  <2>2. ParentDir(to) \in DOMAIN t
    BY DEF IsDir, Exists
  <2>3. from = ParentDir(to) \/ IsDir(t, from)
    BY <2>1, <2>2, InDirsAbove
  <2> QED BY <2>3 DEF IsDir, IsFile
<1>4. possible => Exists(t, from) /\ IsDir(t, ParentDir(to)) /\ ~IsStrictPrefix(from, to)
  OBVIOUS
<1> HIDE DEF possible
<1>5. CASE possible
  <2>1. r.ok /\ r.tree = Renamed(t, from, to)
    BY <1>1, <1>5 DEF Ok
  <2> HIDE DEF r
  <2> QED BY <1>2, <1>4, <1>5, <2>1 DEF r, Exists
<1>6. CASE ~possible
  <2>1. ~r.ok /\ r.tree = t
    BY <1>1, <1>6 DEF Err
  <2> HIDE DEF r
  <2> QED BY <1>3, <1>6, <2>1 DEF r
<1> QED BY <1>5, <1>6

\* What is at q after a move was at or below `from` before it.
MovedTo(t, r, from, to, q) ==
  /\ r.ok /\ from # <<>> /\ ~IsPrefix(from, to)
  /\ \E p \in Under(t, from) : q = to \o SubPath(p, from) /\ r.tree[q] = t[p]

\* What Move does, whatever it finds.
LEMMA MoveFacts ==
  ASSUME NEW t, IsTree(t), InDirs(t), NEW from \in Path, NEW to \in Path
  PROVE  LET r == Move(t, from, to)
         IN  /\ IsTree(r.tree) /\ InDirs(r.tree)
             /\ \A q \in DOMAIN t : q # to /\ (r.ok => ~IsPrefix(from, q)) => SameAt(t, r.tree, q)
             /\ \A q \in DOMAIN r.tree :
                  (q \in DOMAIN t /\ SameAt(t, r.tree, q)) \/ MovedTo(t, r, from, to, q)
             /\ r.ok /\ from # to =>
                  /\ from \in DOMAIN t /\ to \in DOMAIN r.tree /\ r.tree[to] = t[from]
                  /\ \A q \in DOMAIN r.tree : ~IsPrefix(from, q)
             /\ IsFile(t, from) /\ ~IsDir(t, to) /\ IsDir(t, ParentDir(to)) /\ from # to => r.ok
<1> DEFINE r == Move(t, from, to)
           m == IF Exists(t, to) THEN OsRemove(t, to).tree ELSE t
<1>1. /\ IsTree(m) /\ InDirs(m)
      /\ \A q \in DOMAIN t : q # to => SameAt(t, m, q)
      /\ \A q \in DOMAIN m : q \in DOMAIN t /\ SameAt(t, m, q)
      /\ ~IsDir(t, to) => to \notin DOMAIN m
  <2>1. CASE Exists(t, to)
    <3> DEFINE x == OsRemove(t, to)
    <3>1. /\ IsTree(x.tree) /\ InDirs(x.tree)
          /\ \A q \in DOMAIN t : q # to => SameAt(t, x.tree, q)
          /\ \A q \in DOMAIN x.tree : q \in DOMAIN t /\ SameAt(t, x.tree, q)
          /\ IF x.ok THEN to \in DOMAIN t /\ Under(t, to) = {to} /\ to \notin DOMAIN x.tree
             ELSE x.tree = t
          /\ IsFile(t, to) => x.ok
      BY RemoveFacts, Zenon
    <3>2. m = x.tree
      BY <2>1
    <3> HIDE DEF x, m
    <3> QED BY <2>1, <3>1, <3>2 DEF IsFile, IsDir
  <2>2. CASE ~Exists(t, to)
    <3>1. m = t
      BY <2>2
    <3> HIDE DEF m
    <3> QED BY <2>2, <3>1 DEF SameAt, IsDir, Exists
  <2> QED BY <2>1, <2>2
<1>2. r = OsRename(m, from, to)
  BY DEF Move
<1> HIDE DEF m, r
<1>3. CASE from = to
  <2>1. r.tree = m
    BY <1>2, <1>3 DEF OsRename, Ok, Err
  <2>2. \A q \in DOMAIN r.tree : q \in DOMAIN t /\ SameAt(t, r.tree, q)
    BY <1>1, <2>1
  <2> QED BY <1>1, <1>3, <2>1, <2>2 DEF r
<1>4. CASE from # to
  <2> DEFINE x == OsRename(m, from, to)
  <2>1. /\ IF x.ok
           THEN /\ x.tree = Renamed(m, from, to) /\ from \in DOMAIN m
                /\ IsDir(m, ParentDir(to)) /\ ~IsStrictPrefix(from, to)
                /\ Under(m, to) \subseteq {to}
           ELSE x.tree = m
        /\ IsFile(m, from) /\ ~Exists(m, to) /\ IsDir(m, ParentDir(to)) => x.ok
    BY <1>1, <1>4, RenamePossible, Zenon
  <2> HIDE DEF x
  <2>2. r = x
    BY <1>2 DEF x
  <2>3. ASSUME IsFile(t, from), ~IsDir(t, to), IsDir(t, ParentDir(to))  PROVE r.ok
    <3>1. ParentDir(to) # to
      BY <2>3
    <3>2. IsFile(m, from) /\ ~Exists(m, to) /\ IsDir(m, ParentDir(to))
      BY <1>1, <1>4, <2>3, <3>1 DEF IsFile, IsDir, Exists, SameAt
    <3> QED BY <2>1, <2>2, <3>2
  <2>4. CASE r.ok
    <3> DEFINE u == Renamed(m, from, to)
    <3>1. /\ r.tree = u /\ from \in DOMAIN m
          /\ IsDir(m, ParentDir(to)) /\ ~IsStrictPrefix(from, to)
          /\ Under(m, to) \subseteq {to}
      BY <2>1, <2>2, <2>4
    <3>2. /\ IsTree(u) /\ InDirs(u)
          /\ from # <<>> /\ ~IsPrefix(from, to)
          /\ \A q \in DOMAIN m : ~IsPrefix(from, q) /\ q # to => SameAt(m, u, q)
          /\ \A q \in DOMAIN u :
               \/ q \in DOMAIN m /\ q # to /\ SameAt(m, u, q)
               \/ \E p \in Under(m, from) : q = to \o SubPath(p, from) /\ u[q] = m[p]
          /\ \A p \in Under(m, from) : /\ to \o SubPath(p, from) \in DOMAIN u
                                       /\ u[to \o SubPath(p, from)] = m[p]
          /\ \A q \in DOMAIN u : ~IsPrefix(from, q)
      BY <1>1, <1>4, <3>1, RenamedDirs, Zenon
    <3> HIDE DEF u
    <3>3. \A p \in Under(m, from) : p \in Under(t, from) /\ m[p] = t[p]
      BY <1>1 DEF Under, SameAt
    <3>4. from \in Under(m, from) /\ to \o SubPath(from, from) = to
      <4>1. IsPrefix(from, from)
        BY PrefixReflexive DEF Path
      <4>2. from \in Under(m, from)
        BY <3>1, <4>1 DEF Under
      <4>3. SubPath(from, from) = <<>>
        <5> DEFINE e == <<>>
        <5>1. e \in Path
          BY DEF Path
        <5>2. from \o e = from
          BY ConcatEmptySeq DEF Path
        <5> HIDE DEF e
        <5>3. SubPath(from \o e, from) = e
          BY <5>1, PutBelow
        <5> QED BY <5>2, <5>3 DEF e
      <4>4. to \o <<>> = to
        BY ConcatEmptySeq DEF Path
      <4> QED BY <4>2, <4>3, <4>4
    <3>5. \A q \in DOMAIN t : q # to /\ ~IsPrefix(from, q) => SameAt(t, u, q)
      BY <1>1, <3>2 DEF SameAt
    <3>6. ASSUME NEW q \in DOMAIN u
          PROVE  (q \in DOMAIN t /\ SameAt(t, u, q)) \/ MovedTo(t, r, from, to, q)
      <4>1. CASE q \in DOMAIN m /\ SameAt(m, u, q)
        BY <1>1, <4>1 DEF SameAt
      <4>2. CASE \E p \in Under(m, from) : q = to \o SubPath(p, from) /\ u[q] = m[p]
        BY <2>4, <3>1, <3>2, <3>3, <4>2 DEF MovedTo
      <4> QED BY <3>2, <4>1, <4>2
    <3>7. from \in DOMAIN t /\ to \in DOMAIN u /\ u[to] = t[from]
      <4>1. to \in DOMAIN u /\ u[to] = m[from]
        BY <3>2, <3>4
      <4> QED BY <1>1, <3>1, <4>1 DEF SameAt
    <3> QED BY <2>3, <2>4, <3>1, <3>2, <3>5, <3>6, <3>7 DEF r
  <2>5. CASE ~r.ok
    <3>1. r.tree = m
      BY <2>1, <2>2, <2>5
    <3> QED BY <1>1, <2>3, <2>5, <3>1 DEF r
  <2> QED BY <2>4, <2>5
<1> QED BY <1>3, <1>4

\* What MoveInto does, whatever it finds.
LEMMA MoveIntoFacts ==
  ASSUME NEW t, IsTree(t), InDirs(t), NEW from \in Path, NEW to \in Path
  PROVE  LET r == MoveInto(t, from, to)
         IN  /\ IsTree(r.tree) /\ InDirs(r.tree)
             /\ \A q \in DOMAIN t : q # to /\ (r.ok => ~IsPrefix(from, q)) => SameAt(t, r.tree, q)
             /\ \A q \in DOMAIN r.tree :
                  \/ q \in DOMAIN t /\ SameAt(t, r.tree, q)
                  \/ IsPrefix(q, to) /\ IsDir(r.tree, q)
                  \/ MovedTo(t, r, from, to, q)
             /\ r.ok /\ IsFile(t, from) /\ from # to =>
                  /\ to \in DOMAIN r.tree /\ r.tree[to] = t[from]
                  /\ \A q \in DOMAIN r.tree : ~IsPrefix(from, q)
             /\ IsFile(t, from) /\ CanMake(t, to) /\ from # to => r.ok
<1> DEFINE made == OsMkdirAll(t, ParentDir(to))
           m    == made.tree
           x    == Move(m, from, to)
           r    == MoveInto(t, from, to)
<1>1. r = IF made.ok THEN x ELSE made
  BY DEF MoveInto, MkParentDirs
<1>2. /\ IsTree(m) /\ InDirs(m) /\ \A q \in DOMAIN t : SameAt(t, m, q)
      /\ \A q \in DOMAIN m : q \in DOMAIN t \/ (IsPrefix(q, to) /\ IsDir(m, q))
      /\ made.ok => IsDir(m, ParentDir(to))
      /\ CanMake(t, to) => made.ok /\ ~IsDir(m, to)
  BY MadeAbove, Zenon
<1>3. /\ IsTree(x.tree) /\ InDirs(x.tree)
      /\ \A q \in DOMAIN m : q # to /\ (x.ok => ~IsPrefix(from, q)) => SameAt(m, x.tree, q)
      /\ \A q \in DOMAIN x.tree :
           (q \in DOMAIN m /\ SameAt(m, x.tree, q)) \/ MovedTo(m, x, from, to, q)
      /\ x.ok /\ from # to =>
           /\ from \in DOMAIN m /\ to \in DOMAIN x.tree /\ x.tree[to] = m[from]
           /\ \A q \in DOMAIN x.tree : ~IsPrefix(from, q)
      /\ IsFile(m, from) /\ ~IsDir(m, to) /\ IsDir(m, ParentDir(to)) /\ from # to => x.ok
  <2> HIDE DEF made, m
  <2> QED BY <1>2, MoveFacts, Zenon DEF m
<1> HIDE DEF made, x, r
<1>4. IsFile(t, from) => IsFile(m, from) /\ m[from] = t[from]
  BY <1>2 DEF IsFile, Exists, SameAt
<1>5. CASE made.ok
  <2>1. r = x
    BY <1>1, <1>5
  <2>2. \A q \in DOMAIN t : q # to /\ (x.ok => ~IsPrefix(from, q)) => SameAt(t, x.tree, q)
    BY <1>2, <1>3 DEF SameAt
  <2>3. ASSUME NEW q \in DOMAIN x.tree
        PROVE  \/ q \in DOMAIN t /\ SameAt(t, x.tree, q)
               \/ IsPrefix(q, to) /\ IsDir(x.tree, q)
               \/ MovedTo(t, x, from, to, q)
    <3>1. CASE q \in DOMAIN m /\ SameAt(m, x.tree, q)
      <4>1. CASE q \in DOMAIN t
        BY <1>2, <3>1, <4>1 DEF SameAt
      <4>2. CASE q \notin DOMAIN t
        BY <1>2, <3>1, <4>2 DEF SameAt, IsDir, Exists
      <4> QED BY <4>1, <4>2
    <3>2. CASE MovedTo(m, x, from, to, q)
      <4>1. x.ok /\ from # <<>> /\ ~IsPrefix(from, to)
        BY <3>2 DEF MovedTo
      <4>2. PICK p \in Under(m, from) : q = to \o SubPath(p, from) /\ x.tree[q] = m[p]
        BY <3>2 DEF MovedTo
      <4>3. IsPrefix(from, p) /\ p \in DOMAIN m /\ p \in Path
        BY <1>2, <4>2 DEF Under, IsTree
      <4>4. p \in DOMAIN t
        <5> SUFFICES ASSUME IsPrefix(p, to)  PROVE FALSE
          BY <1>2, <4>3
        <5> QED BY <4>1, <4>3, PrefixTransitive DEF Path
      <4>5. p \in Under(t, from) /\ m[p] = t[p]
        BY <1>2, <4>3, <4>4 DEF Under, SameAt
      <4> QED BY <4>1, <4>2, <4>5 DEF MovedTo
    <3> QED BY <1>3, <3>1, <3>2
  <2> QED BY <1>2, <1>3, <1>4, <1>5, <2>1, <2>2, <2>3 DEF r
<1>6. CASE ~made.ok
  <2>1. r.tree = m /\ ~r.ok
    BY <1>1, <1>6
  <2>2. \A q \in DOMAIN m : \/ q \in DOMAIN t /\ SameAt(t, m, q)
                            \/ IsPrefix(q, to) /\ IsDir(m, q)
    BY <1>2
  <2> QED BY <1>2, <1>6, <2>1, <2>2 DEF r
<1> QED BY <1>5, <1>6

-----------------------------------------------------------------------------
(* Ranges of bytes.                                                        *)

\* A range of a file is a sequence of bytes, short only at the end of the file.
LEMMA SliceType ==
  ASSUME NEW c \in Seq(Byte), NEW o \in Nat, NEW n \in Nat
  PROVE  /\ Slice(c, o, n) \in Seq(Byte)
         /\ Len(Slice(c, o, n)) \in 0..n
         /\ o + Len(Slice(c, o, n)) <= Len(c) \/ Slice(c, o, n) = <<>>
         /\ Len(Slice(c, o, n)) < n => o + Len(Slice(c, o, n)) >= Len(c)
<1> DEFINE end == IF o + n < Len(c) THEN o + n ELSE Len(c)
           s   == SubSeq(c, o + 1, end)
<1>1. Len(c) \in Nat /\ end \in Int /\ (o + 1) \in Int
  BY LenProperties
<1>2. \A i \in (o + 1)..end : c[i] \in Byte
  BY <1>1, ElementOfSeq
<1> HIDE DEF end
<1>3. /\ s \in Seq(Byte)
      /\ Len(s) = IF o + 1 <= end THEN end - (o + 1) + 1 ELSE 0
  BY <1>1, <1>2, SubSeqProperties
<1>4. o + 1 > end => s = <<>>
  BY <1>1, SubSeqEmpty
<1>5. Slice(c, o, n) = s
  BY DEF Slice, end
<1> HIDE DEF s
<1> QED BY <1>1, <1>3, <1>4, <1>5 DEF end

\* A truncated new file is a sequence of bytes.
LEMMA ZerosType ==
  ASSUME NEW n \in Nat
  PROVE  Zeros(n) \in Seq(Byte)
BY EntryAssumption DEF Zeros

\* Bytes written at any offset leave a sequence of bytes.
LEMMA WriteAtType ==
  ASSUME NEW c \in Seq(Byte), NEW o \in Nat, NEW b \in Seq(Byte)
  PROVE  WriteAt(c, o, b) \in Seq(Byte)
<1> DEFINE end == o + Len(b)
           n   == IF end > Len(c) THEN end ELSE Len(c)
           e(i) == IF i > o /\ i <= end THEN b[i - o]
                   ELSE IF i <= Len(c) THEN c[i] ELSE 0
<1>1. Len(c) \in Nat /\ Len(b) \in Nat /\ n \in Nat
  BY LenProperties
<1>2. \A i \in 1..n : e(i) \in Byte
  <2> SUFFICES ASSUME NEW i \in 1..n  PROVE e(i) \in Byte
    OBVIOUS
  <2>1. CASE i > o /\ i <= end
    BY <2>1, <1>1, ElementOfSeq, i - o \in 1..Len(b)
  <2>2. CASE ~(i > o /\ i <= end)
    BY <2>2, <1>1, ElementOfSeq, EntryAssumption
  <2> QED BY <2>1, <2>2
<1>3. [i \in 1..n |-> e(i)] \in Seq(Byte)
  <2> HIDE DEF e, n
  <2>1. [i \in 1..n |-> e(i)] \in [1..n -> Byte]
    BY <1>2
  <2> QED BY <2>1, <1>1, SeqDef
<1>4. WriteAt(c, o, b) = IF b = <<>> THEN c ELSE [i \in 1..n |-> e(i)]
  BY DEF WriteAt
<1> QED BY <1>3, <1>4

-----------------------------------------------------------------------------
(* Numbers and orders.  The library states induction for an operator; a    *)
(* set that is closed under the successor serves as well.                  *)

\* Of any numbers one is the least.
LEMMA LeastNumber ==
  ASSUME NEW T \in SUBSET Nat, T # {}
  PROVE  \E x \in T : \A y \in T : x <= y
<1> DEFINE R == OpToRel(<, Nat)
<1>1. R = {ss \in Nat \X Nat : ss[1] < ss[2]}
  BY DEF OpToRel
<1>2. IsWellFoundedOn(R, Nat)
  BY NatLessThanWellFounded
<1> HIDE DEF R
<1>3. PICK x \in T : \A y \in T : <<y, x>> \notin R
  BY <1>2, WFMin
<1>4. ASSUME NEW y \in T, ~(x <= y)  PROVE FALSE
  <2>1. <<y, x>> \in R
    BY <1>1, <1>4
  <2> QED BY <1>3, <2>1
<1> QED BY <1>4

\* A set with 0 and the successor of each number in it has all numbers.
LEMMA SetInduction ==
  ASSUME NEW S, 0 \in S, \A n \in Nat : n \in S => n + 1 \in S
  PROVE  Nat \subseteq S
<1> DEFINE T == {n \in Nat : n \notin S}
<1>1. SUFFICES ASSUME T # {}  PROVE FALSE
  OBVIOUS
<1>2. PICK x \in T : \A y \in T : x <= y
  BY <1>1, LeastNumber, T \in SUBSET Nat
<1>3. x \in Nat /\ x \notin S /\ x # 0
  OBVIOUS
<1>4. x - 1 \in Nat /\ ~(x <= x - 1)
  BY <1>3
<1>5. x - 1 \in S
  BY <1>2, <1>4
<1> QED BY <1>3, <1>4, <1>5

\* R is a total order of P.
Ordered(R, P) ==
  /\ \A x, y \in P : x = y \/ <<x, y>> \in R \/ <<y, x>> \in R
  /\ \A x, y, z \in P : <<x, y>> \in R /\ <<y, z>> \in R => <<x, z>> \in R

\* Of finitely many things in a total order one is the last.
LEMMA LastInOrder ==
  ASSUME NEW P, NEW R, Ordered(R, P), NEW S \in SUBSET P, IsFiniteSet(S), S # {}
  PROVE  \E m \in S : \A y \in S \ {m} : <<y, m>> \in R
<1> DEFINE T == {n \in Nat : \A U \in SUBSET P :
                   IsFiniteSet(U) /\ Cardinality(U) = n /\ U # {}
                     => \E m \in U : \A y \in U \ {m} : <<y, m>> \in R}
<1>1. 0 \in T
  BY FS_EmptySet
<1>2. ASSUME NEW n \in Nat, n \in T, NEW U \in SUBSET P, IsFiniteSet(U), Cardinality(U) = n + 1
      PROVE  \E m \in U : \A y \in U \ {m} : <<y, m>> \in R
  <2>1. PICK x \in U : TRUE
    BY <1>2, FS_EmptySet
  <2> DEFINE V == U \ {x}
  <2>2. IsFiniteSet(V) /\ Cardinality(V) = n /\ V \in SUBSET P
    <3>1. /\ IsFiniteSet(V)
          /\ Cardinality(V) = IF x \in U THEN Cardinality(U) - 1 ELSE Cardinality(U)
      BY <1>2, FS_RemoveElement, Zenon
    <3>2. Cardinality(V) = n
      BY <1>2, <2>1, <3>1
    <3> QED BY <3>1, <3>2
  <2>3. CASE V = {}
    BY <2>1, <2>3
  <2>4. CASE V # {}
    <3>1. PICK m \in V : \A y \in V \ {m} : <<y, m>> \in R
      BY <1>2, <2>2, <2>4
    <3>2. m \in P /\ x \in P /\ m # x
      OBVIOUS
    <3>3. CASE <<x, m>> \in R
      BY <3>1, <3>3
    <3>4. CASE <<m, x>> \in R
      <4>1. ASSUME NEW y \in U \ {x}  PROVE <<y, x>> \in R
        BY <3>1, <3>2, <3>4 DEF Ordered
      <4> QED BY <2>1, <4>1
    <3> QED BY <3>2, <3>3, <3>4 DEF Ordered
  <2> QED BY <2>3, <2>4
<1>3. Nat \subseteq T
  <2>1. ASSUME NEW n \in Nat, n \in T  PROVE n + 1 \in T
    <3>1. \A U \in SUBSET P : IsFiniteSet(U) /\ Cardinality(U) = n + 1 /\ U # {}
                                => \E m \in U : \A y \in U \ {m} : <<y, m>> \in R
      BY <1>2, <2>1
    <3> QED BY <3>1
  <2> HIDE DEF T
  <2> QED BY <1>1, <2>1, SetInduction
<1> QED BY <1>3, FS_CardinalityType

=============================================================================
