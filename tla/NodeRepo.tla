------------------------------ MODULE NodeRepo ------------------------------
(***************************************************************************)
(* The index of a store: the NodeRepo that fs/index.go fills, and the      *)
(* look-ups and the walk the planner does in it.                           *)
(*                                                                         *)
(* The index of a tree t rooted at root is t itself, as it was when the    *)
(* store was opened: its nodes are the paths at and below root.  What has  *)
(* to be modelled is what the code adds to it: the strong checksums, which *)
(* node a look-up returns among several with the same one, and the order   *)
(* of a walk.                                                              *)
(***************************************************************************)
EXTENDS LocalStore

CONSTANTS
  Rank,        \* the alphabetical order of names: smaller comes first
  BlockSize,   \* fs.BLOCKSIZE
  Weak(_)      \* the weak checksum of a sequence of bytes, any function of them

ASSUME BlockSizeAssumption == BlockSize \in Nat \ {0}
ASSUME RankAssumption ==
  Rank \in [Name -> Int] /\ \A m, n \in Name : Rank[m] = Rank[n] => m = n

\* Node p comes before q in the order of fs.Walk: by level, and within a level as their
\* first ancestors that differ are ordered: subdirectories before files, by name.
WalkedBefore(t, p, q) ==
  \/ Len(p) < Len(q)
  \/ /\ Len(p) = Len(q)
     /\ \E i \in 1..Len(p) :
          LET pp == SubSeq(p, 1, i)
              qq == SubSeq(q, 1, i)
          IN  /\ ParentDir(pp) = ParentDir(qq)
              /\ \/ IsDir(t, pp) /\ IsFile(t, qq)
                 \/ IsDir(t, pp) = IsDir(t, qq) /\ Rank[p[i]] < Rank[q[i]]

\* Node p is added to the repository before q: filepath.Walk takes a directory, then
\* its entries in alphabetical order, each with everything below it.
AddedBefore(p, q) ==
  \/ IsStrictPrefix(p, q)
  \/ \E i \in DOMAIN p \cap DOMAIN q :
       /\ SubSeq(p, 1, i - 1) = SubSeq(q, 1, i - 1)
       /\ Rank[p[i]] < Rank[q[i]]

-----------------------------------------------------------------------------
(* Strong checksums.  SHA-1 is taken to be injective: two sums are equal   *)
(* when what is summed is.  An empty directory sums no bytes, and so does  *)
(* an empty file.                                                          *)

IsEmptyNode(t, p) == IF IsDir(t, p) THEN Children(t, p) = {} ELSE t[p] = <<>>

\* Everything in the directory p, by its path below p.
DeepContents(t, p) ==
  {<<SubSeq(q, Len(p) + 1, Len(q)), t[q]>> : q \in Under(t, p)}

SameStrong(t, p, u, q) ==
  CASE IsFile(t, p) /\ IsFile(u, q) -> t[p] = u[q]
    [] IsDir(t, p) /\ IsDir(u, q)   -> DeepContents(t, p) = DeepContents(u, q)
    [] OTHER                        -> IsEmptyNode(t, p) /\ IsEmptyNode(u, q)

-----------------------------------------------------------------------------
(* Look-ups.  Each returns the set of what it finds: empty or a singleton. *)

\* A MemRepo keeps the last one added under a key, ...
LastAdded(S, Before(_, _)) == {x \in S : \A y \in S \ {x} : Before(y, x)}

\* ... a DbRepo takes the first row of its SELECT.
FirstRow(S, Before(_, _)) == {x \in S : \A y \in S \ {x} : Before(x, y)}

Found(repo, S, Before(_, _)) ==
  IF repo = "mem" THEN LastAdded(S, Before) ELSE FirstRow(S, Before)

\* repo.File(strong) and then repo.Dir(strong), for the strong checksum of p in t.
StrongMatch(repo, u, root, t, p) ==
  LET same  == {q \in Under(u, root) : SameStrong(t, p, u, q)}
      files == {q \in same : IsFile(u, q)}
  IN  Found(repo, IF files # {} THEN files ELSE same, AddedBefore)

\* The blocks of every file in the index: IndexFile cuts each file at the multiples of
\* BlockSize, and the last block may be short.
Blocks(t, root) ==
  UNION {{[file |-> p, offset |-> o, bytes |-> Slice(t[p], o, BlockSize)] :
            o \in {n \in 0..(Len(t[p]) - 1) : n % BlockSize = 0}} :
         p \in {q \in Under(t, root) : IsFile(t, q)}}

BlockAddedBefore(b, c) ==
  \/ AddedBefore(b.file, c.file)
  \/ b.file = c.file /\ b.offset < c.offset

\* repo.WeakBlock(weak): a block of any file of the index.
WeakBlock(repo, t, root, weak) ==
  Found(repo, {b \in Blocks(t, root) : Weak(b.bytes) = weak}, BlockAddedBefore)

=============================================================================
