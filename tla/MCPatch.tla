------------------------------ MODULE MCPatch -------------------------------
(***************************************************************************)
(* Small stores for TLC to synchronise.                                    *)
(***************************************************************************)
EXTENDS Patch

CONSTANTS a, b, f, g, t1, t2, t3   \* names, the last three of temporary files

Names     == {a, b, f, g, t1, t2, t3}
TempNames == {t1, t2, t3}
NameRank  ==
  (a :> 1) @@ (b :> 2) @@ (f :> 3) @@ (g :> 4) @@ (t1 :> 5) @@ (t2 :> 6) @@ (t3 :> 7)
Bytes     == {0, 1}
Repos     == {"mem", "db"}

\* A coarse checksum: different blocks have the same.
ParityWeak(bytes) == FoldSeq(LAMBDA x, y : x + y, 0, bytes) % 2

Top == <<>> :> Dir

-----------------------------------------------------------------------------
(* Directories: what differs is where the files are.                       *)

Contents == {<<0>>, <<1>>}

\* What can be in the top directory under the name n: nothing, a file, or a directory that
\* has a file `a` or is empty.
Slots(n) ==
  {<<>>, <<n>> :> Dir}
    \cup {<<n>> :> c : c \in Contents}
    \cup {(<<n>> :> Dir) @@ (<<n, a>> :> c) : c \in Contents}

DeepTrees == {Top @@ x @@ y : x \in Slots(a), y \in Slots(b)}

\* Three files, for longer chains of moves.
FlatTrees ==
  UNION {{Top @@ [p \in {<<n>> : n \in S} |-> c[p[1]]] : c \in [S -> Contents]} :
         S \in SUBSET {a, b, f}}

DirWorlds(Trees) ==
  [src : Trees, dst : Trees, srcRoot : {<<>>}, dstRoot : {<<>>}, repo : Repos]

FlatWorlds == DirWorlds(FlatTrees)
TreeWorlds == DirWorlds(DeepTrees) \cup FlatWorlds

-----------------------------------------------------------------------------
(* Single files: what differs is which blocks are where.                   *)

FileTree(n, contents) == Top @@ (<<n>> :> contents)

UpTo4 == UNION {[1..n -> Bytes] : n \in 0..4}

FileWorlds ==
  {[src |-> FileTree(f, c), dst |-> FileTree(n, d),
    srcRoot |-> <<f>>, dstRoot |-> <<n>>, repo |-> "mem"] :
     c \in UpTo4, d \in UpTo4, n \in {f, g}}

\* Two files of one or two blocks in a directory: blocks of one may be found in the other.
BlockContents == {<<0, 0>>, <<1, 1>>, <<0, 0, 1>>, <<1, 1, 0, 0>>}

BlockTrees ==
  UNION {{Top @@ [p \in {<<n>> : n \in S} |-> c[p[1]]] : c \in [S -> BlockContents]} :
         S \in SUBSET {a, b}}

BlockWorlds == FileWorlds \cup DirWorlds(BlockTrees)

=============================================================================
