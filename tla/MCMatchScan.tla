---------------------------- MODULE MCMatchScan -----------------------------
(***************************************************************************)
(* Small files for TLC to scan, with integers so short that the sums wrap. *)
(***************************************************************************)
EXTENDS MatchScan, Bitwise

CONSTANTS f, g   \* names

Names    == {f, g}
NameRank == (f :> 1) @@ (g :> 2)
Bytes    == {0, 1, 3}

\* Integers of two bits, and sums that overlap in the upper one.
Width        == 4
Packed(x, y) == ((y * 2) % Width) | x

FileTree(n, contents) == (<<>> :> Dir) @@ (<<n>> :> contents)

Sources == UNION {[1..n -> Bytes] : n \in 1..3}
Scanned == UNION {[1..n -> Bytes] : n \in 0..5}

\* Either file may be in the index beside the one that is looked for.
ScanWorlds ==
  {[src |-> FileTree(f, c), dst |-> FileTree(g, d),
    srcRoot |-> <<f>>, dstRoot |-> <<g>>, repo |-> "mem"] : c \in Sources, d \in Scanned}

=============================================================================
