----------------------------- MODULE MCPostOrder ------------------------------
(***************************************************************************)
(* Small directories for TLC to walk.                                      *)
(***************************************************************************)
EXTENDS PostOrder

CONSTANTS a, b, c   \* names

Names    == {a, b, c}
NameRank == (a :> 1) @@ (b :> 2) @@ (c :> 3)
Bytes    == {0}

\* What can be at p: nothing, a file, or a directory without entries.
Leaf(p) == {<<>>, p :> <<>>, p :> Dir}

\* The same, or a directory with up to two of those.
Slot(p) ==
  Leaf(p) \cup {(p :> Dir) @@ x @@ y : x \in Leaf(Append(p, a)), y \in Leaf(Append(p, b))}

Trees ==
  {(<<>> :> Dir) @@ x @@ y @@ z : x \in Slot(<<a>>), y \in Slot(<<b>>), z \in Leaf(<<c>>)}
    \cup {<<>>}

\* At most one entry that cannot be opened.
Bads(t) == {{}} \cup {{p} : p \in DOMAIN t}

SmallWalks ==
  UNION {[tree : {t}, bad : Bads(t), listens : BOOLEAN] : t \in Trees}

=============================================================================
