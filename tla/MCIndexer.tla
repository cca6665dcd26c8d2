------------------------------ MODULE MCIndexer ------------------------------
(***************************************************************************)
(* Small directories for TLC to index.                                     *)
(***************************************************************************)
EXTENDS Indexer

CONSTANTS a, b, top   \* names, the last for the root's own path

Names    == {a, b, top}
NameRank == (a :> 1) @@ (b :> 2) @@ (top :> 3)
Bytes    == {0, 1}

ParityWeak(bytes) == FoldSeq(LAMBDA x, y : x + y, 0, bytes) % 2

Contents == {<<>>, <<0>>, <<1, 1, 0>>}

\* What can be in the top directory under the name n.
Slots(n) ==
  {<<>>, <<n>> :> Dir}
    \cup {<<n>> :> c : c \in Contents}
    \cup {(<<n>> :> Dir) @@ (<<n, a>> :> e) : e \in {Dir, <<0>>}}
    \cup {(<<n>> :> Dir) @@ (<<n, a>> :> Dir) @@ (<<n, b>> :> e) : e \in {Dir, <<0>>}}

Trees == {(<<>> :> Dir) @@ x @@ y : x \in Slots(a), y \in Slots(b)} \cup {<<>>}

\* At most two entries that cannot be read.
Bads(t) == {S \in SUBSET DOMAIN t : Cardinality(S) <= 2}

\* IndexDir has no filter and reports errors; reindex has the filter of its repository,
\* which keeps a DbRepo's own file out of the index.
Calls(t) ==
  [listens : {TRUE}, skip : {{}}, repo : {"mem", "db"}]
    \cup IF DOMAIN t = {} THEN {}
         ELSE [listens : {FALSE}, skip : {{}}, repo : {"mem"}]
                \cup [listens : {FALSE}, skip : {{}} \cup {{p} : p \in Files(t)}, repo : {"db"}]

SmallInputs ==
  UNION {{[tree |-> t, bad |-> bad, root |-> <<top>>, listens |-> c.listens,
           skip |-> c.skip, repo |-> c.repo] : bad \in Bads(t), c \in Calls(t)} :
         t \in Trees}

=============================================================================
