------------------------------- MODULE MCCrash -------------------------------
(***************************************************************************)
(* Small stores for TLC to synchronise with crashes.                       *)
(***************************************************************************)
EXTENDS CrashPatch, MCPatch

\* A file or a directory in the way, which may hold what the source has elsewhere.
ConflictTrees == {Top @@ x @@ y : x \in Slots(a), y \in {<<>>, <<b>> :> <<1>>}}

\* Single files, of one or two blocks.
BlockFiles ==
  {w \in FileWorlds : /\ w.src[w.srcRoot] \in BlockContents
                      /\ w.dst[w.dstRoot] \in BlockContents}

CrashWorlds ==
  {w \in DirWorlds(BlockTrees) \cup DirWorlds(ConflictTrees) \cup FlatWorlds : w.repo = "mem"}
    \cup BlockFiles

=============================================================================
