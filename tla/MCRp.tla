--------------------------------- MODULE MCRp ---------------------------------
(***************************************************************************)
(* Small directories for rp to synchronise.                                *)
(***************************************************************************)
EXTENDS Rp, MCPatch

RpWorlds == {w \in DirWorlds(DeepTrees) : w.repo = "db"}

=============================================================================
