------------------------------- MODULE MCModes -------------------------------
(***************************************************************************)
(* The small stores of MCPatch for TLC to synchronise and set the modes of. *)
(***************************************************************************)
EXTENDS PatchModes, MCPatch

AllWorlds == TreeWorlds \cup BlockWorlds

=============================================================================
