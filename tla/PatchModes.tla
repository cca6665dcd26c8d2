----------------------------- MODULE PatchModes ------------------------------
(***************************************************************************)
(* PatchPlan.SetMode, which an application may call after Exec and Clean:  *)
(* it walks the source and gives every node of the destination the mode    *)
(* of the source's node.  A mode is known by the node that has it in the   *)
(* source; what modes the destination had before plays no part.            *)
(***************************************************************************)
EXTENDS Patch

VARIABLES
  setMode,     \* whether SetMode has been called
  unset,       \* source nodes that SetMode has still to visit
  modes,       \* the modes it has set: from destination paths to source nodes
  modeErrors   \* source nodes for which it reported an error

modeVars  == <<setMode, unset, modes, modeErrors>>
modesVars == <<vars, modeVars>>

ModesInit == Init /\ setMode = FALSE /\ unset = {} /\ modes = <<>> /\ modeErrors = {}

\* Faulty variant: the walk does not go below the root's own entries.
SetModeBeginsShallow ==
  /\ ~setMode /\ (pc = "done" \/ (pc = "clean" /\ unmatched = {}))
  /\ setMode' = TRUE
  /\ unset' = {p \in SrcNodes : Len(p) <= 1}
  /\ UNCHANGED <<vars, modes, modeErrors>>

\* Exec has succeeded, and Clean has been called or not.
SetModeBegins ==
  /\ ~setMode /\ (pc = "done" \/ (pc = "clean" /\ unmatched = {}))
  /\ setMode' = TRUE
  /\ unset' = SrcNodes
  /\ UNCHANGED <<vars, modes, modeErrors>>

\* Faulty variant: the path is not resolved in the destination.
ModeOfUnresolved(p) ==
  /\ setMode
  /\ p \in unset /\ \A q \in unset \ {p} : WalkedBefore(src, p, q)
  /\ unset' = unset \ {p}
  /\ IF Exists(dst, p)
     THEN modes' = Put(modes, p, p) /\ UNCHANGED modeErrors
     ELSE modeErrors' = modeErrors \cup {p} /\ UNCHANGED modes
  /\ UNCHANGED <<vars, setMode>>

\* os.Chmod of where the path resolves to, through the relocations that Exec made.
SetModeOf(p) ==
  /\ setMode
  /\ p \in unset /\ \A q \in unset \ {p} : WalkedBefore(src, p, q)
  /\ unset' = unset \ {p}
  /\ IF Exists(dst, Located(p))
     THEN modes' = Put(modes, Located(p), p) /\ UNCHANGED modeErrors
     ELSE modeErrors' = modeErrors \cup {p} /\ UNCHANGED modes
  /\ UNCHANGED <<vars, setMode>>

SetMode == SetModeBegins \/ \E p \in unset : SetModeOf(p)

ModesNext ==
  \/ Next /\ ~setMode /\ UNCHANGED modeVars
  \/ SetMode

\* SetMode, as Clean, is the application's to call.
ModesSpec ==
  /\ ModesInit /\ [][ModesNext]_modesVars
  /\ WF_modesVars((Planner \/ Exec) /\ UNCHANGED modeVars)

-----------------------------------------------------------------------------

\* SetMode is through, and there is something to set modes of: Clean removes a single file
\* that has not the source's name.
ModesSet == setMode /\ unset = {} /\ Exists(dst, world.dstRoot)

\* After a patch that is fit to run SetMode gives each file of the destination the mode of
\* the source's file of that path, which is there, and a single file that of the single
\* file whatever their names are; it leaves the modes of all that the source has not got
\* (patch.go:487-489).
FilesGetTheirModes ==
  ModesSet /\ FitToRun =>
    /\ \A p \in SrcFiles :
         LET at == Resolve(world.dstRoot, <<>>, p)
         IN  at \in DOMAIN modes /\ modes[at] = p
    /\ world.dstRoot = <<>> => DOMAIN modes \subseteq SrcNodes

\* SetMode reports an error only for directories: the empty ones that no command makes, and
\* those that a file was relocated for (patch.go:488, 494).
OnlyDirsFail ==
  ModesSet /\ FitToRun =>
    \A p \in modeErrors :
      /\ IsDir(src, p)
      /\ p \in DOMAIN relocs \/ \A q \in Under(src, p) : IsDir(src, q)

=============================================================================
