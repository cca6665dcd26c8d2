---------------------------------- MODULE Rp ----------------------------------
(***************************************************************************)
(* rp/main.go: the command that synchronises one path with another, each   *)
(* indexed in an SQLite database of its own.  The patch is module Patch's; *)
(* here is what comes before it and how the process ends.  rp never calls  *)
(* Clean or SetMode.                                                       *)
(***************************************************************************)
EXTENDS Patch

\* What rp patches: two directories, indexed in databases.
ASSUME RpWorldsAssumption ==
  \A w \in Worlds : w.srcRoot = <<>> /\ w.dstRoot = <<>> /\ w.repo = "db"

VARIABLES
  args,        \* what is at the two paths
  stage,       \* how far main has come
  databases,   \* the database files in the temporary directory
  exit         \* how the process ended: "ok" is status 0, "error" status 1

rpVars  == <<args, stage, databases, exit>>
runVars == <<vars, rpVars>>

\* "unreadable" is a regular file that cannot be opened, "special" neither file nor directory.
Kinds == {"missing", "dir", "file", "unreadable", "special"}

\* Only two directories have something to patch; w stands for any other pair.
RpInit ==
  /\ Init
  /\ args \in [src : Kinds, dst : Kinds]
  /\ args = [src |-> "dir", dst |-> "dir"] \/ world = CHOOSE w \in Worlds : TRUE
  /\ stage = "stat" /\ databases = {} /\ exit = "none"

Running(s) == exit = "none" /\ stage = s

Continue(s) == stage' = s /\ exit' = exit

\* os.Exit runs no deferred call; the deferred os.RemoveAll of a database happens only when
\* main panics.
Die(status) == exit' = status /\ UNCHANGED <<stage, databases>>
Panic       == exit' = "panic" /\ databases' = {} /\ UNCHANGED stage

\* os.Stat of both arguments.  The error of a missing path never equals os.EEXIST, so that
\* the destination is not made; a missing one is found out by NewLocalStore.
StatArgs ==
  /\ Running("stat")
  /\ IF \/ args.src = "missing"
        \/ args.dst # "missing" /\ (args.src = "dir") # (args.dst = "dir")
     THEN Die("error")
     ELSE Continue("srcdb") /\ UNCHANGED databases
  /\ UNCHANGED <<vars, args>>

\* ioutil.TempFile and NewDbRepo, each of which may fail.
OpenDatabase(db, store) ==
  /\ Running(db)
  /\ \/ Die("error")
     \/ /\ databases' = databases \cup {db}
        /\ \/ Continue(store)
           \/ exit' = "error" /\ UNCHANGED stage
  /\ UNCHANGED <<vars, args>>

\* NewLocalStore.  DbRepo.AddFile asserts that the file's directory, nil, is one of its own;
\* the store of a special file stays nil.  That a single file cannot be read is lost: the
\* error is that of an inner scope, and the repository stays empty.
OpenStore(store, kind, s) ==
  /\ Running(store)
  /\ CASE kind = "missing"             -> Die("error")
       [] kind \in {"file", "special"} -> Panic
       [] OTHER                        -> Continue(s) /\ UNCHANGED databases
  /\ UNCHANGED <<vars, args>>

\* Faulty variant: Clean is called after Exec.
PatchDirsCleaning ==
  /\ Running("patch") /\ args.src = "dir"
  /\ Planner \/ Exec \/ \E p \in unmatched : Clean(p)
  /\ UNCHANGED rpVars

\* NewPatchPlan and Exec, for two directories.
PatchDirs ==
  /\ Running("patch") /\ args.src = "dir"
  /\ Planner \/ Exec
  /\ UNCHANGED rpVars

\* Faulty variant: the result of Exec is not looked at.
ExitRegardless ==
  /\ Running("patch") /\ args.src = "dir"
  /\ pc \in {"done", "failed"}
  /\ Die("ok")
  /\ UNCHANGED <<vars, args>>

\* Faulty variant: a command that fails is waited for.
PatchEndsOnSuccess ==
  /\ Running("patch") /\ args.src = "dir"
  /\ pc = "done" /\ Die("ok")
  /\ UNCHANGED <<vars, args>>

PatchEnds ==
  /\ Running("patch") /\ args.src = "dir"
  /\ \/ pc = "done" /\ Die("ok")
     \/ pc = "failed" /\ Die("error")
  /\ UNCHANGED <<vars, args>>

\* Without a root neither walk of the planner finds a node: there are no commands.
PatchNothing ==
  /\ Running("patch") /\ args.src = "unreadable"
  /\ Die("ok")
  /\ UNCHANGED <<vars, args>>

RpNext ==
  \/ StatArgs
  \/ OpenDatabase("srcdb", "srcstore")
  \/ OpenStore("srcstore", args.src, "dstdb")
  \/ OpenDatabase("dstdb", "dststore")
  \/ OpenStore("dststore", args.dst, "patch")
  \/ PatchDirs \/ PatchEnds \/ PatchNothing

\* The process is one goroutine but for the indexer's, which module Indexer is about.
RpSpec == RpInit /\ [][RpNext]_runVars /\ WF_runVars(RpNext)

-----------------------------------------------------------------------------

\* A process that was told to synchronise a directory and reports success had a directory to
\* synchronise it with (main.go:37-46, 73-76) and has run every command; if the plan was fit
\* to run it has synchronised them, and left none of its own files in the destination
\* (main.go:83-88).
OkMeansSynced ==
  exit = "ok" /\ args.src = "dir" =>
    args.dst = "dir" /\ pc = "done" /\ (FitToRun => Synced /\ NoLitter)

\* At any moment, however the process ends, a file of the destination that the source has
\* nothing for, and that is not transferred, is there with its contents: rp does not call
\* Clean.
ExtrasStay ==
  \A q \in DstNodes \ SrcNodes :
    \/ ~IsFile(world.dst, q)
    \/ \E i \in OpsOf("Transfer") : Within(q, cmds[i].from)
    \/ IsFile(dst, q) /\ dst[q] = world.dst[q]

\* The process ends, whatever its arguments are.
Exits == <>(exit # "none")

=============================================================================
