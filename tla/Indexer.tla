------------------------------- MODULE Indexer -------------------------------
(***************************************************************************)
(* fs/index.go: the Indexer, which fills a repository with the tree below  *)
(* a directory, as IndexDir and as the reindex of a LocalDirStore use it.  *)
(*                                                                         *)
(* Up to three goroutines run: the walker, in filepath.Walk and the        *)
(* visitor's callbacks; Index, which waits for the walker; and IndexDir,   *)
(* the caller, which collects the errors until their channel is closed.    *)
(* reindex has no error channel and calls Index itself.                    *)
(***************************************************************************)
EXTENDS MemRepo, DbRepo

CONSTANT Inputs   \* what there is to index

\* The tree below the directory, whose entries are in directories (empty if the directory
\* does not exist), the path it is given by, the entries that cannot be opened and read,
\* those the filter keeps out, the kind of repository, and whether there is an error
\* channel: IndexDir has one, reindex has not.
IsInput(i) ==
  /\ IsTree(i.tree) /\ InDirs(i.tree)
  /\ DOMAIN i.tree # {} => IsDir(i.tree, <<>>)
  /\ i.root \in Seq(Name) \ {<<>>}
  /\ i.bad \subseteq DOMAIN i.tree /\ i.skip \subseteq Files(i.tree)
  /\ i.repo \in {"mem", "db"}
  /\ i.listens \in BOOLEAN

ASSUME InputsAssumption == \A i \in Inputs : IsInput(i)

VARIABLES
  in,          \* what is indexed
  repo,        \* Indexer.Repo
  dirMap,      \* Indexer.dirMap, from textual paths to directories
  root,        \* Indexer.root
  todo,        \* entries filepath.Walk has still to get to
  unsent,      \* the error the walker is about to send, if any
  walker,      \* "idle", "walking", or "done": it has closed the channel control
  index,       \* where Index, or the function around it in IndexDir, is
  stale,       \* directories whose UpdateStrong is still to come
  caller,      \* where the caller is
  errorChan,   \* the errors in the channel
  closed,      \* whether it is closed
  dirChan,     \* the result in its channel
  errors       \* what IndexDir has collected

repoVars == <<repo, dirMap, root>>
walkVars == <<todo, unsent, walker>>
chanVars == <<errorChan, closed, dirChan>>
vars == <<in, repoVars, walkVars, index, stale, caller, chanVars, errors>>

\* make(chan os.Error, 1) and make(chan Dir, 1).
ErrorChanSize == 1
DirChanNone == 0   \* faulty variant
DirChanSize == 1

Init ==
  /\ in \in Inputs
  /\ repo = IF in.repo = "mem" THEN NewMemRepo ELSE NewDbRepo
  /\ dirMap = <<>> /\ root = NoNode
  /\ todo = {} /\ unsent = <<>> /\ walker = "idle"
  /\ index = "init" /\ stale = {}
  /\ caller = IF in.listens THEN "collect" ELSE "call"
  /\ errorChan = <<>> /\ closed = FALSE /\ dirChan = <<>>
  /\ errors = <<>>

-----------------------------------------------------------------------------
(* The visitor.                                                            *)

AddDir(parent, name) ==
  IF in.repo = "mem" THEN MemAddDir(repo, parent, name) ELSE DbAddDir(repo, parent, name)

AddFile(r, parent, name, contents) ==
  IF in.repo = "mem" THEN MemAddFile(r, parent, name, contents)
  ELSE DbAddFile(r, parent, name, contents)

\* filepath.Join: the textual path of an entry.  (The entries of "." go by their names
\* alone, so that VisitDir finds no parent for them; a root is taken to have a name.)
Text(p) == in.root \o p

\* Faulty variant: VisitDir does not look whether it has been there.
EnteredAgain(p) ==
  LET text  == Text(p)
      above == ParentDir(text)
      r     == IF above \in DOMAIN dirMap THEN AddDir(dirMap[above], <<Last(text)>>)
               ELSE AddDir(NoNode, <<>>)
  IN  [repo |-> r, dirMap |-> Put(dirMap, text, Len(r.dirs))]

\* VisitDir: the repository and dirMap with the directory.  Its parent is found by the text
\* of its path; without one it has no name either.  The filter, which VisitDir asks as well
\* (index.go:100-102), keeps files out and never a directory (in.skip).
Entered(p) ==
  LET text  == Text(p)
      above == ParentDir(text)
      r     == IF above \in DOMAIN dirMap THEN AddDir(dirMap[above], <<Last(text)>>)
               ELSE AddDir(NoNode, <<>>)
  IN  IF text \in DOMAIN dirMap THEN [repo |-> repo, dirMap |-> dirMap]
      ELSE [repo |-> r, dirMap |-> Put(dirMap, text, Len(r.dirs))]

\* An error goes to the channel, if there is one.
Fails(p) == unsent' = IF in.listens THEN <<p>> ELSE <<>>

\* filepath.Walk comes to p, the next in its order, and takes the entries `left` after it.
Visit(p, left) ==
  /\ walker = "walking" /\ unsent = <<>>
  /\ p \in todo
  /\ \A q \in todo \ {p} : AddedBefore(p, q)
  /\ todo' = left
  /\ UNCHANGED <<in, root, walker, index, stale, caller, chanVars, errors>>

\* VisitDir, and then the listing of the directory.
WalkDir(p) ==
  /\ IsDir(in.tree, p) /\ p \notin in.bad
  /\ Visit(p, todo \ {p})
  /\ repo' = Entered(p).repo /\ dirMap' = Entered(p).dirMap
  /\ UNCHANGED unsent

WalkDirUnreadable(p) ==
  /\ IsDir(in.tree, p) /\ p \in in.bad
  /\ Visit(p, todo \ Under(in.tree, p))
  /\ repo' = Entered(p).repo /\ dirMap' = Entered(p).dirMap
  /\ Fails(p)

\* VisitFile of a file that the filter takes and that can be read: VisitDir of its
\* directory, which finds it in dirMap, and AddFile.
WalkFile(p) ==
  /\ IsFile(in.tree, p) /\ p \notin in.bad \cup in.skip
  /\ Visit(p, todo \ {p})
  /\ LET there == Entered(ParentDir(p))
     IN  /\ repo' = AddFile(there.repo, there.dirMap[Text(ParentDir(p))],
                            <<Last(p)>>, in.tree[p])
         /\ dirMap' = there.dirMap
  /\ UNCHANGED unsent

\* IndexFile fails.
WalkFileUnreadable(p) ==
  /\ IsFile(in.tree, p) /\ p \in in.bad \ in.skip
  /\ Visit(p, todo \ {p})
  /\ Fails(p)
  /\ UNCHANGED <<repo, dirMap>>

WalkFileFiltered(p) ==
  /\ p \in in.skip
  /\ Visit(p, todo \ {p})
  /\ UNCHANGED <<repo, dirMap, unsent>>

\* Faulty variant: an error that finds the channel full is dropped.
SendErrorOrDrop ==
  /\ unsent # <<>>
  /\ errorChan' = IF Len(errorChan) < ErrorChanSize THEN errorChan \o unsent ELSE errorChan
  /\ unsent' = <<>>
  /\ UNCHANGED <<in, repoVars, todo, walker, index, stale, caller, closed, dirChan, errors>>

\* Faulty variant: the walker does not wait.
SendErrorAtOnce ==
  /\ unsent # <<>>
  /\ errorChan' = errorChan \o unsent
  /\ unsent' = <<>>
  /\ UNCHANGED <<in, repoVars, todo, walker, index, stale, caller, closed, dirChan, errors>>

\* The walker waits until there is room in the error channel.
SendError ==
  /\ unsent # <<>>
  /\ Len(errorChan) < ErrorChanSize
  /\ errorChan' = errorChan \o unsent
  /\ unsent' = <<>>
  /\ UNCHANGED <<in, repoVars, todo, walker, index, stale, caller, closed, dirChan, errors>>

\* The walk is over: close(control).
WalkDone ==
  /\ walker = "walking" /\ todo = {} /\ unsent = <<>>
  /\ walker' = "done"
  /\ UNCHANGED <<in, repoVars, todo, unsent, index, stale, caller, chanVars, errors>>

-----------------------------------------------------------------------------
(* Index, and the function in IndexDir that calls it.                      *)

\* initWalk, and the start of the walker.  It finds the directory, or it sends an error
\* and is done.
InitWalk ==
  /\ index = "init"
  /\ index' = "wait"
  /\ walker' = "walking"
  /\ todo' = DOMAIN in.tree
  /\ IF DOMAIN in.tree = {}
     THEN Fails(<<>>) /\ UNCHANGED repoVars
     ELSE /\ repo' = Entered(<<>>).repo /\ dirMap' = Entered(<<>>).dirMap
          /\ root' = dirMap'[in.root]
          /\ UNCHANGED unsent
  /\ UNCHANGED <<in, stale, caller, chanVars, errors>>

\* Faulty variant: nothing is waited for.
AwaitNothing ==
  /\ index = "wait"
  /\ index' = "update"
  /\ stale' = IF root = NoNode THEN {} ELSE Subtree(repo, root)
  /\ UNCHANGED <<in, repoVars, walkVars, caller, chanVars, errors>>

\* <-control: the walker is done, and UpdateStrong of the root begins.
AwaitWalk ==
  /\ index = "wait" /\ walker = "done"
  /\ index' = "update"
  /\ stale' = IF root = NoNode THEN {} ELSE Subtree(repo, root)
  /\ UNCHANGED <<in, repoVars, walkVars, caller, chanVars, errors>>

\* Faulty variant: a directory before what is in it.
UpdateDirFirst(d) ==
  /\ index = "update"
  /\ d \in stale /\ \A e \in stale : d <= e
  /\ repo' = IF in.repo = "mem" THEN MemRekey(repo, d) ELSE DbUpdateRow(repo, d)
  /\ stale' = stale \ {d}
  /\ UNCHANGED <<in, dirMap, root, walkVars, index, caller, chanVars, errors>>

\* UpdateStrong comes back from d: the first directory, in the order they were added, whose
\* subdirectories are done.
UpdateDir(d) ==
  LET ready == {e \in stale : Range(SubDirs(repo, e)) \cap stale = {}}
  IN  /\ index = "update"
      /\ d \in ready /\ \A e \in ready : d <= e
      /\ repo' = IF in.repo = "mem" THEN MemRekey(repo, d) ELSE DbUpdateRow(repo, d)
      /\ stale' = stale \ {d}
      /\ UNCHANGED <<in, dirMap, root, walkVars, index, caller, chanVars, errors>>

\* Index returns; to reindex, or to the function that passes the result on.
IndexReturns ==
  /\ index = "update" /\ stale = {}
  /\ index' = IF in.listens THEN "send" ELSE "end"
  /\ caller' = IF in.listens THEN caller ELSE "returned"
  /\ UNCHANGED <<in, repoVars, stale, walkVars, chanVars, errors>>

SendDir ==
  /\ index = "send"
  /\ Len(dirChan) < DirChanSize
  /\ dirChan' = Append(dirChan, root)
  /\ index' = "close"
  /\ UNCHANGED <<in, repoVars, walkVars, stale, caller, errorChan, closed, errors>>

CloseErrors ==
  /\ index = "close"
  /\ closed' = TRUE
  /\ index' = "end"
  /\ UNCHANGED <<in, repoVars, walkVars, stale, caller, errorChan, dirChan, errors>>

-----------------------------------------------------------------------------
(* IndexDir, after it has started the others.                              *)

RecvError ==
  /\ caller = "collect"
  /\ errorChan # <<>>
  /\ errors' = Append(errors, Head(errorChan))
  /\ errorChan' = Tail(errorChan)
  /\ UNCHANGED <<in, repoVars, walkVars, index, stale, caller, closed, dirChan>>

\* Faulty variant: the loop ends when the channel is closed.
ErrorsEndAtClose ==
  /\ caller = "collect"
  /\ closed
  /\ caller' = "await"
  /\ UNCHANGED <<in, repoVars, walkVars, index, stale, chanVars, errors>>

\* The loop ends when the channel is closed and empty.
ErrorsEnd ==
  /\ caller = "collect"
  /\ errorChan = <<>> /\ closed
  /\ caller' = "await"
  /\ UNCHANGED <<in, repoVars, walkVars, index, stale, chanVars, errors>>

RecvDir ==
  /\ caller = "await"
  /\ dirChan # <<>>
  /\ dirChan' = Tail(dirChan)
  /\ caller' = "returned"
  /\ UNCHANGED <<in, repoVars, walkVars, index, stale, errorChan, closed, errors>>

-----------------------------------------------------------------------------

Walker ==
  \/ \E p \in todo : \/ WalkDir(p) \/ WalkDirUnreadable(p)
                     \/ WalkFile(p) \/ WalkFileUnreadable(p) \/ WalkFileFiltered(p)
  \/ SendError
  \/ WalkDone

Index ==
  \/ InitWalk \/ AwaitWalk
  \/ \E d \in stale : UpdateDir(d)
  \/ IndexReturns \/ SendDir \/ CloseErrors

Caller == RecvError \/ ErrorsEnd \/ RecvDir

Next == Walker \/ Index \/ Caller

\* The scheduler runs every goroutine that can go on.
Fairness == WF_vars(Walker) /\ WF_vars(Index) /\ WF_vars(Caller)

Spec == Init /\ [][Next]_vars /\ Fairness

-----------------------------------------------------------------------------
(* Properties.                                                             *)

Returned == caller = "returned"

\* Control states, channels within their sizes, and directories that are in the repository.
TypeOK ==
  /\ IsInput(in)
  /\ todo \subseteq DOMAIN in.tree
  /\ walker \in {"idle", "walking", "done"}
  /\ index \in {"init", "wait", "update", "send", "close", "end"}
  /\ caller \in {"call", "collect", "await", "returned"}
  /\ closed \in BOOLEAN /\ stale \subseteq DOMAIN repo.dirs
  /\ Len(unsent) <= 1 /\ Len(errorChan) <= ErrorChanSize /\ Len(dirChan) <= DirChanSize
  /\ Range(unsent \o errorChan \o errors) \subseteq DOMAIN in.tree \cup {<<>>}
  /\ root \in 0..Len(repo.dirs) /\ Range(dirMap) \subseteq 1..Len(repo.dirs)

\* The error channel is closed only when the walker has sent its last error and every error
\* has been put in it or collected: the walker never panics with a send on a closed channel
\* (index.go:159, 173), and IndexDir loses none.
ClosedAfterLastError == closed => walker = "done" /\ unsent = <<>>

\* From the start of the walk to the end each unreadable entry it has passed is in exactly
\* one place: about to be sent, in the channel, or collected (index.go:147-163).
NoErrorLost ==
  in.listens /\ walker # "idle" /\ DOMAIN in.tree # {} =>
    LET held == unsent \o errorChan \o errors
    IN  /\ IsInjective(held)
        /\ Range(held) =
             {p \in in.bad \ (todo \cup in.skip) :
                \A q \in in.bad : ~IsStrictPrefix(q, p)}

\* The entries that have a node, by what dirMap says of directories.
Indexed ==
  {p \in DOMAIN in.tree :
     \/ IsDir(in.tree, p) /\ Text(p) \in DOMAIN dirMap
     \/ \E f \in DOMAIN repo.files :
          LET node == repo.files[f]
              dir  == Text(ParentDir(p))
          IN  /\ dir \in DOMAIN dirMap /\ node.parent = dirMap[dir]
              /\ node.name = <<Last(p)>> /\ node.contents = in.tree[p]}

\* When indexing has returned, two nodes have the same strong checksum if and only if the
\* planner may take them for equal: every directory's sum was computed after those of all
\* its subdirectories and after the walk, whichever repository holds it (index.go:176-180).
StrongsRight ==
  Returned =>
    LET t       == TreeOf(repo)
        dirs    == DirPath(repo)
        files   == FilePath(repo)
        sums    == {<<dirs[d], repo.dirs[d].strong>> : d \in DOMAIN dirs}
                     \cup {<<files[f], repo.files[f].strong>> : f \in DOMAIN files}
    IN  \A x, y \in sums : x[2] = y[2] <=> SameStrong(t, x[1], t, y[1])

\* What File, Dir, WeakBlock and Block find in the repository, as paths.
FoundFile(strong) ==
  {FilePath(repo)[f] :
     f \in IF in.repo = "mem" THEN MemFile(repo, strong) ELSE DbFile(repo, strong)}

FoundDir(strong) ==
  {DirPath(repo)[d] :
     d \in IF in.repo = "mem" THEN MemDir(repo, strong) ELSE DbDir(repo, strong)}

FoundBlock(weak) ==
  {[file |-> FilePath(repo)[b.file], offset |-> b.position * BlockSize] :
     b \in IF in.repo = "mem" THEN MemWeakBlock(repo, weak) ELSE DbWeakBlock(repo, weak)}

FoundStrongBlock(strong) ==
  {[file |-> FilePath(repo)[b.file], offset |-> b.position * BlockSize] :
     b \in IF in.repo = "mem" THEN MemBlock(repo, strong) ELSE DbBlock(repo, strong)}

RootNode == IF in.repo = "mem" THEN {repo.root} \ {NoNode} ELSE DbRoot(repo)

\* When indexing has returned, Root finds the directory that was indexed, and from there
\* Lookup finds every entry by its path and nothing by another path (node.go:177-204,
\* repo.go:143, dbrepo.go:101-119): the planner starts from the one, the executor uses paths.
LookupsByPath ==
  Returned =>
    /\ RootNode = {root} \ {NoNode}
    /\ \A d \in RootNode : \A p \in DOMAIN in.tree :
         LET found == Lookup(repo, d, p)
             path  == IF found.dir THEN DirPath(repo) ELSE FilePath(repo)
         IN  {path[n] : n \in found.nodes} = {p} \cap Indexed

\* When indexing has returned, a look-up by a strong or a weak checksum finds what the
\* planner's model in NodeRepo says: the last of several equal nodes in a MemRepo, whatever
\* UpdateStrong did to its keys, and the first in a DbRepo (repo.go:117-125, 143-163); and by
\* the strong checksum of a block a block with that checksum is found.
LookupsAsPlanned ==
  Returned =>
    LET t == TreeOf(repo)
        planned(p) == StrongMatch(in.repo, t, <<>>, t, p)
        found(strong) ==
          IF FoundFile(strong) # {} THEN FoundFile(strong) ELSE FoundDir(strong)
    IN  /\ \A d \in DOMAIN repo.dirs : found(repo.dirs[d].strong) = planned(DirPath(repo)[d])
        /\ \A f \in DOMAIN repo.files : found(repo.files[f].strong) = planned(FilePath(repo)[f])
        /\ \A b \in Blocks(t, <<>>) :
             FoundBlock(Weak(b.bytes)) =
               {[file |-> c.file, offset |-> c.offset] :
                  c \in WeakBlock(in.repo, t, <<>>, Weak(b.bytes))}
        /\ \A b \in Blocks(t, <<>>) : \E c \in Blocks(t, <<>>) :
             /\ c.bytes = b.bytes
             /\ FoundStrongBlock(b.bytes) = {[file |-> c.file, offset |-> c.offset]}

\* Indexing returns, and no goroutine is left waiting for another.
Returns == <>(Returned /\ index = "end" /\ walker = "done")

(* What indexing promises.                                                 *)

\* Every node is found under its own path, with its own contents, and no entry has two: the
\* tree that RelPath and the nodes' parents make is the one that was walked
\* (index.go:104-122, node.go:36-45).
NodesInPlace ==
  /\ TreeOf(repo) = [p \in Indexed |-> in.tree[p]]
  /\ Len(repo.dirs) + Len(repo.files) = Cardinality(Indexed)

Promise == INSTANCE IndexSpec WITH
  index    <- Indexed,
  reported <- errors,
  outcome  <- IF ~Returned THEN "none" ELSE IF root = NoNode THEN "failed" ELSE "indexed"

\* The goroutines and the repository together implement IndexSpec: the index is complete and
\* all errors are collected when IndexDir or reindex returns (index.go:152-183).
KeepsPromise == Promise!Spec

=============================================================================
