------------------------------ MODULE MoveSteps -------------------------------
(***************************************************************************)
(* Move of fs/util.go call by call, within one file system and from one to *)
(* another, where it copies and removes.  Every call may fail, and the     *)
(* process may end between two calls.                                      *)
(***************************************************************************)
EXTENDS LocalStore

CONSTANT Moves   \* what is moved where

\* Any two paths: there need not be anything at `from`, one may be below the other, and a
\* Transfer in a LocalFileStore moves its file to itself (store.go:144).  The path `to` is in
\* the file system of `from`, or in another.
IsMove(m) ==
  /\ IsTree(m.tree) /\ InDirs(m.tree)
  /\ m.from \in Path /\ m.to \in Path
  /\ m.cross \in BOOLEAN
  /\ m.cross => m.from # m.to

ASSUME MovesAssumption == \A m \in Moves : IsMove(m)

VARIABLES
  move,   \* what is moved
  tree,   \* the tree
  pc      \* the next call, "ok" or "error" for what Move returned, or "crashed"

vars == <<move, tree, pc>>

From == move.tree[move.from]

Init ==
  /\ move \in Moves
  /\ tree = move.tree
  /\ pc = "remove"

\* The call of this step returns an error, and Move returns it.
Fail(step) ==
  /\ pc = step
  /\ pc' = "error"
  /\ UNCHANGED <<move, tree>>

\* Faulty variant: with all that is in it.
RemoveTargetAll ==
  /\ pc = "remove"
  /\ tree' \in {tree, OsRemoveAll(tree, move.to).tree}
  /\ pc' = "rename"
  /\ UNCHANGED move

\* What is in the way is removed; if it cannot be, nobody looks.
RemoveTarget ==
  /\ pc = "remove"
  /\ tree' \in {tree, OsRemove(tree, move.to).tree}
  /\ pc' = "rename"
  /\ UNCHANGED move

Rename ==
  /\ pc = "rename" /\ ~move.cross
  /\ LET r == OsRename(tree, move.from, move.to)
     IN  tree' = r.tree /\ pc' = IF r.ok THEN "ok" ELSE "error"
  /\ UNCHANGED move

\* EXDEV; the source is opened, if it is there.
RenameAcross ==
  /\ pc = "rename" /\ move.cross
  /\ pc' = IF Exists(tree, move.from) THEN "create" ELSE "error"
  /\ UNCHANGED <<move, tree>>

Create ==
  /\ pc = "create"
  /\ LET r == OsCreate(tree, move.to)
     IN  tree' = r.tree /\ pc' = IF r.ok THEN "copy" ELSE "error"
  /\ UNCHANGED move

\* io.Copy: a read and a write.
CopyByte ==
  /\ pc = "copy" /\ From # Dir
  /\ Len(tree[move.to]) < Len(From)
  /\ tree' = Put(tree, move.to, Append(tree[move.to], From[Len(tree[move.to]) + 1]))
  /\ UNCHANGED <<move, pc>>

\* A directory cannot be read.
CopyDir ==
  /\ pc = "copy" /\ From = Dir
  /\ Fail("copy")

\* Faulty variant: a short copy is one.
CopyEndsEarly ==
  /\ pc = "copy" /\ From # Dir
  /\ Len(tree[move.to]) + 1 >= Len(From)
  /\ pc' = "unlink"
  /\ UNCHANGED <<move, tree>>

CopyEnds ==
  /\ pc = "copy" /\ From # Dir
  /\ tree[move.to] = From
  /\ pc' = "unlink"
  /\ UNCHANGED <<move, tree>>

\* Faulty variant: with the directory it was in.
UnlinkAll ==
  /\ pc = "unlink"
  /\ tree' = Without(tree, Under(tree, ParentDir(move.from)) \ {<<>>, move.to})
  /\ pc' = "ok"
  /\ UNCHANGED move

\* Faulty variant: the source stays.
UnlinkNothing ==
  /\ pc = "unlink"
  /\ pc' = "ok"
  /\ UNCHANGED <<move, tree>>

Unlink ==
  /\ pc = "unlink"
  /\ tree' = OsRemove(tree, move.from).tree
  /\ pc' = "ok"
  /\ UNCHANGED move

Crash ==
  /\ pc \notin {"ok", "error", "crashed"}
  /\ pc' = "crashed"
  /\ UNCHANGED <<move, tree>>

Call ==
  \/ RemoveTarget
  \/ Rename \/ RenameAcross
  \/ Create \/ CopyByte \/ CopyDir \/ CopyEnds \/ Unlink

Next ==
  \/ Call
  \/ \E step \in {"rename", "create", "copy", "unlink"} : Fail(step)
  \/ Crash

Spec == Init /\ [][Next]_vars

-----------------------------------------------------------------------------

\* What is at and below a path of t, by the names below it.
Content(t, path) == {<<SubSeq(p, Len(path) + 1, Len(p)), t[p]>> : p \in Under(t, path)}
Moved == Content(move.tree, move.from)

\* The same without what is at x itself.
ContentBut(t, path, x) ==
  {<<SubSeq(p, Len(path) + 1, Len(p)), t[p]>> : p \in Under(t, path) \ {x}}
Untouched == ContentBut(tree, move.from, move.to) = ContentBut(move.tree, move.from, move.to)

\* Wherever Move stops, at an error or because the process ends, what was to be moved is
\* whole: where it is to go, or where it was, but for what was in the way.  Move removes that
\* before it looks at the source (util.go:24-28), whether or not it is a part of the source
\* or, in a LocalFileStore, the source itself: nothing but it is ever lost.
SourceSafe == Moved = Content(tree, move.to) \/ Untouched

\* Move changes nothing but what is at and below the two paths.
RestUntouched ==
  \A p \in DOMAIN tree \cup DOMAIN move.tree :
    \/ IsPrefix(move.from, p) \/ IsPrefix(move.to, p)
    \/ p \in DOMAIN tree /\ p \in DOMAIN move.tree /\ tree[p] = move.tree[p]

\* No error means that it is there, all of it, and no longer here; and an error that it is
\* here, but for what was in the way (util.go:24-59).
ReturnsTruth ==
  /\ pc = "ok" => /\ Content(tree, move.to) = Moved
                  /\ move.from # move.to => ~Exists(tree, move.from)
  /\ pc = "error" => Untouched

\* A move that succeeds, in one file system or across two, whether or not what was in the way
\* could be removed first, has done what the one step that Patch takes for it does: the call
\* that the patch makes (patch.go:72) does not depend on where the directories are mounted.
MovesAsPatch ==
  pc = "ok" /\ move.from # move.to => Move(move.tree, move.from, move.to) = Ok(tree)

=============================================================================
