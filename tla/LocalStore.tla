----------------------------- MODULE LocalStore -----------------------------
(***************************************************************************)
(* What fs/store.go and fs/util.go do to the tree under a local store.     *)
(*                                                                         *)
(* A store's root is <<>> for a LocalDirStore, whose directory is the      *)
(* modelled top, and the path of the file for a LocalFileStore.  relocs    *)
(* maps the relative paths that were moved out of the way to where they    *)
(* went.                                                                   *)
(***************************************************************************)
EXTENDS FileSystem

CONSTANT TempName   \* names ioutil.TempFile may invent, used by nobody else

ASSUME TempNameAssumption == TempName \subseteq Name

\* A path that TempFile has had a part in.
TempNamed(p) == \E i \in DOMAIN p : p[i] \in TempName

\* What a store can be opened on: the modelled top is a directory, and everything is in a
\* directory.
IsStore(t) == IsTree(t) /\ IsDir(t, <<>>) /\ InDirs(t)

\* Faulty variant: a path is where it was, relocated or not.
ResolveIgnoringRelocs(root, relocs, p) == IF root # <<>> THEN root ELSE p

\* Where a relative path is now.  A LocalFileStore has one file, whatever the path.
Resolve(root, relocs, p) ==
  IF root # <<>> THEN root
  ELSE IF p \in DOMAIN relocs THEN relocs[p]
  ELSE p

\* Names that TempFile can create in dir.
FreshPaths(t, dir) == {p \in {Append(dir, n) : n \in TempName} : ~Exists(t, p)}

\* Faulty variant: a directory in the way is removed with all its contents.
MoveRemovingAll(t, from, to) == OsRename(OsRemoveAll(t, to).tree, from, to)

\* Rename, after removing what is in the way; that the removal fails is not looked at.
\* Everything is on one file system; MoveSteps has the copy that replaces a rename across two
\* (EXDEV), and shows that it does the same when it succeeds.
Move(t, from, to) ==
  OsRename(IF Exists(t, to) THEN OsRemove(t, to).tree ELSE t, from, to)

MkParentDirs(t, p) == OsMkdirAll(t, ParentDir(p))

\* Create the file p with these contents, and the directories it needs.
WriteFile(t, p, contents) ==
  LET made    == MkParentDirs(t, p)
      created == OsCreate(made.tree, p)
  IN  IF ~made.ok THEN made
      ELSE IF created.ok THEN Ok(Put(created.tree, p, contents))
      ELSE created

\* Move a file or directory, creating the directories above `to`.
MoveInto(t, from, to) ==
  LET made == MkParentDirs(t, to)
  IN  IF made.ok THEN Move(made.tree, from, to) ELSE made

\* Copy one file over another.  `to` is created, or emptied, before the first byte is
\* read: copying a directory fails with an empty file in place, copying a file over
\* itself empties it.
CopyInto(t, from, to) ==
  LET made    == MkParentDirs(t, to)
      created == OsCreate(made.tree, to)
  IN  IF ~made.ok \/ ~Exists(made.tree, from) THEN Err(made.tree)
      ELSE IF ~created.ok THEN created
      ELSE IF IsDir(made.tree, from) THEN Err(created.tree)
      ELSE Ok(Put(created.tree, to, created.tree[from]))

-----------------------------------------------------------------------------
(* Reading and writing a range of a file, as Seek and io.Copyn do.         *)

\* The n bytes from offset on, or as many as there are.
Slice(contents, offset, n) ==
  SubSeq(contents, offset + 1, IF offset + n < Len(contents) THEN offset + n ELSE Len(contents))

\* os.Truncate on a new file: n bytes of zero.
Zeros(n) == [i \in 1..n |-> 0]

\* Write bytes at offset, growing the file with zeros where it must.
WriteAt(contents, offset, bytes) ==
  LET end == offset + Len(bytes)
  IN  IF bytes = <<>> THEN contents
      ELSE [i \in 1..(IF end > Len(contents) THEN end ELSE Len(contents)) |->
              IF i > offset /\ i <= end THEN bytes[i - offset]
              ELSE IF i <= Len(contents) THEN contents[i]
              ELSE 0]

=============================================================================
