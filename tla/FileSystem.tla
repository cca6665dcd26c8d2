----------------------------- MODULE FileSystem -----------------------------
(***************************************************************************)
(* The file system under a store, with the calls of Go's "os" package that *)
(* replican/fs and replican/sync make.  It is external to the repository:  *)
(* each operator says what its callers rely on.                            *)
(*                                                                         *)
(* A tree is a function from the paths that exist to what is there: the    *)
(* marker Dir, or a file's contents, a sequence of bytes.  A path is the   *)
(* sequence of its names below the modelled top directory <<>>, which      *)
(* always exists.                                                          *)
(*                                                                         *)
(* A call returns [ok, tree]: whether it reported no error, and the tree   *)
(* it leaves behind, on failure too.                                       *)
(***************************************************************************)
EXTENDS Integers, FiniteSets, SequencesExt

CONSTANTS
  Name,   \* file and directory names
  Byte,   \* values of a byte
  Dir     \* marks a directory in a tree

\* A directory is not a file's contents; bytes never written are zero.
ASSUME EntryAssumption == Dir \notin Seq(Byte) /\ 0 \in Byte

Path  == Seq(Name)
Entry == {Dir} \cup Seq(Byte)

\* t is a function from finitely many paths to entries: what every call below preserves.
IsTree(t) ==
  /\ t = [p \in DOMAIN t |-> t[p]]
  /\ DOMAIN t \subseteq Path /\ IsFiniteSet(DOMAIN t)
  /\ \A p \in DOMAIN t : t[p] \in Entry

-----------------------------------------------------------------------------
(* Queries: os.Stat and os.Readdir.                                        *)

Exists(t, p) == p \in DOMAIN t
IsDir(t, p)  == Exists(t, p) /\ t[p] = Dir
IsFile(t, p) == Exists(t, p) /\ t[p] # Dir

\* The path without its last name; the top directory is its own parent.
ParentDir(p) == SubSeq(p, 1, Len(p) - 1)

Under(t, p)    == {q \in DOMAIN t : IsPrefix(p, q)}
Children(t, p) == {q \in DOMAIN t : q # <<>> /\ ParentDir(q) = p}
Files(t)       == {p \in DOMAIN t : IsFile(t, p)}

\* What there is is in directories that are there.
InDirs(t) == \A p \in DOMAIN t : \A q \in Prefixes(p) \ {p} : IsDir(t, q)

-----------------------------------------------------------------------------
(* Calls that change the tree.                                             *)

Ok(t)  == [ok |-> TRUE,  tree |-> t]
Err(t) == [ok |-> FALSE, tree |-> t]

\* Set the entry at p, whether or not p exists.
Put(t, p, e) == [q \in DOMAIN t \cup {p} |-> IF q = p THEN e ELSE t[q]]

Without(t, S) == [q \in DOMAIN t \ S |-> t[q]]

\* Create p and the directories above it that are missing.
OsMkdirAll(t, p) ==
  IF \E q \in Prefixes(p) : IsFile(t, q)
  THEN Err(t)
  ELSE Ok([q \in DOMAIN t \cup Prefixes(p) |-> IF Exists(t, q) THEN t[q] ELSE Dir])

\* Create or truncate the regular file p.
OsCreate(t, p) ==
  IF IsDir(t, ParentDir(p)) /\ ~IsDir(t, p)
  THEN Ok(Put(t, p, <<>>))
  ELSE Err(t)

\* Remove a file or an empty directory.
OsRemove(t, p) ==
  IF Exists(t, p) /\ Children(t, p) = {}
  THEN Ok(Without(t, {p}))
  ELSE Err(t)

\* Remove p and all below it; nothing there is no error.
OsRemoveAll(t, p) == Ok(Without(t, Under(t, p)))

\* t with all at and below `from` now at and below `to`, in place of what was there.
Renamed(t, from, to) ==
  LET stay  == DOMAIN t \ (Under(t, from) \cup Under(t, to))
      below(p, top) == SubSeq(p, Len(top) + 1, Len(p))
      moved == {to \o below(p, from) : p \in Under(t, from)}
  IN  [p \in stay \cup moved |-> IF p \in stay THEN t[p] ELSE t[from \o below(p, to)]]

\* rename(2): a file replaces a file, a directory an empty directory, and nothing
\* moves into itself.
OsRename(t, from, to) ==
  LET possible ==
        /\ Exists(t, from)
        /\ IsDir(t, ParentDir(to))
        /\ ~IsStrictPrefix(from, to)
        /\ \/ ~Exists(t, to)
           \/ IsFile(t, from) /\ IsFile(t, to)
           \/ IsDir(t, from) /\ IsDir(t, to) /\ Children(t, to) = {}
  IN  IF from = to /\ Exists(t, from) THEN Ok(t)
      ELSE IF possible THEN Ok(Renamed(t, from, to))
      ELSE Err(t)

=============================================================================
