------------------------------- MODULE MemRepo -------------------------------
(***************************************************************************)
(* fs/repo.go: a repository in memory.  The maps from checksums keep one   *)
(* node under each key.  An operation returns the repository after it.     *)
(***************************************************************************)
EXTENDS Nodes

NewMemRepo ==
  [dirs |-> <<>>, files |-> <<>>, root |-> NoNode, rootIsDir |-> TRUE,
   fileOf |-> <<>>, dirOf |-> <<>>, blockOf |-> <<>>, weakOf |-> <<>>]

\* Faulty variant: every directory becomes the root.
MemAddDirAsRoot(m, parent, name) ==
  LET d      == Len(m.dirs) + 1
      strong == Placeholder(Cardinality(DOMAIN m.dirOf))
  IN  [m EXCEPT !.dirs  = Append(@, [parent |-> parent, name |-> name, strong |-> strong]),
                !.dirOf = Put(@, strong, d), !.root = d, !.rootIsDir = TRUE]

\* A directory without a checksum gets a placeholder that no other has.
MemAddDir(m, parent, name) ==
  LET d      == Len(m.dirs) + 1
      strong == Placeholder(Cardinality(DOMAIN m.dirOf))
      added  == [m EXCEPT !.dirs  = Append(@, [parent |-> parent, name |-> name, strong |-> strong]),
                          !.dirOf = Put(@, strong, d)]
  IN  IF parent = NoNode THEN [added EXCEPT !.root = d, !.rootIsDir = TRUE] ELSE added

\* AddBlock of every block of file f, in order: a map after it, in which they are under
\* these keys, their checksums, and of several under one key the last.
MemAddBlocks(map, f, keys) ==
  LET under(key) == {i \in DOMAIN keys : keys[i] = key}
  IN  [key \in DOMAIN map \cup Range(keys) |->
         IF under(key) = {} THEN map[key] ELSE [file |-> f, position |-> Max(under(key)) - 1]]

\* AddFile; a file without a directory is the root.
MemAddFile(m, parent, name, contents) ==
  LET f      == Len(m.files) + 1
      strong == FileStrong(contents)
      blocks == FileBlocks(contents)
      added  == [m EXCEPT !.files   = Append(@, [parent |-> parent, name |-> name,
                                                 strong |-> strong, contents |-> contents]),
                          !.fileOf  = Put(@, strong, f),
                          !.blockOf = MemAddBlocks(@, f, blocks),
                          !.weakOf  = MemAddBlocks(@, f, [i \in DOMAIN blocks |-> Weak(blocks[i])])]
  IN  IF parent = NoNode THEN [added EXCEPT !.root = f, !.rootIsDir = FALSE] ELSE added

\* Faulty variant: an entry that is there is not replaced.
MemRekeyIfFree(m, d) ==
  LET new == CalcStrong(m, d)
      old == m.dirs[d].strong
  IN  IF new = old THEN m
      ELSE [m EXCEPT !.dirOf = IF new \in DOMAIN @ THEN Without(@, {old})
                               ELSE Put(Without(@, {old}), new, d),
                     !.dirs[d].strong = new]

\* UpdateStrong, after that of its subdirectories: a directory moves from its old key to its new one.
MemRekey(m, d) ==
  LET new == CalcStrong(m, d)
      old == m.dirs[d].strong
  IN  IF new = old THEN m
      ELSE [m EXCEPT !.dirOf = Put(Without(@, {old}), new, d), !.dirs[d].strong = new]

\* Look-ups.
MemFile(m, strong)    == IF strong \in DOMAIN m.fileOf THEN {m.fileOf[strong]} ELSE {}
MemDir(m, strong)     == IF strong \in DOMAIN m.dirOf THEN {m.dirOf[strong]} ELSE {}
MemBlock(m, strong)   == IF strong \in DOMAIN m.blockOf THEN {m.blockOf[strong]} ELSE {}
MemWeakBlock(m, weak) == IF weak \in DOMAIN m.weakOf THEN {m.weakOf[weak]} ELSE {}

=============================================================================
