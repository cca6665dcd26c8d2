-------------------------------- MODULE Nodes --------------------------------
(***************************************************************************)
(* The nodes of a repository, fs/node.go, and what fs/index.go finds out   *)
(* about a file or a directory: the part that MemRepo and DbRepo share.    *)
(*                                                                         *)
(* A repository is a record with the sequences dirs and files.  A node is  *)
(* known by its place in its sequence; it has its parent, a place in dirs  *)
(* or NoNode, its name, a sequence of at most one name, and its strong     *)
(* checksum.  A file also has its contents, of which the code keeps the    *)
(* checksums of the blocks.                                                *)
(***************************************************************************)
EXTENDS NodeRepo

NoNode == 0

(* Strong checksums.  SHA-1 is taken to be injective, so a checksum is     *)
(* what was summed: the bytes of a file or the lines of a directory.       *)

SumOf(bytes, lines) == [bytes |-> bytes, lines |-> lines, tmp |-> 0]

\* Not yet a checksum: "tmp<n>", or the empty string where n is -2.
Placeholder(n) == [bytes |-> <<>>, lines |-> <<>>, tmp |-> n + 1]
Blank          == Placeholder(-2)

\* IndexFile: the checksum of a file and the blocks it is cut into.
FileStrong(contents) == SumOf(contents, <<>>)

FileBlocks(contents) ==
  [i \in 1..((Len(contents) + BlockSize - 1) \div BlockSize) |->
     Slice(contents, (i - 1) * BlockSize, BlockSize)]

-----------------------------------------------------------------------------

\* SubDirs and Files: the nodes of a table below d, in the order they were added.
Below(table, d) ==
  LET among[n \in 0..Len(table)] ==
        IF n = 0 THEN <<>>
        ELSE among[n - 1] \o (IF table[n].parent = d THEN <<n>> ELSE <<>>)
  IN  among[Len(table)]

SubDirs(r, d) == Below(r.dirs, d)
FilesIn(r, d) == Below(r.files, d)

\* CalcStrong: one line of reprDir for each subdirectory and then for each file.
CalcStrong(r, d) ==
  LET sub == SubDirs(r, d)
      own == FilesIn(r, d)
      line(isDir, node) == [dir |-> isDir, strong |-> node.strong, name |-> node.name]
  IN  SumOf(<<>>, [i \in DOMAIN sub |-> line(TRUE, r.dirs[sub[i]])]
                    \o [i \in DOMAIN own |-> line(FALSE, r.files[own[i]])])

\* The directory d and all below it.
Subtree(r, d) ==
  LET below[x \in DOMAIN r.dirs] ==
        x = d \/ (r.dirs[x].parent # NoNode /\ below[r.dirs[x].parent])
  IN  {x \in DOMAIN r.dirs : below[x]}

\* RelPath: the names up to the root, which has none if it is a directory.  A node comes
\* after its parent in the repository.
NodePath(above, node) ==
  IF node.parent = NoNode THEN node.name ELSE above[node.parent] \o node.name

DirPath(r) ==
  LET path[d \in DOMAIN r.dirs] == NodePath(path, r.dirs[d])
  IN  path

FilePath(r) ==
  LET above == DirPath(r)
  IN  [f \in DOMAIN r.files |-> NodePath(above, r.files[f])]

\* The tree that a repository stands for.
TreeOf(r) ==
  LET dirs  == DirPath(r)
      files == FilePath(r)
  IN  [p \in Range(dirs) \cup Range(files) |->
         IF p \in Range(files) THEN r.files[CHOOSE f \in DOMAIN files : files[f] = p].contents
         ELSE Dir]

\* Lookup: a file where the path ends, and else the directory; {} if there is none.
Lookup(r, d, relpath) ==
  LET down[i \in 0..Len(relpath)] ==
        IF i = 0 THEN {d}
        ELSE {sub \in DOMAIN r.dirs :
                r.dirs[sub].parent \in down[i - 1] /\ r.dirs[sub].name = <<relpath[i]>>}
      n    == Len(relpath)
      file == {f \in DOMAIN r.files :
                 n > 0 /\ r.files[f].parent \in down[n - 1] /\ r.files[f].name = <<relpath[n]>>}
  IN  IF file # {} THEN [dir |-> FALSE, nodes |-> file] ELSE [dir |-> TRUE, nodes |-> down[n]]

=============================================================================
