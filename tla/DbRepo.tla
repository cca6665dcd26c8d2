-------------------------------- MODULE DbRepo --------------------------------
(***************************************************************************)
(* fs/sqlite3/dbrepo.go: a repository in an SQLite database.  Its tables   *)
(* are sequences of rows, which grow at the end; a node is the number of   *)
(* its row, and a SELECT of which the code takes the first row finds the   *)
(* one with the lowest number.                                             *)
(***************************************************************************)
EXTENDS Nodes

\* NewDbRepo of a file that has no tables yet.
NewDbRepo == [dirs |-> <<>>, files |-> <<>>, blocks |-> <<>>]

\* A directory's row has no checksum until UpdateStrong.
DbAddDir(r, parent, name) ==
  [r EXCEPT !.dirs = Append(@, [parent |-> parent, name |-> name, strong |-> Blank])]

\* AddBlock of every block of file f, in order: the rows.
DbAddBlocks(f, blocks) ==
  [i \in DOMAIN blocks |-> [parent |-> f, position |-> i - 1, bytes |-> blocks[i]]]

\* AddFile; it wants a directory of this repository.
DbAddFile(r, parent, name, contents) ==
  [r EXCEPT !.files  = Append(@, [parent |-> parent, name |-> name,
                                  strong |-> FileStrong(contents), contents |-> contents]),
            !.blocks = @ \o DbAddBlocks(Len(r.files) + 1, FileBlocks(contents))]

\* UpdateStrong, after that of its subdirectories.
DbUpdateRow(r, d) == [r EXCEPT !.dirs[d].strong = CalcStrong(r, d)]

\* Look-ups.
First(S) == {i \in S : \A j \in S : i <= j}

DbFile(r, strong) == First({f \in DOMAIN r.files : r.files[f].strong = strong})
DbDir(r, strong)  == First({d \in DOMAIN r.dirs : r.dirs[d].strong = strong})

DbBlockRow(r, S) ==
  {[file |-> r.blocks[i].parent, position |-> r.blocks[i].position] : i \in First(S)}

DbBlock(r, strong)   == DbBlockRow(r, {j \in DOMAIN r.blocks : r.blocks[j].bytes = strong})
DbWeakBlock(r, weak) == DbBlockRow(r, {j \in DOMAIN r.blocks : Weak(r.blocks[j].bytes) = weak})

\* Root: the first directory without a parent.
DbRoot(r) == First({d \in DOMAIN r.dirs : r.dirs[d].parent = NoNode})

=============================================================================
