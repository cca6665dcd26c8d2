------------------------------ MODULE IndexSpec ------------------------------
(***************************************************************************)
(* What indexing a directory promises: the index grows by one readable     *)
(* entry at a time, a directory before what is in it; every entry that     *)
(* cannot be read is reported once, if anybody listens; and when the call  *)
(* returns both are complete.                                              *)
(***************************************************************************)
EXTENDS FileSystem

VARIABLES
  in,         \* what is indexed, an input of Indexer
  index,      \* the entries that are in the index
  reported,   \* the entries that could not be read, as they were reported
  outcome     \* "none" until the call returns

vars == <<in, index, reported, outcome>>

\* Entries that the walk can get to: below no directory that cannot be read, and not
\* filtered out.
Reachable ==
  {p \in DOMAIN in.tree :
     /\ p \notin in.skip
     /\ \A q \in in.bad : ~IsStrictPrefix(q, p)}

Readable   == {p \in Reachable : IsFile(in.tree, p) => p \notin in.bad}
Unreadable == IF DOMAIN in.tree = {} THEN {<<>>} ELSE Reachable \cap in.bad

Init ==
  /\ IsTree(in.tree)
  /\ index = {} /\ reported = <<>> /\ outcome = "none"

Add(p) ==
  /\ outcome = "none"
  /\ p \notin index
  /\ p = <<>> \/ ParentDir(p) \in index
  /\ index' = index \cup {p}
  /\ UNCHANGED <<in, reported, outcome>>

Report(p) ==
  /\ outcome = "none" /\ in.listens
  /\ p \notin Range(reported)
  /\ reported' = Append(reported, p)
  /\ UNCHANGED <<in, index, outcome>>

Return ==
  /\ outcome = "none"
  /\ index = Readable
  /\ in.listens => Range(reported) = Unreadable
  /\ outcome' = IF <<>> \in Readable THEN "indexed" ELSE "failed"
  /\ UNCHANGED <<in, index, reported>>

Next ==
  \/ \E p \in Readable : Add(p)
  \/ \E p \in Unreadable : Report(p)
  \/ Return

\* The call returns.
Spec == Init /\ [][Next]_vars /\ <>(outcome # "none")

=============================================================================
