--------------------------- MODULE IndexerProofs ----------------------------
(***************************************************************************)
(* What holds of indexing whatever the directory, its unreadable entries,  *)
(* the repository and the filter are, and however the goroutines run.      *)
(***************************************************************************)
EXTENDS Indexer, StoreProofs

-----------------------------------------------------------------------------
(* The inductive invariant.                                                *)

\* Where the goroutines can be at the same time.
Control ==
  /\ walker \in {"idle", "walking", "done"}
  /\ index \in {"init", "wait", "update", "send", "close", "end"}
  /\ caller \in IF in.listens THEN {"collect", "await", "returned"} ELSE {"call", "returned"}
  /\ walker = "idle" <=> index = "init"
  /\ index \notin {"init", "wait"} => walker = "done"
  /\ index \in {"send", "close"} => in.listens
  /\ closed \in BOOLEAN
  /\ closed <=> in.listens /\ index = "end"
  /\ caller = "returned" => index = "end"
  /\ caller \in {"await", "returned"} /\ in.listens => closed /\ errorChan = <<>>
  /\ dirChan # <<>> => index \in {"close", "end"}

\* What can be waiting in the walker's hands and in the channels.
Entries == DOMAIN in.tree \cup {<<>>}

Channels ==
  /\ unsent \in Seq(Entries) /\ Len(unsent) <= 1
  /\ errorChan \in Seq(Entries) /\ Len(errorChan) <= ErrorChanSize
  /\ errors \in Seq(Entries)
  /\ dirChan \in Seq(Nat) /\ Len(dirChan) <= DirChanSize
  /\ walker # "walking" => unsent = <<>> /\ todo = {}
  /\ walker = "idle" => errorChan = <<>> /\ errors = <<>>

\* The walk does not skip: while an entry is to come, so is every unreadable directory above.
Walk ==
  /\ IsInput(in)
  /\ todo \subseteq DOMAIN in.tree
  /\ \A p \in todo : \A q \in in.bad : IsStrictPrefix(q, p) => q \in todo

\* The unreadable entries that the walk has passed.
Passed ==
  IF DOMAIN in.tree = {} THEN {<<>>}
  ELSE {p \in in.bad \ (todo \cup in.skip) : \A q \in in.bad : ~IsStrictPrefix(q, p)}

HeldOnce ==
  in.listens /\ walker # "idle" =>
    /\ IsInjective(unsent \o errorChan \o errors)
    /\ Range(unsent \o errorChan \o errors) = Passed

\* The repository and dirMap: a directory of its own for each path.
Tables ==
  /\ {"dirs", "files"} \subseteq DOMAIN repo
  /\ repo.dirs \in Seq(Range(repo.dirs)) /\ repo.files \in Seq(Range(repo.files))
  /\ \A f \in DOMAIN repo.files : /\ repo.files[f].parent \in 1..Len(repo.dirs)
                                  /\ repo.files[f].contents # Dir
  /\ \A text \in DOMAIN dirMap : dirMap[text] \in 1..Len(repo.dirs)
  /\ IsInjective(dirMap)

\* The directory that was indexed has one once the walk begins.
Rooted ==
  /\ root \in 0..Len(repo.dirs) /\ stale \subseteq DOMAIN repo.dirs
  /\ root = NoNode <=> walker = "idle" \/ DOMAIN in.tree = {}

\* What is in the index is what the walk has passed, and the directory itself.
Visited ==
  IF walker = "idle" THEN {} ELSE {p \in Promise!Readable : p \notin todo \/ p = <<>>}

IndexInv == Indexed = Visited

IInv == Control /\ Channels /\ Walk /\ HeldOnce /\ Tables /\ Rooted /\ IndexInv

-----------------------------------------------------------------------------
(* The order of the walk.                                                  *)

\* filepath.Walk takes a directory before what is in it, whatever the order of names.
LEMMA AboveComesFirst ==
  ASSUME NEW p \in Path, NEW q \in Path, IsStrictPrefix(q, p)
  PROVE  ~AddedBefore(p, q)
<1>1. p \in Seq(Name) /\ q \in Seq(Name) /\ IsPrefix(q, p) /\ q # p
  BY DEF Path, IsStrictPrefix
<1>2. /\ Len(q) \in Nat /\ Len(p) \in Nat /\ DOMAIN q = 1..Len(q) /\ Len(q) <= Len(p)
      /\ \A i \in 1..Len(q) : q[i] = p[i] /\ q[i] \in Name
  BY <1>1, LenProperties, PrefixElements, ElementOfSeq
<1>3. ~IsStrictPrefix(p, q)
  BY <1>1, PrefixAntisymmetric DEF IsStrictPrefix
<1>4. \A i \in DOMAIN q : ~(Rank[p[i]] < Rank[q[i]])
  <2> SUFFICES ASSUME NEW i \in DOMAIN q  PROVE ~(Rank[p[i]] < Rank[q[i]])
    OBVIOUS
  <2>1. p[i] = q[i] /\ Rank[q[i]] \in Int
    BY <1>2, RankAssumption
  <2> QED BY <2>1
<1> QED BY <1>3, <1>4 DEF AddedBefore

\* The entries are paths, and above each are directories.
LEMMA InputFacts ==
  ASSUME IsInput(in)
  PROVE  /\ DOMAIN in.tree \subseteq Path /\ in.bad \subseteq DOMAIN in.tree
         /\ \A p \in in.skip : IsFile(in.tree, p)
         /\ \A p \in DOMAIN in.tree : \A q \in Path :
              IsStrictPrefix(q, p) => IsDir(in.tree, q)
         /\ \A p \in DOMAIN in.tree : p # <<>> =>
              IsDir(in.tree, ParentDir(p)) /\ IsStrictPrefix(ParentDir(p), p)
         /\ DOMAIN in.tree # {} => IsDir(in.tree, <<>>)
         /\ in.listens \in BOOLEAN /\ in.root \in Seq(Name)
<1>1. /\ DOMAIN in.tree \subseteq Path /\ in.bad \subseteq DOMAIN in.tree
      /\ in.skip \subseteq Files(in.tree)
      /\ \A p \in DOMAIN in.tree : \A q \in Prefixes(p) \ {p} : IsDir(in.tree, q)
      /\ DOMAIN in.tree # {} => IsDir(in.tree, <<>>)
      /\ in.listens \in BOOLEAN /\ in.root \in Seq(Name)
  BY DEF IsInput, IsTree, InDirs
<1>2. \A p \in in.skip : IsFile(in.tree, p)
  BY <1>1 DEF Files
<1>3. \A p \in DOMAIN in.tree : \A q \in Path :
        IsStrictPrefix(q, p) => IsDir(in.tree, q)
  BY <1>1, PrefixesArePrefixes DEF IsStrictPrefix, Path
<1>4. \A p \in DOMAIN in.tree : p # <<>> =>
        IsDir(in.tree, ParentDir(p)) /\ IsStrictPrefix(ParentDir(p), p)
  BY <1>1, ParentFacts
<1> QED BY <1>1, <1>2, <1>3, <1>4

\* When filepath.Walk comes to an entry it has been to all directories above it, and they
\* could be read.
LEMMA AboveIsDone ==
  ASSUME Walk, NEW p \in todo, \A q \in todo \ {p} : AddedBefore(p, q)
  PROVE  /\ p \in DOMAIN in.tree /\ p \in Path
         /\ \A q \in DOMAIN in.tree :
              IsStrictPrefix(q, p) => q \notin todo /\ q \notin in.bad
<1>1. p \in DOMAIN in.tree /\ DOMAIN in.tree \subseteq Path
  BY InputFacts DEF Walk
<1> SUFFICES ASSUME NEW q \in DOMAIN in.tree, IsStrictPrefix(q, p)
             PROVE  q \notin todo /\ q \notin in.bad
  BY <1>1
<1>2. q \notin todo
  BY <1>1, AboveComesFirst DEF IsStrictPrefix
<1> QED BY <1>2 DEF Walk

-----------------------------------------------------------------------------
(* Sequences of errors.                                                    *)

\* No error is in two sequences, or twice in one.
LEMMA InjectiveConcat ==
  ASSUME NEW S, NEW s \in Seq(S), NEW t \in Seq(S)
  PROVE  IsInjective(s \o t) <=> /\ IsInjective(s) /\ IsInjective(t)
                                 /\ Range(s) \cap Range(t) = {}
<1> DEFINE st == s \o t
           m  == Len(s)
           n  == Len(t)
<1>1. /\ st \in Seq(S) /\ m \in Nat /\ n \in Nat
      /\ DOMAIN s = 1..m /\ DOMAIN t = 1..n /\ DOMAIN st = 1..(m + n)
      /\ \A i \in 1..m : st[i] = s[i]
      /\ \A j \in 1..n : st[m + j] = t[j]
  <2>1. m \in Nat /\ n \in Nat /\ DOMAIN s = 1..m /\ DOMAIN t = 1..n
    BY LenProperties
  <2>2. /\ st \in Seq(S) /\ Len(st) = m + n
        /\ \A i \in 1..(m + n) : st[i] = IF i <= m THEN s[i] ELSE t[i - m]
    BY ConcatProperties
  <2>3. DOMAIN st = 1..(m + n)
    BY <2>2, LenProperties
  <2> HIDE DEF st, m, n
  <2>4. \A j \in 1..n : m + j \in 1..(m + n) /\ ~(m + j <= m) /\ (m + j) - m = j
    BY <2>1
  <2> QED BY <2>1, <2>2, <2>3, <2>4
<1> HIDE DEF st, m, n
<1>2. ASSUME IsInjective(st)
      PROVE  IsInjective(s) /\ IsInjective(t) /\ Range(s) \cap Range(t) = {}
  <2>1. \A a, b \in 1..(m + n) : st[a] = st[b] => a = b
    BY <1>1, <1>2 DEF IsInjective
  <2>2. IsInjective(s)
    BY <1>1, <2>1 DEF IsInjective
  <2>3. IsInjective(t)
    <3> SUFFICES ASSUME NEW a \in 1..n, NEW b \in 1..n, t[a] = t[b]  PROVE a = b
      BY <1>1 DEF IsInjective
    <3>1. m + a \in 1..(m + n) /\ m + b \in 1..(m + n) /\ st[m + a] = st[m + b]
      BY <1>1
    <3> QED BY <1>1, <2>1, <3>1
  <2>4. Range(s) \cap Range(t) = {}
    <3> SUFFICES ASSUME NEW a \in 1..m, NEW b \in 1..n, s[a] = t[b]  PROVE FALSE
      BY <1>1 DEF Range
    <3>1. a \in 1..(m + n) /\ m + b \in 1..(m + n) /\ st[a] = st[m + b]
      BY <1>1
    <3> QED BY <1>1, <2>1, <3>1
  <2> QED BY <2>2, <2>3, <2>4
<1>3. ASSUME IsInjective(s), IsInjective(t), Range(s) \cap Range(t) = {}
      PROVE  IsInjective(st)
  <2> SUFFICES ASSUME NEW a \in 1..(m + n), NEW b \in 1..(m + n), st[a] = st[b]
               PROVE  a = b
    BY <1>1 DEF IsInjective
  <2>1. CASE a <= m /\ b <= m
    BY <1>1, <1>3, <2>1 DEF IsInjective
  <2>2. CASE a > m /\ b > m
    <3>1. a - m \in 1..n /\ b - m \in 1..n /\ a = m + (a - m) /\ b = m + (b - m)
      BY <1>1, <2>2
    <3>2. t[a - m] = t[b - m]
      BY <1>1, <3>1
    <3>3. a - m = b - m
      BY <1>1, <1>3, <3>1, <3>2 DEF IsInjective
    <3> QED BY <3>1, <3>3
  <2>3. CASE a <= m /\ b > m
    <3>1. a \in 1..m /\ b - m \in 1..n /\ b = m + (b - m)
      BY <1>1, <2>3
    <3>2. s[a] = t[b - m]
      BY <1>1, <3>1
    <3> QED BY <1>1, <1>3, <3>1, <3>2 DEF Range
  <2>4. CASE a > m /\ b <= m
    <3>1. b \in 1..m /\ a - m \in 1..n /\ a = m + (a - m)
      BY <1>1, <2>4
    <3>2. s[b] = t[a - m]
      BY <1>1, <3>1
    <3> QED BY <1>1, <1>3, <3>1, <3>2 DEF Range
  <2> QED BY <1>1, <2>1, <2>2, <2>3, <2>4
<1> QED BY <1>2, <1>3 DEF st

\* A sequence of one error.
LEMMA Single ==
  ASSUME NEW S, NEW e \in S
  PROVE  /\ <<e>> \in Seq(S) /\ Len(<<e>>) = 1
         /\ Range(<<e>>) = {e} /\ IsInjective(<<e>>)
         /\ \A s \in Seq(S) : Append(s, e) = s \o <<e>>
<1>1. <<e>> \in Seq(S) /\ Len(<<e>>) = 1 /\ DOMAIN <<e>> = {1} /\ <<e>>[1] = e
  OBVIOUS
<1>2. Range(<<e>>) = {e} /\ IsInjective(<<e>>)
  BY <1>1 DEF Range, IsInjective
<1>3. \A s \in Seq(S) : Append(s, e) = s \o <<e>>
  BY AppendIsConcat
<1> QED BY <1>1, <1>2, <1>3

\* And a sequence of at most one.
LEMMA AtMostOne ==
  ASSUME NEW S, NEW s \in Seq(S), Len(s) <= 1, s # <<>>
  PROVE  Head(s) \in S /\ s = <<Head(s)>> /\ Tail(s) = <<>>
<1>1. Len(s) = 1
  <2>1. Len(s) \in Nat \ {0}
    BY EmptySeq
  <2> QED BY <2>1
<1>2. Head(s) \in S /\ Tail(s) \in Seq(S) /\ Len(Tail(s)) = 0
  BY <1>1, HeadTailProperties
<1>3. Tail(s) = <<>>
  BY <1>2, EmptySeq
<1>4. s[1] = Head(s) /\ <<Head(s)>> \in Seq(S) /\ Len(<<Head(s)>>) = 1 /\ <<Head(s)>>[1] = Head(s)
  BY <1>2
<1>5. s = <<Head(s)>>
  BY <1>1, <1>4, SeqEqual
<1> QED BY <1>2, <1>3, <1>5

-----------------------------------------------------------------------------
(* The repository.                                                         *)

\* A row added at the end of a table, and one changed.
LEMMA RowAdded ==
  ASSUME NEW s, s \in Seq(Range(s)), NEW x
  PROVE  /\ Append(s, x) \in Seq(Range(Append(s, x)))
         /\ Len(s) \in Nat /\ Len(Append(s, x)) = Len(s) + 1
         /\ DOMAIN s = 1..Len(s) /\ DOMAIN Append(s, x) = 1..(Len(s) + 1)
         /\ \A i \in 1..Len(s) : Append(s, x)[i] = s[i]
         /\ Append(s, x)[Len(s) + 1] = x
<1> DEFINE S == Range(s) \cup {x}
<1>1. s \in Seq(S) /\ x \in S
  BY SeqMonotonic
<1> HIDE DEF S
<1>2. /\ Append(s, x) \in Seq(S)
      /\ Len(Append(s, x)) = Len(s) + 1
      /\ \A i \in 1..Len(s) : Append(s, x)[i] = s[i]
      /\ Append(s, x)[Len(s) + 1] = x
  BY <1>1, AppendProperties
<1>3. /\ Len(s) \in Nat /\ DOMAIN s = 1..Len(s)
      /\ DOMAIN Append(s, x) = 1..(Len(s) + 1)
  BY <1>1, <1>2, LenProperties
<1>4. Append(s, x) \in Seq(Range(Append(s, x)))
  BY <1>2, SeqOfRange
<1> QED BY <1>2, <1>3, <1>4

LEMMA RowChanged ==
  ASSUME NEW s, s \in Seq(Range(s)), NEW d \in DOMAIN s, NEW x
  PROVE  /\ [s EXCEPT ![d] = x] \in Seq(Range([s EXCEPT ![d] = x]))
         /\ Len([s EXCEPT ![d] = x]) = Len(s)
<1> DEFINE S == Range(s) \cup {x}
           t == [s EXCEPT ![d] = x]
<1>1. s \in Seq(S) /\ x \in S
  BY SeqMonotonic
<1> HIDE DEF S
<1>2. d \in 1..Len(s)
  BY <1>1, LenProperties
<1>3. t \in Seq(S) /\ Len(t) = Len(s)
  BY <1>1, <1>2, ExceptSeq
<1> QED BY <1>3, SeqOfRange

\* AddDir adds a directory, whichever repository it is.
LEMMA AddDirFacts ==
  ASSUME Tables, NEW parent, NEW name
  PROVE  LET r == AddDir(parent, name)
         IN  /\ {"dirs", "files"} \subseteq DOMAIN r
             /\ r.files = repo.files
             /\ r.dirs \in Seq(Range(r.dirs))
             /\ Len(repo.dirs) \in Nat /\ Len(r.dirs) = Len(repo.dirs) + 1
<1>1. {"dirs", "files"} \subseteq DOMAIN repo /\ repo.dirs \in Seq(Range(repo.dirs))
  BY DEF Tables
<1>2. \E x : LET r == AddDir(parent, name)
             IN  /\ {"dirs", "files"} \subseteq DOMAIN r
                 /\ r.files = repo.files
                 /\ r.dirs = Append(repo.dirs, x)
  BY <1>1 DEF AddDir, MemAddDir, DbAddDir
<1> QED BY <1>1, <1>2, RowAdded

\* AddFile adds a file.
LEMMA AddFileFacts ==
  ASSUME Tables, NEW parent, NEW name, NEW contents
  PROVE  LET r == AddFile(repo, parent, name, contents)
             n == Len(repo.files)
         IN  /\ {"dirs", "files"} \subseteq DOMAIN r
             /\ r.dirs = repo.dirs
             /\ r.files \in Seq(Range(r.files))
             /\ n \in Nat /\ DOMAIN repo.files = 1..n /\ DOMAIN r.files = 1..(n + 1)
             /\ \A f \in 1..n : r.files[f] = repo.files[f]
             /\ r.files[n + 1].parent = parent
             /\ r.files[n + 1].name = name
             /\ r.files[n + 1].contents = contents
             /\ r.files[n + 1].strong = FileStrong(contents)
<1>1. {"dirs", "files"} \subseteq DOMAIN repo /\ repo.files \in Seq(Range(repo.files))
  BY DEF Tables
<1> DEFINE node == [parent |-> parent, name |-> name,
                    strong |-> FileStrong(contents), contents |-> contents]
           r == AddFile(repo, parent, name, contents)
<1>2. /\ {"dirs", "files"} \subseteq DOMAIN r
      /\ r.dirs = repo.dirs
      /\ r.files = Append(repo.files, node)
  BY <1>1 DEF AddFile, MemAddFile, DbAddFile
<1>3. /\ node.parent = parent /\ node.name = name /\ node.contents = contents
      /\ node.strong = FileStrong(contents)
  OBVIOUS
<1> HIDE DEF node, r
<1> QED BY <1>1, <1>2, <1>3, RowAdded DEF r

\* UpdateStrong changes a checksum, and where it is looked up.
LEMMA UpdateFacts ==
  ASSUME Tables, NEW d \in DOMAIN repo.dirs,
         repo' = IF in.repo = "mem" THEN MemRekey(repo, d) ELSE DbUpdateRow(repo, d)
  PROVE  /\ {"dirs", "files"} \subseteq DOMAIN repo'
         /\ repo'.files = repo.files
         /\ repo'.dirs \in Seq(Range(repo'.dirs)) /\ Len(repo'.dirs) = Len(repo.dirs)
<1>1. {"dirs", "files"} \subseteq DOMAIN repo /\ repo.dirs \in Seq(Range(repo.dirs))
  BY DEF Tables
<1>2. /\ {"dirs", "files"} \subseteq DOMAIN repo'
      /\ repo'.files = repo.files
      /\ \/ repo'.dirs = repo.dirs
         \/ \E x : repo'.dirs = [repo.dirs EXCEPT ![d] = x]
  BY <1>1 DEF MemRekey, DbUpdateRow
<1>3. ASSUME NEW x, repo'.dirs = [repo.dirs EXCEPT ![d] = x]
      PROVE  repo'.dirs \in Seq(Range(repo'.dirs)) /\ Len(repo'.dirs) = Len(repo.dirs)
  BY <1>1, <1>3, RowChanged
<1> QED BY <1>1, <1>2, <1>3

\* VisitDir adds its directory to dirMap, if it is not there, as a new one.
LEMMA EnteredFacts ==
  ASSUME Tables, NEW p
  PROVE  LET e == Entered(p)
         IN  /\ {"dirs", "files"} \subseteq DOMAIN e.repo
             /\ e.repo.files = repo.files
             /\ e.repo.dirs \in Seq(Range(e.repo.dirs))
             /\ Len(repo.dirs) \in Nat /\ Len(e.repo.dirs) \in Nat
             /\ Len(repo.dirs) <= Len(e.repo.dirs)
             /\ DOMAIN e.dirMap = DOMAIN dirMap \cup {Text(p)}
             /\ \A text \in DOMAIN e.dirMap :
                  e.dirMap[text] = IF text \in DOMAIN dirMap THEN dirMap[text]
                                   ELSE Len(repo.dirs) + 1
             /\ \A text \in DOMAIN e.dirMap : e.dirMap[text] \in 1..Len(e.repo.dirs)
             /\ IsInjective(e.dirMap)
<1> DEFINE e     == Entered(p)
           text  == Text(p)
           above == ParentDir(text)
           r     == IF above \in DOMAIN dirMap THEN AddDir(dirMap[above], <<Last(text)>>)
                    ELSE AddDir(NoNode, <<>>)
           n     == Len(repo.dirs)
<1>1. /\ {"dirs", "files"} \subseteq DOMAIN repo
      /\ repo.dirs \in Seq(Range(repo.dirs)) /\ n \in Nat
      /\ \A t \in DOMAIN dirMap : dirMap[t] \in 1..n
      /\ IsInjective(dirMap)
  BY LenProperties DEF Tables
<1>2. CASE text \in DOMAIN dirMap
  <2>1. e.repo = repo /\ e.dirMap = dirMap
    BY <1>2 DEF Entered
  <2> HIDE DEF e, text, n
  <2>2. DOMAIN e.dirMap = DOMAIN dirMap \cup {text}
    BY <1>2, <2>1
  <2>3. /\ \A t \in DOMAIN e.dirMap : t \in DOMAIN dirMap /\ e.dirMap[t] = dirMap[t]
        /\ IsInjective(e.dirMap)
    BY <1>1, <2>1
  <2> QED BY <1>1, <2>1, <2>2, <2>3 DEF e, text, n
<1>3. CASE text \notin DOMAIN dirMap
  <2>1. /\ {"dirs", "files"} \subseteq DOMAIN r
        /\ r.files = repo.files
        /\ r.dirs \in Seq(Range(r.dirs))
        /\ Len(r.dirs) = n + 1
    BY AddDirFacts
  <2>2. e.repo = r /\ e.dirMap = Put(dirMap, text, Len(r.dirs))
    BY <1>3 DEF Entered
  <2> HIDE DEF e, r, text, above, n
  <2>3. /\ DOMAIN e.dirMap = DOMAIN dirMap \cup {text}
        /\ \A t \in DOMAIN e.dirMap :
             e.dirMap[t] = IF t \in DOMAIN dirMap THEN dirMap[t] ELSE n + 1
    BY <1>3, <2>1, <2>2 DEF Put
  <2>4. \A t \in DOMAIN e.dirMap : e.dirMap[t] \in 1..(n + 1)
    BY <1>1, <2>3
  <2>5. IsInjective(e.dirMap)
    BY <1>1, <1>3, <2>3 DEF IsInjective
  <2> QED BY <1>1, <2>1, <2>2, <2>3, <2>4, <2>5 DEF e, text, n
<1> QED BY <1>2, <1>3

\* Entries are told apart by the text of their paths.
LEMMA TextInjective ==
  ASSUME IsInput(in), NEW p \in Path, NEW q \in Path, Text(p) = Text(q)
  PROVE  p = q
<1>1. in.root \in Seq(Name) /\ p \in Seq(Name) /\ q \in Seq(Name)
  BY DEF IsInput, Path
<1> QED BY <1>1, ConcatSimplifications DEF Text

-----------------------------------------------------------------------------
(* The invariant is preserved: control and channels.                       *)

\* The steps of the goroutines, one by one.
Step ==
  \/ \E p \in todo : WalkDir(p) \/ WalkDirUnreadable(p)
  \/ \E p \in todo : WalkFile(p) \/ WalkFileUnreadable(p) \/ WalkFileFiltered(p)
  \/ SendError \/ WalkDone
  \/ InitWalk \/ AwaitWalk \/ \E d \in stale : UpdateDir(d)
  \/ IndexReturns \/ SendDir \/ CloseErrors
  \/ RecvError \/ ErrorsEnd \/ RecvDir

LEMMA StepIsNext == Next <=> Step
BY DEF Next, Walker, Index, Caller, Step

\* What no step of the walk changes.
LEMMA VisitFrame ==
  ASSUME NEW p \in todo,
         \/ WalkDir(p) \/ WalkDirUnreadable(p)
         \/ WalkFile(p) \/ WalkFileUnreadable(p) \/ WalkFileFiltered(p)
  PROVE  /\ walker = "walking" /\ unsent = <<>>
         /\ \A q \in todo \ {p} : AddedBefore(p, q)
         /\ UNCHANGED <<in, root, walker, index, stale, caller, chanVars, errors>>
BY DEF WalkDir, WalkDirUnreadable, WalkFile, WalkFileUnreadable, WalkFileFiltered, Visit

\* Control: an action of each goroutine.
LEMMA ControlStep ==
  ASSUME IInv, Step
  PROVE  Control' /\ in' = in
<1> USE DEF Control
<1>1. Control /\ Channels /\ in.listens \in BOOLEAN
  BY InputFacts DEF IInv, Walk
<1>2. CASE \E p \in todo : WalkDir(p) \/ WalkDirUnreadable(p)
  <2>1. /\ walker = "walking" /\ unsent = <<>>
        /\ UNCHANGED <<in, root, walker, index, stale, caller, chanVars, errors>>
    BY <1>2, VisitFrame
  <2> QED BY <1>1, <2>1 DEF chanVars
<1>3. CASE \E p \in todo : WalkFile(p) \/ WalkFileUnreadable(p) \/ WalkFileFiltered(p)
  <2>1. /\ walker = "walking" /\ unsent = <<>>
        /\ UNCHANGED <<in, root, walker, index, stale, caller, chanVars, errors>>
    BY <1>3, VisitFrame
  <2> QED BY <1>1, <2>1 DEF chanVars
<1>4. CASE SendError
  <2>1. walker = "walking"
    BY <1>1, <1>4 DEF SendError, Channels
  <2> QED BY <1>1, <1>4, <2>1 DEF SendError
<1>5. CASE WalkDone
  BY <1>1, <1>5 DEF WalkDone, chanVars
<1>6. CASE InitWalk
  BY <1>1, <1>6 DEF InitWalk, chanVars
<1>7. CASE AwaitWalk
  BY <1>1, <1>7 DEF AwaitWalk, walkVars, chanVars
<1>8. CASE \E d \in stale : UpdateDir(d)
  BY <1>1, <1>8 DEF UpdateDir, walkVars, chanVars
<1>9. CASE IndexReturns
  BY <1>1, <1>9 DEF IndexReturns, walkVars, chanVars
<1>10. CASE SendDir
  BY <1>1, <1>10 DEF SendDir, walkVars
<1>11. CASE CloseErrors
  BY <1>1, <1>11 DEF CloseErrors, walkVars
<1>12. CASE RecvError
  BY <1>1, <1>12 DEF RecvError, walkVars
<1>13. CASE ErrorsEnd
  BY <1>1, <1>13 DEF ErrorsEnd, walkVars, chanVars
<1>14. CASE RecvDir
  <2>1. dirChan' = <<>>
    <3>1. dirChan \in Seq(Nat) /\ Len(dirChan) <= 1 /\ dirChan # <<>>
      BY <1>1, <1>14 DEF RecvDir, Channels, DirChanSize
    <3> QED BY <3>1, <1>14, AtMostOne DEF RecvDir
  <2> QED BY <1>1, <1>14, <2>1 DEF RecvDir, walkVars
<1> QED BY <1>2, <1>3, <1>4, <1>5, <1>6, <1>7, <1>8, <1>9, <1>10, <1>11, <1>12, <1>13, <1>14
    DEF Step

\* Channels: they hold what fits in them, and nothing before the walk or after it.
LEMMA ChannelsStep ==
  ASSUME IInv, Step
  PROVE  Channels'
<1>1. Control /\ Channels /\ Walk /\ in' = in /\ Entries' = Entries /\ root \in Nat
  <2>1. root \in Nat
    BY LenProperties DEF IInv, Tables, Rooted
  <2> QED BY <2>1, ControlStep DEF IInv, Entries
<1> DEFINE Short == {s \in Seq(Entries) : Len(s) <= 1}
<1>2. \A p \in todo : <<p>> \in Short
  <2> SUFFICES ASSUME NEW p \in todo  PROVE <<p>> \in Short
    OBVIOUS
  <2>1. p \in Entries
    BY <1>1 DEF Walk, Entries
  <2>2. <<p>> \in Seq(Entries) /\ Len(<<p>>) = 1
    BY <2>1, Single
  <2> QED BY <2>2
<1>3. <<>> \in Short /\ <<<<>>>> \in Short
  <2>1. <<>> \in Entries
    BY DEF Entries
  <2>2. <<<<>>>> \in Seq(Entries) /\ Len(<<<<>>>>) = 1
    BY <2>1, Single
  <2>3. <<>> \in Seq(Entries) /\ Len(<<>>) = 0
    BY EmptySeq
  <2> QED BY <2>2, <2>3
<1>4. CASE \E p \in todo : WalkDir(p) \/ WalkDirUnreadable(p)
  <2> PICK p \in todo : WalkDir(p) \/ WalkDirUnreadable(p)
    BY <1>4
  <2>1. /\ walker = "walking" /\ unsent = <<>>
        /\ UNCHANGED <<in, root, walker, index, stale, caller, chanVars, errors>>
    BY VisitFrame
  <2>2. unsent' \in {<<>>, <<p>>}
    BY <2>1 DEF WalkDir, WalkDirUnreadable, Fails
  <2>3. unsent' \in Short
    BY <1>2, <1>3, <2>2, Zenon
  <2> QED BY <1>1, <2>1, <2>3 DEF Channels, chanVars
<1>5. CASE \E p \in todo : WalkFile(p) \/ WalkFileUnreadable(p) \/ WalkFileFiltered(p)
  <2> PICK p \in todo : WalkFile(p) \/ WalkFileUnreadable(p) \/ WalkFileFiltered(p)
    BY <1>5
  <2>1. /\ walker = "walking" /\ unsent = <<>>
        /\ UNCHANGED <<in, root, walker, index, stale, caller, chanVars, errors>>
    BY VisitFrame
  <2>2. unsent' \in {<<>>, <<p>>}
    BY <2>1 DEF WalkFile, WalkFileUnreadable, WalkFileFiltered, Fails
  <2>3. unsent' \in Short
    BY <1>2, <1>3, <2>2, Zenon
  <2> QED BY <1>1, <2>1, <2>3 DEF Channels, chanVars
<1>6. CASE SendError
  <2>1. errorChan = <<>>
    BY <1>1, <1>6, EmptySeq DEF SendError, Channels, ErrorChanSize
  <2>2. errorChan' = unsent
    BY <1>1, <1>6, <2>1, ConcatEmptySeq DEF SendError, Channels
  <2> QED BY <1>1, <1>3, <1>6, <2>2 DEF SendError, Channels, ErrorChanSize
<1>7. CASE InitWalk
  <2>1. unsent' \in {<<>>, <<<<>>>>}
    BY <1>1, <1>7 DEF InitWalk, Fails, Channels, Control
  <2>2. unsent' \in Short
    BY <1>3, <2>1, Zenon
  <2> QED BY <1>1, <1>7, <2>2 DEF InitWalk, Channels, chanVars
<1>8. CASE WalkDone \/ AwaitWalk \/ (\E d \in stale : UpdateDir(d)) \/ IndexReturns
           \/ CloseErrors \/ ErrorsEnd
  BY <1>1, <1>8 DEF WalkDone, AwaitWalk, UpdateDir, IndexReturns, CloseErrors, ErrorsEnd,
     Channels, walkVars, chanVars
<1>9. CASE SendDir
  <2>1. dirChan = <<>>
    BY <1>1, <1>9, EmptySeq DEF SendDir, Channels, DirChanSize
  <2>2. dirChan' \in Seq(Nat) /\ Len(dirChan') = 1
    BY <1>1, <1>9, <2>1, AppendProperties DEF SendDir, Channels
  <2> QED BY <1>1, <1>9, <2>2 DEF SendDir, Channels, walkVars, DirChanSize
<1>10. CASE RecvError
  <2>1. Head(errorChan) \in Entries /\ Tail(errorChan) = <<>>
    BY <1>1, <1>10, AtMostOne DEF RecvError, Channels, ErrorChanSize
  <2>2. errors' \in Seq(Entries)
    BY <1>1, <1>10, <2>1, AppendProperties DEF RecvError, Channels
  <2>3. walker # "idle"
    BY <1>1, <1>10 DEF RecvError, Channels
  <2> QED BY <1>1, <1>3, <1>10, <2>1, <2>2, <2>3
      DEF RecvError, Channels, walkVars, ErrorChanSize
<1>11. CASE RecvDir
  <2>1. dirChan' = <<>>
    BY <1>1, <1>11, AtMostOne DEF RecvDir, Channels, DirChanSize
  <2> QED BY <1>1, <1>11, <2>1 DEF RecvDir, Channels, walkVars, DirChanSize
<1> QED BY <1>4, <1>5, <1>6, <1>7, <1>8, <1>9, <1>10, <1>11 DEF Step

-----------------------------------------------------------------------------
(* The walk and its errors.                                                *)

\* Walk: the walk leaves out what is below an unreadable directory, and nothing else.
LEMMA WalkStep ==
  ASSUME IInv, Step
  PROVE  Walk'
<1>1. Walk /\ in' = in
  BY ControlStep DEF IInv
<1>2. CASE \E p \in todo : WalkDir(p) \/ WalkFile(p) \/ WalkFileUnreadable(p) \/ WalkFileFiltered(p)
  <2> PICK p \in todo : WalkDir(p) \/ WalkFile(p) \/ WalkFileUnreadable(p) \/ WalkFileFiltered(p)
    BY <1>2
  <2>1. todo' = todo \ {p} /\ (p \in in.bad => IsFile(in.tree, p))
    BY <1>1, InputFacts
       DEF Walk, WalkDir, WalkFile, WalkFileUnreadable, WalkFileFiltered, Visit
  <2>2. \A r \in todo : ~(p \in in.bad /\ IsStrictPrefix(p, r))
    BY <1>1, <2>1, InputFacts DEF Walk, IsDir, IsFile
  <2> QED BY <1>1, <2>1, <2>2 DEF Walk
<1>3. CASE \E p \in todo : WalkDirUnreadable(p)
  <2> PICK p \in todo : WalkDirUnreadable(p)
    BY <1>3
  <2>1. todo' = todo \ Under(in.tree, p)
    BY DEF WalkDirUnreadable, Visit
  <2> SUFFICES ASSUME NEW r \in todo', NEW q \in in.bad, IsStrictPrefix(q, r)
               PROVE  q \in todo'
    BY <1>1, <2>1 DEF Walk
  <2>2. q \in todo /\ r \in todo
    BY <1>1, <2>1 DEF Walk
  <2>3. p \in Path /\ q \in Path /\ r \in Path /\ r \in DOMAIN in.tree
    BY <1>1, <2>2, InputFacts DEF Walk
  <2>4. ~IsPrefix(p, q)
    BY <2>1, <2>3, PrefixTransitive DEF Under, IsStrictPrefix, Path
  <2> QED BY <2>1, <2>2, <2>4 DEF Under
<1>4. CASE InitWalk
  <2>1. todo' = DOMAIN in.tree
    BY <1>4 DEF InitWalk
  <2>2. in.bad \subseteq DOMAIN in.tree
    BY <1>1, InputFacts DEF Walk
  <2> QED BY <1>1, <2>1, <2>2 DEF Walk
<1>5. CASE todo' = todo
  BY <1>1, <1>5 DEF Walk
<1>6. CASE \/ SendError \/ WalkDone \/ AwaitWalk \/ \E d \in stale : UpdateDir(d)
           \/ IndexReturns \/ SendDir \/ CloseErrors \/ RecvError \/ ErrorsEnd \/ RecvDir
  BY <1>5, <1>6 DEF SendError, WalkDone, AwaitWalk, UpdateDir, IndexReturns, SendDir, CloseErrors,
     RecvError, ErrorsEnd, RecvDir, walkVars
<1> QED BY <1>2, <1>3, <1>4, <1>6 DEF Step

\* Three sequences after each other.
LEMMA HeldFacts ==
  ASSUME NEW S, NEW u \in Seq(S), NEW c \in Seq(S), NEW e \in Seq(S)
  PROVE  /\ Range(u \o c \o e) = Range(u) \cup Range(c) \cup Range(e)
         /\ IsInjective(u \o c \o e) <=>
              /\ IsInjective(u) /\ IsInjective(c) /\ IsInjective(e)
              /\ Range(u) \cap Range(c) = {} /\ Range(u) \cap Range(e) = {}
              /\ Range(c) \cap Range(e) = {}
<1>1. u \o c \in Seq(S) /\ Range(u \o c) = Range(u) \cup Range(c)
  BY ConcatProperties, RangeConcatenation
<1> DEFINE uc == u \o c
<1>2. uc \in Seq(S) /\ Range(uc) = Range(u) \cup Range(c)
  BY <1>1
<1>3. IsInjective(uc) <=> IsInjective(u) /\ IsInjective(c) /\ Range(u) \cap Range(c) = {}
  BY InjectiveConcat
<1> HIDE DEF uc
<1>4. Range(uc \o e) = Range(uc) \cup Range(e)
  BY <1>2, RangeConcatenation
<1>5. IsInjective(uc \o e) <=>
        IsInjective(uc) /\ IsInjective(e) /\ Range(uc) \cap Range(e) = {}
  BY <1>2, InjectiveConcat
<1>6. Range(uc \o e) = Range(u) \cup Range(c) \cup Range(e)
  BY <1>2, <1>4
<1>7. Range(uc) \cap Range(e) = {} <=>
        Range(u) \cap Range(e) = {} /\ Range(c) \cap Range(e) = {}
  BY <1>2
<1> QED BY <1>3, <1>5, <1>6, <1>7 DEF uc

\* The next error that the walk finds.
LEMMA PassedGrows ==
  ASSUME IInv, NEW p \in todo, \A q \in todo \ {p} : AddedBefore(p, q),
         in' = in, p \notin todo',
         \/ p \in in.bad \ in.skip /\ \A q \in todo \ todo' : q = p \/ IsStrictPrefix(p, q)
         \/ p \notin in.bad \ in.skip /\ todo' = todo \ {p},
         todo' \subseteq todo
  PROVE  /\ p \notin Passed
         /\ Passed' = IF p \in in.bad \ in.skip THEN Passed \cup {p} ELSE Passed
<1>1. /\ p \in DOMAIN in.tree
      /\ \A q \in in.bad : ~IsStrictPrefix(q, p)
  BY AboveIsDone, InputFacts DEF IInv, Walk
<1>2. p \notin Passed
  BY <1>1 DEF Passed
<1>3. CASE p \in in.bad \ in.skip
  BY <1>1, <1>3 DEF Passed
<1>4. CASE p \notin in.bad \ in.skip
  BY <1>1, <1>4 DEF Passed
<1> QED BY <1>2, <1>3, <1>4

\* An error that the walker is going to send.
LEMMA HeldGrows ==
  ASSUME IInv, NEW p \in todo, unsent = <<>>, in.listens => walker # "idle",
         UNCHANGED <<in, walker, errorChan, errors>>,
         \/ Passed' = Passed /\ unsent' = <<>>
         \/ p \notin Passed /\ Passed' = Passed \cup {p} /\ (in.listens => unsent' = <<p>>)
  PROVE  HeldOnce'
<1>1. CASE Passed' = Passed /\ unsent' = <<>>
  BY <1>1 DEF IInv, HeldOnce
<1>2. CASE p \notin Passed /\ Passed' = Passed \cup {p} /\ (in.listens => unsent' = <<p>>)
  <2> SUFFICES ASSUME in.listens
               PROVE  /\ IsInjective(<<p>> \o errorChan \o errors)
                      /\ Range(<<p>> \o errorChan \o errors) = Passed \cup {p}
    BY <1>2 DEF HeldOnce
  <2>1. p \in Entries /\ <<>> \in Seq(Entries) /\ errorChan \in Seq(Entries) /\ errors \in Seq(Entries)
    BY EmptySeq DEF IInv, Walk, Channels, Entries
  <2>2. <<p>> \in Seq(Entries) /\ Range(<<p>>) = {p} /\ IsInjective(<<p>>)
    BY <2>1, Single
  <2>3. /\ IsInjective(<<>> \o errorChan \o errors)
        /\ Range(<<>> \o errorChan \o errors) = Passed
    BY DEF IInv, HeldOnce
  <2>4. /\ IsInjective(errorChan) /\ IsInjective(errors)
        /\ Range(errorChan) \cap Range(errors) = {}
        /\ Range(errorChan) \cup Range(errors) = Passed
    <3>1. <<>> \o errorChan = errorChan
      BY <2>1, ConcatEmptySeq
    <3>2. IsInjective(errorChan \o errors) /\ Range(errorChan \o errors) = Passed
      BY <2>3, <3>1
    <3>3. Range(errorChan \o errors) = Range(errorChan) \cup Range(errors)
      BY <2>1, RangeConcatenation
    <3>4. /\ IsInjective(errorChan) /\ IsInjective(errors)
          /\ Range(errorChan) \cap Range(errors) = {}
      BY <2>1, <3>2, InjectiveConcat
    <3> QED BY <3>2, <3>3, <3>4
  <2> DEFINE held == <<p>> \o errorChan \o errors
  <2>5. /\ Range(held) = {p} \cup Range(errorChan) \cup Range(errors)
        /\ IsInjective(held) <=>
             /\ IsInjective(<<p>>) /\ IsInjective(errorChan) /\ IsInjective(errors)
             /\ {p} \cap Range(errorChan) = {} /\ {p} \cap Range(errors) = {}
             /\ Range(errorChan) \cap Range(errors) = {}
    <3> DEFINE one == <<p>>
    <3>1. one \in Seq(Entries) /\ Range(one) = {p}
      BY <2>2
    <3> HIDE DEF one
    <3>2. /\ Range(one \o errorChan \o errors) = Range(one) \cup Range(errorChan) \cup Range(errors)
          /\ IsInjective(one \o errorChan \o errors) <=>
               /\ IsInjective(one) /\ IsInjective(errorChan) /\ IsInjective(errors)
               /\ Range(one) \cap Range(errorChan) = {} /\ Range(one) \cap Range(errors) = {}
               /\ Range(errorChan) \cap Range(errors) = {}
      BY <2>1, <3>1, HeldFacts
    <3>3. QED BY <3>1, <3>2, Zenon DEF one
  <2> HIDE DEF held
  <2>6. IsInjective(held) /\ Range(held) = Passed \cup {p}
    BY <1>2, <2>2, <2>4, <2>5
  <2> QED BY <2>6 DEF held
<1> QED BY <1>1, <1>2

\* HeldOnce: an error goes from hand to hand, and is not lost on the way.
LEMMA HeldStep ==
  ASSUME IInv, Step
  PROVE  HeldOnce'
<1>1. /\ Control /\ Channels /\ Walk /\ HeldOnce /\ in' = in
      /\ errorChan \in Seq(Entries) /\ errors \in Seq(Entries) /\ unsent \in Seq(Entries)
  BY ControlStep DEF IInv, Channels
<1>2. CASE \E p \in todo : WalkDir(p) \/ WalkDirUnreadable(p)
                           \/ WalkFile(p) \/ WalkFileUnreadable(p) \/ WalkFileFiltered(p)
  <2> PICK p \in todo : WalkDir(p) \/ WalkDirUnreadable(p)
                        \/ WalkFile(p) \/ WalkFileUnreadable(p) \/ WalkFileFiltered(p)
    BY <1>2
  <2>1. /\ walker = "walking" /\ unsent = <<>>
        /\ \A q \in todo \ {p} : AddedBefore(p, q)
        /\ UNCHANGED <<in, walker, errorChan, errors>>
    BY VisitFrame DEF chanVars
  <2>2. p \in DOMAIN in.tree /\ p \in Path
    BY <1>1, InputFacts DEF Walk
  <2>3. CASE p \in in.bad \ in.skip
    <3>1. unsent' = (IF in.listens THEN <<p>> ELSE <<>>)
      BY <2>3 DEF WalkDir, WalkDirUnreadable, WalkFile, WalkFileUnreadable, WalkFileFiltered, Fails
    <3>2. \/ todo' = todo \ {p}
          \/ todo' = todo \ Under(in.tree, p)
      BY DEF WalkDir, WalkDirUnreadable, WalkFile, WalkFileUnreadable, WalkFileFiltered, Visit
    <3>3. p \in Under(in.tree, p)
      BY <2>2, PrefixReflexive DEF Under, Path
    <3>4. \A q \in todo \ todo' : q = p \/ IsStrictPrefix(p, q)
      BY <3>2 DEF Under, IsStrictPrefix
    <3>5. p \notin todo' /\ todo' \subseteq todo
      BY <3>2, <3>3
    <3>6. p \notin Passed /\ Passed' = Passed \cup {p}
      BY <2>1, <2>3, <3>4, <3>5, PassedGrows
    <3> QED BY <2>1, <3>1, <3>6, HeldGrows
  <2>4. CASE p \notin in.bad \ in.skip
    <3>1. unsent' = <<>> /\ todo' = todo \ {p}
      BY <1>1, <2>1, <2>4, InputFacts
         DEF WalkDir, WalkDirUnreadable, WalkFile, WalkFileUnreadable, WalkFileFiltered, Visit,
             Walk, IsDir, IsFile
    <3>2. Passed' = Passed
      BY <2>1, <2>4, <3>1, PassedGrows
    <3> QED BY <2>1, <3>1, <3>2, HeldGrows
  <2> QED BY <2>3, <2>4
<1>3. CASE InitWalk
  <2> SUFFICES ASSUME in.listens  PROVE HeldOnce'
    BY <1>1 DEF HeldOnce
  <2>1. errorChan' = <<>> /\ errors' = <<>> /\ todo' = DOMAIN in.tree /\ unsent = <<>>
    BY <1>1, <1>3 DEF InitWalk, Control, Channels, chanVars
  <2>2. <<>> \in Entries
    BY DEF Entries
  <2>3. CASE DOMAIN in.tree = {}
    <3>1. unsent' = <<<<>>>> /\ Passed' = {<<>>}
      BY <1>1, <1>3, <2>3 DEF InitWalk, Fails, Passed
    <3> DEFINE one == <<<<>>>>
    <3>2. one \in Seq(Entries) /\ Range(one) = {<<>>} /\ IsInjective(one)
      BY <2>2, Single
    <3> HIDE DEF one
    <3>3. one \o <<>> \o <<>> = one
      BY <3>2, ConcatEmptySeq
    <3> QED BY <2>1, <3>1, <3>2, <3>3 DEF HeldOnce, one
  <2>4. CASE DOMAIN in.tree # {}
    <3>1. unsent' = <<>> /\ Passed' = {}
      BY <1>1, <1>3, <2>1, <2>4, InputFacts DEF InitWalk, Passed, Walk
    <3>2. <<>> \o <<>> \o <<>> = <<>> /\ Range(<<>>) = {} /\ IsInjective(<<>>)
      <4>1. <<>> \in Seq({}) /\ <<>> \o <<>> = <<>>
        BY EmptySeq, ConcatEmptySeq
      <4> QED BY <4>1 DEF Range, IsInjective
    <3> QED BY <2>1, <3>1, <3>2 DEF HeldOnce
  <2> QED BY <2>3, <2>4
<1>4. CASE SendError
  <2>1. errorChan = <<>> /\ unsent' = <<>>
    BY <1>1, <1>4, EmptySeq DEF SendError, Channels, ErrorChanSize
  <2>2. errorChan' = unsent
    BY <1>1, <1>4, <2>1, ConcatEmptySeq DEF SendError
  <2>3. unsent' \o errorChan' = unsent \o errorChan
    BY <1>1, <2>1, <2>2, ConcatEmptySeq
  <2>4. Passed' = Passed /\ UNCHANGED <<in, walker, errors>>
    BY <1>4 DEF SendError, Passed
  <2> QED BY <1>1, <2>3, <2>4 DEF HeldOnce
<1>5. CASE RecvError
  <2>1. Passed' = Passed /\ UNCHANGED <<in, walker, unsent>>
    BY <1>5 DEF RecvError, Passed, walkVars
  <2> DEFINE e   == Head(errorChan)
             one == <<e>>
  <2>2. e \in Entries /\ errorChan = one /\ errorChan' = <<>> /\ errors' = Append(errors, e)
    BY <1>1, <1>5, AtMostOne DEF RecvError, Channels, ErrorChanSize
  <2>3. one \in Seq(Entries) /\ Append(errors, e) = errors \o one
    BY <1>1, <2>2, Single
  <2> HIDE DEF e, one
  <2>4. unsent \o errorChan' = unsent /\ errors' = errors \o one /\ errors' \in Seq(Entries)
    BY <1>1, <2>2, <2>3, ConcatEmptySeq, ConcatProperties
  <2>5. /\ Range(errors') = Range(errors) \cup Range(one)
        /\ IsInjective(errors') <=> /\ IsInjective(errors) /\ IsInjective(one)
                                    /\ Range(errors) \cap Range(one) = {}
    BY <1>1, <2>3, <2>4, InjectiveConcat, RangeConcatenation
  <2>6. /\ Range(unsent \o errors') = Range(unsent) \cup Range(errors')
        /\ IsInjective(unsent \o errors') <=> /\ IsInjective(unsent) /\ IsInjective(errors')
                                              /\ Range(unsent) \cap Range(errors') = {}
    <3> DEFINE t == errors'
    <3>1. unsent \in Seq(Entries) /\ t \in Seq(Entries)
      BY <1>1, <2>4
    <3> HIDE DEF t
    <3>2. /\ Range(unsent \o t) = Range(unsent) \cup Range(t)
          /\ IsInjective(unsent \o t) <=> /\ IsInjective(unsent) /\ IsInjective(t)
                                          /\ Range(unsent) \cap Range(t) = {}
      BY <3>1, InjectiveConcat, RangeConcatenation
    <3> QED BY <3>2 DEF t
  <2>7. /\ Range(unsent \o one \o errors) = Range(unsent) \cup Range(one) \cup Range(errors)
        /\ IsInjective(unsent \o one \o errors) <=>
             /\ IsInjective(unsent) /\ IsInjective(one) /\ IsInjective(errors)
             /\ Range(unsent) \cap Range(one) = {} /\ Range(unsent) \cap Range(errors) = {}
             /\ Range(one) \cap Range(errors) = {}
    BY <1>1, <2>3, HeldFacts
  <2> DEFINE new == unsent \o errors'
             old == unsent \o one \o errors
  <2>8. Range(new) = Range(old) /\ (IsInjective(new) <=> IsInjective(old))
    <3> HIDE DEF new, old
    <3>1. /\ Range(new) = Range(unsent) \cup (Range(errors) \cup Range(one))
          /\ IsInjective(new) <=> /\ IsInjective(unsent)
                                  /\ IsInjective(errors) /\ IsInjective(one)
                                  /\ Range(errors) \cap Range(one) = {}
                                  /\ Range(unsent) \cap (Range(errors) \cup Range(one)) = {}
      BY <2>5, <2>6 DEF new
    <3>2. /\ Range(old) = Range(unsent) \cup Range(one) \cup Range(errors)
          /\ IsInjective(old) <=>
               /\ IsInjective(unsent) /\ IsInjective(one) /\ IsInjective(errors)
               /\ Range(unsent) \cap Range(one) = {} /\ Range(unsent) \cap Range(errors) = {}
               /\ Range(one) \cap Range(errors) = {}
      BY <2>7 DEF old
    <3> QED BY <3>1, <3>2
  <2>9. unsent' \o errorChan' \o errors' = new /\ unsent \o errorChan \o errors = old
    BY <2>1, <2>2, <2>4
  <2> QED BY <1>1, <2>1, <2>8, <2>9 DEF HeldOnce
<1>6. CASE \/ WalkDone \/ AwaitWalk \/ \E d \in stale : UpdateDir(d)
           \/ IndexReturns \/ SendDir \/ CloseErrors \/ ErrorsEnd \/ RecvDir
  <2>1. /\ UNCHANGED <<in, todo, unsent, errorChan, errors>>
        /\ walker' # "idle" => walker # "idle"
    BY <1>6 DEF WalkDone, AwaitWalk, UpdateDir, IndexReturns, SendDir, CloseErrors, ErrorsEnd,
       RecvDir, walkVars, chanVars
  <2>2. Passed' = Passed
    BY <2>1 DEF Passed
  <2> QED BY <1>1, <2>1, <2>2 DEF HeldOnce
<1> QED BY <1>2, <1>3, <1>4, <1>5, <1>6 DEF Step

-----------------------------------------------------------------------------
(* What is in the index.                                                   *)

\* The node f is that of the entry p.
NodeOf(f, p) ==
  /\ Text(ParentDir(p)) \in DOMAIN dirMap
  /\ repo.files[f].parent = dirMap[Text(ParentDir(p))]
  /\ repo.files[f].name = <<Last(p)>> /\ repo.files[f].contents = in.tree[p]

LEMMA IndexedFacts ==
  /\ Indexed \subseteq DOMAIN in.tree
  /\ \A p \in DOMAIN in.tree :
       p \in Indexed <=> \/ IsDir(in.tree, p) /\ Text(p) \in DOMAIN dirMap
                         \/ \E f \in DOMAIN repo.files : NodeOf(f, p)
BY DEF Indexed, NodeOf

\* A directory that is entered leaves the files where they are.
LEMMA EnterKeepsNodes ==
  ASSUME Tables, NEW p, in' = in, repo' = Entered(p).repo, dirMap' = Entered(p).dirMap,
         NEW f \in DOMAIN repo.files, NEW q
  PROVE  NodeOf(f, q)' <=> NodeOf(f, q)
<1> DEFINE text == Text(ParentDir(q))
<1>1. /\ repo'.files = repo.files /\ Len(repo.dirs) \in Nat
      /\ DOMAIN dirMap' = DOMAIN dirMap \cup {Text(p)}
      /\ \A u \in DOMAIN dirMap' :
           dirMap'[u] = IF u \in DOMAIN dirMap THEN dirMap[u] ELSE Len(repo.dirs) + 1
  BY EnteredFacts
<1>2. /\ text' = text /\ repo.files[f].parent \in 1..Len(repo.dirs)
      /\ text \in DOMAIN dirMap => dirMap'[text] = dirMap[text] /\ text \in DOMAIN dirMap'
      /\ text \in DOMAIN dirMap' /\ text \notin DOMAIN dirMap
           => dirMap'[text] = Len(repo.dirs) + 1
  BY <1>1 DEF Text, Tables
<1> HIDE DEF text
<1>3. text \in DOMAIN dirMap' /\ repo.files[f].parent = dirMap'[text]
        <=> text \in DOMAIN dirMap /\ repo.files[f].parent = dirMap[text]
  BY <1>1, <1>2
<1> QED BY <1>1, <1>2, <1>3 DEF NodeOf, text

\* A directory that is entered is in the index, and nothing else changes.
LEMMA EnterIndexes ==
  ASSUME Tables, IsInput(in), NEW p \in DOMAIN in.tree, IsDir(in.tree, p),
         in' = in, repo' = Entered(p).repo, dirMap' = Entered(p).dirMap
  PROVE  Tables' /\ Indexed' = Indexed \cup {p} /\ Len(repo.dirs) <= Len(repo'.dirs)
<1>1. /\ {"dirs", "files"} \subseteq DOMAIN repo' /\ repo'.files = repo.files
      /\ repo'.dirs \in Seq(Range(repo'.dirs))
      /\ Len(repo.dirs) \in Nat /\ Len(repo'.dirs) \in Nat /\ Len(repo.dirs) <= Len(repo'.dirs)
      /\ DOMAIN dirMap' = DOMAIN dirMap \cup {Text(p)}
      /\ \A text \in DOMAIN dirMap' :
           dirMap'[text] = IF text \in DOMAIN dirMap THEN dirMap[text] ELSE Len(repo.dirs) + 1
      /\ \A text \in DOMAIN dirMap' : dirMap'[text] \in 1..Len(repo'.dirs)
      /\ IsInjective(dirMap')
  BY EnteredFacts
<1>2. Tables'
  BY <1>1 DEF Tables
<1>3. \A q \in DOMAIN in.tree : Text(q) \in DOMAIN dirMap' <=> Text(q) \in DOMAIN dirMap \/ q = p
  BY <1>1, InputFacts, TextInjective
<1>4. \A q \in DOMAIN in.tree : Text(q)' = Text(q)
  BY DEF Text
<1>5. \A f \in DOMAIN repo.files : \A q \in DOMAIN in.tree : NodeOf(f, q)' <=> NodeOf(f, q)
  BY EnterKeepsNodes
<1>6. ASSUME NEW q \in DOMAIN in.tree
      PROVE  q \in Indexed' <=> q \in Indexed \/ q = p
  <2>1. q \in Indexed' <=> \/ IsDir(in.tree, q) /\ Text(q)' \in DOMAIN dirMap'
                           \/ \E f \in DOMAIN repo'.files : NodeOf(f, q)'
    BY DEF Indexed, NodeOf
  <2> QED BY <1>1, <1>3, <1>4, <1>5, <2>1, IndexedFacts
<1>7. Indexed \subseteq DOMAIN in.tree /\ Indexed' \subseteq DOMAIN in.tree
  BY DEF Indexed
<1> QED BY <1>1, <1>2, <1>6, <1>7

\* A file that is added to its directory is in the index, and nothing else changes.
LEMMA AddIndexes ==
  ASSUME Tables, IsInput(in), NEW p \in DOMAIN in.tree, IsFile(in.tree, p),
         Text(ParentDir(p)) \in DOMAIN dirMap, in' = in, dirMap' = dirMap,
         repo' = AddFile(repo, dirMap[Text(ParentDir(p))], <<Last(p)>>, in.tree[p])
  PROVE  Tables' /\ Indexed' = Indexed \cup {p} /\ Len(repo'.dirs) = Len(repo.dirs)
<1> DEFINE n    == Len(repo.files)
           text == Text(ParentDir(p))
<1>1. /\ {"dirs", "files"} \subseteq DOMAIN repo' /\ repo'.dirs = repo.dirs
      /\ repo'.files \in Seq(Range(repo'.files))
      /\ n \in Nat /\ DOMAIN repo.files = 1..n /\ DOMAIN repo'.files = 1..(n + 1)
      /\ \A f \in 1..n : repo'.files[f] = repo.files[f]
      /\ repo'.files[n + 1].parent = dirMap[text]
      /\ repo'.files[n + 1].name = <<Last(p)>>
      /\ repo'.files[n + 1].contents = in.tree[p]
  BY AddFileFacts
<1>2. dirMap[text] \in 1..Len(repo.dirs) /\ in.tree[p] # Dir
  BY DEF Tables, IsFile
<1>3. \A f \in 1..(n + 1) : /\ repo'.files[f].parent \in 1..Len(repo.dirs)
                            /\ repo'.files[f].contents # Dir
  <2> SUFFICES ASSUME NEW f \in 1..(n + 1)
               PROVE  /\ repo'.files[f].parent \in 1..Len(repo.dirs)
                      /\ repo'.files[f].contents # Dir
    OBVIOUS
  <2>1. CASE f \in 1..n
    BY <1>1, <2>1 DEF Tables
  <2>2. CASE f = n + 1
    BY <1>1, <1>2, <2>2
  <2> HIDE DEF n
  <2> QED BY <1>1, <2>1, <2>2
<1>4. Tables'
  BY <1>1, <1>3 DEF Tables
<1> HIDE DEF n
<1>5. ASSUME NEW f \in 1..n, NEW q \in DOMAIN in.tree
      PROVE  NodeOf(f, q)' <=> NodeOf(f, q)
  BY <1>1 DEF NodeOf, Text
<1>6. ASSUME NEW q \in DOMAIN in.tree, NEW m \in {n + 1}
      PROVE  NodeOf(m, q)' <=> q = p
  <2>1. /\ repo'.files[m].parent = dirMap[text] /\ repo'.files[m].name = <<Last(p)>>
        /\ repo'.files[m].contents = in.tree[p]
    BY <1>1
  <2>2. NodeOf(m, q)' <=> /\ Text(ParentDir(q)) \in DOMAIN dirMap
                          /\ repo'.files[m].parent = dirMap[Text(ParentDir(q))]
                          /\ repo'.files[m].name = <<Last(q)>>
                          /\ repo'.files[m].contents = in.tree[q]
    BY DEF NodeOf, Text
  <2>3. q = p => NodeOf(m, q)'
    BY <2>1, <2>2
  <2>4. ASSUME NodeOf(m, q)'  PROVE q = p
    <3>1. /\ Text(ParentDir(q)) \in DOMAIN dirMap /\ dirMap[text] = dirMap[Text(ParentDir(q))]
          /\ <<Last(p)>> = <<Last(q)>> /\ in.tree[p] = in.tree[q]
      BY <2>1, <2>2, <2>4
    <3>2. text = Text(ParentDir(q))
      BY <3>1 DEF Tables, IsInjective
    <3>3. /\ p \in Path /\ q \in Path /\ IsDir(in.tree, <<>>)
          /\ ParentDir(p) \in Path /\ ParentDir(q) \in Path
      BY InputFacts, PrefixPath
    <3>4. ParentDir(p) = ParentDir(q)
      BY <3>2, <3>3, TextInjective
    <3>5. p # <<>> /\ q # <<>>
      BY <3>1, <3>3 DEF IsDir, IsFile
    <3>6. Last(p) = Last(q)
      BY <3>1
    <3> QED BY <3>3, <3>4, <3>5, <3>6, SameParentSameName
  <2> QED BY <2>3, <2>4
<1>7. ASSUME NEW q \in DOMAIN in.tree
      PROVE  q \in Indexed' <=> q \in Indexed \/ q = p
  <2>1. q \in Indexed' <=> \/ IsDir(in.tree, q) /\ Text(q) \in DOMAIN dirMap
                           \/ \E f \in 1..(n + 1) : NodeOf(f, q)'
    BY <1>1 DEF Indexed, NodeOf, Text
  <2>2. (\E f \in 1..(n + 1) : NodeOf(f, q)')
          <=> \/ \E f \in 1..n : NodeOf(f, q)'
              \/ \E f \in {n + 1} : NodeOf(f, q)'
    <3>1. 1..(n + 1) = (1..n) \cup {n + 1}
      BY <1>1
    <3> QED BY <3>1, Zenon
  <2> QED BY <1>1, <1>5, <1>6, <2>1, <2>2, IndexedFacts
<1>8. Indexed \subseteq DOMAIN in.tree /\ Indexed' \subseteq DOMAIN in.tree
  BY DEF Indexed
<1> QED BY <1>1, <1>4, <1>7, <1>8

\* Steps that leave the directories and the files.
LEMMA SameIndexed ==
  ASSUME in' = in, dirMap' = dirMap, repo'.files = repo.files
  PROVE  Indexed' = Indexed
BY DEF Indexed, Text

\* What the specification says can be read, and what cannot.
LEMMA ReadableFacts ==
  /\ Promise!Readable =
       {p \in DOMAIN in.tree : /\ p \notin in.skip
                               /\ \A q \in in.bad : ~IsStrictPrefix(q, p)
                               /\ IsFile(in.tree, p) => p \notin in.bad}
  /\ Promise!Unreadable =
       IF DOMAIN in.tree = {} THEN {<<>>}
       ELSE {p \in DOMAIN in.tree : /\ p \in in.bad \ in.skip
                                    /\ \A q \in in.bad : ~IsStrictPrefix(q, p)}
<1>1. /\ \A p, q : Promise!IsStrictPrefix(q, p) <=> IsStrictPrefix(q, p)
      /\ \A p : Promise!IsFile(in.tree, p) <=> IsFile(in.tree, p)
  BY DEF Promise!IsStrictPrefix, Promise!IsPrefix, IsStrictPrefix, IsPrefix,
     Promise!IsFile, Promise!Exists, IsFile, Exists
<1> QED BY <1>1 DEF Promise!Readable, Promise!Unreadable, Promise!Reachable

\* What the walk comes to next is readable, and so is the directory above, which it has passed.
LEMMA NextReadable ==
  ASSUME IInv, NEW p \in todo, \A q \in todo \ {p} : AddedBefore(p, q)
  PROVE  /\ IsDir(in.tree, p) => p \in Promise!Readable
         /\ IsFile(in.tree, p) => (p \in Promise!Readable <=> p \notin in.bad \cup in.skip)
         /\ p # <<>> => ParentDir(p) \in Visited
         /\ p \notin Visited \/ p = <<>>
<1>1. /\ p \in DOMAIN in.tree /\ p \in Path
      /\ \A q \in DOMAIN in.tree : IsStrictPrefix(q, p) => q \notin todo /\ q \notin in.bad
      /\ IsInput(in) /\ walker # "idle"
  BY AboveIsDone DEF IInv, Walk, Control, Channels
<1>2. \A q \in in.bad : ~IsStrictPrefix(q, p)
  BY <1>1, InputFacts
<1>3. /\ IsDir(in.tree, p) => p \in Promise!Readable
      /\ IsFile(in.tree, p) => (p \in Promise!Readable <=> p \notin in.bad \cup in.skip)
  BY <1>1, <1>2, ReadableFacts, InputFacts DEF IsFile, IsDir
<1>4. ASSUME p # <<>>  PROVE ParentDir(p) \in Visited
  <2>1. /\ IsDir(in.tree, ParentDir(p)) /\ IsStrictPrefix(ParentDir(p), p)
        /\ ParentDir(p) \in Path
    BY <1>1, <1>4, InputFacts, ParentFacts
  <2>2. \A q \in in.bad : ~IsStrictPrefix(q, ParentDir(p))
    <3> SUFFICES ASSUME NEW q \in in.bad, IsStrictPrefix(q, ParentDir(p))  PROVE FALSE
      OBVIOUS
    <3>1. q \in Path /\ IsPrefix(q, p)
      BY <1>1, <2>1, InputFacts, PrefixTransitive DEF IsStrictPrefix, Path
    <3>2. q = p
      BY <1>2, <3>1 DEF IsStrictPrefix
    <3> QED BY <2>1, <3>2, <1>1, PrefixAntisymmetric DEF IsStrictPrefix, Path
  <2>3. ParentDir(p) \in Promise!Readable
    BY <1>1, <2>1, <2>2, ReadableFacts, InputFacts DEF IsFile, IsDir, Exists
  <2> QED BY <1>1, <2>1, <2>3 DEF Visited, IsDir, Exists
<1> QED BY <1>3, <1>4 DEF Visited

\* The walk passes an entry that it adds to the index: Visited grows with Indexed.
LEMMA VisitedGrows ==
  ASSUME IInv, NEW p \in todo, \A q \in todo \ {p} : AddedBefore(p, q), walker # "idle",
         UNCHANGED <<in, walker>>, todo' \subseteq todo, p \notin todo',
         \A q \in todo \ todo' : q = p \/ q \notin Promise!Readable
  PROVE  Visited' = IF p \in Promise!Readable THEN Visited \cup {p} ELSE Visited
<1>1. Promise!Readable' = Promise!Readable
  BY DEF Promise!Readable, Promise!Reachable
<1> QED BY <1>1 DEF Visited

\* Tables, Rooted and IndexInv: what the walk does to the repository.
LEMMA WalkIndexes ==
  ASSUME IInv, NEW p \in todo,
         \/ WalkDir(p) \/ WalkDirUnreadable(p)
         \/ WalkFile(p) \/ WalkFileUnreadable(p) \/ WalkFileFiltered(p)
  PROVE  /\ Tables' /\ Rooted' /\ IndexInv'
         /\ Indexed' = IF p \in Promise!Readable THEN Indexed \cup {p} ELSE Indexed
<1>1. /\ walker = "walking" /\ unsent = <<>>
      /\ \A q \in todo \ {p} : AddedBefore(p, q)
      /\ UNCHANGED <<in, root, walker, stale>>
  BY VisitFrame
<1>2. /\ IsInput(in) /\ Tables /\ Rooted /\ IndexInv /\ p \in DOMAIN in.tree /\ p \in Path
      /\ \A q \in in.skip : IsFile(in.tree, q)
  BY InputFacts DEF IInv, Walk
<1>3. /\ IsDir(in.tree, p) => p \in Promise!Readable
      /\ IsFile(in.tree, p) => (p \in Promise!Readable <=> p \notin in.bad \cup in.skip)
      /\ p # <<>> => ParentDir(p) \in Visited
  BY <1>1, NextReadable
<1>4. Len(repo.dirs) <= Len(repo'.dirs) /\ Tables' => Rooted'
  <2>1. Len(repo.dirs) \in Nat /\ DOMAIN repo.dirs = 1..Len(repo.dirs)
    BY <1>2, LenProperties DEF Tables
  <2>2. Tables' => Len(repo'.dirs) \in Nat /\ DOMAIN repo'.dirs = 1..Len(repo'.dirs)
    BY LenProperties DEF Tables
  <2> QED BY <1>1, <1>2, <2>1, <2>2 DEF Rooted
<1>5. CASE WalkDir(p) \/ WalkDirUnreadable(p)
  <2>1. /\ IsDir(in.tree, p) /\ p \notin in.skip
        /\ repo' = Entered(p).repo /\ dirMap' = Entered(p).dirMap
    BY <1>2, <1>5 DEF WalkDir, WalkDirUnreadable, IsDir, IsFile
  <2>2. Tables' /\ Indexed' = Indexed \cup {p} /\ Len(repo.dirs) <= Len(repo'.dirs)
    BY <1>1, <1>2, <2>1, EnterIndexes
  <2>3. /\ todo' \subseteq todo /\ p \notin todo'
        /\ \A q \in todo \ todo' : q = p \/ q \notin Promise!Readable
    <3>1. CASE WalkDir(p)
      BY <3>1 DEF WalkDir, Visit
    <3>2. CASE WalkDirUnreadable(p)
      <4>1. todo' = todo \ Under(in.tree, p) /\ p \in in.bad
        BY <3>2 DEF WalkDirUnreadable, Visit
      <4>2. p \in Under(in.tree, p)
        BY <1>2, PrefixReflexive DEF Under, Path
      <4>3. \A q \in Under(in.tree, p) : q = p \/ q \notin Promise!Readable
        BY <4>1, ReadableFacts DEF Under, IsStrictPrefix
      <4> QED BY <4>1, <4>2, <4>3
    <3> QED BY <1>5, <3>1, <3>2
  <2>4. Visited' = Visited \cup {p}
    BY <1>1, <1>3, <2>1, <2>3, VisitedGrows
  <2> QED BY <1>2, <1>3, <1>4, <2>1, <2>2, <2>4 DEF IndexInv
<1>6. CASE WalkFile(p)
  <2> DEFINE dir == ParentDir(p)
  <2>1. IsFile(in.tree, p) /\ p \in Promise!Readable /\ todo' = todo \ {p}
    BY <1>3, <1>6 DEF WalkFile, Visit
  <2>2. p # <<>> /\ IsDir(in.tree, dir)
    BY <1>2, <2>1, InputFacts DEF IsDir, IsFile
  <2>3. Text(dir) \in DOMAIN dirMap
    <3>1. dir \in Indexed /\ dir \in DOMAIN in.tree /\ in.tree[dir] = Dir
      BY <1>2, <1>3, <2>2 DEF IndexInv, IsDir, Exists
    <3>2. \A f \in DOMAIN repo.files : ~NodeOf(f, dir)
      BY <1>2, <3>1 DEF Tables, NodeOf
    <3> QED BY <3>1, <3>2, IndexedFacts
  <2>4. Entered(dir).repo = repo /\ Entered(dir).dirMap = dirMap
    BY <2>3 DEF Entered
  <2>5. /\ repo' = AddFile(repo, dirMap[Text(dir)], <<Last(p)>>, in.tree[p])
        /\ dirMap' = dirMap
    BY <1>6, <2>4 DEF WalkFile
  <2>6. Tables' /\ Indexed' = Indexed \cup {p} /\ Len(repo'.dirs) = Len(repo.dirs)
    BY <1>1, <1>2, <2>1, <2>3, <2>5, AddIndexes
  <2>7. Len(repo.dirs) <= Len(repo'.dirs)
    BY <1>2, <2>6, LenProperties DEF Tables
  <2>8. Visited' = Visited \cup {p}
    BY <1>1, <2>1, VisitedGrows
  <2> QED BY <1>2, <1>4, <2>1, <2>6, <2>7, <2>8 DEF IndexInv
<1>7. CASE WalkFileUnreadable(p) \/ WalkFileFiltered(p)
  <2>1. /\ repo' = repo /\ dirMap' = dirMap /\ todo' = todo \ {p}
        /\ IsFile(in.tree, p) /\ p \in in.bad \cup in.skip
    BY <1>2, <1>7 DEF WalkFileUnreadable, WalkFileFiltered, Visit
  <2>2. p \notin Promise!Readable
    BY <1>3, <2>1
  <2>3. Visited' = Visited
    BY <1>1, <2>1, <2>2, VisitedGrows
  <2>4. Indexed' = Indexed
    BY <1>1, <2>1, SameIndexed
  <2>5. Tables' /\ Rooted'
    BY <1>1, <1>2, <2>1 DEF Tables, Rooted
  <2> QED BY <1>2, <2>2, <2>3, <2>4, <2>5 DEF IndexInv
<1> QED BY <1>5, <1>6, <1>7

\* The directory itself is readable if it is there: nothing is above it.
LEMMA TopReadable ==
  ASSUME IsInput(in)
  PROVE  <<>> \in Promise!Readable <=> DOMAIN in.tree # {}
<1>1. \A q \in in.bad : ~IsStrictPrefix(q, <<>>)
  <2> SUFFICES ASSUME NEW q \in in.bad, IsPrefix(q, <<>>)  PROVE q = <<>>
    BY DEF IsStrictPrefix
  <2>1. q \in Seq(Name) /\ <<>> \in Seq(Name)
    BY InputFacts, EmptySeq DEF Path
  <2>2. Len(q) \in Nat /\ Len(q) <= Len(<<>>) /\ Len(<<>>) = 0
    BY <2>1, EmptySeq, PrefixElements, LenProperties
  <2> QED BY <2>1, <2>2, EmptySeq
<1>2. DOMAIN in.tree # {} => IsDir(in.tree, <<>>) /\ <<>> \in DOMAIN in.tree
  BY InputFacts DEF IsDir, Exists
<1> QED BY <1>1, <1>2, ReadableFacts, InputFacts DEF IsDir, IsFile

\* And the start of the walk: the directory itself.
LEMMA InitWalkIndexes ==
  ASSUME IInv, InitWalk
  PROVE  /\ Tables' /\ Rooted' /\ IndexInv'
         /\ Indexed = {} /\ Indexed' = Promise!Readable \cap {<<>>}
<1>1. /\ Control /\ IsInput(in) /\ Tables /\ Rooted /\ IndexInv /\ walker = "idle"
      /\ in' = in /\ stale' = stale /\ walker' = "walking" /\ todo' = DOMAIN in.tree
  BY DEF IInv, Walk, Control, InitWalk
<1>2. Indexed = {} /\ root = NoNode
  BY <1>1 DEF IndexInv, Visited, Rooted
<1>3. Promise!Readable \subseteq DOMAIN in.tree /\ Promise!Readable' = Promise!Readable
  BY <1>1 DEF Promise!Readable, Promise!Reachable
<1>4. Visited' = Promise!Readable \cap {<<>>}
  BY <1>1, <1>3 DEF Visited
<1>5. CASE DOMAIN in.tree = {}
  <2>1. repo' = repo /\ dirMap' = dirMap /\ root' = root
    BY <1>5 DEF InitWalk, repoVars
  <2>2. Indexed' = {}
    BY <1>1, <1>2, <2>1, SameIndexed
  <2>3. Tables' /\ Rooted'
    BY <1>1, <1>2, <1>5, <2>1 DEF Tables, Rooted
  <2> QED BY <1>2, <1>3, <1>4, <1>5, <2>2, <2>3 DEF IndexInv
<1>6. CASE DOMAIN in.tree # {}
  <2>1. IsDir(in.tree, <<>>) /\ <<>> \in DOMAIN in.tree
    BY <1>1, <1>6, InputFacts DEF IsDir, Exists
  <2>2. repo' = Entered(<<>>).repo /\ dirMap' = Entered(<<>>).dirMap /\ root' = dirMap'[in.root]
    BY <1>6 DEF InitWalk
  <2>3. Tables' /\ Indexed' = {<<>>} /\ Len(repo.dirs) <= Len(repo'.dirs)
    BY <1>1, <1>2, <2>1, <2>2, EnterIndexes
  <2>4. Text(<<>>) = in.root
    BY <1>1, InputFacts, ConcatEmptySeq DEF Text
  <2>5. in.root \in DOMAIN dirMap'
    BY <1>1, <2>2, <2>4, EnteredFacts
  <2>6. root' \in 1..Len(repo'.dirs)
    BY <2>2, <2>3, <2>5 DEF Tables
  <2>7. Rooted'
    <3>1. Len(repo.dirs) \in Nat /\ DOMAIN repo.dirs = 1..Len(repo.dirs)
      BY <1>1, LenProperties DEF Tables
    <3>2. Len(repo'.dirs) \in Nat /\ DOMAIN repo'.dirs = 1..Len(repo'.dirs)
      BY <2>3, LenProperties DEF Tables
    <3>3. stale' \subseteq DOMAIN repo'.dirs
      BY <1>1, <2>3, <3>1, <3>2 DEF Rooted
    <3> QED BY <1>1, <1>6, <2>6, <3>2, <3>3 DEF Rooted, NoNode
  <2>8. <<>> \in Promise!Readable
    BY <1>1, <1>6, TopReadable
  <2> QED BY <1>2, <1>4, <2>3, <2>7, <2>8 DEF IndexInv
<1> QED BY <1>5, <1>6

\* And all the other steps, which leave the index as it is.
LEMMA RestIndexes ==
  ASSUME IInv,
         \/ SendError \/ WalkDone \/ AwaitWalk \/ \E d \in stale : UpdateDir(d)
         \/ IndexReturns \/ SendDir \/ CloseErrors \/ RecvError \/ ErrorsEnd \/ RecvDir
  PROVE  Tables' /\ Rooted' /\ IndexInv' /\ Indexed' = Indexed
<1>1. Control /\ Tables /\ Rooted /\ IndexInv
  BY DEF IInv
<1>2. /\ UNCHANGED <<in, dirMap, root, todo>>
      /\ walker' = "idle" <=> walker = "idle"
  BY <1>1 DEF SendError, WalkDone, AwaitWalk, UpdateDir, IndexReturns, SendDir, CloseErrors,
     RecvError, ErrorsEnd, RecvDir, walkVars, repoVars
<1>3. Visited' = Visited
  BY <1>2 DEF Visited, Promise!Readable, Promise!Reachable
<1>4. CASE \E d \in stale : UpdateDir(d)
  <2> PICK d \in stale : UpdateDir(d)
    BY <1>4
  <2>1. /\ repo' = IF in.repo = "mem" THEN MemRekey(repo, d) ELSE DbUpdateRow(repo, d)
        /\ stale' \subseteq stale /\ d \in DOMAIN repo.dirs
    BY <1>1 DEF UpdateDir, Rooted
  <2>2. /\ {"dirs", "files"} \subseteq DOMAIN repo' /\ repo'.files = repo.files
        /\ repo'.dirs \in Seq(Range(repo'.dirs)) /\ Len(repo'.dirs) = Len(repo.dirs)
    BY <1>1, <2>1, UpdateFacts
  <2>3. Indexed' = Indexed
    BY <1>2, <2>2, SameIndexed
  <2>4. DOMAIN repo'.dirs = DOMAIN repo.dirs
    BY <1>1, <2>2, LenProperties DEF Tables
  <2> QED BY <1>1, <1>2, <1>3, <2>1, <2>2, <2>3, <2>4 DEF Tables, Rooted, IndexInv
<1>5. CASE ~\E d \in stale : UpdateDir(d)
  <2>1. repo' = repo
    BY <1>5 DEF SendError, WalkDone, AwaitWalk, IndexReturns, SendDir, CloseErrors,
       RecvError, ErrorsEnd, RecvDir, repoVars
  <2>2. stale' = stale \/ stale' \subseteq DOMAIN repo.dirs
    <3>1. CASE AwaitWalk
      BY <3>1 DEF AwaitWalk, Subtree
    <3>2. CASE ~AwaitWalk
      BY <1>5, <3>2 DEF SendError, WalkDone, IndexReturns, SendDir, CloseErrors,
         RecvError, ErrorsEnd, RecvDir
    <3> QED BY <3>1, <3>2
  <2>3. Indexed' = Indexed
    BY <1>2, <2>1, SameIndexed
  <2> QED BY <1>1, <1>2, <1>3, <2>1, <2>2, <2>3 DEF Tables, Rooted, IndexInv
<1> QED BY <1>4, <1>5

-----------------------------------------------------------------------------
(* The theorems.                                                           *)

\* The invariant holds before anything runs, ...
LEMMA InitInv ==
  ASSUME Init
  PROVE  IInv
<1>1. IsInput(in)
  BY InputsAssumption DEF Init
<1>2. in.listens \in BOOLEAN /\ in.bad \subseteq DOMAIN in.tree
  BY <1>1, InputFacts
<1>3. /\ {"dirs", "files"} \subseteq DOMAIN repo
      /\ repo.dirs = <<>> /\ repo.files = <<>>
  BY DEF Init, NewMemRepo, NewDbRepo
<1>4. \A S : <<>> \in Seq(S) /\ Len(<<>>) = 0 /\ DOMAIN <<>> = {}
  BY EmptySeq
<1>5. Control
  BY <1>2 DEF Init, Control
<1>6. Channels
  BY EmptySeq DEF Init, Channels, ErrorChanSize, DirChanSize
<1>7. Walk
  BY <1>1 DEF Init, Walk
<1>8. HeldOnce
  BY DEF Init, HeldOnce
<1>9. Tables /\ Rooted
  <2> DEFINE none == <<>>
  <2>1. /\ repo.dirs = none /\ repo.files = none /\ dirMap = none
        /\ Len(none) = 0 /\ DOMAIN none = {} /\ \A S : none \in Seq(S)
    BY <1>3, <1>4 DEF Init
  <2>2. root = NoNode /\ stale = {} /\ walker = "idle"
    BY DEF Init
  <2> HIDE DEF none
  <2>3. IsInjective(none)
    BY <2>1 DEF IsInjective
  <2> QED BY <1>3, <2>1, <2>2, <2>3 DEF Tables, Rooted, NoNode
<1>10. IndexInv
  BY <1>3, <1>4 DEF Init, IndexInv, Indexed, Visited
<1> QED BY <1>5, <1>6, <1>7, <1>8, <1>9, <1>10 DEF IInv

\* ... and every step of every goroutine keeps it.
LEMMA StepInv ==
  ASSUME IInv, [Next]_vars
  PROVE  IInv'
<1>1. CASE UNCHANGED vars
  <2>1. UNCHANGED <<in, repo, dirMap, root, todo, unsent, walker, index, stale, caller,
                    errorChan, closed, dirChan, errors>>
    BY <1>1 DEF vars, repoVars, walkVars, chanVars
  <2>2. Control' /\ Walk'
    BY <2>1 DEF IInv, Control, Walk
  <2>3. Channels' /\ HeldOnce'
    BY <2>1 DEF IInv, Channels, Entries, HeldOnce, Passed
  <2>4. Tables' /\ Rooted'
    BY <2>1 DEF IInv, Tables, Rooted
  <2>5. IndexInv'
    <3>1. Indexed' = Indexed
      BY <2>1, SameIndexed
    <3> QED BY <2>1, <3>1 DEF IInv, IndexInv, Visited, Promise!Readable, Promise!Reachable
  <2> QED BY <2>2, <2>3, <2>4, <2>5 DEF IInv
<1>2. CASE Next
  <2>1. Step
    BY <1>2, StepIsNext
  <2>2. Control' /\ Channels' /\ Walk' /\ HeldOnce'
    BY <2>1, ControlStep, ChannelsStep, WalkStep, HeldStep
  <2>3. Tables' /\ Rooted' /\ IndexInv'
    BY <2>1, WalkIndexes, InitWalkIndexes, RestIndexes DEF Step
  <2> QED BY <2>2, <2>3 DEF IInv
<1> QED BY <1>1, <1>2

\* Whatever is indexed and however the goroutines run, the invariant holds throughout.
THEOREM IndexingInv == Spec => []IInv
<1>1. Init => IInv
  BY InitInv
<1>2. IInv /\ [Next]_vars => IInv'
  BY StepInv
<1> QED BY <1>1, <1>2, PTL DEF Spec

\* The walker never sends on a closed channel: when IndexDir's channel of errors is closed
\* the walk is over and its last error has been sent (index.go:152-173).
THEOREM NeverSendsOnClosed == Spec => []ClosedAfterLastError
<1>1. IInv => ClosedAfterLastError
  BY DEF IInv, Control, Channels, ClosedAfterLastError
<1> QED BY <1>1, IndexingInv, PTL

\* Every unreadable entry that the walk has passed is in exactly one place: in the walker's
\* hands, in the channel, or collected (index.go:147-163).
THEOREM ErrorsAreKept == Spec => []NoErrorLost
<1>1. IInv => NoErrorLost
  BY DEF IInv, HeldOnce, Passed, NoErrorLost
<1> QED BY <1>1, IndexingInv, PTL

\* The goroutines are where they can be, no channel holds more than fits in it, and what
\* dirMap, root and the recursion of UpdateStrong point to is in the repository.
THEOREM IndexerTypes == Spec => []TypeOK
<1>1. IInv => TypeOK
  <2> SUFFICES ASSUME IInv  PROVE TypeOK
    OBVIOUS
  <2>1. /\ IsInput(in) /\ in.listens \in BOOLEAN /\ todo \subseteq DOMAIN in.tree
        /\ Control /\ Channels /\ Tables /\ Rooted
    BY InputFacts DEF IInv, Walk
  <2>2. Range(unsent \o errorChan \o errors) \subseteq DOMAIN in.tree \cup {<<>>}
    <3>1. /\ unsent \in Seq(Entries) /\ errorChan \in Seq(Entries) /\ errors \in Seq(Entries)
      BY <2>1 DEF Channels
    <3>2. /\ Range(unsent) \subseteq Entries /\ Range(errorChan) \subseteq Entries
          /\ Range(errors) \subseteq Entries
      BY <3>1, RangeOfSeq
    <3> QED BY <3>1, <3>2, HeldFacts DEF Entries
  <2>3. Range(dirMap) \subseteq 1..Len(repo.dirs)
    BY <2>1 DEF Tables, Range
  <2> QED BY <2>1, <2>2, <2>3 DEF TypeOK, Control, Channels, Rooted
<1> QED BY <1>1, IndexingInv, PTL

-----------------------------------------------------------------------------
(* Indexer implements IndexSpec.                                           *)

\* Before the call nothing is indexed or reported.
LEMMA PromiseInit ==
  ASSUME Init
  PROVE  Promise!Init
<1>1. IInv
  BY InitInv
<1>2. IsTree(in.tree) /\ Indexed = {}
  BY <1>1 DEF IInv, Walk, IsInput, IndexInv, Visited, Init
<1> QED BY <1>2 DEF Promise!Init, Promise!IsTree, Promise!IsFiniteSet, IsFiniteSet,
      Promise!Path, Promise!Entry, IsTree, Path, Entry, Init, Returned

\* The walk adds an entry, below one that is there, or stutters.
LEMMA WalkKeepsPromise ==
  ASSUME IInv, NEW p \in todo,
         \/ WalkDir(p) \/ WalkDirUnreadable(p)
         \/ WalkFile(p) \/ WalkFileUnreadable(p) \/ WalkFileFiltered(p)
  PROVE  [Promise!Next]_(Promise!vars)
<1>1. /\ walker = "walking" /\ \A q \in todo \ {p} : AddedBefore(p, q)
      /\ UNCHANGED <<in, root, caller, errors>>
  BY VisitFrame
<1>2. ~Returned /\ ~Returned'
  BY <1>1 DEF IInv, Control, Returned
<1>3. /\ Indexed' = IF p \in Promise!Readable THEN Indexed \cup {p} ELSE Indexed
      /\ Indexed = Visited
  BY WalkIndexes DEF IInv, IndexInv
<1>4. CASE p \in Promise!Readable /\ p \notin Indexed
  <2>1. p = <<>> \/ ParentDir(p) \in Indexed
    BY <1>1, <1>3, NextReadable
  <2>2. Promise!Add(p)
    BY <1>1, <1>2, <1>3, <1>4, <2>1 DEF Promise!Add, Promise!ParentDir, ParentDir
  <2> QED BY <1>4, <2>2 DEF Promise!Next
<1>5. CASE Indexed' = Indexed
  BY <1>1, <1>2, <1>5 DEF Promise!vars
<1> QED BY <1>3, <1>4, <1>5

\* What has been sent, and what is sent at the end, is what could not be read.
LEMMA ReportsFacts ==
  ASSUME IInv, in.listens, walker # "idle"
  PROVE  /\ Passed \subseteq Promise!Unreadable
         /\ Range(errorChan) \subseteq Passed /\ Range(errors) \subseteq Passed
         /\ Range(errorChan) \cap Range(errors) = {}
         /\ walker = "done" /\ errorChan = <<>> => Range(errors) = Promise!Unreadable
<1>1. /\ unsent \in Seq(Entries) /\ errorChan \in Seq(Entries) /\ errors \in Seq(Entries)
      /\ IsInjective(unsent \o errorChan \o errors)
      /\ Range(unsent \o errorChan \o errors) = Passed
      /\ walker # "walking" => unsent = <<>> /\ todo = {}
      /\ in.bad \subseteq DOMAIN in.tree
  BY InputFacts DEF IInv, Channels, HeldOnce, Walk
<1>2. Passed \subseteq Promise!Unreadable /\ (todo = {} => Passed = Promise!Unreadable)
  BY <1>1, ReadableFacts DEF Passed
<1>3. /\ Range(unsent) \cup Range(errorChan) \cup Range(errors) = Passed
      /\ Range(errorChan) \cap Range(errors) = {}
  BY <1>1, HeldFacts
<1>4. \A s : s = <<>> => Range(s) = {}
  BY DEF Range
<1> QED BY <1>1, <1>2, <1>3, <1>4

\* When the walk is over the index is complete, and there is a root if there is a directory.
LEMMA WalkedFacts ==
  ASSUME IInv, walker = "done"
  PROVE  /\ Indexed = Promise!Readable
         /\ root = NoNode <=> <<>> \notin Promise!Readable
<1>1. IsInput(in) /\ todo = {} /\ Indexed = Visited
  BY DEF IInv, Walk, Channels, IndexInv
<1>2. Indexed = Promise!Readable
  BY <1>1 DEF Visited
<1> QED BY <1>1, <1>2, TopReadable DEF IInv, Rooted

\* Every step of the goroutines is a step of IndexSpec, or stutters.
LEMMA StepKeepsPromise ==
  ASSUME IInv, Step
  PROVE  [Promise!Next]_(Promise!vars)
<1>1. Control /\ Control' /\ IsInput(in) /\ in.listens \in BOOLEAN /\ in' = in
  BY ControlStep, InputFacts DEF IInv, Walk
<1>2. CASE \E p \in todo : WalkDir(p) \/ WalkDirUnreadable(p)
                           \/ WalkFile(p) \/ WalkFileUnreadable(p) \/ WalkFileFiltered(p)
  BY <1>2, WalkKeepsPromise
<1>3. CASE InitWalk
  <2>1. ~Returned /\ ~Returned' /\ errors' = errors
    BY <1>1, <1>3 DEF InitWalk, Control, Returned
  <2>2. Indexed = {} /\ Indexed' = Promise!Readable \cap {<<>>}
    BY <1>3, InitWalkIndexes
  <2>3. CASE <<>> \in Promise!Readable
    <3>1. Promise!Add(<<>>)
      BY <1>1, <2>1, <2>2, <2>3 DEF Promise!Add
    <3> QED BY <2>3, <3>1 DEF Promise!Next
  <2>4. CASE <<>> \notin Promise!Readable
    BY <1>1, <2>1, <2>2, <2>4 DEF Promise!vars
  <2> QED BY <2>3, <2>4
<1>4. CASE RecvError
  <2> DEFINE p == Head(errorChan)
  <2>1. ~Returned /\ ~Returned' /\ in.listens /\ walker # "idle" /\ Indexed' = Indexed
    BY <1>1, <1>4, RestIndexes DEF RecvError, Control, Returned, IInv, Channels
  <2>2. errors' = Append(errors, p)
    BY <1>4 DEF RecvError
  <2>3. errorChan = <<p>> /\ p \in Entries
    BY <1>4, AtMostOne DEF RecvError, IInv, Channels, ErrorChanSize
  <2> HIDE DEF p
  <2>4. Range(errorChan) = {p}
    BY <2>3, Single
  <2>5. p \in Promise!Unreadable /\ p \notin Range(errors)
    BY <2>1, <2>4, ReportsFacts
  <2>6. Promise!Report(p)
    BY <1>1, <2>1, <2>2, <2>5 DEF Promise!Report, Promise!Range, Range
  <2> QED BY <2>5, <2>6 DEF Promise!Next
<1>5. CASE RecvDir
  <2>1. /\ ~Returned /\ Returned' /\ root' = root /\ errors' = errors
        /\ walker = "done" /\ in.listens /\ errorChan = <<>> /\ Indexed' = Indexed
    BY <1>1, <1>5, RestIndexes DEF RecvDir, Control, Returned, repoVars
  <2>2. Range(errors) = Promise!Unreadable
    BY <2>1, ReportsFacts
  <2>3. Promise!Return
    BY <1>1, <2>1, <2>2, WalkedFacts DEF Promise!Return, Promise!Range, Range
  <2> QED BY <2>3 DEF Promise!Next
<1>6. CASE IndexReturns
  <2>1. /\ root' = root /\ errors' = errors /\ walker = "done" /\ Indexed' = Indexed
    BY <1>1, <1>6, RestIndexes DEF IndexReturns, Control, repoVars
  <2>2. CASE in.listens
    <3>1. caller' = caller
      BY <1>6, <2>2 DEF IndexReturns
    <3> QED BY <1>1, <2>1, <3>1 DEF Promise!vars, Returned
  <2>3. CASE ~in.listens
    <3>1. ~Returned /\ Returned'
      BY <1>1, <1>6, <2>3 DEF IndexReturns, Control, Returned
    <3>2. Promise!Return
      BY <1>1, <2>1, <2>3, <3>1, WalkedFacts DEF Promise!Return
    <3> QED BY <3>2 DEF Promise!Next
  <2> QED BY <2>2, <2>3
<1>7. CASE \/ SendError \/ WalkDone \/ AwaitWalk \/ \E d \in stale : UpdateDir(d)
           \/ SendDir \/ CloseErrors \/ ErrorsEnd
  <2>1. Indexed' = Indexed
    BY <1>7, RestIndexes
  <2>2. root' = root /\ errors' = errors /\ (Returned' <=> Returned)
    BY <1>1, <1>7 DEF SendError, WalkDone, AwaitWalk, UpdateDir, SendDir, CloseErrors, ErrorsEnd,
       repoVars, Control, Returned
  <2> QED BY <1>1, <2>1, <2>2 DEF Promise!vars
<1> QED BY <1>2, <1>3, <1>4, <1>5, <1>6, <1>7 DEF Step

LEMMA StepOrStutterKeepsPromise ==
  ASSUME IInv, [Next]_vars
  PROVE  [Promise!Next]_(Promise!vars)
<1>1. CASE UNCHANGED vars
  BY <1>1 DEF vars, repoVars, walkVars, chanVars, Promise!vars, Indexed, Text, Returned
<1>2. CASE Next
  BY <1>2, StepIsNext, StepKeepsPromise
<1> QED BY <1>1, <1>2

\* The goroutines and the repository implement the safety part of IndexSpec: the index grows
\* by readable entries, each below one that is there; each error is reported once; and when
\* the call returns both are complete (index.go:97-183).
THEOREM IndexerImplementsIndexSpec == Spec => Promise!Init /\ [][Promise!Next]_(Promise!vars)
<1>1. Init => Promise!Init
  BY PromiseInit
<1>2. IInv /\ [Next]_vars => [Promise!Next]_(Promise!vars)
  BY StepOrStutterKeepsPromise
<1> QED BY <1>1, <1>2, IndexingInv, PTL DEF Spec

\* And all of it if the call returns, which TLC checks.
THEOREM ReturningKeepsPromise == Spec /\ Returns => KeepsPromise
<1>1. Returned => (IF ~Returned THEN "none" ELSE IF root = NoNode THEN "failed" ELSE "indexed") # "none"
  OBVIOUS
<1> QED BY <1>1, IndexerImplementsIndexSpec, PTL DEF Returns, KeepsPromise, Promise!Spec

-----------------------------------------------------------------------------
(* Where the nodes are.                                                    *)

\* The fields of a repository.
Fields ==
  IF in.repo = "mem"
  THEN {"dirs", "files", "root", "rootIsDir", "fileOf", "dirOf", "blockOf", "weakOf"}
  ELSE {"dirs", "files", "blocks"}

\* The directory d is that of the entry p, ...
DirAt(d, p) ==
  /\ p \in DOMAIN in.tree /\ IsDir(in.tree, p)
  /\ Text(p) \in DOMAIN dirMap /\ dirMap[Text(p)] = d

\* ... and its row has the entry's name, and the directory above it, which came before.
RowRight(d, p) ==
  LET row == repo.dirs[d]
  IN  /\ {"parent", "name", "strong"} \subseteq DOMAIN row
      /\ p = <<>> => row.parent = NoNode /\ row.name = <<>>
      /\ p # <<>> => /\ row.name = <<Last(p)>>
                     /\ DirAt(row.parent, ParentDir(p)) /\ row.parent < d

DirsPlaced ==
  /\ \A text \in DOMAIN dirMap : \E p \in DOMAIN in.tree : text = Text(p) /\ IsDir(in.tree, p)
  /\ \A d \in DOMAIN repo.dirs : \E p \in DOMAIN in.tree : DirAt(d, p) /\ RowRight(d, p)

\* No entry has two nodes.
FilesPlaced ==
  /\ \A f \in DOMAIN repo.files : \E p \in DOMAIN in.tree : NodeOf(f, p)
  /\ \A f, g \in DOMAIN repo.files : \A p \in DOMAIN in.tree :
       NodeOf(f, p) /\ NodeOf(g, p) => f = g

Counted == Len(repo.dirs) + Len(repo.files) = Cardinality(Indexed)

RootPlaced ==
  /\ DOMAIN repo = Fields
  /\ in.repo = "mem" => repo.root = root
  /\ root # NoNode => DirAt(root, <<>>)

Places == DirsPlaced /\ FilesPlaced /\ Counted /\ RootPlaced

\* The text of a path below the top is the text of its parent's with its last name.
LEMMA TextFacts ==
  ASSUME IsInput(in), NEW p \in Path
  PROVE  /\ Text(p) \in Path /\ Text(p) # <<>>
         /\ p # <<>> => ParentDir(Text(p)) = Text(ParentDir(p)) /\ Last(Text(p)) = Last(p)
         /\ \A q \in Path : ParentDir(Text(<<>>)) # Text(q)
<1> DEFINE m == Len(in.root)
           n == Len(p)
<1>1. /\ in.root \in Seq(Name) /\ p \in Seq(Name) /\ m \in Nat \ {0} /\ n \in Nat
  BY EmptySeq, LenProperties DEF IsInput, Path
<1>2. /\ Text(p) \in Seq(Name) /\ Len(Text(p)) = m + n
      /\ \A i \in 1..(m + n) : Text(p)[i] = IF i <= m THEN in.root[i] ELSE p[i - m]
  BY <1>1, ConcatProperties DEF Text
<1>3. Text(p) # <<>>
  <2>1. Len(Text(p)) # 0
    BY <1>1, <1>2
  <2> QED BY <2>1, EmptySeq
<1>4. ASSUME p # <<>>
      PROVE  ParentDir(Text(p)) = Text(ParentDir(p)) /\ Last(Text(p)) = Last(p)
  <2> DEFINE u == ParentDir(p)
             s == ParentDir(Text(p))
  <2>1. /\ n \in Nat \ {0} /\ u \in Seq(Name) /\ Len(u) = n - 1
        /\ \A i \in 1..(n - 1) : u[i] = p[i]
    BY <1>4, ParentFacts DEF Path
  <2>2. /\ s \in Seq(Name) /\ Len(s) = m + n - 1
        /\ \A i \in 1..(m + n - 1) : s[i] = Text(p)[i]
    BY <1>2, <1>3, ParentFacts DEF Path
  <2>3. /\ Text(u) \in Seq(Name) /\ Len(Text(u)) = m + (n - 1)
        /\ \A i \in 1..(m + (n - 1)) : Text(u)[i] = IF i <= m THEN in.root[i] ELSE u[i - m]
    <3> HIDE DEF u, n
    <3>1. /\ in.root \o u \in Seq(Name) /\ Len(in.root \o u) = Len(in.root) + Len(u)
          /\ \A i \in 1..(Len(in.root) + Len(u)) :
               (in.root \o u)[i] = IF i <= Len(in.root) THEN in.root[i] ELSE u[i - Len(in.root)]
      BY <1>1, <2>1, ConcatProperties
    <3>2. Text(u) = in.root \o u
      BY DEF Text
    <3> QED BY <2>1, <3>1, <3>2
  <2> HIDE DEF u, s, m, n
  <2>4. \A i \in 1..(m + n - 1) : s[i] = Text(u)[i]
    <3> SUFFICES ASSUME NEW i \in 1..(m + n - 1)  PROVE s[i] = Text(u)[i]
      OBVIOUS
    <3>1. i \in 1..(m + n) /\ i \in 1..(m + (n - 1))
      BY <1>1, <2>1
    <3>2. ~(i <= m) => i - m \in 1..(n - 1)
      BY <1>1, <2>1
    <3> QED BY <1>2, <2>1, <2>2, <2>3, <3>1, <3>2
  <2>5. s = Text(u)
    <3>1. m + n - 1 = m + (n - 1)
      BY <1>1
    <3> QED BY <2>2, <2>3, <2>4, <3>1, SeqEqual
  <2>6. Text(p)[m + n] = p[n]
    <3>1. m + n \in 1..(m + n) /\ ~(m + n <= m) /\ (m + n) - m = n
      BY <1>1, <2>1
    <3> QED BY <1>2, <3>1
  <2> QED BY <1>2, <2>5, <2>6 DEF Last, u, s, n
<1>5. ASSUME NEW q \in Path  PROVE ParentDir(Text(<<>>)) # Text(q)
  <2>1. Text(<<>>) = in.root
    BY <1>1, ConcatEmptySeq DEF Text
  <2>2. Len(ParentDir(in.root)) = m - 1
    BY <1>1, EmptySeq, ParentFacts DEF IsInput, Path
  <2>3. q \in Seq(Name) /\ Len(q) \in Nat /\ Len(Text(q)) = m + Len(q)
    <3>1. q \in Seq(Name)
      BY DEF Path
    <3> QED BY <1>1, <3>1, LenProperties, ConcatProperties DEF Text
  <2> HIDE DEF m
  <2> QED BY <1>1, <2>1, <2>2, <2>3
<1> QED BY <1>2, <1>3, <1>4, <1>5 DEF Path

\* AddDir adds a row, and a directory without a parent is the root of a MemRepo.
LEMMA AddDirRow ==
  ASSUME Tables, DOMAIN repo = Fields, NEW parent, NEW name
  PROVE  LET r == AddDir(parent, name)
         IN  /\ DOMAIN r = Fields
             /\ \E strong : r.dirs = Append(repo.dirs, [parent |-> parent, name |-> name,
                                                        strong |-> strong])
             /\ in.repo = "mem" => r.root = IF parent = NoNode THEN Len(repo.dirs) + 1
                                            ELSE repo.root
<1> DEFINE s == Placeholder(Cardinality(DOMAIN repo.dirOf))
           row(x) == [parent |-> parent, name |-> name, strong |-> x]
           added == [repo EXCEPT !.dirs  = Append(@, row(s)),
                                 !.dirOf = Put(@, s, Len(repo.dirs) + 1)]
           rooted == [added EXCEPT !.root = Len(repo.dirs) + 1, !.rootIsDir = TRUE]
<1>1. CASE in.repo = "mem"
  <2>1. AddDir(parent, name) = IF parent = NoNode THEN rooted ELSE added
    BY <1>1 DEF AddDir, MemAddDir
  <2>2. /\ DOMAIN added = Fields /\ added.dirs = Append(repo.dirs, row(s))
        /\ added.root = repo.root
    BY <1>1 DEF Fields
  <2> HIDE DEF added
  <2>3. /\ DOMAIN rooted = Fields /\ rooted.dirs = Append(repo.dirs, row(s))
        /\ rooted.root = Len(repo.dirs) + 1
    BY <1>1, <2>2 DEF Fields
  <2> HIDE DEF rooted
  <2> QED BY <2>1, <2>2, <2>3
<1>2. CASE in.repo # "mem"
  <2>1. AddDir(parent, name) = [repo EXCEPT !.dirs = Append(@, row(Blank))]
    BY <1>2 DEF AddDir, DbAddDir
  <2>2. "dirs" \in DOMAIN repo
    BY <1>2 DEF Fields
  <2> QED BY <1>2, <2>1, <2>2
<1> QED BY <1>1, <1>2

\* AddFile to a directory leaves the root.
LEMMA AddFileRoot ==
  ASSUME Tables, DOMAIN repo = Fields, NEW parent, parent # NoNode, NEW name, NEW contents
  PROVE  LET r == AddFile(repo, parent, name, contents)
         IN  DOMAIN r = Fields /\ (in.repo = "mem" => r.root = repo.root)
<1>1. CASE in.repo = "mem"
  BY <1>1 DEF AddFile, MemAddFile, Fields
<1>2. CASE in.repo # "mem"
  BY <1>2 DEF AddFile, DbAddFile, Fields
<1> QED BY <1>1, <1>2

\* UpdateStrong leaves all but a checksum of the directories.
LEMMA UpdateRow ==
  ASSUME Tables, DOMAIN repo = Fields, NEW d \in DOMAIN repo.dirs,
         \A e \in DOMAIN repo.dirs : {"parent", "name", "strong"} \subseteq DOMAIN repo.dirs[e],
         repo' = IF in.repo = "mem" THEN MemRekey(repo, d) ELSE DbUpdateRow(repo, d)
  PROVE  /\ DOMAIN repo' = Fields /\ (in.repo = "mem" => repo'.root = repo.root)
         /\ DOMAIN repo'.dirs = DOMAIN repo.dirs
         /\ \A e \in DOMAIN repo.dirs :
              /\ DOMAIN repo'.dirs[e] = DOMAIN repo.dirs[e]
              /\ repo'.dirs[e].parent = repo.dirs[e].parent
              /\ repo'.dirs[e].name = repo.dirs[e].name
              /\ repo'.dirs[e].strong = IF e = d THEN CalcStrong(repo, d)
                                        ELSE repo.dirs[e].strong
<1> DEFINE new  == CalcStrong(repo, d)
           old  == repo.dirs[d].strong
           rows == [repo.dirs EXCEPT ![d] = [repo.dirs[d] EXCEPT !.strong = new]]
<1>1. /\ DOMAIN rows = DOMAIN repo.dirs
      /\ \A e \in DOMAIN repo.dirs :
           /\ DOMAIN rows[e] = DOMAIN repo.dirs[e]
           /\ rows[e].parent = repo.dirs[e].parent
           /\ rows[e].name = repo.dirs[e].name
           /\ rows[e].strong = IF e = d THEN new ELSE repo.dirs[e].strong
  <2> HIDE DEF new
  <2> QED OBVIOUS
<1>2. CASE in.repo = "mem" /\ new = old
  <2>1. repo' = repo
    BY <1>2 DEF MemRekey
  <2> HIDE DEF new
  <2> QED BY <1>2, <2>1 DEF new
<1>3. CASE in.repo = "mem" /\ new # old
  <2>1. repo' = [repo EXCEPT !.dirOf = Put(Without(@, {old}), new, d), !.dirs[d].strong = new]
    BY <1>3 DEF MemRekey
  <2> HIDE DEF new, old
  <2>2. DOMAIN repo' = Fields /\ repo'.root = repo.root /\ repo'.dirs = rows
    BY <1>3, <2>1 DEF Fields
  <2> HIDE DEF rows
  <2> QED BY <1>1, <2>2 DEF new
<1>4. CASE in.repo # "mem"
  <2>1. repo' = [repo EXCEPT !.dirs[d].strong = new]
    BY <1>4 DEF DbUpdateRow
  <2> HIDE DEF new
  <2>2. DOMAIN repo' = Fields /\ repo'.dirs = rows
    BY <1>4, <2>1 DEF Fields
  <2> HIDE DEF rows
  <2> QED BY <1>1, <1>4, <2>2 DEF new
<1> QED BY <1>2, <1>3, <1>4

\* VisitDir of a directory that it has not been to adds a row for it, and it is where it belongs.
LEMMA EnterPlaces ==
  ASSUME Tables, Places, IsInput(in), NEW p \in DOMAIN in.tree, IsDir(in.tree, p),
         Text(p) \notin DOMAIN dirMap, p # <<>> => Text(ParentDir(p)) \in DOMAIN dirMap,
         in' = in, repo' = Entered(p).repo, dirMap' = Entered(p).dirMap
  PROVE  /\ DirsPlaced' /\ FilesPlaced' /\ Counted' /\ DOMAIN repo' = Fields'
         /\ in.repo = "mem" => repo'.root = IF p = <<>> THEN dirMap'[Text(p)] ELSE repo.root
         /\ \A d : \A q \in DOMAIN in.tree :
              DirAt(d, q)' <=> DirAt(d, q) \/ (q = p /\ d = Len(repo.dirs) + 1)
<1> PICK n, text, parent, name :
       /\ n = Len(repo.dirs) /\ text = Text(p)
       /\ parent = IF p = <<>> THEN NoNode ELSE dirMap[Text(ParentDir(p))]
       /\ name = IF p = <<>> THEN <<>> ELSE <<Last(p)>>
  OBVIOUS
<1>1. /\ DirsPlaced /\ FilesPlaced /\ Counted /\ DOMAIN repo = Fields
      /\ p \in Path /\ DOMAIN in.tree \subseteq Path
  BY InputFacts DEF Places, RootPlaced
<1>2. repo' = AddDir(parent, name) /\ dirMap' = Put(dirMap, text, Len(repo'.dirs))
  <2>1. CASE p = <<>>
    <3>1. ParentDir(text) \notin DOMAIN dirMap
      BY <1>1, <2>1, TextFacts DEF DirsPlaced
    <3> QED BY <2>1, <3>1 DEF Entered
  <2>2. CASE p # <<>>
    BY <1>1, <2>2, TextFacts DEF Entered
  <2> QED BY <2>1, <2>2
<1>3. PICK strong : repo'.dirs = Append(repo.dirs, [parent |-> parent, name |-> name,
                                                    strong |-> strong])
  <2>1. \E strong : AddDir(parent, name).dirs
                       = Append(repo.dirs, [parent |-> parent, name |-> name,
                                            strong |-> strong])
    BY <1>1, AddDirRow
  <2> QED BY <1>2, <2>1
<1>4. /\ DOMAIN repo' = Fields' /\ Len(repo'.dirs) = n + 1 /\ n \in Nat
      /\ DOMAIN repo.dirs = 1..n /\ DOMAIN repo'.dirs = 1..(n + 1)
      /\ \A d \in 1..n : repo'.dirs[d] = repo.dirs[d]
      /\ {"parent", "name", "strong"} \subseteq DOMAIN repo'.dirs[n + 1]
      /\ repo'.dirs[n + 1].parent = parent /\ repo'.dirs[n + 1].name = name
      /\ in.repo = "mem" => repo'.root = IF parent = NoNode THEN n + 1 ELSE repo.root
  <2>1. DOMAIN repo' = Fields
    BY <1>1, <1>2, AddDirRow
  <2>2. in.repo = "mem" => repo'.root = IF parent = NoNode THEN n + 1 ELSE repo.root
    BY <1>1, <1>2, AddDirRow
  <2>3. Fields' = Fields
    BY DEF Fields
  <2> QED BY <1>3, <2>1, <2>2, <2>3, RowAdded DEF Tables
<1>5. /\ DOMAIN dirMap' = DOMAIN dirMap \cup {text} /\ dirMap'[text] = n + 1
      /\ \A u \in DOMAIN dirMap : dirMap'[u] = dirMap[u]
  BY <1>2, <1>4 DEF Put
<1>6. p # <<>> => /\ parent \in 1..n /\ ParentDir(p) \in DOMAIN in.tree
                  /\ DirAt(parent, ParentDir(p))
  BY InputFacts DEF Tables, DirAt, IsDir, Exists
<1>7. \A q : Text(q)' = Text(q)
  BY DEF Text
<1>8. \A d : \A q \in DOMAIN in.tree : DirAt(d, q)' <=> DirAt(d, q) \/ (q = p /\ d = n + 1)
  <2> SUFFICES ASSUME NEW d, NEW q \in DOMAIN in.tree
               PROVE  DirAt(d, q)' <=> DirAt(d, q) \/ (q = p /\ d = n + 1)
    OBVIOUS
  <2>1. Text(q) = text <=> q = p
    BY <1>1, TextInjective
  <2>2. DirAt(d, q)' <=> /\ IsDir(in.tree, q) /\ Text(q) \in DOMAIN dirMap'
                         /\ dirMap'[Text(q)] = d
    BY <1>7 DEF DirAt
  <2> QED BY <1>5, <2>1, <2>2 DEF DirAt
<1>9. ASSUME NEW d \in 1..n, NEW q \in DOMAIN in.tree, DirAt(d, q), RowRight(d, q)
      PROVE  DirAt(d, q)' /\ RowRight(d, q)'
  <2>1. q # <<>> => ParentDir(q) \in DOMAIN in.tree
    BY InputFacts DEF IsDir, Exists
  <2> QED BY <1>4, <1>8, <1>9, <2>1 DEF RowRight
<1>10. DirAt(n + 1, p)' /\ RowRight(n + 1, p)'
  <2>1. p # <<>> => parent < n + 1
    BY <1>4, <1>6
  <2>2. DirAt(n + 1, p)'
    BY <1>8
  <2>3. p # <<>> => DirAt(parent, ParentDir(p))'
    BY <1>6, <1>8
  <2> QED BY <1>4, <2>1, <2>2, <2>3 DEF RowRight
<1>11. DirsPlaced'
  <2>1. \A u \in DOMAIN dirMap' : \E q \in DOMAIN in.tree : u = Text(q) /\ IsDir(in.tree, q)
    BY <1>1, <1>5 DEF DirsPlaced
  <2>2. \A d \in 1..n : \E q \in DOMAIN in.tree : DirAt(d, q)' /\ RowRight(d, q)'
    BY <1>1, <1>4, <1>9 DEF DirsPlaced
  <2>3. \A d \in 1..(n + 1) : d \in 1..n \/ d = n + 1
    BY <1>4
  <2>4. \A d \in 1..(n + 1) : \E q \in DOMAIN in.tree : DirAt(d, q)' /\ RowRight(d, q)'
    BY <1>10, <2>2, <2>3
  <2> QED BY <1>4, <1>7, <2>1, <2>4 DEF DirsPlaced
<1>12. repo'.files = repo.files /\ \A f \in DOMAIN repo.files : \A q \in DOMAIN in.tree :
                                     NodeOf(f, q)' <=> NodeOf(f, q)
  BY EnteredFacts, EnterKeepsNodes
<1>13. FilesPlaced'
  BY <1>1, <1>12 DEF FilesPlaced
<1>14. Counted'
  <2>1. Indexed' = Indexed \cup {p}
    BY EnterIndexes
  <2>2. p \notin Indexed
    BY IndexedFacts DEF Tables, NodeOf, IsDir
  <2>3. IsFiniteSet(Indexed)
    <3>1. IsFiniteSet(DOMAIN in.tree)
      BY DEF IsInput, IsTree
    <3> QED BY <3>1, IndexedFacts, FS_Subset
  <2>4. Cardinality(Indexed \cup {p}) = Cardinality(Indexed) + 1
    BY <2>2, <2>3, FS_AddElement
  <2>5. Len(repo.files) \in Nat
    BY LenProperties DEF Tables
  <2>6. Cardinality(Indexed') = Cardinality(Indexed) + 1
    BY <2>1, <2>4
  <2>7. Len(repo'.dirs) = n + 1 /\ Len(repo'.files) = Len(repo.files) /\ n \in Nat
    BY <1>4, <1>12
  <2>8. n + Len(repo.files) = Cardinality(Indexed)
    BY <1>1 DEF Counted
  <2>9. Len(repo'.dirs) + Len(repo'.files) = Cardinality(Indexed')
    <3> DEFINE c == Cardinality(Indexed)
               l == Len(repo.files)
    <3>1. l \in Nat /\ n \in Nat /\ n + l = c
      BY <2>5, <2>7, <2>8
    <3> HIDE DEF c, l
    <3>2. (n + 1) + l = c + 1
      BY <3>1
    <3> QED BY <2>6, <2>7, <3>2 DEF c, l
  <2> QED BY <2>9 DEF Counted
<1>15. in.repo = "mem" => repo'.root = IF p = <<>> THEN dirMap'[Text(p)] ELSE repo.root
  BY <1>4, <1>5, <1>6 DEF NoNode
<1> QED BY <1>4, <1>8, <1>11, <1>13, <1>14, <1>15

\* VisitFile puts the file where it belongs.
LEMMA AddPlaces ==
  ASSUME Tables, Places, IsInput(in), NEW p \in DOMAIN in.tree, IsFile(in.tree, p),
         p \notin Indexed,
         Text(ParentDir(p)) \in DOMAIN dirMap, in' = in, dirMap' = dirMap, root' = root,
         repo' = AddFile(repo, dirMap[Text(ParentDir(p))], <<Last(p)>>, in.tree[p])
  PROVE  /\ Places'
         /\ \A d, q : DirAt(d, q)' <=> DirAt(d, q)
         /\ \A f \in DOMAIN repo'.files : \A q \in DOMAIN in.tree :
              NodeOf(f, q)' => \/ f \in DOMAIN repo.files /\ NodeOf(f, q)
                               \/ q = p /\ f = Len(repo.files) + 1
<1> PICK n, text : n = Len(repo.files) /\ text = Text(ParentDir(p))
  OBVIOUS
<1>1. /\ repo'.dirs = repo.dirs
      /\ repo'.files \in Seq(Range(repo'.files))
      /\ n \in Nat /\ DOMAIN repo.files = 1..n /\ DOMAIN repo'.files = 1..(n + 1)
      /\ \A f \in 1..n : repo'.files[f] = repo.files[f]
      /\ repo'.files[n + 1].parent = dirMap[text]
      /\ repo'.files[n + 1].name = <<Last(p)>>
      /\ repo'.files[n + 1].contents = in.tree[p]
  BY AddFileFacts
<1>2. /\ DirsPlaced /\ FilesPlaced /\ Counted /\ RootPlaced
      /\ dirMap[text] \in 1..Len(repo.dirs) /\ dirMap[text] # NoNode
  BY DEF Places, Tables, NoNode
<1>3. Len(repo'.files) = n + 1
  BY <1>1, LenProperties
<1>4. /\ \A q : Text(q)' = Text(q)
      /\ \A d, q : DirAt(d, q)' <=> DirAt(d, q)
      /\ \A d, q : RowRight(d, q)' <=> RowRight(d, q)
  BY <1>1 DEF Text, DirAt, RowRight
<1>5. DirsPlaced'
  BY <1>1, <1>2, <1>4 DEF DirsPlaced
<1>6. \A f \in 1..n : \A q \in DOMAIN in.tree : NodeOf(f, q)' <=> NodeOf(f, q)
  BY <1>1, <1>4 DEF NodeOf
<1>7. NodeOf(n + 1, p)'
  BY <1>1, <1>4 DEF NodeOf
<1>8. ASSUME NEW q \in DOMAIN in.tree, NodeOf(n + 1, q)'  PROVE q = p
  <2>1. /\ Text(ParentDir(q)) \in DOMAIN dirMap /\ dirMap[text] = dirMap[Text(ParentDir(q))]
        /\ <<Last(p)>> = <<Last(q)>> /\ in.tree[p] = in.tree[q]
    BY <1>1, <1>4, <1>8 DEF NodeOf
  <2>2. text = Text(ParentDir(q))
    BY <2>1 DEF Tables, IsInjective
  <2>3. /\ p \in Path /\ q \in Path /\ IsDir(in.tree, <<>>)
        /\ ParentDir(p) \in Path /\ ParentDir(q) \in Path
    BY InputFacts, PrefixPath
  <2>4. ParentDir(p) = ParentDir(q)
    BY <2>2, <2>3, TextInjective
  <2>5. p # <<>> /\ q # <<>>
    BY <2>1, <2>3 DEF IsDir, IsFile
  <2>6. Last(p) = Last(q)
    BY <2>1
  <2> QED BY <2>3, <2>4, <2>5, <2>6, SameParentSameName
<1>9. \A f \in 1..n : ~NodeOf(f, p)
  BY <1>1, IndexedFacts
<1>10. \A f \in 1..(n + 1) : f \in 1..n \/ f = n + 1
  BY <1>1
<1>11. FilesPlaced'
  <2>1. \A f \in 1..(n + 1) : \E q \in DOMAIN in.tree : NodeOf(f, q)'
    BY <1>1, <1>2, <1>6, <1>7, <1>10 DEF FilesPlaced
  <2>2. ASSUME NEW f \in 1..(n + 1), NEW g \in 1..(n + 1), NEW q \in DOMAIN in.tree,
               NodeOf(f, q)', NodeOf(g, q)'
        PROVE  f = g
    <3>1. CASE f \in 1..n /\ g \in 1..n
      BY <1>1, <1>2, <1>6, <2>2, <3>1 DEF FilesPlaced
    <3>2. CASE q = p
      BY <1>6, <1>9, <1>10, <2>2, <3>2
    <3>3. q # p => f \in 1..n /\ g \in 1..n
      BY <1>8, <1>10, <2>2
    <3> QED BY <3>1, <3>2, <3>3
  <2> QED BY <1>1, <2>1, <2>2 DEF FilesPlaced
<1>12. Counted'
  <2>1. Indexed' = Indexed \cup {p}
    BY AddIndexes
  <2>2. IsFiniteSet(Indexed)
    <3>1. IsFiniteSet(DOMAIN in.tree)
      BY DEF IsInput, IsTree
    <3> QED BY <3>1, IndexedFacts, FS_Subset
  <2>3. Cardinality(Indexed \cup {p}) = Cardinality(Indexed) + 1
    BY <2>2, FS_AddElement
  <2>4. Len(repo.dirs) \in Nat
    BY LenProperties DEF Tables
  <2>5. Cardinality(Indexed') = Cardinality(Indexed) + 1
    BY <2>1, <2>3
  <2>6. Len(repo'.dirs) = Len(repo.dirs) /\ Len(repo'.files) = n + 1 /\ n \in Nat
    BY <1>1, <1>3
  <2>7. Len(repo.dirs) + n = Cardinality(Indexed)
    BY <1>2 DEF Counted
  <2>8. Len(repo'.dirs) + Len(repo'.files) = Cardinality(Indexed')
    <3> DEFINE c == Cardinality(Indexed)
               l == Len(repo.dirs)
    <3>1. l \in Nat /\ n \in Nat /\ l + n = c
      BY <2>4, <2>6, <2>7
    <3> HIDE DEF c, l
    <3>2. l + (n + 1) = c + 1
      BY <3>1
    <3> QED BY <2>5, <2>6, <3>2 DEF c, l
  <2> QED BY <2>8 DEF Counted
<1>13. RootPlaced'
  <2>1. DOMAIN repo' = Fields /\ (in.repo = "mem" => repo'.root = repo.root)
    BY <1>2, AddFileRoot DEF RootPlaced
  <2> QED BY <1>2, <1>4, <2>1 DEF RootPlaced, Fields
<1>14. \A f \in DOMAIN repo'.files : \A q \in DOMAIN in.tree :
         NodeOf(f, q)' => \/ f \in DOMAIN repo.files /\ NodeOf(f, q)
                          \/ q = p /\ f = n + 1
  BY <1>1, <1>6, <1>8, <1>10
<1> QED BY <1>4, <1>5, <1>11, <1>12, <1>13, <1>14 DEF Places

\* A step that changes at most the checksums of directories moves no node.
LEMMA RowsPlaced ==
  ASSUME Tables, Places, in' = in, dirMap' = dirMap, root' = root, repo'.files = repo.files,
         DOMAIN repo' = Fields, in.repo = "mem" => repo'.root = repo.root,
         DOMAIN repo'.dirs = DOMAIN repo.dirs, Len(repo'.dirs) = Len(repo.dirs),
         \A e \in DOMAIN repo.dirs : /\ DOMAIN repo'.dirs[e] = DOMAIN repo.dirs[e]
                                     /\ repo'.dirs[e].parent = repo.dirs[e].parent
                                     /\ repo'.dirs[e].name = repo.dirs[e].name
  PROVE  Places'
<1>1. /\ \A q : Text(q)' = Text(q)
      /\ \A d, q : DirAt(d, q)' <=> DirAt(d, q)
      /\ \A f, q : NodeOf(f, q)' <=> NodeOf(f, q)
  BY DEF Text, DirAt, NodeOf
<1>2. \A d \in DOMAIN repo.dirs : \A q : RowRight(d, q)' <=> RowRight(d, q)
  BY <1>1 DEF RowRight
<1>3. DirsPlaced' /\ FilesPlaced'
  BY <1>1, <1>2 DEF Places, DirsPlaced, FilesPlaced
<1>4. Counted'
  BY SameIndexed DEF Places, Counted
<1>5. RootPlaced'
  BY <1>1 DEF Places, RootPlaced, Fields
<1> QED BY <1>3, <1>4, <1>5 DEF Places

\* Every node is where it belongs, at all times.
LEMMA PlacesStep ==
  ASSUME IInv, Places, Step
  PROVE  Places'
<1>1. /\ Tables /\ Rooted /\ IndexInv /\ IsInput(in) /\ Control
      /\ DOMAIN in.tree \subseteq Path /\ Places /\ RootPlaced /\ in' = in
      /\ todo \subseteq DOMAIN in.tree
  BY InputFacts, ControlStep DEF IInv, Walk, Places
<1>2. \A q \in DOMAIN in.tree : IsDir(in.tree, q) => (q \in Indexed <=> Text(q) \in DOMAIN dirMap)
  BY <1>1, IndexedFacts DEF Tables, NodeOf, IsDir
<1>3. CASE \E p \in todo : WalkDir(p) \/ WalkDirUnreadable(p)
  <2> PICK p \in todo : WalkDir(p) \/ WalkDirUnreadable(p)
    BY <1>3
  <2>1. /\ walker = "walking" /\ root' = root
        /\ \A q \in todo \ {p} : AddedBefore(p, q)
    BY VisitFrame
  <2>2. /\ IsDir(in.tree, p) /\ repo' = Entered(p).repo /\ dirMap' = Entered(p).dirMap
        /\ p \in DOMAIN in.tree
    BY <1>1 DEF WalkDir, WalkDirUnreadable
  <2>3. p # <<>> => Text(ParentDir(p)) \in DOMAIN dirMap
    BY <1>1, <1>2, <2>1, <2>2, NextReadable, InputFacts DEF IndexInv, IsDir, Exists
  <2>4. root # NoNode
    BY <1>1, <2>1, <2>2 DEF Rooted
  <2>5. CASE Text(p) \in DOMAIN dirMap
    <3>1. repo' = repo /\ dirMap' = dirMap
      BY <2>2, <2>5 DEF Entered
    <3> QED BY <1>1, <2>1, <3>1, RowsPlaced DEF RootPlaced
  <2>6. CASE Text(p) \notin DOMAIN dirMap
    <3>1. p # <<>>
      BY <1>1, <2>4, <2>6 DEF RootPlaced, DirAt
    <3>2. /\ DirsPlaced' /\ FilesPlaced' /\ Counted' /\ DOMAIN repo' = Fields'
          /\ in.repo = "mem" => repo'.root = repo.root
          /\ \A d : \A q \in DOMAIN in.tree :
               DirAt(d, q)' <=> DirAt(d, q) \/ (q = p /\ d = Len(repo.dirs) + 1)
      BY <1>1, <2>2, <2>3, <2>6, <3>1, EnterPlaces
    <3>3. DirAt(root, <<>>) /\ <<>> \in DOMAIN in.tree
      BY <1>1, <2>4 DEF RootPlaced, DirAt
    <3>4. DirAt(root, <<>>)'
      BY <2>1, <3>2, <3>3 DEF DirAt
    <3>5. RootPlaced'
      BY <1>1, <2>1, <3>2, <3>4 DEF RootPlaced
    <3> QED BY <3>2, <3>5 DEF Places
  <2> QED BY <2>5, <2>6
<1>4. CASE \E p \in todo : WalkFile(p)
  <2> PICK p \in todo : WalkFile(p)
    BY <1>4
  <2>1. /\ walker = "walking" /\ root' = root
        /\ \A q \in todo \ {p} : AddedBefore(p, q)
    BY VisitFrame
  <2>2. IsFile(in.tree, p) /\ p \in DOMAIN in.tree /\ p # <<>>
    BY <1>1, InputFacts DEF WalkFile, IsDir, IsFile
  <2>3. IsDir(in.tree, ParentDir(p)) /\ Text(ParentDir(p)) \in DOMAIN dirMap
    BY <1>1, <1>2, <2>1, <2>2, NextReadable, InputFacts DEF IndexInv, IsDir, Exists
  <2>4. Entered(ParentDir(p)).repo = repo /\ Entered(ParentDir(p)).dirMap = dirMap
    BY <2>3 DEF Entered
  <2>5. /\ repo' = AddFile(repo, dirMap[Text(ParentDir(p))], <<Last(p)>>, in.tree[p])
        /\ dirMap' = dirMap
    BY <2>4 DEF WalkFile
  <2>6. p \notin Indexed
    BY <1>1, <2>1, <2>2, NextReadable DEF IndexInv
  <2> QED BY <1>1, <2>1, <2>2, <2>3, <2>5, <2>6, AddPlaces
<1>5. CASE InitWalk /\ DOMAIN in.tree # {}
  <2>1. IsDir(in.tree, <<>>) /\ <<>> \in DOMAIN in.tree
    BY <1>1, <1>5, InputFacts DEF IsDir, Exists
  <2>2. repo' = Entered(<<>>).repo /\ dirMap' = Entered(<<>>).dirMap /\ root' = dirMap'[in.root]
    BY <1>5 DEF InitWalk
  <2>3. walker = "idle"
    BY <1>1, <1>5 DEF InitWalk, Control
  <2>4. Text(<<>>) \notin DOMAIN dirMap
    BY <1>1, <1>2, <2>1, <2>3 DEF IndexInv, Visited
  <2>5. /\ DirsPlaced' /\ FilesPlaced' /\ Counted' /\ DOMAIN repo' = Fields'
        /\ in.repo = "mem" => repo'.root = dirMap'[Text(<<>>)]
    BY <1>1, <2>1, <2>2, <2>4, EnterPlaces
  <2>6. Text(<<>>) = in.root /\ Text(<<>>)' = in.root
    BY <1>1, InputFacts, ConcatEmptySeq DEF Text
  <2>7. Text(<<>>) \in DOMAIN dirMap'
    BY <1>1, <2>2, EnteredFacts
  <2>8. DirAt(root, <<>>)'
    BY <1>1, <2>1, <2>2, <2>6, <2>7 DEF DirAt
  <2>9. RootPlaced'
    BY <1>1, <2>2, <2>5, <2>6, <2>8 DEF RootPlaced
  <2> QED BY <2>5, <2>9 DEF Places
<1>6. CASE \E d \in stale : UpdateDir(d)
  <2> PICK d \in stale : UpdateDir(d)
    BY <1>6
  <2>1. /\ repo' = IF in.repo = "mem" THEN MemRekey(repo, d) ELSE DbUpdateRow(repo, d)
        /\ d \in DOMAIN repo.dirs /\ dirMap' = dirMap /\ root' = root
    BY <1>1 DEF UpdateDir, Rooted
  <2>2. /\ repo'.files = repo.files /\ Len(repo'.dirs) = Len(repo.dirs)
    BY <1>1, <2>1, UpdateFacts
  <2>3. \A e \in DOMAIN repo.dirs : {"parent", "name", "strong"} \subseteq DOMAIN repo.dirs[e]
    BY <1>1 DEF Places, DirsPlaced, RowRight
  <2>4. /\ DOMAIN repo' = Fields /\ (in.repo = "mem" => repo'.root = repo.root)
        /\ DOMAIN repo'.dirs = DOMAIN repo.dirs
        /\ \A e \in DOMAIN repo.dirs :
              /\ DOMAIN repo'.dirs[e] = DOMAIN repo.dirs[e]
              /\ repo'.dirs[e].parent = repo.dirs[e].parent
              /\ repo'.dirs[e].name = repo.dirs[e].name
    BY <1>1, <2>1, <2>3, UpdateRow DEF RootPlaced
  <2> QED BY <1>1, <2>1, <2>2, <2>4, RowsPlaced
<1>7. CASE UNCHANGED <<repo, dirMap, root>>
  BY <1>1, <1>7, RowsPlaced DEF RootPlaced
<1>8. CASE \/ \E p \in todo : WalkFileUnreadable(p) \/ WalkFileFiltered(p)
           \/ InitWalk /\ DOMAIN in.tree = {}
           \/ SendError \/ WalkDone \/ AwaitWalk \/ IndexReturns \/ SendDir \/ CloseErrors
           \/ RecvError \/ ErrorsEnd \/ RecvDir
  BY <1>7, <1>8 DEF WalkFileUnreadable, WalkFileFiltered, Visit, InitWalk, SendError, WalkDone,
     AwaitWalk, IndexReturns, SendDir, CloseErrors, RecvError, ErrorsEnd, RecvDir, repoVars
<1> QED BY <1>3, <1>4, <1>5, <1>6, <1>8 DEF Step

LEMMA PlacesInit ==
  ASSUME Init
  PROVE  Places
<1>1. IInv
  BY InitInv
<1>2. Indexed = {} /\ IsInput(in) /\ root = NoNode
  BY <1>1 DEF IInv, IndexInv, Visited, Init, Walk
<1>3. /\ repo.dirs = <<>> /\ repo.files = <<>> /\ DOMAIN repo = Fields /\ dirMap = <<>>
      /\ in.repo = "mem" => repo.root = root
  BY <1>2 DEF Init, NewMemRepo, NewDbRepo, Fields, IsInput
<1>4. /\ Len(repo.dirs) = 0 /\ DOMAIN repo.dirs = {} /\ Len(repo.files) = 0
      /\ DOMAIN repo.files = {} /\ DOMAIN dirMap = {}
  <2> DEFINE none == <<>>
  <2>1. repo.dirs = none /\ repo.files = none /\ dirMap = none
    BY <1>3
  <2>2. Len(none) = 0 /\ DOMAIN none = {}
    BY EmptySeq
  <2> HIDE DEF none
  <2> QED BY <2>1, <2>2
<1>5. Cardinality(Indexed) = 0
  BY <1>2, FS_EmptySet
<1>6. DirsPlaced /\ FilesPlaced
  BY <1>4 DEF DirsPlaced, FilesPlaced
<1>7. Counted /\ RootPlaced
  BY <1>2, <1>3, <1>4, <1>5 DEF Counted, RootPlaced
<1> QED BY <1>6, <1>7 DEF Places

-----------------------------------------------------------------------------
(* What the nodes' parents make of them.                                   *)

\* A path is its parent's with its last name.
LEMMA ParentAndName ==
  ASSUME NEW p \in Path, p # <<>>
  PROVE  ParentDir(p) \o <<Last(p)>> = p /\ Last(p) \in Name
<1>1. /\ Len(p) \in Nat \ {0} /\ Len(ParentDir(p)) = Len(p) - 1 /\ p \in Seq(Name)
      /\ ParentDir(p) \in Seq(Name) /\ \A i \in 1..(Len(p) - 1) : ParentDir(p)[i] = p[i]
  BY ParentFacts DEF Path
<1>2. Last(p) = p[Len(p)] /\ Last(p) \in Name
  BY <1>1, ElementOfSeq DEF Last
<1>3. <<Last(p)>> \in Seq(Name) /\ Len(<<Last(p)>>) = 1 /\ <<Last(p)>>[1] = Last(p)
  BY <1>2
<1> DEFINE s == ParentDir(p) \o <<Last(p)>>
<1>4. /\ s \in Seq(Name) /\ Len(s) = (Len(p) - 1) + 1
      /\ \A i \in 1..((Len(p) - 1) + 1) :
           s[i] = IF i <= Len(p) - 1 THEN ParentDir(p)[i] ELSE <<Last(p)>>[i - (Len(p) - 1)]
  BY <1>1, <1>3, ConcatProperties
<1> HIDE DEF s
<1>5. ASSUME NEW i \in 1..Len(s)  PROVE s[i] = p[i]
  <2>1. CASE i <= Len(p) - 1
    BY <1>1, <1>4, <2>1
  <2>2. CASE i = Len(p)
    <3>1. i - (Len(p) - 1) = 1 /\ ~(i <= Len(p) - 1)
      BY <1>1, <2>2
    <3> QED BY <1>1, <1>2, <1>3, <1>4, <2>2, <3>1
  <2> QED BY <1>1, <1>4, <2>1, <2>2
<1>6. s = p
  BY <1>1, <1>4, <1>5, SeqEqual
<1> QED BY <1>2, <1>6 DEF s

\* A node has one entry.
LEMMA OneEntry ==
  ASSUME Tables, IsInput(in), NEW p \in DOMAIN in.tree, NEW q \in DOMAIN in.tree
  PROVE  /\ \A d : DirAt(d, p) /\ DirAt(d, q) => p = q
         /\ \A f \in DOMAIN repo.files : NodeOf(f, p) /\ NodeOf(f, q) => p = q
<1>1. /\ p \in Path /\ q \in Path /\ IsDir(in.tree, <<>>)
      /\ ParentDir(p) \in Path /\ ParentDir(q) \in Path
  BY InputFacts, PrefixPath
<1>2. ASSUME NEW d, DirAt(d, p), DirAt(d, q)  PROVE p = q
  <2>1. Text(p) = Text(q)
    BY <1>2 DEF DirAt, Tables, IsInjective
  <2> QED BY <1>1, <2>1, TextInjective
<1>3. ASSUME NEW f \in DOMAIN repo.files, NodeOf(f, p), NodeOf(f, q)  PROVE p = q
  <2>1. Text(ParentDir(p)) = Text(ParentDir(q))
    BY <1>3 DEF NodeOf, Tables, IsInjective
  <2>2. ParentDir(p) = ParentDir(q)
    BY <1>1, <2>1, TextInjective
  <2>3. <<Last(p)>> = <<Last(q)>> /\ in.tree[p] # Dir /\ in.tree[q] # Dir
    BY <1>3 DEF NodeOf, Tables
  <2>4. Last(p) = Last(q) /\ p # <<>> /\ q # <<>>
    BY <1>1, <2>3 DEF IsDir
  <2> QED BY <1>1, <2>2, <2>4, SameParentSameName
<1> QED BY <1>2, <1>3

\* The path that a directory's parents make is its entry's.
LEMMA DirPaths ==
  ASSUME Tables, Places, IsInput(in)
  PROVE  /\ DOMAIN DirPath(repo) = DOMAIN repo.dirs
         /\ \A d \in DOMAIN repo.dirs : LET p == DirPath(repo)[d]
                                        IN  /\ p \in DOMAIN in.tree /\ p \in Path
                                            /\ DirAt(d, p) /\ RowRight(d, p)
<1> DEFINE D    == DOMAIN repo.dirs
           path == CHOOSE f : f = [d \in D |-> NodePath(f, repo.dirs[d])]
           at   == [d \in D |-> CHOOSE p \in DOMAIN in.tree : DirAt(d, p) /\ RowRight(d, p)]
<1>1. /\ D = 1..Len(repo.dirs) /\ Len(repo.dirs) \in Nat
      /\ DOMAIN in.tree \subseteq Path
  BY LenProperties, InputFacts DEF Tables
<1>2. \A d \in D : at[d] \in DOMAIN in.tree /\ DirAt(d, at[d]) /\ RowRight(d, at[d])
  <2> SUFFICES ASSUME NEW d \in D
               PROVE  at[d] \in DOMAIN in.tree /\ DirAt(d, at[d]) /\ RowRight(d, at[d])
    OBVIOUS
  <2>1. \E p \in DOMAIN in.tree : DirAt(d, p) /\ RowRight(d, p)
    BY DEF Places, DirsPlaced
  <2>2. at[d] = CHOOSE p \in DOMAIN in.tree : DirAt(d, p) /\ RowRight(d, p)
    OBVIOUS
  <2> HIDE DEF at
  <2> QED BY <2>1, <2>2, Zenon
<1> HIDE DEF at
<1>3. ASSUME NEW d \in D
      PROVE  /\ repo.dirs[d].parent # NoNode => /\ repo.dirs[d].parent \in D
                                                /\ repo.dirs[d].parent < d
             /\ at[d] = NodePath(at, repo.dirs[d])
  <2>1. at[d] \in DOMAIN in.tree /\ at[d] \in Path /\ DirAt(d, at[d]) /\ RowRight(d, at[d])
    BY <1>1, <1>2
  <2>2. CASE at[d] = <<>>
    BY <2>1, <2>2 DEF RowRight, NodePath
  <2>3. CASE at[d] # <<>>
    <3> DEFINE u == repo.dirs[d].parent
    <3>1. u < d /\ DirAt(u, ParentDir(at[d])) /\ repo.dirs[d].name = <<Last(at[d])>>
      BY <2>1, <2>3 DEF RowRight
    <3>2. u \in D /\ u # NoNode
      BY <1>1, <3>1 DEF DirAt, Tables, NoNode
    <3>3. at[u] = ParentDir(at[d])
      BY <1>2, <3>1, <3>2, OneEntry DEF DirAt
    <3>4. at[d] = at[u] \o repo.dirs[d].name
      BY <2>1, <2>3, <3>1, <3>3, ParentAndName
    <3> QED BY <3>1, <3>2, <3>4 DEF NodePath
  <2> QED BY <2>2, <2>3
<1>4. at = [d \in D |-> NodePath(at, repo.dirs[d])]
  <2>1. at = [d \in D |-> at[d]]
    BY DEF at
  <2> QED BY <1>3, <2>1
<1>5. path = [d \in D |-> NodePath(path, repo.dirs[d])]
  BY <1>4, Zenon
<1>6. DirPath(repo) = path
  BY DEF DirPath
<1> HIDE DEF path
<1> DEFINE S == {n \in Nat : \A d \in D : d <= n => path[d] = at[d]}
<1>7. 0 \in S
  BY <1>1
<1>8. ASSUME NEW n \in Nat, n \in S  PROVE n + 1 \in S
  <2> SUFFICES ASSUME NEW d \in D, d = n + 1  PROVE path[d] = at[d]
    BY <1>1, <1>8
  <2>1. path[d] = NodePath(path, repo.dirs[d])
    BY <1>5
  <2>2. repo.dirs[d].parent # NoNode => path[repo.dirs[d].parent] = at[repo.dirs[d].parent]
    BY <1>1, <1>3, <1>8
  <2> QED BY <1>3, <2>1, <2>2 DEF NodePath
<1>9. Nat \subseteq S
  <2> HIDE DEF S
  <2> QED BY <1>7, <1>8, SetInduction
<1>10. \A d \in D : path[d] = at[d]
  BY <1>1, <1>9
<1>11. DOMAIN path = D
  BY <1>5
<1> QED BY <1>1, <1>2, <1>6, <1>10, <1>11

\* So is the path that a file's parents make.
LEMMA FilePaths ==
  ASSUME Tables, Places, IsInput(in)
  PROVE  /\ DOMAIN FilePath(repo) = DOMAIN repo.files
         /\ \A f \in DOMAIN repo.files : LET p == FilePath(repo)[f]
                                         IN  /\ p \in DOMAIN in.tree /\ p \in Path
                                             /\ IsFile(in.tree, p) /\ NodeOf(f, p)
<1>1. DOMAIN FilePath(repo) = DOMAIN repo.files
  BY DEF FilePath
<1>2. ASSUME NEW f \in DOMAIN repo.files
      PROVE  \E p \in DOMAIN in.tree : /\ FilePath(repo)[f] = p /\ p \in Path
                                       /\ IsFile(in.tree, p) /\ NodeOf(f, p)
  <2>1. PICK p \in DOMAIN in.tree : NodeOf(f, p)
    BY DEF Places, FilesPlaced
  <2>2. p \in Path /\ IsFile(in.tree, p) /\ p # <<>>
    BY <2>1, InputFacts DEF NodeOf, Tables, IsFile, IsDir, Exists
  <2> DEFINE u == repo.files[f].parent
  <2>3. DirAt(u, ParentDir(p)) /\ u \in DOMAIN repo.dirs /\ u # NoNode
    BY <2>1, <2>2, InputFacts, LenProperties DEF NodeOf, Tables, DirAt, IsDir, Exists, NoNode
  <2>4. DirPath(repo)[u] = ParentDir(p)
    BY <2>3, DirPaths, OneEntry DEF DirAt
  <2>5. FilePath(repo)[f] = DirPath(repo)[u] \o <<Last(p)>>
    BY <2>1, <2>3 DEF FilePath, NodePath, NodeOf
  <2> QED BY <2>1, <2>2, <2>4, <2>5, ParentAndName
<1> QED BY <1>1, <1>2

\* Every entry in the index has its node.
LEMMA EntriesFound ==
  ASSUME Tables, Places, IsInput(in), NEW p \in DOMAIN in.tree
  PROVE  p \in Indexed <=> \/ \E d \in DOMAIN repo.dirs : DirPath(repo)[d] = p
                           \/ \E f \in DOMAIN repo.files : FilePath(repo)[f] = p
<1>1. ASSUME IsDir(in.tree, p), Text(p) \in DOMAIN dirMap
      PROVE  \E d \in DOMAIN repo.dirs : DirPath(repo)[d] = p
  <2> DEFINE d == dirMap[Text(p)]
  <2>1. d \in DOMAIN repo.dirs /\ DirAt(d, p)
    BY <1>1, LenProperties DEF Tables, DirAt
  <2>2. DirPath(repo)[d] = p
    BY <2>1, DirPaths, OneEntry
  <2> QED BY <2>1, <2>2
<1>2. ASSUME NEW f \in DOMAIN repo.files, NodeOf(f, p)  PROVE FilePath(repo)[f] = p
  BY <1>2, FilePaths, OneEntry
<1>3. ASSUME NEW d \in DOMAIN repo.dirs, DirPath(repo)[d] = p
      PROVE  IsDir(in.tree, p) /\ Text(p) \in DOMAIN dirMap
  BY <1>3, DirPaths DEF DirAt
<1>4. ASSUME NEW f \in DOMAIN repo.files, FilePath(repo)[f] = p  PROVE NodeOf(f, p)
  BY <1>4, FilePaths
<1> QED BY <1>1, <1>2, <1>3, <1>4, IndexedFacts

\* The tree of the nodes is what is in the index of the tree that was walked.
LEMMA NodesMakeTree ==
  ASSUME Tables, Places, IsInput(in)
  PROVE  TreeOf(repo) = [p \in Indexed |-> in.tree[p]]
<1> DEFINE dirs  == DirPath(repo)
           files == FilePath(repo)
           value(p) == IF p \in Range(files)
                       THEN repo.files[CHOOSE f \in DOMAIN files : files[f] = p].contents
                       ELSE Dir
<1>1. TreeOf(repo) = [p \in Range(dirs) \cup Range(files) |-> value(p)]
  BY DEF TreeOf
<1>2. /\ \A p : p \in Range(dirs) <=> \E d \in DOMAIN repo.dirs : dirs[d] = p
      /\ \A p : p \in Range(files) <=> \E f \in DOMAIN repo.files : files[f] = p
  BY DirPaths, FilePaths DEF Range
<1>3. Range(dirs) \cup Range(files) = Indexed
  BY <1>2, DirPaths, FilePaths, EntriesFound, IndexedFacts
<1>4. ASSUME NEW p \in Indexed  PROVE value(p) = in.tree[p]
  <2>1. CASE p \in Range(files)
    <3>1. \E f \in DOMAIN files : files[f] = p
      BY <2>1 DEF Range
    <3>2. PICK g : g = CHOOSE f \in DOMAIN files : files[f] = p
      OBVIOUS
    <3>3. g \in DOMAIN files /\ files[g] = p
      BY <3>1, <3>2, Zenon
    <3>4. repo.files[g].contents = in.tree[p]
      BY <3>3, FilePaths DEF NodeOf
    <3>5. value(p) = repo.files[g].contents
      BY <2>1, <3>2
    <3> QED BY <3>4, <3>5
  <2>2. CASE p \notin Range(files)
    <3>1. \E d \in DOMAIN repo.dirs : dirs[d] = p
      BY <1>2, <1>3, <2>2
    <3>2. in.tree[p] = Dir
      BY <3>1, DirPaths DEF DirAt, IsDir
    <3> QED BY <2>2, <3>2
  <2> QED BY <2>1, <2>2
<1> HIDE DEF value
<1> QED BY <1>1, <1>3, <1>4

LEMMA PlacesInv == Spec => [](IInv /\ Places)
<1>1. Init => IInv /\ Places
  BY InitInv, PlacesInit
<1>2. IInv /\ Places /\ [Next]_vars => IInv' /\ Places'
  <2> SUFFICES ASSUME IInv, Places, [Next]_vars  PROVE Places'
    BY StepInv
  <2>1. CASE UNCHANGED vars
    <3>1. UNCHANGED <<in, repo, dirMap, root>>
      BY <2>1 DEF vars, repoVars
    <3> QED BY <3>1, RowsPlaced DEF IInv, Places, RootPlaced
  <2>2. CASE Next
    BY <2>2, StepIsNext, PlacesStep
  <2> QED BY <2>1, <2>2
<1> QED BY <1>1, <1>2, PTL DEF Spec

\* Whatever is indexed, at all times every node is found under its own path, with its own
\* contents, and no entry has two (index.go:104-122, node.go:36-45).
THEOREM NodesAlwaysInPlace == Spec => []NodesInPlace
<1>1. IInv /\ Places => NodesInPlace
  BY NodesMakeTree DEF IInv, Walk, NodesInPlace, Places, Counted
<1> QED BY <1>1, PlacesInv, PTL

\* The start of a path is the start before it with the next name.
LEMMA Starts ==
  ASSUME NEW p \in Path, NEW i \in 1..Len(p)
  PROVE  LET q == SubSeq(p, 1, i)
         IN  /\ q \in Path /\ q # <<>> /\ SubSeq(p, 1, i - 1) \in Path
             /\ ParentDir(q) = SubSeq(p, 1, i - 1) /\ Last(q) = p[i]
<1> DEFINE q == SubSeq(p, 1, i)
           u == SubSeq(p, 1, i - 1)
<1>1. p \in Seq(Name) /\ Len(p) \in Nat /\ i \in Nat \ {0} /\ i <= Len(p)
      /\ \A j \in 1..Len(p) : p[j] \in Name
  BY LenProperties, ElementOfSeq DEF Path
<1>2. q \in Seq(Name) /\ Len(q) = i /\ \A j \in 1..i : q[j] = p[j]
  BY <1>1, SubSeqProperties
<1>3. u \in Seq(Name) /\ Len(u) = i - 1 /\ \A j \in 1..(i - 1) : u[j] = p[j]
  BY <1>1, SubSeqProperties
<1> HIDE DEF q, u
<1>4. q # <<>>
  BY <1>1, <1>2
<1>5. /\ ParentDir(q) \in Seq(Name) /\ Len(ParentDir(q)) = i - 1
      /\ \A j \in 1..(i - 1) : ParentDir(q)[j] = q[j]
  BY <1>2, <1>4, ParentFacts DEF Path
<1>6. ParentDir(q) = u
  BY <1>1, <1>2, <1>3, <1>5, SeqEqual
<1>7. Last(q) = p[i]
  BY <1>1, <1>2 DEF Last
<1> QED BY <1>2, <1>3, <1>4, <1>6, <1>7 DEF q, u, Path

\* Every row below a directory has the entry's name, and no other row has it.
LEMMA BelowByName ==
  ASSUME Tables, Places, IsInput(in), NEW p \in Path, p # <<>>
  PROVE  /\ \A d \in DOMAIN repo.dirs :
              DirPath(repo)[d] = p <=>
                \E u \in DOMAIN repo.dirs : /\ repo.dirs[d].parent = u
                                            /\ DirPath(repo)[u] = ParentDir(p)
                                            /\ repo.dirs[d].name = <<Last(p)>>
         /\ \A f \in DOMAIN repo.files :
              FilePath(repo)[f] = p <=>
                \E u \in DOMAIN repo.dirs : /\ repo.files[f].parent = u
                                            /\ DirPath(repo)[u] = ParentDir(p)
                                            /\ repo.files[f].name = <<Last(p)>>
<1>1. \A u, q : q \in DOMAIN in.tree /\ DirAt(u, q) =>
                u \in DOMAIN repo.dirs /\ DirPath(repo)[u] = q
  <2> SUFFICES ASSUME NEW u, NEW q \in DOMAIN in.tree, DirAt(u, q)
               PROVE  u \in DOMAIN repo.dirs /\ DirPath(repo)[u] = q
    OBVIOUS
  <2>1. u \in DOMAIN repo.dirs
    BY LenProperties DEF Tables, DirAt
  <2> QED BY <2>1, DirPaths, OneEntry
<1>2. ASSUME NEW d \in DOMAIN repo.dirs
      PROVE  DirPath(repo)[d] = p <=>
               \E u \in DOMAIN repo.dirs : /\ repo.dirs[d].parent = u
                                           /\ DirPath(repo)[u] = ParentDir(p)
                                           /\ repo.dirs[d].name = <<Last(p)>>
  <2> DEFINE u == repo.dirs[d].parent
  <2>1. PICK s : /\ s = DirPath(repo)[d] /\ s \in DOMAIN in.tree /\ s \in Path
                 /\ DirAt(d, s) /\ RowRight(d, s)
    BY DirPaths
  <2>2. CASE s = <<>>
    <3>1. repo.dirs[d].name = <<>> /\ <<Last(p)>> # <<>>
      BY <2>1, <2>2 DEF RowRight
    <3> QED BY <2>1, <2>2, <3>1
  <2>3. CASE s # <<>>
    <3>1. repo.dirs[d].name = <<Last(s)>> /\ DirAt(u, ParentDir(s))
      BY <2>1, <2>3 DEF RowRight
    <3>2. u \in DOMAIN repo.dirs /\ DirPath(repo)[u] = ParentDir(s)
      BY <1>1, <3>1 DEF DirAt
    <3>3. s = p <=> ParentDir(s) = ParentDir(p) /\ <<Last(s)>> = <<Last(p)>>
      <4>1. <<Last(s)>> = <<Last(p)>> => Last(s) = Last(p)
        OBVIOUS
      <4> QED BY <2>1, <2>3, <4>1, SameParentSameName
    <3> QED BY <2>1, <3>1, <3>2, <3>3
  <2> QED BY <2>2, <2>3
<1>3. ASSUME NEW f \in DOMAIN repo.files
      PROVE  FilePath(repo)[f] = p <=>
               \E u \in DOMAIN repo.dirs : /\ repo.files[f].parent = u
                                           /\ DirPath(repo)[u] = ParentDir(p)
                                           /\ repo.files[f].name = <<Last(p)>>
  <2> DEFINE u == repo.files[f].parent
  <2>1. PICK s : /\ s = FilePath(repo)[f] /\ s \in DOMAIN in.tree /\ s \in Path
                 /\ IsFile(in.tree, s) /\ NodeOf(f, s)
    BY FilePaths
  <2>2. s # <<>>
    BY <2>1, InputFacts DEF IsFile, IsDir, Exists
  <2>3. repo.files[f].name = <<Last(s)>> /\ DirAt(u, ParentDir(s))
    BY <2>1, <2>2, InputFacts DEF NodeOf, DirAt, IsDir, Exists
  <2>4. u \in DOMAIN repo.dirs /\ DirPath(repo)[u] = ParentDir(s)
    BY <1>1, <2>3 DEF DirAt
  <2>5. s = p <=> ParentDir(s) = ParentDir(p) /\ <<Last(s)>> = <<Last(p)>>
    <3>1. <<Last(s)>> = <<Last(p)>> => Last(s) = Last(p)
      OBVIOUS
    <3> QED BY <2>1, <2>2, <3>1, SameParentSameName
  <2> QED BY <2>1, <2>3, <2>4, <2>5
<1> QED BY <1>2, <1>3

\* From the root, Lookup descends along the path.
LEMMA LookupFinds ==
  ASSUME Tables, Places, IsInput(in), DirAt(root, <<>>), NEW p \in DOMAIN in.tree
  PROVE  LET files == {f \in DOMAIN repo.files : FilePath(repo)[f] = p}
             dirs  == {d \in DOMAIN repo.dirs : DirPath(repo)[d] = p}
         IN  Lookup(repo, root, p) = IF files # {} THEN [dir |-> FALSE, nodes |-> files]
                                     ELSE [dir |-> TRUE, nodes |-> dirs]
<1> DEFINE n    == Len(p)
           D    == DOMAIN repo.dirs
           next(S, i) == {sub \in D : repo.dirs[sub].parent \in S
                                      /\ repo.dirs[sub].name = <<p[i]>>}
           down == CHOOSE g : g = [i \in 0..n |-> IF i = 0 THEN {root} ELSE next(g[i - 1], i)]
           at   == [i \in 0..n |-> {sub \in D : DirPath(repo)[sub] = SubSeq(p, 1, i)}]
           below == {f \in DOMAIN repo.files : /\ n > 0 /\ repo.files[f].parent \in down[n - 1]
                                               /\ repo.files[f].name = <<p[n]>>}
<1>1. p \in Path /\ n \in Nat /\ root \in D /\ SubSeq(p, 1, n) = p /\ SubSeq(p, 1, 0) = <<>>
  <2>1. p \in Path /\ p \in Seq(Name)
    BY InputFacts DEF Path
  <2>2. root \in D
    BY LenProperties DEF Tables, DirAt
  <2> QED BY <2>1, <2>2, LenProperties, SubSeqFull, SubSeqEmpty
<1>2. at[0] = {root}
  <2>1. \A d \in D : DirPath(repo)[d] = <<>> <=> d = root
    BY DirPaths, OneEntry DEF DirAt
  <2>2. 0 \in 0..n
    BY <1>1
  <2>3. at[0] = {d \in D : DirPath(repo)[d] = SubSeq(p, 1, 0)}
    BY <2>2
  <2> QED BY <1>1, <2>1, <2>3
<1>3. ASSUME NEW i \in 1..n  PROVE at[i] = next(at[i - 1], i)
  <2> DEFINE q == SubSeq(p, 1, i)
  <2>1. q \in Path /\ q # <<>> /\ ParentDir(q) = SubSeq(p, 1, i - 1) /\ Last(q) = p[i]
    BY <1>1, Starts
  <2>2. \A d \in D : DirPath(repo)[d] = q <=> \E u \in D : /\ repo.dirs[d].parent = u
                                                           /\ DirPath(repo)[u] = ParentDir(q)
                                                           /\ repo.dirs[d].name = <<Last(q)>>
    BY <2>1, BelowByName
  <2>3. i - 1 \in 0..n /\ i \in 0..n
    <3> HIDE DEF n
    <3> QED BY <1>1
  <2>4. /\ at[i] = {d \in D : DirPath(repo)[d] = q}
        /\ at[i - 1] = {d \in D : DirPath(repo)[d] = SubSeq(p, 1, i - 1)}
    BY <2>3
  <2> HIDE DEF D, at, q
  <2> QED BY <2>1, <2>2, <2>4
<1>4. at = [i \in 0..n |-> IF i = 0 THEN {root} ELSE next(at[i - 1], i)]
  <2>1. at = [i \in 0..n |-> at[i]]
    OBVIOUS
  <2>2. \A i \in 0..n : at[i] = IF i = 0 THEN {root} ELSE next(at[i - 1], i)
    <3> HIDE DEF at, next, n
    <3> SUFFICES ASSUME NEW i \in 0..n, i # 0  PROVE at[i] = next(at[i - 1], i)
      BY <1>2
    <3>1. i \in 1..n
      BY <1>1
    <3> QED BY <1>3, <3>1
  <2> HIDE DEF at, next
  <2> QED BY <2>1, <2>2
<1>5. down = [i \in 0..n |-> IF i = 0 THEN {root} ELSE next(down[i - 1], i)]
  <2> HIDE DEF at, next
  <2> QED BY <1>4, Zenon
<1>6. Lookup(repo, root, p) = IF below # {} THEN [dir |-> FALSE, nodes |-> below]
                              ELSE [dir |-> TRUE, nodes |-> down[n]]
  BY DEF Lookup
<1>7. \A i \in 0..n : down[i] = at[i]
  <2> HIDE DEF at, next, down
  <2> DEFINE S == {k \in Nat : k <= n => down[k] = at[k]}
  <2>1. 0 \in S
    BY <1>1, <1>2, <1>5
  <2>2. ASSUME NEW k \in Nat, k \in S  PROVE k + 1 \in S
    <3> SUFFICES ASSUME k + 1 <= n  PROVE down[k + 1] = at[k + 1]
      OBVIOUS
    <3>1. k + 1 \in 1..n /\ k + 1 \in 0..n /\ k + 1 # 0 /\ (k + 1) - 1 = k /\ down[k] = at[k]
      BY <1>1, <2>2
    <3>2. down[k + 1] = next(down[(k + 1) - 1], k + 1)
      BY <1>5, <3>1
    <3>3. at[k + 1] = next(at[(k + 1) - 1], k + 1)
      BY <1>3, <3>1
    <3> QED BY <3>1, <3>2, <3>3
  <2>3. Nat \subseteq S
    <3> HIDE DEF S
    <3> QED BY <2>1, <2>2, SetInduction
  <2> QED BY <1>1, <2>3
<1> HIDE DEF down
<1>8. down[n] = {d \in DOMAIN repo.dirs : DirPath(repo)[d] = p}
  BY <1>1, <1>7
<1>9. below = {f \in DOMAIN repo.files : FilePath(repo)[f] = p}
  <2>1. CASE n = 0
    <3>1. p = <<>>
      BY <1>1, <2>1, EmptySeq DEF Path
    <3>2. \A f \in DOMAIN repo.files : FilePath(repo)[f] # p
      BY <3>1, FilePaths, InputFacts DEF IsFile, IsDir
    <3> QED BY <2>1, <3>2
  <2>2. CASE n # 0
    <3>1. n \in 1..n /\ n - 1 \in 0..n /\ n > 0 /\ p # <<>>
      BY <1>1, <2>2
    <3>2. ParentDir(p) = SubSeq(p, 1, n - 1) /\ Last(p) = p[n]
      BY <1>1, <3>1, Starts
    <3>3. down[n - 1] = {d \in D : DirPath(repo)[d] = ParentDir(p)}
      BY <1>7, <3>1, <3>2
    <3>4. \A f \in DOMAIN repo.files :
            FilePath(repo)[f] = p <=> \E u \in D : /\ repo.files[f].parent = u
                                                   /\ DirPath(repo)[u] = ParentDir(p)
                                                   /\ repo.files[f].name = <<Last(p)>>
      BY <1>1, <3>1, BelowByName
    <3> HIDE DEF D, n
    <3> QED BY <3>1, <3>2, <3>3, <3>4
  <2> QED BY <2>1, <2>2
<1> HIDE DEF below, n
<1> QED BY <1>6, <1>8, <1>9

\* Root finds the directory that was indexed, as soon as there is one.
LEMMA RootFound ==
  ASSUME IInv, Places
  PROVE  /\ RootNode = {root} \ {NoNode}
         /\ root # NoNode => DirAt(root, <<>>)
<1>1. root # NoNode => DirAt(root, <<>>)
  BY DEF Places, RootPlaced
<1>2. CASE in.repo = "mem"
  <2>1. repo.root = root
    BY <1>2 DEF Places, RootPlaced
  <2> QED BY <1>1, <1>2, <2>1 DEF RootNode
<1>3. CASE in.repo # "mem"
  <2> DEFINE top == {d \in DOMAIN repo.dirs : repo.dirs[d].parent = NoNode}
  <2>0. Tables /\ IsInput(in) /\ Len(repo.dirs) \in Nat /\ DOMAIN repo.dirs = 1..Len(repo.dirs)
    BY LenProperties DEF IInv, Tables, Walk
  <2>1. ASSUME NEW d \in DOMAIN repo.dirs
        PROVE  repo.dirs[d].parent = NoNode <=> DirAt(d, <<>>)
    <3>1. PICK p \in DOMAIN in.tree : DirAt(d, p) /\ RowRight(d, p)
      BY DEF Places, DirsPlaced
    <3>2. CASE p = <<>>
      BY <3>1, <3>2 DEF RowRight
    <3>3. CASE p # <<>>
      <4>1. DirAt(repo.dirs[d].parent, ParentDir(p))
        BY <3>1, <3>3 DEF RowRight
      <4>2. repo.dirs[d].parent # NoNode
        BY <2>0, <4>1 DEF DirAt, Tables, NoNode
      <4>3. ~DirAt(d, <<>>)
        BY <2>0, <3>1, <3>3, OneEntry DEF DirAt
      <4> QED BY <4>2, <4>3
    <3> QED BY <3>2, <3>3
  <2>2. top = {root} \ {NoNode}
    <3>1. CASE root = NoNode
      <4>1. Indexed = {} \/ DOMAIN in.tree = {}
        BY <3>1 DEF IInv, Rooted, IndexInv, Visited
      <4>2. \A d \in DOMAIN repo.dirs : ~DirAt(d, <<>>)
        BY <4>1, IndexedFacts DEF DirAt
      <4> QED BY <2>1, <3>1, <4>2
    <3>2. CASE root # NoNode
      <4>1. root \in DOMAIN repo.dirs
        BY <2>0, <3>2 DEF IInv, Rooted, NoNode
      <4>2. \A d : DirAt(d, <<>>) => d = root
        BY <1>1, <3>2 DEF DirAt
      <4> QED BY <1>1, <2>1, <3>2, <4>1, <4>2
    <3> QED BY <3>1, <3>2
  <2>3. root \in Nat
    BY <2>0 DEF IInv, Rooted
  <2>4. \A x, y \in top : x = y /\ x <= y
    BY <2>2, <2>3
  <2>5. First(top) = top
    <3> HIDE DEF top
    <3> QED BY <2>4 DEF First
  <2>6. RootNode = First(top)
    BY <1>3 DEF RootNode, DbRoot
  <2> HIDE DEF top
  <2> QED BY <1>1, <2>2, <2>5, <2>6
<1> QED BY <1>2, <1>3

\* Whatever is indexed, Root finds the directory, and Lookup from there each entry that is in
\* the index, by its path, and nothing by the path of one that is not (node.go:177-204,
\* repo.go:143, dbrepo.go:101-119).
THEOREM LookupsFind == Spec => []LookupsByPath
<1>1. ASSUME IInv, Places  PROVE LookupsByPath
  <2>0. Tables /\ IsInput(in)
    BY <1>1 DEF IInv, Walk
  <2>1. RootNode = {root} \ {NoNode}
    BY <1>1, RootFound
  <2>2. ASSUME NEW d \in RootNode, NEW p \in DOMAIN in.tree
        PROVE  LET found == Lookup(repo, d, p)
                   path  == IF found.dir THEN DirPath(repo) ELSE FilePath(repo)
               IN  {path[n] : n \in found.nodes} = {p} \cap Indexed
    <3>1. d = root /\ DirAt(root, <<>>)
      BY <1>1, <2>1, <2>2, RootFound
    <3> DEFINE files == {f \in DOMAIN repo.files : FilePath(repo)[f] = p}
               dirs  == {e \in DOMAIN repo.dirs : DirPath(repo)[e] = p}
               found == Lookup(repo, d, p)
               path  == IF found.dir THEN DirPath(repo) ELSE FilePath(repo)
    <3>2. found = IF files # {} THEN [dir |-> FALSE, nodes |-> files]
                  ELSE [dir |-> TRUE, nodes |-> dirs]
      BY <1>1, <2>0, <3>1, LookupFinds
    <3>3. p \in Indexed <=> files # {} \/ dirs # {}
      BY <1>1, <2>0, EntriesFound
    <3>4. CASE files # {}
      <4>1. found.nodes = files /\ path = FilePath(repo)
        BY <3>2, <3>4
      <4>2. \A f \in files : path[f] = p
        BY <4>1
      <4>3. p \in Indexed
        BY <3>3, <3>4
      <4>4. {path[n] : n \in found.nodes} = {p} \cap Indexed
        <5> HIDE DEF found, files, path
        <5> QED BY <3>4, <4>1, <4>2, <4>3
      <4> QED BY <4>4
    <3>5. CASE files = {}
      <4>1. found.nodes = dirs /\ path = DirPath(repo)
        BY <3>2, <3>5
      <4>2. \A e \in dirs : path[e] = p
        BY <4>1
      <4>3. p \in Indexed <=> dirs # {}
        BY <3>3, <3>5
      <4>4. {path[n] : n \in found.nodes} = {p} \cap Indexed
        <5> HIDE DEF found, dirs, path
        <5> QED BY <4>1, <4>2, <4>3
      <4> QED BY <4>4
    <3> QED BY <3>4, <3>5
  <2> QED BY <2>1, <2>2 DEF LookupsByPath
<1> QED BY <1>1, PlacesInv, PTL

-----------------------------------------------------------------------------
(* What the checksums sum.                                                 *)

\* Below enumerates the nodes below a directory in the order of their numbers.
LEMMA BelowInOrder ==
  ASSUME NEW table, Len(table) \in Nat, NEW d
  PROVE  LET s == Below(table, d)
         IN  /\ s \in Seq(1..Len(table))
             /\ Range(s) = {i \in 1..Len(table) : table[i].parent = d}
             /\ \A a, b \in 1..Len(s) : a < b => s[a] < s[b]
<1> DEFINE n          == Len(table)
           own(i)     == IF table[i].parent = d THEN <<i>> ELSE <<>>
           Rec(f, m)  == f = [i \in 0..m |-> IF i = 0 THEN <<>> ELSE f[i - 1] \o own(i)]
           Good(m, s) == /\ s \in Seq(1..m)
                         /\ Range(s) = {i \in 1..m : table[i].parent = d}
                         /\ \A a, b \in 1..Len(s) : a < b => s[a] < s[b]
           among      == CHOOSE f : Rec(f, n)
<1>1. Below(table, d) = among[n] /\ n \in Nat
  BY DEF Below
<1>2. \E f : Rec(f, n)
  <2> DEFINE S == {m \in Nat : \E f : Rec(f, m)}
  <2>1. 0 \in S
    <3>1. Rec([i \in 0..0 |-> <<>>], 0)
      OBVIOUS
    <3> HIDE DEF Rec
    <3> QED BY <3>1
  <2>2. ASSUME NEW m \in Nat, m \in S  PROVE m + 1 \in S
    <3>1. PICK f : Rec(f, m)
      BY <2>2
    <3> DEFINE g == [i \in 0..(m + 1) |-> IF i <= m THEN f[i] ELSE f[m] \o own(m + 1)]
    <3>2. \A i \in 0..m : f[i] = IF i = 0 THEN <<>> ELSE f[i - 1] \o own(i)
      <4> HIDE DEF own
      <4> QED BY <3>1
    <3>3. ASSUME NEW i \in 0..(m + 1)
          PROVE  g[i] = IF i = 0 THEN <<>> ELSE g[i - 1] \o own(i)
      <4> HIDE DEF own
      <4>1. CASE i <= m
        <5>1. i \in 0..m /\ g[i] = f[i] /\ (i # 0 => g[i - 1] = f[i - 1])
          BY <4>1
        <5> QED BY <3>2, <5>1
      <4>2. CASE i = m + 1
        <5>1. i - 1 \in 0..(m + 1) /\ i - 1 <= m /\ i - 1 = m /\ ~(i <= m) /\ i # 0
          BY <4>2
        <5>2. g[i] = f[m] \o own(i) /\ g[i - 1] = f[m]
          BY <4>2, <5>1
        <5> QED BY <5>1, <5>2
      <4> QED BY <4>1, <4>2
    <3>4. g = [i \in 0..(m + 1) |-> g[i]]
      OBVIOUS
    <3> HIDE DEF g, own
    <3>5. Rec(g, m + 1)
      BY <3>3, <3>4
    <3> HIDE DEF Rec
    <3> QED BY <3>5
  <2> HIDE DEF S
  <2>3. Nat \subseteq S
    BY <2>1, <2>2, SetInduction
  <2>4. n \in S
    BY <1>1, <2>3
  <2> QED BY <2>4 DEF S
<1>3. Rec(among, n)
  <2> HIDE DEF Rec
  <2> QED BY <1>2, Zenon
<1> HIDE DEF among, n
<1>4. \A i \in 0..n : among[i] = IF i = 0 THEN <<>> ELSE among[i - 1] \o own(i)
  <2> HIDE DEF own
  <2> QED BY <1>3
<1>5. ASSUME NEW m \in Nat, NEW s, Good(m, s)  PROVE Good(m + 1, s \o own(m + 1))
  <2>1. CASE table[m + 1].parent # d
    <3>1. s \o own(m + 1) = s
      BY <1>5, <2>1, ConcatEmptySeq
    <3>2. s \in Seq(1..(m + 1))
      <4>1. 1..m \subseteq 1..(m + 1)
        OBVIOUS
      <4> QED BY <1>5, <4>1, SeqMonotonic
    <3>3. {i \in 1..(m + 1) : table[i].parent = d} = {i \in 1..m : table[i].parent = d}
      BY <2>1
    <3>4. Good(m + 1, s)
      BY <1>5, <3>2, <3>3
    <3> HIDE DEF own, Good
    <3> QED BY <3>1, <3>4
  <2>2. CASE table[m + 1].parent = d
    <3> DEFINE l == Len(s)
               t == s \o own(m + 1)
    <3>1. own(m + 1) = <<m + 1>> /\ <<m + 1>> \in Seq(1..(m + 1)) /\ Len(<<m + 1>>) = 1
          /\ <<m + 1>>[1] = m + 1
      BY <2>2
    <3>2. s \in Seq(1..(m + 1)) /\ l \in Nat
      <4>1. 1..m \subseteq 1..(m + 1)
        OBVIOUS
      <4> QED BY <1>5, <4>1, SeqMonotonic, LenProperties
    <3>3. /\ t \in Seq(1..(m + 1)) /\ Len(t) = l + 1
          /\ \A i \in 1..(l + 1) : t[i] = IF i <= l THEN s[i] ELSE <<m + 1>>[i - l]
      BY <3>1, <3>2, ConcatProperties
    <3> HIDE DEF t, l, own
    <3>4. t[l + 1] = m + 1 /\ \A i \in 1..l : t[i] = s[i]
      <4>1. l + 1 \in 1..(l + 1) /\ ~(l + 1 <= l) /\ (l + 1) - l = 1
        BY <3>2
      <4> QED BY <3>1, <3>2, <3>3, <4>1
    <3>5. \A i \in 1..l : s[i] \in 1..m
      BY <1>5, ElementOfSeq DEF l
    <3>6. \A a, b \in 1..Len(t) : a < b => t[a] < t[b]
      <4> SUFFICES ASSUME NEW a \in 1..(l + 1), NEW b \in 1..(l + 1), a < b
                   PROVE  t[a] < t[b]
        BY <3>3
      <4>1. a \in 1..l
        BY <3>2
      <4>2. CASE b \in 1..l
        BY <1>5, <3>4, <4>1, <4>2 DEF l
      <4>3. CASE b = l + 1
        BY <3>4, <3>5, <4>1, <4>3
      <4> QED BY <3>2, <4>2, <4>3
    <3>7. Range(t) = Range(s) \cup {m + 1}
      <4>1. DOMAIN t = 1..(l + 1) /\ DOMAIN s = 1..l
        BY <3>2, <3>3, LenProperties DEF l
      <4> QED BY <3>2, <3>4, <4>1 DEF Range
    <3>8. Range(t) = {i \in 1..(m + 1) : table[i].parent = d}
      BY <1>5, <2>2, <3>7
    <3> QED BY <3>3, <3>6, <3>8 DEF t
  <2> QED BY <2>1, <2>2
<1> DEFINE T == {m \in Nat : m <= n => Good(m, among[m])}
<1>6. 0 \in T
  <2>1. among[0] = <<>>
    <3> HIDE DEF own
    <3>1. 0 \in 0..n
      BY <1>1
    <3> QED BY <1>4, <3>1
  <2> DEFINE none == <<>>
  <2>2. /\ none \in Seq(1..0) /\ Len(none) = 0 /\ Range(none) = {}
        /\ {i \in 1..0 : table[i].parent = d} = {}
    BY EmptySeq DEF Range
  <2>3. among[0] = none
    BY <2>1
  <2> HIDE DEF none
  <2>4. Good(0, none)
    BY <2>2
  <2> HIDE DEF Good
  <2> QED BY <2>3, <2>4
<1>7. ASSUME NEW m \in Nat, m \in T  PROVE m + 1 \in T
  <2> HIDE DEF Good, own
  <2> SUFFICES ASSUME m + 1 <= n  PROVE Good(m + 1, among[m + 1])
    OBVIOUS
  <2>1. Good(m, among[m])
    BY <1>1, <1>7
  <2>2. m + 1 \in 0..n /\ m + 1 # 0 /\ (m + 1) - 1 = m
    BY <1>1
  <2>3. among[m + 1] = among[m] \o own(m + 1)
    BY <1>4, <2>2
  <2> QED BY <1>5, <2>1, <2>3
<1>8. Nat \subseteq T
  <2> HIDE DEF T
  <2> QED BY <1>6, <1>7, SetInduction
<1>9. Good(n, among[n])
  <2> HIDE DEF Good
  <2> QED BY <1>1, <1>8
<1> QED BY <1>1, <1>9 DEF n

\* Two sequences of the same elements in the same order are the same.
LEMMA SameOrdered ==
  ASSUME NEW X, X \in Seq(Range(X)), NEW Y, Y \in Seq(Range(Y)), Range(X) = Range(Y),
         NEW R, \A x, y : <<x, y>> \in R => <<y, x>> \notin R,
         \A a, b \in 1..Len(X) : a < b => <<X[a], X[b]>> \in R,
         \A a, b \in 1..Len(Y) : a < b => <<Y[a], Y[b]>> \in R
  PROVE  X = Y
<1>1. /\ Len(X) \in Nat /\ Len(Y) \in Nat
      /\ \A i \in 1..Len(X) : \E m \in 1..Len(Y) : X[i] = Y[m]
      /\ \A i \in 1..Len(Y) : \E m \in 1..Len(X) : Y[i] = X[m]
  <2>1. /\ Len(X) \in Nat /\ DOMAIN X = 1..Len(X)
        /\ Len(Y) \in Nat /\ DOMAIN Y = 1..Len(Y)
    BY LenProperties
  <2>2. ASSUME NEW i \in 1..Len(X)  PROVE \E m \in 1..Len(Y) : X[i] = Y[m]
    <3>1. X[i] \in {X[j] : j \in DOMAIN X}
      BY <2>1
    <3>2. X[i] \in Range(Y)
      BY <3>1 DEF Range
    <3> QED BY <2>1, <3>2 DEF Range
  <2>3. ASSUME NEW i \in 1..Len(Y)  PROVE \E m \in 1..Len(X) : Y[i] = X[m]
    <3>1. Y[i] \in {Y[j] : j \in DOMAIN Y}
      BY <2>1
    <3>2. Y[i] \in Range(X)
      BY <3>1 DEF Range
    <3> QED BY <2>1, <3>2 DEF Range
  <2> QED BY <2>1, <2>2, <2>3
<1> DEFINE Same(i) == i \in 1..Len(X) <=> i \in 1..Len(Y)
           Eq(i)   == i \in 1..Len(X) => X[i] = Y[i]
           S == {n \in Nat : \A i \in 1..n : Same(i) /\ Eq(i)}
<1>2. 0 \in S
  OBVIOUS
<1>3. ASSUME NEW n \in Nat, n \in S  PROVE n + 1 \in S
  <2> DEFINE k == n + 1
  <2>0. k \in Nat \ {0} /\ \A i \in 1..n : i < k /\ Same(i) /\ Eq(i)
    BY <1>3
  <2> HIDE DEF k
  <2>1. ASSUME k \in 1..Len(X)  PROVE \E m \in 1..Len(Y) : X[k] = Y[m] /\ m >= k
    <3>1. PICK m \in 1..Len(Y) : X[k] = Y[m]
      BY <1>1, <2>1
    <3>2. CASE m < k
      <4>1. m \in 1..n /\ m \in 1..Len(X) /\ X[m] = Y[m]
        BY <1>1, <2>0, <3>2 DEF k
      <4>2. <<X[m], X[k]>> \in R /\ X[m] = X[k]
        BY <2>1, <3>1, <3>2, <4>1
      <4> QED BY <4>2
    <3> QED BY <1>1, <2>0, <3>1, <3>2
  <2>2. ASSUME k \in 1..Len(Y)  PROVE \E l \in 1..Len(X) : Y[k] = X[l] /\ l >= k
    <3>1. PICK l \in 1..Len(X) : Y[k] = X[l]
      BY <1>1, <2>2
    <3>2. CASE l < k
      <4>1. l \in 1..n /\ l \in 1..Len(Y) /\ X[l] = Y[l]
        BY <1>1, <2>0, <3>2 DEF k
      <4>2. <<Y[l], Y[k]>> \in R /\ Y[l] = Y[k]
        BY <2>2, <3>1, <3>2, <4>1
      <4> QED BY <4>2
    <3> QED BY <1>1, <2>0, <3>1, <3>2
  <2>3. Same(k)
    <3>1. k \in 1..Len(X) => k \in 1..Len(Y)
      <4> SUFFICES ASSUME k \in 1..Len(X)  PROVE k \in 1..Len(Y)
        OBVIOUS
      <4>1. \E m \in 1..Len(Y) : m >= k
        BY <2>1
      <4> QED BY <1>1, <2>0, <4>1
    <3>2. k \in 1..Len(Y) => k \in 1..Len(X)
      <4> SUFFICES ASSUME k \in 1..Len(Y)  PROVE k \in 1..Len(X)
        OBVIOUS
      <4>1. \E l \in 1..Len(X) : l >= k
        BY <2>2
      <4> QED BY <1>1, <2>0, <4>1
    <3> QED BY <3>1, <3>2
  <2>4. Eq(k)
    <3> SUFFICES ASSUME k \in 1..Len(X)  PROVE X[k] = Y[k]
      OBVIOUS
    <3>1. PICK m \in 1..Len(Y) : X[k] = Y[m] /\ m >= k
      BY <2>1
    <3>2. k \in 1..Len(Y)
      BY <2>3
    <3>3. PICK l \in 1..Len(X) : Y[k] = X[l] /\ l >= k
      BY <2>2, <3>2
    <3>4. CASE m > k /\ l > k
      <4>1. <<X[k], X[l]>> \in R /\ <<Y[k], Y[m]>> \in R
        BY <3>2, <3>4
      <4> QED BY <3>1, <3>3, <4>1
    <3>5. m = k \/ m > k
      BY <1>1, <2>0, <3>1
    <3>6. l = k \/ l > k
      BY <1>1, <2>0, <3>3
    <3> QED BY <3>1, <3>3, <3>4, <3>5, <3>6
  <2>5. \A i \in 1..(n + 1) : i \in 1..n \/ i = k
    BY DEF k
  <2> HIDE DEF Same, Eq
  <2> QED BY <2>0, <2>3, <2>4, <2>5
<1>4. Nat \subseteq S
  <2> HIDE DEF S
  <2> QED BY <1>2, <1>3, SetInduction
<1>5. \A i \in Nat \ {0} : Same(i) /\ Eq(i)
  <2> SUFFICES ASSUME NEW i \in Nat \ {0}  PROVE Same(i) /\ Eq(i)
    OBVIOUS
  <2>1. i \in S /\ i \in 1..i
    BY <1>4
  <2> HIDE DEF Same, Eq
  <2> QED BY <2>1
<1>6. Len(X) = Len(Y)
  <2>1. CASE Len(X) < Len(Y)
    <3>1. Len(Y) \in Nat \ {0} /\ Len(Y) \in 1..Len(Y) /\ Len(Y) \notin 1..Len(X)
      BY <1>1, <2>1
    <3>2. Same(Len(Y))
      BY <1>5, <3>1
    <3> QED BY <3>1, <3>2
  <2>2. CASE Len(Y) < Len(X)
    <3>1. Len(X) \in Nat \ {0} /\ Len(X) \in 1..Len(X) /\ Len(X) \notin 1..Len(Y)
      BY <1>1, <2>2
    <3>2. Same(Len(X))
      BY <1>5, <3>1
    <3> QED BY <3>1, <3>2
  <2> QED BY <1>1, <2>1, <2>2
<1>7. X \in Seq(Range(X)) /\ Y \in Seq(Range(X))
  OBVIOUS
<1>8. \A i \in 1..Len(X) : X[i] = Y[i]
  <2> SUFFICES ASSUME NEW i \in 1..Len(X)  PROVE X[i] = Y[i]
    OBVIOUS
  <2>1. i \in Nat \ {0}
    BY <1>1
  <2>2. Eq(i)
    BY <1>5, <2>1
  <2> QED BY <2>2
<1> QED BY <1>6, <1>7, <1>8, SeqEqual

\* Of two entries of a directory, the one with the smaller name is added first.
LEMMA Siblings ==
  ASSUME NEW p \in Path, NEW q \in Path, p # <<>>, q # <<>>, ParentDir(p) = ParentDir(q),
         AddedBefore(p, q)
  PROVE  Rank[Last(p)] < Rank[Last(q)]
<1>1. /\ Len(p) \in Nat \ {0} /\ Len(q) = Len(p)
      /\ \A i \in 1..(Len(p) - 1) : p[i] = q[i]
      /\ DOMAIN p = 1..Len(p) /\ DOMAIN q = 1..Len(p)
      /\ \A i \in 1..Len(p) : p[i] \in Name
  <2>1. /\ Len(p) \in Nat \ {0} /\ Len(ParentDir(p)) = Len(p) - 1
        /\ \A i \in 1..(Len(p) - 1) : ParentDir(p)[i] = p[i]
        /\ Len(q) \in Nat \ {0} /\ Len(ParentDir(q)) = Len(q) - 1
        /\ \A i \in 1..(Len(q) - 1) : ParentDir(q)[i] = q[i]
    BY ParentFacts
  <2>2. DOMAIN p = 1..Len(p) /\ DOMAIN q = 1..Len(q) /\ \A i \in 1..Len(p) : p[i] \in Name
    BY LenProperties, ElementOfSeq DEF Path
  <2> QED BY <2>1, <2>2
<1>2. ~IsStrictPrefix(p, q)
  <2> SUFFICES ASSUME IsStrictPrefix(p, q)  PROVE FALSE
    OBVIOUS
  <2>1. p # q /\ \A i \in 1..Len(p) : p[i] = q[i]
    BY PrefixElements DEF IsStrictPrefix, Path
  <2> QED BY <1>1, <2>1, SeqEqual DEF Path
<1>3. PICK i \in DOMAIN p \cap DOMAIN q : Rank[p[i]] < Rank[q[i]]
  BY <1>2 DEF AddedBefore
<1>4. i = Len(p)
  <2>1. CASE i < Len(p)
    <3>1. p[i] = q[i] /\ Rank[p[i]] \in Int
      BY <1>1, <2>1, RankAssumption
    <3> QED BY <1>3, <3>1
  <2> QED BY <1>1, <2>1
<1> QED BY <1>1, <1>3, <1>4 DEF Last

-----------------------------------------------------------------------------
(* The order of the nodes, which is that of the walk.                      *)

InOrder ==
  /\ \A d, e \in DOMAIN repo.dirs : \A p, q \in DOMAIN in.tree :
       DirAt(d, p) /\ DirAt(e, q) /\ d < e => AddedBefore(p, q)
  /\ \A f, g \in DOMAIN repo.files : \A p, q \in DOMAIN in.tree :
       NodeOf(f, p) /\ NodeOf(g, q) /\ f < g => AddedBefore(p, q)
  /\ \A p \in Indexed : \A q \in todo : p # q => AddedBefore(p, q)

\* A step that adds no node.
LEMMA OrderKept ==
  ASSUME InOrder, in' = in, dirMap' = dirMap, repo'.files = repo.files,
         DOMAIN repo'.dirs = DOMAIN repo.dirs, todo' \subseteq todo
  PROVE  InOrder'
<1>1. /\ \A d, q : DirAt(d, q)' <=> DirAt(d, q)
      /\ \A f, q : NodeOf(f, q)' <=> NodeOf(f, q)
  BY DEF Text, DirAt, NodeOf
<1>2. Indexed' = Indexed
  BY SameIndexed
<1> QED BY <1>1, <1>2 DEF InOrder

\* An entry that the walk comes to is added after all others.
LEMMA OrderStep ==
  ASSUME IInv, Places, InOrder, Step
  PROVE  InOrder'
<1>1. /\ Tables /\ Rooted /\ IndexInv /\ IsInput(in) /\ Control /\ Places /\ RootPlaced
      /\ DOMAIN in.tree \subseteq Path /\ in' = in /\ todo \subseteq DOMAIN in.tree
      /\ Len(repo.dirs) \in Nat /\ DOMAIN repo.dirs = 1..Len(repo.dirs)
      /\ Len(repo.files) \in Nat /\ DOMAIN repo.files = 1..Len(repo.files)
  BY InputFacts, ControlStep, LenProperties DEF IInv, Walk, Places, Tables
<1>2. \A q \in DOMAIN in.tree : IsDir(in.tree, q) => (q \in Indexed <=> Text(q) \in DOMAIN dirMap)
  BY <1>1, IndexedFacts DEF Tables, NodeOf, IsDir
<1>3. CASE \E p \in todo : WalkDir(p) \/ WalkDirUnreadable(p)
  <2> PICK p \in todo : WalkDir(p) \/ WalkDirUnreadable(p)
    BY <1>3
  <2>1. /\ walker = "walking" /\ root' = root
        /\ \A q \in todo \ {p} : AddedBefore(p, q)
    BY VisitFrame
  <2>2. /\ IsDir(in.tree, p) /\ repo' = Entered(p).repo /\ dirMap' = Entered(p).dirMap
        /\ p \in DOMAIN in.tree /\ todo' \subseteq todo \ {p}
    <3>1. p \in Under(in.tree, p)
      <4>1. p \in Path
        BY <1>1
      <4> QED BY <1>1, <4>1, SubSeqFull, LenProperties DEF Under, IsPrefix, Path
    <3> QED BY <1>1, <3>1 DEF WalkDir, WalkDirUnreadable, Visit
  <2>3. p # <<>> => Text(ParentDir(p)) \in DOMAIN dirMap
    BY <1>1, <1>2, <2>1, <2>2, NextReadable, InputFacts DEF IndexInv, IsDir, Exists
  <2>4. CASE Text(p) \in DOMAIN dirMap
    <3>1. repo' = repo /\ dirMap' = dirMap
      BY <2>2, <2>4 DEF Entered
    <3> QED BY <1>1, <2>2, <3>1, OrderKept
  <2>5. CASE Text(p) \notin DOMAIN dirMap
    <3> DEFINE n == Len(repo.dirs)
    <3>1. \A d : \A q \in DOMAIN in.tree : DirAt(d, q)' <=> DirAt(d, q) \/ (q = p /\ d = n + 1)
      BY <1>1, <2>2, <2>3, <2>5, EnterPlaces
    <3>2. repo'.files = repo.files /\ \A f \in DOMAIN repo.files : \A q :
                                        NodeOf(f, q)' <=> NodeOf(f, q)
      BY <1>1, <2>2, EnteredFacts, EnterKeepsNodes
    <3>3. Indexed' = Indexed \cup {p} /\ p \notin Indexed
      BY <1>1, <1>2, <2>2, <2>5, EnterIndexes
    <3>4. \A d : \A q \in DOMAIN in.tree : DirAt(d, q) => d \in 1..n /\ AddedBefore(q, p)
      <4> SUFFICES ASSUME NEW d, NEW q \in DOMAIN in.tree, DirAt(d, q)
                   PROVE  d \in 1..n /\ AddedBefore(q, p)
        OBVIOUS
      <4>1. q \in Indexed /\ d \in 1..n
        BY <1>1, <1>2 DEF DirAt, Tables
      <4> QED BY <3>3, <4>1 DEF InOrder
    <3>5. ASSUME NEW d, NEW e, NEW q \in DOMAIN in.tree, NEW r \in DOMAIN in.tree,
                 DirAt(d, q)', DirAt(e, r)', d < e
          PROVE  AddedBefore(q, r)
      <4>1. CASE DirAt(e, r) /\ DirAt(d, q)
        BY <1>1, <3>4, <3>5, <4>1 DEF InOrder
      <4>2. CASE r = p /\ DirAt(d, q)
        BY <3>4, <4>2
      <4>3. CASE q = p /\ d = n + 1
        BY <1>1, <3>1, <3>4, <3>5, <4>3
      <4> QED BY <3>1, <3>5, <4>1, <4>2, <4>3
    <3>6. \A q \in Indexed' : \A r \in todo' : q # r => AddedBefore(q, r)
      BY <2>1, <2>2, <3>3 DEF InOrder
    <3> QED BY <1>1, <3>2, <3>5, <3>6 DEF InOrder
  <2> QED BY <2>4, <2>5
<1>4. CASE \E p \in todo : WalkFile(p)
  <2> PICK p \in todo : WalkFile(p)
    BY <1>4
  <2>1. /\ walker = "walking" /\ root' = root
        /\ \A q \in todo \ {p} : AddedBefore(p, q)
    BY VisitFrame
  <2>2. /\ IsFile(in.tree, p) /\ p \in DOMAIN in.tree /\ p # <<>>
        /\ todo' \subseteq todo \ {p}
    BY <1>1, InputFacts DEF WalkFile, Visit, IsDir, IsFile
  <2>3. IsDir(in.tree, ParentDir(p)) /\ Text(ParentDir(p)) \in DOMAIN dirMap
    BY <1>1, <1>2, <2>1, <2>2, NextReadable, InputFacts DEF IndexInv, IsDir, Exists
  <2>4. Entered(ParentDir(p)).repo = repo /\ Entered(ParentDir(p)).dirMap = dirMap
    BY <2>3 DEF Entered
  <2>5. /\ repo' = AddFile(repo, dirMap[Text(ParentDir(p))], <<Last(p)>>, in.tree[p])
        /\ dirMap' = dirMap
    BY <2>4 DEF WalkFile
  <2>6. p \notin Indexed
    BY <1>1, <2>1, <2>2, NextReadable DEF IndexInv
  <2> DEFINE n == Len(repo.files)
  <2>7. /\ \A d, q : DirAt(d, q)' <=> DirAt(d, q)
        /\ \A f \in DOMAIN repo'.files : \A q \in DOMAIN in.tree :
             NodeOf(f, q)' => \/ f \in DOMAIN repo.files /\ NodeOf(f, q)
                              \/ q = p /\ f = n + 1
    BY <1>1, <2>1, <2>2, <2>3, <2>5, <2>6, AddPlaces
  <2>8. repo'.dirs = repo.dirs /\ DOMAIN repo'.files = 1..(n + 1)
    BY <1>1, <2>5, AddFileFacts
  <2>9. Indexed' = Indexed \cup {p}
    BY <1>1, <2>2, <2>3, <2>5, AddIndexes
  <2>10. \A f \in DOMAIN repo.files : \A q \in DOMAIN in.tree :
           NodeOf(f, q) => f \in 1..n /\ AddedBefore(q, p)
    <3> SUFFICES ASSUME NEW f \in DOMAIN repo.files, NEW q \in DOMAIN in.tree, NodeOf(f, q)
                 PROVE  f \in 1..n /\ AddedBefore(q, p)
      OBVIOUS
    <3>1. q \in Indexed
      BY IndexedFacts
    <3> QED BY <1>1, <2>6, <3>1 DEF InOrder
  <2>11. ASSUME NEW f \in DOMAIN repo'.files, NEW g \in DOMAIN repo'.files,
                NEW q \in DOMAIN in.tree, NEW r \in DOMAIN in.tree,
                NodeOf(f, q)', NodeOf(g, r)', f < g
         PROVE  AddedBefore(q, r)
    <3>1. CASE /\ f \in DOMAIN repo.files /\ NodeOf(f, q)
               /\ g \in DOMAIN repo.files /\ NodeOf(g, r)
      BY <2>11, <3>1 DEF InOrder
    <3>2. CASE f \in DOMAIN repo.files /\ NodeOf(f, q) /\ r = p
      BY <2>10, <3>2
    <3>3. CASE f = n + 1
      BY <1>1, <2>8, <2>11, <3>3
    <3> QED BY <2>7, <2>11, <3>1, <3>2, <3>3
  <2>12. \A q \in Indexed' : \A r \in todo' : q # r => AddedBefore(q, r)
    BY <2>1, <2>2, <2>9 DEF InOrder
  <2> QED BY <1>1, <2>7, <2>8, <2>11, <2>12 DEF InOrder
<1>5. CASE InitWalk /\ DOMAIN in.tree # {}
  <2>1. IsDir(in.tree, <<>>) /\ <<>> \in DOMAIN in.tree
    BY <1>1, <1>5, InputFacts DEF IsDir, Exists
  <2>2. repo' = Entered(<<>>).repo /\ dirMap' = Entered(<<>>).dirMap /\ todo' = DOMAIN in.tree
    BY <1>5 DEF InitWalk
  <2>3. Indexed = {}
    BY <1>1, <1>5 DEF InitWalk, Control, IndexInv, Visited
  <2>4. Text(<<>>) \notin DOMAIN dirMap
    BY <1>2, <2>1, <2>3
  <2>5. \A d : \A q \in DOMAIN in.tree :
          DirAt(d, q)' <=> DirAt(d, q) \/ (q = <<>> /\ d = Len(repo.dirs) + 1)
    BY <1>1, <2>1, <2>2, <2>4, EnterPlaces
  <2>6. \A d : \A q \in DOMAIN in.tree : DirAt(d, q)' => d = Len(repo.dirs) + 1
    BY <1>2, <2>3, <2>5 DEF DirAt
  <2>7. repo'.files = repo.files /\ \A f \in DOMAIN repo.files : \A q :
                                      NodeOf(f, q)' <=> NodeOf(f, q)
    BY <1>1, <2>2, EnteredFacts, EnterKeepsNodes
  <2>8. Indexed' = {<<>>}
    BY <1>1, <2>1, <2>2, <2>3, EnterIndexes
  <2>9. \A q \in todo' : q # <<>> => AddedBefore(<<>>, q)
    <3> SUFFICES ASSUME NEW q \in Path, q # <<>>  PROVE AddedBefore(<<>>, q)
      BY <1>1, <2>2
    <3>1. IsPrefix(<<>>, q)
      <4> DEFINE none == <<>>
      <4>1. none \in Seq(Name) /\ Len(none) = 0 /\ 1..0 = {}
        BY EmptySeq
      <4>2. q \in Seq(Name) /\ Len(q) \in Nat
        BY LenProperties DEF Path
      <4> HIDE DEF none
      <4>3. Len(none) <= Len(q) /\ \A i \in 1..Len(none) : none[i] = q[i]
        BY <4>1, <4>2
      <4>4. IsPrefix(none, q) <=> Len(none) <= Len(q) /\ \A i \in 1..Len(none) : none[i] = q[i]
        BY <4>1, <4>2, PrefixElements, Zenon
      <4> QED BY <4>3, <4>4 DEF none
    <3> QED BY <3>1 DEF AddedBefore, IsStrictPrefix
  <2>10. \A d, e \in DOMAIN repo'.dirs : \A q, r \in DOMAIN in.tree :
           DirAt(d, q)' /\ DirAt(e, r)' /\ d < e => AddedBefore(q, r)
    BY <1>1, <2>6
  <2>11. \A f, g \in DOMAIN repo'.files : \A q, r \in DOMAIN in.tree :
           NodeOf(f, q)' /\ NodeOf(g, r)' /\ f < g => AddedBefore(q, r)
    BY <2>7 DEF InOrder
  <2> QED BY <1>1, <2>8, <2>9, <2>10, <2>11 DEF InOrder
<1>6. CASE InitWalk /\ DOMAIN in.tree = {}
  <2>1. repo' = repo /\ dirMap' = dirMap /\ todo' = {}
    BY <1>6 DEF InitWalk, repoVars
  <2> QED BY <1>1, <2>1, OrderKept
<1>7. CASE \E d \in stale : UpdateDir(d)
  <2> PICK d \in stale : UpdateDir(d)
    BY <1>7
  <2>1. /\ repo' = IF in.repo = "mem" THEN MemRekey(repo, d) ELSE DbUpdateRow(repo, d)
        /\ d \in DOMAIN repo.dirs /\ dirMap' = dirMap /\ todo' = todo
    BY <1>1 DEF UpdateDir, Rooted, walkVars
  <2>2. repo'.files = repo.files /\ Len(repo'.dirs) = Len(repo.dirs)
        /\ repo'.dirs \in Seq(Range(repo'.dirs))
    BY <1>1, <2>1, UpdateFacts
  <2>3. DOMAIN repo'.dirs = DOMAIN repo.dirs
    BY <1>1, <2>2, LenProperties
  <2> QED BY <1>1, <2>1, <2>2, <2>3, OrderKept
<1>8. CASE \/ \E p \in todo : WalkFileUnreadable(p) \/ WalkFileFiltered(p)
           \/ SendError \/ WalkDone \/ AwaitWalk \/ IndexReturns \/ SendDir \/ CloseErrors
           \/ RecvError \/ ErrorsEnd \/ RecvDir
  <2>1. repo' = repo /\ dirMap' = dirMap /\ todo' \subseteq todo
    BY <1>8 DEF WalkFileUnreadable, WalkFileFiltered, Visit, SendError, WalkDone,
       AwaitWalk, IndexReturns, SendDir, CloseErrors, RecvError, ErrorsEnd, RecvDir, repoVars,
       walkVars
  <2> QED BY <1>1, <2>1, OrderKept
<1> QED BY <1>3, <1>4, <1>5, <1>6, <1>7, <1>8 DEF Step

-----------------------------------------------------------------------------
(* The checksums, when they are computed.                                  *)

\* The rows below a directory.
RowsBelow(table, d) == {i \in 1..Len(table) : table[i].parent = d}

\* A file has its own checksum, and a directory that of what is below it, from when
\* UpdateStrong has come back from it: then it has come back from all below.
Summed ==
  /\ \A f \in DOMAIN repo.files : repo.files[f].strong = FileStrong(repo.files[f].contents)
  /\ index \in {"update", "send", "close", "end"} =>
       \A d \in DOMAIN repo.dirs \ stale : /\ repo.dirs[d].strong = CalcStrong(repo, d)
                                           /\ RowsBelow(repo.dirs, d) \cap stale = {}
  /\ index \in {"send", "close", "end"} => stale = {}

\* What a checksum sums.
LEMMA SameSum ==
  ASSUME NEW r, NEW s, NEW d, Len(r.dirs) \in Nat, s.files = r.files,
         Len(r.files) \in Nat, Len(s.dirs) = Len(r.dirs),
         \A e \in 1..Len(r.dirs) : s.dirs[e].parent = r.dirs[e].parent,
         \A e \in RowsBelow(r.dirs, d) : /\ s.dirs[e].strong = r.dirs[e].strong
                                         /\ s.dirs[e].name = r.dirs[e].name
  PROVE  CalcStrong(s, d) = CalcStrong(r, d)
<1> DEFINE X == Below(r.dirs, d)
           Y == Below(s.dirs, d)
           R == {e \in Nat \X Nat : e[1] < e[2]}
           n == Len(r.dirs)
<1>1. /\ X \in Seq(1..n) /\ Range(X) = RowsBelow(r.dirs, d)
      /\ \A a, b \in 1..Len(X) : a < b => X[a] < X[b]
  BY BelowInOrder DEF RowsBelow
<1>2. /\ Y \in Seq(1..n) /\ Range(Y) = RowsBelow(s.dirs, d)
      /\ \A a, b \in 1..Len(Y) : a < b => Y[a] < Y[b]
  <2> HIDE DEF n
  <2>1. Len(s.dirs) = n /\ n \in Nat
    BY DEF n
  <2> QED BY <2>1, BelowInOrder DEF RowsBelow
<1>3. RowsBelow(s.dirs, d) = RowsBelow(r.dirs, d)
  BY DEF RowsBelow
<1> HIDE DEF X, Y, n
<1>4. X = Y
  <2>1. X \in Seq(Range(X)) /\ Y \in Seq(Range(Y)) /\ Range(X) = Range(Y)
    BY <1>1, <1>2, <1>3, SeqOfRange
  <2>2. /\ \A i \in 1..Len(X) : X[i] \in Nat
        /\ \A i \in 1..Len(Y) : Y[i] \in Nat
    <3>1. /\ \A i \in 1..Len(X) : X[i] \in 1..n
          /\ \A i \in 1..Len(Y) : Y[i] \in 1..n
      BY <1>1, <1>2, ElementOfSeq
    <3>2. 1..n \subseteq Nat
      BY DEF n
    <3> QED BY <3>1, <3>2
  <2>3. /\ \A a, b \in 1..Len(X) : a < b => <<X[a], X[b]>> \in R
        /\ \A a, b \in 1..Len(Y) : a < b => <<Y[a], Y[b]>> \in R
    BY <1>1, <1>2, <2>2
  <2>4. \A x, y : <<x, y>> \in R => <<y, x>> \notin R
    OBVIOUS
  <2> HIDE DEF R
  <2> QED BY <2>1, <2>3, <2>4, SameOrdered
<1>5. ASSUME NEW i \in DOMAIN X
      PROVE  s.dirs[X[i]].strong = r.dirs[X[i]].strong /\ s.dirs[X[i]].name = r.dirs[X[i]].name
  <2>1. X[i] \in RowsBelow(r.dirs, d)
    BY <1>1 DEF Range
  <2> QED BY <2>1
<1>6. SubDirs(r, d) = X /\ SubDirs(s, d) = X /\ FilesIn(s, d) = FilesIn(r, d)
  BY <1>4 DEF SubDirs, FilesIn, X, Y
<1> QED BY <1>5, <1>6 DEF CalcStrong

\* Everything is below the root.
LEMMA AllBelowRoot ==
  ASSUME IInv, Places, root # NoNode
  PROVE  Subtree(repo, root) = DOMAIN repo.dirs
<1> DEFINE D     == DOMAIN repo.dirs
           up(f, x) == x = root \/ (repo.dirs[x].parent # NoNode /\ f[repo.dirs[x].parent])
           below == CHOOSE f : f = [x \in D |-> up(f, x)]
           all   == [x \in D |-> TRUE]
<1>1. Tables /\ IsInput(in) /\ Len(repo.dirs) \in Nat /\ D = 1..Len(repo.dirs)
  BY LenProperties DEF IInv, Tables, Walk
<1>2. Subtree(repo, root) = {x \in D : below[x]}
  BY DEF Subtree
<1>3. ASSUME NEW x \in D
      PROVE  x = root \/ (repo.dirs[x].parent \in D /\ repo.dirs[x].parent # NoNode
                          /\ repo.dirs[x].parent < x)
  <2>1. PICK p \in DOMAIN in.tree : DirAt(x, p) /\ RowRight(x, p)
    BY DEF Places, DirsPlaced
  <2>2. CASE p = <<>>
    BY <2>1, <2>2, RootFound DEF DirAt
  <2>3. CASE p # <<>>
    BY <1>1, <2>1, <2>3 DEF RowRight, DirAt, Tables, NoNode
  <2> QED BY <2>2, <2>3
<1>4. all = [x \in D |-> up(all, x)]
  <2> HIDE DEF D
  <2> QED BY <1>3
<1>5. below = [x \in D |-> up(below, x)]
  <2> HIDE DEF all, up
  <2> QED BY <1>4, Zenon
<1> HIDE DEF below
<1> DEFINE S == {n \in Nat : \A x \in D : x <= n => below[x]}
<1>6. 0 \in S
  BY <1>1
<1>7. ASSUME NEW n \in Nat, n \in S  PROVE n + 1 \in S
  <2> SUFFICES ASSUME NEW x \in D, x = n + 1  PROVE below[x]
    BY <1>1, <1>7
  <2>1. below[x] = up(below, x)
    <3> HIDE DEF up, D
    <3> QED BY <1>5
  <2>2. x # root => below[repo.dirs[x].parent]
    BY <1>1, <1>3, <1>7
  <2> QED BY <1>3, <2>1, <2>2
<1>8. Nat \subseteq S
  <2> HIDE DEF S
  <2> QED BY <1>6, <1>7, SetInduction
<1>9. \A x \in D : below[x]
  BY <1>1, <1>8
<1> QED BY <1>2, <1>9

\* Without the root there is nothing.
LEMMA NothingWithoutRoot ==
  ASSUME IInv, Places, root = NoNode
  PROVE  DOMAIN repo.dirs = {} /\ Indexed = {}
<1>1. Indexed = {}
  BY IndexedFacts DEF IInv, Rooted, IndexInv, Visited
<1>2. \A d : \A p \in DOMAIN in.tree : ~DirAt(d, p)
  BY <1>1, IndexedFacts DEF DirAt
<1> QED BY <1>1, <1>2 DEF Places, DirsPlaced

\* UpdateStrong computes a checksum when all below have been computed, and none changes after.
LEMMA SummedStep ==
  ASSUME IInv, Places, Summed, Step
  PROVE  Summed'
<1>1. /\ Tables /\ Rooted /\ IsInput(in) /\ Control /\ Places /\ RootPlaced /\ in' = in
      /\ Len(repo.dirs) \in Nat /\ DOMAIN repo.dirs = 1..Len(repo.dirs)
      /\ Len(repo.files) \in Nat /\ DOMAIN repo.files = 1..Len(repo.files)
      /\ todo \subseteq DOMAIN in.tree
  BY ControlStep, LenProperties DEF IInv, Walk, Places, Tables
<1>2. \A q \in DOMAIN in.tree : IsDir(in.tree, q) => (q \in Indexed <=> Text(q) \in DOMAIN dirMap)
  BY <1>1, IndexedFacts DEF Tables, NodeOf, IsDir
<1>3. CASE \E p \in todo : WalkDir(p) \/ WalkDirUnreadable(p)
  <2> PICK p \in todo : WalkDir(p) \/ WalkDirUnreadable(p)
    BY <1>3
  <2>1. repo' = Entered(p).repo /\ walker = "walking" /\ index' = index
    BY VisitFrame DEF WalkDir, WalkDirUnreadable
  <2>2. repo'.files = repo.files
    BY <1>1, <2>1, EnteredFacts
  <2>3. index' \notin {"update", "send", "close", "end"}
    BY <1>1, <2>1 DEF Control
  <2> QED BY <2>2, <2>3 DEF Summed
<1>4. CASE \E p \in todo : WalkFile(p)
  <2> PICK p \in todo : WalkFile(p)
    BY <1>4
  <2>1. /\ walker = "walking" /\ index' = index
        /\ \A q \in todo \ {p} : AddedBefore(p, q)
    BY VisitFrame
  <2>2. IsFile(in.tree, p) /\ p \in DOMAIN in.tree /\ p # <<>>
    BY <1>1, InputFacts DEF WalkFile, IsDir, IsFile
  <2>3. IsDir(in.tree, ParentDir(p)) /\ Text(ParentDir(p)) \in DOMAIN dirMap
    BY <1>1, <1>2, <2>1, <2>2, NextReadable, InputFacts DEF IInv, IndexInv, IsDir, Exists
  <2>4. Entered(ParentDir(p)).repo = repo /\ Entered(ParentDir(p)).dirMap = dirMap
    BY <2>3 DEF Entered
  <2>5. repo' = AddFile(repo, dirMap[Text(ParentDir(p))], <<Last(p)>>, in.tree[p])
    BY <2>4 DEF WalkFile
  <2> DEFINE n == Len(repo.files)
  <2>6. /\ DOMAIN repo'.files = 1..(n + 1)
        /\ \A f \in 1..n : repo'.files[f] = repo.files[f]
        /\ repo'.files[n + 1].strong = FileStrong(repo'.files[n + 1].contents)
    BY <1>1, <2>5, AddFileFacts
  <2>7. ASSUME NEW f \in 1..(n + 1)
        PROVE  repo'.files[f].strong = FileStrong(repo'.files[f].contents)
    <3>1. f \in 1..n \/ f = n + 1
      BY <1>1
    <3> QED BY <1>1, <2>6, <3>1 DEF Summed
  <2>8. index' \notin {"update", "send", "close", "end"}
    BY <1>1, <2>1 DEF Control
  <2> QED BY <2>6, <2>7, <2>8 DEF Summed
<1>5. CASE InitWalk
  <2>1. index' = "wait" /\ (repo' = repo \/ repo' = Entered(<<>>).repo)
    BY <1>5 DEF InitWalk, repoVars
  <2>2. repo'.files = repo.files
    BY <1>1, <2>1, EnteredFacts
  <2> QED BY <2>1, <2>2 DEF Summed
<1>6. CASE AwaitWalk
  <2>1. /\ index' = "update" /\ repo' = repo
        /\ stale' = IF root = NoNode THEN {} ELSE Subtree(repo, root)
    BY <1>6 DEF AwaitWalk, repoVars
  <2>2. stale' = DOMAIN repo.dirs
    BY <2>1, AllBelowRoot, NothingWithoutRoot
  <2> QED BY <2>1, <2>2 DEF Summed
<1>7. CASE \E d \in stale : UpdateDir(d)
  <2> PICK d \in stale : UpdateDir(d)
    BY <1>7
  <2>1. /\ repo' = IF in.repo = "mem" THEN MemRekey(repo, d) ELSE DbUpdateRow(repo, d)
        /\ d \in DOMAIN repo.dirs /\ stale' = stale \ {d} /\ index' = "update"
        /\ Range(SubDirs(repo, d)) \cap stale = {} /\ index = "update"
    BY <1>1 DEF UpdateDir, Rooted
  <2>2. repo'.files = repo.files /\ Len(repo'.dirs) = Len(repo.dirs)
    BY <1>1, <2>1, UpdateFacts
  <2>3. \A e \in DOMAIN repo.dirs : {"parent", "name", "strong"} \subseteq DOMAIN repo.dirs[e]
    BY <1>1 DEF Places, DirsPlaced, RowRight
  <2>4. /\ DOMAIN repo'.dirs = DOMAIN repo.dirs
        /\ \A e \in DOMAIN repo.dirs :
              /\ repo'.dirs[e].parent = repo.dirs[e].parent
              /\ repo'.dirs[e].name = repo.dirs[e].name
              /\ repo'.dirs[e].strong = IF e = d THEN CalcStrong(repo, d)
                                        ELSE repo.dirs[e].strong
    BY <1>1, <2>1, <2>3, UpdateRow DEF RootPlaced
  <2>5. RowsBelow(repo.dirs, d) \cap stale = {}
    <3>1. Range(Below(repo.dirs, d)) = RowsBelow(repo.dirs, d)
      BY <1>1, BelowInOrder DEF RowsBelow
    <3> QED BY <2>1, <3>1 DEF SubDirs
  <2>6. \A e : RowsBelow(repo'.dirs, e) = RowsBelow(repo.dirs, e)
    BY <1>1, <2>2, <2>4 DEF RowsBelow
  <2>7. ASSUME NEW e \in DOMAIN repo.dirs \ stale'
        PROVE  /\ repo'.dirs[e].strong = CalcStrong(repo', e)
               /\ RowsBelow(repo'.dirs, e) \cap stale' = {}
    <3>1. RowsBelow(repo.dirs, e) \cap stale = {}
      BY <2>1, <2>5, <2>7 DEF Summed
    <3>2. d \notin RowsBelow(repo.dirs, e)
      BY <3>1
    <3>3. repo'.dirs[e].strong = CalcStrong(repo, e)
      BY <2>1, <2>4, <2>7 DEF Summed
    <3>4. \A i \in RowsBelow(repo.dirs, e) : /\ repo'.dirs[i].strong = repo.dirs[i].strong
                                             /\ repo'.dirs[i].name = repo.dirs[i].name
      BY <1>1, <2>4, <3>2 DEF RowsBelow
    <3>5. CalcStrong(repo', e) = CalcStrong(repo, e)
      <4> DEFINE s == repo'
      <4>1. /\ s.files = repo.files /\ Len(s.dirs) = Len(repo.dirs)
            /\ \A i \in 1..Len(repo.dirs) : s.dirs[i].parent = repo.dirs[i].parent
            /\ \A i \in RowsBelow(repo.dirs, e) : /\ s.dirs[i].strong = repo.dirs[i].strong
                                                  /\ s.dirs[i].name = repo.dirs[i].name
        BY <1>1, <2>2, <2>4, <3>4
      <4> HIDE DEF s
      <4>2. CalcStrong(s, e) = CalcStrong(repo, e)
        BY <1>1, <4>1, SameSum
      <4> QED BY <4>2 DEF s
    <3> QED BY <2>1, <2>6, <3>1, <3>3, <3>5
  <2>8. \A f \in DOMAIN repo'.files : repo'.files[f].strong = FileStrong(repo'.files[f].contents)
    BY <2>2 DEF Summed
  <2> QED BY <2>1, <2>4, <2>7, <2>8 DEF Summed
<1>8. CASE \/ \E p \in todo : WalkFileUnreadable(p) \/ WalkFileFiltered(p)
           \/ SendError \/ WalkDone
           \/ RecvError \/ ErrorsEnd \/ RecvDir
  <2>1. repo' = repo /\ stale' = stale /\ index' = index
    BY <1>8 DEF WalkFileUnreadable, WalkFileFiltered, Visit, SendError, WalkDone,
       RecvError, ErrorsEnd, RecvDir, repoVars, walkVars
  <2> QED BY <2>1 DEF Summed
<1>9. CASE IndexReturns \/ SendDir \/ CloseErrors
  <2>1. /\ repo' = repo /\ stale' = stale /\ index \in {"update", "send", "close"}
        /\ index' \in {"send", "close", "end"} /\ (index = "update" => stale = {})
    BY <1>9 DEF IndexReturns, SendDir, CloseErrors, repoVars
  <2> QED BY <2>1 DEF Summed
<1> QED BY <1>3, <1>4, <1>5, <1>6, <1>7, <1>8, <1>9 DEF Step

-----------------------------------------------------------------------------
(* What checksums tell apart.                                              *)

\* Below p and q are the same entries.
Alike(t, p, q) ==
  \A r \in Path : /\ p \o r \in DOMAIN t <=> q \o r \in DOMAIN t
                  /\ p \o r \in DOMAIN t => t[p \o r] = t[q \o r]

LEMMA DeepAlike ==
  ASSUME NEW t, DOMAIN t \subseteq Path, NEW p \in Path, NEW q \in Path
  PROVE  DeepContents(t, p) = DeepContents(t, q) <=> Alike(t, p, q)
<1>1. ASSUME NEW u \in Path, NEW r \in Path
      PROVE  /\ u \o r \in DOMAIN t <=> \E v : <<r, v>> \in DeepContents(t, u)
             /\ \A v : <<r, v>> \in DeepContents(t, u) => v = t[u \o r]
  <2>1. /\ u \o r \in Path /\ IsPrefix(u, u \o r)
        /\ SubSeq(u \o r, Len(u) + 1, Len(u \o r)) = r
    BY ConcatBelow DEF Path
  <2>2. ASSUME u \o r \in DOMAIN t  PROVE <<r, t[u \o r]>> \in DeepContents(t, u)
    <3>1. u \o r \in Under(t, u)
      BY <2>1, <2>2 DEF Under
    <3> QED BY <2>1, <3>1 DEF DeepContents
  <2>3. ASSUME NEW v, <<r, v>> \in DeepContents(t, u)
        PROVE  u \o r \in DOMAIN t /\ v = t[u \o r]
    <3>1. PICK x \in Under(t, u) : r = SubSeq(x, Len(u) + 1, Len(x)) /\ v = t[x]
      BY <2>3 DEF DeepContents
    <3>2. x \in DOMAIN t /\ x = u \o r
      BY <3>1, BelowFacts DEF Under, Path
    <3> QED BY <3>1, <3>2
  <2> QED BY <2>2, <2>3
<1>2. ASSUME NEW u \in Path, NEW e \in DeepContents(t, u)
      PROVE  \E r \in Path : \E v : e = <<r, v>>
  <2>1. PICK x \in Under(t, u) : e = <<SubSeq(x, Len(u) + 1, Len(x)), t[x]>>
    BY DEF DeepContents
  <2>2. SubSeq(x, Len(u) + 1, Len(x)) \in Path
    BY BelowFacts DEF Under, Path
  <2> QED BY <2>1, <2>2
<1>3. ASSUME Alike(t, p, q)  PROVE DeepContents(t, p) = DeepContents(t, q)
  <2>1. \A r \in Path : \A v :
          <<r, v>> \in DeepContents(t, p) <=> <<r, v>> \in DeepContents(t, q)
    BY <1>1, <1>3 DEF Alike
  <2> QED BY <1>2, <2>1
<1>4. ASSUME DeepContents(t, p) = DeepContents(t, q)  PROVE Alike(t, p, q)
  <2> SUFFICES ASSUME NEW r \in Path
               PROVE  /\ p \o r \in DOMAIN t <=> q \o r \in DOMAIN t
                      /\ p \o r \in DOMAIN t => t[p \o r] = t[q \o r]
    BY DEF Alike
  <2> QED BY <1>1, <1>4
<1> QED BY <1>3, <1>4

\* Two directories are alike when their entries are.
LEMMA AlikeSteps ==
  ASSUME NEW t, NEW p \in Path, NEW q \in Path,
         p \in DOMAIN t, q \in DOMAIN t, t[p] = t[q]
  PROVE  Alike(t, p, q) <=> \A x \in Name : Alike(t, p \o <<x>>, q \o <<x>>)
<1>1. /\ p \in Seq(Name) /\ q \in Seq(Name)
      /\ \A x \in Name : <<x>> \in Seq(Name)
  BY DEF Path
<1>2. ASSUME NEW u \in Path, NEW x \in Name, NEW r \in Path
      PROVE  (u \o <<x>>) \o r = u \o (<<x>> \o r) /\ <<x>> \o r \in Path
  <2>1. u \in Seq(Name) /\ r \in Seq(Name) /\ <<x>> \in Seq(Name)
    BY DEF Path
  <2> QED BY <2>1, ConcatAssociative, ConcatProperties DEF Path
<1>3. ASSUME NEW r \in Path, r # <<>>
      PROVE  \E x \in Name : \E s \in Path : r = <<x>> \o s
  <2> DEFINE top == <<r[1]>>
             s   == SubSeq(r, Len(top) + 1, Len(r))
  <2>1. r \in Seq(Name) /\ Len(r) \in Nat \ {0}
    BY <1>3, EmptySeq, LenProperties DEF Path
  <2>2. r[1] \in Name
    BY <2>1, ElementOfSeq
  <2>3. top \in Seq(Name) /\ Len(top) <= Len(r) /\ \A i \in 1..Len(top) : top[i] = r[i]
    BY <2>1, <2>2
  <2> HIDE DEF top
  <2>4. IsPrefix(top, r)
    BY <2>1, <2>3, PrefixElements
  <2>5. s \in Seq(Name) /\ r = top \o s
    BY <2>1, <2>3, <2>4, BelowFacts
  <2> QED BY <2>2, <2>5 DEF top, Path
<1>4. p \o <<>> = p /\ q \o <<>> = q
  BY <1>1, ConcatEmptySeq
<1>5. ASSUME Alike(t, p, q), NEW x \in Name  PROVE Alike(t, p \o <<x>>, q \o <<x>>)
  <2> DEFINE pp == p \o <<x>>
             qq == q \o <<x>>
  <2>1. ASSUME NEW r \in Path
        PROVE  /\ pp \o r \in DOMAIN t <=> qq \o r \in DOMAIN t
               /\ pp \o r \in DOMAIN t => t[pp \o r] = t[qq \o r]
    <3> DEFINE s == <<x>> \o r
    <3>1. pp \o r = p \o s /\ qq \o r = q \o s /\ s \in Path
      BY <1>2
    <3> HIDE DEF pp, qq, s
    <3> QED BY <1>5, <3>1 DEF Alike
  <2> HIDE DEF pp, qq
  <2>2. Alike(t, pp, qq)
    BY <2>1 DEF Alike
  <2> QED BY <2>2 DEF pp, qq
<1>6. ASSUME \A x \in Name : Alike(t, p \o <<x>>, q \o <<x>>)  PROVE Alike(t, p, q)
  <2> SUFFICES ASSUME NEW r \in Path
               PROVE  /\ p \o r \in DOMAIN t <=> q \o r \in DOMAIN t
                      /\ p \o r \in DOMAIN t => t[p \o r] = t[q \o r]
    BY DEF Alike
  <2>1. CASE r = <<>>
    BY <1>4, <2>1
  <2>2. CASE r # <<>>
    <3>1. PICK x \in Name : \E s \in Path : r = <<x>> \o s
      BY <1>3, <2>2
    <3>2. PICK s \in Path : r = <<x>> \o s
      BY <3>1
    <3>3. p \o r = (p \o <<x>>) \o s /\ q \o r = (q \o <<x>>) \o s
      BY <1>2, <3>2
    <3> QED BY <1>6, <3>3 DEF Alike
  <2> QED BY <2>1, <2>2
<1> QED BY <1>5, <1>6

\* The index is closed: above what is in it are directories that are.
Closed == \A p \in Indexed : \A q \in Path :
            IsStrictPrefix(q, p) => q \in Indexed /\ IsDir(in.tree, q)

\* Below a file, or nothing, is nothing.
LEMMA AlikeLeaves ==
  ASSUME IsInput(in), Closed, NEW t, t = [p \in Indexed |-> in.tree[p]],
         NEW p \in Path, NEW q \in Path, p \notin Indexed \/ in.tree[p] # Dir
  PROVE  Alike(t, p, q) <=> /\ p \in Indexed <=> q \in Indexed
                            /\ p \in Indexed => in.tree[p] = in.tree[q]
<1>1. p \o <<>> = p /\ q \o <<>> = q /\ <<>> \in Path
  BY ConcatEmptySeq, EmptySeq DEF Path
<1>2. DOMAIN t = Indexed /\ \A u \in Indexed : t[u] = in.tree[u]
  OBVIOUS
<1>3. ASSUME NEW u \in Path, u \notin Indexed \/ in.tree[u] # Dir, NEW r \in Path, r # <<>>
      PROVE  u \o r \notin Indexed
  <2>1. u \in Seq(Name) /\ r \in Seq(Name) /\ Len(r) \in Nat \ {0} /\ Len(u) \in Nat
    BY <1>3, EmptySeq, LenProperties DEF Path
  <2>2. IsPrefix(u, u \o r) /\ Len(u \o r) = Len(u) + Len(r)
    BY <2>1, ConcatBelow, ConcatProperties
  <2>3. IsStrictPrefix(u, u \o r)
    <3>1. u # u \o r
      BY <2>1, <2>2
    <3> QED BY <2>2, <3>1 DEF IsStrictPrefix
  <2> QED BY <1>3, <2>3 DEF Closed, IsDir
<1>4. ASSUME Alike(t, p, q)
      PROVE  /\ p \in Indexed <=> q \in Indexed
             /\ p \in Indexed => in.tree[p] = in.tree[q]
  <2>1. p \o <<>> \in DOMAIN t <=> q \o <<>> \in DOMAIN t
    BY <1>1, <1>4 DEF Alike
  <2>2. p \o <<>> \in DOMAIN t => t[p \o <<>>] = t[q \o <<>>]
    BY <1>1, <1>4 DEF Alike
  <2> QED BY <1>1, <1>2, <2>1, <2>2
<1>5. ASSUME p \in Indexed <=> q \in Indexed, p \in Indexed => in.tree[p] = in.tree[q]
      PROVE  Alike(t, p, q)
  <2>1. q \notin Indexed \/ in.tree[q] # Dir
    BY <1>5
  <2>2. \A r \in Path : r # <<>> => p \o r \notin Indexed /\ q \o r \notin Indexed
    BY <1>3, <2>1
  <2> QED BY <1>1, <1>2, <1>5, <2>2 DEF Alike
<1> QED BY <1>4, <1>5

\* The lines that are summed.
Line(isDir, node) == [dir |-> isDir, strong |-> node.strong, name |-> node.name]

LinesOf(d) == {Line(TRUE, repo.dirs[s]) : s \in RowsBelow(repo.dirs, d)}
                \cup {Line(FALSE, repo.files[f]) : f \in RowsBelow(repo.files, d)}

LineBefore(l, m) == \/ l.dir /\ ~m.dir
                    \/ l.dir = m.dir /\ Rank[l.name[1]] < Rank[m.name[1]]

\* Rows below a directory have the names of their entries, in order.
LEMMA NamesInOrder ==
  ASSUME Tables, Places, IsInput(in), InOrder, NEW d \in DOMAIN repo.dirs
  PROVE  /\ \A s \in RowsBelow(repo.dirs, d) : \E x \in Name : repo.dirs[s].name = <<x>>
         /\ \A f \in RowsBelow(repo.files, d) : \E x \in Name : repo.files[f].name = <<x>>
         /\ \A s, u \in RowsBelow(repo.dirs, d) :
              s < u => Rank[repo.dirs[s].name[1]] < Rank[repo.dirs[u].name[1]]
         /\ \A f, g \in RowsBelow(repo.files, d) :
              f < g => Rank[repo.files[f].name[1]] < Rank[repo.files[g].name[1]]
<1>1. /\ DOMAIN repo.dirs = 1..Len(repo.dirs) /\ DOMAIN repo.files = 1..Len(repo.files)
      /\ d # NoNode
  BY LenProperties DEF Tables, NoNode
<1>2. ASSUME NEW s \in RowsBelow(repo.dirs, d)
      PROVE  \E p \in DOMAIN in.tree :
               /\ p \in Path /\ p # <<>> /\ DirAt(s, p) /\ DirAt(d, ParentDir(p))
               /\ repo.dirs[s].name = <<Last(p)>> /\ Last(p) \in Name
  <2>1. PICK p : p \in DOMAIN in.tree /\ p \in Path /\ DirAt(s, p) /\ RowRight(s, p)
    BY <1>1, DirPaths DEF RowsBelow
  <2>2. repo.dirs[s].parent = d
    BY DEF RowsBelow
  <2> QED BY <1>1, <2>1, <2>2, ParentAndName DEF RowRight
<1>3. ASSUME NEW f \in RowsBelow(repo.files, d)
      PROVE  \E p \in DOMAIN in.tree :
               /\ p \in Path /\ p # <<>> /\ NodeOf(f, p) /\ DirAt(d, ParentDir(p))
               /\ repo.files[f].name = <<Last(p)>> /\ Last(p) \in Name
  <2>1. PICK p : p \in DOMAIN in.tree /\ p \in Path /\ IsFile(in.tree, p) /\ NodeOf(f, p)
    BY <1>1, FilePaths DEF RowsBelow
  <2>2. repo.files[f].parent = d
    BY DEF RowsBelow
  <2>3. p # <<>>
    BY <2>1, InputFacts DEF IsFile, IsDir, Exists
  <2>4. DirAt(d, ParentDir(p))
    BY <2>1, <2>2, <2>3, InputFacts DEF NodeOf, DirAt, IsDir, Exists
  <2> QED BY <2>1, <2>3, <2>4, ParentAndName DEF NodeOf
<1>4. \A p, q \in DOMAIN in.tree :
        p \in Path /\ q \in Path /\ p # <<>> /\ q # <<>>
        /\ DirAt(d, ParentDir(p)) /\ DirAt(d, ParentDir(q)) /\ AddedBefore(p, q)
          => Rank[Last(p)] < Rank[Last(q)]
  <2> SUFFICES ASSUME NEW p \in DOMAIN in.tree, NEW q \in DOMAIN in.tree,
                      p \in Path, q \in Path, p # <<>>, q # <<>>,
                      DirAt(d, ParentDir(p)), DirAt(d, ParentDir(q)), AddedBefore(p, q)
               PROVE  Rank[Last(p)] < Rank[Last(q)]
    OBVIOUS
  <2>1. ParentDir(p) = ParentDir(q)
    BY OneEntry DEF DirAt
  <2> QED BY <2>1, Siblings
<1>5. ASSUME NEW s \in RowsBelow(repo.dirs, d), NEW u \in RowsBelow(repo.dirs, d), s < u
      PROVE  Rank[repo.dirs[s].name[1]] < Rank[repo.dirs[u].name[1]]
  <2>1. PICK p \in DOMAIN in.tree :
               /\ p \in Path /\ p # <<>> /\ DirAt(s, p) /\ DirAt(d, ParentDir(p))
               /\ repo.dirs[s].name = <<Last(p)>> /\ Last(p) \in Name
    BY <1>2
  <2>2. PICK q \in DOMAIN in.tree :
               /\ q \in Path /\ q # <<>> /\ DirAt(u, q) /\ DirAt(d, ParentDir(q))
               /\ repo.dirs[u].name = <<Last(q)>> /\ Last(q) \in Name
    BY <1>2
  <2>3. AddedBefore(p, q)
    BY <1>1, <1>5, <2>1, <2>2 DEF InOrder, RowsBelow
  <2> QED BY <1>4, <2>1, <2>2, <2>3
<1>6. ASSUME NEW f \in RowsBelow(repo.files, d), NEW g \in RowsBelow(repo.files, d), f < g
      PROVE  Rank[repo.files[f].name[1]] < Rank[repo.files[g].name[1]]
  <2>1. PICK p \in DOMAIN in.tree :
               /\ p \in Path /\ p # <<>> /\ NodeOf(f, p) /\ DirAt(d, ParentDir(p))
               /\ repo.files[f].name = <<Last(p)>> /\ Last(p) \in Name
    BY <1>3
  <2>2. PICK q \in DOMAIN in.tree :
               /\ q \in Path /\ q # <<>> /\ NodeOf(g, q) /\ DirAt(d, ParentDir(q))
               /\ repo.files[g].name = <<Last(q)>> /\ Last(q) \in Name
    BY <1>3
  <2>3. AddedBefore(p, q)
    BY <1>1, <1>6, <2>1, <2>2 DEF InOrder, RowsBelow
  <2> QED BY <1>4, <2>1, <2>2, <2>3
<1> QED BY <1>2, <1>3, <1>5, <1>6

\* What is summed is the lines in this order.
LEMMA LinesInOrder ==
  ASSUME Tables, Places, IsInput(in), InOrder, NEW d \in DOMAIN repo.dirs
  PROVE  LET lines == CalcStrong(repo, d).lines
         IN  /\ CalcStrong(repo, d) = SumOf(<<>>, lines)
             /\ lines \in Seq(Range(lines)) /\ Range(lines) = LinesOf(d)
             /\ \A a, b \in 1..Len(lines) : a < b => LineBefore(lines[a], lines[b])
<1> DEFINE sub == Below(repo.dirs, d)
           own == Below(repo.files, d)
           X   == [i \in DOMAIN sub |-> Line(TRUE, repo.dirs[sub[i]])]
           F   == [i \in DOMAIN own |-> Line(FALSE, repo.files[own[i]])]
           m   == Len(sub)
           n   == Len(own)
<1>1. CalcStrong(repo, d) = SumOf(<<>>, X \o F)
  BY DEF CalcStrong, SubDirs, FilesIn, Line
<1>2. CalcStrong(repo, d).lines = X \o F
  <2> HIDE DEF X, F
  <2>1. \A bytes, lines : SumOf(bytes, lines).lines = lines
    BY DEF SumOf
  <2> QED BY <1>1, <2>1
<1>3. Len(repo.dirs) \in Nat /\ Len(repo.files) \in Nat
  BY LenProperties DEF Tables
<1>4. /\ sub \in Seq(1..Len(repo.dirs)) /\ Range(sub) = RowsBelow(repo.dirs, d)
      /\ \A a, b \in 1..Len(sub) : a < b => sub[a] < sub[b]
      /\ own \in Seq(1..Len(repo.files)) /\ Range(own) = RowsBelow(repo.files, d)
      /\ \A a, b \in 1..Len(own) : a < b => own[a] < own[b]
  BY <1>3, BelowInOrder DEF RowsBelow
<1> HIDE DEF sub, own
<1>5. /\ m \in Nat /\ DOMAIN sub = 1..m /\ \A i \in 1..m : sub[i] \in RowsBelow(repo.dirs, d)
      /\ n \in Nat /\ DOMAIN own = 1..n /\ \A i \in 1..n : own[i] \in RowsBelow(repo.files, d)
      /\ \A s \in RowsBelow(repo.dirs, d) : \E i \in 1..m : s = sub[i]
      /\ \A f \in RowsBelow(repo.files, d) : \E i \in 1..n : f = own[i]
  <2>1. m \in Nat /\ DOMAIN sub = 1..m /\ n \in Nat /\ DOMAIN own = 1..n
    BY <1>4, LenProperties
  <2> QED BY <1>4, <2>1 DEF Range
<1>6. /\ X \in Seq(LinesOf(d)) /\ Len(X) = m
      /\ F \in Seq(LinesOf(d)) /\ Len(F) = n
      /\ \A i \in 1..m : X[i] = Line(TRUE, repo.dirs[sub[i]])
      /\ \A i \in 1..n : F[i] = Line(FALSE, repo.files[own[i]])
  <2>1. /\ \A i \in 1..m : Line(TRUE, repo.dirs[sub[i]]) \in LinesOf(d)
        /\ \A i \in 1..n : Line(FALSE, repo.files[own[i]]) \in LinesOf(d)
    BY <1>5 DEF LinesOf
  <2>2. X \in [1..m -> LinesOf(d)] /\ F \in [1..n -> LinesOf(d)]
    BY <1>5, <2>1
  <2> HIDE DEF m, n
  <2>3. \A i \in 1..m : X[i] = Line(TRUE, repo.dirs[sub[i]])
    BY <1>5
  <2>4. \A i \in 1..n : F[i] = Line(FALSE, repo.files[own[i]])
    BY <1>5
  <2> HIDE DEF X, F
  <2>5. X \in Seq(LinesOf(d)) /\ Len(X) = m
    BY <1>5, <2>2, LenProperties DEF Seq
  <2>6. F \in Seq(LinesOf(d)) /\ Len(F) = n
    BY <1>5, <2>2, LenProperties DEF Seq
  <2> QED BY <2>3, <2>4, <2>5, <2>6
<1> HIDE DEF X, F, m, n
<1> DEFINE L == X \o F
<1>7. /\ L \in Seq(LinesOf(d)) /\ Len(L) = m + n
      /\ \A i \in 1..(m + n) : L[i] = IF i <= m THEN X[i] ELSE F[i - m]
  BY <1>6, ConcatProperties
<1>8. Range(L) = LinesOf(d)
  <2>1. Range(L) \subseteq LinesOf(d)
    <3>1. \A i \in 1..Len(L) : L[i] \in LinesOf(d)
      BY <1>7, ElementOfSeq
    <3>2. DOMAIN L = 1..Len(L)
      BY <1>7, LenProperties
    <3> QED BY <3>1, <3>2 DEF Range
  <2>2. DOMAIN L = 1..(m + n)
    BY <1>7, LenProperties
  <2> HIDE DEF L
  <2>3. ASSUME NEW s \in RowsBelow(repo.dirs, d)  PROVE Line(TRUE, repo.dirs[s]) \in Range(L)
    <3>1. PICK i \in 1..m : s = sub[i]
      BY <1>5
    <3>2. i \in 1..(m + n) /\ i <= m
      BY <1>5, <3>1
    <3>3. L[i] = X[i]
      BY <1>7, <3>2
    <3>4. L[i] = Line(TRUE, repo.dirs[s])
      BY <1>6, <3>1, <3>3
    <3> QED BY <2>2, <3>2, <3>4 DEF Range
  <2>4. ASSUME NEW f \in RowsBelow(repo.files, d)
        PROVE  Line(FALSE, repo.files[f]) \in Range(L)
    <3>1. PICK i \in 1..n : f = own[i]
      BY <1>5
    <3>2. m + i \in 1..(m + n) /\ ~(m + i <= m) /\ (m + i) - m = i
      BY <1>5, <3>1
    <3>3. L[m + i] = Line(FALSE, repo.files[f])
      BY <1>6, <1>7, <3>1, <3>2
    <3> QED BY <2>2, <3>2, <3>3 DEF Range
  <2> QED BY <2>1, <2>3, <2>4 DEF LinesOf
<1>9. ASSUME NEW a \in 1..Len(L), NEW b \in 1..Len(L), a < b  PROVE LineBefore(L[a], L[b])
  <2> HIDE DEF L
  <2>0. a \in 1..(m + n) /\ b \in 1..(m + n)
    BY <1>7
  <2>1. CASE b <= m
    <3>1. a \in 1..m /\ b \in 1..m
      BY <1>5, <1>9, <2>0, <2>1
    <3>2. L[a] = Line(TRUE, repo.dirs[sub[a]]) /\ L[b] = Line(TRUE, repo.dirs[sub[b]])
      <4>1. a <= m
        BY <1>5, <3>1
      <4>2. L[a] = X[a] /\ L[b] = X[b]
        BY <1>7, <2>0, <2>1, <4>1
      <4> QED BY <1>6, <3>1, <4>2
    <3>3. sub[a] < sub[b]
      BY <1>4, <1>9, <3>1 DEF m
    <3>4. Rank[repo.dirs[sub[a]].name[1]] < Rank[repo.dirs[sub[b]].name[1]]
      BY <1>5, <3>1, <3>3, NamesInOrder
    <3> QED BY <3>2, <3>4 DEF LineBefore, Line
  <2>2. CASE a <= m /\ ~(b <= m)
    <3>1. a \in 1..m /\ b - m \in 1..n
      BY <1>5, <1>9, <2>0, <2>2
    <3>2. /\ L[a] = Line(TRUE, repo.dirs[sub[a]])
          /\ L[b] = Line(FALSE, repo.files[own[b - m]])
      BY <1>5, <1>6, <1>7, <2>0, <2>2, <3>1
    <3> QED BY <3>2 DEF LineBefore, Line
  <2>3. CASE ~(a <= m) /\ ~(b <= m)
    <3>1. a - m \in 1..n /\ b - m \in 1..n /\ a - m < b - m
      BY <1>5, <1>9, <2>0, <2>3
    <3>2. /\ L[a] = Line(FALSE, repo.files[own[a - m]])
          /\ L[b] = Line(FALSE, repo.files[own[b - m]])
      BY <1>5, <1>6, <1>7, <2>0, <2>3, <3>1
    <3>3. own[a - m] < own[b - m]
      BY <1>4, <3>1 DEF n
    <3>4. Rank[repo.files[own[a - m]].name[1]] < Rank[repo.files[own[b - m]].name[1]]
      BY <1>5, <3>1, <3>3, NamesInOrder
    <3> QED BY <3>2, <3>4 DEF LineBefore, Line
  <2> QED BY <1>5, <1>9, <2>0, <2>1, <2>2, <2>3
<1>10. L \in Seq(Range(L))
  BY <1>7, SeqOfRange
<1> QED BY <1>1, <1>2, <1>8, <1>9, <1>10

\* Sums are equal if the lines are, in whatever order they are taken.
LEMMA SameSums ==
  ASSUME Tables, Places, IsInput(in), InOrder,
         NEW d \in DOMAIN repo.dirs, NEW e \in DOMAIN repo.dirs
  PROVE  CalcStrong(repo, d) = CalcStrong(repo, e) <=> LinesOf(d) = LinesOf(e)
<1> DEFINE X == CalcStrong(repo, d).lines
           Y == CalcStrong(repo, e).lines
           S == LinesOf(d)
           R == {r \in S \X S : LineBefore(r[1], r[2])}
<1>1. /\ CalcStrong(repo, d) = SumOf(<<>>, X) /\ X \in Seq(Range(X)) /\ Range(X) = LinesOf(d)
      /\ \A a, b \in 1..Len(X) : a < b => LineBefore(X[a], X[b])
  BY LinesInOrder
<1>2. /\ CalcStrong(repo, e) = SumOf(<<>>, Y) /\ Y \in Seq(Range(Y)) /\ Range(Y) = LinesOf(e)
      /\ \A a, b \in 1..Len(Y) : a < b => LineBefore(Y[a], Y[b])
  BY LinesInOrder
<1> HIDE DEF X, Y
<1>3. ASSUME CalcStrong(repo, d) = CalcStrong(repo, e)  PROVE LinesOf(d) = LinesOf(e)
  <2>1. X = Y
    BY <1>3 DEF X, Y
  <2> QED BY <1>1, <1>2, <2>1
<1>4. ASSUME LinesOf(d) = LinesOf(e)  PROVE CalcStrong(repo, d) = CalcStrong(repo, e)
  <2>1. \A l \in S : l.dir \in BOOLEAN /\ Rank[l.name[1]] \in Int
    <3> SUFFICES ASSUME NEW l \in S  PROVE l.dir \in BOOLEAN /\ Rank[l.name[1]] \in Int
      OBVIOUS
    <3>1. \/ \E s \in RowsBelow(repo.dirs, d) : l = Line(TRUE, repo.dirs[s])
          \/ \E f \in RowsBelow(repo.files, d) : l = Line(FALSE, repo.files[f])
      BY DEF LinesOf
    <3>2. CASE \E s \in RowsBelow(repo.dirs, d) : l = Line(TRUE, repo.dirs[s])
      <4>1. PICK s \in RowsBelow(repo.dirs, d) : l = Line(TRUE, repo.dirs[s])
        BY <3>2
      <4>2. PICK x \in Name : repo.dirs[s].name = <<x>>
        BY NamesInOrder
      <4>3. l.dir \in BOOLEAN /\ l.name = <<x>>
        BY <4>1, <4>2 DEF Line
      <4> QED BY <4>3, RankAssumption
    <3>3. CASE \E f \in RowsBelow(repo.files, d) : l = Line(FALSE, repo.files[f])
      <4>1. PICK f \in RowsBelow(repo.files, d) : l = Line(FALSE, repo.files[f])
        BY <3>3
      <4>2. PICK x \in Name : repo.files[f].name = <<x>>
        BY NamesInOrder
      <4>3. l.dir \in BOOLEAN /\ l.name = <<x>>
        BY <4>1, <4>2 DEF Line
      <4> QED BY <4>3, RankAssumption
    <3> QED BY <3>1, <3>2, <3>3
  <2>2. \A x, y : <<x, y>> \in R => <<y, x>> \notin R
    <3> SUFFICES ASSUME NEW x \in S, NEW y \in S, LineBefore(x, y), LineBefore(y, x)
                 PROVE  FALSE
      OBVIOUS
    <3>1. /\ x.dir \in BOOLEAN /\ y.dir \in BOOLEAN
          /\ Rank[x.name[1]] \in Int /\ Rank[y.name[1]] \in Int
      BY <2>1
    <3> QED BY <3>1 DEF LineBefore
  <2>3. /\ \A i \in 1..Len(X) : X[i] \in S
        /\ \A i \in 1..Len(Y) : Y[i] \in S
    BY <1>1, <1>2, <1>4, ElementOfSeq
  <2>4. /\ \A a, b \in 1..Len(X) : a < b => <<X[a], X[b]>> \in R
        /\ \A a, b \in 1..Len(Y) : a < b => <<Y[a], Y[b]>> \in R
    BY <1>1, <1>2, <2>3
  <2> HIDE DEF R
  <2>5. X = Y
    BY <1>1, <1>2, <1>4, <2>2, <2>4, SameOrdered
  <2> QED BY <1>1, <1>2, <2>5
<1> QED BY <1>3, <1>4

\* The path of an entry of a directory.
LEMMA EntryPath ==
  ASSUME NEW p \in Path, NEW x \in Name
  PROVE  LET c == p \o <<x>>
         IN  c \in Path /\ c # <<>> /\ ParentDir(c) = p /\ Last(c) = x
<1> DEFINE c == p \o <<x>>
           m == Len(p)
<1>1. p \in Seq(Name) /\ <<x>> \in Seq(Name) /\ Len(<<x>>) = 1 /\ <<x>>[1] = x
  BY DEF Path
<1>2. /\ c \in Seq(Name) /\ m \in Nat /\ Len(c) = m + 1
      /\ \A i \in 1..(m + 1) : c[i] = IF i <= m THEN p[i] ELSE <<x>>[i - m]
  BY <1>1, ConcatProperties, LenProperties
<1> HIDE DEF c
<1>3. c # <<>> /\ Last(c) = x
  <2>1. m + 1 \in 1..(m + 1) /\ ~(m + 1 <= m) /\ (m + 1) - m = 1
    BY <1>2
  <2>2. c[m + 1] = x
    BY <1>1, <1>2, <2>1
  <2> QED BY <1>2, <2>2, EmptySeq DEF Last
<1>4. ParentDir(c) = p
  <2> DEFINE q == ParentDir(c)
  <2>1. c \in Path
    BY <1>2 DEF Path
  <2>2. /\ q \in Seq(Name) /\ Len(q) = Len(c) - 1
        /\ \A i \in 1..(Len(c) - 1) : q[i] = c[i]
    BY <1>3, <2>1, ParentFacts DEF Path
  <2> HIDE DEF q, m
  <2>3. Len(q) = m /\ \A i \in 1..m : q[i] = c[i]
    BY <1>2, <2>2
  <2>4. \A i \in 1..m : c[i] = p[i]
    BY <1>2
  <2>5. Len(q) = Len(p) /\ \A i \in 1..Len(p) : q[i] = p[i]
    BY <2>3, <2>4 DEF m
  <2>6. q = p
    BY <1>1, <2>2, <2>5, SeqEqual
  <2> QED BY <2>6 DEF q
<1> QED BY <1>2, <1>3, <1>4 DEF c, Path

\* The lines with one name: there is one if there is an entry, and it tells which.
LinesAt(d, x) == {l \in LinesOf(d) : l.name = <<x>>}

LEMMA LineNamed ==
  ASSUME Tables, Places, IsInput(in), InOrder, NEW d \in DOMAIN repo.dirs, NEW l \in LinesOf(d)
  PROVE  \E x \in Name : l \in LinesAt(d, x)
<1>1. \/ \E s \in RowsBelow(repo.dirs, d) : l = Line(TRUE, repo.dirs[s])
      \/ \E f \in RowsBelow(repo.files, d) : l = Line(FALSE, repo.files[f])
  BY DEF LinesOf
<1>2. CASE \E s \in RowsBelow(repo.dirs, d) : l = Line(TRUE, repo.dirs[s])
  <2>1. PICK s \in RowsBelow(repo.dirs, d) : l = Line(TRUE, repo.dirs[s])
    BY <1>2
  <2>2. PICK x \in Name : repo.dirs[s].name = <<x>>
    BY NamesInOrder
  <2> QED BY <2>1, <2>2 DEF LinesAt, Line
<1>3. CASE \E f \in RowsBelow(repo.files, d) : l = Line(FALSE, repo.files[f])
  <2>1. PICK f \in RowsBelow(repo.files, d) : l = Line(FALSE, repo.files[f])
    BY <1>3
  <2>2. PICK x \in Name : repo.files[f].name = <<x>>
    BY NamesInOrder
  <2> QED BY <2>1, <2>2 DEF LinesAt, Line
<1> QED BY <1>1, <1>2, <1>3

LEMMA LinesAtFacts ==
  ASSUME Tables, Places, IsInput(in), NEW d \in DOMAIN repo.dirs, NEW x \in Name
  PROVE  LET c == DirPath(repo)[d] \o <<x>>
         IN  /\ c \notin Indexed => LinesAt(d, x) = {}
             /\ c \in Indexed /\ in.tree[c] = Dir =>
                  \E s \in DOMAIN repo.dirs :
                    /\ s > d /\ DirPath(repo)[s] = c /\ repo.dirs[s].name = <<x>>
                    /\ LinesAt(d, x) = {Line(TRUE, repo.dirs[s])}
             /\ c \in Indexed /\ in.tree[c] # Dir =>
                  \E f \in DOMAIN repo.files :
                    /\ repo.files[f].contents = in.tree[c] /\ repo.files[f].name = <<x>>
                    /\ LinesAt(d, x) = {Line(FALSE, repo.files[f])}
<1> DEFINE c == DirPath(repo)[d] \o <<x>>
<1>1. /\ DirPath(repo)[d] \in Path /\ DirAt(d, DirPath(repo)[d])
      /\ DirPath(repo)[d] \in DOMAIN in.tree
      /\ DOMAIN repo.dirs = 1..Len(repo.dirs) /\ DOMAIN repo.files = 1..Len(repo.files)
      /\ d \in Int
  BY DirPaths, LenProperties DEF Tables
<1>2. c \in Path /\ c # <<>> /\ ParentDir(c) = DirPath(repo)[d] /\ Last(c) = x
  BY <1>1, EntryPath
<1> HIDE DEF c
<1>3. \A u \in DOMAIN repo.dirs : DirPath(repo)[u] = DirPath(repo)[d] <=> u = d
  BY <1>1, DirPaths DEF DirAt
<1>4. \A s \in DOMAIN repo.dirs :
        DirPath(repo)[s] = c <=> repo.dirs[s].parent = d /\ repo.dirs[s].name = <<x>>
  BY <1>2, <1>3, BelowByName
<1>5. \A f \in DOMAIN repo.files :
        FilePath(repo)[f] = c <=> repo.files[f].parent = d /\ repo.files[f].name = <<x>>
  BY <1>2, <1>3, BelowByName
<1>6. \A l : l \in LinesAt(d, x) <=>
        \/ \E s \in DOMAIN repo.dirs : DirPath(repo)[s] = c /\ l = Line(TRUE, repo.dirs[s])
        \/ \E f \in DOMAIN repo.files : FilePath(repo)[f] = c /\ l = Line(FALSE, repo.files[f])
  <2> TAKE l
  <2>1. l \in LinesAt(d, x) <=>
          /\ \/ \E s \in RowsBelow(repo.dirs, d) : l = Line(TRUE, repo.dirs[s])
             \/ \E f \in RowsBelow(repo.files, d) : l = Line(FALSE, repo.files[f])
          /\ l.name = <<x>>
    BY DEF LinesAt, LinesOf
  <2>2. /\ \A s : Line(TRUE, repo.dirs[s]).name = repo.dirs[s].name
        /\ \A f : Line(FALSE, repo.files[f]).name = repo.files[f].name
    BY DEF Line
  <2>3. /\ \A s : s \in RowsBelow(repo.dirs, d) <=>
                   s \in DOMAIN repo.dirs /\ repo.dirs[s].parent = d
        /\ \A f : f \in RowsBelow(repo.files, d) <=>
                   f \in DOMAIN repo.files /\ repo.files[f].parent = d
    BY <1>1 DEF RowsBelow
  <2>4. (\E s \in RowsBelow(repo.dirs, d) : l = Line(TRUE, repo.dirs[s])) /\ l.name = <<x>>
          <=> \E s \in DOMAIN repo.dirs : DirPath(repo)[s] = c /\ l = Line(TRUE, repo.dirs[s])
    <3>1. \A s : s \in RowsBelow(repo.dirs, d) /\ repo.dirs[s].name = <<x>> <=>
                s \in DOMAIN repo.dirs /\ DirPath(repo)[s] = c
      BY <1>4, <2>3
    <3> HIDE DEF c
    <3> QED BY <2>2, <3>1
  <2>5. (\E f \in RowsBelow(repo.files, d) : l = Line(FALSE, repo.files[f])) /\ l.name = <<x>>
          <=> \E f \in DOMAIN repo.files : FilePath(repo)[f] = c /\ l = Line(FALSE, repo.files[f])
    BY <1>5, <2>2, <2>3
  <2> QED BY <2>1, <2>4, <2>5
<1>7. \A s \in DOMAIN repo.dirs : DirPath(repo)[s] = c =>
        /\ c \in DOMAIN in.tree /\ in.tree[c] = Dir /\ s > d
        /\ \A u \in DOMAIN repo.dirs : DirPath(repo)[u] = c => u = s
  <2> SUFFICES ASSUME NEW s \in DOMAIN repo.dirs, DirPath(repo)[s] = c
               PROVE  /\ c \in DOMAIN in.tree /\ in.tree[c] = Dir /\ s > d
                      /\ \A u \in DOMAIN repo.dirs : DirPath(repo)[u] = c => u = s
    OBVIOUS
  <2>1. c \in DOMAIN in.tree /\ DirAt(s, c) /\ RowRight(s, c)
    BY DirPaths
  <2>2. repo.dirs[s].parent = d /\ s \in Int
    BY <1>1, <1>4
  <2>3. s > d
    BY <1>1, <1>2, <2>1, <2>2 DEF RowRight
  <2>4. \A u \in DOMAIN repo.dirs : DirPath(repo)[u] = c => u = s
    BY <2>1, DirPaths DEF DirAt
  <2> QED BY <2>1, <2>3, <2>4 DEF DirAt, IsDir
<1>8. \A f \in DOMAIN repo.files : FilePath(repo)[f] = c =>
        /\ c \in DOMAIN in.tree /\ in.tree[c] # Dir /\ repo.files[f].contents = in.tree[c]
        /\ \A g \in DOMAIN repo.files : FilePath(repo)[g] = c => g = f
  <2> SUFFICES ASSUME NEW f \in DOMAIN repo.files, FilePath(repo)[f] = c
               PROVE  /\ c \in DOMAIN in.tree /\ in.tree[c] # Dir
                      /\ repo.files[f].contents = in.tree[c]
                      /\ \A g \in DOMAIN repo.files : FilePath(repo)[g] = c => g = f
    OBVIOUS
  <2>1. c \in DOMAIN in.tree /\ IsFile(in.tree, c) /\ NodeOf(f, c)
    BY FilePaths
  <2>2. \A g \in DOMAIN repo.files : FilePath(repo)[g] = c => g = f
    BY <2>1, FilePaths DEF Places, FilesPlaced
  <2> QED BY <2>1, <2>2 DEF IsFile, NodeOf
<1>9. c \in Indexed <=> \/ \E s \in DOMAIN repo.dirs : DirPath(repo)[s] = c
                        \/ \E f \in DOMAIN repo.files : FilePath(repo)[f] = c
  BY <1>7, <1>8, EntriesFound, IndexedFacts
<1>10. c \notin Indexed => LinesAt(d, x) = {}
  BY <1>6, <1>9
<1>11. ASSUME c \in Indexed, in.tree[c] = Dir
       PROVE  \E s \in DOMAIN repo.dirs :
                /\ s > d /\ DirPath(repo)[s] = c /\ repo.dirs[s].name = <<x>>
                /\ LinesAt(d, x) = {Line(TRUE, repo.dirs[s])}
  <2>1. PICK s \in DOMAIN repo.dirs : DirPath(repo)[s] = c
    BY <1>8, <1>9, <1>11
  <2>2. \A l : l \in LinesAt(d, x) <=> l = Line(TRUE, repo.dirs[s])
    BY <1>6, <1>7, <1>8, <1>11, <2>1
  <2> QED BY <1>4, <1>7, <2>1, <2>2
<1>12. ASSUME c \in Indexed, in.tree[c] # Dir
       PROVE  \E f \in DOMAIN repo.files :
                /\ repo.files[f].contents = in.tree[c] /\ repo.files[f].name = <<x>>
                /\ LinesAt(d, x) = {Line(FALSE, repo.files[f])}
  <2>1. PICK f \in DOMAIN repo.files : FilePath(repo)[f] = c
    BY <1>7, <1>9, <1>12
  <2>2. \A l : l \in LinesAt(d, x) <=> l = Line(FALSE, repo.files[f])
    BY <1>6, <1>7, <1>8, <1>12, <2>1
  <2> QED BY <1>5, <1>8, <2>1, <2>2
<1> QED BY <1>10, <1>11, <1>12 DEF c

\* When every checksum has been computed.
AllSummed ==
  /\ \A f \in DOMAIN repo.files : repo.files[f].strong = FileStrong(repo.files[f].contents)
  /\ \A d \in DOMAIN repo.dirs : repo.dirs[d].strong = CalcStrong(repo, d)

\* Two directories have the same line with a name if the entries with it are alike.
LEMMA SameLine ==
  ASSUME Tables, Places, IsInput(in), Closed, AllSummed,
         NEW t, t = [p \in Indexed |-> in.tree[p]],
         NEW d \in DOMAIN repo.dirs, NEW e \in DOMAIN repo.dirs, NEW x \in Name,
         \A s, u \in DOMAIN repo.dirs : s > d /\ u > e =>
           (repo.dirs[s].strong = repo.dirs[u].strong
              <=> Alike(t, DirPath(repo)[s], DirPath(repo)[u]))
  PROVE  LinesAt(d, x) = LinesAt(e, x)
           <=> Alike(t, DirPath(repo)[d] \o <<x>>, DirPath(repo)[e] \o <<x>>)
<1> DEFINE c(u) == DirPath(repo)[u] \o <<x>>
           isDir(u) == c(u) \in Indexed /\ in.tree[c(u)] = Dir
<1>1. \A u \in DOMAIN repo.dirs : c(u) \in Path
  BY DirPaths, EntryPath
<1>2. \A u \in DOMAIN repo.dirs : c(u) \notin Indexed => LinesAt(u, x) = {}
  BY LinesAtFacts
<1>3. \A u \in DOMAIN repo.dirs : isDir(u) =>
        \E s \in DOMAIN repo.dirs : /\ s > u /\ DirPath(repo)[s] = c(u)
                                    /\ repo.dirs[s].name = <<x>>
                                    /\ LinesAt(u, x) = {Line(TRUE, repo.dirs[s])}
  BY LinesAtFacts
<1>4. \A u \in DOMAIN repo.dirs : c(u) \in Indexed /\ ~isDir(u) =>
        LinesAt(u, x) = {[dir |-> FALSE, strong |-> FileStrong(in.tree[c(u)]), name |-> <<x>>]}
  <2> SUFFICES ASSUME NEW u \in DOMAIN repo.dirs, c(u) \in Indexed, in.tree[c(u)] # Dir
               PROVE  LinesAt(u, x) = {[dir |-> FALSE, strong |-> FileStrong(in.tree[c(u)]),
                                        name |-> <<x>>]}
    OBVIOUS
  <2>1. PICK f \in DOMAIN repo.files :
          /\ repo.files[f].contents = in.tree[c(u)] /\ repo.files[f].name = <<x>>
          /\ LinesAt(u, x) = {Line(FALSE, repo.files[f])}
    BY LinesAtFacts
  <2>2. repo.files[f].strong = FileStrong(in.tree[c(u)])
    BY <2>1 DEF AllSummed
  <2> QED BY <2>1, <2>2 DEF Line
<1> HIDE DEF c
<1>5. CASE isDir(d) /\ isDir(e)
  <2>1. PICK s \in DOMAIN repo.dirs :
          /\ s > d /\ DirPath(repo)[s] = c(d) /\ repo.dirs[s].name = <<x>>
          /\ LinesAt(d, x) = {Line(TRUE, repo.dirs[s])}
    BY <1>3, <1>5
  <2>2. PICK u \in DOMAIN repo.dirs :
          /\ u > e /\ DirPath(repo)[u] = c(e) /\ repo.dirs[u].name = <<x>>
          /\ LinesAt(e, x) = {Line(TRUE, repo.dirs[u])}
    BY <1>3, <1>5
  <2>3. LinesAt(d, x) = LinesAt(e, x) <=> Line(TRUE, repo.dirs[s]) = Line(TRUE, repo.dirs[u])
    BY <2>1, <2>2
  <2>4. Line(TRUE, repo.dirs[s]) = Line(TRUE, repo.dirs[u])
          <=> repo.dirs[s].strong = repo.dirs[u].strong
    BY <2>1, <2>2 DEF Line
  <2>5. repo.dirs[s].strong = repo.dirs[u].strong <=> Alike(t, c(d), c(e))
    BY <2>1, <2>2
  <2> QED BY <2>3, <2>4, <2>5 DEF c
<1>6. ASSUME ~isDir(d) \/ ~isDir(e)
      PROVE  LinesAt(d, x) = LinesAt(e, x) <=>
               /\ c(d) \in Indexed <=> c(e) \in Indexed
               /\ c(d) \in Indexed => in.tree[c(d)] = in.tree[c(e)]
  <2>1. \A u \in DOMAIN repo.dirs : isDir(u) => \E s : LinesAt(u, x) = {Line(TRUE, s)}
    BY <1>3
  <2>2. \A s : \A b : Line(TRUE, s) # [dir |-> FALSE, strong |-> b, name |-> <<x>>]
    BY DEF Line
  <2>3. \A a, b : [dir |-> FALSE, strong |-> FileStrong(a), name |-> <<x>>]
                    = [dir |-> FALSE, strong |-> FileStrong(b), name |-> <<x>>] <=> a = b
    BY DEF FileStrong, SumOf
  <2> DEFINE file(a) == [dir |-> FALSE, strong |-> FileStrong(a), name |-> <<x>>]
  <2>4. /\ \A u \in DOMAIN repo.dirs :
             c(u) \in Indexed /\ ~isDir(u) => LinesAt(u, x) = {file(in.tree[c(u)])}
        /\ \A s : \A b : Line(TRUE, s) # file(b)
        /\ \A a, b : file(a) = file(b) <=> a = b
    BY <1>4, <2>2, <2>3
  <2> HIDE DEF file
  <2>5. CASE isDir(d)
    <3>1. PICK s : LinesAt(d, x) = {Line(TRUE, s)}
      BY <2>1, <2>5
    <3>2. ~isDir(e)
      BY <1>6, <2>5
    <3>3. CASE c(e) \notin Indexed
      <4>1. LinesAt(e, x) = {}
        BY <1>2, <3>3
      <4> QED BY <2>5, <3>1, <3>3, <4>1
    <3>4. CASE c(e) \in Indexed
      <4>1. LinesAt(e, x) = {file(in.tree[c(e)])} /\ in.tree[c(e)] # Dir
        BY <2>4, <3>2, <3>4
      <4>2. Line(TRUE, s) # file(in.tree[c(e)])
        BY <2>4
      <4> QED BY <2>5, <3>1, <4>1, <4>2
    <3> QED BY <3>3, <3>4
  <2>6. CASE isDir(e)
    <3>1. PICK s : LinesAt(e, x) = {Line(TRUE, s)}
      BY <2>1, <2>6
    <3>2. ~isDir(d)
      BY <1>6, <2>6
    <3>3. CASE c(d) \notin Indexed
      <4>1. LinesAt(d, x) = {}
        BY <1>2, <3>3
      <4> QED BY <2>6, <3>1, <3>3, <4>1
    <3>4. CASE c(d) \in Indexed
      <4>1. LinesAt(d, x) = {file(in.tree[c(d)])} /\ in.tree[c(d)] # Dir
        BY <2>4, <3>2, <3>4
      <4>2. Line(TRUE, s) # file(in.tree[c(d)])
        BY <2>4
      <4> QED BY <2>6, <3>1, <4>1, <4>2
    <3> QED BY <3>3, <3>4
  <2>7. CASE ~isDir(d) /\ ~isDir(e)
    <3>1. /\ c(d) \in Indexed => LinesAt(d, x) = {file(in.tree[c(d)])}
          /\ c(e) \in Indexed => LinesAt(e, x) = {file(in.tree[c(e)])}
          /\ c(d) \notin Indexed => LinesAt(d, x) = {}
          /\ c(e) \notin Indexed => LinesAt(e, x) = {}
      BY <1>2, <2>4, <2>7
    <3> QED BY <2>4, <3>1
  <2> QED BY <2>5, <2>6, <2>7
<1>7. ASSUME ~isDir(d)
      PROVE  Alike(t, c(d), c(e)) <=> /\ c(d) \in Indexed <=> c(e) \in Indexed
                                      /\ c(d) \in Indexed => in.tree[c(d)] = in.tree[c(e)]
  BY <1>1, <1>7, AlikeLeaves
<1>8. ASSUME ~isDir(e)
      PROVE  Alike(t, c(d), c(e)) <=> /\ c(d) \in Indexed <=> c(e) \in Indexed
                                      /\ c(d) \in Indexed => in.tree[c(d)] = in.tree[c(e)]
  <2>1. Alike(t, c(e), c(d)) <=> /\ c(e) \in Indexed <=> c(d) \in Indexed
                                 /\ c(e) \in Indexed => in.tree[c(e)] = in.tree[c(d)]
    BY <1>1, <1>8, AlikeLeaves
  <2>2. Alike(t, c(e), c(d)) <=> Alike(t, c(d), c(e))
    BY DEF Alike
  <2> QED BY <2>1, <2>2
<1>9. CASE ~isDir(d) \/ ~isDir(e)
  <2>1. LinesAt(d, x) = LinesAt(e, x) <=> Alike(t, c(d), c(e))
    BY <1>6, <1>7, <1>8, <1>9
  <2> QED BY <2>1 DEF c
<1> QED BY <1>5, <1>9

\* Directories have the same checksum if they are alike.
LEMMA SameStrongs ==
  ASSUME Tables, Places, IsInput(in), InOrder, Closed, AllSummed,
         NEW t, t = [p \in Indexed |-> in.tree[p]]
  PROVE  \A d, e \in DOMAIN repo.dirs :
           repo.dirs[d].strong = repo.dirs[e].strong
             <=> Alike(t, DirPath(repo)[d], DirPath(repo)[e])
<1> DEFINE D == DOMAIN repo.dirs
           N == Len(repo.dirs)
           same(d, e) == repo.dirs[d].strong = repo.dirs[e].strong
                           <=> Alike(t, DirPath(repo)[d], DirPath(repo)[e])
           S == {n \in Nat : \A d, e \in D : d > N - n /\ e > N - n => same(d, e)}
<1>1. N \in Nat /\ D = 1..N
  BY LenProperties DEF Tables
<1>2. 0 \in S
  BY <1>1
<1>3. ASSUME NEW n \in Nat, n \in S  PROVE n + 1 \in S
  <2> SUFFICES ASSUME NEW d \in D, NEW e \in D, d > N - (n + 1), e > N - (n + 1)
               PROVE  same(d, e)
    OBVIOUS
  <2>1. ASSUME NEW s \in D, NEW u \in D, s > d, u > e  PROVE same(s, u)
    <3>1. s > N - n /\ u > N - n
      BY <1>1, <2>1
    <3> HIDE DEF same
    <3> QED BY <1>3, <3>1
  <2>2. \A x \in Name :
          LinesAt(d, x) = LinesAt(e, x)
            <=> Alike(t, DirPath(repo)[d] \o <<x>>, DirPath(repo)[e] \o <<x>>)
    BY <2>1, SameLine
  <2>3. LinesOf(d) = LinesOf(e) <=> \A x \in Name : LinesAt(d, x) = LinesAt(e, x)
    <3>1. \A u \in D : \A l \in LinesOf(u) : \E x \in Name : l \in LinesAt(u, x)
      BY LineNamed
    <3>2. \A u \in D : \A x : LinesAt(u, x) \subseteq LinesOf(u)
      BY DEF LinesAt
    <3>3. LinesOf(d) = LinesOf(e) => \A x \in Name : LinesAt(d, x) = LinesAt(e, x)
      BY DEF LinesAt
    <3>4. ASSUME \A x \in Name : LinesAt(d, x) = LinesAt(e, x)  PROVE LinesOf(d) = LinesOf(e)
      BY <3>1, <3>2, <3>4
    <3> QED BY <3>3, <3>4
  <2>4. repo.dirs[d].strong = repo.dirs[e].strong <=> LinesOf(d) = LinesOf(e)
    BY SameSums DEF AllSummed
  <2>5. /\ DirPath(repo)[d] \in Indexed /\ DirPath(repo)[e] \in Indexed
        /\ DirPath(repo)[d] \in Path /\ DirPath(repo)[e] \in Path
        /\ in.tree[DirPath(repo)[d]] = Dir /\ in.tree[DirPath(repo)[e]] = Dir
    BY DirPaths, IndexedFacts DEF DirAt, IsDir
  <2>6. Alike(t, DirPath(repo)[d], DirPath(repo)[e])
          <=> \A x \in Name : Alike(t, DirPath(repo)[d] \o <<x>>, DirPath(repo)[e] \o <<x>>)
    BY <2>5, AlikeSteps
  <2> QED BY <2>2, <2>3, <2>4, <2>6
<1>4. Nat \subseteq S
  <2> HIDE DEF S
  <2> QED BY <1>2, <1>3, SetInduction
<1>5. \A d, e \in D : same(d, e)
  <2>1. N \in S
    <3> HIDE DEF S
    <3> QED BY <1>1, <1>4
  <2>2. \A d \in D : d > N - N
    BY <1>1
  <2> HIDE DEF same, D, N
  <2> QED BY <2>1, <2>2
<1> QED BY <1>5

\* A directory sums nothing if nothing is in it.
LEMMA EmptySum ==
  ASSUME Tables, Places, IsInput(in), InOrder, NEW d \in DOMAIN repo.dirs,
         NEW t, t = [p \in Indexed |-> in.tree[p]]
  PROVE  CalcStrong(repo, d) = SumOf(<<>>, <<>>) <=> Children(t, DirPath(repo)[d]) = {}
<1> DEFINE lines == CalcStrong(repo, d).lines
           P     == DirPath(repo)[d]
<1>1. /\ CalcStrong(repo, d) = SumOf(<<>>, lines)
      /\ lines \in Seq(Range(lines)) /\ Range(lines) = LinesOf(d)
  BY LinesInOrder
<1>2. P \in Path /\ DOMAIN t = Indexed /\ Indexed \subseteq Path
  BY DirPaths, IndexedFacts, InputFacts
<1> HIDE DEF lines, P
<1>3. CalcStrong(repo, d) = SumOf(<<>>, <<>>) <=> lines = <<>>
  BY <1>1 DEF SumOf
<1>4. lines = <<>> <=> LinesOf(d) = {}
  <2>1. DOMAIN lines = 1..Len(lines) /\ Len(lines) \in Nat
    BY <1>1, LenProperties
  <2>2. lines = <<>> <=> Len(lines) = 0
    BY <1>1, EmptySeq
  <2>3. Len(lines) = 0 <=> DOMAIN lines = {}
    BY <2>1
  <2>4. DOMAIN lines = {} <=> Range(lines) = {}
    BY DEF Range
  <2> QED BY <1>1, <2>2, <2>3, <2>4
<1>5. ASSUME LinesOf(d) # {}  PROVE Children(t, P) # {}
  <2>1. PICK x \in Name : LinesAt(d, x) # {}
    BY <1>5, LineNamed
  <2>2. P \o <<x>> \in Indexed
    BY <2>1, LinesAtFacts DEF P
  <2>3. P \o <<x>> # <<>> /\ ParentDir(P \o <<x>>) = P
    BY <1>2, EntryPath
  <2> QED BY <1>2, <2>2, <2>3 DEF Children
<1>6. ASSUME Children(t, P) # {}  PROVE LinesOf(d) # {}
  <2>1. PICK q \in Indexed : q # <<>> /\ ParentDir(q) = P
    BY <1>2, <1>6 DEF Children
  <2>2. P \o <<Last(q)>> = q /\ Last(q) \in Name
    BY <1>2, <2>1, ParentAndName
  <2>3. LinesAt(d, Last(q)) # {}
    BY <2>1, <2>2, LinesAtFacts DEF P
  <2> QED BY <2>3 DEF LinesAt
<1> QED BY <1>3, <1>4, <1>5, <1>6 DEF P

\* What is indexed when the walk is over is closed.
LEMMA IndexClosed ==
  ASSUME IInv, walker = "done"
  PROVE  Closed
<1> SUFFICES ASSUME NEW p \in Indexed, NEW q \in Path, IsStrictPrefix(q, p)
             PROVE  q \in Indexed /\ IsDir(in.tree, q)
  BY DEF Closed
<1>1. Indexed = Promise!Readable /\ IsInput(in)
  BY WalkedFacts DEF IInv, Walk
<1>2. /\ p \in DOMAIN in.tree /\ p \in Path /\ \A b \in in.bad : ~IsStrictPrefix(b, p)
      /\ \A b \in in.bad : b \in Path
  BY <1>1, ReadableFacts, InputFacts
<1>3. q \in DOMAIN in.tree /\ IsDir(in.tree, q) /\ q \notin in.skip /\ ~IsFile(in.tree, q)
  BY <1>1, <1>2, InputFacts DEF IsFile, IsDir, Exists
<1>4. ASSUME NEW b \in in.bad, IsStrictPrefix(b, q)  PROVE FALSE
  <2>1. IsPrefix(b, p)
    BY <1>2, <1>4, PrefixTransitive DEF IsStrictPrefix, Path
  <2>2. b = p
    BY <1>2, <2>1 DEF IsStrictPrefix
  <2> QED BY <1>2, <1>4, <2>2, PrefixAntisymmetric DEF IsStrictPrefix, Path
<1> QED BY <1>1, <1>3, <1>4, ReadableFacts

LEMMA StrongInv == Spec => [](IInv /\ Places /\ InOrder /\ Summed)
<1>1. Init => IInv /\ Places /\ InOrder /\ Summed
  <2> SUFFICES ASSUME Init  PROVE InOrder /\ Summed
    BY InitInv, PlacesInit
  <2>1. Indexed = {}
    BY InitInv DEF Init, IInv, IndexInv, Visited
  <2>2. DOMAIN repo.dirs = {} /\ DOMAIN repo.files = {} /\ index = "init"
    BY DEF Init, NewMemRepo, NewDbRepo
  <2> QED BY <2>1, <2>2 DEF InOrder, Summed
<1>2. IInv /\ Places /\ InOrder /\ Summed /\ [Next]_vars => (IInv /\ Places /\ InOrder /\ Summed)'
  <2> SUFFICES ASSUME IInv, Places, InOrder, Summed, [Next]_vars
               PROVE  Places' /\ InOrder' /\ Summed'
    BY StepInv
  <2>1. CASE UNCHANGED vars
    <3>1. UNCHANGED <<in, repo, dirMap, root, todo, index, stale>>
      BY <2>1 DEF vars, repoVars, walkVars
    <3>2. Places'
      BY <3>1, RowsPlaced DEF IInv, Places, RootPlaced
    <3>3. InOrder'
      BY <3>1, OrderKept
    <3>4. Summed'
      BY <3>1 DEF Summed
    <3> QED BY <3>2, <3>3, <3>4
  <2>2. CASE Next
    BY <2>2, StepIsNext, PlacesStep, OrderStep, SummedStep
  <2> QED BY <2>1, <2>2
<1> QED BY <1>1, <1>2, PTL DEF Spec

\* When indexing has returned, two nodes have the same strong checksum if and only if they
\* are equal files, directories with the same in them, or both empty: no checksum was
\* computed before what it sums (index.go:176-180, node.go:153-175).
THEOREM ChecksumsMeanEquality == Spec => []StrongsRight
<1> DEFINE t     == TreeOf(repo)
           dirs  == DirPath(repo)
           files == FilePath(repo)
           sums  == {<<dirs[d], repo.dirs[d].strong>> : d \in DOMAIN dirs}
                      \cup {<<files[f], repo.files[f].strong>> : f \in DOMAIN files}
           right(x, y) == x[2] = y[2] <=> SameStrong(t, x[1], t, y[1])
<1>1. ASSUME IInv, Places, InOrder, Summed, Returned
      PROVE  \A x, y \in sums : right(x, y)
  <2>1. Tables /\ IsInput(in) /\ walker = "done" /\ index = "end" /\ stale = {}
    BY <1>1 DEF IInv, Walk, Control, Returned, Summed
  <2>2. AllSummed /\ Closed
    BY <1>1, <2>1, IndexClosed DEF Summed, AllSummed
  <2>3. t = [p \in Indexed |-> in.tree[p]] /\ DOMAIN t = Indexed /\ Indexed \subseteq Path
    BY <1>1, <2>1, NodesMakeTree, IndexedFacts, InputFacts
  <2> HIDE DEF t
  <2>4. /\ DOMAIN dirs = DOMAIN repo.dirs /\ DOMAIN files = DOMAIN repo.files
        /\ \A d \in DOMAIN repo.dirs : dirs[d] \in Path /\ IsDir(t, dirs[d])
        /\ \A f \in DOMAIN repo.files :
             /\ files[f] \in Path /\ IsFile(t, files[f])
             /\ t[files[f]] = repo.files[f].contents
    <3>1. \A d \in DOMAIN repo.dirs : dirs[d] \in Path /\ IsDir(t, dirs[d])
      BY <1>1, <2>1, <2>3, DirPaths, IndexedFacts DEF DirAt, IsDir, Exists
    <3>2. \A f \in DOMAIN repo.files : files[f] \in Path /\ IsFile(t, files[f])
                                       /\ t[files[f]] = repo.files[f].contents
      BY <1>1, <2>1, <2>3, FilePaths, IndexedFacts DEF NodeOf, IsFile, Exists
    <3> QED BY <1>1, <2>1, <3>1, <3>2, DirPaths, FilePaths
  <2>5. \A d \in DOMAIN repo.dirs : ~IsFile(t, dirs[d])
    BY <2>4 DEF IsFile, IsDir
  <2>6. \A f \in DOMAIN repo.files : ~IsDir(t, files[f])
    BY <2>4 DEF IsFile, IsDir
  <2>7. \A d, e \in DOMAIN repo.dirs :
          repo.dirs[d].strong = repo.dirs[e].strong <=> SameStrong(t, dirs[d], t, dirs[e])
    <3> TAKE d, e \in DOMAIN repo.dirs
    <3>1. repo.dirs[d].strong = repo.dirs[e].strong <=> Alike(t, dirs[d], dirs[e])
      BY <1>1, <2>1, <2>2, <2>3, SameStrongs
    <3>2. DeepContents(t, dirs[d]) = DeepContents(t, dirs[e]) <=> Alike(t, dirs[d], dirs[e])
      BY <2>3, <2>4, DeepAlike
    <3> QED BY <2>4, <2>5, <3>1, <3>2 DEF SameStrong
  <2>8. \A f, g \in DOMAIN repo.files :
          repo.files[f].strong = repo.files[g].strong <=> SameStrong(t, files[f], t, files[g])
    <3> TAKE f, g \in DOMAIN repo.files
    <3>1. \A a, b : FileStrong(a) = FileStrong(b) <=> a = b
      BY DEF FileStrong, SumOf
    <3>2. SameStrong(t, files[f], t, files[g]) <=> t[files[f]] = t[files[g]]
      <4>1. /\ IsFile(t, files[f]) /\ ~IsDir(t, files[f])
            /\ IsFile(t, files[g]) /\ ~IsDir(t, files[g])
        BY <2>4, <2>6
      <4> QED BY <4>1 DEF SameStrong
    <3>3. /\ repo.files[f].strong = FileStrong(repo.files[f].contents)
          /\ repo.files[g].strong = FileStrong(repo.files[g].contents)
      BY <2>2 DEF AllSummed
    <3>4. t[files[f]] = repo.files[f].contents /\ t[files[g]] = repo.files[g].contents
      BY <2>4
    <3> QED BY <3>1, <3>2, <3>3, <3>4
  <2>9. \A d \in DOMAIN repo.dirs : \A f \in DOMAIN repo.files :
          /\ repo.dirs[d].strong = repo.files[f].strong
               <=> IsEmptyNode(t, dirs[d]) /\ IsEmptyNode(t, files[f])
          /\ SameStrong(t, dirs[d], t, files[f])
               <=> IsEmptyNode(t, dirs[d]) /\ IsEmptyNode(t, files[f])
          /\ SameStrong(t, files[f], t, dirs[d])
               <=> IsEmptyNode(t, dirs[d]) /\ IsEmptyNode(t, files[f])
    <3> TAKE d \in DOMAIN repo.dirs
    <3> TAKE f \in DOMAIN repo.files
    <3>1. /\ repo.dirs[d].strong = SumOf(<<>>, CalcStrong(repo, d).lines)
          /\ repo.files[f].strong = SumOf(repo.files[f].contents, <<>>)
          /\ repo.dirs[d].strong = SumOf(<<>>, <<>>) <=> Children(t, dirs[d]) = {}
      BY <1>1, <2>1, <2>2, <2>3, LinesInOrder, EmptySum DEF AllSummed, FileStrong
    <3>2. \A b, l : SumOf(<<>>, l) = SumOf(b, <<>>) <=> b = <<>> /\ SumOf(<<>>, l) = SumOf(<<>>, <<>>)
      BY DEF SumOf
    <3>3. repo.dirs[d].strong = repo.files[f].strong
            <=> repo.files[f].contents = <<>> /\ Children(t, dirs[d]) = {}
      BY <3>1, <3>2
    <3>4. /\ IsEmptyNode(t, dirs[d]) <=> Children(t, dirs[d]) = {}
          /\ IsEmptyNode(t, files[f]) <=> repo.files[f].contents = <<>>
      BY <2>4, <2>6 DEF IsEmptyNode
    <3>5. /\ SameStrong(t, dirs[d], t, files[f])
               <=> IsEmptyNode(t, dirs[d]) /\ IsEmptyNode(t, files[f])
          /\ SameStrong(t, files[f], t, dirs[d])
               <=> IsEmptyNode(t, dirs[d]) /\ IsEmptyNode(t, files[f])
      BY <2>4, <2>5, <2>6 DEF SameStrong
    <3> QED BY <3>3, <3>4, <3>5
  <2> SUFFICES ASSUME NEW x \in sums, NEW y \in sums  PROVE right(x, y)
    OBVIOUS
  <2>10. /\ \/ \E d \in DOMAIN repo.dirs : x = <<dirs[d], repo.dirs[d].strong>>
            \/ \E f \in DOMAIN repo.files : x = <<files[f], repo.files[f].strong>>
         /\ \/ \E d \in DOMAIN repo.dirs : y = <<dirs[d], repo.dirs[d].strong>>
            \/ \E f \in DOMAIN repo.files : y = <<files[f], repo.files[f].strong>>
    BY <2>4
  <2> HIDE DEF dirs, files
  <2> QED BY <2>7, <2>8, <2>9, <2>10
<1>2. IInv /\ Places /\ InOrder /\ Summed => StrongsRight
  BY <1>1 DEF StrongsRight
<1> QED BY <1>2, StrongInv, PTL

-----------------------------------------------------------------------------
(* The order in which nodes are added.                                     *)

\* Starts that are equal are so name by name.
LEMMA SameStart ==
  ASSUME NEW p \in Path, NEW q \in Path, NEW i \in DOMAIN p \cap DOMAIN q,
         SubSeq(p, 1, i - 1) = SubSeq(q, 1, i - 1)
  PROVE  /\ i \in Nat \ {0} /\ \A k \in 1..(i - 1) : p[k] = q[k]
         /\ p[i] \in Name /\ q[i] \in Name
<1>1. /\ p \in Seq(Name) /\ q \in Seq(Name) /\ Len(p) \in Nat /\ Len(q) \in Nat
      /\ DOMAIN p = 1..Len(p) /\ DOMAIN q = 1..Len(q)
  BY LenProperties DEF Path
<1> DEFINE x == SubSeq(p, 1, i - 1)
           y == SubSeq(q, 1, i - 1)
<1>2. \A k \in 1..(i - 1) : p[k] \in Name /\ q[k] \in Name
  BY <1>1, ElementOfSeq
<1>3. \A k \in 1..(i - 1 - 1 + 1) : x[k] = p[1 + k - 1]
  BY <1>1, <1>2, SubSeqProperties
<1>4. \A k \in 1..(i - 1 - 1 + 1) : y[k] = q[1 + k - 1]
  BY <1>1, <1>2, SubSeqProperties
<1>5. x = y
  OBVIOUS
<1> HIDE DEF x, y
<1>6. \A k \in 1..(i - 1) : p[k] = q[k]
  <2> SUFFICES ASSUME NEW k \in 1..(i - 1)  PROVE p[k] = q[k]
    OBVIOUS
  <2>1. k \in 1..(i - 1 - 1 + 1) /\ 1 + k - 1 = k
    BY <1>1
  <2> QED BY <1>3, <1>4, <1>5, <2>1
<1> QED BY <1>1, <1>6, ElementOfSeq

\* Of two nodes not each is added before the other.
LEMMA AddedOneWay ==
  ASSUME NEW p \in Path, NEW q \in Path, AddedBefore(p, q)
  PROVE  ~AddedBefore(q, p)
<1> SUFFICES ASSUME AddedBefore(q, p)  PROVE FALSE
  OBVIOUS
<1>1. ~IsStrictPrefix(p, q) /\ ~IsStrictPrefix(q, p)
  BY AboveComesFirst
<1>2. PICK i \in DOMAIN p \cap DOMAIN q : /\ SubSeq(p, 1, i - 1) = SubSeq(q, 1, i - 1)
                                          /\ Rank[p[i]] < Rank[q[i]]
  BY <1>1 DEF AddedBefore
<1>3. PICK j \in DOMAIN q \cap DOMAIN p : /\ SubSeq(q, 1, j - 1) = SubSeq(p, 1, j - 1)
                                          /\ Rank[q[j]] < Rank[p[j]]
  BY <1>1 DEF AddedBefore
<1>4. /\ i \in Nat \ {0} /\ \A k \in 1..(i - 1) : p[k] = q[k]
      /\ p[i] \in Name /\ q[i] \in Name
  BY <1>2, SameStart
<1>5. /\ j \in Nat \ {0} /\ \A k \in 1..(j - 1) : p[k] = q[k]
      /\ p[j] \in Name /\ q[j] \in Name
  BY <1>3, SameStart
<1>6. /\ Rank[p[i]] \in Int /\ Rank[q[i]] \in Int
      /\ Rank[p[j]] \in Int /\ Rank[q[j]] \in Int
  BY <1>4, <1>5, RankAssumption
<1>7. CASE i < j
  <2>1. p[i] = q[i]
    BY <1>4, <1>5, <1>7
  <2> QED BY <1>2, <1>6, <2>1
<1>8. CASE j < i
  <2>1. p[j] = q[j]
    BY <1>4, <1>5, <1>8
  <2> QED BY <1>3, <1>6, <2>1
<1>9. CASE i = j
  BY <1>2, <1>3, <1>6, <1>9
<1> QED BY <1>4, <1>5, <1>7, <1>8, <1>9

\* What is added after a directory, and before something in it, is in it.
LEMMA AddedBetween ==
  ASSUME NEW p \in Path, NEW q \in Path, NEW r \in Path,
         IsStrictPrefix(p, r), AddedBefore(p, q), AddedBefore(q, r)
  PROVE  IsStrictPrefix(p, q)
<1> SUFFICES ASSUME ~IsStrictPrefix(p, q)  PROVE FALSE
  OBVIOUS
<1>1. PICK i \in DOMAIN p \cap DOMAIN q : /\ SubSeq(p, 1, i - 1) = SubSeq(q, 1, i - 1)
                                          /\ Rank[p[i]] < Rank[q[i]]
  BY DEF AddedBefore
<1>2. /\ i \in Nat \ {0} /\ \A k \in 1..(i - 1) : p[k] = q[k]
      /\ p[i] \in Name /\ q[i] \in Name
  BY <1>1, SameStart
<1>3. /\ p \in Seq(Name) /\ q \in Seq(Name) /\ r \in Seq(Name)
      /\ DOMAIN p = 1..Len(p) /\ DOMAIN q = 1..Len(q) /\ Len(p) \in Nat /\ Len(q) \in Nat
  BY LenProperties DEF Path
<1>4. \A k \in 1..Len(p) : p[k] = r[k]
  BY <1>3, PrefixElements DEF IsStrictPrefix
<1>5. i <= Len(p) /\ i <= Len(q) /\ p[i] = r[i]
  BY <1>1, <1>3, <1>4
<1>6. Rank[p[i]] \in Int /\ Rank[q[i]] \in Int
  BY <1>2, RankAssumption
<1>7. p[i] # q[i]
  BY <1>1, <1>6
<1>8. CASE IsStrictPrefix(q, r)
  <2>1. \A k \in 1..Len(q) : q[k] = r[k]
    BY <1>3, <1>8, PrefixElements DEF IsStrictPrefix
  <2> QED BY <1>2, <1>3, <1>5, <1>7, <2>1
<1>9. CASE ~IsStrictPrefix(q, r)
  <2>1. PICK j \in DOMAIN q \cap DOMAIN r : /\ SubSeq(q, 1, j - 1) = SubSeq(r, 1, j - 1)
                                            /\ Rank[q[j]] < Rank[r[j]]
    BY <1>9 DEF AddedBefore
  <2>2. /\ j \in Nat \ {0} /\ \A k \in 1..(j - 1) : q[k] = r[k]
        /\ q[j] \in Name /\ r[j] \in Name
    BY <2>1, SameStart
  <2>3. Rank[q[j]] \in Int /\ Rank[r[j]] \in Int
    BY <2>2, RankAssumption
  <2>4. CASE j < i
    <3>1. q[j] = p[j] /\ p[j] = r[j]
      BY <1>2, <1>3, <1>4, <1>5, <2>2, <2>4
    <3> QED BY <2>1, <2>3, <3>1
  <2>5. CASE j = i
    BY <1>1, <1>5, <1>6, <2>1, <2>3, <2>5
  <2>6. CASE i < j
    BY <1>2, <1>5, <1>7, <2>2, <2>6
  <2> QED BY <1>2, <2>2, <2>4, <2>5, <2>6
<1> QED BY <1>8, <1>9

\* Rows have the order, and the paths, of their entries.
LEMMA RowOrder ==
  ASSUME Tables, Places, IsInput(in), InOrder
  PROVE  /\ \A d, e \in DOMAIN repo.dirs :
              /\ d < e <=> AddedBefore(DirPath(repo)[d], DirPath(repo)[e])
              /\ DirPath(repo)[d] = DirPath(repo)[e] => d = e
         /\ \A f, g \in DOMAIN repo.files :
              /\ f < g <=> AddedBefore(FilePath(repo)[f], FilePath(repo)[g])
              /\ FilePath(repo)[f] = FilePath(repo)[g] => f = g
<1>1. /\ DOMAIN repo.dirs = 1..Len(repo.dirs) /\ Len(repo.dirs) \in Nat
      /\ DOMAIN repo.files = 1..Len(repo.files) /\ Len(repo.files) \in Nat
  BY LenProperties DEF Tables
<1>2. ASSUME NEW d \in DOMAIN repo.dirs, NEW e \in DOMAIN repo.dirs
      PROVE  /\ d < e <=> AddedBefore(DirPath(repo)[d], DirPath(repo)[e])
             /\ DirPath(repo)[d] = DirPath(repo)[e] => d = e
  <2> DEFINE p == DirPath(repo)[d]
             q == DirPath(repo)[e]
  <2>1. /\ p \in Path /\ q \in Path /\ p \in DOMAIN in.tree /\ q \in DOMAIN in.tree
        /\ DirAt(d, p) /\ DirAt(e, q)
    BY DirPaths
  <2> HIDE DEF p, q
  <2>2. /\ d < e => AddedBefore(p, q)
        /\ e < d => AddedBefore(q, p)
    BY <2>1 DEF InOrder
  <2>3. p = q => d = e
    BY <2>1 DEF DirAt
  <2>4. d = e => p = q
    BY DEF p, q
  <2>5. d \in Int /\ e \in Int
    BY <1>1
  <2>6. AddedBefore(p, q) => ~AddedBefore(q, p) /\ p # q
    BY <2>1, AddedOneWay
  <2> QED BY <2>2, <2>3, <2>4, <2>5, <2>6 DEF p, q
<1>3. ASSUME NEW f \in DOMAIN repo.files, NEW g \in DOMAIN repo.files
      PROVE  /\ f < g <=> AddedBefore(FilePath(repo)[f], FilePath(repo)[g])
             /\ FilePath(repo)[f] = FilePath(repo)[g] => f = g
  <2> DEFINE p == FilePath(repo)[f]
             q == FilePath(repo)[g]
  <2>1. /\ p \in Path /\ q \in Path /\ p \in DOMAIN in.tree /\ q \in DOMAIN in.tree
        /\ NodeOf(f, p) /\ NodeOf(g, q)
    BY FilePaths
  <2> HIDE DEF p, q
  <2>2. /\ f < g => AddedBefore(p, q)
        /\ g < f => AddedBefore(q, p)
    BY <2>1 DEF InOrder
  <2>3. p = q => f = g
    BY <2>1 DEF Places, FilesPlaced
  <2>4. f = g => p = q
    BY DEF p, q
  <2>5. f \in Int /\ g \in Int
    BY <1>1
  <2>6. AddedBefore(p, q) => ~AddedBefore(q, p) /\ p # q
    BY <2>1, AddedOneWay
  <2> QED BY <2>2, <2>3, <2>4, <2>5, <2>6 DEF p, q
<1> QED BY <1>2, <1>3

\* The greatest of some numbers.
LEMMA GreatestNumber ==
  ASSUME NEW n \in Nat, NEW T \in SUBSET (1..n), T # {}
  PROVE  \E x \in T : \A y \in T : y <= x
<1> DEFINE S == {n - x : x \in T}
<1>1. S \in SUBSET Nat /\ S # {}
  <2>1. \A x \in T : n - x \in Nat
    OBVIOUS
  <2> QED BY <2>1
<1>2. PICK s \in S : \A y \in S : s <= y
  BY <1>1, LeastNumber
<1>3. PICK x \in T : s = n - x
  BY <1>2
<1>4. ASSUME NEW y \in T  PROVE y <= x
  <2>1. n - y \in S /\ y \in Int /\ x \in Int
    BY <1>4
  <2>2. s <= n - y
    BY <1>2, <2>1
  <2> QED BY <1>3, <2>1, <2>2
<1> QED BY <1>3, <1>4

-----------------------------------------------------------------------------
(* What the maps and the tables of a repository keep.                      *)

\* IndexFile cuts a file at the multiples of the block size that are in it.
LEMMA CutHere ==
  ASSUME NEW n \in Nat
  PROVE  LET m == (n + BlockSize - 1) \div BlockSize
         IN  /\ m \in Nat
             /\ \A i \in Nat : i + 1 \in 1..m <=> i * BlockSize <= n - 1
<1> DEFINE B == BlockSize
           m == (n + B - 1) \div B
           r == (n + B - 1) % B
           z == n + B - 1
<1>1. B \in Int /\ B > 0 /\ z \in Int /\ z >= 0
  BY BlockSizeAssumption
<1> HIDE DEF B, z
<1>2. z \div B \in Int /\ z % B \in 0..(B - 1)
  BY <1>1
<1>3. m \in Int /\ r \in 0..(B - 1) /\ n + B - 1 = m * B + r
  <2>1. z = B * (z \div B) + (z % B)
    BY <1>1, Z3
  <2>2. m = z \div B /\ r = z % B /\ n + B - 1 = z
    BY DEF z
  <2> HIDE DEF m, r
  <2> QED BY <1>1, <1>2, <2>1, <2>2
<1> HIDE DEF m, r
<1>4. m >= 0
  <2> SUFFICES ASSUME m <= -1  PROVE FALSE
    BY <1>3
  <2>1. m * B <= (-1) * B
    BY <1>1, <1>3
  <2> QED BY <1>1, <1>3, <2>1
<1>5. ASSUME NEW i \in Nat, i < m  PROVE i * B <= n - 1
  <2>1. (i + 1) * B <= m * B
    BY <1>1, <1>3, <1>5
  <2>2. (i + 1) * B = i * B + B /\ i * B \in Int /\ m * B \in Int
    BY <1>1, <1>3
  <2> QED BY <1>1, <1>3, <2>1, <2>2
<1>6. ASSUME NEW i \in Nat, i >= m  PROVE ~(i * B <= n - 1)
  <2>1. m * B <= i * B
    BY <1>1, <1>3, <1>6
  <2>2. i * B \in Int /\ m * B \in Int
    BY <1>1, <1>3
  <2> QED BY <1>1, <1>3, <2>1, <2>2
<1>7. ASSUME NEW i \in Nat  PROVE i + 1 \in 1..m <=> i * B <= n - 1
  BY <1>3, <1>4, <1>5, <1>6
<1>8. m \in Nat /\ \A i \in Nat : i + 1 \in 1..m <=> i * B <= n - 1
  BY <1>3, <1>4, <1>7
<1> QED BY <1>8 DEF m, B

LEMMA FileIsCut ==
  ASSUME NEW c, Len(c) \in Nat
  PROVE  \E m \in Nat :
           /\ DOMAIN FileBlocks(c) = 1..m
           /\ \A i \in Nat : i + 1 \in 1..m <=> i * BlockSize <= Len(c) - 1
           /\ \A i \in 1..m : FileBlocks(c)[i] = Slice(c, (i - 1) * BlockSize, BlockSize)
<1> DEFINE m == (Len(c) + BlockSize - 1) \div BlockSize
<1>1. m \in Nat /\ \A i \in Nat : i + 1 \in 1..m <=> i * BlockSize <= Len(c) - 1
  BY CutHere
<1>2. /\ DOMAIN FileBlocks(c) = 1..m
      /\ \A i \in 1..m : FileBlocks(c)[i] = Slice(c, (i - 1) * BlockSize, BlockSize)
  BY DEF FileBlocks
<1> HIDE DEF m
<1> QED BY <1>1, <1>2

\* The blocks of a table of files: the file, and the place in it, from 0; their checksums; and
\* the order in which they are added.
BlockNodes(table) ==
  {b \in (DOMAIN table) \X Nat : b[2] + 1 \in DOMAIN FileBlocks(table[b[1]].contents)}

Sums(table)  == [b \in BlockNodes(table) |-> FileBlocks(table[b[1]].contents)[b[2] + 1]]
Weaks(table) == [b \in BlockNodes(table) |-> Weak(Sums(table)[b])]

WeakSums(blocks) == [i \in DOMAIN blocks |-> Weak(blocks[i])]

Later(b, c) == b[1] > c[1] \/ (b[1] = c[1] /\ b[2] > c[2])

\* One more file: its blocks have these checksums.
OneMore(n, keys, old, new) ==
  /\ n \in Nat /\ DOMAIN old \subseteq (1..n) \X Nat
  /\ \A b \in DOMAIN old : new[b] = old[b]
  /\ \E m \in Nat : /\ DOMAIN keys = 1..m
                   /\ DOMAIN new = DOMAIN old \cup {<<n + 1, i - 1>> : i \in 1..m}
                   /\ \A i \in 1..m : new[<<n + 1, i - 1>>] = keys[i]

\* A map keeps the last block with each checksum.
LastBlock(map, keys) ==
  /\ \A b \in DOMAIN keys : keys[b] \in DOMAIN map
  /\ \A k \in DOMAIN map : \E b \in DOMAIN keys :
       /\ keys[b] = k /\ map[k] = [file |-> b[1], position |-> b[2]]
       /\ \A c \in DOMAIN keys : keys[c] = k => c = b \/ Later(b, c)

LEMMA AddBlocksKeeps ==
  ASSUME NEW n, NEW keys, NEW old, NEW new, NEW map,
         OneMore(n, keys, old, new), LastBlock(map, old)
  PROVE  LastBlock(MemAddBlocks(map, n + 1, keys), new)
<1> SUFFICES ASSUME n \in Nat, NEW m \in Nat,
                    DOMAIN keys = 1..m, DOMAIN old \subseteq (1..n) \X Nat,
                    DOMAIN new = DOMAIN old \cup {<<n + 1, i - 1>> : i \in 1..m},
                    \A b \in DOMAIN old : new[b] = old[b],
                    \A i \in 1..m : new[<<n + 1, i - 1>>] = keys[i]
             PROVE  LastBlock(MemAddBlocks(map, n + 1, keys), new)
  BY DEF OneMore
<1> DEFINE made     == MemAddBlocks(map, n + 1, keys)
           under(k) == {i \in DOMAIN keys : keys[i] = k}
<1>1. /\ DOMAIN made = DOMAIN map \cup Range(keys)
      /\ \A k \in DOMAIN made :
           made[k] = IF under(k) = {} THEN map[k]
                     ELSE [file |-> n + 1, position |-> Max(under(k)) - 1]
  BY DEF MemAddBlocks
<1> HIDE DEF made
<1>2. \A k : k \in Range(keys) <=> under(k) # {}
  BY DEF Range
<1>3. \A k : \A i : i \in under(k) <=> i \in 1..m /\ keys[i] = k
  OBVIOUS
<1> HIDE DEF under
<1>4. ASSUME NEW b \in DOMAIN new  PROVE new[b] \in DOMAIN made
  <2>1. CASE b \in DOMAIN old
    BY <1>1, <2>1 DEF LastBlock
  <2>2. CASE b \notin DOMAIN old
    <3>1. PICK i \in 1..m : b = <<n + 1, i - 1>>
      BY <2>2
    <3>2. i \in under(new[b])
      BY <1>3, <3>1
    <3> QED BY <1>1, <1>2, <3>2
  <2> QED BY <2>1, <2>2
<1>5. ASSUME NEW k \in DOMAIN made, under(k) # {}
      PROVE  \E b \in DOMAIN new :
               /\ new[b] = k /\ made[k] = [file |-> b[1], position |-> b[2]]
               /\ \A c \in DOMAIN new : new[c] = k => c = b \/ Later(b, c)
  <2>1. under(k) \in SUBSET (1..m)
    BY <1>3
  <2>2. \E x \in under(k) : \A y \in under(k) : x >= y
    <3>1. PICK x \in under(k) : \A y \in under(k) : y <= x
      BY <1>5, <2>1, GreatestNumber
    <3> QED BY <2>1, <3>1
  <2>3. PICK i : i = Max(under(k))
    OBVIOUS
  <2>4. i \in under(k) /\ \A y \in under(k) : i >= y
    BY <2>2, <2>3, Zenon DEF Max
  <2>5. i \in 1..m /\ keys[i] = k
    BY <1>3, <2>4
  <2> DEFINE b == <<n + 1, i - 1>>
  <2>6. b \in DOMAIN new /\ new[b] = k /\ b[1] = n + 1 /\ b[2] = i - 1
    BY <2>5
  <2>7. made[k] = [file |-> b[1], position |-> b[2]]
    BY <1>1, <1>5, <2>3, <2>6
  <2>8. ASSUME NEW c \in DOMAIN new, new[c] = k  PROVE c = b \/ Later(b, c)
    <3>1. CASE c \in DOMAIN old
      <4>1. c[1] \in 1..n
        BY <3>1
      <4> QED BY <2>6, <4>1 DEF Later
    <3>2. CASE c \notin DOMAIN old
      <4>1. PICK j \in 1..m : c = <<n + 1, j - 1>>
        BY <3>2
      <4>2. j \in under(k)
        BY <1>3, <2>8, <4>1
      <4>3. i = j \/ i > j
        BY <2>4, <2>5, <4>1, <4>2
      <4>4. i > j => Later(b, c)
        BY <2>5, <4>1 DEF Later
      <4> QED BY <4>1, <4>3, <4>4
    <3> QED BY <3>1, <3>2
  <2> HIDE DEF b
  <2> QED BY <2>6, <2>7, <2>8
<1>6. ASSUME NEW k \in DOMAIN made, under(k) = {}
      PROVE  \E b \in DOMAIN new :
               /\ new[b] = k /\ made[k] = [file |-> b[1], position |-> b[2]]
               /\ \A c \in DOMAIN new : new[c] = k => c = b \/ Later(b, c)
  <2>1. k \in DOMAIN map /\ made[k] = map[k]
    BY <1>1, <1>2, <1>6
  <2>2. PICK b \in DOMAIN old :
          /\ old[b] = k /\ map[k] = [file |-> b[1], position |-> b[2]]
          /\ \A c \in DOMAIN old : old[c] = k => c = b \/ Later(b, c)
    BY <2>1 DEF LastBlock
  <2>3. ASSUME NEW c \in DOMAIN new, new[c] = k  PROVE c \in DOMAIN old /\ old[c] = k
    <3>1. CASE c \notin DOMAIN old
      <4>1. PICK j \in 1..m : c = <<n + 1, j - 1>>
        BY <3>1
      <4>2. j \in under(k)
        BY <1>3, <2>3, <4>1
      <4> QED BY <1>6, <4>2
    <3> QED BY <2>3, <3>1
  <2> QED BY <2>1, <2>2, <2>3
<1>7. LastBlock(made, new)
  BY <1>4, <1>5, <1>6 DEF LastBlock
<1> QED BY <1>7 DEF made

\* A map keeps the last node of a table with each checksum.
LastRow(map, table) ==
  /\ \A i \in DOMAIN table : table[i].strong \in DOMAIN map
  /\ \A k \in DOMAIN map : /\ map[k] \in DOMAIN table /\ table[map[k]].strong = k
                           /\ \A i \in DOMAIN table : table[i].strong = k => i <= map[k]

LEMMA AppendKeeps ==
  ASSUME NEW table, table \in Seq(Range(table)), NEW row, NEW map, LastRow(map, table)
  PROVE  LastRow(Put(map, row.strong, Len(table) + 1), Append(table, row))
<1> DEFINE n == Len(table)
           t == Append(table, row)
           m == Put(map, row.strong, n + 1)
<1>1. /\ n \in Nat /\ DOMAIN table = 1..n /\ DOMAIN t = 1..(n + 1)
      /\ \A i \in 1..n : t[i] = table[i]
      /\ t[n + 1] = row
  BY RowAdded
<1>2. /\ DOMAIN m = DOMAIN map \cup {row.strong}
      /\ \A k \in DOMAIN m : m[k] = IF k = row.strong THEN n + 1 ELSE map[k]
  BY DEF Put
<1> HIDE DEF n, t, m
<1>3. \A i : i \in 1..(n + 1) <=> i \in 1..n \/ i = n + 1
  BY <1>1
<1>4. \A i \in DOMAIN t : t[i].strong \in DOMAIN m
  BY <1>1, <1>2, <1>3 DEF LastRow
<1>5. ASSUME NEW k \in DOMAIN m
      PROVE  /\ m[k] \in DOMAIN t /\ t[m[k]].strong = k
             /\ \A i \in DOMAIN t : t[i].strong = k => i <= m[k]
  <2>1. CASE k = row.strong
    <3>1. m[k] = n + 1 /\ n + 1 \in DOMAIN t
      BY <1>1, <1>2, <2>1
    <3> QED BY <1>1, <2>1, <3>1
  <2>2. CASE k # row.strong
    <3>1. k \in DOMAIN map /\ m[k] = map[k]
      BY <1>2, <2>2
    <3>2. /\ map[k] \in 1..n /\ table[map[k]].strong = k
          /\ \A i \in 1..n : table[i].strong = k => i <= map[k]
      BY <1>1, <3>1 DEF LastRow
    <3>3. \A i \in DOMAIN t : t[i].strong = k => i \in 1..n /\ table[i].strong = k
      BY <1>1, <1>3, <2>2
    <3> QED BY <1>1, <1>3, <3>1, <3>2, <3>3
  <2> QED BY <2>1, <2>2
<1>6. LastRow(m, t)
  BY <1>4, <1>5 DEF LastRow
<1> QED BY <1>6 DEF m, n, t

\* A file that is added brings its blocks.
LEMMA BlocksAdded ==
  ASSUME NEW table, table \in Seq(Range(table)), NEW row, Len(row.contents) \in Nat
  PROVE  LET blocks == FileBlocks(row.contents)
         IN  /\ OneMore(Len(table), blocks, Sums(table), Sums(Append(table, row)))
             /\ OneMore(Len(table), WeakSums(blocks), Weaks(table), Weaks(Append(table, row)))
<1> DEFINE t == Append(table, row)
           n == Len(table)
           blocks == FileBlocks(row.contents)
           weaks  == WeakSums(blocks)
           new(m) == {<<n + 1, i - 1>> : i \in 1..m}
<1>1. /\ n \in Nat /\ DOMAIN table = 1..n /\ DOMAIN t = 1..(n + 1)
      /\ \A i \in 1..n : t[i] = table[i]
      /\ t[n + 1] = row
  BY RowAdded
<1>2. PICK m \in Nat : DOMAIN FileBlocks(row.contents) = 1..m
  BY FileIsCut
<1> HIDE DEF n, t
<1>3. BlockNodes(table) \subseteq (1..n) \X Nat
  BY <1>1 DEF BlockNodes
<1>4. \A b : b \in BlockNodes(t) <=> b \in BlockNodes(table) \/ b \in new(m)
  <2> TAKE b
  <2>1. CASE b \in (1..n) \X Nat
    <3>1. b[1] \in 1..(n + 1) /\ b[1] # n + 1 /\ t[b[1]] = table[b[1]]
      BY <1>1, <2>1
    <3>2. b \notin new(m)
      BY <3>1
    <3> QED BY <1>1, <2>1, <3>1, <3>2 DEF BlockNodes
  <2>2. ASSUME NEW i \in Nat, b = <<n + 1, i>>  PROVE b \in BlockNodes(t) <=> b \in new(m)
    <3>1. b \in BlockNodes(t) <=> i + 1 \in 1..m
      <4>1. b[1] = n + 1 /\ b[2] = i /\ b \in (DOMAIN t) \X Nat /\ t[b[1]] = row
        BY <1>1, <2>2
      <4>2. b \in BlockNodes(t) <=> b[2] + 1 \in DOMAIN FileBlocks(t[b[1]].contents)
        BY <4>1 DEF BlockNodes
      <4> QED BY <1>2, <4>1, <4>2
    <3>2. ASSUME i + 1 \in 1..m  PROVE b \in new(m)
      <4>1. i = (i + 1) - 1
        OBVIOUS
      <4> QED BY <2>2, <3>2, <4>1
    <3>3. ASSUME b \in new(m)  PROVE i + 1 \in 1..m
      <4>1. PICK j \in 1..m : b = <<n + 1, j - 1>>
        BY <3>3
      <4>2. i = j - 1
        BY <2>2, <4>1
      <4> QED BY <4>2
    <3> QED BY <3>1, <3>2, <3>3
  <2>3. b \in BlockNodes(t) => b \in (1..(n + 1)) \X Nat
    BY <1>1 DEF BlockNodes
  <2>4. b \in (1..(n + 1)) \X Nat =>
          b \in (1..n) \X Nat \/ \E i \in Nat : b = <<n + 1, i>>
    <3> SUFFICES ASSUME b \in (1..(n + 1)) \X Nat, b \notin (1..n) \X Nat
                 PROVE  \E i \in Nat : b = <<n + 1, i>>
      OBVIOUS
    <3>1. b[1] \in 1..(n + 1) /\ b[2] \in Nat /\ b = <<b[1], b[2]>>
      OBVIOUS
    <3>2. b[1] \notin 1..n
      BY <3>1
    <3>3. b[1] = n + 1
      BY <1>1, <3>1, <3>2
    <3> QED BY <3>1, <3>3
  <2>5. b \in new(m) => \E i \in Nat : b = <<n + 1, i>>
    <3> SUFFICES ASSUME NEW j \in 1..m, b = <<n + 1, j - 1>>  PROVE \E i \in Nat : b = <<n + 1, i>>
      OBVIOUS
    <3>1. j - 1 \in Nat
      OBVIOUS
    <3> QED BY <3>1
  <2>6. ASSUME NEW i \in Nat, b = <<n + 1, i>>  PROVE b \notin BlockNodes(table)
    <3>1. n + 1 \notin 1..n
      BY <1>1
    <3> QED BY <1>3, <2>6, <3>1
  <2> HIDE DEF new
  <2> QED BY <1>3, <2>1, <2>2, <2>3, <2>4, <2>5, <2>6
<1>5. BlockNodes(t) = BlockNodes(table) \cup new(m)
  <2> HIDE DEF new
  <2> QED BY <1>4
<1>6. \A b \in BlockNodes(table) : Sums(t)[b] = Sums(table)[b]
  <2> SUFFICES ASSUME NEW b \in BlockNodes(table)  PROVE Sums(t)[b] = Sums(table)[b]
    OBVIOUS
  <2>1. b[1] \in 1..n /\ b \in BlockNodes(t)
    BY <1>3, <1>5
  <2>2. t[b[1]] = table[b[1]]
    BY <1>1, <2>1
  <2> QED BY <2>1, <2>2 DEF Sums
<1>7. \A i \in 1..m : Sums(t)[<<n + 1, i - 1>>] = FileBlocks(row.contents)[i]
  <2> SUFFICES ASSUME NEW i \in 1..m
               PROVE  Sums(t)[<<n + 1, i - 1>>] = FileBlocks(row.contents)[i]
    OBVIOUS
  <2> DEFINE b == <<n + 1, i - 1>>
  <2>1. b \in new(m)
    OBVIOUS
  <2>2. b \in BlockNodes(t)
    BY <1>5, <2>1
  <2>3. b[1] = n + 1 /\ b[2] + 1 = i
    OBVIOUS
  <2> HIDE DEF b
  <2>4. Sums(t)[b] = FileBlocks(t[b[1]].contents)[b[2] + 1]
    BY <2>2 DEF Sums
  <2> QED BY <1>1, <2>3, <2>4 DEF b
<1>8. /\ DOMAIN Sums(table) = BlockNodes(table) /\ DOMAIN Sums(t) = BlockNodes(t)
      /\ DOMAIN Weaks(table) = BlockNodes(table) /\ DOMAIN Weaks(t) = BlockNodes(t)
      /\ \A b \in BlockNodes(table) : Weaks(table)[b] = Weak(Sums(table)[b])
      /\ \A b \in BlockNodes(t) : Weaks(t)[b] = Weak(Sums(t)[b])
  BY DEF Sums, Weaks
<1>9. DOMAIN weaks = 1..m /\ \A i \in 1..m : weaks[i] = Weak(blocks[i])
  BY <1>2 DEF WeakSums
<1> HIDE DEF weaks, blocks
<1>10. \A i \in 1..m : <<n + 1, i - 1>> \in BlockNodes(t)
  BY <1>5
<1>11. OneMore(n, blocks, Sums(table), Sums(t))
  <2>1. DOMAIN blocks = 1..m /\ \A i \in 1..m : Sums(t)[<<n + 1, i - 1>>] = blocks[i]
    BY <1>2, <1>7 DEF blocks
  <2> HIDE DEF new
  <2> QED BY <1>1, <1>3, <1>5, <1>6, <1>8, <2>1 DEF OneMore, new
<1>12. OneMore(n, weaks, Weaks(table), Weaks(t))
  <2>1. \A b \in BlockNodes(table) : Weaks(t)[b] = Weaks(table)[b]
    <3>1. \A b \in BlockNodes(table) : b \in BlockNodes(t)
      BY <1>5
    <3> QED BY <1>6, <1>8, <3>1
  <2>2. \A i \in 1..m : Weaks(t)[<<n + 1, i - 1>>] = weaks[i]
    BY <1>7, <1>8, <1>9, <1>10 DEF blocks
  <2> QED BY <1>1, <1>3, <1>5, <1>8, <1>9, <2>1, <2>2 DEF OneMore
<1> QED BY <1>11, <1>12 DEF n, t, blocks, weaks

\* A table of blocks has a row for each, in the order in which they are added.
BlockRows(rows, keys) ==
  /\ rows \in Seq(Range(rows))
  /\ \A j \in DOMAIN rows : /\ <<rows[j].parent, rows[j].position>> \in DOMAIN keys
                            /\ rows[j].bytes = keys[<<rows[j].parent, rows[j].position>>]
  /\ \A b \in DOMAIN keys : \E j \in DOMAIN rows : b = <<rows[j].parent, rows[j].position>>
  /\ \A i, j \in DOMAIN rows : i < j =>
       Later(<<rows[j].parent, rows[j].position>>, <<rows[i].parent, rows[i].position>>)

LEMMA AddRowsKeeps ==
  ASSUME NEW n, NEW blocks, NEW old, NEW new, NEW rows,
         OneMore(n, blocks, old, new), BlockRows(rows, old)
  PROVE  BlockRows(rows \o DbAddBlocks(n + 1, blocks), new)
<1> SUFFICES ASSUME n \in Nat, NEW m \in Nat,
                    DOMAIN blocks = 1..m, DOMAIN old \subseteq (1..n) \X Nat,
                    DOMAIN new = DOMAIN old \cup {<<n + 1, i - 1>> : i \in 1..m},
                    \A b \in DOMAIN old : new[b] = old[b],
                    \A i \in 1..m : new[<<n + 1, i - 1>>] = blocks[i]
             PROVE  BlockRows(rows \o DbAddBlocks(n + 1, blocks), new)
  BY DEF OneMore
<1> DEFINE more == DbAddBlocks(n + 1, blocks)
           all  == rows \o more
           h    == Len(rows)
           at(j) == <<all[j].parent, all[j].position>>
<1>1. /\ rows \in Seq(Range(rows)) /\ h \in Nat /\ DOMAIN rows = 1..h
  BY LenProperties DEF BlockRows
<1>2. DOMAIN more = 1..m /\ \A i \in 1..m : /\ more[i].parent = n + 1
                                            /\ more[i].position = i - 1
                                            /\ more[i].bytes = blocks[i]
  BY DEF DbAddBlocks
<1>3. more \in Seq(Range(more)) /\ Len(more) = m
  <2>1. more = [i \in 1..m |-> more[i]]
    BY DEF DbAddBlocks
  <2> HIDE DEF more
  <2>2. more \in [1..m -> Range(more)]
    BY <1>2, <2>1 DEF Range
  <2>3. more \in Seq(Range(more))
    BY <2>2 DEF Seq
  <2> QED BY <1>2, <2>3, LenProperties
<1> HIDE DEF more, h
<1>4. /\ all \in Seq(Range(rows) \cup Range(more)) /\ Len(all) = h + m
      /\ \A j \in 1..(h + m) : all[j] = IF j <= h THEN rows[j] ELSE more[j - h]
  <2>1. rows \in Seq(Range(rows) \cup Range(more)) /\ more \in Seq(Range(rows) \cup Range(more))
    <3>1. \A S, T : \A s \in Seq(S) : s \in Seq(S \cup T) /\ s \in Seq(T \cup S)
      OBVIOUS
    <3> QED BY <1>1, <1>3, <3>1
  <2> QED BY <1>1, <1>3, <2>1, ConcatProperties DEF h
<1>5. all \in Seq(Range(all)) /\ DOMAIN all = 1..(h + m)
  BY <1>4, SeqOfRange, LenProperties
<1> HIDE DEF all
<1>6. \A j \in 1..h : all[j] = rows[j] /\ j \in DOMAIN all
  BY <1>1, <1>4, <1>5
<1>7. ASSUME NEW i \in 1..m
      PROVE  /\ h + i \in DOMAIN all /\ at(h + i) = <<n + 1, i - 1>>
             /\ all[h + i].bytes = blocks[i]
  <2>1. h + i \in 1..(h + m) /\ ~(h + i <= h) /\ (h + i) - h = i
    BY <1>1
  <2>2. all[h + i] = more[i]
    BY <1>4, <2>1
  <2> QED BY <1>2, <1>5, <2>1, <2>2
<1>8. \A j \in DOMAIN all : j \in 1..h \/ \E i \in 1..m : j = h + i
  <2> SUFFICES ASSUME NEW j \in 1..(h + m), j \notin 1..h  PROVE \E i \in 1..m : j = h + i
    BY <1>5
  <2>1. j - h \in 1..m /\ j = h + (j - h)
    BY <1>1
  <2> QED BY <2>1
<1>9. \A j \in 1..h : at(j) \in DOMAIN old /\ all[j].bytes = old[at(j)]
  BY <1>1, <1>6 DEF BlockRows
<1>10. ASSUME NEW j \in DOMAIN all  PROVE at(j) \in DOMAIN new /\ all[j].bytes = new[at(j)]
  <2>1. CASE j \in 1..h
    BY <1>9, <2>1
  <2>2. CASE \E i \in 1..m : j = h + i
    <3>1. PICK i \in 1..m : j = h + i
      BY <2>2
    <3>2. <<n + 1, i - 1>> \in DOMAIN new
      OBVIOUS
    <3> QED BY <1>7, <3>1, <3>2
  <2> QED BY <1>8, <2>1, <2>2
<1>11. ASSUME NEW b \in DOMAIN new  PROVE \E j \in DOMAIN all : b = at(j)
  <2>1. CASE b \in DOMAIN old
    <3>1. PICK j \in 1..h : b = <<rows[j].parent, rows[j].position>>
      BY <1>1, <2>1 DEF BlockRows
    <3> QED BY <1>6, <3>1
  <2>2. CASE b \notin DOMAIN old
    <3>1. PICK i \in 1..m : b = <<n + 1, i - 1>>
      BY <2>2
    <3> QED BY <1>7, <3>1
  <2> QED BY <2>1, <2>2
<1>12. ASSUME NEW i \in DOMAIN all, NEW j \in DOMAIN all, i < j  PROVE Later(at(j), at(i))
  <2>1. CASE j \in 1..h
    <3>1. i \in 1..h
      BY <1>1, <1>5, <1>12, <2>1
    <3>2. all[i] = rows[i] /\ all[j] = rows[j]
      BY <1>6, <2>1, <3>1
    <3>3. Later(<<rows[j].parent, rows[j].position>>, <<rows[i].parent, rows[i].position>>)
      BY <1>1, <1>12, <2>1, <3>1 DEF BlockRows
    <3> QED BY <3>2, <3>3
  <2>2. CASE \E u \in 1..m : j = h + u
    <3>1. PICK u \in 1..m : j = h + u
      BY <2>2
    <3>2. at(j) = <<n + 1, u - 1>>
      BY <1>7, <3>1
    <3>3. CASE i \in 1..h
      <4>1. at(i) \in (1..n) \X Nat
        BY <1>9, <3>3
      <4>2. at(i)[1] \in 1..n /\ at(j)[1] = n + 1
        BY <3>2, <4>1
      <4> HIDE DEF at
      <4> QED BY <4>2 DEF Later
    <3>4. CASE \E v \in 1..m : i = h + v
      <4>1. PICK v \in 1..m : i = h + v
        BY <3>4
      <4>2. at(i) = <<n + 1, v - 1>>
        BY <1>7, <4>1
      <4>3. u - 1 > v - 1
        BY <1>1, <1>12, <3>1, <4>1
      <4> HIDE DEF at
      <4> QED BY <3>2, <4>2, <4>3 DEF Later
    <3> QED BY <1>8, <3>3, <3>4
  <2> QED BY <1>8, <2>1, <2>2
<1>13. BlockRows(all, new)
  BY <1>5, <1>10, <1>11, <1>12 DEF BlockRows
<1> QED BY <1>13 DEF all, more

\* AddDir keeps the other tables and maps, and puts the new row in the map of directories.
LEMMA AddDirRest ==
  ASSUME Tables, DOMAIN repo = Fields, NEW parent, NEW name
  PROVE  LET r == AddDir(parent, name)
             s == Placeholder(Cardinality(DOMAIN repo.dirOf))
         IN  /\ r.files = repo.files
             /\ in.repo = "mem" =>
                  /\ r.fileOf = repo.fileOf /\ r.blockOf = repo.blockOf /\ r.weakOf = repo.weakOf
                  /\ r.dirOf = Put(repo.dirOf, s, Len(repo.dirs) + 1)
                  /\ r.dirs = Append(repo.dirs, [parent |-> parent, name |-> name, strong |-> s])
             /\ in.repo # "mem" => r.blocks = repo.blocks
<1> DEFINE s == Placeholder(Cardinality(DOMAIN repo.dirOf))
           row(x) == [parent |-> parent, name |-> name, strong |-> x]
           map == Put(repo.dirOf, s, Len(repo.dirs) + 1)
           added == [repo EXCEPT !.dirs = Append(@, row(s)), !.dirOf = map]
           rooted == [added EXCEPT !.root = Len(repo.dirs) + 1, !.rootIsDir = TRUE]
           same(r) == /\ r.files = repo.files /\ r.fileOf = repo.fileOf
                      /\ r.blockOf = repo.blockOf /\ r.weakOf = repo.weakOf
                      /\ r.dirOf = map /\ r.dirs = Append(repo.dirs, row(s))
<1>1. CASE in.repo = "mem"
  <2>1. AddDir(parent, name) = IF parent = NoNode THEN rooted ELSE added
    BY <1>1 DEF AddDir, MemAddDir
  <2> HIDE DEF map, s
  <2>2. DOMAIN added = Fields /\ same(added)
    BY <1>1 DEF Fields
  <2> HIDE DEF added
  <2>3. same(rooted)
    BY <1>1, <2>2 DEF Fields
  <2> HIDE DEF rooted
  <2> QED BY <1>1, <2>1, <2>2, <2>3 DEF map, s
<1>2. CASE in.repo # "mem"
  <2>1. AddDir(parent, name) = [repo EXCEPT !.dirs = Append(@, row(Blank))]
    BY <1>2 DEF AddDir, DbAddDir
  <2> QED BY <1>2, <2>1
<1> QED BY <1>1, <1>2

\* The row of a file.
FileRow(parent, name, contents) ==
  [parent |-> parent, name |-> name, strong |-> FileStrong(contents), contents |-> contents]

\* AddFile keeps the directories, and puts the new row and its blocks in the maps, or the
\* blocks in their table.
LEMMA AddFileRest ==
  ASSUME Tables, DOMAIN repo = Fields, NEW parent, parent # NoNode, NEW name, NEW contents
  PROVE  LET r == AddFile(repo, parent, name, contents)
             n == Len(repo.files)
             blocks == FileBlocks(contents)
         IN  /\ r.files = Append(repo.files, FileRow(parent, name, contents))
             /\ in.repo = "mem" =>
                  /\ r.dirOf = repo.dirOf
                  /\ r.fileOf = Put(repo.fileOf, FileStrong(contents), n + 1)
                  /\ r.blockOf = MemAddBlocks(repo.blockOf, n + 1, blocks)
                  /\ r.weakOf = MemAddBlocks(repo.weakOf, n + 1, WeakSums(blocks))
             /\ in.repo # "mem" => r.blocks = repo.blocks \o DbAddBlocks(n + 1, blocks)
<1> DEFINE n      == Len(repo.files)
           blocks == FileBlocks(contents)
           row    == FileRow(parent, name, contents)
           fileOf == Put(repo.fileOf, FileStrong(contents), n + 1)
           blockOf == MemAddBlocks(repo.blockOf, n + 1, blocks)
           weakOf == MemAddBlocks(repo.weakOf, n + 1, WeakSums(blocks))
           rows   == repo.blocks \o DbAddBlocks(n + 1, blocks)
<1>1. CASE in.repo = "mem"
  <2>1. AddFile(repo, parent, name, contents) =
          [repo EXCEPT !.files = Append(@, row), !.fileOf = fileOf, !.blockOf = blockOf,
                       !.weakOf = weakOf]
    BY <1>1 DEF AddFile, MemAddFile, WeakSums, FileRow
  <2> HIDE DEF row, fileOf, blockOf, weakOf
  <2> DEFINE r == AddFile(repo, parent, name, contents)
  <2>2. /\ r.files = Append(repo.files, row) /\ r.fileOf = fileOf /\ r.blockOf = blockOf
        /\ r.weakOf = weakOf /\ r.dirOf = repo.dirOf
    BY <1>1, <2>1 DEF Fields
  <2> HIDE DEF r
  <2> QED BY <1>1, <2>2 DEF r, row, fileOf, blockOf, weakOf
<1>2. CASE in.repo # "mem"
  <2>1. AddFile(repo, parent, name, contents) =
          [repo EXCEPT !.files = Append(@, row), !.blocks = rows]
    BY <1>2 DEF AddFile, DbAddFile, FileRow
  <2> HIDE DEF row, rows
  <2> DEFINE r == AddFile(repo, parent, name, contents)
  <2>2. r.files = Append(repo.files, row) /\ r.blocks = rows
    BY <1>2, <2>1 DEF Fields
  <2> HIDE DEF r
  <2> QED BY <1>2, <2>2 DEF r, row, rows
<1> QED BY <1>1, <1>2

\* UpdateStrong keeps all but the checksum of a directory and its key.
LEMMA UpdateRest ==
  ASSUME Tables, DOMAIN repo = Fields, NEW d \in DOMAIN repo.dirs,
         repo' = IF in.repo = "mem" THEN MemRekey(repo, d) ELSE DbUpdateRow(repo, d)
  PROVE  LET old == repo.dirs[d].strong
             new == CalcStrong(repo, d)
         IN  /\ repo'.files = repo.files
             /\ in.repo = "mem" =>
                  /\ repo'.fileOf = repo.fileOf /\ repo'.blockOf = repo.blockOf
                  /\ repo'.weakOf = repo.weakOf
                  /\ repo'.dirOf = IF new = old THEN repo.dirOf
                                   ELSE Put(Without(repo.dirOf, {old}), new, d)
             /\ in.repo # "mem" => repo'.blocks = repo.blocks
<1> DEFINE new == CalcStrong(repo, d)
           old == repo.dirs[d].strong
           map == Put(Without(repo.dirOf, {old}), new, d)
<1>1. CASE in.repo = "mem" /\ new = old
  <2>1. repo' = repo
    BY <1>1 DEF MemRekey
  <2> QED BY <1>1, <2>1
<1>2. CASE in.repo = "mem" /\ new # old
  <2>1. repo' = [repo EXCEPT !.dirOf = map, !.dirs[d].strong = new]
    BY <1>2 DEF MemRekey
  <2> HIDE DEF new, old, map
  <2>2. /\ repo'.files = repo.files /\ repo'.fileOf = repo.fileOf
        /\ repo'.blockOf = repo.blockOf /\ repo'.weakOf = repo.weakOf /\ repo'.dirOf = map
    BY <1>2, <2>1 DEF Fields
  <2> QED BY <1>2, <2>2 DEF new, old, map
<1>3. CASE in.repo # "mem"
  <2>1. repo' = [repo EXCEPT !.dirs[d].strong = new]
    BY <1>3 DEF DbUpdateRow
  <2> HIDE DEF new
  <2>2. repo'.files = repo.files /\ repo'.blocks = repo.blocks
    BY <1>3, <2>1 DEF Fields
  <2> QED BY <1>3, <2>2
<1> QED BY <1>1, <1>2, <1>3

\* VisitDir adds a directory or finds it.
LEMMA EnteredRepo ==
  ASSUME NEW p
  PROVE  \/ Entered(p).repo = repo
         \/ \E parent, name : Entered(p).repo = AddDir(parent, name)
BY DEF Entered

\* What the repository finds files and blocks by.
FilesKept ==
  /\ in.repo = "mem" => /\ LastRow(repo.fileOf, repo.files)
                        /\ LastBlock(repo.blockOf, Sums(repo.files))
                        /\ LastBlock(repo.weakOf, Weaks(repo.files))
  /\ in.repo # "mem" => BlockRows(repo.blocks, Sums(repo.files))

\* AddFile keeps it.
LEMMA FilesKeptAdd ==
  ASSUME Tables, DOMAIN repo = Fields, FilesKept, NEW parent, parent # NoNode, NEW name,
         NEW contents, Len(contents) \in Nat, in' = in,
         repo' = AddFile(repo, parent, name, contents)
  PROVE  FilesKept'
<1> DEFINE old    == repo.files
           n      == Len(old)
           blocks == FileBlocks(contents)
           row    == FileRow(parent, name, contents)
           weaks  == WeakSums(blocks)
           new    == Append(old, row)
           r      == AddFile(repo, parent, name, contents)
<1>1. /\ r.files = new
      /\ in.repo = "mem" =>
           /\ r.fileOf = Put(repo.fileOf, FileStrong(contents), n + 1)
           /\ r.blockOf = MemAddBlocks(repo.blockOf, n + 1, blocks)
           /\ r.weakOf = MemAddBlocks(repo.weakOf, n + 1, weaks)
      /\ in.repo # "mem" => r.blocks = repo.blocks \o DbAddBlocks(n + 1, blocks)
  BY AddFileRest
<1>2. /\ old \in Seq(Range(old)) /\ row.contents = contents
      /\ row.strong = FileStrong(contents) /\ repo' = r
  BY DEF Tables, FileRow
<1> HIDE DEF r, row
<1>3. /\ OneMore(n, blocks, Sums(old), Sums(new))
      /\ OneMore(n, weaks, Weaks(old), Weaks(new))
  <2>1. Len(row.contents) \in Nat
    BY <1>2
  <2> HIDE DEF old
  <2>2. LET cut == FileBlocks(row.contents)
        IN  /\ OneMore(Len(old), cut, Sums(old), Sums(Append(old, row)))
            /\ OneMore(Len(old), WeakSums(cut), Weaks(old), Weaks(Append(old, row)))
    BY <1>2, <2>1, BlocksAdded
  <2> QED BY <1>2, <2>2
<1> HIDE DEF blocks, weaks
<1>4. LastRow(repo.fileOf, old) => LastRow(Put(repo.fileOf, row.strong, n + 1), new)
  BY <1>2, AppendKeeps
<1> HIDE DEF new, n
<1>5. ASSUME in.repo = "mem", FilesKept
      PROVE  /\ LastRow(repo'.fileOf, new) /\ LastBlock(repo'.blockOf, Sums(new))
             /\ LastBlock(repo'.weakOf, Weaks(new))
  <2>1. LastRow(repo.fileOf, old) /\ LastBlock(repo.blockOf, Sums(old))
        /\ LastBlock(repo.weakOf, Weaks(old))
    BY <1>5 DEF FilesKept
  <2> HIDE DEF old
  <2>2. LastBlock(MemAddBlocks(repo.blockOf, n + 1, blocks), Sums(new))
    BY <1>3, <2>1, AddBlocksKeeps
  <2>3. LastBlock(MemAddBlocks(repo.weakOf, n + 1, weaks), Weaks(new))
    BY <1>3, <2>1, AddBlocksKeeps
  <2> QED BY <1>1, <1>2, <1>4, <1>5, <2>1, <2>2, <2>3
<1>6. ASSUME in.repo # "mem", FilesKept  PROVE BlockRows(repo'.blocks, Sums(new))
  <2>1. BlockRows(repo.blocks, Sums(old))
    BY <1>6 DEF FilesKept
  <2> HIDE DEF old
  <2>2. BlockRows(repo.blocks \o DbAddBlocks(n + 1, blocks), Sums(new))
    BY <1>3, <2>1, AddRowsKeeps
  <2> QED BY <1>1, <1>2, <1>6, <2>2
<1> QED BY <1>1, <1>2, <1>5, <1>6 DEF FilesKept

LEMMA FilesKeptSame ==
  ASSUME FilesKept, in' = in, repo'.files = repo.files,
         in.repo = "mem" => /\ repo'.fileOf = repo.fileOf /\ repo'.blockOf = repo.blockOf
                            /\ repo'.weakOf = repo.weakOf,
         in.repo # "mem" => repo'.blocks = repo.blocks
  PROVE  FilesKept'
BY DEF FilesKept

LEMMA FilesKeptStep ==
  ASSUME IInv, Places, FilesKept, Step
  PROVE  FilesKept'
<1>1. /\ Tables /\ Rooted /\ IndexInv /\ IsInput(in) /\ Control /\ in' = in
      /\ todo \subseteq DOMAIN in.tree /\ DOMAIN repo = Fields
  BY ControlStep DEF IInv, Walk, Places, RootPlaced
<1>2. \A q \in DOMAIN in.tree : IsDir(in.tree, q) => (q \in Indexed <=> Text(q) \in DOMAIN dirMap)
  BY <1>1, IndexedFacts DEF Tables, NodeOf, IsDir
<1>3. CASE \/ \E p \in todo : WalkDir(p) \/ WalkDirUnreadable(p)
           \/ InitWalk
  <2>1. repo' = repo \/ \E p : repo' = Entered(p).repo
    BY <1>3 DEF WalkDir, WalkDirUnreadable, InitWalk, repoVars
  <2>2. repo' = repo \/ \E parent, name : repo' = AddDir(parent, name)
    BY <2>1, EnteredRepo
  <2>3. CASE repo' = repo
    BY <1>1, <2>3, FilesKeptSame
  <2>4. CASE \E parent, name : repo' = AddDir(parent, name)
    <3>1. PICK parent, name : repo' = AddDir(parent, name)
      BY <2>4
    <3> DEFINE r == AddDir(parent, name)
    <3>2. /\ r.files = repo.files
          /\ in.repo = "mem" => /\ r.fileOf = repo.fileOf /\ r.blockOf = repo.blockOf
                                /\ r.weakOf = repo.weakOf
          /\ in.repo # "mem" => r.blocks = repo.blocks
      BY <1>1, AddDirRest
    <3> HIDE DEF r
    <3>3. repo' = r
      BY <3>1 DEF r
    <3> QED BY <1>1, <3>2, <3>3, FilesKeptSame
  <2> QED BY <2>2, <2>3, <2>4
<1>4. CASE \E p \in todo : WalkFile(p)
  <2> PICK p \in todo : WalkFile(p)
    BY <1>4
  <2>1. walker = "walking" /\ \A q \in todo \ {p} : AddedBefore(p, q)
    BY VisitFrame
  <2>2. IsFile(in.tree, p) /\ p \in DOMAIN in.tree /\ p # <<>>
    BY <1>1, InputFacts DEF WalkFile, IsDir, IsFile
  <2>3. IsDir(in.tree, ParentDir(p)) /\ Text(ParentDir(p)) \in DOMAIN dirMap
    BY <1>1, <1>2, <2>1, <2>2, NextReadable, InputFacts DEF IInv, IndexInv, IsDir, Exists
  <2>4. Entered(ParentDir(p)).repo = repo /\ Entered(ParentDir(p)).dirMap = dirMap
    BY <2>3 DEF Entered
  <2> DEFINE parent == dirMap[Text(ParentDir(p))]
  <2>5. repo' = AddFile(repo, parent, <<Last(p)>>, in.tree[p])
    BY <2>4 DEF WalkFile
  <2>6. parent # NoNode
    BY <1>1, <2>3 DEF Tables, NoNode
  <2>7. Len(in.tree[p]) \in Nat
    <3>1. in.tree[p] \in Seq(Byte)
      BY <1>1, <2>2 DEF IsInput, IsTree, Entry, IsFile
    <3> QED BY <3>1, LenProperties
  <2> HIDE DEF parent
  <2> QED BY <1>1, <2>5, <2>6, <2>7, FilesKeptAdd
<1>5. CASE \E d \in stale : UpdateDir(d)
  <2> PICK d \in stale : UpdateDir(d)
    BY <1>5
  <2>1. /\ repo' = IF in.repo = "mem" THEN MemRekey(repo, d) ELSE DbUpdateRow(repo, d)
        /\ d \in DOMAIN repo.dirs
    BY <1>1 DEF UpdateDir, Rooted
  <2>2. /\ repo'.files = repo.files
        /\ in.repo = "mem" => /\ repo'.fileOf = repo.fileOf /\ repo'.blockOf = repo.blockOf
                              /\ repo'.weakOf = repo.weakOf
        /\ in.repo # "mem" => repo'.blocks = repo.blocks
    BY <1>1, <2>1, UpdateRest
  <2> QED BY <1>1, <2>2, FilesKeptSame
<1>6. CASE \/ \E p \in todo : WalkFileUnreadable(p) \/ WalkFileFiltered(p)
           \/ SendError \/ WalkDone \/ AwaitWalk \/ IndexReturns \/ SendDir \/ CloseErrors
           \/ RecvError \/ ErrorsEnd \/ RecvDir
  <2>1. repo' = repo
    BY <1>6 DEF WalkFileUnreadable, WalkFileFiltered, Visit, SendError, WalkDone,
       AwaitWalk, IndexReturns, SendDir, CloseErrors, RecvError, ErrorsEnd, RecvDir, repoVars
  <2> QED BY <1>1, <2>1, FilesKeptSame
<1> QED BY <1>3, <1>4, <1>5, <1>6 DEF Step

-----------------------------------------------------------------------------
(* The order in which the checksums of the directories are computed.       *)

\* What a MemRepo finds directories by: their checksums, or placeholders.
DirsKept ==
  in.repo = "mem" =>
    /\ LastRow(repo.dirOf, repo.dirs)
    /\ \A d \in DOMAIN repo.dirs :
         index \in {"init", "wait"} \/ d \in stale => repo.dirs[d].strong = Placeholder(d - 1)

\* As many placeholders as there are directories.
LEMMA ManyPlaceholders ==
  ASSUME NEW n \in Nat, NEW S, S = {Placeholder(d - 1) : d \in 1..n}
  PROVE  Cardinality(S) = n
<1> DEFINE f == [d \in 1..n |-> Placeholder(d - 1)]
<1>1. \A d, e \in 1..n : Placeholder(d - 1) = Placeholder(e - 1) => d = e
  BY DEF Placeholder
<1>2. f \in [1..n -> S]
  OBVIOUS
<1>3. IsInjective(f)
  BY <1>1 DEF IsInjective
<1>4. \A s \in S : \E d \in 1..n : f[d] = s
  OBVIOUS
<1>5. f \in Bijection(1..n, S)
  <2> HIDE DEF f
  <2> QED BY <1>2, <1>3, <1>4 DEF Bijection, Injection, Surjection, IsInjective
<1>6. ExistsBijection(1..n, S)
  BY <1>5 DEF ExistsBijection
<1>7. IsFiniteSet(1..n) /\ Cardinality(1..n) = n
  BY FS_Interval
<1> QED BY <1>6, <1>7, FS_Bijection

\* AddDir keeps it.
LEMMA DirsKeptAdd ==
  ASSUME Tables, DOMAIN repo = Fields, DirsKept, index \in {"init", "wait"}, in' = in,
         NEW parent, NEW name, repo' = AddDir(parent, name)
  PROVE  DirsKept'
<1> SUFFICES ASSUME in.repo = "mem"
             PROVE  /\ LastRow(repo'.dirOf, repo'.dirs)
                    /\ \A d \in DOMAIN repo'.dirs : repo'.dirs[d].strong = Placeholder(d - 1)
  BY DEF DirsKept
<1> DEFINE n   == Len(repo.dirs)
           s   == Placeholder(Cardinality(DOMAIN repo.dirOf))
           row == [parent |-> parent, name |-> name, strong |-> s]
           r   == AddDir(parent, name)
<1>1. r.dirOf = Put(repo.dirOf, s, n + 1) /\ r.dirs = Append(repo.dirs, row)
  BY AddDirRest
<1>2. repo' = r /\ row.strong = s
  OBVIOUS
<1> HIDE DEF r, row
<1>3. /\ LastRow(repo.dirOf, repo.dirs)
      /\ \A d \in DOMAIN repo.dirs : repo.dirs[d].strong = Placeholder(d - 1)
  BY DEF DirsKept
<1>4. /\ n \in Nat /\ DOMAIN repo.dirs = 1..n
      /\ DOMAIN Append(repo.dirs, row) = 1..(n + 1)
      /\ \A i \in 1..n : Append(repo.dirs, row)[i] = repo.dirs[i]
      /\ Append(repo.dirs, row)[n + 1] = row
  BY RowAdded DEF Tables
<1>5. DOMAIN repo.dirOf = {Placeholder(d - 1) : d \in 1..n}
  <2> HIDE DEF n
  <2>1. ASSUME NEW k \in DOMAIN repo.dirOf  PROVE \E d \in 1..n : k = Placeholder(d - 1)
    <3>1. repo.dirOf[k] \in 1..n /\ repo.dirs[repo.dirOf[k]].strong = k
      BY <1>3, <1>4, <2>1 DEF LastRow
    <3> QED BY <1>3, <1>4, <3>1
  <2>2. ASSUME NEW d \in 1..n  PROVE Placeholder(d - 1) \in DOMAIN repo.dirOf
    <3>1. repo.dirs[d].strong \in DOMAIN repo.dirOf
      BY <1>3, <1>4, <2>2 DEF LastRow
    <3> QED BY <1>3, <1>4, <2>2, <3>1
  <2> QED BY <2>1, <2>2
<1>6. s = Placeholder(n)
  <2> HIDE DEF n
  <2> QED BY <1>4, <1>5, ManyPlaceholders
<1>7. LastRow(repo'.dirOf, repo'.dirs)
  <2>1. LastRow(Put(repo.dirOf, row.strong, n + 1), Append(repo.dirs, row))
    BY <1>3, AppendKeeps DEF Tables
  <2> HIDE DEF n, s
  <2> QED BY <1>1, <1>2, <2>1
<1> HIDE DEF s, n
<1>8. \A d \in 1..(n + 1) : Append(repo.dirs, row)[d].strong = Placeholder(d - 1)
  <2>1. (n + 1) - 1 = n /\ \A d \in 1..(n + 1) : d \in 1..n \/ d = n + 1
    BY <1>4
  <2> QED BY <1>2, <1>3, <1>4, <1>6, <2>1
<1> QED BY <1>1, <1>2, <1>4, <1>7, <1>8

\* Of a directory and something in it, the entry of the directory on the way.
LEMMA OnTheWay ==
  ASSUME NEW p \in Path, NEW q \in Path, IsStrictPrefix(p, q)
  PROVE  \E x \in Name : IsPrefix(p \o <<x>>, q)
<1> DEFINE m == Len(p)
           x == q[m + 1]
           c == p \o <<x>>
<1>1. /\ p \in Seq(Name) /\ q \in Seq(Name) /\ IsPrefix(p, q) /\ p # q
      /\ m \in Nat /\ Len(q) \in Nat
  BY LenProperties DEF IsStrictPrefix, Path
<1>2. m <= Len(q) /\ \A i \in 1..m : p[i] = q[i]
  BY <1>1, PrefixElements
<1>3. m + 1 <= Len(q)
  BY <1>1, <1>2, SeqEqual
<1>4. m + 1 \in 1..Len(q)
  BY <1>1, <1>3
<1>5. x \in Name
  BY <1>1, <1>4, ElementOfSeq
<1> HIDE DEF x
<1>6. <<x>> \in Seq(Name) /\ Len(<<x>>) = 1 /\ <<x>>[1] = x
  BY <1>5
<1> DEFINE one == <<x>>
<1> HIDE DEF one
<1>7. /\ c \in Seq(Name) /\ Len(c) = m + 1
      /\ \A i \in 1..(m + 1) : c[i] = IF i <= m THEN p[i] ELSE one[i - m]
  BY <1>1, <1>6, ConcatProperties DEF one
<1> HIDE DEF c, m
<1>8. \A i \in 1..(m + 1) : c[i] = q[i]
  <2> SUFFICES ASSUME NEW i \in 1..(m + 1)  PROVE c[i] = q[i]
    OBVIOUS
  <2>1. CASE i <= m
    BY <1>1, <1>2, <1>7, <2>1 DEF m
  <2>2. CASE i = m + 1
    <3>1. i - m = 1 /\ ~(i <= m)
      BY <1>1, <2>2
    <3> QED BY <1>6, <1>7, <2>2, <3>1 DEF one, x
  <2> QED BY <1>1, <2>1, <2>2
<1>9. IsPrefix(c, q)
  BY <1>1, <1>3, <1>7, <1>8, PrefixElements
<1> QED BY <1>5, <1>9 DEF c

\* A directory whose subdirectories are done has everything in it done.
LEMMA DoneBelow ==
  ASSUME IInv, Places, Summed, index = "update", NEW d \in DOMAIN repo.dirs,
         RowsBelow(repo.dirs, d) \cap stale = {},
         NEW e \in DOMAIN repo.dirs, IsStrictPrefix(DirPath(repo)[d], DirPath(repo)[e])
  PROVE  e \notin stale
<1> DEFINE path(x) == DirPath(repo)[x]
           T == {x \in DOMAIN repo.dirs : x \in stale /\ IsStrictPrefix(path(d), path(x))}
<1> SUFFICES ASSUME e \in stale  PROVE FALSE
  OBVIOUS
<1>1. /\ Tables /\ IsInput(in) /\ DOMAIN repo.dirs = 1..Len(repo.dirs)
      /\ Len(repo.dirs) \in Nat
  BY LenProperties DEF IInv, Tables, Walk
<1>2. \A x \in DOMAIN repo.dirs : path(x) \in Path /\ path(x) \in DOMAIN in.tree
                                  /\ DirAt(x, path(x)) /\ RowRight(x, path(x))
  BY <1>1, DirPaths
<1> HIDE DEF path
<1>3. T # {} /\ T \in SUBSET Nat
  BY <1>1 DEF path
<1>4. PICK x \in T : \A y \in T : x <= y
  BY <1>3, LeastNumber
<1>5. x \in DOMAIN repo.dirs /\ x \in stale /\ IsStrictPrefix(path(d), path(x))
  OBVIOUS
<1>6. path(x) # <<>> /\ IsPrefix(path(d), ParentDir(path(x)))
  BY <1>2, <1>5, AboveParent DEF IsStrictPrefix
<1> DEFINE u == repo.dirs[x].parent
<1>7. DirAt(u, ParentDir(path(x))) /\ u < x
  BY <1>2, <1>5, <1>6 DEF RowRight
<1> HIDE DEF T
<1>8. u \in DOMAIN repo.dirs
  BY <1>1, <1>7 DEF DirAt, Tables
<1>9. path(u) = ParentDir(path(x))
  <2>1. DirAt(u, path(u)) /\ path(u) \in DOMAIN in.tree /\ ParentDir(path(x)) \in DOMAIN in.tree
    BY <1>2, <1>7, <1>8 DEF DirAt
  <2> QED BY <1>1, <1>7, <2>1, OneEntry
<1>10. x \in RowsBelow(repo.dirs, u)
  BY <1>1, <1>5 DEF RowsBelow
<1>11. u # d
  BY <1>5, <1>10
<1>12. u \in stale
  BY <1>5, <1>8, <1>10 DEF Summed
<1>13. IsStrictPrefix(path(d), path(u))
  <2>1. path(u) # path(d)
    BY <1>2, <1>8, <1>11 DEF DirAt
  <2> QED BY <1>6, <1>9, <2>1 DEF IsStrictPrefix
<1>14. u \in T
  BY <1>8, <1>12, <1>13 DEF T
<1>15. x <= u /\ x \in Int /\ u \in Int
  BY <1>1, <1>4, <1>5, <1>8, <1>14
<1> QED BY <1>7, <1>15

\* What is done comes before what is not, or is in it.
DoneInOrder ==
  index = "update" =>
    \A s \in stale : \A e \in DOMAIN repo.dirs \ stale : \A p, q \in DOMAIN in.tree :
      DirAt(s, p) /\ DirAt(e, q) => e < s \/ IsStrictPrefix(p, q)

\* The next directory comes before all that are not done, but those it is in.
LEMMA NextInOrder ==
  ASSUME IInv, Places, InOrder, NEW d \in stale,
         \A e \in stale : Range(SubDirs(repo, e)) \cap stale = {} => d <= e,
         NEW s \in stale, s # d
  PROVE  d < s \/ IsStrictPrefix(DirPath(repo)[s], DirPath(repo)[d])
<1> DEFINE path(x) == DirPath(repo)[x]
           T == {x \in stale : x = s \/ IsStrictPrefix(path(s), path(x))}
           n == Len(repo.dirs)
<1>1. /\ Tables /\ IsInput(in) /\ DOMAIN repo.dirs = 1..n /\ n \in Nat /\ stale \subseteq 1..n
  BY LenProperties DEF IInv, Tables, Walk, Rooted
<1>2. \A x \in 1..n : path(x) \in Path /\ DirAt(x, path(x)) /\ RowRight(x, path(x))
                      /\ path(x) \in DOMAIN in.tree
  BY <1>1, DirPaths
<1>3. \A x, y \in 1..n : /\ x < y <=> AddedBefore(path(x), path(y))
                         /\ path(x) = path(y) => x = y
  BY <1>1, RowOrder
<1> HIDE DEF path, n
<1>4. T # {} /\ T \in SUBSET (1..n)
  BY <1>1
<1>5. PICK x \in T : \A y \in T : y <= x
  BY <1>1, <1>4, GreatestNumber
<1>6. x \in stale /\ x \in 1..n /\ (x = s \/ IsStrictPrefix(path(s), path(x)))
  BY <1>1
<1>7. Range(SubDirs(repo, x)) \cap stale = {}
  <2> SUFFICES ASSUME NEW y \in Range(SubDirs(repo, x)), y \in stale  PROVE FALSE
    OBVIOUS
  <2>1. y \in 1..n /\ repo.dirs[y].parent = x
    <3>1. Range(Below(repo.dirs, x)) = {i \in 1..n : repo.dirs[i].parent = x}
      BY <1>1, BelowInOrder DEF n
    <3> QED BY <3>1 DEF SubDirs
  <2>2. path(y) # <<>> /\ DirAt(x, ParentDir(path(y))) /\ x < y
    BY <1>2, <1>6, <2>1 DEF RowRight, NoNode
  <2>3. path(x) = ParentDir(path(y))
    <3>1. ParentDir(path(y)) \in DOMAIN in.tree
      BY <2>2 DEF DirAt
    <3> QED BY <1>1, <1>2, <1>6, <2>2, <3>1, OneEntry
  <2>4. IsStrictPrefix(path(x), path(y))
    BY <1>2, <2>1, <2>2, <2>3, ParentFacts
  <2>5. IsStrictPrefix(path(s), path(y))
    <3>1. CASE x = s
      BY <2>4, <3>1
    <3>2. CASE IsStrictPrefix(path(s), path(x))
      <4>1. IsPrefix(path(s), path(y)) /\ IsPrefix(path(x), path(y))
            /\ IsPrefix(path(s), path(x))
        BY <1>1, <1>2, <1>6, <2>1, <2>4, <3>2, PrefixTransitive DEF IsStrictPrefix, Path
      <4>2. path(s) # path(y)
        BY <1>1, <1>2, <1>6, <2>1, <2>4, <3>2, <4>1, PrefixAntisymmetric DEF IsStrictPrefix, Path
      <4> QED BY <4>1, <4>2 DEF IsStrictPrefix
    <3> QED BY <1>6, <3>1, <3>2
  <2>6. y \in T
    BY <2>5
  <2> HIDE DEF T
  <2> QED BY <1>1, <1>5, <1>6, <2>1, <2>2, <2>6
<1>8. d <= x /\ d \in 1..n /\ s \in 1..n /\ d \in Int /\ s \in Int /\ x \in Int
  BY <1>1, <1>6, <1>7
<1>9. CASE s < d
  <2>1. x # s
    BY <1>8, <1>9
  <2>2. IsStrictPrefix(path(s), path(x)) /\ AddedBefore(path(s), path(d))
    BY <1>3, <1>6, <1>8, <1>9, <2>1
  <2>3. d # x => AddedBefore(path(d), path(x))
    BY <1>3, <1>6, <1>8
  <2>4. d # x => IsStrictPrefix(path(s), path(d))
    BY <1>2, <1>6, <1>8, <2>2, <2>3, AddedBetween
  <2> QED BY <2>2, <2>4 DEF path
<1> QED BY <1>8, <1>9

LEMMA AboveTransitive ==
  ASSUME NEW p \in Path, NEW q \in Path, NEW r \in Path,
         IsPrefix(p, q), IsPrefix(q, r), p # q \/ q # r
  PROVE  IsStrictPrefix(p, r)
<1>1. IsPrefix(p, r)
  BY PrefixTransitive DEF Path
<1>2. p # r
  BY PrefixAntisymmetric DEF Path
<1> QED BY <1>1, <1>2 DEF IsStrictPrefix

\* A directory has another checksum than those in it, which would be endless otherwise.
LEMMA NestedDiffer ==
  ASSUME Tables, Places, IsInput(in), InOrder, Closed, NEW d \in DOMAIN repo.dirs,
         \A s \in DOMAIN repo.dirs : IsStrictPrefix(DirPath(repo)[d], DirPath(repo)[s]) =>
           repo.dirs[s].strong = CalcStrong(repo, s)
  PROVE  \A e \in DOMAIN repo.dirs : IsStrictPrefix(DirPath(repo)[d], DirPath(repo)[e]) =>
           CalcStrong(repo, d) # CalcStrong(repo, e)
<1> DEFINE D == DOMAIN repo.dirs
           N == Len(repo.dirs)
           path(x) == DirPath(repo)[x]
           within(x, y) == IsStrictPrefix(path(x), path(y))
           S == {n \in Nat : \A u, e \in D :
                   u > N - n /\ (u = d \/ within(d, u)) /\ within(u, e) =>
                     CalcStrong(repo, u) # CalcStrong(repo, e)}
<1>1. N \in Nat /\ D = 1..N
  BY LenProperties DEF Tables
<1>2. \A x \in D : path(x) \in Path /\ path(x) \in DOMAIN in.tree /\ DirAt(x, path(x))
  BY DirPaths
<1>3. 0 \in S
  BY <1>1
<1>4. ASSUME NEW n \in Nat, n \in S  PROVE n + 1 \in S
  <2> SUFFICES ASSUME NEW u \in D, NEW e \in D, u > N - (n + 1),
                      u = d \/ within(d, u), within(u, e),
                      CalcStrong(repo, u) = CalcStrong(repo, e)
               PROVE  FALSE
    OBVIOUS
  <2>1. PICK x \in Name : IsPrefix(path(u) \o <<x>>, path(e))
    BY <1>2, OnTheWay
  <2> DEFINE c == path(u) \o <<x>>
             f == path(e) \o <<x>>
  <2>2. /\ c \in Path /\ f \in Path /\ IsStrictPrefix(path(u), c)
        /\ IsStrictPrefix(path(e), f)
    <3>1. path(u) \in Path /\ path(e) \in Path
      BY <1>2
    <3> HIDE DEF path
    <3>2. /\ c \in Path /\ c # <<>> /\ ParentDir(c) = path(u)
          /\ f \in Path /\ f # <<>> /\ ParentDir(f) = path(e)
      BY <3>1, EntryPath
    <3> HIDE DEF c, f
    <3> QED BY <3>2, ParentFacts
  <2>3. IsStrictPrefix(c, f)
    <3>1. path(e) \in Path
      BY <1>2
    <3> HIDE DEF path, c, f
    <3>2. IsPrefix(path(e), f) /\ path(e) # f /\ IsPrefix(c, path(e))
      BY <2>1, <2>2 DEF IsStrictPrefix, c
    <3> QED BY <2>2, <3>1, <3>2, AboveTransitive
  <2>4. c \in Indexed /\ in.tree[c] = Dir
    <3>1. path(e) \in Indexed /\ in.tree[path(e)] = Dir
      BY <1>2, IndexedFacts DEF DirAt, IsDir
    <3>2. CASE c = path(e)
      BY <3>1, <3>2
    <3>3. CASE c # path(e)
      <4>1. IsStrictPrefix(c, path(e))
        BY <2>1, <3>3 DEF IsStrictPrefix
      <4> QED BY <2>2, <3>1, <4>1 DEF Closed, IsDir
    <3> QED BY <3>2, <3>3
  <2>5. LinesAt(u, x) = LinesAt(e, x)
    <3>1. LinesOf(u) = LinesOf(e)
      BY SameSums
    <3> QED BY <3>1 DEF LinesAt
  <2>6. PICK s \in D : s > u /\ path(s) = c /\ LinesAt(u, x) = {Line(TRUE, repo.dirs[s])}
    BY <2>4, LinesAtFacts
  <2>7. f \in Indexed
    <3>1. LinesAt(e, x) # {}
      BY <2>5, <2>6
    <3> QED BY <3>1, LinesAtFacts
  <2>8. in.tree[f] = Dir
    <3> SUFFICES ASSUME in.tree[f] # Dir  PROVE FALSE
      OBVIOUS
    <3>1. PICK g \in DOMAIN repo.files : LinesAt(e, x) = {Line(FALSE, repo.files[g])}
      BY <2>7, LinesAtFacts
    <3>2. Line(TRUE, repo.dirs[s]) = Line(FALSE, repo.files[g])
      BY <2>5, <2>6, <3>1
    <3> QED BY <3>2 DEF Line
  <2>9. PICK t \in D : path(t) = f /\ LinesAt(e, x) = {Line(TRUE, repo.dirs[t])}
    BY <2>7, <2>8, LinesAtFacts
  <2>10. repo.dirs[s].strong = repo.dirs[t].strong
    <3>1. Line(TRUE, repo.dirs[s]) = Line(TRUE, repo.dirs[t])
      BY <2>5, <2>6, <2>9
    <3> QED BY <3>1 DEF Line
  <2> HIDE DEF path, c, f
  <2>11. within(d, s) /\ within(s, t)
    <3>1. within(u, s)
      BY <2>2, <2>6
    <3>2. within(d, s)
      BY <1>2, <3>1, AboveTransitive DEF IsStrictPrefix
    <3> QED BY <2>3, <2>6, <2>9, <3>2
  <2>12. within(d, t)
    BY <1>2, <2>11, AboveTransitive DEF IsStrictPrefix
  <2>13. CalcStrong(repo, s) = CalcStrong(repo, t)
    BY <2>10, <2>11, <2>12 DEF path
  <2>14. s > N - n
    BY <1>1, <2>6
  <2> HIDE DEF within
  <2> QED BY <1>4, <2>11, <2>13, <2>14
<1>5. Nat \subseteq S
  <2> HIDE DEF S
  <2> QED BY <1>3, <1>4, SetInduction
<1> SUFFICES ASSUME NEW e \in D, within(d, e)  PROVE CalcStrong(repo, d) # CalcStrong(repo, e)
  OBVIOUS
<1>6. N \in S
  <2> HIDE DEF S
  <2> QED BY <1>1, <1>5
<1>7. d > N - N
  BY <1>1
<1> HIDE DEF within, D, N
<1> QED BY <1>6, <1>7 DEF D

LEMMA DoneInOrderStep ==
  ASSUME IInv, Places, InOrder, DoneInOrder, Step
  PROVE  DoneInOrder'
<1>1. /\ Tables /\ Rooted /\ IsInput(in) /\ Control /\ in' = in /\ stale \subseteq DOMAIN repo.dirs
      /\ DOMAIN repo.dirs = 1..Len(repo.dirs) /\ Len(repo.dirs) \in Nat
  BY ControlStep, LenProperties DEF IInv, Walk, Tables, Rooted
<1>2. CASE \E d \in stale : UpdateDir(d)
  <2> PICK d \in stale : UpdateDir(d)
    BY <1>2
  <2>1. /\ repo' = IF in.repo = "mem" THEN MemRekey(repo, d) ELSE DbUpdateRow(repo, d)
        /\ d \in DOMAIN repo.dirs /\ dirMap' = dirMap /\ stale' = stale \ {d}
        /\ index = "update"
        /\ \A e \in stale : Range(SubDirs(repo, e)) \cap stale = {} => d <= e
    BY <1>1 DEF UpdateDir
  <2>2. repo'.dirs \in Seq(Range(repo'.dirs)) /\ Len(repo'.dirs) = Len(repo.dirs)
    BY <1>1, <2>1, UpdateFacts
  <2>3. DOMAIN repo'.dirs = DOMAIN repo.dirs
    BY <1>1, <2>2, LenProperties
  <2>4. \A x, p : DirAt(x, p)' <=> DirAt(x, p)
    BY <1>1, <2>1 DEF DirAt, Text
  <2>5. ASSUME NEW s \in stale', NEW e \in DOMAIN repo.dirs \ stale',
               NEW p \in DOMAIN in.tree, NEW q \in DOMAIN in.tree, DirAt(s, p), DirAt(e, q)
        PROVE  e < s \/ IsStrictPrefix(p, q)
    <3>1. s \in stale /\ s # d
      BY <2>1
    <3>2. CASE e # d
      <4>1. e \in DOMAIN repo.dirs \ stale
        BY <2>1, <3>2
      <4> QED BY <2>1, <2>5, <3>1, <4>1 DEF DoneInOrder
    <3>3. CASE e = d
      <4>1. e < s \/ IsStrictPrefix(DirPath(repo)[s], DirPath(repo)[e])
        BY <2>1, <3>1, <3>3, NextInOrder
      <4>2. p = DirPath(repo)[s] /\ q = DirPath(repo)[e]
        BY <1>1, <2>5, <3>1, DirPaths, OneEntry
      <4> QED BY <4>1, <4>2
    <3> QED BY <3>2, <3>3
  <2> QED BY <1>1, <2>3, <2>4, <2>5 DEF DoneInOrder
<1>3. CASE AwaitWalk
  <2>1. /\ repo' = repo /\ stale' = IF root = NoNode THEN {} ELSE Subtree(repo, root)
    BY <1>3 DEF AwaitWalk, repoVars
  <2>2. stale' = DOMAIN repo.dirs
    BY <2>1, AllBelowRoot, NothingWithoutRoot
  <2> QED BY <2>1, <2>2 DEF DoneInOrder
<1>4. CASE \/ \E p \in todo : \/ WalkDir(p) \/ WalkDirUnreadable(p)
                              \/ WalkFile(p) \/ WalkFileUnreadable(p) \/ WalkFileFiltered(p)
           \/ InitWalk
  <2>1. index' # "update"
    <3>1. CASE InitWalk
      BY <3>1 DEF InitWalk
    <3>2. CASE ~InitWalk
      <4>1. walker = "walking" /\ index' = index
        BY <1>4, <3>2, VisitFrame
      <4> QED BY <1>1, <4>1 DEF Control
    <3> QED BY <3>1, <3>2
  <2> QED BY <2>1 DEF DoneInOrder
<1>5. CASE IndexReturns \/ SendDir \/ CloseErrors
  <2>1. index' # "update"
    BY <1>5 DEF IndexReturns, SendDir, CloseErrors
  <2> QED BY <2>1 DEF DoneInOrder
<1>6. CASE SendError \/ WalkDone \/ RecvError \/ ErrorsEnd \/ RecvDir
  <2>1. repo' = repo /\ dirMap' = dirMap /\ stale' = stale /\ index' = index
    BY <1>6 DEF SendError, WalkDone, RecvError, ErrorsEnd, RecvDir, repoVars, walkVars
  <2>2. \A x, p : DirAt(x, p)' <=> DirAt(x, p)
    BY <1>1, <2>1 DEF DirAt, Text
  <2> QED BY <1>1, <2>1, <2>2 DEF DoneInOrder
<1> QED BY <1>2, <1>3, <1>4, <1>5, <1>6 DEF Step

\* UpdateStrong moves a directory to a key under which only earlier directories are.
LEMMA DirsKeptUpdate ==
  ASSUME IInv, Places, InOrder, Summed, DoneInOrder, DirsKept, NEW d \in stale, UpdateDir(d)
  PROVE  DirsKept'
<1>1. /\ Tables /\ Rooted /\ IsInput(in) /\ Control /\ stale \subseteq DOMAIN repo.dirs
      /\ DOMAIN repo.dirs = 1..Len(repo.dirs) /\ Len(repo.dirs) \in Nat
      /\ DOMAIN repo = Fields
  BY LenProperties DEF IInv, Walk, Tables, Rooted, Places, RootPlaced
<1>2. /\ repo' = IF in.repo = "mem" THEN MemRekey(repo, d) ELSE DbUpdateRow(repo, d)
      /\ d \in DOMAIN repo.dirs /\ in' = in /\ stale' = stale \ {d}
      /\ index = "update" /\ index' = "update" /\ Range(SubDirs(repo, d)) \cap stale = {}
  BY <1>1 DEF UpdateDir
<1> SUFFICES ASSUME in.repo = "mem"
             PROVE  /\ LastRow(repo'.dirOf, repo'.dirs)
                    /\ \A e \in DOMAIN repo'.dirs : e \in stale' =>
                         repo'.dirs[e].strong = Placeholder(e - 1)
  BY <1>2 DEF DirsKept
<1> DEFINE D    == DOMAIN repo.dirs
           old  == repo.dirs[d].strong
           new  == CalcStrong(repo, d)
           map  == repo.dirOf
           map2 == Put(Without(map, {old}), new, d)
           strong(e) == repo.dirs[e].strong
<1>3. \A e \in D : {"parent", "name", "strong"} \subseteq DOMAIN repo.dirs[e]
  BY DEF Places, DirsPlaced, RowRight
<1>4. /\ DOMAIN repo'.dirs = D
      /\ \A e \in D : repo'.dirs[e].strong = IF e = d THEN new ELSE strong(e)
  BY <1>1, <1>2, <1>3, UpdateRow
<1>5. \A e \in stale : strong(e) = Placeholder(e - 1) /\ strong(e).tmp = e
  <2>1. \A e \in stale : strong(e) = Placeholder(e - 1)
    BY <1>1, <1>2 DEF DirsKept
  <2>2. \A e \in stale : Placeholder(e - 1).tmp = e
    BY <1>1 DEF Placeholder
  <2> QED BY <2>1, <2>2
<1>6. \A e \in D \ stale : strong(e) = CalcStrong(repo, e)
  BY <1>2 DEF Summed
<1>7. \A e \in D : CalcStrong(repo, e).tmp = 0
  BY DEF CalcStrong, SumOf
<1>8. LastRow(map, repo.dirs)
  BY DEF DirsKept
<1>9. new # old /\ repo'.dirOf = map2
  <2>1. new # old
    BY <1>1, <1>5, <1>7
  <2>2. repo'.dirOf = IF new = old THEN map ELSE map2
    BY <1>1, <1>2, UpdateRest
  <2> QED BY <2>1, <2>2
<1>10. \A e \in D : e # d => strong(e) # old
  BY <1>1, <1>5, <1>6, <1>7
<1>11. ASSUME NEW e \in D, e # d, strong(e) = new  PROVE e < d
  <2>1. e \notin stale
    BY <1>1, <1>5, <1>7, <1>11
  <2>2. /\ DirAt(d, DirPath(repo)[d]) /\ DirAt(e, DirPath(repo)[e])
        /\ DirPath(repo)[d] \in DOMAIN in.tree /\ DirPath(repo)[e] \in DOMAIN in.tree
    BY <1>1, DirPaths
  <2>3. e < d \/ IsStrictPrefix(DirPath(repo)[d], DirPath(repo)[e])
    BY <1>2, <2>1, <2>2 DEF DoneInOrder
  <2>4. CASE IsStrictPrefix(DirPath(repo)[d], DirPath(repo)[e])
    <3>1. RowsBelow(repo.dirs, d) \cap stale = {}
      <4>1. Range(Below(repo.dirs, d)) = RowsBelow(repo.dirs, d)
        BY <1>1, BelowInOrder DEF RowsBelow
      <4> QED BY <1>2, <4>1 DEF SubDirs
    <3>2. \A s \in D : IsStrictPrefix(DirPath(repo)[d], DirPath(repo)[s]) =>
            strong(s) = CalcStrong(repo, s)
      BY <1>2, <1>6, <3>1, DoneBelow
    <3>3. Closed
      BY <1>1, <1>2, IndexClosed DEF Control
    <3>4. CalcStrong(repo, d) # CalcStrong(repo, e)
      BY <1>1, <2>4, <3>2, <3>3, NestedDiffer
    <3> QED BY <1>6, <1>11, <2>1, <3>4
  <2> QED BY <2>3, <2>4
<1> HIDE DEF new, old, map
<1>12. /\ DOMAIN map2 = (DOMAIN map \ {old}) \cup {new}
       /\ map2[new] = d /\ \A k \in DOMAIN map \ {old, new} : map2[k] = map[k]
  BY DEF Put, Without
<1> HIDE DEF map2
<1>13. \A e \in D : strong(e) \in DOMAIN map
  BY <1>8 DEF LastRow
<1>14. \A k \in DOMAIN map : /\ map[k] \in D /\ strong(map[k]) = k
                             /\ \A e \in D : strong(e) = k => e <= map[k]
  BY <1>8 DEF LastRow
<1>15. old = strong(d)
  BY DEF old
<1> HIDE DEF D, strong
<1>16. \A e \in D : repo'.dirs[e].strong \in DOMAIN map2
  BY <1>4, <1>10, <1>12, <1>13
<1>17. ASSUME NEW k \in DOMAIN map2
       PROVE  /\ map2[k] \in D /\ repo'.dirs[map2[k]].strong = k
              /\ \A e \in D : repo'.dirs[e].strong = k => e <= map2[k]
  <2>1. CASE k = new
    <3>1. map2[k] = d /\ d \in D /\ repo'.dirs[d].strong = new
      BY <1>2, <1>4, <1>12, <2>1 DEF D
    <3>2. ASSUME NEW e \in D, repo'.dirs[e].strong = new  PROVE e <= d
      <4>1. CASE e = d
        BY <1>1, <1>2, <4>1
      <4>2. CASE e # d
        <5>1. strong(e) = new
          BY <1>4, <3>2, <4>2
        <5>2. e < d /\ e \in Int /\ d \in Int
          BY <1>1, <1>2, <1>11, <4>2, <5>1 DEF D
        <5> QED BY <5>2
      <4> QED BY <4>1, <4>2
    <3> QED BY <2>1, <3>1, <3>2
  <2>2. CASE k # new
    <3>1. k \in DOMAIN map /\ k # old /\ map2[k] = map[k]
      BY <1>12, <2>2
    <3>2. map[k] \in D /\ strong(map[k]) = k
      BY <1>14, <3>1
    <3>3. map[k] # d
      BY <1>15, <3>1, <3>2
    <3>4. repo'.dirs[map[k]].strong = k
      BY <1>4, <3>2, <3>3
    <3>5. ASSUME NEW e \in D, repo'.dirs[e].strong = k  PROVE e <= map[k]
      <4>1. strong(e) = k
        BY <1>4, <2>2, <3>5
      <4> QED BY <1>14, <3>1, <4>1
    <3> QED BY <3>1, <3>2, <3>4, <3>5
  <2> QED BY <2>1, <2>2
<1>18. LastRow(map2, repo'.dirs)
  BY <1>4, <1>16, <1>17 DEF LastRow
<1>19. \A e \in stale' : repo'.dirs[e].strong = Placeholder(e - 1)
  <2>1. \A e \in stale' : e \in stale /\ e # d /\ e \in D
    BY <1>1, <1>2 DEF D
  <2> QED BY <1>4, <1>5, <2>1
<1> QED BY <1>9, <1>18, <1>19

\* AddFile leaves the map of the directories alone.
LEMMA AddFileKeepsDirs ==
  ASSUME Tables, DOMAIN repo = Fields, in.repo = "mem",
         NEW parent, parent # NoNode, NEW name, NEW contents
  PROVE  AddFile(repo, parent, name, contents).dirOf = repo.dirOf
<1> DEFINE r == AddFile(repo, parent, name, contents)
<1>1. in.repo = "mem" => r.dirOf = repo.dirOf
  BY AddFileRest
<1> QED BY <1>1

LEMMA DirsKeptStep ==
  ASSUME IInv, Places, InOrder, Summed, DoneInOrder, DirsKept, Step
  PROVE  DirsKept'
<1>1. /\ Tables /\ Rooted /\ IndexInv /\ IsInput(in) /\ Control /\ in' = in
      /\ todo \subseteq DOMAIN in.tree /\ DOMAIN repo = Fields
  BY ControlStep DEF IInv, Walk, Places, RootPlaced
<1>2. \A q \in DOMAIN in.tree : IsDir(in.tree, q) => (q \in Indexed <=> Text(q) \in DOMAIN dirMap)
  BY <1>1, IndexedFacts DEF Tables, NodeOf, IsDir
<1>3. CASE \/ \E p \in todo : WalkDir(p) \/ WalkDirUnreadable(p)
           \/ InitWalk
  <2>1. repo' = repo \/ \E p : repo' = Entered(p).repo
    BY <1>3 DEF WalkDir, WalkDirUnreadable, InitWalk, repoVars
  <2>2. repo' = repo \/ \E parent, name : repo' = AddDir(parent, name)
    BY <2>1, EnteredRepo
  <2>3. index \in {"init", "wait"}
    <3>1. CASE InitWalk
      BY <3>1 DEF InitWalk
    <3>2. CASE ~InitWalk
      BY <1>1, <1>3, <3>2, VisitFrame DEF Control
    <3> QED BY <3>1, <3>2
  <2>4. CASE repo' = repo
    BY <1>1, <2>3, <2>4 DEF DirsKept
  <2>5. CASE \E parent, name : repo' = AddDir(parent, name)
    BY <1>1, <2>3, <2>5, DirsKeptAdd
  <2> QED BY <2>2, <2>4, <2>5
<1>4. CASE \E p \in todo : WalkFile(p)
  <2> PICK p \in todo : WalkFile(p)
    BY <1>4
  <2>1. /\ walker = "walking" /\ \A q \in todo \ {p} : AddedBefore(p, q)
        /\ index' = index /\ stale' = stale
    BY VisitFrame
  <2>2. IsFile(in.tree, p) /\ p \in DOMAIN in.tree /\ p # <<>>
    BY <1>1, InputFacts DEF WalkFile, IsDir, IsFile
  <2>3. IsDir(in.tree, ParentDir(p)) /\ Text(ParentDir(p)) \in DOMAIN dirMap
    BY <1>1, <1>2, <2>1, <2>2, NextReadable, InputFacts DEF IInv, IndexInv, IsDir, Exists
  <2>4. Entered(ParentDir(p)).repo = repo /\ Entered(ParentDir(p)).dirMap = dirMap
    BY <2>3 DEF Entered
  <2> DEFINE parent == dirMap[Text(ParentDir(p))]
             r == AddFile(repo, parent, <<Last(p)>>, in.tree[p])
  <2>5. repo' = r
    BY <2>4 DEF WalkFile
  <2>6. parent # NoNode
    BY <1>1, <2>3 DEF Tables, NoNode
  <2> HIDE DEF parent
  <2>7. in.repo = "mem" => r.dirOf = repo.dirOf
    <3> DEFINE name == <<Last(p)>>
               contents == in.tree[p]
    <3> HIDE DEF name, contents
    <3>1. in.repo = "mem" => AddFile(repo, parent, name, contents).dirOf = repo.dirOf
      BY <1>1, <2>6, AddFileKeepsDirs
    <3> QED BY <3>1 DEF name, contents
  <2>8. r.dirs = repo.dirs
    BY <1>1, AddFileFacts
  <2> HIDE DEF r
  <2> QED BY <1>1, <2>1, <2>5, <2>7, <2>8 DEF DirsKept
<1>5. CASE \E d \in stale : UpdateDir(d)
  BY <1>5, DirsKeptUpdate
<1>6. CASE AwaitWalk
  <2>1. repo' = repo /\ index = "wait"
    BY <1>6 DEF AwaitWalk, repoVars
  <2> QED BY <1>1, <2>1 DEF DirsKept
<1>7. CASE \/ \E p \in todo : WalkFileUnreadable(p) \/ WalkFileFiltered(p)
           \/ SendError \/ WalkDone \/ IndexReturns \/ SendDir \/ CloseErrors
           \/ RecvError \/ ErrorsEnd \/ RecvDir
  <2>1. /\ repo' = repo /\ stale' = stale
        /\ index' = index \/ index' \notin {"init", "wait"}
    BY <1>7 DEF WalkFileUnreadable, WalkFileFiltered, Visit, SendError, WalkDone,
       IndexReturns, SendDir, CloseErrors, RecvError, ErrorsEnd, RecvDir, repoVars, walkVars
  <2> QED BY <1>1, <2>1 DEF DirsKept
<1> QED BY <1>3, <1>4, <1>5, <1>6, <1>7 DEF Step

LEMMA KeptInv == Spec => [](/\ IInv /\ Places /\ InOrder /\ Summed
                            /\ FilesKept /\ DoneInOrder /\ DirsKept)
<1>1. Init => FilesKept /\ DoneInOrder /\ DirsKept
  <2> SUFFICES ASSUME Init  PROVE FilesKept /\ DoneInOrder /\ DirsKept
    OBVIOUS
  <2>1. /\ repo.dirs = <<>> /\ repo.files = <<>> /\ index = "init"
        /\ in.repo = "mem" => /\ repo.fileOf = <<>> /\ repo.dirOf = <<>>
                              /\ repo.blockOf = <<>> /\ repo.weakOf = <<>>
        /\ in.repo # "mem" => repo.blocks = <<>>
    BY DEF Init, NewMemRepo, NewDbRepo
  <2> DEFINE none == <<>>
  <2>2. DOMAIN none = {} /\ none \in Seq(Range(none)) /\ BlockNodes(none) = {}
    BY EmptySeq DEF BlockNodes
  <2>3. DOMAIN Sums(none) = {} /\ DOMAIN Weaks(none) = {}
    BY <2>2 DEF Sums, Weaks
  <2> HIDE DEF none
  <2>4. LastRow(none, none) /\ LastBlock(none, Sums(none)) /\ LastBlock(none, Weaks(none))
        /\ BlockRows(none, Sums(none))
    BY <2>2, <2>3 DEF LastRow, LastBlock, BlockRows
  <2>5. FilesKept
    BY <2>1, <2>4 DEF FilesKept, none
  <2>6. DirsKept
    BY <2>1, <2>2, <2>4 DEF DirsKept, none
  <2> QED BY <2>1, <2>5, <2>6 DEF DoneInOrder
<1>2. /\ IInv /\ Places /\ InOrder /\ Summed /\ FilesKept /\ DoneInOrder /\ DirsKept /\ [Next]_vars
      => (FilesKept /\ DoneInOrder /\ DirsKept)'
  <2> SUFFICES ASSUME IInv, Places, InOrder, Summed, FilesKept, DoneInOrder, DirsKept, [Next]_vars
               PROVE  FilesKept' /\ DoneInOrder' /\ DirsKept'
    OBVIOUS
  <2>1. CASE UNCHANGED vars
    BY <2>1 DEF FilesKept, DoneInOrder, DirsKept, DirAt, Text, vars, repoVars, walkVars
  <2>2. CASE Next
    BY <2>2, StepIsNext, FilesKeptStep, DoneInOrderStep, DirsKeptStep
  <2> QED BY <2>1, <2>2
<1> QED BY <1>1, <1>2, StrongInv, PTL DEF Spec

-----------------------------------------------------------------------------
(* What the look-ups find.                                                 *)

\* Of several nodes of a table a MemRepo has the last, and a DbRepo the first.
Pick(T) == IF in.repo = "mem" THEN {i \in T : \A j \in T : j <= i} ELSE First(T)

LEMMA PickOne ==
  ASSUME NEW n \in Nat, NEW T \in SUBSET (1..n)
  PROVE  Pick(T) \subseteq T /\ (Pick(T) = {} <=> T = {})
<1>1. Pick(T) \subseteq T
  BY DEF Pick, First
<1>2. ASSUME T # {}  PROVE Pick(T) # {}
  <2>1. T \in SUBSET Nat
    OBVIOUS
  <2>2. (\E x \in T : \A y \in T : y <= x) /\ (\E x \in T : \A y \in T : x <= y)
    BY <1>2, <2>1, GreatestNumber, LeastNumber
  <2> QED BY <2>2 DEF Pick, First
<1> QED BY <1>1, <1>2

\* What the planner's model finds among paths.
FoundPath(paths) == Found(in.repo, paths, AddedBefore)

\* The paths of nodes, which are numbered as they are added.
PathsOf(g, T) == {g[i] : i \in T}

Numbered(g, D) ==
  \A d, e \in D : /\ d < e <=> AddedBefore(g[d], g[e])
                  /\ g[d] = g[e] => d = e

\* It picks the same.
LEMMA FoundByNumber ==
  ASSUME NEW D \in SUBSET Int, NEW g, NEW T \in SUBSET D, Numbered(g, D)
  PROVE  FoundPath(PathsOf(g, T)) = PathsOf(g, Pick(T))
<1> DEFINE S == {g[i] : i \in T}
<1>0. /\ PathsOf(g, T) = S /\ PathsOf(g, Pick(T)) = {g[i] : i \in Pick(T)}
      /\ \A d, e \in D : /\ d < e <=> AddedBefore(g[d], g[e])
                         /\ g[d] = g[e] => d = e
  BY DEF PathsOf, Numbered
<1>1. CASE in.repo = "mem"
  <2>1. FoundPath(S) = {x \in S : \A y \in S \ {x} : AddedBefore(y, x)}
    BY <1>1 DEF FoundPath, Found, LastAdded
  <2>2. ASSUME NEW i \in T
        PROVE  (\A y \in S \ {g[i]} : AddedBefore(y, g[i])) <=> \A j \in T : j <= i
    <3>1. (\A y \in S \ {g[i]} : AddedBefore(y, g[i]))
            <=> \A j \in T : g[j] = g[i] \/ AddedBefore(g[j], g[i])
      OBVIOUS
    <3>2. \A j \in T : g[j] = g[i] \/ AddedBefore(g[j], g[i]) <=> j <= i
      BY <1>0
    <3> QED BY <3>1, <3>2
  <2>3. Pick(T) = {i \in T : \A j \in T : j <= i}
    BY <1>1 DEF Pick
  <2> DEFINE before(x) == \A y \in S \ {x} : AddedBefore(y, x)
             good(i)   == \A j \in T : j <= i
  <2>4. \A i \in T : before(g[i]) <=> good(i)
    BY <2>2
  <2> HIDE DEF before, good
  <2>5. {x \in S : before(x)} = {g[i] : i \in {i \in T : good(i)}}
    BY <2>4
  <2> QED BY <1>0, <2>1, <2>3, <2>5 DEF before, good
<1>2. CASE in.repo # "mem"
  <2>1. FoundPath(S) = {x \in S : \A y \in S \ {x} : AddedBefore(x, y)}
    BY <1>2 DEF FoundPath, Found, FirstRow
  <2>2. ASSUME NEW i \in T
        PROVE  (\A y \in S \ {g[i]} : AddedBefore(g[i], y)) <=> \A j \in T : i <= j
    <3>1. (\A y \in S \ {g[i]} : AddedBefore(g[i], y))
            <=> \A j \in T : g[j] = g[i] \/ AddedBefore(g[i], g[j])
      OBVIOUS
    <3>2. \A j \in T : g[j] = g[i] \/ AddedBefore(g[i], g[j]) <=> i <= j
      BY <1>0
    <3> QED BY <3>1, <3>2
  <2>3. Pick(T) = {i \in T : \A j \in T : i <= j}
    BY <1>2 DEF Pick, First
  <2> DEFINE before(x) == \A y \in S \ {x} : AddedBefore(x, y)
             good(i)   == \A j \in T : i <= j
  <2>4. \A i \in T : before(g[i]) <=> good(i)
    BY <2>2
  <2> HIDE DEF before, good
  <2>5. {x \in S : before(x)} = {g[i] : i \in {i \in T : good(i)}}
    BY <2>4
  <2> QED BY <1>0, <2>1, <2>3, <2>5 DEF before, good
<1> QED BY <1>1, <1>2

\* A map that keeps the last row of a table with each checksum finds it.
LEMMA LastRowFound ==
  ASSUME NEW map, NEW table, LastRow(map, table), DOMAIN table \subseteq Int, NEW k
  PROVE  LET T == {i \in DOMAIN table : table[i].strong = k}
         IN  (IF k \in DOMAIN map THEN {map[k]} ELSE {}) = {i \in T : \A j \in T : j <= i}
<1> DEFINE T == {i \in DOMAIN table : table[i].strong = k}
<1>1. CASE k \in DOMAIN map
  <2>1. map[k] \in T /\ \A j \in T : j <= map[k]
    BY <1>1 DEF LastRow
  <2>2. T \subseteq Int
    OBVIOUS
  <2> DEFINE m == map[k]
  <2>3. m \in T /\ \A j \in T : j <= m
    BY <2>1
  <2> HIDE DEF T, m
  <2>4. ASSUME NEW i \in T, \A j \in T : j <= i  PROVE i = m
    <3>1. i <= m /\ m <= i /\ i \in Int /\ m \in Int
      BY <2>2, <2>3, <2>4
    <3> QED BY <3>1
  <2>5. {m} = {i \in T : \A j \in T : j <= i}
    BY <2>3, <2>4
  <2>6. (IF k \in DOMAIN map THEN {map[k]} ELSE {}) = {m}
    BY <1>1 DEF m
  <2> QED BY <2>5, <2>6 DEF T
<1>2. CASE k \notin DOMAIN map
  <2>1. T = {}
    BY <1>2 DEF LastRow
  <2> QED BY <1>2, <2>1
<1> QED BY <1>1, <1>2

LEMMA NodesFound ==
  ASSUME Tables, FilesKept, DirsKept, NEW k
  PROVE  /\ FoundFile(k) = {FilePath(repo)[f] : f \in
                              Pick({f \in DOMAIN repo.files : repo.files[f].strong = k})}
         /\ FoundDir(k)  = {DirPath(repo)[d] : d \in
                              Pick({d \in DOMAIN repo.dirs : repo.dirs[d].strong = k})}
<1> DEFINE files == {f \in DOMAIN repo.files : repo.files[f].strong = k}
           dirs  == {d \in DOMAIN repo.dirs : repo.dirs[d].strong = k}
<1>1. (IF in.repo = "mem" THEN MemFile(repo, k) ELSE DbFile(repo, k)) = Pick(files)
  <2>1. CASE in.repo = "mem"
    <3>1. DOMAIN repo.files \subseteq Int /\ LastRow(repo.fileOf, repo.files)
      BY <2>1, LenProperties DEF Tables, FilesKept
    <3>2. MemFile(repo, k) = {i \in files : \A j \in files : j <= i}
      BY <3>1, LastRowFound DEF MemFile
    <3> QED BY <2>1, <3>2 DEF Pick
  <2>2. CASE in.repo # "mem"
    BY <2>2 DEF Pick, DbFile
  <2> QED BY <2>1, <2>2
<1>2. (IF in.repo = "mem" THEN MemDir(repo, k) ELSE DbDir(repo, k)) = Pick(dirs)
  <2>1. CASE in.repo = "mem"
    <3>1. DOMAIN repo.dirs \subseteq Int /\ LastRow(repo.dirOf, repo.dirs)
      BY <2>1, LenProperties DEF Tables, DirsKept
    <3>2. MemDir(repo, k) = {i \in dirs : \A j \in dirs : j <= i}
      BY <3>1, LastRowFound DEF MemDir
    <3> QED BY <2>1, <3>2 DEF Pick
  <2>2. CASE in.repo # "mem"
    BY <2>2 DEF Pick, DbDir
  <2> QED BY <2>1, <2>2
<1> QED BY <1>1, <1>2 DEF FoundFile, FoundDir

\* Every path is below the top.
LEMMA TopBelow == \A q \in Path : IsPrefix(<<>>, q)
<1> DEFINE none == <<>>
<1>1. none \in Seq(Name) /\ Len(none) = 0 /\ 1..0 = {}
  BY EmptySeq
<1> SUFFICES ASSUME NEW q \in Path  PROVE IsPrefix(none, q)
  OBVIOUS
<1>2. q \in Seq(Name) /\ Len(q) \in Nat
  BY LenProperties DEF Path
<1> HIDE DEF none
<1>3. Len(none) <= Len(q) /\ \A i \in 1..Len(none) : none[i] = q[i]
  BY <1>1, <1>2
<1>4. IsPrefix(none, q) <=> Len(none) <= Len(q) /\ \A i \in 1..Len(none) : none[i] = q[i]
  BY <1>1, <1>2, PrefixElements, Zenon
<1> QED BY <1>3, <1>4

\* The planner's model finds a node by the checksum of another as the repository does.
LEMMA MatchPlanned ==
  ASSUME Tables, Places, InOrder, IsInput(in), FilesKept, DirsKept, StrongsRight, Returned,
         NEW p, NEW k,
         \/ \E d \in DOMAIN repo.dirs : p = DirPath(repo)[d] /\ k = repo.dirs[d].strong
         \/ \E f \in DOMAIN repo.files : p = FilePath(repo)[f] /\ k = repo.files[f].strong
  PROVE  (IF FoundFile(k) # {} THEN FoundFile(k) ELSE FoundDir(k))
           = StrongMatch(in.repo, TreeOf(repo), <<>>, TreeOf(repo), p)
<1> DEFINE t     == TreeOf(repo)
           dirs  == DirPath(repo)
           files == FilePath(repo)
           ofDir  == {d \in DOMAIN repo.dirs : repo.dirs[d].strong = k}
           ofFile == {f \in DOMAIN repo.files : repo.files[f].strong = k}
           A == {dirs[d] : d \in ofDir}
           B == {files[f] : f \in ofFile}
           same == {q \in Under(t, <<>>) : SameStrong(t, p, t, q)}
<1>1. /\ DOMAIN t = Indexed /\ Indexed \subseteq Path
      /\ \A q \in Indexed : t[q] = in.tree[q]
  BY NodesMakeTree, IndexedFacts, InputFacts
<1>2. Under(t, <<>>) = Indexed
  <2>1. \A q \in Path : IsPrefix(<<>>, q)
    BY TopBelow
  <2> QED BY <1>1, <2>1 DEF Under
<1>3. /\ DOMAIN dirs = DOMAIN repo.dirs /\ DOMAIN files = DOMAIN repo.files
      /\ \A d \in DOMAIN repo.dirs : dirs[d] \in Indexed /\ ~IsFile(t, dirs[d])
      /\ \A f \in DOMAIN repo.files : files[f] \in Indexed /\ IsFile(t, files[f])
      /\ \A q \in Indexed : \/ \E d \in DOMAIN repo.dirs : dirs[d] = q
                            \/ \E f \in DOMAIN repo.files : files[f] = q
  <2>1. \A d \in DOMAIN repo.dirs : dirs[d] \in DOMAIN in.tree /\ DirAt(d, dirs[d])
    BY DirPaths
  <2>2. \A f \in DOMAIN repo.files : files[f] \in DOMAIN in.tree /\ NodeOf(f, files[f])
                                     /\ IsFile(in.tree, files[f])
    BY FilePaths
  <2>3. \A q \in DOMAIN in.tree : q \in Indexed <=> \/ \E d \in DOMAIN repo.dirs : dirs[d] = q
                                                    \/ \E f \in DOMAIN repo.files : files[f] = q
    BY EntriesFound
  <2>4. DOMAIN dirs = DOMAIN repo.dirs /\ DOMAIN files = DOMAIN repo.files
    BY DirPaths, FilePaths
  <2> HIDE DEF t, dirs, files
  <2>5. \A q \in Indexed : IsFile(t, q) <=> in.tree[q] # Dir
    BY <1>1 DEF IsFile, Exists
  <2>6. \A d \in DOMAIN repo.dirs : in.tree[dirs[d]] = Dir
    BY <2>1 DEF DirAt, IsDir
  <2>7. \A f \in DOMAIN repo.files : in.tree[files[f]] # Dir
    BY <2>2 DEF IsFile
  <2> QED BY <2>1, <2>2, <2>3, <2>4, <2>5, <2>6, <2>7, IndexedFacts
<1>4. /\ \A d \in DOMAIN repo.dirs : k = repo.dirs[d].strong <=> SameStrong(t, p, t, dirs[d])
      /\ \A f \in DOMAIN repo.files : k = repo.files[f].strong <=> SameStrong(t, p, t, files[f])
  <2> DEFINE sums == {<<dirs[d], repo.dirs[d].strong>> : d \in DOMAIN dirs}
                       \cup {<<files[f], repo.files[f].strong>> : f \in DOMAIN files}
  <2>1. \A x, y \in sums : x[2] = y[2] <=> SameStrong(t, x[1], t, y[1])
    BY DEF StrongsRight
  <2>2. /\ \A d \in DOMAIN repo.dirs : <<dirs[d], repo.dirs[d].strong>> \in sums
        /\ \A f \in DOMAIN repo.files : <<files[f], repo.files[f].strong>> \in sums
    BY <1>3
  <2>3. <<p, k>> \in sums
    BY <1>3
  <2> HIDE DEF sums, t, dirs, files
  <2>4. \A q, s : <<q, s>> \in sums => (k = s <=> SameStrong(t, p, t, q))
    <3> SUFFICES ASSUME NEW q, NEW s, <<q, s>> \in sums  PROVE k = s <=> SameStrong(t, p, t, q)
      OBVIOUS
    <3> DEFINE x == <<p, k>>
               y == <<q, s>>
    <3>1. x[2] = y[2] <=> SameStrong(t, x[1], t, y[1])
      <4> HIDE DEF x, y
      <4> QED BY <2>1, <2>3 DEF x, y
    <3> QED BY <3>1
  <2> QED BY <2>2, <2>4
<1>5. same = A \cup B
  <2> HIDE DEF t, dirs, files
  <2> QED BY <1>2, <1>3, <1>4
<1>6. {q \in same : IsFile(t, q)} = B
  <2> HIDE DEF t, dirs, files, same
  <2> QED BY <1>3, <1>5
<1>7. StrongMatch(in.repo, t, <<>>, t, p) = FoundPath(IF B # {} THEN B ELSE same)
  <2> HIDE DEF t, B
  <2> QED BY <1>6 DEF StrongMatch, FoundPath
<1>8. /\ FoundPath(A) = {dirs[d] : d \in Pick(ofDir)}
      /\ FoundPath(B) = {files[f] : f \in Pick(ofFile)}
  <2>1. DOMAIN repo.dirs \in SUBSET Int /\ DOMAIN repo.files \in SUBSET Int
    BY LenProperties DEF Tables
  <2>2. /\ \A d, e \in DOMAIN repo.dirs : /\ d < e <=> AddedBefore(dirs[d], dirs[e])
                                          /\ dirs[d] = dirs[e] => d = e
        /\ \A f, g \in DOMAIN repo.files : /\ f < g <=> AddedBefore(files[f], files[g])
                                           /\ files[f] = files[g] => f = g
    BY RowOrder
  <2>3. ofDir \in SUBSET DOMAIN repo.dirs /\ ofFile \in SUBSET DOMAIN repo.files
    OBVIOUS
  <2> HIDE DEF dirs, files, ofDir, ofFile
  <2>4. FoundPath(A) = {dirs[d] : d \in Pick(ofDir)}
    <3> DEFINE D == DOMAIN repo.dirs
    <3>1. /\ D \in SUBSET Int /\ ofDir \in SUBSET D
          /\ \A d, e \in D : /\ d < e <=> AddedBefore(dirs[d], dirs[e])
                             /\ dirs[d] = dirs[e] => d = e
      BY <2>1, <2>2, <2>3
    <3> HIDE DEF D
    <3>2. Numbered(dirs, D)
      BY <3>1 DEF Numbered
    <3>3. FoundPath(PathsOf(dirs, ofDir)) = PathsOf(dirs, Pick(ofDir))
      BY <3>1, <3>2, FoundByNumber
    <3> QED BY <3>3 DEF PathsOf
  <2>5. FoundPath(B) = {files[f] : f \in Pick(ofFile)}
    <3> DEFINE D == DOMAIN repo.files
    <3>1. /\ D \in SUBSET Int /\ ofFile \in SUBSET D
          /\ \A d, e \in D : /\ d < e <=> AddedBefore(files[d], files[e])
                             /\ files[d] = files[e] => d = e
      BY <2>1, <2>2, <2>3
    <3> HIDE DEF D
    <3>2. Numbered(files, D)
      BY <3>1 DEF Numbered
    <3>3. FoundPath(PathsOf(files, ofFile)) = PathsOf(files, Pick(ofFile))
      BY <3>1, <3>2, FoundByNumber
    <3> QED BY <3>3 DEF PathsOf
  <2> QED BY <2>4, <2>5
<1>9. /\ FoundFile(k) = {files[f] : f \in Pick(ofFile)}
      /\ FoundDir(k) = {dirs[d] : d \in Pick(ofDir)}
  BY NodesFound
<1>10. Pick(ofFile) = {} <=> ofFile = {}
  <2>1. Len(repo.files) \in Nat /\ ofFile \in SUBSET (1..Len(repo.files))
    BY LenProperties DEF Tables
  <2> HIDE DEF ofFile
  <2> QED BY <2>1, PickOne
<1> HIDE DEF t, dirs, files, ofDir, ofFile, same
<1>11. FoundFile(k) # {} <=> B # {}
  BY <1>9, <1>10
<1>12. CASE B = {}
  <2>1. same = A
    BY <1>5, <1>12
  <2> QED BY <1>7, <1>8, <1>9, <1>11, <1>12, <2>1 DEF t
<1>13. CASE B # {}
  BY <1>7, <1>8, <1>9, <1>11, <1>13 DEF t
<1> QED BY <1>12, <1>13

\* A block as the planner's model has it, and as a repository finds it.
BlockOf(b) ==
  [file |-> FilePath(repo)[b[1]], offset |-> b[2] * BlockSize, bytes |-> Sums(repo.files)[b]]

PlaceOf(b) == [file |-> b[1], position |-> b[2]]

\* Of several blocks a MemRepo finds the last, and a DbRepo the first.
Preferred(b, c) == IF in.repo = "mem" THEN Later(b, c) ELSE Later(c, b)

PickedBlock(found, T) ==
  IF T = {} THEN found = {}
  ELSE \E b \in T : found = {PlaceOf(b)} /\ \A c \in T : c = b \/ Preferred(b, c)

\* The blocks that have a checksum, and what a map has under it.
With(keys, k) == {b \in DOMAIN keys : keys[b] = k}
AtKey(map, k) == IF k \in DOMAIN map THEN {map[k]} ELSE {}

LEMMA LastBlockPicked ==
  ASSUME in.repo = "mem", NEW map, NEW keys, LastBlock(map, keys), NEW k
  PROVE  PickedBlock(AtKey(map, k), With(keys, k))
<1> DEFINE T == {b \in DOMAIN keys : keys[b] = k}
           found == IF k \in DOMAIN map THEN {map[k]} ELSE {}
<1>1. CASE k \in DOMAIN map
  <2>1. PICK b \in DOMAIN keys :
          /\ keys[b] = k /\ map[k] = PlaceOf(b)
          /\ \A c \in DOMAIN keys : keys[c] = k => c = b \/ Later(b, c)
    BY <1>1 DEF LastBlock, PlaceOf
  <2>2. b \in T /\ found = {PlaceOf(b)} /\ \A c \in T : c = b \/ Preferred(b, c)
    BY <1>1, <2>1 DEF Preferred
  <2> HIDE DEF T, found
  <2>3. PickedBlock(found, T)
    BY <2>2 DEF PickedBlock
  <2> QED BY <2>3 DEF T, found, With, AtKey
<1>2. CASE k \notin DOMAIN map
  <2>1. T = {} /\ found = {}
    BY <1>2 DEF LastBlock
  <2> HIDE DEF T, found
  <2>2. PickedBlock(found, T)
    BY <2>1 DEF PickedBlock
  <2> QED BY <2>2 DEF T, found, With, AtKey
<1> QED BY <1>1, <1>2

\* Where the block of a row is.
AtRow(rows, j) == <<rows[j].parent, rows[j].position>>

LEMMA FirstBlockPicked ==
  ASSUME in.repo # "mem", NEW keys, BlockRows(repo.blocks, keys),
         NEW S \in SUBSET (DOMAIN repo.blocks)
  PROVE  PickedBlock(DbBlockRow(repo, S), {AtRow(repo.blocks, j) : j \in S})
<1> DEFINE rows  == repo.blocks
           at(j) == AtRow(rows, j)
           T     == {at(j) : j \in S}
           found == DbBlockRow(repo, S)
<1>1. found = {PlaceOf(at(i)) : i \in First(S)}
  BY DEF DbBlockRow, AtRow, PlaceOf
<1>2. CASE S = {}
  <2>1. T = {} /\ found = {}
    BY <1>1, <1>2 DEF First
  <2> HIDE DEF T, found
  <2>2. PickedBlock(found, T)
    BY <2>1 DEF PickedBlock
  <2> QED BY <2>2 DEF T, found, at, rows
<1>3. CASE S # {}
  <2>1. S \in SUBSET Nat
    BY LenProperties DEF BlockRows
  <2>2. PICK i \in S : \A j \in S : i <= j
    BY <1>3, <2>1, LeastNumber
  <2>3. First(S) = {i}
    <3>1. \A j \in S : j \in Nat /\ i \in Nat
      BY <2>1
    <3>2. ASSUME NEW j \in S, \A l \in S : j <= l  PROVE j = i
      <4>1. j <= i /\ i <= j /\ i \in Nat /\ j \in Nat
        BY <2>2, <3>1, <3>2
      <4> QED BY <4>1
    <3> QED BY <2>2, <3>2 DEF First
  <2>4. \A j \in S : j = i \/ Later(at(j), at(i))
    <3>1. \A j \in S : j = i \/ i < j
      BY <2>1, <2>2
    <3> QED BY <3>1 DEF BlockRows, AtRow
  <2>5. found = {PlaceOf(at(i))}
    BY <1>1, <2>3
  <2>6. at(i) \in T /\ \A c \in T : c = at(i) \/ Preferred(at(i), c)
    <3> HIDE DEF at
    <3> QED BY <2>4 DEF Preferred
  <2> HIDE DEF T, found
  <2>7. PickedBlock(found, T)
    BY <2>5, <2>6 DEF PickedBlock
  <2> QED BY <2>7 DEF T, found, at, rows
<1> QED BY <1>2, <1>3

\* The blocks with a weak or a strong checksum of which a repository finds one.
WeakFound(k)   == IF in.repo = "mem" THEN MemWeakBlock(repo, k) ELSE DbWeakBlock(repo, k)
StrongFound(k) == IF in.repo = "mem" THEN MemBlock(repo, k) ELSE DbBlock(repo, k)

WithWeak(k)   == With(Weaks(repo.files), k)
WithStrong(k) == With(Sums(repo.files), k)

LEMMA BlocksPicked ==
  ASSUME FilesKept, NEW k
  PROVE  PickedBlock(WeakFound(k), WithWeak(k)) /\ PickedBlock(StrongFound(k), WithStrong(k))
<1> DEFINE sums  == Sums(repo.files)
           weaks == Weaks(repo.files)
<1>1. DOMAIN sums = BlockNodes(repo.files) /\ DOMAIN weaks = BlockNodes(repo.files)
      /\ \A b \in DOMAIN sums : weaks[b] = Weak(sums[b])
  BY DEF Sums, Weaks
<1>2. WithWeak(k) = {b \in DOMAIN weaks : weaks[b] = k}
      /\ WithStrong(k) = {b \in DOMAIN sums : sums[b] = k}
  BY <1>1 DEF WithWeak, WithStrong, With
<1> HIDE DEF sums, weaks
<1>3. CASE in.repo = "mem"
  <2>1. LastBlock(repo.blockOf, sums) /\ LastBlock(repo.weakOf, weaks)
    BY <1>3 DEF FilesKept, sums, weaks
  <2>2. WithWeak(k) = With(weaks, k) /\ WithStrong(k) = With(sums, k)
    BY <1>2 DEF With
  <2>3. PickedBlock(AtKey(repo.weakOf, k), WithWeak(k))
    BY <1>3, <2>1, <2>2, LastBlockPicked
  <2>4. PickedBlock(AtKey(repo.blockOf, k), WithStrong(k))
    BY <1>3, <2>1, <2>2, LastBlockPicked
  <2>5. WeakFound(k) = AtKey(repo.weakOf, k) /\ StrongFound(k) = AtKey(repo.blockOf, k)
    BY <1>3 DEF WeakFound, StrongFound, MemWeakBlock, MemBlock, AtKey
  <2> QED BY <2>3, <2>4, <2>5
<1>4. CASE in.repo # "mem"
  <2> DEFINE rows   == repo.blocks
             at(j)  == AtRow(rows, j)
             weak   == {j \in DOMAIN rows : Weak(rows[j].bytes) = k}
             strong == {j \in DOMAIN rows : rows[j].bytes = k}
  <2>1. BlockRows(rows, sums)
    BY <1>4 DEF FilesKept, sums
  <2>2. /\ \A j \in DOMAIN rows : at(j) \in DOMAIN sums /\ rows[j].bytes = sums[at(j)]
        /\ \A b \in DOMAIN sums : \E j \in DOMAIN rows : b = at(j)
    BY <2>1 DEF BlockRows, AtRow
  <2>3. WithStrong(k) = {at(j) : j \in strong}
    <3> HIDE DEF at
    <3> QED BY <1>2, <2>2
  <2>4. WithWeak(k) = {at(j) : j \in weak}
    <3> HIDE DEF at
    <3>1. \A j \in DOMAIN rows : weaks[at(j)] = Weak(rows[j].bytes)
      BY <1>1, <2>2
    <3> QED BY <1>1, <1>2, <2>2, <3>1
  <2>5. strong \in SUBSET (DOMAIN rows) /\ weak \in SUBSET (DOMAIN rows)
    OBVIOUS
  <2>6. PickedBlock(DbBlockRow(repo, weak), {AtRow(repo.blocks, j) : j \in weak})
    <3> HIDE DEF weak
    <3> QED BY <1>4, <2>1, <2>5, FirstBlockPicked
  <2>7. PickedBlock(DbBlockRow(repo, strong), {AtRow(repo.blocks, j) : j \in strong})
    <3> HIDE DEF strong
    <3> QED BY <1>4, <2>1, <2>5, FirstBlockPicked
  <2>8. WeakFound(k) = DbBlockRow(repo, weak) /\ StrongFound(k) = DbBlockRow(repo, strong)
    BY <1>4 DEF WeakFound, StrongFound, DbWeakBlock, DbBlock
  <2> HIDE DEF weak, strong
  <2> QED BY <2>3, <2>4, <2>6, <2>7, <2>8
<1> QED BY <1>3, <1>4

\* The multiples of BlockSize, in their order.
LEMMA TimesBlockSize ==
  ASSUME NEW i \in Nat, NEW j \in Nat
  PROVE  /\ i * BlockSize < j * BlockSize <=> i < j
         /\ i * BlockSize = j * BlockSize <=> i = j
<1> DEFINE B == BlockSize
<1>1. B \in Int /\ B > 0
  BY BlockSizeAssumption
<1> HIDE DEF B
<1>2. ASSUME NEW k \in Nat, NEW l \in Nat, k < l  PROVE k * B < l * B
  <2>1. (k + 1) * B <= l * B
    BY <1>1, <1>2
  <2>2. (k + 1) * B = k * B + B /\ k * B \in Int /\ l * B \in Int
    BY <1>1
  <2> QED BY <1>1, <2>1, <2>2
<1>3. i * B \in Int /\ j * B \in Int
  BY <1>1
<1>4. /\ i < j => i * B < j * B
      /\ j < i => j * B < i * B
  BY <1>2
<1>5. i < j \/ i = j \/ j < i
  OBVIOUS
<1>6. /\ i * B < j * B <=> i < j
      /\ i * B = j * B <=> i = j
  <2> DEFINE x == i * B
             y == j * B
  <2>1. x \in Int /\ y \in Int /\ (i < j => x < y) /\ (j < i => y < x) /\ (i = j => x = y)
    BY <1>3, <1>4
  <2> HIDE DEF x, y
  <2>2. (x < y <=> i < j) /\ (x = y <=> i = j)
    BY <1>5, <2>1
  <2> QED BY <2>2 DEF x, y
<1> QED BY <1>6 DEF B

LEMMA MultiplesBelow ==
  ASSUME NEW n \in Nat
  PROVE  {x \in 0..(n - 1) : x % BlockSize = 0}
           = {i * BlockSize : i \in {j \in Nat : j * BlockSize <= n - 1}}
<1> DEFINE B == BlockSize
<1>1. B \in Int /\ B > 0
  BY BlockSizeAssumption
<1> HIDE DEF B
<1>2. ASSUME NEW x \in 0..(n - 1), x % B = 0
      PROVE  \E i \in Nat : x = i * B
  <2>1. x = B * (x \div B) + (x % B) /\ x \div B \in Int
    BY <1>1, Z3
  <2> DEFINE q == x \div B
  <2>2. q \in Int /\ x = q * B /\ x >= 0
    BY <1>1, <1>2, <2>1
  <2> HIDE DEF q
  <2>3. q >= 0
    <3> SUFFICES ASSUME q <= -1  PROVE FALSE
      BY <2>2
    <3>1. q * B <= (-1) * B
      BY <1>1, <2>2
    <3> QED BY <1>1, <2>2, <3>1
  <2> QED BY <2>2, <2>3
<1>3. ASSUME NEW i \in Nat, i * B <= n - 1
      PROVE  i * B \in 0..(n - 1) /\ (i * B) % B = 0
  <2>1. i * B \in Int /\ i * B >= 0
    BY <1>1
  <2>2. (i * B) % B = 0
    BY <1>1
  <2> QED BY <1>3, <2>1, <2>2
<1>4. {x \in 0..(n - 1) : x % B = 0} = {i * B : i \in {j \in Nat : j * B <= n - 1}}
  BY <1>2, <1>3
<1> QED BY <1>4 DEF B

\* The files of the tree that the nodes make.
LEMMA FilesOfTree ==
  ASSUME Tables, Places, IsInput(in)
  PROVE  LET t     == TreeOf(repo)
             files == FilePath(repo)
         IN  /\ Range(files) = {q \in Under(t, <<>>) : IsFile(t, q)}
             /\ DOMAIN files = DOMAIN repo.files
             /\ \A f \in DOMAIN repo.files : /\ t[files[f]] = repo.files[f].contents
                                             /\ Len(repo.files[f].contents) \in Nat
<1> DEFINE t     == TreeOf(repo)
           dirs  == DirPath(repo)
           files == FilePath(repo)
           F     == DOMAIN repo.files
<1>1. TreeOf(repo) = [p \in Indexed |-> in.tree[p]] /\ Indexed \subseteq DOMAIN in.tree
      /\ DOMAIN in.tree \subseteq Path /\ IsTree(in.tree)
  BY NodesMakeTree, IndexedFacts, InputFacts DEF IsInput
<1>2. DOMAIN t = Indexed /\ \A q \in Indexed : t[q] = in.tree[q]
  BY <1>1
<1>3. Under(t, <<>>) = Indexed
  BY <1>1, <1>2, TopBelow DEF Under
<1>4. DOMAIN files = F /\ \A f \in F : /\ files[f] \in DOMAIN in.tree /\ NodeOf(f, files[f])
                                       /\ IsFile(in.tree, files[f])
  BY FilePaths
<1>5. \A d \in DOMAIN repo.dirs : DirAt(d, dirs[d])
  BY DirPaths
<1>6. \A q \in DOMAIN in.tree : q \in Indexed <=> \/ \E d \in DOMAIN repo.dirs : dirs[d] = q
                                                  \/ \E f \in F : files[f] = q
  BY EntriesFound
<1> HIDE DEF t, files, dirs
<1>7. \A q \in Indexed : IsFile(t, q) <=> in.tree[q] # Dir
  BY <1>2 DEF IsFile, Exists
<1>8. \A f \in F : files[f] \in Indexed /\ in.tree[files[f]] # Dir
  BY <1>4, <1>6 DEF IsFile
<1>9. \A d \in DOMAIN repo.dirs : in.tree[dirs[d]] = Dir
  BY <1>5 DEF DirAt, IsDir
<1>10. Range(files) = {files[f] : f \in F}
  BY <1>4 DEF Range
<1>11. Range(files) = {q \in Under(t, <<>>) : IsFile(t, q)}
  BY <1>1, <1>3, <1>6, <1>7, <1>8, <1>9, <1>10
<1>12. ASSUME NEW f \in F
       PROVE  t[files[f]] = repo.files[f].contents /\ Len(repo.files[f].contents) \in Nat
  <2>1. t[files[f]] = in.tree[files[f]] /\ repo.files[f].contents = in.tree[files[f]]
    BY <1>2, <1>4, <1>8 DEF NodeOf
  <2>2. in.tree[files[f]] \in Seq(Byte)
    BY <1>1, <1>4, <1>8 DEF IsTree, Entry
  <2> QED BY <2>1, <2>2, LenProperties
<1> QED BY <1>4, <1>11, <1>12 DEF t, files

\* The blocks of the planner's model are those of the files, ...
LEMMA BlocksOfRows ==
  ASSUME Tables, Places, IsInput(in)
  PROVE  Blocks(TreeOf(repo), <<>>) = {BlockOf(b) : b \in BlockNodes(repo.files)}
<1> DEFINE t     == TreeOf(repo)
           files == FilePath(repo)
           F     == DOMAIN repo.files
           c(f)  == repo.files[f].contents
           cut(p, o) == [file |-> p, offset |-> o, bytes |-> Slice(t[p], o, BlockSize)]
           starts(p) == {n \in 0..(Len(t[p]) - 1) : n % BlockSize = 0}
           nodes == BlockNodes(repo.files)
<1>1. Range(files) = {q \in Under(t, <<>>) : IsFile(t, q)}
      /\ DOMAIN files = F /\ \A f \in F : t[files[f]] = c(f) /\ Len(c(f)) \in Nat
  BY FilesOfTree
<1> HIDE DEF t, files
<1>2. Blocks(t, <<>>) = UNION {{cut(p, o) : o \in starts(p)} : p \in Range(files)}
  BY <1>1 DEF Blocks
<1>3. Range(files) = {files[f] : f \in F}
  BY <1>1 DEF Range
<1>4. ASSUME NEW f \in F
      PROVE  /\ starts(files[f]) = {i * BlockSize : i \in {j \in Nat : <<f, j>> \in nodes}}
             /\ \A i \in Nat : <<f, i>> \in nodes =>
                  cut(files[f], i * BlockSize) = BlockOf(<<f, i>>)
  <2> DEFINE n == Len(c(f))
  <2>1. PICK m \in Nat :
          /\ DOMAIN FileBlocks(c(f)) = 1..m
          /\ \A i \in Nat : i + 1 \in 1..m <=> i * BlockSize <= n - 1
          /\ \A i \in 1..m : FileBlocks(c(f))[i] = Slice(c(f), (i - 1) * BlockSize, BlockSize)
    BY <1>1, FileIsCut
  <2>2. \A i \in Nat : <<f, i>> \in nodes <=> i * BlockSize <= n - 1
    BY <2>1 DEF BlockNodes
  <2>3. starts(files[f]) = {i * BlockSize : i \in {j \in Nat : j * BlockSize <= n - 1}}
    <3>1. starts(files[f]) = {x \in 0..(n - 1) : x % BlockSize = 0}
      BY <1>1
    <3>2. n \in Nat
      BY <1>1
    <3> HIDE DEF n
    <3> QED BY <3>1, <3>2, MultiplesBelow
  <2>4. ASSUME NEW i \in Nat, <<f, i>> \in nodes
        PROVE  cut(files[f], i * BlockSize) = BlockOf(<<f, i>>)
    <3>1. i + 1 \in 1..m /\ (i + 1) - 1 = i
      BY <2>1, <2>2, <2>4
    <3>2. Sums(repo.files)[<<f, i>>] = FileBlocks(c(f))[i + 1]
      BY <2>4 DEF Sums
    <3>3. FileBlocks(c(f))[i + 1] = Slice(c(f), i * BlockSize, BlockSize)
      BY <2>1, <3>1
    <3> QED BY <1>1, <3>2, <3>3 DEF BlockOf, files
  <2> HIDE DEF starts, cut, nodes, n
  <2> QED BY <2>2, <2>3, <2>4
<1>5. \A b \in nodes : b = <<b[1], b[2]>> /\ b[1] \in F /\ b[2] \in Nat
  BY DEF BlockNodes
<1> HIDE DEF cut, starts, nodes
<1>6. ASSUME NEW x \in Blocks(t, <<>>)  PROVE \E b \in nodes : x = BlockOf(b)
  <2> PICK f \in F : x \in {cut(files[f], o) : o \in starts(files[f])}
    BY <1>2, <1>3, <1>6
  <2>1. PICK o \in starts(files[f]) : x = cut(files[f], o)
    OBVIOUS
  <2>2. PICK i \in Nat : o = i * BlockSize /\ <<f, i>> \in nodes
    BY <1>4, <2>1
  <2> QED BY <1>4, <2>1, <2>2
<1>7. ASSUME NEW b \in nodes  PROVE BlockOf(b) \in Blocks(t, <<>>)
  <2> PICK f \in F, i \in Nat : b = <<f, i>>
    BY <1>5, <1>7
  <2>1. i * BlockSize \in starts(files[f]) /\ BlockOf(b) = cut(files[f], i * BlockSize)
    BY <1>4, <1>7
  <2> QED BY <1>2, <1>3, <2>1
<1> QED BY <1>6, <1>7 DEF t, nodes

\* ... and they are added in the order of their files and places.
LEMMA BlockOrder ==
  ASSUME Tables, Places, InOrder, IsInput(in),
         NEW b \in BlockNodes(repo.files), NEW c \in BlockNodes(repo.files)
  PROVE  /\ BlockAddedBefore(BlockOf(b), BlockOf(c)) <=> Later(c, b)
         /\ BlockOf(b) = BlockOf(c) => b = c
         /\ ~(Later(b, c) /\ Later(c, b))
<1> DEFINE files == FilePath(repo)
<1>1. /\ b[1] \in DOMAIN repo.files /\ b[2] \in Nat /\ b = <<b[1], b[2]>>
      /\ c[1] \in DOMAIN repo.files /\ c[2] \in Nat /\ c = <<c[1], c[2]>>
      /\ DOMAIN repo.files \subseteq Int
  BY LenProperties DEF BlockNodes, Tables
<1>2. /\ b[1] < c[1] <=> AddedBefore(files[b[1]], files[c[1]])
      /\ files[b[1]] = files[c[1]] <=> b[1] = c[1]
  BY <1>1, RowOrder
<1>3. /\ b[2] * BlockSize < c[2] * BlockSize <=> b[2] < c[2]
      /\ b[2] * BlockSize = c[2] * BlockSize <=> b[2] = c[2]
  BY <1>1, TimesBlockSize
<1>4. /\ BlockOf(b).file = files[b[1]] /\ BlockOf(b).offset = b[2] * BlockSize
      /\ BlockOf(c).file = files[c[1]] /\ BlockOf(c).offset = c[2] * BlockSize
  BY DEF BlockOf
<1> HIDE DEF files
<1>5. BlockAddedBefore(BlockOf(b), BlockOf(c)) <=> Later(c, b)
  BY <1>1, <1>2, <1>3, <1>4 DEF BlockAddedBefore, Later
<1>6. BlockOf(b) = BlockOf(c) => b = c
  BY <1>1, <1>2, <1>3, <1>4
<1>7. ~(Later(b, c) /\ Later(c, b))
  BY <1>1 DEF Later
<1> QED BY <1>5, <1>6, <1>7

\* Where the file of a block is and the block begins; what the planner's model finds.
Start(b)        == [file |-> FilePath(repo)[b[1]], offset |-> b[2] * BlockSize]
StartsOf(found) == {[file |-> FilePath(repo)[b.file], offset |-> b.position * BlockSize] :
                      b \in found}
FoundBlocks(bs) == Found(in.repo, bs, BlockAddedBefore)

\* What the repository finds is where the planner's model finds it.
LEMMA BlockPlanned ==
  ASSUME Tables, Places, InOrder, IsInput(in), NEW T \in SUBSET BlockNodes(repo.files),
         NEW found, PickedBlock(found, T)
  PROVE  StartsOf(found) = {[file |-> c.file, offset |-> c.offset] :
                            c \in FoundBlocks({BlockOf(b) : b \in T})}
<1> DEFINE S == {BlockOf(b) : b \in T}
           picked == FoundBlocks(S)
<1>1. picked = {x \in S : \A y \in S \ {x} : IF in.repo = "mem" THEN BlockAddedBefore(y, x)
                                             ELSE BlockAddedBefore(x, y)}
  <2>1. CASE in.repo = "mem"
    BY <2>1 DEF FoundBlocks, Found, LastAdded
  <2>2. CASE in.repo # "mem"
    BY <2>2 DEF FoundBlocks, Found, FirstRow
  <2> QED BY <2>1, <2>2
<1>2. CASE T = {}
  <2>1. found = {} /\ picked = {}
    BY <1>1, <1>2 DEF PickedBlock
  <2> HIDE DEF picked
  <2> QED BY <2>1 DEF StartsOf, picked
<1>3. CASE T # {}
  <2>1. PICK b \in T : found = {PlaceOf(b)} /\ \A c \in T : c = b \/ Preferred(b, c)
    BY <1>3 DEF PickedBlock
  <2>2. \A c, d \in T : /\ BlockAddedBefore(BlockOf(c), BlockOf(d)) <=> Later(d, c)
                        /\ BlockOf(c) = BlockOf(d) => c = d
                        /\ ~(Later(c, d) /\ Later(d, c))
    BY BlockOrder
  <2>3. BlockOf(b) \in picked
    <3>1. BlockOf(b) \in S
      OBVIOUS
    <3>2. ASSUME NEW y \in S, y # BlockOf(b)
          PROVE  IF in.repo = "mem" THEN BlockAddedBefore(y, BlockOf(b))
                 ELSE BlockAddedBefore(BlockOf(b), y)
      <4> PICK c \in T : y = BlockOf(c)
        OBVIOUS
      <4> QED BY <2>1, <2>2, <3>2 DEF Preferred
    <3> HIDE DEF S, picked
    <3> QED BY <1>1, <3>1, <3>2
  <2>4. ASSUME NEW x \in picked  PROVE x = BlockOf(b)
    <3>1. PICK c \in T : x = BlockOf(c)
      BY <1>1
    <3>2. BlockOf(b) \in S
      OBVIOUS
    <3> HIDE DEF S, picked
    <3>3. x # BlockOf(b) => IF in.repo = "mem" THEN BlockAddedBefore(BlockOf(b), x)
                            ELSE BlockAddedBefore(x, BlockOf(b))
      BY <1>1, <3>2
    <3> QED BY <2>1, <2>2, <3>1, <3>3 DEF Preferred
  <2>5. picked = {BlockOf(b)}
    <3> HIDE DEF picked
    <3> QED BY <2>3, <2>4
  <2>6. StartsOf(found) = {Start(b)}
    BY <2>1 DEF StartsOf, PlaceOf, Start
  <2>7. [file |-> BlockOf(b).file, offset |-> BlockOf(b).offset] = Start(b)
    BY DEF BlockOf, Start
  <2> HIDE DEF picked
  <2> QED BY <2>5, <2>6, <2>7 DEF picked
<1> QED BY <1>2, <1>3

\* In a repository whose tables and maps are kept, every look-up is as planned.
LEMMA AllPlanned ==
  ASSUME Tables, Places, InOrder, IsInput(in), FilesKept, DirsKept, StrongsRight, Returned
  PROVE  LookupsAsPlanned
<1> DEFINE t == TreeOf(repo)
           planned(p) == StrongMatch(in.repo, t, <<>>, t, p)
           found(strong) ==
             IF FoundFile(strong) # {} THEN FoundFile(strong) ELSE FoundDir(strong)
           nodes == BlockNodes(repo.files)
           start(c) == [file |-> c.file, offset |-> c.offset]
<1>1. /\ \A d \in DOMAIN repo.dirs : found(repo.dirs[d].strong) = planned(DirPath(repo)[d])
      /\ \A f \in DOMAIN repo.files : found(repo.files[f].strong) = planned(FilePath(repo)[f])
  BY MatchPlanned
<1>2. Blocks(t, <<>>) = {BlockOf(b) : b \in nodes}
  BY BlocksOfRows
<1>3. /\ \A k : FoundBlock(k) = StartsOf(WeakFound(k))
      /\ \A k : FoundStrongBlock(k) = StartsOf(StrongFound(k))
  BY DEF FoundBlock, FoundStrongBlock, StartsOf, WeakFound, StrongFound
<1> HIDE DEF t
<1>4. \A b \in nodes : BlockOf(b).bytes = Sums(repo.files)[b]
  BY DEF BlockOf
<1>5. ASSUME NEW k
      PROVE  FoundBlock(k) = {start(c) : c \in WeakBlock(in.repo, t, <<>>, k)}
  <2>1. WithWeak(k) = {b \in nodes : Weak(BlockOf(b).bytes) = k}
    <3>1. DOMAIN Weaks(repo.files) = nodes
          /\ \A b \in nodes : Weaks(repo.files)[b] = Weak(Sums(repo.files)[b])
      BY DEF Weaks
    <3> HIDE DEF nodes
    <3> QED BY <1>4, <3>1 DEF WithWeak, With
  <2> DEFINE S == {b \in Blocks(t, <<>>) : Weak(b.bytes) = k}
  <2>2. S = {BlockOf(b) : b \in WithWeak(k)}
    <3> HIDE DEF nodes
    <3> QED BY <1>2, <2>1
  <2>3. WeakBlock(in.repo, t, <<>>, k) = FoundBlocks(S)
    BY DEF WeakBlock, FoundBlocks
  <2>4. PickedBlock(WeakFound(k), WithWeak(k)) /\ WithWeak(k) \in SUBSET nodes
    BY <2>1, BlocksPicked
  <2>5. StartsOf(WeakFound(k)) = {start(c) : c \in FoundBlocks({BlockOf(b) : b \in WithWeak(k)})}
    BY <2>4, BlockPlanned
  <2> HIDE DEF S
  <2> QED BY <1>3, <2>2, <2>3, <2>5
<1>6. ASSUME NEW b \in nodes
      PROVE  \E c \in nodes : /\ BlockOf(c).bytes = BlockOf(b).bytes
                              /\ FoundStrongBlock(BlockOf(b).bytes) = {start(BlockOf(c))}
  <2> DEFINE k == BlockOf(b).bytes
  <2>1. WithStrong(k) = {c \in nodes : BlockOf(c).bytes = k}
    <3>1. DOMAIN Sums(repo.files) = nodes
      BY DEF Sums
    <3> HIDE DEF nodes, k
    <3> QED BY <1>4, <3>1 DEF WithStrong, With
  <2>2. b \in WithStrong(k)
    BY <2>1
  <2>3. PickedBlock(StrongFound(k), WithStrong(k))
    BY BlocksPicked
  <2>4. PICK c \in WithStrong(k) : StrongFound(k) = {PlaceOf(c)}
    BY <2>2, <2>3 DEF PickedBlock
  <2>5. c \in nodes /\ BlockOf(c).bytes = k
    BY <2>1, <2>4
  <2>6. StartsOf({PlaceOf(c)}) = {start(BlockOf(c))}
    BY DEF StartsOf, PlaceOf, BlockOf
  <2> HIDE DEF start
  <2> QED BY <1>3, <2>4, <2>5, <2>6
<1>7. \A b \in Blocks(t, <<>>) :
        FoundBlock(Weak(b.bytes)) = {start(c) : c \in WeakBlock(in.repo, t, <<>>, Weak(b.bytes))}
  BY <1>5
<1>8. \A b \in Blocks(t, <<>>) : \E c \in Blocks(t, <<>>) :
        c.bytes = b.bytes /\ FoundStrongBlock(b.bytes) = {start(c)}
  <2> HIDE DEF start, nodes
  <2> QED BY <1>2, <1>6
<1> QED BY <1>1, <1>7, <1>8 DEF LookupsAsPlanned, t

\* When indexing has returned, File, Dir, WeakBlock and Block find what the planner's model
\* of a repository says, in memory the last of several equal nodes and in a database the
\* first: no map has lost a node to another's key or kept one under a checksum that is no
\* longer its own (repo.go:117-125, 143-163, dbrepo.go:121-223).
THEOREM LookupsAreAsPlanned == Spec => []LookupsAsPlanned
<1>1. /\ IInv /\ Places /\ InOrder /\ Summed /\ FilesKept /\ DoneInOrder /\ DirsKept
      /\ StrongsRight
      => LookupsAsPlanned
  <2>1. CASE Returned
    BY <2>1, AllPlanned DEF IInv, Walk
  <2>2. CASE ~Returned
    BY <2>2 DEF LookupsAsPlanned
  <2> QED BY <2>1, <2>2
<1> QED BY <1>1, KeptInv, ChecksumsMeanEquality, PTL

=============================================================================
