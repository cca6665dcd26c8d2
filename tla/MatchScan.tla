------------------------------ MODULE MatchScan ------------------------------
(***************************************************************************)
(* MatchFile of sync/match.go read by read, with the rolling checksum of   *)
(* fs/index.go: the sums a and b are those of machine integers, which wrap *)
(* and are updated as the window moves.  Module Patch takes the window     *)
(* from the file and its checksum from the window; here both are carried   *)
(* along, and shown to be the same.                                        *)
(***************************************************************************)
EXTENDS LocalStore

CONSTANTS
  Rank, BlockSize,   \* as in NodeRepo
  Worlds,            \* a single file to scan and a store to look in, as in Patch
  W,                 \* 2^w for integers of w bits
  Get(_, _)          \* WeakChecksum.Get, any function of the sums: b << 16 | a

ASSUME BlockSizeAssumption == BlockSize \in Nat \ {0}
ASSUME WidthAssumption     == W \in Nat \ {0} /\ Byte \subseteq 0..(W - 1)

VARIABLES
  world,       \* the files, constant
  dstOffset,   \* bytes read
  window,      \* the bytes under the window
  a, b,        \* dstWeak
  matches,     \* BlockMatches
  done

vars == <<world, dstOffset, window, a, b, matches, done>>

File == world.dst[world.dstRoot]

-----------------------------------------------------------------------------
(* WeakChecksum.                                                           *)

\* What the loop of Write adds up to.
Total(c) ==
  LET sum[n \in 0..Len(c)] == IF n = 0 THEN 0 ELSE sum[n - 1] + c[n]
  IN  sum[Len(c)]

\* In b, a byte counts once for itself and once for every byte that follows.
Weighted(buf) == [i \in 1..Len(buf) |-> (Len(buf) - i + 1) * buf[i]]

\* Write, after Reset.  An integer is taken modulo W, as residue.
WriteA(buf) == Total(buf) % W
WriteB(buf) == Total(Weighted(buf)) % W

\* IndexBlock: the weak checksum of a block in the index.
WeakOf(buf) == Get(WriteA(buf), WriteB(buf))

\* Roll, whose second line reads the a that the first has set.
RolledA(removed, new) == (a - (removed - new)) % W

\* Faulty variant: b is rolled with the old a.
RolledBFirst(removed, new) == (b - (removed * BlockSize - a)) % W

RolledB(removed, new) == (b - (removed * BlockSize - RolledA(removed, new))) % W

-----------------------------------------------------------------------------
(* MatchFile.                                                              *)

\* Where the window begins or, between two windows, where the next read will.
WindowStart == dstOffset - Len(window)

\* The scan of Patch that this one stands for.
Coarse == INSTANCE Patch WITH
  Weak      <- WeakOf,
  dst       <- world.dst,
  relocs    <- <<>>,
  pc        <- "match",
  todo      <- {},
  unmatched <- {},
  refs      <- <<>>,
  cmds      <- <<>>,
  scan      <- [file |-> world.srcRoot, at |-> WindowStart, matches |-> matches,
                start |-> 0, range |-> 1],
  next      <- 1,
  temp      <- <<>>

\* MatchFile is given the path of a file.
IsScanned(w) == Coarse!IsWorld(w) /\ w.dstRoot # <<>> /\ IsFile(w.dst, w.dstRoot)

ASSUME WorldsAssumption == \A w \in Worlds : IsScanned(w)

Init ==
  /\ world \in Worlds
  /\ dstOffset = 0 /\ window = <<>> /\ a = 0 /\ b = 0
  /\ matches = <<>> /\ done = FALSE

\* Faulty variant: reading nothing is not taken for the end.
ReadBlockForever ==
  /\ ~done /\ window = <<>>
  /\ window' = Slice(File, dstOffset, BlockSize)
  /\ dstOffset' = dstOffset + Len(window')
  /\ a' = WriteA(window') /\ b' = WriteB(window')
  /\ UNCHANGED <<world, matches, done>>

\* Read up to a block, and Reset and Write the checksum; nothing to read ends the scan.
ReadBlock ==
  /\ ~done /\ window = <<>>
  /\ window' = Slice(File, dstOffset, BlockSize)
  /\ dstOffset' = dstOffset + Len(window')
  /\ done' = (window' = <<>>)
  /\ IF done' THEN UNCHANGED <<a, b>> ELSE a' = WriteA(window') /\ b' = WriteB(window')
  /\ UNCHANGED <<world, matches>>

\* WeakBlock of the checksum as it is, and the strong checksum of the window.
Known ==
  {blk \in Coarse!WeakBlock(world.repo, world.src, world.srcRoot, Get(a, b)) :
     blk.bytes = window}

Recognise ==
  /\ window # <<>>
  /\ \E blk \in Known :
       matches' = Append(matches, [src |-> blk.offset, dst |-> WindowStart])
  /\ window' = <<>>
  /\ UNCHANGED <<world, dstOffset, a, b, done>>

\* Faulty variant: the first byte stays in the window.
AdvanceGrowing(byte) == Append(window, byte)

\* Faulty variant: the last byte is replaced.
AdvanceInPlace(byte) == [window EXCEPT ![Len(window)] = byte]

Advance(byte) == Append(Tail(window), byte)

Roll ==
  /\ ~done /\ window # <<>> /\ Known = {}
  /\ dstOffset < Len(File)
  /\ LET new == File[dstOffset + 1]
     IN  /\ a' = RolledA(Head(window), new) /\ b' = RolledB(Head(window), new)
         /\ window' = Advance(new)
  /\ dstOffset' = dstOffset + 1
  /\ UNCHANGED <<world, matches, done>>

\* Faulty variant: a window that is not a full block is not looked up.
EndOfFileShort ==
  /\ ~done /\ window # <<>>
  /\ Known = {} \/ Len(window) < BlockSize
  /\ dstOffset = Len(File)
  /\ done' = TRUE
  /\ UNCHANGED <<world, dstOffset, window, a, b, matches>>

\* No next byte: the rest of the file, a window, is unknown.
EndOfFile ==
  /\ ~done /\ window # <<>> /\ Known = {}
  /\ dstOffset = Len(File)
  /\ done' = TRUE
  /\ UNCHANGED <<world, dstOffset, window, a, b, matches>>

Next == ReadBlock \/ Recognise \/ Roll \/ EndOfFile

\* One goroutine, which waits for nothing.
Spec == Init /\ [][Next]_vars /\ WF_vars(Next)

-----------------------------------------------------------------------------

\* The variables keep their types; a and b are machine integers.
TypeOK ==
  /\ IsScanned(world)
  /\ dstOffset \in 0..Len(File)
  /\ window \in Seq(Byte) /\ Len(window) <= BlockSize
  /\ a \in 0..(W - 1) /\ b \in 0..(W - 1)
  /\ matches \in Seq([src : Nat, dst : Nat])
  /\ done \in BOOLEAN

\* However far it was rolled and whatever has wrapped, the checksum is the one a block with
\* the window's bytes has in the index (index.go:25-42): no match is missed for it.
RolledIsWritten == window # <<>> => a = WriteA(window) /\ b = WriteB(window)

\* The window is the part of the file that ends at the bytes read, and only the last one is
\* short (match.go:69-79, 107-112): Roll may take every window to be BlockSize long.
WindowInFile ==
  /\ window = Slice(File, WindowStart, Len(window))
  /\ window # <<>> /\ dstOffset < Len(File) => Len(window) = BlockSize

\* Read by read, the scan makes the steps of the scan in Patch and no other, ...
ScansAsPatch == [][Coarse!MatchBlock \/ Coarse!MatchRoll]_(Coarse!vars)

\* ... and ends where that one ends.
EndsAsPatch ==
  done => \/ Coarse!Window = <<>>
          \/ Coarse!WindowMatch = {} /\ WindowStart + BlockSize >= Len(File)

\* The scan ends.
Ends == <>done

=============================================================================
