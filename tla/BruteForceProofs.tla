-------------------------- MODULE BruteForceProofs --------------------------
(***************************************************************************)
(* The brute force pass: no block is lost however often a file is cut,     *)
(* extended and cut again, rejected headers stay marked, and the walk over *)
(* the ranges goes forward only after a file was recovered.                *)
(***************************************************************************)
EXTENDS BruteForce, SearchSpaceProofs

-----------------------------------------------------------------------------
(* The invariant                                                           *)

FileType == [stat : Stats \cup {NoStat}, start : Nat, open : BOOLEAN, check : BOOLEAN,
             loc : Seq(Fragment), size : Nat, err : Nat, top : Nat]

LevelType == [frag : Nat, tail : BOOLEAN, err : Nat, ok : Nat, extra : Nat,
              mode : {"fast", "split"}, i : Nat, at : Nat, skipped : Int,
              none : BOOLEAN]

GhostType == [owned : SUBSET Disk, marks : SUBSET Disk, unmarked : SUBSET Disk,
              spoilt : BOOLEAN, short : BOOLEAN, before : SUBSET Disk]

(* Every block is in one of five places.                                   *)
FivePlaces(owned, free, held, saved, gone) ==
    /\ owned \cup free \cup held \cup saved \cup gone = Disk
    /\ owned \cap (free \cup held \cup saved \cup gone) = {}
    /\ free \cap (held \cup saved \cup gone) = {}
    /\ held \cap (saved \cup gone) = {}
    /\ saved \cap gone = {}

(* The fragments go forward on the disk.                                   *)
InOrder(loc) == \A i, j \in DOMAIN loc : i < j => loc[i].end < loc[j].start

(* The list and the file in progress: the list is in order, no block is in *)
(* both, the file begins with its header and goes forward, unless it is    *)
(* spoilt, and its size counts its blocks.                                 *)
Held(s, f, g, saved, gone) ==
    /\ Space(s)
    /\ f \in FileType /\ Apart(f.loc)
    /\ g \in GhostType
    /\ FivePlaces(g.owned, BlocksOf(s.list), BlocksOf(f.loc), saved, gone)
    /\ f.open \/ f.loc # <<>> => f.stat # NoStat
    /\ f.loc # <<>> /\ ~g.spoilt => f.loc[1].start = f.start /\ InOrder(f.loc)
    /\ (f.loc # <<>> \/ f.open) /\ ~g.short => f.size = SizeOf(f.loc)

BfHeld == Held(space, file, ghost, out, lost)

(* The shapes, without those of the counters that only guards read.        *)
BfShape ==
    /\ whole \in Seq(Disk)
    /\ pc \in {"open", "scan", "finish", "level", "fill", "skip", "pad", "settle",
               "full", "next", "ahead", "done", "broken"}
    /\ prev \in Freed..Len(space.list)
    /\ levels \in Seq(LevelType)
    /\ lastEnd \in Int /\ nextFile \in Nat
    /\ counted \in BOOLEAN

Searching == {"level", "fill", "skip", "pad"}

(* Where a file is open, and where it has blocks.  Until its first block   *)
(* is taken a file is not open, and if it has none then, its kind is not   *)
(* written out, or an fopen failed.                                        *)
BfFile ==
    /\ pc \in Searching => file.open
    /\ pc = "open" => file = NoFile
    /\ pc \in {"open", "next", "ahead", "done"} => file.loc = <<>>
    /\ pc \in {"scan", "finish"} =>
          /\ file.top = file.size
          /\ ~ghost.short => file.size = SizeOf(file.loc)
          /\ file.loc = <<>> /\ file.stat # NoStat /\ ~ghost.spoilt
                => ~file.open /\ file.stat \in Unsaved

(* The innermost call of photorec_bf_frag, and the cell the search starts  *)
(* from.  Only a file with a block is split.                               *)
BfCalls ==
    /\ pc \in Searching => levels # <<>> /\ start \in Freed..Len(space.list)
    /\ \A i \in 1..Len(levels) : levels[i].skipped >= -2
    /\ pc = "skip" \/ (pc = "pad" /\ Here.mode = "split") => Here.at >= 1
    /\ pc = "fill" => Here.mode = "fast" /\ Here.i < Here.extra
    /\ pc \in Searching /\ file.loc = <<>> /\ ~ghost.spoilt
          => /\ pc = "level" /\ Len(levels) = 1
             /\ Here.mode = "split" /\ Here.at = 0

(* The position is on a block, and behind those that the file has.         *)
PlaceFor(loc, s) ==
    s.cur # ListHead => OnRange(s) /\ (loc # <<>> => Last(loc).end < s.offset)

(* Blocks are taken where the position is on one.                          *)
BfPlace ==
    /\ pc = "scan" => OnRange(space)
    /\ pc \in {"fill", "pad"} /\ space.cur # ListHead => OnRange(space)
    /\ pc \in {"scan", "fill", "pad"} /\ ~ghost.spoilt => PlaceFor(file.loc, space)

BfInv == BfHeld /\ BfShape /\ BfFile /\ BfCalls /\ BfPlace

MarkedAt(list, h) == \E i \in DOMAIN list : list[i].start = h /\ list[i].stat # NoStat

(* A header rejected before, but those in g.unmarked, is at the start of a *)
(* marked range, or of the file in progress.                               *)
Marked(list, loc, g) ==
    \A h \in g.marks \ g.unmarked :
        /\ h \in BlocksOf(list) => MarkedAt(list, h)
        /\ h \in BlocksOf(loc) => loc[1].start = h

MarksInv == Marked(space.list, file.loc, ghost)

(* A range after which the walk may go forward has brought a file.         *)
WalkInv ==
    /\ ghost.before \subseteq out
    /\ counted /\ ~ghost.short => out # ghost.before

-----------------------------------------------------------------------------
(* Recursive functions                                                     *)

(* The recursive functions of the pass are what their equations say.       *)
LEMMA SumsIs ==
    ASSUME NEW S, NEW loc \in Seq(S)
    PROVE  Sums(loc) = [i \in 0..Len(loc) |->
                IF i = 0 THEN 0 ELSE Sums(loc)[i - 1] + Size(loc[i])]
<1> DEFINE P(m, g) == g = [i \in 0..m |-> IF i = 0 THEN 0 ELSE g[i - 1] + Size(loc[i])]
           M == { m \in Nat : \E g : P(m, g) }
<1>1. 0 \in M
  <2>1. P(0, [i \in 0..0 |-> 0])
    OBVIOUS
  <2> QED
    BY <2>1
<1>2. ASSUME NEW m \in Nat, m \in M PROVE m + 1 \in M
  <2>1. PICK g : P(m, g)
    BY <1>2
  <2> DEFINE h == [i \in 0..(m + 1) |-> IF i <= m THEN g[i] ELSE g[m] + Size(loc[m + 1])]
  <2>2. ASSUME NEW i \in 0..(m + 1)
        PROVE  h[i] = IF i = 0 THEN 0 ELSE h[i - 1] + Size(loc[i])
    <3>1. CASE i = 0
      BY <3>1, <2>1
    <3>2. CASE i # 0 /\ i <= m
      <4>1. i \in 0..m /\ i - 1 \in 0..m /\ i - 1 <= m /\ i - 1 \in 0..(m + 1)
        BY <3>2
      <4>2. h[i] = g[i] /\ h[i - 1] = g[i - 1]
        BY <4>1
      <4>3. g[i] = g[i - 1] + Size(loc[i])
        BY <4>1, <3>2, <2>1
      <4> QED
        BY <4>2, <4>3, <3>2
    <3>3. CASE i = m + 1
      <4>1. h[i - 1] = g[m] /\ i # 0
        BY <3>3
      <4>2. h[i] = g[m] + Size(loc[i])
        BY <3>3
      <4> QED
        BY <4>1, <4>2
    <3> QED
      BY <3>1, <3>2, <3>3
  <2>3. h = [i \in 0..(m + 1) |-> h[i]]
    OBVIOUS
  <2> HIDE DEF h
  <2>4. P(m + 1, h)
    BY <2>2, <2>3
  <2> HIDE DEF P
  <2>5. m + 1 \in Nat
    OBVIOUS
  <2> QED
    BY <2>4, <2>5
<1>3. Len(loc) \in M
  <2> HIDE DEF M
  <2> QED
    BY <1>1, <1>2, CountUp, LenProperties, BruteForceAssumption
<1>4. \E g : P(Len(loc), g)
  BY <1>3
<1>5. Sums(loc) = CHOOSE g : P(Len(loc), g)
  BY DEF Sums
<1> HIDE DEF P
<1>6. P(Len(loc), Sums(loc))
  BY <1>4, <1>5
<1> QED
  BY <1>6 DEF P

(* What the space is after the first i fragments were given back.          *)
LEMMA ReturnsIs ==
    ASSUME NEW S, NEW loc \in Seq(S), NEW s, NEW size
    PROVE  Returns(s, loc, size) = [i \in 0..Len(loc) |->
                IF i = 0 THEN s
                ELSE GiveBack(Returns(s, loc, size)[i - 1],
                              loc[i].start + Kept(loc, size, i), loc[i].end)]
<1> DEFINE P(m, g) == g = [i \in 0..m |->
                           IF i = 0 THEN s
                           ELSE GiveBack(g[i - 1], loc[i].start + Kept(loc, size, i), loc[i].end)]
           M == { m \in Nat : \E g : P(m, g) }
<1>1. 0 \in M
  <2>1. P(0, [i \in 0..0 |-> s])
    OBVIOUS
  <2> QED
    BY <2>1
<1>2. ASSUME NEW m \in Nat, m \in M PROVE m + 1 \in M
  <2>1. PICK g : P(m, g)
    BY <1>2
  <2> DEFINE h == [i \in 0..(m + 1) |-> 
                     IF i <= m THEN g[i]
                     ELSE GiveBack(g[m], loc[m + 1].start + Kept(loc, size, m + 1), loc[m + 1].end)]
  <2>2. ASSUME NEW i \in 0..(m + 1)
        PROVE  h[i] = IF i = 0 THEN s
                       ELSE GiveBack(h[i - 1], loc[i].start + Kept(loc, size, i), loc[i].end)
    <3>1. CASE i = 0
      BY <3>1, <2>1
    <3>2. CASE i # 0 /\ i <= m
      <4>1. i \in 0..m /\ i - 1 \in 0..m /\ i - 1 <= m /\ i - 1 \in 0..(m + 1)
        BY <3>2
      <4>2. h[i] = g[i] /\ h[i - 1] = g[i - 1]
        BY <4>1
      <4>3. g[i] = GiveBack(g[i - 1], loc[i].start + Kept(loc, size, i), loc[i].end)
        BY <4>1, <3>2, <2>1
      <4> QED
        BY <4>2, <4>3, <3>2
    <3>3. CASE i = m + 1
      <4>1. h[i - 1] = g[m] /\ i # 0
        BY <3>3
      <4>2. h[i] = GiveBack(g[m], loc[i].start + Kept(loc, size, i), loc[i].end)
        BY <3>3
      <4> QED
        BY <4>1, <4>2
    <3> QED
      BY <3>1, <3>2, <3>3
  <2>3. h = [i \in 0..(m + 1) |-> h[i]]
    OBVIOUS
  <2> HIDE DEF h
  <2>4. P(m + 1, h)
    BY <2>2, <2>3
  <2> HIDE DEF P
  <2>5. m + 1 \in Nat
    OBVIOUS
  <2> QED
    BY <2>4, <2>5
<1>3. Len(loc) \in M
  <2> HIDE DEF M
  <2> QED
    BY <1>1, <1>2, CountUp, LenProperties, BruteForceAssumption
<1>4. \E g : P(Len(loc), g)
  BY <1>3
<1>5. Returns(s, loc, size) = CHOOSE g : P(Len(loc), g)
  BY DEF Returns
<1> HIDE DEF P
<1>6. P(Len(loc), Returns(s, loc, size))
  BY <1>4, <1>5
<1> QED
  BY <1>6 DEF P

(* What the space is after i sectors were passed.                          *)
LEMMA SectorsIs ==
    ASSUME NEW s, NEW n \in Nat
    PROVE  Sectors(s, n) = [i \in 0..n |->
                IF i = 0 THEN s ELSE GetNextSector(Sectors(s, n)[i - 1])]
<1> DEFINE P(m, g) == g = [i \in 0..m |-> IF i = 0 THEN s ELSE GetNextSector(g[i - 1])]
           M == { m \in Nat : \E g : P(m, g) }
<1>1. 0 \in M
  <2>1. P(0, [i \in 0..0 |-> s])
    OBVIOUS
  <2> QED
    BY <2>1
<1>2. ASSUME NEW m \in Nat, m \in M PROVE m + 1 \in M
  <2>1. PICK g : P(m, g)
    BY <1>2
  <2> DEFINE h == [i \in 0..(m + 1) |-> IF i <= m THEN g[i] ELSE GetNextSector(g[m])]
  <2>2. ASSUME NEW i \in 0..(m + 1)
        PROVE  h[i] = IF i = 0 THEN s ELSE GetNextSector(h[i - 1])
    <3>1. CASE i = 0
      BY <3>1, <2>1
    <3>2. CASE i # 0 /\ i <= m
      <4>1. i \in 0..m /\ i - 1 \in 0..m /\ i - 1 <= m /\ i - 1 \in 0..(m + 1)
        BY <3>2
      <4>2. h[i] = g[i] /\ h[i - 1] = g[i - 1]
        BY <4>1
      <4>3. g[i] = GetNextSector(g[i - 1])
        BY <4>1, <3>2, <2>1
      <4> QED
        BY <4>2, <4>3, <3>2
    <3>3. CASE i = m + 1
      <4>1. h[i - 1] = g[m] /\ i # 0
        BY <3>3
      <4>2. h[i] = GetNextSector(g[m])
        BY <3>3
      <4> QED
        BY <4>1, <4>2
    <3> QED
      BY <3>1, <3>2, <3>3
  <2>3. h = [i \in 0..(m + 1) |-> h[i]]
    OBVIOUS
  <2> HIDE DEF h
  <2>4. P(m + 1, h)
    BY <2>2, <2>3
  <2> HIDE DEF P
  <2>5. m + 1 \in Nat
    OBVIOUS
  <2> QED
    BY <2>4, <2>5
<1>3. n \in M
  <2> HIDE DEF M
  <2> QED
    BY <1>1, <1>2, CountUp, LenProperties, BruteForceAssumption
<1>4. \E g : P(n, g)
  BY <1>3
<1>5. Sectors(s, n) = CHOOSE g : P(n, g)
  BY DEF Sectors
<1> HIDE DEF P
<1>6. P(n, Sectors(s, n))
  BY <1>4, <1>5
<1> QED
  BY <1>6 DEF P

(* The lists of the free blocks before each block.                         *)
LEMMA RunsIs ==
    ASSUME NEW free, NEW marks, NEW kind
    PROVE  Runs(free, marks, kind) =
              [i \in 0..Blocks |->
                  IF i = 0 THEN <<>>
                  ELSE WithBlock(Runs(free, marks, kind)[i - 1], i - 1, free, marks, kind)]
<1> DEFINE P(m, g) == g = [i \in 0..m |->
                           IF i = 0 THEN <<>> ELSE WithBlock(g[i - 1], i - 1, free, marks, kind)]
           M == { m \in Nat : \E g : P(m, g) }
<1>1. 0 \in M
  <2>1. P(0, [i \in 0..0 |-> <<>>])
    OBVIOUS
  <2> QED
    BY <2>1
<1>2. ASSUME NEW m \in Nat, m \in M PROVE m + 1 \in M
  <2>1. PICK g : P(m, g)
    BY <1>2
  <2> DEFINE h == [i \in 0..(m + 1) |->
                     IF i <= m THEN g[i] ELSE WithBlock(g[m], (m + 1) - 1, free, marks, kind)]
  <2>2. ASSUME NEW i \in 0..(m + 1)
        PROVE  h[i] = IF i = 0 THEN <<>> ELSE WithBlock(h[i - 1], i - 1, free, marks, kind)
    <3>1. CASE i = 0
      BY <3>1, <2>1
    <3>2. CASE i # 0 /\ i <= m
      <4>1. i \in 0..m /\ i - 1 \in 0..m /\ i - 1 <= m /\ i - 1 \in 0..(m + 1)
        BY <3>2
      <4>2. h[i] = g[i] /\ h[i - 1] = g[i - 1]
        BY <4>1
      <4>3. g[i] = WithBlock(g[i - 1], i - 1, free, marks, kind)
        BY <4>1, <3>2, <2>1
      <4> QED
        BY <4>2, <4>3, <3>2
    <3>3. CASE i = m + 1
      <4>1. h[i - 1] = g[m] /\ i # 0
        BY <3>3
      <4>2. h[i] = WithBlock(g[m], i - 1, free, marks, kind)
        BY <3>3
      <4> QED
        BY <4>1, <4>2
    <3> QED
      BY <3>1, <3>2, <3>3
  <2>3. h = [i \in 0..(m + 1) |-> h[i]]
    OBVIOUS
  <2> HIDE DEF h
  <2>4. P(m + 1, h)
    BY <2>2, <2>3
  <2> HIDE DEF P
  <2>5. m + 1 \in Nat
    OBVIOUS
  <2> QED
    BY <2>4, <2>5
<1>3. Blocks \in M
  <2> HIDE DEF M
  <2> QED
    BY <1>1, <1>2, CountUp, LenProperties, BruteForceAssumption
<1>4. \E g : P(Blocks, g)
  BY <1>3
<1>5. Runs(free, marks, kind) = CHOOSE g : P(Blocks, g)
  BY DEF Runs
<1> HIDE DEF P
<1>6. P(Blocks, Runs(free, marks, kind))
  BY <1>4, <1>5
<1> QED
  BY <1>6 DEF P

-----------------------------------------------------------------------------
(* The size of a file and what is left when it is cut                      *)

(* The larger and the smaller of two numbers.                              *)
LEMMA OfTwo ==
    ASSUME NEW a \in Int, NEW b \in Int
    PROVE  /\ Max({a, b}) = IF a >= b THEN a ELSE b
           /\ Min({a, b}) = IF a <= b THEN a ELSE b
  BY DEF Max, Min

(* The sums over a file grow with each fragment.                           *)
LEMMA SumsOf ==
    ASSUME NEW loc \in Seq(Fragment), Apart(loc)
    PROVE  /\ Sums(loc)[0] = 0
           /\ \A i \in 0..Len(loc) : Sums(loc)[i] \in Nat
           /\ \A i \in 1..Len(loc) : /\ Sums(loc)[i] = Sums(loc)[i - 1] + Size(loc[i])
                                     /\ Size(loc[i]) \in Nat /\ Size(loc[i]) >= 1
           /\ \A i, j \in 0..Len(loc) : i < j => Sums(loc)[i] < Sums(loc)[j]
<1> DEFINE n == Len(loc)
           f == Sums(loc)
<1>1. n \in Nat /\ f = [i \in 0..n |-> IF i = 0 THEN 0 ELSE f[i - 1] + Size(loc[i])]
  BY FragmentCells, SumsIs
<1>2. \A i \in 1..n : Size(loc[i]) \in Nat /\ Size(loc[i]) >= 1
  BY FragmentCells DEF Apart, Size
<1> HIDE DEF f, n
<1>3. f[0] = 0 /\ \A i \in 1..n : f[i] = f[i - 1] + Size(loc[i])
  BY <1>1
<1>4. \A i \in 0..n : f[i] \in Nat
  <2> DEFINE M == { m \in Nat : m <= n => f[m] \in Nat }
  <2>1. 0 \in M
    BY <1>3
  <2>2. ASSUME NEW m \in Nat, m \in M PROVE m + 1 \in M
    <3> SUFFICES ASSUME m + 1 <= n PROVE f[m + 1] \in Nat
      OBVIOUS
    <3>1. m + 1 \in 1..n /\ (m + 1) - 1 = m /\ m <= n
      BY <1>1
    <3>2. f[m + 1] = f[m] + Size(loc[m + 1])
      BY <3>1, <1>3
    <3> QED
      BY <3>1, <3>2, <2>2, <1>2
  <2> HIDE DEF M
  <2>3. Nat \subseteq M
    BY <2>1, <2>2, CountUp
  <2> QED
    BY <2>3 DEF M
<1>5. \A j \in 0..n : \A i \in 0..n : i < j => f[i] < f[j]
  <2> DEFINE M == { m \in Nat : m <= n => \A i \in 0..n : i < m => f[i] < f[m] }
  <2>1. 0 \in M
    OBVIOUS
  <2>2. ASSUME NEW m \in Nat, m \in M PROVE m + 1 \in M
    <3> SUFFICES ASSUME m + 1 <= n, NEW i \in 0..n, i < m + 1 PROVE f[i] < f[m + 1]
      OBVIOUS
    <3>1. m + 1 \in 1..n /\ (m + 1) - 1 = m /\ m <= n /\ m \in 0..n
      BY <1>1
    <3>2. f[m + 1] = f[m] + Size(loc[m + 1])
      BY <3>1, <1>3
    <3>3. f[i] <= f[m]
      <4>1. CASE i = m
        BY <4>1, <3>1, <1>4
      <4>2. CASE i < m
        BY <4>2, <3>1, <2>2, <1>4
      <4> QED
        BY <4>1, <4>2
    <3>4. f[i] \in Nat /\ f[m] \in Nat
      BY <3>1, <1>4
    <3>5. Size(loc[m + 1]) \in Nat /\ Size(loc[m + 1]) >= 1
      BY <3>1, <1>2
    <3> QED
      BY <3>2, <3>3, <3>4, <3>5
  <2> HIDE DEF M
  <2>3. Nat \subseteq M
    BY <2>1, <2>2, CountUp
  <2> QED
    BY <2>3 DEF M
<1> QED
  BY <1>2, <1>3, <1>4, <1>5 DEF f, n

(* Files with the same sizes at the beginning have the same sums there.    *)
LEMMA SumsAgree ==
    ASSUME NEW loc \in Seq(Fragment), NEW other \in Seq(Fragment),
           NEW n \in Nat, n <= Len(loc), n <= Len(other),
           \A i \in 1..n : Size(loc[i]) = Size(other[i])
    PROVE  \A i \in 0..n : Sums(loc)[i] = Sums(other)[i]
<1> DEFINE f == Sums(loc)
           g == Sums(other)
<1>1. /\ Len(loc) \in Nat /\ Len(other) \in Nat
      /\ f = [i \in 0..Len(loc) |-> IF i = 0 THEN 0 ELSE f[i - 1] + Size(loc[i])]
      /\ g = [i \in 0..Len(other) |-> IF i = 0 THEN 0 ELSE g[i - 1] + Size(other[i])]
  BY FragmentCells, SumsIs
<1> HIDE DEF f, g
<1>2. /\ f[0] = 0 /\ \A i \in 1..Len(loc) : f[i] = f[i - 1] + Size(loc[i])
      /\ g[0] = 0 /\ \A i \in 1..Len(other) : g[i] = g[i - 1] + Size(other[i])
  <2>1. f[0] = 0 /\ \A i \in 1..Len(loc) : f[i] = f[i - 1] + Size(loc[i])
    BY <1>1
  <2>2. g[0] = 0 /\ \A i \in 1..Len(other) : g[i] = g[i - 1] + Size(other[i])
    BY <1>1
  <2> QED
    BY <2>1, <2>2
<1> DEFINE M == { m \in Nat : m <= n => f[m] = g[m] }
<1>3. 0 \in M
  BY <1>2
<1>4. ASSUME NEW m \in Nat, m \in M PROVE m + 1 \in M
  <2> SUFFICES ASSUME m + 1 <= n PROVE f[m + 1] = g[m + 1]
    OBVIOUS
  <2>1. /\ m + 1 \in 1..n /\ m + 1 \in 1..Len(loc) /\ m + 1 \in 1..Len(other)
        /\ (m + 1) - 1 = m /\ m <= n
    BY <1>1
  <2> QED
    BY <2>1, <1>2, <1>4
<1> HIDE DEF M
<1>5. Nat \subseteq M
  BY <1>3, <1>4, CountUp
<1> QED
  BY <1>5 DEF M, f, g

(* What fragment i keeps, and which fragments keep something.              *)
LEMMA KeptIs ==
    ASSUME NEW loc \in Seq(Fragment), Apart(loc), NEW size \in Nat,
           NEW i \in 1..Len(loc)
    PROVE  /\ Kept(loc, size, i) \in 0..Size(loc[i])
           /\ size <= Sums(loc)[i - 1] => Kept(loc, size, i) = 0
           /\ Sums(loc)[i] <= size => Kept(loc, size, i) = Size(loc[i])
           /\ Sums(loc)[i - 1] < size /\ size <= Sums(loc)[i]
                 => /\ Kept(loc, size, i) = size - Sums(loc)[i - 1]
                    /\ Kept(loc, size, i) >= 1
<1> DEFINE a == Size(loc[i])
           b == Sums(loc)[i - 1]
           c == Sums(loc)[i]
<1>1. Len(loc) \in Nat /\ i - 1 \in 0..Len(loc) /\ i \in 0..Len(loc)
  BY FragmentCells
<1>2. a \in Nat /\ a >= 1 /\ b \in Nat /\ c \in Nat /\ c = b + a
  BY <1>1, SumsOf
<1> DEFINE d == size - b
           m == Min({a, d})
<1>3. Kept(loc, size, i) = Max({0, m})
  BY DEF Kept
<1>4. d \in Int /\ d = size - b
  BY <1>2
<1> HIDE DEF a, b, c, d
<1>5. Min({a, d}) = IF a <= d THEN a ELSE d
  <2>1. a \in Int
    BY <1>2
  <2> QED
    BY <2>1, <1>4, OfTwo
<1>6. m \in Int
  BY <1>2, <1>4, <1>5
<1> HIDE DEF m
<1>7. Max({0, m}) = IF 0 >= m THEN 0 ELSE m
  BY <1>6, OfTwo
<1> DEFINE kept == Kept(loc, size, i)
<1>8. kept = IF 0 >= m THEN 0 ELSE m
  BY <1>3, <1>7
<1> HIDE DEF kept
<1>9. m = IF a <= d THEN a ELSE d
  BY <1>5 DEF m
<1>10. /\ kept \in 0..a
       /\ size <= b => kept = 0
       /\ c <= size => kept = a
       /\ b < size /\ size <= c => kept = size - b /\ kept >= 1
  BY <1>2, <1>4, <1>8, <1>9
<1> QED
  BY <1>10 DEF a, b, c, kept

(* The last fragment that keeps a block.                                   *)
LEMMA RemainingIs ==
    ASSUME NEW loc \in Seq(Fragment), Apart(loc), NEW size \in Nat
    PROVE  /\ Remaining(loc, size) \in 0..Len(loc)
           /\ \A i \in 1..Len(loc) : i <= Remaining(loc, size) <=> Sums(loc)[i - 1] < size
<1> DEFINE n == Len(loc)
           f == Sums(loc)
           I == {0} \cup { i \in 1..n : f[i - 1] < size }
           r == Max(I)
<1>1. n \in Nat /\ DOMAIN loc = 1..n
  BY FragmentCells
<1>2. Remaining(loc, size) = r
  BY <1>1 DEF Remaining
<1>3. I \subseteq 0..n /\ I # {}
  BY <1>1
<1>4. (\A i \in 0..n : f[i] \in Nat) /\ \A i, j \in 0..n : i < j => f[i] < f[j]
  BY SumsOf
<1> HIDE DEF f, n
<1>5. r \in I /\ \A j \in I : r >= j
  BY <1>1, <1>3, MaxOfCells
<1> HIDE DEF r
<1>6. r \in 0..n
  BY <1>5, <1>3
<1>7. ASSUME NEW i \in 1..n, i <= r PROVE f[i - 1] < size
  <2>1. r \in 1..n /\ f[r - 1] < size
    BY <1>5, <1>6, <1>7
  <2>2. CASE i = r
    BY <2>1, <2>2
  <2>3. CASE i < r
    <3>1. i - 1 \in 0..n /\ r - 1 \in 0..n /\ i - 1 < r - 1
      BY <1>1, <1>7, <2>1, <2>3
    <3> QED
      BY <3>1, <2>1, <1>4
  <2> QED
    BY <2>2, <2>3, <1>6, <1>7
<1>8. ASSUME NEW i \in 1..n, f[i - 1] < size PROVE i <= r
  <2>1. i \in I
    BY <1>8
  <2> QED
    BY <2>1, <1>5, <1>6
<1> QED
  BY <1>2, <1>6, <1>7, <1>8 DEF f, n

(* file_block_truncate leaves the first blocks of the file, in fragments   *)
(* that begin where they began.                                            *)
LEMMA TruncatedLocIs ==
    ASSUME NEW loc \in Seq(Fragment), Apart(loc), NEW size \in Nat
    PROVE  LET k == TruncatedLoc(loc, size)
               r == Remaining(loc, size)
           IN  /\ k \in Seq(Fragment) /\ Len(k) = r /\ r \in 0..Len(loc)
               /\ \A i \in 1..r : /\ k[i].start = loc[i].start
                                  /\ k[i].end = loc[i].start + Kept(loc, size, i) - 1
                                  /\ k[i].start <= k[i].end /\ k[i].end <= loc[i].end
               /\ Apart(k)
<1> DEFINE k == TruncatedLoc(loc, size)
           r == Remaining(loc, size)
           n == Len(loc)
           kept(i) == Kept(loc, size, i)
<1>1. /\ n \in Nat
      /\ \A i \in 1..n : /\ loc[i] \in Fragment
                         /\ loc[i].start \in Nat /\ loc[i].end \in Nat
                         /\ loc[i].data \in {0, 1}
  BY FragmentCells
<1>2. r \in 0..n /\ \A i \in 1..n : i <= r <=> Sums(loc)[i - 1] < size
  BY RemainingIs
<1>3. k = [i \in 1..r |-> [loc[i] EXCEPT !.end = loc[i].start + kept(i) - 1]]
  BY DEF TruncatedLoc
<1>4. /\ \A i \in 1..n : loc[i].start <= loc[i].end
      /\ \A i, j \in 1..n : i # j => Extent(loc[i]) \cap Extent(loc[j]) = {}
  BY DEF Apart
<1>5. ASSUME NEW i \in 1..r PROVE kept(i) \in 1..Size(loc[i]) /\ Size(loc[i]) \in Nat
  <2>1. i \in 1..n /\ i - 1 \in 0..n /\ i \in 0..n
    BY <1>1, <1>2
  <2>2. Sums(loc)[i - 1] < size
    BY <2>1, <1>2
  <2>3. /\ Sums(loc)[i - 1] \in Nat /\ Sums(loc)[i] \in Nat
        /\ Size(loc[i]) \in Nat /\ Size(loc[i]) >= 1
    BY <2>1, SumsOf
  <2>4. CASE Sums(loc)[i] <= size
    <3>1. kept(i) = Size(loc[i])
      BY <2>1, <2>4, KeptIs
    <3> QED
      BY <2>3, <3>1
  <2>5. CASE size <= Sums(loc)[i]
    <3>1. kept(i) \in 0..Size(loc[i]) /\ kept(i) >= 1
      BY <2>1, <2>2, <2>5, KeptIs
    <3> QED
      BY <3>1, <2>3
  <2> QED
    BY <2>3, <2>4, <2>5
<1> HIDE DEF k, kept, r, n
<1>6. ASSUME NEW i \in 1..r
      PROVE  /\ k[i] \in Fragment
             /\ k[i].start = loc[i].start
             /\ k[i].end = loc[i].start + kept(i) - 1
             /\ k[i].start <= k[i].end /\ k[i].end <= loc[i].end
  <2>1. i \in 1..n
    BY <1>1, <1>2
  <2>2. k[i] = [loc[i] EXCEPT !.end = loc[i].start + kept(i) - 1]
    BY <1>3
  <2>3. kept(i) \in Nat /\ 1 <= kept(i) /\ kept(i) <= loc[i].end - loc[i].start + 1
    BY <2>1, <1>1, <1>5 DEF Size
  <2>4. loc[i].start + kept(i) - 1 \in Nat
    BY <2>1, <2>3, <1>1
  <2>5. /\ k[i] \in Fragment
        /\ k[i].start = loc[i].start
        /\ k[i].end = loc[i].start + kept(i) - 1
    BY <2>1, <2>2, <2>4, <1>1 DEF Fragment
  <2> QED
    BY <2>1, <2>3, <2>5, <1>1
<1>7. k \in Seq(Fragment) /\ Len(k) = r
  <2>1. k \in [1..r -> Fragment]
    BY <1>3, <1>6
  <2> QED
    BY <2>1, <1>1, <1>2
<1>8. Apart(k)
  <2>1. ASSUME NEW i \in 1..r PROVE Extent(k[i]) \subseteq Extent(loc[i])
    <3>1. i \in 1..n
      BY <1>1, <1>2
    <3> QED
      BY <3>1, <1>1, <1>6 DEF Extent, Fragment
  <2>2. \A i \in 1..r : i \in 1..n
    BY <1>1, <1>2
  <2> QED
    BY <2>1, <2>2, <1>4, <1>6, <1>7 DEF Apart
<1> QED
  BY <1>2, <1>6, <1>7, <1>8 DEF k, r, kept, n

(* It is as long as it is cut to, if the file was that long.               *)
LEMMA TruncatedSize ==
    ASSUME NEW loc \in Seq(Fragment), Apart(loc), NEW size \in Nat
    PROVE  /\ SizeOf(loc) \in Nat
           /\ SizeOf(TruncatedLoc(loc, size)) =
                 IF size <= SizeOf(loc) THEN size ELSE SizeOf(loc)
           /\ size >= 1 /\ loc # <<>> => TruncatedLoc(loc, size) # <<>>
<1> DEFINE k == TruncatedLoc(loc, size)
           r == Remaining(loc, size)
           n == Len(loc)
           f == Sums(loc)
<1>1. /\ k \in Seq(Fragment) /\ Len(k) = r /\ r \in 0..n
      /\ \A i \in 1..r : /\ k[i].start = loc[i].start
                         /\ k[i].end = loc[i].start + Kept(loc, size, i) - 1
      /\ Apart(k)
  BY TruncatedLocIs
<1>2. /\ n \in Nat
      /\ \A i \in 1..n : loc[i].start \in Nat /\ loc[i].end \in Nat
  BY FragmentCells
<1>3. \A i \in 1..n : i <= r <=> f[i - 1] < size
  BY RemainingIs
<1>4. /\ f[0] = 0 /\ \A i \in 0..n : f[i] \in Nat
      /\ \A i \in 1..n : f[i] = f[i - 1] + Size(loc[i]) /\ Size(loc[i]) \in Nat
      /\ \A i, j \in 0..n : i < j => f[i] < f[j]
  BY SumsOf
<1>5. ASSUME NEW i \in 1..n
      PROVE  /\ Kept(loc, size, i) \in 0..Size(loc[i])
             /\ f[i] <= size => Kept(loc, size, i) = Size(loc[i])
             /\ f[i - 1] < size /\ size <= f[i]
                   => Kept(loc, size, i) = size - f[i - 1]
  BY KeptIs
<1>6. SizeOf(loc) = f[n] /\ SizeOf(k) = Sums(k)[r]
  BY <1>1 DEF SizeOf
<1>7. /\ Sums(k)[0] = 0
      /\ \A i \in 1..r : Sums(k)[i] = Sums(k)[i - 1] + Size(k[i])
  BY <1>1, SumsOf
<1>8. r >= 1 => \A i \in 0..(r - 1) : f[i] = Sums(k)[i]
  <2> SUFFICES ASSUME r >= 1 PROVE \A i \in 0..(r - 1) : f[i] = Sums(k)[i]
    OBVIOUS
  <2> DEFINE m == r - 1
  <2>1. m \in Nat /\ m <= n /\ m <= Len(k)
    BY <1>1, <1>2
  <2>2. ASSUME NEW i \in 1..m PROVE Size(loc[i]) = Size(k[i])
    <3>1. i \in 1..n /\ i \in 1..r /\ i + 1 \in 1..n /\ i + 1 <= r /\ (i + 1) - 1 = i
      BY <1>1, <1>2
    <3>2. f[i] < size /\ f[i] \in Nat
      BY <3>1, <1>2, <1>3, <1>4
    <3>3. Kept(loc, size, i) = Size(loc[i])
      BY <3>1, <3>2, <1>5
    <3> QED
      BY <3>1, <3>3, <1>1, <1>2 DEF Size
  <2> HIDE DEF m, k
  <2>3. \A i \in 0..m : Sums(loc)[i] = Sums(k)[i]
    BY <2>1, <2>2, <1>1, SumsAgree
  <2> QED
    BY <2>3 DEF m
<1> HIDE DEF k, r, n, f
<1>9. SizeOf(k) = IF size <= f[n] THEN size ELSE f[n]
  <2>1. CASE r = 0
    <3>1. CASE n = 0
      BY <3>1, <2>1, <1>4, <1>6, <1>7
    <3>2. CASE n # 0
      <4>1. 1 \in 1..n /\ 1 - 1 = 0
        BY <3>2, <1>2
      <4>2. ~(0 < size)
        BY <4>1, <2>1, <1>3, <1>4
      <4>3. f[n] \in Nat
        BY <1>2, <1>4
      <4> QED
        BY <4>2, <4>3, <2>1, <1>6, <1>7
    <3> QED
      BY <3>1, <3>2
  <2>2. CASE r # 0
    <3>1. r \in 1..n /\ r - 1 \in 0..(r - 1) /\ r \in 1..r /\ r - 1 \in 0..n /\ r \in 0..n
      BY <2>2, <1>1, <1>2
    <3>2. SizeOf(k) = f[r - 1] + Size(k[r])
      BY <3>1, <1>6, <1>7, <1>8
    <3>3. Size(k[r]) = Kept(loc, size, r)
      <4>1. k[r].start = loc[r].start /\ k[r].end = loc[r].start + Kept(loc, size, r) - 1
        BY <3>1, <1>1
      <4>2. Kept(loc, size, r) \in Int /\ loc[r].start \in Nat
        BY <3>1, <1>2, <1>4, <1>5
      <4> QED
        BY <4>1, <4>2 DEF Size
    <3>4. f[r - 1] < size
      BY <3>1, <1>3
    <3>5. f[r] = f[r - 1] + Size(loc[r]) /\ f[r] \in Nat /\ f[r - 1] \in Nat /\ f[n] \in Nat
      BY <3>1, <1>2, <1>4
    <3>6. f[r] <= f[n]
      <4>1. r \in 0..n /\ n \in 0..n /\ r <= n
        BY <3>1, <1>2
      <4> QED
        BY <4>1, <1>4
    <3>7. CASE size <= f[r]
      <4>1. Kept(loc, size, r) = size - f[r - 1]
        BY <3>1, <3>4, <3>7, <1>5
      <4> QED
        BY <4>1, <3>2, <3>3, <3>5, <3>6, <3>7
    <3>8. CASE ~(size <= f[r])
      <4>1. r = n
        <5> SUFFICES ASSUME r # n PROVE FALSE
          OBVIOUS
        <5>1. r + 1 \in 1..n /\ (r + 1) - 1 = r /\ ~(r + 1 <= r)
          BY <3>1, <1>2
        <5>2. ~(f[r] < size)
          BY <5>1, <1>3
        <5> QED
          BY <5>2, <3>5, <3>8
      <4>2. Kept(loc, size, r) = Size(loc[r])
        BY <3>1, <3>5, <3>8, <1>5
      <4> QED
        BY <4>1, <4>2, <3>2, <3>3, <3>5, <3>8
    <3> QED
      BY <3>7, <3>8
  <2> QED
    BY <2>1, <2>2
<1>10. ASSUME size >= 1, loc # <<>> PROVE k # <<>>
  <2>1. n # 0
    BY <1>10, EmptySeq DEF n
  <2>2. 1 \in 1..n /\ 1 - 1 = 0
    BY <2>1, <1>2
  <2>3. 1 <= r
    BY <2>2, <1>3, <1>4, <1>10
  <2> QED
    BY <2>3, <1>1, EmptySeq
<1>11. f[n] \in Nat
  BY <1>2, <1>4
<1> QED
  BY <1>6, <1>9, <1>10, <1>11 DEF k

(* What goes back is what the cut file does not have.                      *)
LEMMA TruncatedSpaceIs ==
    ASSUME NEW s, Space(s), NEW loc \in Seq(Fragment), Apart(loc), NEW size \in Nat,
           BlocksOf(s.list) \cap BlocksOf(loc) = {}
    PROVE  LET t == TruncatedSpace(s, loc, size)
               k == TruncatedLoc(loc, size)
           IN  /\ Space(t) /\ t.offset = s.offset
               /\ BlocksOf(k) \subseteq BlocksOf(loc)
               /\ BlocksOf(t.list) = BlocksOf(s.list) \cup (BlocksOf(loc) \ BlocksOf(k))
<1> DEFINE n == Len(loc)
           R == Returns(s, loc, size)
           kept(i) == Kept(loc, size, i)
           part(i) == (loc[i].start + kept(i)) .. loc[i].end
           Back(m) == UNION { part(i) : i \in 1..m }
           k == TruncatedLoc(loc, size)
           r == Remaining(loc, size)
<1>1. /\ n \in Nat
      /\ \A i \in 1..n : loc[i].start \in Nat /\ loc[i].end \in Nat
  BY FragmentCells
<1>2. /\ \A i \in 1..n : loc[i].start <= loc[i].end
      /\ \A i, j \in 1..n : i # j => Extent(loc[i]) \cap Extent(loc[j]) = {}
  BY DEF Apart
<1>3. R = [i \in 0..n |-> IF i = 0 THEN s
                           ELSE GiveBack(R[i - 1], loc[i].start + kept(i), loc[i].end)]
  BY ReturnsIs
<1>4. ASSUME NEW i \in 1..n
      PROVE  /\ kept(i) \in Nat /\ kept(i) <= loc[i].end - loc[i].start + 1
             /\ loc[i].start + kept(i) \in Nat
             /\ part(i) \subseteq Extent(loc[i])
  <2>1. kept(i) \in 0..Size(loc[i])
    BY KeptIs
  <2> HIDE DEF kept
  <2>2. kept(i) \in Nat /\ kept(i) <= loc[i].end - loc[i].start + 1
    BY <2>1, <1>1 DEF Size
  <2> QED
    BY <2>2, <1>1 DEF Extent
<1>5. \A b : b \in BlocksOf(loc) <=> \E i \in 1..n : b \in Extent(loc[i])
  BY BlockInCells
<1> HIDE DEF R, kept, n
<1>6. R[0] = s /\ \A i \in 1..n :
               R[i] = GiveBack(R[i - 1], loc[i].start + kept(i), loc[i].end)
  BY <1>1, <1>3
<1> DEFINE Good(m) == /\ Space(R[m]) /\ R[m].offset = s.offset
                      /\ BlocksOf(R[m].list) = BlocksOf(s.list) \cup Back(m)
           M == { m \in Nat : m <= n => Good(m) }
<1>7. 0 \in M
  <2>1. Back(0) = {}
    OBVIOUS
  <2> QED
    BY <2>1, <1>6
<1>8. ASSUME NEW m \in Nat, m \in M PROVE m + 1 \in M
  <2> SUFFICES ASSUME m + 1 <= n PROVE Good(m + 1)
    OBVIOUS
  <2>1. m + 1 \in 1..n /\ (m + 1) - 1 = m /\ m <= n /\ 1..(m + 1) = (1..m) \cup {m + 1}
    BY <1>1
  <2>2. Good(m)
    BY <2>1, <1>8
  <2> DEFINE P == part(m + 1)
  <2>3. Back(m + 1) = Back(m) \cup P
    <3> HIDE DEF part
    <3> QED
      BY <2>1
  <2>4. R[m + 1] = GiveBack(R[m], loc[m + 1].start + kept(m + 1), loc[m + 1].end)
    BY <2>1, <1>6
  <2>5. BlocksOf(R[m].list) \cap P = {}
    <3>1. P \subseteq Extent(loc[m + 1]) /\ P \subseteq BlocksOf(loc)
      BY <2>1, <1>4, <1>5
    <3>2. ASSUME NEW i \in 1..m PROVE part(i) \cap P = {}
      <4>1. i \in 1..n /\ i # m + 1
        BY <2>1, <1>1
      <4>2. part(i) \subseteq Extent(loc[i])
        BY <4>1, <1>4
      <4> HIDE DEF part, P
      <4> QED
        BY <4>1, <4>2, <3>1, <2>1, <1>2
    <3> HIDE DEF part, P
    <3>3. Back(m) \cap P = {}
      BY <3>2
    <3> HIDE DEF Back
    <3> QED
      BY <3>1, <3>3, <2>2
  <2>6. loc[m + 1].start + kept(m + 1) \in Nat /\ loc[m + 1].end \in Nat
    BY <2>1, <1>1, <1>4
  <2> DEFINE n1 == GiveBack(R[m], loc[m + 1].start + kept(m + 1), loc[m + 1].end)
  <2>7. /\ Space(n1) /\ n1.offset = R[m].offset
        /\ BlocksOf(n1.list) = BlocksOf(R[m].list) \cup P
    <3> DEFINE a == loc[m + 1].start + kept(m + 1)
               b == loc[m + 1].end
               q == R[m]
    <3>0. P = a .. b
      OBVIOUS
    <3>1. a \in Nat /\ b \in Nat /\ BlocksOf(q.list) \cap (a .. b) = {} /\ Space(q)
      BY <2>2, <2>5, <2>6
    <3> HIDE DEF a, b, q, P, Good, part, n1
    <3>2. /\ Space(GiveBack(q, a, b)) /\ GiveBack(q, a, b).offset = q.offset
          /\ BlocksOf(GiveBack(q, a, b).list) = BlocksOf(q.list) \cup (a .. b)
      BY <3>1, GiveBackCorrect
    <3> QED
      BY <3>0, <3>2 DEF a, b, q, n1
  <2> HIDE DEF n1, P, Back
  <2> QED
    BY <2>2, <2>3, <2>4, <2>7 DEF n1
<1> HIDE DEF M
<1>9. Nat \subseteq M
  BY <1>7, <1>8, CountUp
<1>10. Good(n)
  BY <1>1, <1>9 DEF M
<1>11. TruncatedSpace(s, loc, size) = R[n]
  BY DEF TruncatedSpace, R, n
<1>12. /\ k \in Seq(Fragment) /\ Len(k) = r /\ r \in 0..n
       /\ \A i \in 1..r : /\ k[i].start = loc[i].start
                          /\ k[i].end = loc[i].start + kept(i) - 1
  BY TruncatedLocIs DEF n, kept
<1>13. \A i \in 1..n : i <= r <=> Sums(loc)[i - 1] < size
  BY RemainingIs DEF n
<1>14. \A b : b \in BlocksOf(k) <=> \E i \in 1..r : b \in Extent(k[i])
  BY <1>12, BlockInCells
<1>15. ASSUME NEW i \in 1..n, ~(i <= r) PROVE kept(i) = 0
  <2>1. ~(Sums(loc)[i - 1] < size) /\ i - 1 \in 0..n
    BY <1>1, <1>13, <1>15
  <2>2. Sums(loc)[i - 1] \in Nat
    BY <2>1, SumsOf DEF n
  <2>3. size <= Sums(loc)[i - 1]
    BY <2>1, <2>2
  <2> QED
    BY <2>3, KeptIs DEF kept, n
<1> HIDE DEF k, r
<1>16. ASSUME NEW i \in 1..r
       PROVE  i \in 1..n /\ Extent(k[i]) = Extent(loc[i]) \ part(i)
                         /\ Extent(k[i]) \subseteq Extent(loc[i])
  <2>1. i \in 1..n
    BY <1>1, <1>12
  <2>2. k[i].start = loc[i].start /\ k[i].end = loc[i].start + kept(i) - 1
    BY <1>12
  <2> DEFINE a == loc[i].start
             b == loc[i].end
             c == kept(i)
  <2>3. a \in Nat /\ b \in Nat /\ c \in Nat /\ a <= b /\ c <= b - a + 1
    BY <2>1, <1>1, <1>2, <1>4
  <2> HIDE DEF a, b, c
  <2>4. a..(a + c - 1) = (a..b) \ ((a + c)..b) /\ a..(a + c - 1) \subseteq a..b
    BY <2>3
  <2> QED
    BY <2>1, <2>2, <2>4 DEF Extent, a, b, c
<1>17. ASSUME NEW i \in 1..n, ~(i <= r) PROVE part(i) = Extent(loc[i])
  BY <1>1, <1>15, <1>17 DEF Extent
<1> HIDE DEF part
<1>18. BlocksOf(k) \subseteq BlocksOf(loc)
  BY <1>5, <1>14, <1>16
<1>19. Back(n) = BlocksOf(loc) \ BlocksOf(k)
  <2>1. ASSUME NEW b \in Back(n) PROVE b \in BlocksOf(loc) /\ b \notin BlocksOf(k)
    <3>1. PICK i \in 1..n : b \in part(i)
      BY <2>1
    <3>2. b \in Extent(loc[i])
      BY <3>1, <1>4
    <3>3. ASSUME NEW j \in 1..r, b \in Extent(k[j]) PROVE FALSE
      <4>1. j \in 1..n /\ b \in Extent(loc[j]) /\ b \notin part(j)
        BY <3>3, <1>16
      <4> QED
        BY <4>1, <3>1, <3>2, <1>2
    <3> QED
      BY <3>2, <3>3, <1>5, <1>14
  <2>2. ASSUME NEW b \in BlocksOf(loc), b \notin BlocksOf(k) PROVE b \in Back(n)
    <3>1. PICK i \in 1..n : b \in Extent(loc[i])
      BY <1>5
    <3>2. b \in part(i)
      <4>1. CASE i <= r
        <5>1. i \in 1..r
          BY <4>1, <1>1, <1>12
        <5> QED
          BY <5>1, <3>1, <2>2, <1>14, <1>16
      <4>2. CASE ~(i <= r)
        BY <4>2, <3>1, <1>17
      <4> QED
        BY <4>1, <4>2
    <3> QED
      BY <3>2
  <2> QED
    BY <2>1, <2>2
<1> QED
  BY <1>10, <1>11, <1>18, <1>19 DEF k

(* The header of a rejected file and all behind it goes back.              *)
LEMMA RejectIs ==
    ASSUME NEW s, Space(s), NEW f, f.loc \in Seq(Fragment), Apart(f.loc),
           f.stat \in Stats \cup {NoStat}, BlocksOf(s.list) \cap BlocksOf(f.loc) = {}
    PROVE  /\ Space(Reject(s, f))
           /\ BlocksOf(Reject(s, f).list) = BlocksOf(s.list) \cup BlocksOf(f.loc)
<1> DEFINE loc == f.loc
           n == GiveBackHeader(s, loc[1].start, loc[1].end, f.stat)
<1>1. CASE loc = <<>>
  BY <1>1, NoCellsNoBlocks DEF Reject
<1>2. CASE loc # <<>>
  <2>1. /\ loc[1].start \in Nat /\ loc[1].end \in Nat
        /\ Tail(loc) \in Seq(Fragment) /\ Apart(Tail(loc))
        /\ BlocksOf(loc) = Extent(loc[1]) \cup BlocksOf(Tail(loc))
        /\ Extent(loc[1]) \cap BlocksOf(Tail(loc)) = {}
    BY <1>2, FirstAndRest
  <2> DEFINE B == loc[1].start .. loc[1].end
  <2>2. B = Extent(loc[1]) /\ BlocksOf(s.list) \cap B = {}
    BY <2>1 DEF Extent
  <2>3. Space(n) /\ BlocksOf(n.list) = BlocksOf(s.list) \cup B
    <3> DEFINE a == loc[1].start
               b == loc[1].end
               c == f.stat
    <3>1. a \in Nat /\ b \in Nat /\ c \in Stats \cup {NoStat}
            /\ BlocksOf(s.list) \cap (a .. b) = {}
      BY <2>1, <2>2
    <3> HIDE DEF a, b, c
    <3>2. /\ Space(GiveBackHeader(s, a, b, c))
          /\ BlocksOf(GiveBackHeader(s, a, b, c).list) = BlocksOf(s.list) \cup (a .. b)
      BY <3>1, GiveBackHeaderCorrect
    <3> QED
      BY <3>2 DEF a, b, c
  <2>4. Reject(s, f) = TruncatedSpace(n, Tail(loc), 0)
    BY <1>2 DEF Reject
  <2> HIDE DEF n, B, loc
  <2>5. BlocksOf(n.list) \cap BlocksOf(Tail(loc)) = {}
    BY <2>1, <2>2, <2>3 DEF loc
  <2> DEFINE t == TruncatedSpace(n, Tail(loc), 0)
             k == TruncatedLoc(Tail(loc), 0)
  <2>6. Space(t) /\ BlocksOf(t.list) = BlocksOf(n.list) \cup (BlocksOf(Tail(loc)) \ BlocksOf(k))
    BY <2>1, <2>3, <2>5, TruncatedSpaceIs
  <2>7. BlocksOf(k) = {}
    <3>1. /\ Len(k) = Remaining(Tail(loc), 0) /\ k \in Seq(Fragment)
          /\ Remaining(Tail(loc), 0) \in 0..Len(Tail(loc))
      BY <2>1, TruncatedLocIs
    <3>2. Len(k) = 0
      <4> SUFFICES ASSUME Remaining(Tail(loc), 0) # 0 PROVE FALSE
        BY <3>1
      <4> DEFINE i == Remaining(Tail(loc), 0)
      <4>1. Len(Tail(loc)) \in Nat
        BY <2>1, FragmentCells
      <4>2. i \in 1..Len(Tail(loc)) /\ i - 1 \in 0..Len(Tail(loc)) /\ i <= i
        BY <3>1, <4>1
      <4>3. Sums(Tail(loc))[i - 1] < 0 /\ Sums(Tail(loc))[i - 1] \in Nat
        BY <4>2, <2>1, RemainingIs, SumsOf
      <4> QED
        BY <4>3
    <3>3. k = <<>>
      BY <3>1, <3>2, EmptySeq
    <3> QED
      BY <3>3, NoCellsNoBlocks
  <2> QED
    BY <2>1, <2>2, <2>3, <2>4, <2>6, <2>7 DEF loc
<1> QED
  BY <1>1, <1>2

-----------------------------------------------------------------------------
(* Walking on                                                              *)

(* The position of n is off the list, or on a block not before o.          *)
NotBefore(n, o) == n.cur = ListHead \/ (OnRange(n) /\ o <= n.offset)

(* To the start of a range.                                                *)
LEMMA AtRange ==
    ASSUME NEW s, Space(s), NEW c \in 0..Len(s.list)
    PROVE  /\ Space(MoveTo(s, c)) /\ MoveTo(s, c).list = s.list
           /\ MoveTo(s, c).cur = c
           /\ c # ListHead => /\ OnRange(MoveTo(s, c))
                              /\ MoveTo(s, c).offset = s.list[c].start
<1>1. /\ s.list \in Lists /\ Ordered(s.list) /\ Len(s.list) \in Nat
      /\ DOMAIN s.list = 1..Len(s.list)
      /\ \A j \in 1..Len(s.list) : s.list[j].start \in Nat /\ s.list[j].end \in Nat
  BY CellsOfLists DEF Space
<1>2. StartOf(s.list, c) \in Nat
  BY <1>1 DEF StartOf, ListHead
<1>3. MoveTo(s, c) = Placed(s, c, StartOf(s.list, c))
  BY DEF MoveTo, Placed
<1>4. /\ Space(MoveTo(s, c)) /\ MoveTo(s, c).list = s.list /\ MoveTo(s, c).cur = c
      /\ MoveTo(s, c).offset = StartOf(s.list, c)
  BY <1>2, <1>3, Moved
<1>5. ASSUME c # ListHead PROVE s.list[c].start \in Extent(s.list[c])
  <2>1. c \in 1..Len(s.list)
    BY <1>1, <1>5 DEF ListHead
  <2> QED
    BY <2>1, <1>1 DEF Ordered, Extent
<1> QED
  BY <1>4, <1>5 DEF OnRange, StartOf

(* The range behind one begins behind its blocks.                          *)
LEMMA AtNextRange ==
    ASSUME NEW s, Space(s), OnRange(s)
    PROVE  LET n == MoveTo(s, NextEntry(s.list, s.cur))
           IN  Space(n) /\ n.list = s.list /\ NotBefore(n, s.offset)
<1> DEFINE c == NextEntry(s.list, s.cur)
<1>1. /\ s.list \in Lists /\ Ordered(s.list) /\ Len(s.list) \in Nat
      /\ s.cur \in 1..Len(s.list) /\ s.offset \in Nat
      /\ \A j \in 1..Len(s.list) : s.list[j].start \in Nat /\ s.list[j].end \in Nat
  BY CellsOfLists DEF Space, OnRange, ListHead
<1>2. c \in 0..Len(s.list) /\ (c # ListHead => c = s.cur + 1 /\ c \in 1..Len(s.list))
  BY <1>1 DEF NextEntry, ListHead
<1>3. ASSUME c # ListHead PROVE s.offset <= s.list[c].start
  <2>1. c = s.cur + 1 /\ c \in 1..Len(s.list) /\ s.cur < c /\ c \in DOMAIN s.list
          /\ s.cur \in DOMAIN s.list
    BY <1>1, <1>2, <1>3, CellsOfLists
  <2>2. s.list[s.cur].end < s.list[c].start
    BY <2>1, <1>1 DEF Ordered
  <2>3. s.offset <= s.list[s.cur].end
    BY <1>1 DEF OnRange, Extent
  <2> QED
    BY <2>1, <2>2, <2>3, <1>1
<1> HIDE DEF c
<1>4. /\ Space(MoveTo(s, c)) /\ MoveTo(s, c).list = s.list /\ MoveTo(s, c).cur = c
      /\ c # ListHead => /\ OnRange(MoveTo(s, c))
                         /\ MoveTo(s, c).offset = s.list[c].start
  BY <1>2, AtRange
<1> QED
  BY <1>3, <1>4 DEF NotBefore, c

(* get_next_sector goes on, or off the list.                               *)
LEMMA GoesOn ==
    ASSUME NEW s, Space(s), s.cur = ListHead \/ OnRange(s)
    PROVE  LET n == GetNextSector(s)
           IN  Space(n) /\ n.list = s.list /\ NotBefore(n, s.offset)
<1>1. /\ s \in [list : Lists, cur : Nat, offset : Nat]
      /\ \A j \in 1..Len(s.list) : s.list[j].start \in Nat /\ s.list[j].end \in Nat
  BY CellsOfLists DEF Space
<1>2. CASE s.cur = ListHead
  BY <1>2 DEF GetNextSector, NotBefore
<1>3. CASE s.cur # ListHead /\ s.offset + 1 <= s.list[s.cur].end
  <2> DEFINE n == Placed(s, s.cur, s.offset + 1)
  <2>1. s.cur \in 1..Len(s.list) /\ s.cur \in 0..Len(s.list) /\ s.offset + 1 \in Nat
    BY <1>1, <1>3 DEF Space, ListHead
  <2>2. /\ Space(n) /\ n.list = s.list /\ n.offset = s.offset + 1 /\ n.cur = s.cur
    BY <2>1, Moved
  <2>3. GetNextSector(s) = n
    BY <1>1, <1>3 DEF GetNextSector, Placed
  <2> HIDE DEF n
  <2>4. OnRange(n)
    BY <2>1, <2>2, <1>1, <1>3 DEF OnRange, Extent
  <2> QED
    BY <2>1, <2>2, <2>3, <2>4, <1>1 DEF NotBefore
<1>4. CASE s.cur # ListHead /\ ~(s.offset + 1 <= s.list[s.cur].end)
  <2>1. GetNextSector(s) = MoveTo(s, NextEntry(s.list, s.cur))
    BY <1>4 DEF GetNextSector
  <2> QED
    BY <2>1, <1>4, AtNextRange
<1> QED
  BY <1>2, <1>3, <1>4

LEMMA HeaderGoesOn ==
    ASSUME NEW s, Space(s), s.cur = ListHead \/ OnRange(s)
    PROVE  LET n == NextHeader(s)
           IN  /\ Space(n) /\ n.list = s.list /\ NotBefore(n, s.offset)
               /\ s.cur = ListHead => n.cur = ListHead
<1>1. CASE s.cur = ListHead
  <2>1. ListHead \in 0..Len(s.list)
    BY CellsOfLists DEF Space, ListHead
  <2>2. NextHeader(s) = MoveTo(s, ListHead)
    BY <1>1 DEF NextHeader
  <2> QED
    BY <2>1, <2>2, AtRange DEF NotBefore
<1>2. CASE s.cur # ListHead
  <2>1. NextHeader(s) = MoveTo(s, NextEntry(s.list, s.cur))
    BY <1>2 DEF NextHeader
  <2> QED
    BY <2>1, <1>2, AtNextRange
<1> QED
  BY <1>1, <1>2

(* So does skipping any number of blocks.                                  *)
LEMMA SkipIs ==
    ASSUME NEW s, Space(s), NEW n \in Nat, s.cur = ListHead \/ OnRange(s)
    PROVE  /\ Space(Skip(s, n)) /\ Skip(s, n).list = s.list
           /\ NotBefore(Skip(s, n), s.offset)
           /\ s.cur = ListHead => Skip(s, n).cur = ListHead
<1> DEFINE R == Sectors(s, n)
           Good(m) == /\ Space(R[m]) /\ R[m].list = s.list /\ NotBefore(R[m], s.offset)
                      /\ s.cur = ListHead => R[m].cur = ListHead
           M == { m \in Nat : m <= n => Good(m) }
<1>1. R = [i \in 0..n |-> IF i = 0 THEN s ELSE GetNextSector(R[i - 1])]
  BY SectorsIs
<1>2. s.offset \in Nat
  BY DEF Space
<1> HIDE DEF R
<1>3. R[0] = s /\ \A i \in 1..n : R[i] = GetNextSector(R[i - 1])
  BY <1>1
<1>4. 0 \in M
  BY <1>2, <1>3 DEF NotBefore
<1>5. ASSUME NEW m \in Nat, m \in M PROVE m + 1 \in M
  <2> SUFFICES ASSUME m + 1 <= n PROVE Good(m + 1)
    OBVIOUS
  <2>1. m + 1 \in 1..n /\ (m + 1) - 1 = m /\ m <= n
    OBVIOUS
  <2> DEFINE q == R[m]
             p == R[m + 1]
  <2>2. /\ Space(q) /\ q.list = s.list /\ NotBefore(q, s.offset)
        /\ s.cur = ListHead => q.cur = ListHead
    BY <2>1, <1>5
  <2>3. p = GetNextSector(q)
    BY <2>1, <1>3
  <2> HIDE DEF q, p
  <2>4. q.cur = ListHead \/ OnRange(q)
    BY <2>2 DEF NotBefore
  <2>5. Space(p) /\ p.list = q.list /\ NotBefore(p, q.offset)
    BY <2>2, <2>3, <2>4, GoesOn
  <2>6. NotBefore(p, s.offset)
    <3>1. CASE q.cur = ListHead
      <4>1. p.cur = ListHead
        BY <3>1, <2>3 DEF GetNextSector
      <4> QED
        BY <4>1 DEF NotBefore
    <3>2. CASE q.cur # ListHead
      <4>1. s.offset <= q.offset
        BY <3>2, <2>2 DEF NotBefore
      <4>2. q.offset \in Nat /\ p.offset \in Nat
        BY <2>2, <2>5 DEF Space
      <4> QED
        BY <4>1, <4>2, <2>5, <1>2 DEF NotBefore
    <3> QED
      BY <3>1, <3>2
  <2>7. q.cur = ListHead => p.cur = ListHead
    BY <2>3 DEF GetNextSector
  <2> QED
    BY <2>2, <2>5, <2>6, <2>7 DEF p
<1> HIDE DEF M
<1>6. Nat \subseteq M
  BY <1>4, <1>5, CountUp
<1>7. Good(n)
  BY <1>6 DEF M
<1> QED
  BY <1>7 DEF Skip, R

(* The cursor behind a file is on a range that begins behind it.           *)
LEMMA MoveBehindIs ==
    ASSUME NEW s, Space(s), NEW loc \in Seq(Fragment)
    PROVE  LET n == MoveBehind(s, loc)
           IN  /\ Space(n) /\ n.list = s.list
               /\ n.cur = ListHead \/ OnRange(n)
               /\ n.cur # ListHead /\ loc # <<>> => Last(loc).end < n.offset
<1> DEFINE e == IF loc = <<>> THEN 0 ELSE Last(loc).end
           l == s.list
           I == { i \in 1..Len(l) : l[i].start > e }
           t == IF I # {} THEN Min(I) ELSE 0
<1>1. MoveBehind(s, loc) = IF t = 0 THEN [s EXCEPT !.cur = ListHead] ELSE MoveTo(s, t)
  BY DEF MoveBehind, SelectInSeq
<1>2. l \in Lists /\ s \in [list : Lists, cur : Nat, offset : Nat] /\ Len(l) \in Nat
  BY CellsOfLists DEF Space
<1>3. t \in 0..Len(l) /\ (t # 0 => t \in I)
  <2>1. I \subseteq 1..Len(l)
    OBVIOUS
  <2> HIDE DEF I, l
  <2> QED
    BY <2>1, <1>2, FirstCell
<1>4. t # 0 => l[t].start > e
  BY <1>3
<1> HIDE DEF t, l
<1>5. CASE t = 0
  <2> DEFINE n == Placed(s, ListHead, s.offset)
  <2>1. ListHead \in 0..Len(s.list) /\ s.offset \in Nat
    BY <1>2 DEF ListHead, l
  <2>2. Space(n) /\ n.list = s.list /\ n.cur = ListHead
    BY <2>1, Moved
  <2>3. MoveBehind(s, loc) = n
    BY <1>1, <1>2, <1>5 DEF Placed
  <2> HIDE DEF n
  <2> QED
    BY <2>2, <2>3
<1>6. CASE t # 0
  <2> DEFINE n == MoveTo(s, t)
  <2>1. /\ Space(n) /\ n.list = s.list /\ n.cur = t
        /\ t # ListHead => OnRange(n) /\ n.offset = s.list[t].start
    BY <1>3, AtRange DEF l
  <2>2. MoveBehind(s, loc) = n
    BY <1>1, <1>6
  <2> HIDE DEF n
  <2>3. n.offset > e /\ n.cur = t /\ OnRange(n)
    BY <2>1, <1>4, <1>6 DEF ListHead, l
  <2>4. loc # <<>> => e < n.offset /\ e = Last(loc).end
    <3> SUFFICES ASSUME loc # <<>> PROVE e < n.offset /\ e = Last(loc).end
      OBVIOUS
    <3>1. Len(loc) \in 1..Len(loc)
      BY FragmentCells, EmptySeq
    <3>2. e \in Nat /\ e = Last(loc).end
      BY <3>1, FragmentCells DEF Last
    <3>3. n.offset \in Nat
      BY <2>1 DEF Space
    <3> QED
      BY <3>2, <3>3, <2>3
  <2> HIDE DEF e
  <2> QED
    BY <2>1, <2>2, <2>3, <2>4
<1> QED
  BY <1>5, <1>6

(* A cell is followed to a cell, or known to be freed.                     *)
LEMMA SameCellIs ==
    ASSUME NEW old, NEW new \in Lists, NEW cell
    PROVE  SameCell(old, new, cell) \in Freed..Len(new)
<1> DEFINE I == { i \in 1..Len(new) : Extent(new[i]) \cap Extent(old[cell]) # {} }
           t == IF I # {} THEN Min(I) ELSE 0
<1>1. t \in 0..Len(new) /\ Len(new) \in Nat
  <2>1. I \subseteq 1..Len(new)
    OBVIOUS
  <2> HIDE DEF I
  <2> QED
    BY <2>1, CellsOfLists, FirstCell
<1>2. SameCell(old, new, cell) = IF cell \in {ListHead, Freed} THEN cell
                                 ELSE IF t = 0 THEN Freed ELSE t
  BY DEF SameCell, SelectInSeq
<1> HIDE DEF t
<1> QED
  BY <1>1, <1>2 DEF ListHead, Freed

(* The walk goes forward to a range behind this one.                       *)
LEMMA NextMarkedIs ==
    ASSUME NEW l \in Lists, NEW cell \in 0..Len(l)
    PROVE  NextMarked(l, cell) \in 0..Len(l)
<1> DEFINE I == { i \in (cell + 1)..Len(l) : l[i].stat # NoStat }
           t == IF I # {} THEN Min(I) ELSE 0
<1>1. Len(l) \in Nat /\ I \subseteq 1..Len(l)
  BY CellsOfLists
<1>2. NextMarked(l, cell) = t
  BY DEF NextMarked, SelectInSubSeq
<1> HIDE DEF I
<1>3. t \in 0..Len(l)
  BY <1>1, FirstCell
<1> QED
  BY <1>2, <1>3

-----------------------------------------------------------------------------
(* What taking a block and cutting a file make of it                       *)

(* What is in order, by the numbers of the fragments.                      *)
LEMMA InOrderIs ==
    ASSUME NEW loc \in Seq(Fragment)
    PROVE  InOrder(loc) <=> \A i, j \in 1..Len(loc) : i < j => loc[i].end < loc[j].start
<1>1. DOMAIN loc = 1..Len(loc)
  BY FragmentCells
<1> QED
  BY <1>1, Zenon DEF InOrder

(* A block more.                                                           *)
LEMMA ExtendedIs ==
    ASSUME NEW loc \in Seq(Fragment), Apart(loc), NEW b \in Nat, b \notin BlocksOf(loc)
    PROVE  LET m == AddToFile(loc, b, 1)
           IN  /\ m \in Seq(Fragment) /\ Apart(m) /\ m # <<>>
               /\ BlocksOf(m) = BlocksOf(loc) \cup {b}
               /\ Last(m).end = b
               /\ SizeOf(m) = SizeOf(loc) + 1
               /\ m[1].start = IF loc = <<>> THEN b ELSE loc[1].start
               /\ InOrder(loc) /\ (loc = <<>> \/ Last(loc).end < b) => InOrder(m)
<1> DEFINE m == AddToFile(loc, b, 1)
           n == Len(loc)
           e == [start |-> b, end |-> b, data |-> 1]
           g == [start |-> loc[n].start, end |-> b, data |-> loc[n].data]
           joins == loc # <<>> /\ Last(loc).end + 1 = b /\ Last(loc).data = 1
<1>1. m \in Seq(Fragment) /\ Apart(m) /\ BlocksOf(m) = BlocksOf(loc) \cup {b}
  BY AddToFileCorrect
<1>2. /\ n \in Nat /\ DOMAIN loc = 1..n
      /\ \A i \in 1..n : /\ loc[i] \in Fragment
                         /\ loc[i].start \in Nat /\ loc[i].end \in Nat
                         /\ loc[i].data \in {0, 1}
  BY FragmentCells
<1>3. /\ Sums(loc)[0] = 0 /\ \A i \in 0..n : Sums(loc)[i] \in Nat
      /\ \A i \in 1..n : Sums(loc)[i] = Sums(loc)[i - 1] + Size(loc[i])
  BY SumsOf
<1>4. CASE joins
  <2>1. n \in 1..n /\ loc[n].end + 1 = b /\ loc # <<>> /\ n # 0
    BY <1>2, <1>4, EmptySeq DEF Last
  <2>2. [loc[n] EXCEPT !.end = b] = g /\ g \in Fragment
    BY <2>1, <1>2 DEF Fragment
  <2>3. m = [loc EXCEPT ![n] = g]
    BY <1>4, <2>2 DEF AddToFile
  <2>4. Len(m) = n /\ \A j \in 1..n : m[j] = IF j = n THEN g ELSE loc[j]
    BY <2>1, <2>2, <2>3, ExceptCells
  <2> HIDE DEF m
  <2>5. m # <<>> /\ Last(m).end = b
    BY <2>1, <2>4, EmptySeq DEF Last
  <2>6. m[1].start = loc[1].start
    BY <2>1, <2>4, <1>2
  <2>7. SizeOf(m) = SizeOf(loc) + 1
    <3>1. Sums(m)[n] = Sums(m)[n - 1] + Size(m[n])
      BY <2>1, <2>4, <1>1, SumsOf
    <3> DEFINE q == n - 1
    <3>2. \A i \in 1..q : Size(loc[i]) = Size(m[i])
      BY <2>4, <1>2
    <3>3. q \in Nat /\ q <= Len(loc) /\ q <= Len(m)
      BY <2>1, <2>4, <1>2
    <3> HIDE DEF q
    <3>4. \A i \in 0..q : Sums(loc)[i] = Sums(m)[i]
      BY <3>2, <3>3, <1>1, SumsAgree
    <3>5. Sums(loc)[n - 1] = Sums(m)[n - 1]
      BY <3>3, <3>4 DEF q
    <3>6. Size(m[n]) = Size(loc[n]) + 1
      BY <2>1, <2>4, <1>2 DEF Size
    <3>7. Sums(loc)[n] = Sums(loc)[n - 1] + Size(loc[n]) /\ Size(loc[n]) \in Int
            /\ Sums(loc)[n - 1] \in Nat
      <4>1. n - 1 \in 0..n
        BY <2>1, <1>2
      <4>2. Size(loc[n]) \in Int
        BY <2>1, <1>2 DEF Size
      <4> QED
        BY <4>1, <4>2, <2>1, <1>3
    <3> QED
      BY <3>1, <3>5, <3>6, <3>7, <2>4 DEF SizeOf
  <2>8. ASSUME InOrder(loc) PROVE InOrder(m)
    <3>1. m \in Seq(Fragment) /\ Len(m) = n
      BY <2>4, <1>1
    <3>2. \A i \in 1..n : m[i].start = loc[i].start /\ (i # n => m[i].end = loc[i].end)
      BY <2>1, <2>4
    <3>3. ASSUME NEW i \in 1..n, NEW j \in 1..n, i < j
          PROVE  m[i].end < m[j].start
      <4>1. i # n
        BY <3>3
      <4>2. loc[i].end < loc[j].start
        BY <3>3, <2>8, InOrderIs
      <4> QED
        BY <4>1, <4>2, <3>2
    <3> HIDE DEF n
    <3> QED
      BY <3>1, <3>3, InOrderIs
  <2> QED
    BY <2>1, <2>5, <2>6, <2>7, <2>8, <1>1 DEF m
<1>5. CASE ~joins
  <2>1. e \in Fragment
    BY DEF Fragment
  <2>2. m = Append(loc, e)
    BY <1>5 DEF AddToFile
  <2>3. /\ Len(m) = n + 1
        /\ \A i \in 1..n : m[i] = loc[i]
        /\ m[n + 1] = e
    BY <2>1, <2>2, AppendedCell
  <2> HIDE DEF m
  <2>4. m # <<>> /\ Last(m).end = b
    BY <2>3, <1>2, EmptySeq DEF Last
  <2>5. m[1].start = IF loc = <<>> THEN b ELSE loc[1].start
    <3>1. CASE loc = <<>>
      <4>1. n = 0
        BY <3>1
      <4> QED
        BY <4>1, <3>1, <2>3
    <3>2. CASE loc # <<>>
      <4>1. 1 \in 1..n
        BY <3>2, <1>2, EmptySeq
      <4> QED
        BY <4>1, <3>2, <2>3
    <3> QED
      BY <3>1, <3>2
  <2>6. SizeOf(m) = SizeOf(loc) + 1
    <3>1. Sums(m)[n + 1] = Sums(m)[(n + 1) - 1] + Size(m[n + 1])
      <4>1. n + 1 \in 1..Len(m)
        BY <2>3, <1>2
      <4> HIDE DEF n
      <4> QED
        BY <4>1, <1>1, SumsOf
    <3>2. \A i \in 0..n : Sums(loc)[i] = Sums(m)[i]
      <4>1. n \in Nat /\ n <= Len(loc) /\ n <= Len(m)
              /\ \A i \in 1..n : Size(loc[i]) = Size(m[i])
        BY <2>3, <1>2
      <4> HIDE DEF n
      <4> QED
        BY <4>1, <1>1, SumsAgree
    <3>3. Size(m[n + 1]) = 1
      BY <2>3 DEF Size
    <3>4. (n + 1) - 1 = n /\ n \in 0..n /\ Sums(loc)[n] \in Nat
      BY <1>2, <1>3
    <3> QED
      BY <3>1, <3>2, <3>3, <3>4, <2>3 DEF SizeOf
  <2>7. ASSUME InOrder(loc), loc = <<>> \/ Last(loc).end < b PROVE InOrder(m)
    <3>1. m \in Seq(Fragment) /\ Len(m) = n + 1
      BY <2>3, <1>1
    <3>2. ASSUME NEW i \in 1..n PROVE loc[i].end < b
      <4>1. Last(loc).end < b /\ n \in 1..n
        BY <2>7, <1>2, EmptySeq
      <4>2. CASE i = n
        BY <4>1, <4>2 DEF Last
      <4>3. CASE i # n
        <5>1. loc[i].end < loc[n].start
          <6>1. i < n /\ i \in 1..Len(loc) /\ n \in 1..Len(loc)
            BY <4>1, <4>3
          <6> HIDE DEF n
          <6> QED
            BY <6>1, <2>7, InOrderIs
        <5>2. loc[n].start <= loc[n].end /\ loc[n].end < b
          BY <4>1 DEF Apart, Last
        <5> QED
          BY <5>1, <5>2, <4>1, <1>2
      <4> QED
        BY <4>2, <4>3
    <3>3. ASSUME NEW i \in 1..(n + 1), NEW j \in 1..(n + 1), i < j
          PROVE  m[i].end < m[j].start
      <4>1. i \in 1..n
        BY <3>3, <1>2
      <4>2. CASE j = n + 1
        BY <4>1, <4>2, <3>2, <2>3
      <4>3. CASE j # n + 1
        <5>1. j \in 1..n
          BY <4>3, <1>2
        <5> QED
          BY <5>1, <4>1, <3>3, <2>3, <2>7, InOrderIs
      <4> QED
        BY <4>2, <4>3
    <3> HIDE DEF n
    <3> QED
      BY <3>1, <3>3, InOrderIs
  <2> QED
    BY <2>4, <2>5, <2>6, <2>7, <1>1 DEF m
<1> QED
  BY <1>4, <1>5

(* A cut: the file keeps its first blocks, and the position is behind it.  *)
LEMMA CutIs ==
    ASSUME NEW s, Space(s), NEW f, f.loc \in Seq(Fragment), Apart(f.loc), NEW size \in Nat,
           BlocksOf(s.list) \cap BlocksOf(f.loc) = {}
    PROVE  LET n == CutSpace(s, f, size)
               k == TruncatedLoc(f.loc, size)
           IN  /\ k \in Seq(Fragment) /\ Apart(k)
               /\ Space(n)
               /\ n.cur = ListHead \/ OnRange(n)
               /\ n.cur # ListHead /\ k # <<>> => Last(k).end < n.offset
               /\ BlocksOf(k) \subseteq BlocksOf(f.loc)
               /\ BlocksOf(n.list) = BlocksOf(s.list) \cup (BlocksOf(f.loc) \ BlocksOf(k))
<1> DEFINE t == TruncatedSpace(s, f.loc, size)
           k == TruncatedLoc(f.loc, size)
<1>1. k \in Seq(Fragment) /\ Apart(k)
  BY TruncatedLocIs
<1>2. /\ Space(t) /\ BlocksOf(k) \subseteq BlocksOf(f.loc)
      /\ BlocksOf(t.list) = BlocksOf(s.list) \cup (BlocksOf(f.loc) \ BlocksOf(k))
  BY TruncatedSpaceIs
<1>3. CutSpace(s, f, size) = MoveBehind(t, k)
  BY DEF CutSpace
<1> HIDE DEF t, k
<1>4. /\ Space(MoveBehind(t, k)) /\ MoveBehind(t, k).list = t.list
      /\ MoveBehind(t, k).cur = ListHead \/ OnRange(MoveBehind(t, k))
      /\ MoveBehind(t, k).cur # ListHead /\ k # <<>>
            => Last(k).end < MoveBehind(t, k).offset
  BY <1>1, <1>2, MoveBehindIs
<1> QED
  BY <1>1, <1>2, <1>3, <1>4 DEF k

(* What is left begins where the file began, and is as far in order.       *)
LEMMA CutInOrder ==
    ASSUME NEW loc \in Seq(Fragment), Apart(loc), NEW size \in Nat, InOrder(loc)
    PROVE  /\ InOrder(TruncatedLoc(loc, size))
           /\ TruncatedLoc(loc, size) # <<>>
                 => TruncatedLoc(loc, size)[1].start = loc[1].start
<1> DEFINE k == TruncatedLoc(loc, size)
           r == Remaining(loc, size)
           n == Len(loc)
<1>1. /\ k \in Seq(Fragment) /\ Len(k) = r /\ r \in 0..n
      /\ \A i \in 1..r : /\ k[i].start = loc[i].start /\ k[i].end <= loc[i].end
  BY TruncatedLocIs
<1>2. /\ n \in Nat /\ DOMAIN loc = 1..n
      /\ \A i \in 1..n : loc[i].start \in Nat /\ loc[i].end \in Nat
  BY FragmentCells
<1> HIDE DEF k, r, n
<1>3. /\ DOMAIN k = 1..r
      /\ \A i \in 1..r : i \in 1..n /\ k[i].end \in Nat
  BY <1>1, <1>2, FragmentCells
<1>4. InOrder(k)
  BY <1>1, <1>2, <1>3 DEF InOrder
<1>5. k # <<>> => 1 \in 1..r
  BY <1>1, <1>2, EmptySeq
<1> QED
  BY <1>1, <1>4, <1>5 DEF k

-----------------------------------------------------------------------------
(* The places of the blocks                                                *)

LEMMA TakenFromFree ==
    ASSUME NEW o, NEW F, NEW H, NEW s, NEW g, FivePlaces(o, F, H, s, g), NEW b \in F
    PROVE  FivePlaces(o, F \ {b}, H \cup {b}, s, g) /\ b \notin H /\ b \in Disk
  BY DEF FivePlaces

LEMMA CutFromFile ==
    ASSUME NEW o, NEW F, NEW H, NEW s, NEW g, FivePlaces(o, F, H, s, g),
           NEW X, X \subseteq H
    PROVE  FivePlaces(o, F \cup (H \ X), X, s, g)
  BY DEF FivePlaces

LEMMA ClosedFile ==
    ASSUME NEW o, NEW F, NEW H, NEW s, NEW g, FivePlaces(o, F, H, s, g),
           NEW X, X \subseteq H
    PROVE  /\ FivePlaces(o, F \cup (H \ X), {}, s \cup X, g)
           /\ FivePlaces(o, F \cup (H \ X), {}, s, g \cup X)
  BY DEF FivePlaces

-----------------------------------------------------------------------------
(* What the steps do to the list and the file                              *)

(* Taking the block at the position moves the position past it.            *)
LEMMA TakeIs ==
    ASSUME NEW s, Space(s), OnRange(s)
    PROVE  /\ Space(RemoveBlock(s))
           /\ BlocksOf(RemoveBlock(s).list) = BlocksOf(s.list) \ {s.offset}
           /\ s.offset \in BlocksOf(s.list) /\ s.offset \in Nat
           /\ RemoveBlock(s).cur # ListHead
                 => OnRange(RemoveBlock(s)) /\ s.offset < RemoveBlock(s).offset
<1> DEFINE n == RemoveBlock(s)
<1>1. /\ Space(n) /\ BlocksOf(n.list) = BlocksOf(s.list) \ {s.offset}
      /\ NextPlace(s, n)
  BY RemoveBlockCorrect
<1> HIDE DEF n
<1>2. /\ s.list \in Lists /\ Ordered(s.list) /\ Len(s.list) \in Nat
      /\ DOMAIN s.list = 1..Len(s.list)
      /\ s.cur \in 1..Len(s.list) /\ s.offset \in Nat
      /\ s.offset \in Extent(s.list[s.cur])
  BY CellsOfLists DEF Space, OnRange, ListHead
<1>3. s.offset \in BlocksOf(s.list)
  BY <1>2 DEF BlocksOf
<1>4. ASSUME n.cur # ListHead PROVE OnRange(n) /\ s.offset < n.offset
  <2>1. n.list \in Lists /\ Ordered(n.list) /\ n.cur \in 1..Len(n.list) /\ n.offset \in Nat
    BY <1>1, <1>4, CellsOfLists DEF Space, ListHead
  <2>2. CASE n.offset = s.offset + 1 /\ n.offset \in Extent(n.list[n.cur])
    BY <2>2, <1>2, <1>4 DEF OnRange
  <2>3. CASE /\ s.offset = s.list[s.cur].end /\ s.cur < Len(s.list)
             /\ n.list[n.cur] = s.list[s.cur + 1]
             /\ n.offset = n.list[n.cur].start
    <3>1. n.list[n.cur].start <= n.list[n.cur].end /\ n.list[n.cur].start \in Nat
            /\ n.list[n.cur].end \in Nat
      BY <2>1, CellsOfLists DEF Ordered
    <3>2. n.offset \in Extent(n.list[n.cur])
      BY <3>1, <2>3 DEF Extent
    <3>3. s.list[s.cur].end < s.list[s.cur + 1].start
      BY <2>3, <1>2 DEF Ordered
    <3> QED
      BY <3>2, <3>3, <2>3, <1>4 DEF OnRange
  <2> QED
    BY <2>2, <2>3, <1>1, <1>4 DEF NextPlace
<1> QED
  BY <1>1, <1>2, <1>3, <1>4 DEF n

(* A position further on is as good.                                       *)
LEMMA PlaceFurther ==
    ASSUME NEW s, Space(s), NEW n, Space(n), NEW loc \in Seq(Fragment),
           PlaceFor(loc, s), NotBefore(n, s.offset),
           s.cur = ListHead => n.cur = ListHead
    PROVE  PlaceFor(loc, n)
<1> SUFFICES ASSUME n.cur # ListHead, loc # <<>> PROVE Last(loc).end < n.offset
  BY DEF PlaceFor, NotBefore
<1>1. Last(loc).end < s.offset /\ s.offset <= n.offset
  BY DEF PlaceFor, NotBefore
<1>2. s.offset \in Nat /\ n.offset \in Nat
  BY DEF Space
<1>3. Last(loc).end \in Nat
  <2>1. Len(loc) \in 1..Len(loc)
    BY FragmentCells, EmptySeq
  <2> QED
    BY <2>1, FragmentCells DEF Last
<1> QED
  BY <1>1, <1>2, <1>3

(* The fields of a file with a block more.                                 *)
LEMMA ExtendedFile ==
    ASSUME NEW f \in FileType, Apart(f.loc), NEW b \in Nat, b \notin BlocksOf(f.loc)
    PROVE  LET e == Extended(f, b)
           IN  /\ e \in FileType /\ Apart(e.loc) /\ e.loc # <<>>
               /\ e.loc = AddToFile(f.loc, b, 1)
               /\ e.stat = f.stat /\ e.start = f.start
               /\ e.open = f.open
               /\ e.size = f.size + 1 /\ e.err = f.err
               /\ f.top = f.size => e.top = e.size
<1> DEFINE m == AddToFile(f.loc, b, 1)
           t == Max({f.top, f.size + 1})
           e == Extended(f, b)
<1>1. m \in Seq(Fragment) /\ Apart(m) /\ m # <<>>
  BY ExtendedIs DEF FileType
<1>2. f.top \in Nat /\ f.size \in Nat
  BY DEF FileType
<1>3. t \in Nat /\ (f.top = f.size => t = f.size + 1)
  BY <1>2, OfTwo
<1>4. e = [f EXCEPT !.loc = m, !.size = f.size + 1, !.top = t]
  BY DEF Extended
<1> HIDE DEF m, t, e
<1> DEFINE z == f.size + 1
<1>5. /\ e \in FileType /\ e.loc = m /\ e.stat = f.stat /\ e.start = f.start
      /\ e.size = z /\ e.err = f.err /\ e.top = t
  <2>1. z \in Nat /\ e = [f EXCEPT !.loc = m, !.size = z, !.top = t]
    BY <1>2, <1>4
  <2> HIDE DEF z
  <2> QED
    BY <1>1, <1>3, <2>1 DEF FileType
<1>6. e.open = f.open
  BY <1>4, Zenon DEF FileType
<1> QED
  BY <1>1, <1>3, <1>5, <1>6 DEF m, e

(* The fields of a file that was cut.                                      *)
LEMMA CutFile ==
    ASSUME NEW f \in FileType, Apart(f.loc), NEW size \in Nat
    PROVE  LET e == Cut(f, size)
           IN  /\ e \in FileType /\ Apart(e.loc)
               /\ e.loc = TruncatedLoc(f.loc, size)
               /\ e.stat = f.stat /\ e.start = f.start
               /\ e.open = f.open
               /\ e.size = size
<1> DEFINE m == TruncatedLoc(f.loc, size)
           r == IF f.err > Half * size THEN 0 ELSE f.err
           e == Cut(f, size)
<1>1. m \in Seq(Fragment) /\ Apart(m)
  BY TruncatedLocIs DEF FileType
<1>2. r \in Nat
  BY DEF FileType
<1>3. e = [f EXCEPT !.loc = m, !.size = size, !.err = r]
  BY DEF Cut
<1> HIDE DEF m, r, e
<1>4. /\ e \in FileType /\ e.loc = m /\ e.stat = f.stat /\ e.start = f.start
      /\ e.size = size
  BY <1>1, <1>2, <1>3 DEF FileType
<1>5. e.open = f.open
  BY <1>3, Zenon DEF FileType
<1> QED
  BY <1>1, <1>4, <1>5 DEF m, e

(* What the places of the blocks say about the parts.                      *)
LEMMA HeldParts ==
    ASSUME NEW s, NEW f, NEW g, NEW saved, NEW gone, Held(s, f, g, saved, gone)
    PROVE  /\ Space(s) /\ f \in FileType /\ f.loc \in Seq(Fragment) /\ Apart(f.loc)
           /\ f.size \in Nat /\ f.stat \in Stats \cup {NoStat}
           /\ s.offset \in Nat /\ s.list \in Lists
           /\ BlocksOf(s.list) \cap BlocksOf(f.loc) = {}
           /\ BlocksOf(f.loc) \subseteq Disk /\ BlocksOf(s.list) \subseteq Disk
  BY DEF Held, FileType, FivePlaces, Space

(* Another position, other fields of the file, and files that are more     *)
(* spoilt, do no harm.                                                     *)
LEMMA HeldAlike ==
    ASSUME NEW s, NEW f, NEW g, NEW saved, NEW gone, Held(s, f, g, saved, gone),
           NEW n, Space(n), n.list = s.list,
           NEW e \in FileType, e.stat = f.stat, e.start = f.start, e.loc = f.loc,
           e.size = f.size, e.open => e.stat # NoStat,
           e.open /\ ~f.open => (~g.short => f.size = SizeOf(f.loc)),
           NEW h \in GhostType, h.owned = g.owned, g.spoilt => h.spoilt,
           g.short => h.short
    PROVE  Held(n, e, h, saved, gone)
  BY DEF Held

(* Taking the block at the position into the file.                         *)
LEMMA TakeHeld ==
    ASSUME NEW s, NEW f, NEW g, NEW saved, NEW gone, Held(s, f, g, saved, gone),
           OnRange(s), f.stat # NoStat, ~g.short => f.size = SizeOf(f.loc),
           ~g.spoilt => IF f.loc = <<>> THEN f.start = s.offset
                        ELSE Last(f.loc).end < s.offset
    PROVE  LET n == RemoveBlock(s)
               e == Extended(f, s.offset)
           IN  /\ Held(n, e, g, saved, gone)
               /\ ~g.short => e.size = SizeOf(e.loc)
               /\ PlaceFor(e.loc, n) /\ e.loc # <<>>
               /\ n.cur # ListHead => OnRange(n)
<1> DEFINE n == RemoveBlock(s)
           b == s.offset
           e == Extended(f, b)
<1>1. /\ Space(n) /\ BlocksOf(n.list) = BlocksOf(s.list) \ {b}
      /\ b \in BlocksOf(s.list) /\ b \in Nat
      /\ n.cur # ListHead => OnRange(n) /\ b < n.offset
  BY TakeIs DEF Held
<1>2. b \notin BlocksOf(f.loc) /\ f.loc \in Seq(Fragment) /\ Apart(f.loc) /\ f \in FileType
  BY <1>1, HeldParts
<1>3. /\ e \in FileType /\ Apart(e.loc) /\ e.loc # <<>>
      /\ e.loc = AddToFile(f.loc, b, 1)
      /\ e.stat = f.stat /\ e.start = f.start
      /\ e.open = f.open
      /\ e.size = f.size + 1
  BY <1>1, <1>2, ExtendedFile
<1> HIDE DEF n, e, b
<1>4. /\ BlocksOf(e.loc) = BlocksOf(f.loc) \cup {b}
      /\ Last(e.loc).end = b
      /\ SizeOf(e.loc) = SizeOf(f.loc) + 1
      /\ e.loc[1].start = IF f.loc = <<>> THEN b ELSE f.loc[1].start
      /\ InOrder(f.loc) /\ (f.loc = <<>> \/ Last(f.loc).end < b) => InOrder(e.loc)
  BY <1>1, <1>2, <1>3, ExtendedIs
<1>5. FivePlaces(g.owned, BlocksOf(n.list), BlocksOf(e.loc), saved, gone)
  BY <1>1, <1>4, TakenFromFree DEF Held
<1>6. InOrder(<<>>)
  BY DEF InOrder
<1>7. ASSUME ~g.spoilt PROVE e.loc[1].start = e.start /\ InOrder(e.loc)
  <2>1. CASE f.loc = <<>>
    <3>1. f.start = b
      BY <2>1, <1>7 DEF b
    <3> QED
      BY <3>1, <2>1, <1>3, <1>4, <1>6
  <2>2. CASE f.loc # <<>>
    <3>1. f.loc[1].start = f.start /\ InOrder(f.loc)
      BY <2>2, <1>7 DEF Held
    <3>2. Last(f.loc).end < b
      BY <2>2, <1>7 DEF b
    <3> QED
      BY <3>1, <3>2, <2>2, <1>3, <1>4
  <2> QED
    BY <2>1, <2>2
<1>8. ~g.short => e.size = SizeOf(e.loc)
  BY <1>3, <1>4
<1>9. Held(n, e, g, saved, gone)
  BY <1>1, <1>3, <1>5, <1>7, <1>8 DEF Held
<1>10. PlaceFor(e.loc, n)
  BY <1>1, <1>4 DEF PlaceFor
<1> QED
  BY <1>1, <1>3, <1>8, <1>9, <1>10 DEF n, e, b

(* Cutting the file to size, with the position behind it.                  *)
LEMMA CutHeld ==
    ASSUME NEW s, NEW f, NEW g, NEW saved, NEW gone, Held(s, f, g, saved, gone),
           NEW size \in Nat, f.stat # NoStat, NEW h \in GhostType, h.owned = g.owned,
           g.spoilt => h.spoilt, ~h.short => size <= SizeOf(f.loc)
    PROVE  LET n == CutSpace(s, f, size)
               e == Cut(f, size)
           IN  /\ Held(n, e, h, saved, gone)
               /\ PlaceFor(e.loc, n)
               /\ n.cur = ListHead \/ OnRange(n)
               /\ size >= 1 /\ f.loc # <<>> => e.loc # <<>>
<1> DEFINE n == CutSpace(s, f, size)
           k == TruncatedLoc(f.loc, size)
           e == Cut(f, size)
<1>0. /\ Space(s) /\ f \in FileType /\ f.loc \in Seq(Fragment) /\ Apart(f.loc)
      /\ BlocksOf(s.list) \cap BlocksOf(f.loc) = {}
  BY HeldParts
<1>1. /\ k \in Seq(Fragment) /\ Apart(k)
      /\ Space(n)
      /\ n.cur = ListHead \/ OnRange(n)
      /\ n.cur # ListHead /\ k # <<>> => Last(k).end < n.offset
      /\ BlocksOf(k) \subseteq BlocksOf(f.loc)
      /\ BlocksOf(n.list) = BlocksOf(s.list) \cup (BlocksOf(f.loc) \ BlocksOf(k))
  BY <1>0, CutIs
<1>2. /\ e \in FileType /\ Apart(e.loc) /\ e.loc = k
      /\ e.stat = f.stat /\ e.start = f.start
      /\ e.open = f.open
      /\ e.size = size
  BY <1>0, CutFile
<1>3. /\ SizeOf(f.loc) \in Nat
      /\ SizeOf(k) = IF size <= SizeOf(f.loc) THEN size ELSE SizeOf(f.loc)
      /\ size >= 1 /\ f.loc # <<>> => k # <<>>
  BY <1>0, TruncatedSize
<1>4. InOrder(f.loc) => InOrder(k) /\ (k # <<>> => k[1].start = f.loc[1].start)
  BY <1>0, CutInOrder
<1>5. k # <<>> => f.loc # <<>>
  <2>1. k \in Seq(Fragment) /\ Len(k) \in 0..Len(f.loc)
    BY <1>0, TruncatedLocIs
  <2> HIDE DEF k
  <2>2. ASSUME f.loc = <<>> PROVE k = <<>>
    <3>1. Len(k) \in 0..0
      BY <2>1, <2>2
    <3> QED
      BY <3>1, <2>1, EmptySeq
  <2> QED
    BY <2>2
<1> HIDE DEF n, k, e
<1>6. FivePlaces(h.owned, BlocksOf(n.list), BlocksOf(e.loc), saved, gone)
  BY <1>1, <1>2, CutFromFile DEF Held
<1>7. e.loc # <<>> /\ ~h.spoilt => e.loc[1].start = e.start /\ InOrder(e.loc)
  BY <1>2, <1>4, <1>5 DEF Held
<1>8. Held(n, e, h, saved, gone)
  BY <1>1, <1>2, <1>3, <1>6, <1>7 DEF Held
<1>9. PlaceFor(e.loc, n)
  BY <1>1, <1>2 DEF PlaceFor
<1> QED
  BY <1>1, <1>2, <1>3, <1>8, <1>9 DEF n, k, e

(* Closing the file: its blocks go back, or stay in the recovered file, or *)
(* are lost; what is beyond its size goes back.                            *)
LEMMA CloseHeld ==
    ASSUME NEW s, NEW f, NEW g, NEW saved, NEW gone, Held(s, f, g, saved, gone),
           NEW e \in FileType, e.loc = <<>>, ~e.open
    PROVE  /\ Held(Reject(s, f), e, g, saved, gone)
           /\ \A size \in Nat :
                 LET n == TruncatedSpace(s, f.loc, size)
                     k == TruncatedLoc(f.loc, size)
                 IN  /\ Held(n, e, g, saved \cup BlocksOf(k), gone)
                     /\ Held(n, e, g, saved, gone \cup BlocksOf(k))
                     /\ k = <<>> => Held(n, e, g, saved, gone)
<1>0. /\ Space(s) /\ f \in FileType /\ f.loc \in Seq(Fragment) /\ Apart(f.loc)
      /\ BlocksOf(s.list) \cap BlocksOf(f.loc) = {}
      /\ f.stat \in Stats \cup {NoStat}
      /\ FivePlaces(g.owned, BlocksOf(s.list), BlocksOf(f.loc), saved, gone)
      /\ g \in GhostType
  BY HeldParts DEF Held
<1>1. Apart(<<>>) /\ BlocksOf(<<>>) = {}
  BY NoCellsNoBlocks DEF Apart
<1>2. ASSUME NEW n, Space(n), NEW sv, NEW gn,
             FivePlaces(g.owned, BlocksOf(n.list), {}, sv, gn)
      PROVE  Held(n, e, g, sv, gn)
  BY <1>0, <1>1, <1>2 DEF Held
<1>3. Held(Reject(s, f), e, g, saved, gone)
  <2> DEFINE n == Reject(s, f)
  <2>1. Space(n) /\ BlocksOf(n.list) = BlocksOf(s.list) \cup BlocksOf(f.loc)
    BY <1>0, RejectIs
  <2> HIDE DEF n
  <2> DEFINE o == g.owned
             F == BlocksOf(s.list)
             H == BlocksOf(f.loc)
  <2>2. FivePlaces(o, F \cup H, {}, saved, gone)
    <3>1. FivePlaces(o, F, H, saved, gone)
      BY <1>0
    <3> HIDE DEF o, F, H
    <3> QED
      BY <3>1 DEF FivePlaces
  <2>3. Held(n, e, g, saved, gone)
    BY <1>2, <2>1, <2>2
  <2> QED
    BY <2>3 DEF n
<1>4. ASSUME NEW size \in Nat
      PROVE  LET n == TruncatedSpace(s, f.loc, size)
                 k == TruncatedLoc(f.loc, size)
             IN  /\ Held(n, e, g, saved \cup BlocksOf(k), gone)
                 /\ Held(n, e, g, saved, gone \cup BlocksOf(k))
                 /\ k = <<>> => Held(n, e, g, saved, gone)
  <2> DEFINE n == TruncatedSpace(s, f.loc, size)
             k == TruncatedLoc(f.loc, size)
  <2>1. /\ Space(n) /\ BlocksOf(k) \subseteq BlocksOf(f.loc)
        /\ BlocksOf(n.list) = BlocksOf(s.list) \cup (BlocksOf(f.loc) \ BlocksOf(k))
    BY <1>0, TruncatedSpaceIs
  <2> HIDE DEF n, k
  <2>2. /\ FivePlaces(g.owned, BlocksOf(n.list), {}, saved \cup BlocksOf(k), gone)
        /\ FivePlaces(g.owned, BlocksOf(n.list), {}, saved, gone \cup BlocksOf(k))
    <3> DEFINE o == g.owned
               F == BlocksOf(s.list)
               H == BlocksOf(f.loc)
               X == BlocksOf(k)
    <3>1. FivePlaces(o, F, H, saved, gone) /\ X \subseteq H
      BY <1>0, <2>1
    <3>2. BlocksOf(n.list) = F \cup (H \ X)
      BY <2>1
    <3> HIDE DEF o, F, H, X
    <3>3. /\ FivePlaces(o, F \cup (H \ X), {}, saved \cup X, gone)
          /\ FivePlaces(o, F \cup (H \ X), {}, saved, gone \cup X)
      BY <3>1, ClosedFile
    <3> QED
      BY <3>2, <3>3 DEF o, X
  <2>3. k = <<>> => saved = saved \cup BlocksOf(k)
    BY <1>1
  <2>4. /\ Held(n, e, g, saved \cup BlocksOf(k), gone)
        /\ Held(n, e, g, saved, gone \cup BlocksOf(k))
    BY <1>2, <2>1, <2>2
  <2>5. k = <<>> => Held(n, e, g, saved, gone)
    BY <2>3, <2>4
  <2> QED
    BY <2>4, <2>5 DEF n, k
<1> QED
  BY <1>3, <1>4

-----------------------------------------------------------------------------
(* The steps                                                               *)

(* No file in progress.                                                    *)
LEMMA NothingHeld ==
    /\ NoFile \in FileType /\ NoFile.loc = <<>> /\ ~NoFile.open
    /\ NoFile.stat = NoStat /\ NoFile.size = 0 /\ NoFile.top = 0
    /\ SizeOf(<<>>) = 0 /\ Apart(<<>>)
<1>1. <<>> \in Seq(Fragment) /\ Apart(<<>>)
  BY EmptySeq DEF Apart
<1>2. SizeOf(<<>>) = 0
  <2>1. Len(<<>>) = 0
    OBVIOUS
  <2> QED
    BY <1>1, <2>1, SumsOf DEF SizeOf
<1>3. /\ NoFile.loc = <<>> /\ NoFile.stat = NoStat /\ NoFile.size = 0 /\ NoFile.top = 0
  BY DEF NoFile
<1>4. ~NoFile.open
  BY DEF NoFile
<1>5. NoFile \in FileType
  BY <1>1 DEF NoFile, FileType
<1> QED
  BY <1>1, <1>2, <1>3, <1>4, <1>5

(* The parts of the invariant that most steps need.                        *)
LEMMA InvParts ==
    ASSUME BfInv
    PROVE  /\ Held(space, file, ghost, out, lost)
           /\ Space(space) /\ space.list \in Lists /\ Len(space.list) \in Nat
           /\ space.cur \in 0..Len(space.list) /\ space.offset \in Nat
           /\ file \in FileType /\ file.loc \in Seq(Fragment) /\ Apart(file.loc)
           /\ BlocksOf(space.list) \cap BlocksOf(file.loc) = {}
           /\ BlocksOf(file.loc) \subseteq Disk /\ BlocksOf(space.list) \subseteq Disk
           /\ ghost \in GhostType /\ out \subseteq Disk
           /\ file.open \/ file.loc # <<>> => file.stat # NoStat
           /\ prev \in Freed..Len(space.list)
<1>1. Held(space, file, ghost, out, lost) /\ prev \in Freed..Len(space.list)
  BY DEF BfInv, BfHeld, BfShape
<1>2. /\ Space(space) /\ space.list \in Lists /\ space.offset \in Nat
      /\ file \in FileType /\ file.loc \in Seq(Fragment) /\ Apart(file.loc)
      /\ BlocksOf(space.list) \cap BlocksOf(file.loc) = {}
      /\ BlocksOf(file.loc) \subseteq Disk /\ BlocksOf(space.list) \subseteq Disk
  BY <1>1, HeldParts
<1>3. Len(space.list) \in Nat /\ space.cur \in 0..Len(space.list)
  BY <1>2, CellsOfLists DEF Space
<1>4. /\ ghost \in GhostType
      /\ FivePlaces(ghost.owned, BlocksOf(space.list), BlocksOf(file.loc), out, lost)
      /\ file.open \/ file.loc # <<>> => file.stat # NoStat
  BY <1>1 DEF Held
<1>5. out \subseteq Disk
  BY <1>4 DEF FivePlaces
<1> QED
  BY <1>1, <1>2, <1>3, <1>4, <1>5

LEMMA OpenKeeps ==
    ASSUME BfInv, Open
    PROVE  BfInv'
<1>1. /\ Space(space) /\ file = NoFile /\ pc = "open" /\ Len(space.list) \in Nat
      /\ space.cur \in 0..Len(space.list) /\ ghost \in GhostType
  BY HeldParts, CellsOfLists DEF BfInv, BfHeld, BfFile, Open, Held, Space
<1>2. /\ file' = NoFile /\ ghost' = ghost /\ levels' = levels /\ out' = out /\ lost' = lost
      /\ whole' = whole /\ lastEnd' = lastEnd /\ nextFile' = nextFile /\ counted' = counted
      /\ start' = start
  BY <1>1 DEF Open, search
<1>3. /\ Space(space)' /\ space'.list = space.list /\ prev' \in Freed..Len(space.list)
      /\ pc' \in {"open", "scan", "done"}
      /\ pc' = "scan" => OnRange(space')
  <2>1. CASE space.cur # ListHead /\ indStop = "OK"
    <3>1. space' = MoveTo(space, space.cur) /\ prev' = space.cur - 1 /\ pc' = "scan"
      BY <2>1 DEF Open
    <3>2. /\ Space(MoveTo(space, space.cur)) /\ MoveTo(space, space.cur).list = space.list
          /\ OnRange(MoveTo(space, space.cur))
      BY <2>1, <1>1, AtRange
    <3> QED
      BY <3>1, <3>2, <2>1, <1>1 DEF ListHead, Freed
  <2>2. CASE ~(space.cur # ListHead /\ indStop = "OK")
    <3>1. prev' = prev /\ pc' \in {"open", "done"}
      BY <2>2 DEF Open
    <3>2. prev \in Freed..Len(space.list)
      BY DEF BfInv, BfShape
    <3>3. space' = space \/ space' = Placed(space, Len(space.list), space.offset)
      BY <2>2, <1>1 DEF Open, Placed, Space
    <3>4. Space(space') /\ space'.list = space.list
      <4>1. space.offset \in Nat /\ Len(space.list) \in 0..Len(space.list)
        BY <1>1 DEF Space
      <4>2. /\ Space(Placed(space, Len(space.list), space.offset))
            /\ Placed(space, Len(space.list), space.offset).list = space.list
        BY <4>1, <1>1, Moved
      <4> QED
        BY <4>2, <3>3, <1>1
    <3> QED
      BY <3>1, <3>2, <3>4
  <2> QED
    BY <2>1, <2>2
<1>4. BfHeld'
  <2>1. Held(space, file, ghost, out, lost)
    BY DEF BfInv, BfHeld
  <2>2. Held(space', file, ghost, out, lost)
    BY <2>1, <1>1, <1>3, NothingHeld, HeldAlike
  <2> QED
    BY <2>2, <1>1, <1>2 DEF BfHeld
<1>5. BfShape'
  BY <1>2, <1>3 DEF BfInv, BfShape
<1>6. BfFile'
  BY <1>2, <1>3, NothingHeld DEF BfFile, Searching
<1>7. BfCalls'
  BY <1>2, <1>3 DEF BfInv, BfCalls, Searching
<1>8. BfPlace'
  BY <1>2, <1>3, NothingHeld DEF BfPlace, PlaceFor
<1> QED
  BY <1>4, <1>5, <1>6, <1>7, <1>8 DEF BfInv

LEMMA NextRangeKeeps ==
    ASSUME BfInv, NextRange
    PROVE  BfInv'
<1>1. /\ Space(space) /\ space.list \in Lists /\ Len(space.list) \in Nat
      /\ file.loc = <<>> /\ pc \in {"next", "ahead"} /\ ghost \in GhostType
      /\ prev \in Freed..Len(space.list) /\ space.offset \in Nat
      /\ out \subseteq Disk
  BY InvParts DEF BfInv, BfFile, NextRange
<1>2. /\ file' = NoFile /\ levels' = levels /\ out' = out /\ lost' = lost
      /\ whole' = whole /\ lastEnd' = -1 /\ nextFile' = 0 /\ counted' = FALSE
      /\ prev' = prev
  BY DEF NextRange, search
<1>3. Space(space') /\ space'.list = space.list /\ pc' \in {"open", "broken"}
  <2>1. CASE prev = Freed
    BY <2>1, <1>1 DEF NextRange
  <2>2. CASE prev # Freed
    <3> DEFINE to == IF GoesForward /\ NextMarked(space.list, prev) # 0
                     THEN NextMarked(space.list, prev) ELSE prev
    <3>1. prev \in 0..Len(space.list)
      BY <2>2, <1>1 DEF Freed
    <3>2. to \in 0..Len(space.list)
      BY <3>1, <1>1, NextMarkedIs
    <3>3. space' = [space EXCEPT !.cur = to, !.offset = 0] /\ pc' = "open"
      BY <2>2 DEF NextRange
    <3> HIDE DEF to
    <3>4. space' = Placed(space, to, 0)
      BY <3>3 DEF Placed
    <3>5. Space(Placed(space, to, 0)) /\ Placed(space, to, 0).list = space.list
      BY <3>2, <1>1, Moved
    <3> QED
      BY <3>3, <3>4, <3>5
  <2> QED
    BY <2>1, <2>2
<1>4. ghost' \in GhostType /\ ghost'.owned = ghost.owned
  <2>1. CASE prev = Freed
    BY <2>1, <1>1 DEF NextRange
  <2>2. CASE prev # Freed
    <3>1. ghost' = [ghost EXCEPT !.spoilt = FALSE, !.short = FALSE, !.before = out]
      BY <2>2 DEF NextRange
    <3> QED
      BY <3>1, <1>1 DEF GhostType
  <2> QED
    BY <2>1, <2>2
<1>5. BfHeld'
  <2>1. Held(space', NoFile, ghost', out, lost)
    <3>1. FivePlaces(ghost.owned, BlocksOf(space.list), BlocksOf(file.loc), out, lost)
      BY InvParts DEF Held
    <3> QED
      BY <3>1, <1>1, <1>3, <1>4, NothingHeld DEF Held
  <2> QED
    BY <2>1, <1>2 DEF BfHeld
<1>6. BfShape'
  <2>1. whole \in Seq(Disk) /\ levels \in Seq(LevelType)
    BY DEF BfInv, BfShape
  <2>2. lastEnd' \in Int /\ nextFile' \in Nat
    BY DEF NextRange
  <2>3. counted' \in BOOLEAN
    BY <1>2
  <2>4. prev' \in Freed..Len(space'.list)
    BY <1>1, <1>2, <1>3
  <2> QED
    BY <1>2, <1>3, <2>1, <2>2, <2>3, <2>4 DEF BfShape
<1>7. BfFile'
  BY <1>2, <1>3, NothingHeld DEF BfFile, Searching
<1>8. BfCalls'
  BY <1>2, <1>3 DEF BfInv, BfCalls, Searching
<1>9. BfPlace'
  BY <1>2, <1>3 DEF BfPlace
<1> QED
  BY <1>5, <1>6, <1>7, <1>8, <1>9 DEF BfInv

(* The innermost call and its callers.                                     *)
GoodCalls(l) == /\ l \in Seq(LevelType)
                /\ \A i \in 1..Len(l) : l[i].skipped >= -2

LEMMA HereIs ==
    ASSUME GoodCalls(levels), levels # <<>>
    PROVE  /\ Here \in LevelType /\ Here.skipped >= -2
           /\ GoodCalls(Outer) /\ Len(Outer) = Len(levels) - 1 /\ Len(levels) \in Nat \ {0}
<1>1. Len(levels) \in Nat \ {0} /\ Len(levels) \in 1..Len(levels)
  BY EmptySeq, LenProperties DEF GoodCalls
<1>2. Here \in LevelType /\ Here.skipped >= -2
  BY <1>1, ElementOfSeq DEF Here, GoodCalls
<1> DEFINE m == Len(levels) - 1
<1>3. m \in Nat /\ m <= Len(levels) /\ 1 \in 1..(Len(levels) + 1)
  BY <1>1
<1>4. /\ Outer \in Seq(LevelType) /\ Len(Outer) = m
      /\ \A i \in 1..m : Outer[i] = levels[i]
  <2>1. Outer = SubSeq(levels, 1, m)
    BY DEF Outer
  <2>2. m \in (1-1)..Len(levels)
    BY <1>3
  <2>3. \A i \in 1..m : levels[i] \in LevelType
    BY <1>3, <1>1, ElementOfSeq DEF GoodCalls
  <2> HIDE DEF m
  <2>4. levels \in Seq(LevelType)
    BY DEF GoodCalls
  <2> QED
    BY <2>1, <2>3, <2>4, <1>3, <1>1, SubSeqProperties
<1>5. GoodCalls(Outer)
  BY <1>1, <1>4 DEF GoodCalls
<1> QED
  BY <1>1, <1>2, <1>4, <1>5

(* A call more.                                                            *)
LEMMA CallsMore ==
    ASSUME NEW c, GoodCalls(c), NEW l \in LevelType, l.skipped >= -2
    PROVE  /\ GoodCalls(Append(c, l)) /\ Len(Append(c, l)) = Len(c) + 1
           /\ Append(c, l) # <<>> /\ Append(c, l)[Len(c) + 1] = l
<1> DEFINE m == Append(c, l)
<1>1. /\ m \in Seq(LevelType) /\ Len(m) = Len(c) + 1
      /\ \A i \in 1..Len(c) : m[i] = c[i]
      /\ m[Len(c) + 1] = l
  BY AppendProperties DEF GoodCalls
<1>2. Len(c) \in Nat /\ \A i \in 1..Len(c) : c[i].skipped >= -2
  BY LenProperties DEF GoodCalls
<1> HIDE DEF m
<1>3. \A i \in 1..Len(m) : m[i].skipped >= -2
  BY <1>1, <1>2
<1>4. m # <<>>
  BY <1>1, <1>2, EmptySeq
<1> QED
  BY <1>1, <1>3, <1>4 DEF m, GoodCalls

LEMMA SetHereIs ==
    ASSUME GoodCalls(levels), levels # <<>>, NEW l \in LevelType, l.skipped >= -2,
           SetHere(l)
    PROVE  GoodCalls(levels') /\ levels' # <<>> /\ Here' = l
<1>1. GoodCalls(Outer)
  BY HereIs
<1>2. /\ GoodCalls(Append(Outer, l)) /\ Len(Append(Outer, l)) = Len(Outer) + 1
      /\ Append(Outer, l) # <<>> /\ Append(Outer, l)[Len(Outer) + 1] = l
  BY <1>1, CallsMore
<1>3. levels' = Append(Outer, l)
  BY DEF SetHere
<1>4. Here' = levels'[Len(levels')]
  BY DEF Here
<1> HIDE DEF Outer
<1> QED
  BY <1>2, <1>3, <1>4

(* The fields of a call.                                                   *)
LEMMA LevelIs ==
    ASSUME NEW l \in LevelType
    PROVE  /\ /\ [l EXCEPT !.mode = "split"] \in LevelType
              /\ [l EXCEPT !.mode = "split"].skipped = l.skipped
           /\ \A n \in Nat :
                 /\ [l EXCEPT !.i = n] \in LevelType
                 /\ [l EXCEPT !.i = n].skipped = l.skipped
                 /\ [l EXCEPT !.at = n] \in LevelType
                 /\ [l EXCEPT !.at = n].skipped = l.skipped
           /\ \A k \in Int :
                 /\ [l EXCEPT !.skipped = k] \in LevelType
                 /\ [l EXCEPT !.skipped = k].skipped = k
                 /\ [l EXCEPT !.skipped = k].at = l.at
<1>1. /\ [l EXCEPT !.mode = "split"] \in LevelType
      /\ [l EXCEPT !.mode = "split"].skipped = l.skipped
  BY DEF LevelType
<1>2. ASSUME NEW n \in Nat
      PROVE  [l EXCEPT !.i = n] \in LevelType /\ [l EXCEPT !.i = n].skipped = l.skipped
  BY DEF LevelType
<1>3. ASSUME NEW n \in Nat
      PROVE  [l EXCEPT !.at = n] \in LevelType /\ [l EXCEPT !.at = n].skipped = l.skipped
  BY DEF LevelType
<1>4. ASSUME NEW k \in Int
      PROVE  /\ [l EXCEPT !.skipped = k] \in LevelType
             /\ [l EXCEPT !.skipped = k].skipped = k /\ [l EXCEPT !.skipped = k].at = l.at
  BY DEF LevelType
<1> QED
  BY <1>1, <1>2, <1>3, <1>4

(* The call returns without having found anything.                         *)
LEMMA ReturnIs ==
    ASSUME GoodCalls(levels), levels # <<>>, NEW code, ReturnNothing(code)
    PROVE  /\ GoodCalls(levels') /\ pc' \in {"level", "settle"}
           /\ pc' = "level" => levels' # <<>>
           /\ Len(levels) = 1 => pc' = "settle"
<1>1. GoodCalls(Outer) /\ Len(Outer) = Len(levels) - 1
  BY HereIs
<1>2. CASE Outer = <<>>
  <2>1. levels' = <<>> /\ pc' = "settle"
    BY <1>2 DEF ReturnNothing
  <2> QED
    BY <2>1, <1>1, <1>2
<1>3. CASE Outer # <<>>
  <2> DEFINE o == Outer
             k == Len(o)
             c == o[k]
             i == c.i + 1
             l == IF code = "ERANGE" /\ ~Here.tail THEN [c EXCEPT !.mode = "split"]
                  ELSE [c EXCEPT !.i = i]
  <2>1. pc' = "level" /\ levels' = [o EXCEPT ![k] = l]
    BY <1>3, Zenon DEF ReturnNothing
  <2>2. o \in Seq(LevelType) /\ k \in Nat \ {0} /\ c \in LevelType
          /\ c.skipped >= -2 /\ \A j \in 1..k : o[j].skipped >= -2
    BY <1>1, <1>3, EmptySeq, LenProperties, ElementOfSeq DEF GoodCalls
  <2>3. l \in LevelType /\ l.skipped >= -2
    <3>1. c \in LevelType
      BY <2>2
    <3>2. i \in Nat
      <4> HIDE DEF c
      <4> QED
        BY <3>1 DEF LevelType
    <3> HIDE DEF c, i, o, k
    <3>3. /\ [c EXCEPT !.mode = "split"] \in LevelType
          /\ [c EXCEPT !.mode = "split"].skipped = c.skipped
          /\ [c EXCEPT !.i = i] \in LevelType
          /\ [c EXCEPT !.i = i].skipped = c.skipped
      BY <3>1, <3>2, LevelIs
    <3> QED
      BY <3>3, <2>2
  <2>4. Len(levels) # 1
    BY <1>1, <1>3, EmptySeq, <2>2
  <2> HIDE DEF o, k, l
  <2>5. /\ levels' \in Seq(LevelType) /\ Len(levels') = Len(o)
        /\ \A j \in 1..Len(o) : levels'[j] = IF j = k THEN l ELSE o[j]
    BY <2>1, <2>2, <2>3, ExceptCells DEF k
  <2>6. GoodCalls(levels')
    BY <2>2, <2>3, <2>5 DEF GoodCalls, k
  <2>7. levels' # <<>>
    BY <2>2, <2>5, EmptySeq DEF k
  <2> QED
    BY <2>1, <2>4, <2>6, <2>7
<1> QED
  BY <1>2, <1>3

(* The same file with another error.                                       *)
LEMMA FileErr ==
    ASSUME NEW f \in FileType, NEW n \in Nat
    PROVE  LET e == [f EXCEPT !.err = n]
           IN  /\ e \in FileType /\ e.stat = f.stat /\ e.start = f.start /\ e.loc = f.loc
               /\ e.size = f.size /\ e.top = f.top
               /\ e.open = f.open
<1> DEFINE e == [f EXCEPT !.err = n]
<1>1. e \in FileType /\ e.stat = f.stat /\ e.start = f.start /\ e.loc = f.loc
        /\ e.size = f.size /\ e.top = f.top
  BY DEF FileType
<1>2. e.open = f.open
  BY DEF FileType
<1> QED
  BY <1>1, <1>2

(* The search looks at another call, and the file keeps its blocks.        *)
LEMMA QuietKeeps ==
    ASSUME BfInv, pc \in Searching, UNCHANGED << quiet, prev, start, ghost >>,
           Space(space'), space'.list = space.list,
           file' \in FileType, file'.stat = file.stat, file'.start = file.start,
           file'.loc = file.loc, file'.size = file.size,
           file'.open \/ pc' \notin Searching,
           GoodCalls(levels'),
           pc' \in {"level", "skip", "pad", "settle", "full", "broken"},
           pc' \in Searching => levels' # <<>> /\ (file.loc # <<>> \/ ghost.spoilt),
           pc' = "skip" \/ (pc' = "pad" /\ Here'.mode = "split") => Here'.at >= 1,
           pc' = "pad" => \/ space' = space /\ pc = "pad"
                          \/ /\ space'.cur # ListHead => OnRange(space')
                             /\ ~ghost.spoilt => PlaceFor(file.loc, space')
    PROVE  BfInv'
<1>1. /\ Held(space, file, ghost, out, lost) /\ ghost \in GhostType
      /\ file.open /\ file.stat # NoStat /\ prev \in Freed..Len(space.list)
  BY InvParts DEF BfInv, BfFile
<1>2. /\ out' = out /\ lost' = lost /\ ghost' = ghost /\ prev' = prev /\ start' = start
      /\ whole' = whole /\ lastEnd' = lastEnd /\ nextFile' = nextFile /\ counted' = counted
  BY DEF quiet
<1>3. BfHeld'
  <2>1. Held(space', file', ghost, out, lost)
    BY <1>1, HeldAlike
  <2> QED
    BY <2>1, <1>2 DEF BfHeld
<1>4. BfShape'
  BY <1>1, <1>2 DEF BfInv, BfShape, GoodCalls
<1>5. BfFile'
  BY DEF BfFile, Searching
<1>6. BfCalls'
  <2>1. start \in Freed..Len(space.list)
    BY DEF BfInv, BfCalls
  <2> QED
    BY <1>2, <2>1 DEF BfCalls, GoodCalls, Searching
<1>7. BfPlace'
  BY <1>2 DEF BfInv, BfPlace
<1> QED
  BY <1>3, <1>4, <1>5, <1>6, <1>7 DEF BfInv

(* A step of the search has a call, and a file that is open.               *)
LEMMA CallParts ==
    ASSUME BfInv, pc \in Searching
    PROVE  /\ GoodCalls(levels) /\ levels # <<>>
           /\ Here \in LevelType /\ Here.skipped >= -2
           /\ start \in Freed..Len(space.list)
           /\ file.open /\ file.stat # NoStat
           /\ file.loc = <<>> /\ ~ghost.spoilt
                 => /\ pc = "level" /\ Len(levels) = 1
                    /\ Here.mode = "split" /\ Here.at = 0
<1>1. GoodCalls(levels) /\ levels # <<>>
  BY DEF BfInv, BfShape, BfCalls, GoodCalls
<1>2. file.open /\ file.stat # NoStat
  BY InvParts DEF BfInv, BfFile
<1> QED
  BY <1>1, <1>2, HereIs DEF BfInv, BfCalls

LEMMA SplitAtKeeps ==
    ASSUME BfInv, SplitAt
    PROVE  BfInv'
<1>1. pc = "level" /\ pc \in Searching /\ UNCHANGED << quiet, space, prev, start, ghost >>
  BY DEF SplitAt, Searching
<1>2. /\ Space(space) /\ file \in FileType
      /\ GoodCalls(levels) /\ levels # <<>> /\ Here \in LevelType
      /\ file.loc = <<>> /\ ~ghost.spoilt => Len(levels) = 1 /\ Here.at = 0
  BY <1>1, InvParts, CallParts
<1>3. CASE Attempts(Here)
  <2> DEFINE b == TruncatedLoc(file.loc, Here.at) = <<>>
             k == -2
             l == [Here EXCEPT !.skipped = k, !.none = b]
             e == [file EXCEPT !.err = 0]
  <2>1. pc' = "skip" /\ file' = e /\ SetHere(l)
    BY <1>3 DEF SplitAt
  <2>2. e \in FileType /\ e.stat = file.stat /\ e.start = file.start /\ e.loc = file.loc
          /\ e.size = file.size
    BY <1>2, FileErr
  <2>3. e.open = file.open
    BY <1>2, FileErr
  <2>4. b \in BOOLEAN
    OBVIOUS
  <2>11. k \in Int /\ k >= -2
    OBVIOUS
  <2>5. Here.at >= 1
    BY <1>3 DEF Attempts
  <2> HIDE DEF b, e, k
  <2>6. l \in LevelType /\ l.skipped = k /\ l.at = Here.at
    <3>1. Here \in LevelType
      BY <1>2
    <3>3. PICK c \in BOOLEAN : c = b
      BY <2>4, Zenon
    <3>4. l = [Here EXCEPT !.skipped = k, !.none = c]
      BY <3>3, Zenon
    <3> HIDE DEF l
    <3> QED
      BY <3>1, <3>4, <2>11 DEF LevelType
  <2> HIDE DEF l
  <2>7. GoodCalls(levels') /\ levels' # <<>> /\ Here' = l
    BY <1>2, <2>1, <2>11, <2>6, SetHereIs
  <2>8. Here'.at >= 1
    BY <2>5, <2>6, <2>7
  <2>9. file.loc # <<>> \/ ghost.spoilt
    BY <1>2, <2>5
  <2>10. file'.open
    BY <1>1, <2>1, <2>3, CallParts
  <2> QED
    BY <1>1, <1>2, <2>1, <2>2, <2>7, <2>8, <2>9, <2>10, QuietKeeps
<1>4. CASE ~Attempts(Here)
  <2>1. ReturnNothing("ENOENT") /\ file' = file
    BY <1>4 DEF SplitAt
  <2>2. /\ GoodCalls(levels') /\ pc' \in {"level", "settle"}
        /\ pc' = "level" => levels' # <<>>
        /\ Len(levels) = 1 => pc' = "settle"
    BY <1>2, <2>1, ReturnIs
  <2>3. pc' \in Searching => levels' # <<>> /\ (file.loc # <<>> \/ ghost.spoilt)
    BY <1>2, <2>2 DEF Searching
  <2>4. file'.open
    BY <1>1, <2>1, CallParts
  <2> QED
    BY <1>1, <1>2, <2>1, <2>2, <2>3, <2>4, QuietKeeps
<1> QED
  BY <1>3, <1>4

LEMMA SkipForgetsBlocksKeeps ==
    ASSUME BfInv, SkipForgetsBlocks
    PROVE  BfInv'
<1>1. /\ pc \in Searching /\ UNCHANGED << quiet, space, prev, start, file, levels, ghost >>
      /\ pc' = "broken"
  BY DEF SkipForgetsBlocks, Searching
<1>2. Space(space) /\ file \in FileType /\ GoodCalls(levels)
  BY <1>1, InvParts, CallParts
<1> QED
  BY <1>1, <1>2, QuietKeeps DEF Searching

LEMMA NoMoreSkipsKeeps ==
    ASSUME BfInv, NoMoreSkips
    PROVE  BfInv'
<1>1. /\ pc = "skip" /\ pc \in Searching
      /\ UNCHANGED << quiet, space, prev, start, file, ghost >>
  BY DEF NoMoreSkips, Searching
<1>2. /\ Space(space) /\ file \in FileType
      /\ GoodCalls(levels) /\ levels # <<>> /\ Here \in LevelType /\ Here.skipped >= -2
      /\ file.loc # <<>> \/ ghost.spoilt
      /\ Here.at >= 1 /\ file.open
  BY <1>1, InvParts, CallParts DEF BfInv, BfCalls
<1>3. CASE file.err > 0 /\ file.err < Half * Here.at
  <2>1. ReturnNothing("ERANGE")
    BY <1>3 DEF NoMoreSkips
  <2>2. /\ GoodCalls(levels') /\ pc' \in {"level", "settle"}
        /\ pc' = "level" => levels' # <<>>
    BY <1>2, <2>1, ReturnIs
  <2> QED
    BY <1>1, <1>2, <2>2, QuietKeeps DEF Searching
<1>4. CASE ~(file.err > 0 /\ file.err < Half * Here.at)
  <2> DEFINE n == Here.at - 1
             l == [Here EXCEPT !.at = n]
  <2>1. pc' = "level" /\ SetHere(l)
    BY <1>4 DEF NoMoreSkips
  <2>2. n \in Nat
    BY <1>2 DEF LevelType
  <2> HIDE DEF n
  <2>3. l \in LevelType /\ l.skipped >= -2
    BY <1>2, <2>2, LevelIs
  <2> HIDE DEF l
  <2>4. GoodCalls(levels') /\ levels' # <<>>
    BY <1>2, <2>1, <2>3, SetHereIs
  <2> QED
    BY <1>1, <1>2, <2>1, <2>4, QuietKeeps
<1> QED
  BY <1>3, <1>4

LEMMA FastGivesUpKeeps ==
    ASSUME BfInv, FastGivesUp
    PROVE  BfInv'
<1> DEFINE l == [Here EXCEPT !.mode = "split"]
<1>1. /\ pc = "level" /\ pc \in Searching /\ pc' = pc /\ Here.mode = "fast"
      /\ UNCHANGED << quiet, space, prev, start, file, ghost >> /\ SetHere(l)
  BY DEF FastGivesUp, Searching
<1>2. /\ Space(space) /\ file \in FileType
      /\ GoodCalls(levels) /\ levels # <<>> /\ Here \in LevelType /\ Here.skipped >= -2
      /\ file.loc # <<>> \/ ghost.spoilt
      /\ file.open
  BY <1>1, InvParts, CallParts
<1>3. l \in LevelType /\ l.skipped >= -2
  BY <1>2, LevelIs
<1> HIDE DEF l
<1>4. GoodCalls(levels') /\ levels' # <<>>
  BY <1>1, <1>2, <1>3, SetHereIs
<1> QED
  BY <1>1, <1>2, <1>4, QuietKeeps

LEMMA FillBehindTheEndKeeps ==
    ASSUME BfInv, FillBehindTheEnd
    PROVE  BfInv'
<1>1. /\ pc \in Searching /\ UNCHANGED << quiet, space, prev, start, file, levels, ghost >>
      /\ pc' = "broken"
  BY DEF FillBehindTheEnd, Searching
<1>2. Space(space) /\ file \in FileType /\ GoodCalls(levels)
  BY <1>1, InvParts, CallParts
<1> QED
  BY <1>1, <1>2, QuietKeeps DEF Searching

(* fwrite fails in photorec_bf_frag_fast or photorec_bf_pad.               *)
LEMMA WriteFailsKeeps ==
    ASSUME BfInv, pc \in Searching, WriteFails
    PROVE  BfInv'
<1> DEFINE e == [file EXCEPT !.open = FALSE]
<1>1. /\ UNCHANGED << quiet, space, prev, start, ghost >>
      /\ pc' = "full" /\ file' = e /\ levels' = <<>>
  BY DEF WriteFails
<1>2. Space(space) /\ file \in FileType
  BY InvParts
<1>3. e \in FileType /\ e.stat = file.stat /\ e.start = file.start /\ e.loc = file.loc
        /\ e.size = file.size
  BY <1>2 DEF FileType
<1>4. GoodCalls(<<>>)
  <2>1. Len(<<>>) = 0 /\ <<>> \in Seq(LevelType)
    BY EmptySeq
  <2> QED
    BY <2>1 DEF GoodCalls
<1> HIDE DEF e
<1> QED
  BY <1>1, <1>2, <1>3, <1>4, QuietKeeps DEF Searching

LEMMA SkipGapKeeps ==
    ASSUME BfInv, SkipGap
    PROVE  BfInv'
<1> DEFINE n == Here.extra - Here.i
           s == Skip(space, n)
<1>1. /\ pc = "fill" /\ pc \in Searching /\ space' = s /\ pc' = "pad"
      /\ UNCHANGED << quiet, prev, start, file, levels, ghost >>
  BY DEF SkipGap, BeginPad, Searching
<1>2. /\ Space(space) /\ file \in FileType /\ file.loc \in Seq(Fragment)
      /\ GoodCalls(levels) /\ levels # <<>> /\ Here \in LevelType
      /\ file.loc # <<>> \/ ghost.spoilt
      /\ file.open
  BY <1>1, InvParts, CallParts
<1>3. /\ space.cur = ListHead \/ OnRange(space)
      /\ ~ghost.spoilt => PlaceFor(file.loc, space)
  BY <1>1 DEF BfInv, BfPlace
<1>4. n \in Nat
  BY <1>1, <1>2 DEF BfInv, BfCalls, LevelType
<1> HIDE DEF n
<1>5. /\ Space(s) /\ s.list = space.list /\ NotBefore(s, space.offset)
      /\ space.cur = ListHead => s.cur = ListHead
  BY <1>2, <1>3, <1>4, SkipIs
<1> HIDE DEF s
<1>6. ~ghost.spoilt => PlaceFor(file.loc, s)
  BY <1>2, <1>3, <1>5, PlaceFurther
<1>7. s.cur # ListHead => OnRange(s)
  BY <1>5 DEF NotBefore
<1>8. Here' = Here /\ Here.mode = "fast"
  BY <1>1 DEF Here, BfInv, BfCalls
<1> QED
  BY <1>1, <1>2, <1>5, <1>6, <1>7, <1>8, QuietKeeps

(* What the checkers say.                                                  *)
LEMMA GoodBlocksIs ==
    ASSUME whole \in Seq(Disk), NEW loc \in Seq(Fragment), Apart(loc)
    PROVE  GoodBlocks(loc) \in Nat /\ GoodBlocks(loc) <= SizeOf(loc)
<1> DEFINE m == Min({SizeOf(loc), Len(whole)})
           I == { n \in 0..m : \A k \in 1..n : BlockAt(loc, k) = whole[k] }
<1>1. SizeOf(loc) \in Nat /\ Len(whole) \in Nat
  BY TruncatedSize, LenProperties
<1>2. m \in Nat /\ m <= SizeOf(loc)
  <2> DEFINE a == SizeOf(loc)
             b == Len(whole)
  <2>1. a \in Nat /\ b \in Nat
    BY <1>1
  <2> HIDE DEF a, b
  <2>2. Min({a, b}) = IF a <= b THEN a ELSE b
    <3>1. a \in Int /\ b \in Int
      BY <2>1
    <3> QED
      BY <3>1, OfTwo
  <2>3. Min({a, b}) \in Nat /\ Min({a, b}) <= a
    BY <2>1, <2>2
  <2> QED
    BY <2>3 DEF a, b
<1>3. I \subseteq 0..m /\ 0 \in I
  BY <1>2
<1>4. GoodBlocks(loc) = Max(I)
  BY DEF GoodBlocks
<1> HIDE DEF I, m
<1>5. Max(I) \in I
  BY <1>2, <1>3, MaxOfCells
<1>6. Max(I) \in 0..m
  BY <1>3, <1>5
<1> QED
  BY <1>1, <1>2, <1>4, <1>6

LEMMA ReportsIs ==
    ASSUME BfInv, NEW r \in Reports(file)
    PROVE  /\ r.err \in Nat /\ r.ok \in Nat /\ r.extra \in Nat
           /\ file.top = file.size => r.err <= Half * file.size
           /\ r \in [err : Nat, ok : Nat, extra : Nat]
<1>1. /\ whole \in Seq(Disk) /\ file.loc \in Seq(Fragment) /\ Apart(file.loc)
      /\ file.size \in Nat /\ file.top \in Nat
  BY InvParts DEF BfInv, BfShape, FileType
<1>2. CASE ~AnyAnswer
  <2> DEFINE G == GoodBlocks(file.loc)
  <2>1. G \in Nat
    BY <1>1, GoodBlocksIs
  <2>2. PICK more \in 0..(Half - 1) :
           r = [err |-> IF Complete(file.loc) THEN 0
                        ELSE Min({Half * G + more, Half * file.size}),
                ok |-> 0, extra |-> 0]
    BY <1>2 DEF Reports
  <2> HIDE DEF G
  <2>3. /\ Half * G + more \in Int /\ Half * file.size \in Int
        /\ Half * G + more \in Nat /\ Half * file.size \in Nat /\ more \in Nat
    BY <2>1, <1>1 DEF Half
  <2> DEFINE q == Min({Half * G + more, Half * file.size})
  <2>4. q \in Nat /\ q <= Half * file.size
    <3> DEFINE x == Half * G + more
               y == Half * file.size
    <3>1. x \in Nat /\ y \in Nat
      BY <2>3
    <3> HIDE DEF x, y
    <3>2. Min({x, y}) = IF x <= y THEN x ELSE y
      <4>1. x \in Int /\ y \in Int
        BY <3>1
      <4> QED
        BY <4>1, OfTwo
    <3>3. Min({x, y}) \in Nat /\ Min({x, y}) <= y
      BY <3>1, <3>2
    <3> QED
      BY <3>3 DEF x, y
  <2>5. /\ r.err = IF Complete(file.loc) THEN 0 ELSE q
        /\ r.ok = 0 /\ r.extra = 0
    BY <2>2
  <2> HIDE DEF q
  <2>6. r \in [err : Nat, ok : Nat, extra : Nat]
    <3> DEFINE x == IF Complete(file.loc) THEN 0 ELSE q
    <3>1. x \in Nat
      BY <2>4
    <3>2. r = [err |-> x, ok |-> 0, extra |-> 0]
      BY <2>2 DEF q
    <3> HIDE DEF x
    <3> QED
      BY <3>1, <3>2
  <2> QED
    BY <2>3, <2>4, <2>5, <2>6
<1>3. CASE AnyAnswer
  <2> DEFINE Y == {0, 1} \cup { Half * n : n \in 1..file.top }
             Z == {0} \cup Extras
  <2>1. r \in [err : 0..(Half * file.top), ok : Y, extra : Z]
    BY <1>3 DEF Reports
  <2>2. Y \subseteq Nat /\ Z \subseteq Nat
    BY <1>1, BruteForceAssumption DEF Half
  <2> HIDE DEF Y, Z
  <2>3. r.err \in 0..(Half * file.top) /\ r.ok \in Y /\ r.extra \in Z
    BY <2>1
  <2>4. 0..(Half * file.top) \subseteq Nat
    BY <1>1 DEF Half
  <2>5. r \in [err : Nat, ok : Nat, extra : Nat]
    BY <2>1, <2>2, <2>4
  <2> QED
    BY <2>2, <2>3, <2>5, <1>1 DEF Half
<1> QED
  BY <1>2, <1>3

(* A call that begins.                                                     *)
LEMMA LevelBegins ==
    ASSUME NEW r, r.err \in Nat, r.ok \in Nat, r.extra \in Nat, NEW frag \in Nat,
           NEW tail \in BOOLEAN
    PROVE  /\ Level(r, frag, tail) \in LevelType
           /\ Level(r, frag, tail).skipped >= -2
           /\ Level(r, frag, tail).at = r.err \div Half
           /\ r.err = 0 => Level(r, frag, tail).mode = "split"
<1> DEFINE fast == r.extra > 0 /\ r.err \div Half > r.ok \div Half /\ r.ok > 0
           o == IF fast THEN r.ok ELSE 0
           x == IF fast THEN r.extra ELSE 0
           m == IF fast THEN "fast" ELSE "split"
           a == r.err \div Half
           k == -2
           l == Level(r, frag, tail)
<1>1. o \in Nat /\ x \in Nat /\ m \in {"fast", "split"} /\ a \in Nat /\ k \in Int /\ k >= -2
  BY DEF Half
<1>2. r.err = 0 => m = "split"
  BY DEF Half
<1>3. l = [frag |-> frag, tail |-> tail, err |-> r.err, ok |-> o, extra |-> x,
           mode |-> m, i |-> 0, at |-> a, skipped |-> k, none |-> FALSE]
  BY DEF Level
<1> HIDE DEF o, x, m, a, k, l
<1>4. l \in LevelType /\ l.skipped = k /\ l.at = a /\ l.mode = m
  BY <1>1, <1>3 DEF LevelType
<1> QED
  BY <1>1, <1>2, <1>4 DEF a, l

(* The size of a closed file.                                              *)
LEMMA FinalSizesIs ==
    ASSUME BfInv, NEW size \in FinalSizes(file)
    PROVE  /\ size \in Nat
           /\ file.loc = <<>> /\ file.size = SizeOf(file.loc) => size = 0
<1>1. /\ whole \in Seq(Disk) /\ file.loc \in Seq(Fragment) /\ Apart(file.loc)
      /\ file.size \in Nat
  BY InvParts DEF BfInv, BfShape, FileType
<1>2. GoodBlocks(file.loc) \in Nat /\ GoodBlocks(file.loc) <= SizeOf(file.loc)
  BY <1>1, GoodBlocksIs
<1>3. file.loc = <<>> => SizeOf(file.loc) = 0
  BY NothingHeld
<1>4. CASE ~file.open
  BY <1>1, <1>3, <1>4 DEF FinalSizes
<1>5. CASE file.open /\ AnyAnswer
  BY <1>1, <1>3, <1>5 DEF FinalSizes
<1>6. CASE file.open /\ ~AnyAnswer
  BY <1>1, <1>2, <1>3, <1>6 DEF FinalSizes, Complete
<1> QED
  BY <1>4, <1>5, <1>6

(* One call.                                                               *)
LEMMA OneCall ==
    ASSUME NEW l \in LevelType, l.skipped >= -2
    PROVE  /\ GoodCalls(<<l>>) /\ <<l>> # <<>> /\ Len(<<l>>) = 1 /\ <<l>>[1] = l
  BY DEF GoodCalls

(* The next marked range is where a position can be.                       *)
LEMMA NextFileIs ==
    ASSUME BfInv, NEW c \in 0..Len(space.list)
    PROVE  LET next == NextMarked(space.list, c)
           IN  (IF next = 0 THEN 0 ELSE space.list[next].start) \in Nat
<1>1. space.list \in Lists
  BY InvParts
<1>2. NextMarked(space.list, c) \in 0..Len(space.list)
  BY <1>1, NextMarkedIs
<1> QED
  BY <1>1, <1>2, CellsOfLists

LEMMA BeginningIs ==
    ASSUME BfInv
    PROVE  Beginning(file) \subseteq Disk
<1>1. /\ file.loc \in Seq(Fragment) /\ Apart(file.loc) /\ BlocksOf(file.loc) \subseteq Disk
  BY InvParts
<1>2. ASSUME NEW i \in DOMAIN file.loc PROVE file.loc[i].start \in BlocksOf(file.loc)
  <2>1. /\ i \in 1..Len(file.loc) /\ file.loc[i].start \in Nat /\ file.loc[i].end \in Nat
    BY <1>1, FragmentCells
  <2>2. file.loc[i].start <= file.loc[i].end
    BY <2>1, <1>1 DEF Apart
  <2> QED
    BY <2>1, <2>2 DEF BlocksOf, Extent
<1> QED
  BY <1>1, <1>2 DEF Beginning

LEMMA FinishWithErrorKeeps ==
    ASSUME BfInv, FinishWithError
    PROVE  BfInv'
<1>1. /\ pc = "finish" /\ file.open /\ pc' = "level"
      /\ prev' = SameCell(space.list, space'.list, prev) /\ start' = space'.cur
      /\ UNCHANGED << headers, whole, phase, indStop, pad, todo, lastEnd, counted, out, lost >>
      /\ LET next == NextMarked(space.list, space.cur)
         IN  nextFile' = IF next = 0 THEN 0 ELSE space.list[next].start
  BY DEF FinishWithError
<1>2. PICK r \in Reports(file) :
         LET size == r.err \div Half
             there == [r EXCEPT !.err = Half * size, !.ok = Min({@, Half * size})]
         IN  /\ r.err > 0
             /\ file' = Cut([file EXCEPT !.err = Half * size], size)
             /\ levels' = << Level(there, 0, FALSE) >>
             /\ space' = CutSpace(space, file, size)
             /\ ghost' = IF size = 0 THEN [ghost EXCEPT !.unmarked = @ \cup Beginning(file)]
                         ELSE ghost
  BY DEF FinishWithError
<1> DEFINE size == r.err \div Half
           b == Half * size
           k == Min({r.ok, b})
           e == [file EXCEPT !.err = b]
           l == Level([r EXCEPT !.err = b, !.ok = k], 0, FALSE)
<1>3. /\ Held(space, file, ghost, out, lost) /\ Space(space) /\ file \in FileType
      /\ file.stat # NoStat /\ ghost \in GhostType /\ file.size \in Nat
      /\ space.cur \in 0..Len(space.list)
  BY <1>1, InvParts DEF FileType
<1>4. /\ r.err \in Nat /\ r.ok \in Nat /\ r.extra \in Nat /\ r.err <= Half * file.size
      /\ r \in [err : Nat, ok : Nat, extra : Nat]
  BY <1>1, ReportsIs DEF BfInv, BfFile
<1>5. size \in Nat /\ b \in Nat /\ size <= file.size /\ (size = 0 => b = 0)
  BY <1>3, <1>4 DEF Half
<1>6. /\ file' = Cut(e, size) /\ space' = CutSpace(space, file, size)
      /\ ghost' = IF size = 0 THEN [ghost EXCEPT !.unmarked = @ \cup Beginning(file)]
                  ELSE ghost
  BY <1>2
<1>7. levels' = <<l>>
  BY <1>2
<1> HIDE DEF size
<1>8. k \in Nat
  <2>1. r.ok \in Int /\ b \in Int
    BY <1>4, <1>5
  <2> HIDE DEF b
  <2>2. Min({r.ok, b}) = IF r.ok <= b THEN r.ok ELSE b
    BY <2>1, OfTwo
  <2> QED
    BY <2>2, <1>4, <1>5
<1> HIDE DEF b, k
<1>9. l \in LevelType /\ l.skipped >= -2 /\ (b = 0 => l.at = 0 /\ l.mode = "split")
  <2> DEFINE t == [r EXCEPT !.err = b, !.ok = k]
  <2>2. t.err = b /\ t.ok = k /\ t.extra = r.extra
    BY <1>4
  <2> HIDE DEF t
  <2>3. /\ Level(t, 0, FALSE) \in LevelType /\ Level(t, 0, FALSE).skipped >= -2
        /\ Level(t, 0, FALSE).at = t.err \div Half
        /\ t.err = 0 => Level(t, 0, FALSE).mode = "split"
    BY <2>2, <1>4, <1>5, <1>8, LevelBegins
  <2>4. 0 \div Half = 0
    BY DEF Half
  <2> QED
    BY <2>2, <2>3, <2>4 DEF t
<1> HIDE DEF l
<1>10. GoodCalls(levels') /\ levels' # <<>> /\ Len(levels') = 1 /\ Here' = l
  BY <1>7, <1>9, OneCall DEF Here
<1>11. /\ e \in FileType /\ e.stat = file.stat /\ e.start = file.start /\ e.loc = file.loc
       /\ e.size = file.size
  BY <1>3, <1>5, FileErr
<1>12. e.open = file.open
  BY <1>3, <1>5, FileErr
<1> HIDE DEF e
<1>13. ~ghost.short => size <= SizeOf(file.loc)
  BY <1>1, <1>5 DEF BfInv, BfFile
<1>14. file.loc # <<>> \/ ghost.spoilt
  BY <1>1, <1>3 DEF BfInv, BfFile
<1>15. /\ ghost' \in GhostType /\ ghost'.owned = ghost.owned
       /\ ghost'.spoilt = ghost.spoilt
  <2> DEFINE U == ghost.unmarked \cup Beginning(file)
  <2>1. U \subseteq Disk
    BY <1>3, BeginningIs DEF GhostType
  <2>2. ghost' = IF size = 0 THEN [ghost EXCEPT !.unmarked = U] ELSE ghost
    BY <1>6
  <2> HIDE DEF U
  <2> QED
    BY <2>1, <2>2, <1>3 DEF GhostType
<1>16. ghost'.short = ghost.short
  BY <1>6, <1>3 DEF GhostType
<1>17. Held(space, e, ghost, out, lost)
  <2>1. e.open => e.stat # NoStat
    BY <1>3, <1>11
  <2> QED
    BY <2>1, <1>1, <1>3, <1>11, HeldAlike
<1>18. /\ Held(CutSpace(space, e, size), Cut(e, size), ghost', out, lost)
       /\ size >= 1 /\ e.loc # <<>> => Cut(e, size).loc # <<>>
  BY <1>3, <1>5, <1>11, <1>13, <1>15, <1>16, <1>17, CutHeld
<1>19. CutSpace(space, e, size) = space'
  BY <1>6, <1>11 DEF CutSpace
<1>20. BfHeld'
  BY <1>1, <1>6, <1>18, <1>19 DEF BfHeld
<1>21. Space(space') /\ space'.list \in Lists /\ space'.cur \in 0..Len(space'.list)
  BY <1>18, <1>19 DEF Held, Space
<1>22. BfShape'
  <2>1. prev' \in Freed..Len(space'.list)
    BY <1>1, <1>21, SameCellIs
  <2>2. nextFile' \in Nat
    BY <1>1, <1>3, NextFileIs
  <2> QED
    BY <2>1, <2>2, <1>1, <1>10 DEF BfInv, BfShape, GoodCalls
<1>23. file'.open
  BY <1>1, <1>6, <1>11, <1>12, <1>5, CutFile, InvParts
<1>24. BfFile'
  BY <1>1, <1>23 DEF BfFile, Searching
<1>25. BfCalls'
  <2>1. start' \in Freed..Len(space'.list)
    BY <1>1, <1>21 DEF Freed
  <2>2. file'.loc = <<>> /\ ~ghost'.spoilt => size = 0
    BY <1>5, <1>6, <1>11, <1>14, <1>15, <1>18
  <2>3. size = 0 => Here'.mode = "split" /\ Here'.at = 0
    BY <1>5, <1>9, <1>10
  <2>4. /\ pc' = "level" /\ levels' # <<>> /\ Len(levels') = 1
        /\ \A i \in 1..Len(levels') : levels'[i].skipped >= -2
    BY <1>1, <1>10 DEF GoodCalls
  <2> QED
    BY <2>1, <2>2, <2>3, <2>4 DEF BfCalls
<1>26. BfPlace'
  BY <1>1 DEF BfPlace
<1> QED
  BY <1>20, <1>22, <1>24, <1>25, <1>26 DEF BfInv

(* The cells the walk and the search start from, after the list changed.   *)
LEMMA Followed ==
    ASSUME FollowCells, Space(space')
    PROVE  prev' \in Freed..Len(space'.list) /\ start' \in Freed..Len(space'.list)
<1>1. space'.list \in Lists
  BY DEF Space
<1> QED
  BY <1>1, SameCellIs DEF FollowCells

(* Any way the loop of photorec_bf_frag moves on.                          *)
LEMMA SkipsOn ==
    ASSUME NEW s, Space(s), s.cur = ListHead \/ OnRange(s), NEW n \in Int, n >= -2,
           NEW t, t = IF n = -2 THEN s ELSE IF n = -1 THEN NextHeader(s) ELSE Skip(s, n)
    PROVE  /\ Space(t) /\ t.list = s.list /\ NotBefore(t, s.offset)
           /\ s.cur = ListHead => t.cur = ListHead
<1>1. CASE n = -2
  <2>1. s.offset \in Nat
    BY DEF Space
  <2> QED
    BY <1>1, <2>1 DEF NotBefore
<1>2. CASE n = -1
  <2>1. t = NextHeader(s)
    BY <1>2
  <2> QED
    BY <2>1, HeaderGoesOn
<1>3. CASE n >= 0
  <2>1. n \in Nat /\ t = Skip(s, n)
    BY <1>3
  <2> QED
    BY <2>1, SkipIs
<1> QED
  BY <1>1, <1>2, <1>3

LEMMA TrySkipKeeps ==
    ASSUME BfInv, TrySkip
    PROVE  BfInv'
<1> DEFINE at == Here.at
           n == Here.skipped
           b == CutSpace(space, file, at)
           c == Cut(file, at)
<1>1. /\ pc = "skip" /\ pc \in Searching /\ FollowCells /\ UNCHANGED << quiet, todo >>
      /\ file' = [c EXCEPT !.err = 0]
      /\ space' = IF n = -2 THEN b ELSE IF n = -1 THEN NextHeader(b) ELSE Skip(b, n)
      /\ ghost' = [ghost EXCEPT !.short = @ \/ SizeOf(file.loc) < at]
      /\ IF n > 0 /\ space'.cur = ListHead
         THEN ReturnNothing("ENOENT") /\ UNCHANGED pad
         ELSE BeginPad(Half * at) /\ UNCHANGED levels
  BY DEF TrySkip, Searching
<1>2. /\ Held(space, file, ghost, out, lost) /\ ghost \in GhostType
      /\ GoodCalls(levels) /\ levels # <<>> /\ Here \in LevelType /\ n >= -2
      /\ file.open /\ file.stat # NoStat /\ (file.loc # <<>> \/ ghost.spoilt)
      /\ at >= 1 /\ file \in FileType /\ file.loc \in Seq(Fragment) /\ Apart(file.loc)
  BY <1>1, InvParts, CallParts DEF BfInv, BfCalls
<1>3. at \in Nat /\ n \in Int /\ SizeOf(file.loc) \in Nat
  BY <1>2, TruncatedSize DEF LevelType
<1> HIDE DEF at, n
<1>4. /\ ghost' \in GhostType /\ ghost'.owned = ghost.owned
      /\ ghost'.spoilt = ghost.spoilt
  <2> DEFINE z == ghost.short \/ SizeOf(file.loc) < at
  <2>1. PICK y \in BOOLEAN : y = z
    OBVIOUS
  <2>2. ghost' = [ghost EXCEPT !.short = y]
    BY <2>1, <1>1, Zenon
  <2> QED
    BY <2>2, <1>2 DEF GhostType
<1>5. ~ghost'.short => at <= SizeOf(file.loc)
  <2>1. ASSUME SizeOf(file.loc) < at PROVE ghost'.short
    BY <2>1, <1>1, <1>2 DEF GhostType
  <2> QED
    BY <2>1, <1>3
<1>6. ghost.short => ghost'.short
  BY <1>1, <1>2 DEF GhostType
<1>7. /\ Held(b, c, ghost', out, lost) /\ PlaceFor(c.loc, b)
      /\ b.cur = ListHead \/ OnRange(b)
      /\ at >= 1 /\ file.loc # <<>> => c.loc # <<>>
  BY <1>2, <1>3, <1>4, <1>5, CutHeld
<1>8. /\ c \in FileType /\ c.loc \in Seq(Fragment) /\ c.stat = file.stat /\ Space(b)
  BY <1>2, <1>3, <1>7, CutFile, HeldParts
<1>9. c.open = file.open
  BY <1>2, <1>3, CutFile
<1> HIDE DEF b, c
<1>10. /\ Space(space') /\ space'.list = b.list /\ NotBefore(space', b.offset)
       /\ b.cur = ListHead => space'.cur = ListHead
  BY <1>1, <1>2, <1>3, <1>7, <1>8, SkipsOn
<1>11. /\ file' \in FileType /\ file'.stat = c.stat /\ file'.start = c.start
       /\ file'.loc = c.loc /\ file'.size = c.size
  BY <1>1, <1>8, FileErr
<1>12. file'.open = c.open
  BY <1>1, <1>8, FileErr
<1>13. Held(space', file', ghost', out, lost)
  <2>1. file'.open => file'.stat # NoStat
    BY <1>2, <1>8, <1>11
  <2> QED
    BY <2>1, <1>4, <1>7, <1>10, <1>11, <1>12, HeldAlike
<1>14. PlaceFor(file'.loc, space')
  BY <1>7, <1>8, <1>10, <1>11, PlaceFurther
<1>15. /\ GoodCalls(levels') /\ pc' \in {"level", "settle", "pad"}
       /\ pc' \in Searching => levels' # <<>>
       /\ pc' = "pad" => Here'.at >= 1
  <2>1. CASE n > 0 /\ space'.cur = ListHead
    <3>1. ReturnNothing("ENOENT")
      BY <2>1, <1>1
    <3> QED
      BY <3>1, <1>2, ReturnIs DEF Searching
  <2>2. CASE ~(n > 0 /\ space'.cur = ListHead)
    <3>1. pc' = "pad" /\ levels' = levels
      BY <2>2, <1>1 DEF BeginPad
    <3>2. Here' = Here /\ Here.at >= 1
      BY <1>2, <3>1 DEF Here, at
    <3> QED
      BY <3>1, <3>2, <1>2
  <2> QED
    BY <2>1, <2>2
<1>16. file'.open
  BY <1>2, <1>9, <1>12
<1>17. file'.loc # <<>> \/ ghost'.spoilt
  BY <1>2, <1>4, <1>7, <1>11
<1>18. prev' \in Freed..Len(space'.list) /\ start' \in Freed..Len(space'.list)
  BY <1>1, <1>10, Followed
<1>19. /\ out' = out /\ lost' = lost /\ whole' = whole /\ lastEnd' = lastEnd
       /\ nextFile' = nextFile /\ counted' = counted
  BY <1>1 DEF quiet
<1>20. BfHeld'
  BY <1>13, <1>19 DEF BfHeld
<1>21. BfShape'
  BY <1>15, <1>18, <1>19 DEF BfInv, BfShape, GoodCalls
<1>22. BfFile'
  BY <1>15, <1>16 DEF BfFile, Searching
<1>23. BfCalls'
  BY <1>15, <1>17, <1>18 DEF BfCalls, GoodCalls
<1>24. BfPlace'
  BY <1>10, <1>14, <1>15 DEF BfPlace, NotBefore
<1> QED
  BY <1>20, <1>21, <1>22, <1>23, <1>24 DEF BfInv

LEMMA FastAttemptKeeps ==
    ASSUME BfInv, FastAttempt
    PROVE  BfInv'
<1> DEFINE size == FastBlocks(Here.ok)
<1>1. /\ pc = "level" /\ pc \in Searching /\ FollowCells /\ UNCHANGED << quiet, levels, pad >>
      /\ Here.mode = "fast" /\ Here.i < Here.extra
      /\ file' = Cut(file, size) /\ pc' = "fill"
      /\ ghost' = [ghost EXCEPT
                    !.spoilt = @ \/ size = 0,
                    !.short = @ \/ SizeOf(file.loc) < size,
                    !.unmarked = IF size > 0 THEN @ ELSE @ \cup Beginning(file)]
  BY DEF FastAttempt, Searching
<1>2. /\ Held(space, file, ghost, out, lost) /\ ghost \in GhostType
      /\ GoodCalls(levels) /\ levels # <<>> /\ Here \in LevelType
      /\ start \in Freed..Len(space.list)
      /\ file.open /\ file.stat # NoStat /\ (file.loc # <<>> \/ ghost.spoilt)
      /\ file \in FileType /\ file.loc \in Seq(Fragment) /\ Apart(file.loc)
      /\ Space(space) /\ space.list \in Lists
  BY <1>1, InvParts, CallParts
<1>3. size \in Nat /\ Here.i \in Nat /\ SizeOf(file.loc) \in Nat
  BY <1>2, TruncatedSize DEF LevelType, FastBlocks, Half
<1>4. PICK at \in IF start = Freed THEN Disk ELSE {StartOf(space.list, start)} :
         space' = Skip(CutSpace([space EXCEPT !.cur = ListHead, !.offset = at], file, size),
                       Here.i)
  BY DEF FastAttempt
<1> HIDE DEF size
<1> DEFINE from == Placed(space, ListHead, at)
           b == CutSpace(from, file, size)
           c == Cut(file, size)
<1>5. at \in Nat
  <2>1. CASE start = Freed
    BY <2>1 DEF Disk
  <2>2. CASE start # Freed
    <3>1. start \in 0..Len(space.list)
      BY <2>2, <1>2 DEF Freed
    <3> QED
      BY <2>2, <3>1, <1>2, CellsOfLists DEF StartOf, ListHead
  <2> QED
    BY <2>1, <2>2
<1>6. Space(from) /\ from.list = space.list
  <2>1. ListHead \in 0..Len(space.list)
    BY <1>2, CellsOfLists DEF ListHead
  <2> QED
    BY <2>1, <1>2, <1>5, Moved
<1>7. space' = Skip(b, Here.i)
  BY <1>4 DEF Placed
<1>8. Held(from, file, ghost, out, lost)
  BY <1>2, <1>6, HeldAlike
<1> HIDE DEF from
<1> DEFINE U == IF size > 0 THEN ghost.unmarked ELSE ghost.unmarked \cup Beginning(file)
           y == ghost.spoilt \/ size = 0
           z == ghost.short \/ SizeOf(file.loc) < size
<1>9. ghost' = [ghost EXCEPT !.spoilt = y, !.short = z, !.unmarked = U]
  BY <1>1
<1>10. /\ ghost' \in GhostType /\ ghost'.owned = ghost.owned
  <2>1. U \subseteq Disk
    BY <1>2, BeginningIs DEF GhostType
  <2> HIDE DEF U
  <2>2. PICK yy \in BOOLEAN : yy = y
    OBVIOUS
  <2>3. PICK zz \in BOOLEAN : zz = z
    OBVIOUS
  <2> HIDE DEF y, z
  <2>4. ghost' = [ghost EXCEPT !.spoilt = yy, !.short = zz, !.unmarked = U]
    BY <2>2, <2>3, <1>9, Zenon
  <2> QED
    BY <2>1, <2>4, <1>2 DEF GhostType
<1>11. (ghost.spoilt \/ size = 0) => ghost'.spoilt
  <2> HIDE DEF U, z
  <2> QED
    BY <1>9, <1>2 DEF GhostType
<1>12. (ghost.short \/ SizeOf(file.loc) < size) => ghost'.short
  <2> HIDE DEF U, y
  <2> QED
    BY <1>9, <1>2 DEF GhostType
<1> HIDE DEF U, y, z
<1>13. ~ghost'.short => size <= SizeOf(file.loc)
  BY <1>3, <1>12
<1>14. /\ Held(b, c, ghost', out, lost) /\ PlaceFor(c.loc, b)
       /\ b.cur = ListHead \/ OnRange(b)
       /\ size >= 1 /\ file.loc # <<>> => c.loc # <<>>
  BY <1>2, <1>3, <1>8, <1>10, <1>11, <1>13, CutHeld
<1>15. /\ c \in FileType /\ c.loc \in Seq(Fragment) /\ c.stat = file.stat /\ Space(b)
  BY <1>2, <1>3, <1>14, CutFile, HeldParts
<1>16. c.open = file.open
  BY <1>2, <1>3, CutFile
<1> HIDE DEF b, c
<1>17. /\ Space(space') /\ space'.list = b.list /\ NotBefore(space', b.offset)
       /\ b.cur = ListHead => space'.cur = ListHead
  BY <1>3, <1>7, <1>14, <1>15, SkipIs
<1>18. file' = c
  BY <1>1 DEF c
<1>19. Held(space', file', ghost', out, lost)
  <2>1. c.open => c.stat # NoStat
    BY <1>2, <1>15
  <2> QED
    BY <2>1, <1>10, <1>14, <1>15, <1>17, <1>18, HeldAlike
<1>20. PlaceFor(file'.loc, space')
  BY <1>14, <1>15, <1>17, <1>18, PlaceFurther
<1>21. file'.open
  BY <1>2, <1>16, <1>18
<1>22. file'.loc # <<>> \/ ghost'.spoilt
  BY <1>2, <1>3, <1>11, <1>14, <1>18
<1>23. prev' \in Freed..Len(space'.list) /\ start' \in Freed..Len(space'.list)
  BY <1>1, <1>17, Followed
<1>24. /\ out' = out /\ lost' = lost /\ whole' = whole /\ lastEnd' = lastEnd
       /\ nextFile' = nextFile /\ counted' = counted /\ levels' = levels
  BY <1>1 DEF quiet
<1>25. BfHeld'
  BY <1>19, <1>24 DEF BfHeld
<1>26. BfShape'
  BY <1>1, <1>23, <1>24 DEF BfInv, BfShape
<1>27. BfFile'
  BY <1>1, <1>21 DEF BfFile, Searching
<1>28. BfCalls'
  BY <1>1, <1>2, <1>22, <1>23, <1>24 DEF BfCalls, GoodCalls, Here
<1>29. BfPlace'
  BY <1>1, <1>17, <1>20 DEF BfPlace, NotBefore
<1> QED
  BY <1>25, <1>26, <1>27, <1>28, <1>29 DEF BfInv

(* Of what the properties look at, only the marks that go.                 *)
LEMMA TakenIs ==
    ASSUME NEW g \in GhostType, NEW s, s.offset \in Disk, NEW f
    PROVE  /\ Taken(g, s, f) \in GhostType
           /\ Taken(g, s, f).owned = g.owned
           /\ Taken(g, s, f).marks = g.marks
           /\ Taken(g, s, f).before = g.before
           /\ g.unmarked \subseteq Taken(g, s, f).unmarked
           /\ g.spoilt => Taken(g, s, f).spoilt
           /\ g.short => Taken(g, s, f).short
           /\ Taken(g, s, f).spoilt => g.spoilt
           /\ Taken(g, s, f).short => g.short
<1> DEFINE U == IF StartsMarked(s) /\ f.loc # <<>>
                THEN g.unmarked \cup {s.offset} ELSE g.unmarked
           h == Taken(g, s, f)
<1>1. U \subseteq Disk /\ g.unmarked \subseteq U
  BY DEF GhostType
<1>2. h = [g EXCEPT !.unmarked = U]
  BY DEF Taken
<1> HIDE DEF U, h
<1>3. /\ h \in GhostType /\ h.owned = g.owned /\ h.marks = g.marks
      /\ h.before = g.before /\ h.unmarked = U
  BY <1>1, <1>2 DEF GhostType
<1>4. h.spoilt = g.spoilt
  BY <1>2 DEF GhostType
<1>5. h.short = g.short
  BY <1>2 DEF GhostType
<1> QED
  BY <1>1, <1>3, <1>4, <1>5 DEF h

(* A block is taken in photorec_bf_frag_fast or photorec_bf_pad.           *)
LEMMA TakeBlockKeeps ==
    ASSUME BfInv, pc \in {"fill", "pad"}, space.cur # ListHead, TakeBlock,
           UNCHANGED << quiet, pc, levels >>
    PROVE  BfInv'
<1> DEFINE n == RemoveBlock(space)
           e == Extended(file, space.offset)
<1>1. /\ pc \in Searching /\ pc # "level" /\ space' = n /\ file' = e
      /\ ghost' = Taken(ghost, space, file) /\ FollowCells
  BY DEF TakeBlock, Searching
<1>2. /\ Held(space, file, ghost, out, lost) /\ ghost \in GhostType
      /\ GoodCalls(levels) /\ levels # <<>> /\ Here \in LevelType
      /\ file.open /\ file.stat # NoStat /\ (file.loc # <<>> \/ ghost.spoilt)
      /\ file \in FileType /\ file.loc \in Seq(Fragment) /\ Apart(file.loc)
      /\ Space(space) /\ BlocksOf(space.list) \cap BlocksOf(file.loc) = {}
      /\ BlocksOf(space.list) \subseteq Disk
  BY <1>1, InvParts, CallParts
<1>3. /\ OnRange(space)
      /\ ~ghost.spoilt => PlaceFor(file.loc, space)
  BY DEF BfInv, BfPlace
<1>4. space.offset \in BlocksOf(space.list) /\ space.offset \in Nat
  BY <1>2, <1>3, TakeIs
<1>5. space.offset \in Disk /\ space.offset \notin BlocksOf(file.loc)
  BY <1>2, <1>4
<1>6. ~ghost.short => file.size = SizeOf(file.loc)
  BY <1>2 DEF Held
<1>7. ~ghost.spoilt => IF file.loc = <<>> THEN file.start = space.offset
                       ELSE Last(file.loc).end < space.offset
  BY <1>2, <1>3 DEF PlaceFor
<1>8. /\ Held(n, e, ghost, out, lost)
      /\ PlaceFor(e.loc, n) /\ e.loc # <<>>
      /\ n.cur # ListHead => OnRange(n)
  BY <1>2, <1>3, <1>6, <1>7, TakeHeld
<1>9. /\ e \in FileType
      /\ e.open = file.open
  BY <1>2, <1>4, <1>5, ExtendedFile
<1> DEFINE h == Taken(ghost, space, file)
<1>10. /\ h \in GhostType /\ h.owned = ghost.owned
       /\ ghost.spoilt => h.spoilt
       /\ ghost.short => h.short
  BY <1>2, <1>5, TakenIs
<1> HIDE DEF h
<1>11. ghost' = h
  BY <1>1 DEF h
<1> HIDE DEF n, e
<1>12. Held(n, e, ghost', out, lost)
  <2>1. Space(n) /\ (e.open => e.stat # NoStat)
    BY <1>8 DEF Held
  <2> QED
    BY <2>1, <1>8, <1>9, <1>10, <1>11, HeldAlike
<1>13. prev' \in Freed..Len(space'.list) /\ start' \in Freed..Len(space'.list)
  BY <1>1, <1>8, Followed DEF Held
<1>14. /\ out' = out /\ lost' = lost /\ whole' = whole /\ lastEnd' = lastEnd
       /\ nextFile' = nextFile /\ counted' = counted /\ levels' = levels /\ pc' = pc
  BY DEF quiet
<1>15. BfHeld'
  BY <1>1, <1>12, <1>14 DEF BfHeld
<1>16. BfShape'
  BY <1>1, <1>13, <1>14 DEF BfInv, BfShape
<1>17. BfFile'
  BY <1>1, <1>2, <1>9, <1>14 DEF BfFile, Searching
<1>18. BfCalls'
  BY <1>1, <1>2, <1>8, <1>13, <1>14 DEF BfInv, BfCalls, GoodCalls, Here
<1>19. BfPlace'
  BY <1>1, <1>8, <1>14 DEF BfPlace
<1> QED
  BY <1>15, <1>16, <1>17, <1>18, <1>19 DEF BfInv

LEMMA FillKeeps ==
    ASSUME BfInv, Fill
    PROVE  BfInv'
<1>1. pc = "fill" /\ pc \in Searching /\ space.cur # ListHead
  BY DEF Fill, Searching
<1>2. CASE WriteFails
  BY <1>1, <1>2, WriteFailsKeeps
<1>3. CASE TakeBlock /\ UNCHANGED << quiet, pc, levels, pad >>
  BY <1>1, <1>3, TakeBlockKeeps
<1> QED
  BY <1>2, <1>3 DEF Fill

LEMMA PadBlockKeeps ==
    ASSUME BfInv, PadBlock
    PROVE  BfInv'
<1>1. pc = "pad" /\ pc \in Searching /\ space.cur # ListHead
  BY DEF PadBlock, Padding, Searching
<1>2. CASE WriteFails
  BY <1>1, <1>2, WriteFailsKeeps
<1>3. CASE TakeBlock /\ UNCHANGED << quiet, pc, levels, todo >>
  BY <1>1, <1>3, TakeBlockKeeps
<1>4. CASE /\ space' = GetNextSector(space)
           /\ UNCHANGED << quiet, pc, prev, start, file, levels, pad, todo, ghost >>
  <2> DEFINE n == GetNextSector(space)
  <2>1. /\ Space(space) /\ file \in FileType /\ file.loc \in Seq(Fragment)
        /\ GoodCalls(levels) /\ levels # <<>>
        /\ file.loc # <<>> \/ ghost.spoilt
        /\ file.open
    BY <1>1, InvParts, CallParts
  <2>2. /\ OnRange(space)
        /\ ~ghost.spoilt => PlaceFor(file.loc, space)
    BY <1>1 DEF BfInv, BfPlace
  <2>3. /\ Space(n) /\ n.list = space.list /\ NotBefore(n, space.offset)
        /\ space.cur = ListHead => n.cur = ListHead
    BY <2>1, <2>2, <1>1, GoesOn
  <2> HIDE DEF n
  <2>4. space' = n
    BY <1>4 DEF n
  <2>5. ~ghost.spoilt => PlaceFor(file.loc, n)
    BY <2>1, <2>2, <2>3, PlaceFurther
  <2>6. n.cur # ListHead => OnRange(n)
    BY <2>3 DEF NotBefore
  <2>7. Here' = Here /\ (Here.mode = "split" => Here.at >= 1)
    BY <1>1, <1>4 DEF Here, BfInv, BfCalls
  <2> QED
    BY <1>1, <1>4, <2>1, <2>3, <2>4, <2>5, <2>6, <2>7, QuietKeeps
<1> QED
  BY <1>2, <1>3, <1>4 DEF PadBlock

(* The file that a block of the scan belongs to: a new one at a header,    *)
(* where no file is in progress.                                           *)
LEMMA ScannedFile ==
    ASSUME BfInv, pc = "scan", NEW kind \in Recognised, NEW checked \in BOOLEAN,
           NEW f,
           kind # NoStat /\ file.stat = NoStat
                => f = [NoFile EXCEPT !.stat = kind, !.check = checked,
                                      !.start = space.offset],
           ~(kind # NoStat /\ file.stat = NoStat) => f = file
    PROVE  /\ Held(space, f, ghost, out, lost) /\ f.top = f.size
           /\ ~ghost.short => f.size = SizeOf(f.loc)
           /\ ~ghost.spoilt => PlaceFor(f.loc, space)
           /\ kind # NoStat /\ file.stat = NoStat
                => f.loc = <<>> /\ f.start = space.offset /\ f.stat # NoStat
           /\ ~(kind # NoStat /\ file.stat = NoStat)
                 /\ f.loc = <<>> /\ f.stat # NoStat /\ ~ghost.spoilt
                => ~f.open /\ f.stat \in Unsaved
<1> DEFINE found == kind # NoStat /\ file.stat = NoStat
<1>1. /\ Held(space, file, ghost, out, lost) /\ Space(space) /\ ghost \in GhostType
      /\ file.top = file.size
      /\ ~ghost.short => file.size = SizeOf(file.loc)
      /\ file.loc = <<>> /\ file.stat # NoStat /\ ~ghost.spoilt
                => ~file.open /\ file.stat \in Unsaved
      /\ OnRange(space) /\ space.offset \in Nat
      /\ ~ghost.spoilt => PlaceFor(file.loc, space)
  BY InvParts DEF BfInv, BfFile, BfPlace
<1>2. CASE ~found
  BY <1>1, <1>2
<1>3. CASE found
  <2>1. f = [NoFile EXCEPT !.stat = kind, !.check = checked, !.start = space.offset]
    BY <1>3
  <2>2. kind # NoStat /\ file.stat = NoStat
    BY <1>3
  <2>3. kind \in Stats
    BY <2>2 DEF Recognised
  <2>4. /\ f \in FileType /\ f.loc = <<>> /\ f.stat = kind /\ f.start = space.offset
        /\ f.size = 0 /\ f.top = 0
    BY <1>1, <2>1, <2>3, NothingHeld DEF FileType
  <2>5. file.loc = <<>> /\ ~file.open
    BY <1>1, <2>2 DEF Held
  <2>6. FivePlaces(ghost.owned, BlocksOf(space.list), BlocksOf(file.loc), out, lost)
    BY <1>1 DEF Held
  <2>7. Held(space, f, ghost, out, lost)
    BY <1>1, <2>2, <2>4, <2>5, <2>6, NothingHeld DEF Held
  <2>8. ~ghost.spoilt => PlaceFor(f.loc, space)
    BY <1>1, <2>4 DEF PlaceFor
  <2> QED
    BY <1>3, <2>2, <2>4, <2>7, <2>8, NothingHeld
<1> QED
  BY <1>2, <1>3

(* Whether the file has a handle.                                          *)
LEMMA FileOpen ==
    ASSUME NEW f \in FileType, NEW o \in BOOLEAN
    PROVE  LET e == [f EXCEPT !.open = o]
           IN  /\ e \in FileType /\ e.stat = f.stat /\ e.start = f.start /\ e.loc = f.loc
               /\ e.size = f.size /\ e.top = f.top
               /\ e.open => o
               /\ o => e.open
<1> DEFINE e == [f EXCEPT !.open = o]
<1>1. e \in FileType /\ e.stat = f.stat /\ e.start = f.start /\ e.loc = f.loc
        /\ e.size = f.size /\ e.top = f.top
  BY DEF FileType
<1>2. e.open = o
  BY DEF FileType
<1> QED
  BY <1>1, <1>2

(* Only a file that is written out is opened.                              *)
LEMMA CreationsIs ==
    ASSUME NEW f \in FileType, NEW o \in Creations(f)
    PROVE  /\ o \in BOOLEAN
           /\ o => f.open \/ Saved(f)
           /\ f.open => o
<1>1. f.open \in BOOLEAN
  BY DEF FileType
<1>2. CASE f.open \/ ~Saved(f)
  <2>1. o = f.open
    BY <1>2 DEF Creations
  <2> QED
    BY <1>1, <2>1
<1>3. CASE ~(f.open \/ ~Saved(f))
  <2>1. o \in BOOLEAN
    BY <1>3 DEF Creations
  <2> QED
    BY <1>3, <2>1
<1> QED
  BY <1>2, <1>3

(* What an fopen that fails spoils.                                        *)
LEMMA SpoiltIs ==
    ASSUME NEW g \in GhostType, NEW c \in BOOLEAN
    PROVE  LET h == [g EXCEPT !.spoilt = g.spoilt \/ c]
           IN  /\ h \in GhostType /\ h.owned = g.owned /\ h.marks = g.marks
               /\ h.before = g.before /\ h.unmarked = g.unmarked
               /\ h.spoilt => g.spoilt \/ c
               /\ g.spoilt \/ c => h.spoilt
               /\ h.short => g.short
               /\ g.short => h.short
<1> DEFINE h == [g EXCEPT !.spoilt = g.spoilt \/ c]
<1>1. PICK b \in BOOLEAN : b = (g.spoilt \/ c)
  OBVIOUS
<1>2. h = [g EXCEPT !.spoilt = b]
  BY <1>1, Zenon
<1> HIDE DEF h
<1>3. /\ h \in GhostType /\ h.owned = g.owned /\ h.marks = g.marks
      /\ h.before = g.before /\ h.unmarked = g.unmarked
  BY <1>2 DEF GhostType
<1>4. h.spoilt = b
  BY <1>2 DEF GhostType
<1>5. h.short = g.short
  BY <1>2 DEF GhostType
<1> QED
  BY <1>1, <1>3, <1>4, <1>5 DEF h

(* After a step of the scan that leaves the list and the file in order.    *)
LEMMA ScansOn ==
    ASSUME BfInv, pc = "scan", pc' \in {"scan", "finish"},
           UNCHANGED << whole, search, nextFile, lastEnd, counted, out, lost >>,
           prev' \in Freed..Len(space'.list),
           Held(space', file', ghost', out, lost),
           file'.top = file'.size,
           ~ghost'.short => file'.size = SizeOf(file'.loc),
           file'.loc = <<>> /\ file'.stat # NoStat /\ ~ghost'.spoilt
                => ~file'.open /\ file'.stat \in Unsaved,
           pc' = "scan" => OnRange(space'),
           ~ghost'.spoilt => PlaceFor(file'.loc, space')
    PROVE  BfInv'
<1>1. /\ out' = out /\ lost' = lost /\ whole' = whole /\ lastEnd' = lastEnd
      /\ nextFile' = nextFile /\ counted' = counted /\ levels' = levels
  BY DEF search
<1>2. BfHeld'
  BY <1>1 DEF BfHeld
<1>3. BfShape'
  BY <1>1 DEF BfInv, BfShape
<1>4. BfFile'
  BY DEF BfFile, Searching
<1>5. BfCalls'
  BY <1>1 DEF BfInv, BfCalls, Searching
<1>6. BfPlace'
  BY DEF BfPlace
<1> QED
  BY <1>2, <1>3, <1>4, <1>5, <1>6 DEF BfInv

LEMMA ScanKeeps ==
    ASSUME BfInv, Scan
    PROVE  BfInv'
<1>1. PICK kind \in Recognised, checked \in BOOLEAN, full \in BOOLEAN,
           written \in IF Faulty THEN BOOLEAN ELSE {TRUE} :
        LET found == kind # NoStat /\ file.stat = NoStat
            ends == AtStart /\ ((kind = NoStat) <=> (file.stat = NoStat))
            f == IF found THEN [NoFile EXCEPT !.stat = kind, !.check = checked,
                                              !.start = space.offset]
                 ELSE file
        IN  /\ checked => found /\ AnyAnswer
            /\ \E open \in Creations(f) :
                 LET takes == open /\ ~ends
                 IN  /\ (full \/ ~written) => takes
                     /\ full => AnyAnswer
                     /\ space' = IF takes THEN RemoveBlock(space)
                                 ELSE GetNextSector(space)
                     /\ file' = IF takes THEN [Extended(f, space.offset)
                                                 EXCEPT !.open = TRUE]
                                ELSE [f EXCEPT !.open = open]
                     /\ ghost' = IF takes THEN Taken(ghost, space, f)
                                 ELSE [ghost EXCEPT !.spoilt = @ \/ (~open /\ Saved(f))]
                     /\ indStop' = IF ~written THEN "ENOSPC"
                                   ELSE IF ~open /\ Saved(f) THEN "EACCES"
                                   ELSE indStop
                     /\ pc' = IF ends \/ full \/ space'.cur = ListHead
                              THEN "finish" ELSE "scan"
  BY Zenon DEF Scan
<1> DEFINE found == kind # NoStat /\ file.stat = NoStat
           ends == AtStart /\ ((kind = NoStat) <=> (file.stat = NoStat))
           f == IF found THEN [NoFile EXCEPT !.stat = kind, !.check = checked,
                                             !.start = space.offset]
                ELSE file
<1>2. PICK open \in Creations(f) :
        LET takes == open /\ ~ends
        IN  /\ space' = IF takes THEN RemoveBlock(space) ELSE GetNextSector(space)
            /\ file' = IF takes THEN [Extended(f, space.offset) EXCEPT !.open = TRUE]
                       ELSE [f EXCEPT !.open = open]
            /\ ghost' = IF takes THEN Taken(ghost, space, f)
                        ELSE [ghost EXCEPT !.spoilt = @ \/ (~open /\ Saved(f))]
            /\ pc' = IF ends \/ full \/ space'.cur = ListHead
                     THEN "finish" ELSE "scan"
  BY <1>1
<1>3. pc = "scan"
  BY DEF Scan
<1>4. found => ~ends
  OBVIOUS
<1>5. /\ Held(space, f, ghost, out, lost) /\ f.top = f.size
      /\ ~ghost.short => f.size = SizeOf(f.loc)
      /\ ~ghost.spoilt => PlaceFor(f.loc, space)
      /\ found => /\ f.loc = <<>> /\ f.start = space.offset /\ f.stat # NoStat
                  /\ file.stat = NoStat /\ kind # NoStat
      /\ ~found /\ f.loc = <<>> /\ f.stat # NoStat /\ ~ghost.spoilt
            => ~f.open /\ f.stat \in Unsaved
  <2>1. /\ kind # NoStat /\ file.stat = NoStat
              => f = [NoFile EXCEPT !.stat = kind, !.check = checked,
                                    !.start = space.offset]
        /\ ~(kind # NoStat /\ file.stat = NoStat) => f = file
    OBVIOUS
  <2> HIDE DEF f
  <2>2. /\ Held(space, f, ghost, out, lost) /\ f.top = f.size
        /\ ~ghost.short => f.size = SizeOf(f.loc)
        /\ ~ghost.spoilt => PlaceFor(f.loc, space)
        /\ kind # NoStat /\ file.stat = NoStat
              => f.loc = <<>> /\ f.start = space.offset /\ f.stat # NoStat
        /\ ~(kind # NoStat /\ file.stat = NoStat)
              /\ f.loc = <<>> /\ f.stat # NoStat /\ ~ghost.spoilt
              => ~f.open /\ f.stat \in Unsaved
    <3>1. BfInv /\ pc = "scan" /\ kind \in Recognised /\ checked \in BOOLEAN
      BY <1>3
    <3> QED
      BY <2>1, <3>1, ScannedFile
  <2> QED
    BY <2>2
<1> HIDE DEF f, found, ends
<1>6. /\ f \in FileType /\ Space(space) /\ ghost \in GhostType /\ space.offset \in Nat
      /\ f.loc \in Seq(Fragment) /\ Apart(f.loc) /\ f.size \in Nat
      /\ f.open => f.stat # NoStat
      /\ space.list \in Lists /\ OnRange(space)
      /\ BlocksOf(space.list) \cap BlocksOf(f.loc) = {} /\ BlocksOf(space.list) \subseteq Disk
  BY <1>3, <1>5, HeldParts, InvParts DEF Held, BfInv, BfPlace
<1>7. /\ open \in BOOLEAN
      /\ open => f.open \/ Saved(f)
      /\ f.open => open
  BY <1>6, CreationsIs
<1>8. open => f.stat # NoStat
  BY <1>6, <1>7 DEF Saved
<1>9. UNCHANGED << whole, search, nextFile, lastEnd, counted, out, lost >>
  BY DEF Scan
<1>10. pc' \in {"scan", "finish"} /\ (pc' = "scan" => space'.cur # ListHead /\ ~ends)
  BY <1>2
<1>11. Space(space') => prev' \in Freed..Len(space'.list)
  <2>1. prev' = SameCell(space.list, space'.list, prev)
    BY DEF Scan
  <2> QED
    BY <2>1, SameCellIs DEF Space
<1>12. ~found /\ f.loc = <<>> /\ f.stat # NoStat /\ ~ghost.spoilt => ~open
  BY <1>5, <1>7 DEF Saved
<1>13. CASE open /\ ~ends
  <2> DEFINE n == RemoveBlock(space)
             e == Extended(f, space.offset)
             h == Taken(ghost, space, f)
             z == [e EXCEPT !.open = TRUE]
  <2>1. space' = n /\ file' = z /\ ghost' = h
    BY <1>2, <1>13
  <2>2. ~ghost.spoilt => IF f.loc = <<>> THEN f.start = space.offset
                         ELSE Last(f.loc).end < space.offset
    BY <1>5, <1>6, <1>8, <1>12, <1>13 DEF PlaceFor, OnRange
  <2>3. /\ Held(n, e, ghost, out, lost)
        /\ ~ghost.short => e.size = SizeOf(e.loc)
        /\ PlaceFor(e.loc, n) /\ e.loc # <<>>
        /\ n.cur # ListHead => OnRange(n)
    BY <1>5, <1>6, <1>8, <1>13, <2>2, TakeHeld
  <2>4. space.offset \in Disk /\ space.offset \notin BlocksOf(f.loc)
    BY <1>6, TakeIs
  <2>5. e \in FileType /\ e.stat = f.stat /\ e.top = e.size
    BY <1>5, <1>6, <2>4, ExtendedFile
  <2>6. /\ h \in GhostType /\ h.owned = ghost.owned
        /\ ghost.spoilt => h.spoilt
        /\ ghost.short => h.short
        /\ h.short => ghost.short
    BY <1>6, <2>4, TakenIs
  <2> HIDE DEF n, e, h
  <2>7. /\ z \in FileType /\ z.stat = e.stat /\ z.start = e.start /\ z.loc = e.loc
        /\ z.size = e.size /\ z.top = e.top
    BY <2>5 DEF FileType
  <2> HIDE DEF z
  <2>8. Space(n)
    BY <2>3 DEF Held
  <2>9. z.open => z.stat # NoStat
    BY <1>8, <1>13, <2>5, <2>7
  <2>10. Held(n, z, h, out, lost)
    BY <2>3, <2>6, <2>7, <2>8, <2>9, HeldAlike
  <2> QED
    BY <1>3, <1>9, <1>10, <1>11, <2>1, <2>3, <2>5, <2>6, <2>7, <2>8, <2>10, ScansOn
<1>14. CASE ~(open /\ ~ends)
  <2> DEFINE n == GetNextSector(space)
             e == [f EXCEPT !.open = open]
             c == ~open /\ Saved(f)
             h == [ghost EXCEPT !.spoilt = ghost.spoilt \/ c]
  <2>1. space' = n /\ file' = e /\ ghost' = h
    BY <1>2, <1>14
  <2>2. Space(n) /\ n.list = space.list /\ NotBefore(n, space.offset)
    BY <1>6, GoesOn
  <2>3. /\ e \in FileType /\ e.stat = f.stat /\ e.start = f.start /\ e.loc = f.loc
        /\ e.size = f.size /\ e.top = f.top
        /\ e.open => open
        /\ open => e.open
    BY <1>6, <1>7, FileOpen
  <2>4. /\ h \in GhostType /\ h.owned = ghost.owned
        /\ h.spoilt => ghost.spoilt \/ c
        /\ ghost.spoilt \/ c => h.spoilt
        /\ h.short => ghost.short
        /\ ghost.short => h.short
    <3>1. c \in BOOLEAN
      OBVIOUS
    <3> HIDE DEF c
    <3> QED
      BY <1>6, <3>1, SpoiltIs
  <2> HIDE DEF n, e, h
  <2>5. Held(n, e, h, out, lost)
    BY <1>5, <1>8, <2>2, <2>3, <2>4, HeldAlike
  <2>6. e.loc = <<>> /\ e.stat # NoStat /\ ~h.spoilt => ~e.open /\ e.stat \in Unsaved
    <3> SUFFICES ASSUME e.loc = <<>>, e.stat # NoStat, ~h.spoilt
                 PROVE  ~e.open /\ e.stat \in Unsaved
      OBVIOUS
    <3>1. ~ghost.spoilt /\ ~c /\ f.loc = <<>> /\ f.stat # NoStat
      BY <2>3, <2>4
    <3>2. ~open
      BY <1>4, <1>12, <1>14, <3>1
    <3>3. f.stat \in Unsaved
      BY <3>1, <3>2 DEF Saved
    <3> QED
      BY <2>3, <3>2, <3>3
  <2>7. n.cur # ListHead => OnRange(n)
    BY <2>2 DEF NotBefore
  <2>8. ~h.spoilt => PlaceFor(e.loc, n)
    <3> SUFFICES ASSUME ~h.spoilt PROVE PlaceFor(e.loc, n)
      OBVIOUS
    <3>1. PlaceFor(f.loc, space) /\ space.cur # ListHead
      BY <1>5, <1>6, <2>4 DEF OnRange
    <3>2. PlaceFor(f.loc, n)
      BY <1>6, <2>2, <3>1, PlaceFurther
    <3> QED
      BY <2>3, <3>2
  <2>9. e.top = e.size /\ (~h.short => e.size = SizeOf(e.loc))
    BY <1>5, <2>3, <2>4
  <2> QED
    BY <1>3, <1>9, <1>10, <1>11, <2>1, <2>2, <2>5, <2>6, <2>7, <2>8, <2>9, ScansOn
<1> QED
  BY <1>13, <1>14

-----------------------------------------------------------------------------
(* The steps that close the file                                           *)

(* The file is closed, by photorec_bf_aux too if nothing did it before.    *)
LEMMA ClosesOn ==
    ASSUME BfInv, pc' \in {"next", "settle", "ahead"}, UNCHANGED whole,
           Held(space', file', ghost', out', lost'), file'.loc = <<>>,
           prev' \in Freed..Len(space'.list), GoodCalls(levels'),
           lastEnd' \in Int, nextFile' \in Nat, counted' \in BOOLEAN
    PROVE  BfInv'
<1>1. BfHeld'
  BY DEF BfHeld
<1>2. BfShape'
  BY DEF BfInv, BfShape, GoodCalls
<1>3. BfFile'
  BY DEF BfFile, Searching
<1>4. BfCalls'
  BY DEF BfCalls, Searching, GoodCalls
<1>5. BfPlace'
  BY DEF BfPlace
<1> QED
  BY <1>1, <1>2, <1>3, <1>4, <1>5 DEF BfInv

(* Closing with these blocks.                                              *)
LEMMA CloseIs ==
    ASSUME BfInv, NEW loc \in Seq(Fragment), NEW recovered \in BOOLEAN,
           Close(loc, recovered)
    PROVE  /\ lastEnd' \in Int /\ counted' \in BOOLEAN
           /\ recovered => out' = out \cup BlocksOf(loc) /\ lost' = lost
           /\ ~recovered => out' = out /\ lost' = lost \cup BlocksOf(loc)
<1>1. loc # <<>> => Last(loc).end \in Nat
  <2> SUFFICES ASSUME loc # <<>> PROVE Last(loc).end \in Nat
    OBVIOUS
  <2>1. Len(loc) \in 1..Len(loc)
    BY FragmentCells, EmptySeq
  <2> QED
    BY <2>1, FragmentCells DEF Last
<1>2. lastEnd' \in Int
  <2>1. CASE loc = <<>>
    BY <2>1, BruteForceAssumption DEF Close
  <2>2. CASE loc # <<>>
    <3>1. lastEnd' = Last(loc).end
      BY <2>2 DEF Close
    <3> QED
      BY <1>1, <2>2, <3>1
  <2> QED
    BY <2>1, <2>2
<1>3. counted' \in BOOLEAN
  BY DEF Close, BfInv, BfShape
<1>4. /\ recovered => out' = out \cup BlocksOf(loc) /\ lost' = lost
      /\ ~recovered => out' = out /\ lost' = lost \cup BlocksOf(loc)
  BY DEF Close
<1> QED
  BY <1>2, <1>3, <1>4

(* file_finish_bf.                                                         *)
LEMMA FinishBfIs ==
    ASSUME BfInv, NEW size \in FinalSizes(file), FinishBf(size)
    PROVE  /\ Held(space', file', ghost, out', lost') /\ Space(space')
           /\ file'.loc = <<>> /\ ~file'.open
           /\ lastEnd' \in Int /\ counted' \in BOOLEAN
<1>1. /\ Held(space, file, ghost, out, lost) /\ size \in Nat /\ file \in FileType
      /\ file.loc \in Seq(Fragment) /\ Apart(file.loc)
  BY InvParts, FinalSizesIs
<1>2. CASE size = 0
  <2>1. /\ space' = Reject(space, file) /\ file' = NoFile
        /\ UNCHANGED << lastEnd, counted, out, lost >>
    BY <1>2 DEF FinishBf
  <2>2. Held(Reject(space, file), NoFile, ghost, out, lost)
    BY <1>1, NothingHeld, CloseHeld
  <2>3. Held(space', file', ghost, out', lost')
    BY <2>1, <2>2
  <2>4. lastEnd' \in Int /\ counted' \in BOOLEAN
    BY <2>1 DEF BfInv, BfShape
  <2> QED
    BY <2>1, <2>3, <2>4, NothingHeld DEF Held
<1>3. CASE size # 0
  <2> DEFINE e == [file EXCEPT !.open = FALSE, !.loc = <<>>, !.size = size, !.err = 0]
             n == TruncatedSpace(space, file.loc, size)
             k == TruncatedLoc(file.loc, size)
  <2>1. space' = n /\ file' = e /\ Close(k, TRUE)
    BY <1>3 DEF FinishBf
  <2>2. e \in FileType /\ e.loc = <<>> /\ ~e.open
    <3>1. <<>> \in Seq(Fragment) /\ 0 \in Nat /\ FALSE \in BOOLEAN
      OBVIOUS
    <3> QED
      BY <1>1, <3>1 DEF FileType
  <2>3. k \in Seq(Fragment)
    BY <1>1, TruncatedLocIs
  <2> HIDE DEF e
  <2>4. Held(n, e, ghost, out \cup BlocksOf(k), lost)
    BY <1>1, <2>2, CloseHeld
  <2> HIDE DEF n, k
  <2>5. lastEnd' \in Int /\ counted' \in BOOLEAN /\ out' = out \cup BlocksOf(k) /\ lost' = lost
    BY <2>1, <2>3, CloseIs
  <2>6. Held(space', file', ghost, out', lost')
    BY <2>1, <2>4, <2>5
  <2> QED
    BY <2>1, <2>2, <2>5, <2>6 DEF Held
<1> QED
  BY <1>2, <1>3

LEMMA FinishDirectlyKeeps ==
    ASSUME BfInv, FinishDirectly
    PROVE  BfInv'
<1>1. PICK size \in FinalSizes(file) : FinishBf(size)
  BY DEF FinishDirectly
<1>2. /\ Held(space', file', ghost, out', lost') /\ Space(space') /\ file'.loc = <<>>
      /\ lastEnd' \in Int /\ counted' \in BOOLEAN
  BY <1>1, FinishBfIs
<1>3. /\ FollowCells /\ pc' = "next" /\ levels' = levels /\ ghost' = ghost
      /\ whole' = whole
  BY DEF FinishDirectly
<1>4. nextFile' \in Nat
  <2>1. space.cur \in 0..Len(space.list)
    BY InvParts
  <2>2. nextFile' = LET next == NextMarked(space.list, space.cur)
                    IN  IF next = 0 THEN 0 ELSE space.list[next].start
    BY DEF FinishDirectly
  <2> QED
    BY <2>1, <2>2, NextFileIs
<1>5. GoodCalls(levels)
  BY DEF BfInv, BfShape, BfCalls, GoodCalls
<1>6. prev' \in Freed..Len(space'.list)
  BY <1>2, <1>3, Followed
<1> QED
  BY <1>2, <1>3, <1>4, <1>5, <1>6, ClosesOn

(* photorec_bf_aux.                                                        *)
LEMMA SettleKeeps ==
    ASSUME BfInv, Settle
    PROVE  BfInv'
<1>1. /\ pc' = "ahead" /\ levels' = levels /\ ghost' = ghost /\ whole' = whole
      /\ nextFile' = nextFile /\ prev' = SameCell(space.list, space'.list, prev)
  BY DEF Settle
<1>2. /\ Held(space, file, ghost, out, lost) /\ file \in FileType
      /\ file.loc \in Seq(Fragment) /\ Apart(file.loc)
  BY InvParts
<1>3. /\ Held(space', file', ghost, out', lost') /\ file'.loc = <<>>
      /\ lastEnd' \in Int /\ counted' \in BOOLEAN
  <2>1. CASE file.stat = NoStat
    <3>1. UNCHANGED << space, file, lastEnd, out, lost, counted >>
      BY <2>1 DEF Settle
    <3>2. file.loc = <<>>
      BY <1>2, <2>1 DEF Held
    <3>3. lastEnd' \in Int /\ counted' \in BOOLEAN
      BY <3>1 DEF BfInv, BfShape
    <3> QED
      BY <1>2, <3>1, <3>2, <3>3
  <2>2. CASE file.stat # NoStat
    <3>1. PICK size \in FinalSizes(file) :
            LET loc == TruncatedLoc(file.loc, size)
            IN  /\ space' = IF size = 0 THEN Reject(space, file)
                            ELSE TruncatedSpace(space, file.loc, size)
                /\ file' = NoFile
                /\ IF size = 0 \/ (loc = <<>> /\ ~file.open)
                   THEN UNCHANGED << lastEnd, out, lost, counted >>
                   ELSE Close(loc, file.open)
      BY <2>2 DEF Settle
    <3>2. size \in Nat
      BY FinalSizesIs
    <3> DEFINE n == TruncatedSpace(space, file.loc, size)
               k == TruncatedLoc(file.loc, size)
               j == Reject(space, file)
    <3>3. /\ Held(j, NoFile, ghost, out, lost)
          /\ Held(n, NoFile, ghost, out \cup BlocksOf(k), lost)
          /\ Held(n, NoFile, ghost, out, lost \cup BlocksOf(k))
          /\ k = <<>> => Held(n, NoFile, ghost, out, lost)
      BY <1>2, <3>2, NothingHeld, CloseHeld
    <3>4. k \in Seq(Fragment)
      BY <1>2, <3>2, TruncatedLocIs
    <3>5. /\ space' = IF size = 0 THEN j ELSE n
          /\ file' = NoFile
          /\ IF size = 0 \/ (k = <<>> /\ ~file.open)
             THEN UNCHANGED << lastEnd, out, lost, counted >>
             ELSE Close(k, file.open)
      BY <3>1
    <3> HIDE DEF n, k, j
    <3>6. CASE size = 0 \/ (k = <<>> /\ ~file.open)
      <4>1. UNCHANGED << lastEnd, out, lost, counted >>
        BY <3>5, <3>6
      <4>2. Held(space', NoFile, ghost, out, lost)
        BY <3>3, <3>5, <3>6
      <4>3. lastEnd' \in Int /\ counted' \in BOOLEAN
        BY <4>1 DEF BfInv, BfShape
      <4> QED
        BY <3>5, <4>1, <4>2, <4>3, NothingHeld
    <3>7. CASE ~(size = 0 \/ (k = <<>> /\ ~file.open))
      <4>1. Close(k, file.open) /\ space' = n /\ file.open \in BOOLEAN
        BY <1>2, <3>5, <3>7 DEF FileType
      <4>2. /\ lastEnd' \in Int /\ counted' \in BOOLEAN
            /\ file.open => out' = out \cup BlocksOf(k) /\ lost' = lost
            /\ ~file.open => out' = out /\ lost' = lost \cup BlocksOf(k)
        BY <3>4, <4>1, CloseIs
      <4>3. Held(space', NoFile, ghost, out', lost')
        BY <3>3, <4>1, <4>2
      <4> QED
        BY <3>5, <4>2, <4>3, NothingHeld
    <3> QED
      BY <3>6, <3>7
  <2> QED
    BY <2>1, <2>2
<1>4. prev' \in Freed..Len(space'.list)
  BY <1>1, <1>3, SameCellIs DEF Held, Space
<1>5. GoodCalls(levels) /\ nextFile \in Nat
  BY DEF BfInv, BfShape, BfCalls, GoodCalls
<1> QED
  BY <1>1, <1>3, <1>4, <1>5, ClosesOn

(* photorec_bf_pad has added what it may, and the file is looked at.       *)
LEMMA PadMoreKeeps ==
    ASSUME BfInv, pc = "pad", NEW r \in Reports(file), PadMore(r)
    PROVE  BfInv'
<1>1. /\ pc \in Searching /\ pc' = "pad"
      /\ UNCHANGED << quiet, space, prev, start, levels, ghost >>
      /\ file' = [file EXCEPT !.err = r.err]
  BY DEF PadMore, Searching
<1>2. /\ Space(space) /\ file \in FileType /\ GoodCalls(levels) /\ levels # <<>>
      /\ file.loc # <<>> \/ ghost.spoilt
      /\ file.open
      /\ Here.mode = "split" => Here.at >= 1
  BY <1>1, InvParts, CallParts DEF BfInv, BfCalls
<1>3. r.err \in Nat
  BY ReportsIs
<1>4. /\ file' \in FileType /\ file'.stat = file.stat /\ file'.start = file.start
      /\ file'.loc = file.loc /\ file'.size = file.size
      /\ file'.open = file.open
  BY <1>1, <1>2, <1>3, FileErr
<1>5. Here' = Here
  BY <1>1 DEF Here
<1> QED
  BY <1>1, <1>2, <1>4, <1>5, QuietKeeps

LEMMA PadCompleteKeeps ==
    ASSUME BfInv, pc = "pad", NEW r, PadComplete(r)
    PROVE  BfInv'
<1>1. PICK size \in FinalSizes(file) : FinishBf(size)
  BY DEF PadComplete
<1>2. /\ Held(space', file', ghost, out', lost') /\ Space(space') /\ file'.loc = <<>>
      /\ lastEnd' \in Int /\ counted' \in BOOLEAN
  BY <1>1, FinishBfIs
<1>3. /\ FollowCells /\ pc' = "settle" /\ levels' = <<>> /\ ghost' = ghost
      /\ whole' = whole /\ nextFile' = nextFile
  BY DEF PadComplete
<1>4. nextFile \in Nat
  BY DEF BfInv, BfShape
<1>5. GoodCalls(levels')
  <2>1. <<>> \in Seq(LevelType) /\ Len(<<>>) = 0
    OBVIOUS
  <2> QED
    BY <1>3, <2>1 DEF GoodCalls
<1>6. prev' \in Freed..Len(space'.list)
  BY <1>2, <1>3, Followed
<1> QED
  BY <1>2, <1>3, <1>4, <1>5, <1>6, ClosesOn

(* The next attempt, a call more, or the end of this one.                  *)
LEMMA PadFailsKeeps ==
    ASSUME BfInv, pc = "pad", NEW r \in Reports(file), PadFails(r)
    PROVE  BfInv'
<1>1. /\ pc \in Searching /\ UNCHANGED << quiet, space, prev, start, ghost >>
      /\ file' = [file EXCEPT !.err = r.err]
      /\ \/ NextAttempt
         \/ TooDeep
         \/ Deeper(r)
  BY DEF PadFails, Searching
<1>2. /\ Space(space) /\ file \in FileType /\ GoodCalls(levels) /\ levels # <<>>
      /\ Here \in LevelType /\ Here.skipped >= -2
      /\ file.loc # <<>> \/ ghost.spoilt
      /\ file.open
      /\ Here.mode = "split" => Here.at >= 1
  BY <1>1, InvParts, CallParts DEF BfInv, BfCalls
<1>3. r.err \in Nat /\ r.ok \in Nat /\ r.extra \in Nat
  BY ReportsIs
<1>4. /\ file' \in FileType /\ file'.stat = file.stat /\ file'.start = file.start
      /\ file'.loc = file.loc /\ file'.size = file.size
      /\ file'.open = file.open
  BY <1>1, <1>2, <1>3, FileErr
<1>5. SUFFICES /\ GoodCalls(levels') /\ pc' \in {"level", "skip", "settle"}
               /\ pc' \in {"level", "skip"} => levels' # <<>>
               /\ pc' = "skip" => Here'.at >= 1
  <2>1. /\ pc' \in Searching => levels' # <<>>
        /\ pc' \in {"level", "skip", "pad", "settle", "full", "broken"}
        /\ pc' # "pad"
    BY <1>5 DEF Searching
  <2> QED
    BY <1>1, <1>2, <1>4, <1>5, <2>1, QuietKeeps
<1>6. CASE NextAttempt
  <2>1. CASE Here.mode = "fast"
    <3> DEFINE n == Here.i + 1
               l == [Here EXCEPT !.i = n]
    <3>1. pc' = "level" /\ SetHere(l)
      BY <1>6, <2>1 DEF NextAttempt
    <3>2. n \in Nat
      BY <1>2 DEF LevelType
    <3> HIDE DEF n
    <3>3. l \in LevelType /\ l.skipped >= -2
      BY <1>2, <3>2, LevelIs
    <3> HIDE DEF l
    <3>4. GoodCalls(levels') /\ levels' # <<>>
      BY <1>2, <3>1, <3>3, SetHereIs
    <3> QED
      BY <3>1, <3>4
  <2>2. CASE Here.mode # "fast"
    <3> DEFINE n == Here.skipped + 1
               l == [Here EXCEPT !.skipped = n]
    <3>1. pc' = "skip" /\ SetHere(l)
      BY <1>6, <2>2 DEF NextAttempt
    <3>2. n \in Int /\ n >= -2 /\ Here.mode = "split"
      BY <1>2, <2>2 DEF LevelType
    <3> HIDE DEF n
    <3>3. l \in LevelType /\ l.skipped = n /\ l.at = Here.at
      BY <1>2, <3>2, LevelIs
    <3> HIDE DEF l
    <3>4. GoodCalls(levels') /\ levels' # <<>> /\ Here' = l
      BY <1>2, <3>1, <3>2, <3>3, SetHereIs
    <3>5. Here'.at >= 1
      BY <1>2, <3>2, <3>3, <3>4
    <3> QED
      BY <3>1, <3>4, <3>5
  <2> QED
    BY <2>1, <2>2
<1>7. CASE TooDeep
  <2>1. CASE Here.mode = "fast"
    <3> DEFINE l == [Here EXCEPT !.mode = "split"]
    <3>1. pc' = "level" /\ SetHere(l)
      BY <1>7, <2>1 DEF TooDeep
    <3>2. l \in LevelType /\ l.skipped >= -2
      BY <1>2, LevelIs
    <3> HIDE DEF l
    <3>3. GoodCalls(levels') /\ levels' # <<>>
      BY <1>2, <3>1, <3>2, SetHereIs
    <3> QED
      BY <3>1, <3>3
  <2>2. CASE Here.mode # "fast"
    <3>1. ReturnNothing("ENOENT")
      BY <1>7, <2>2 DEF TooDeep
    <3> QED
      BY <1>2, <3>1, ReturnIs
  <2> QED
    BY <2>1, <2>2
<1>8. CASE Deeper(r)
  <2> DEFINE g == Here.frag + 1
  <2>1. g \in Nat
    BY <1>2 DEF LevelType
  <2>2. /\ pc' = "level"
        /\ \/ levels' = Append(levels, Level(r, g, FALSE))
           \/ levels' = Append(Outer, Level(r, g, TRUE))
    BY <1>8 DEF Deeper
  <2> HIDE DEF g
  <2>3. /\ Level(r, g, FALSE) \in LevelType /\ Level(r, g, FALSE).skipped >= -2
        /\ Level(r, g, TRUE) \in LevelType /\ Level(r, g, TRUE).skipped >= -2
    BY <1>3, <2>1, LevelBegins
  <2>4. GoodCalls(Outer)
    BY <1>2, HereIs
  <2> DEFINE a == Level(r, g, FALSE)
             b == Level(r, g, TRUE)
             o == Outer
  <2> HIDE DEF a, b, o
  <2>5. /\ GoodCalls(Append(levels, a)) /\ Append(levels, a) # <<>>
        /\ GoodCalls(Append(o, b)) /\ Append(o, b) # <<>>
    BY <1>2, <2>3, <2>4, CallsMore DEF a, b, o
  <2>6. GoodCalls(levels') /\ levels' # <<>>
    BY <2>2, <2>5 DEF a, b, o
  <2> QED
    BY <2>2, <2>6
<1> QED
  BY <1>1, <1>6, <1>7, <1>8

LEMMA PadCheckKeeps ==
    ASSUME BfInv, PadCheck
    PROVE  BfInv'
<1>1. pc = "pad" /\ \E r \in Reports(file) : PadMore(r) \/ PadComplete(r) \/ PadFails(r)
  BY DEF PadCheck
<1> QED
  BY <1>1, PadMoreKeeps, PadCompleteKeeps, PadFailsKeeps

(* Steps that change nothing.                                              *)
LEMMA StutterKeeps ==
    ASSUME BfInv, UNCHANGED vars
    PROVE  BfInv'
<1>1. /\ whole' = whole /\ pc' = pc /\ space' = space /\ prev' = prev /\ start' = start
      /\ file' = file /\ levels' = levels /\ nextFile' = nextFile /\ lastEnd' = lastEnd
      /\ counted' = counted /\ out' = out /\ lost' = lost /\ ghost' = ghost
  BY DEF vars, search
<1>2. BfHeld'
  BY <1>1 DEF BfInv, BfHeld
<1>3. BfShape'
  BY <1>1 DEF BfInv, BfShape
<1>4. BfFile'
  BY <1>1 DEF BfInv, BfFile
<1>5. BfCalls'
  BY <1>1 DEF BfInv, BfCalls, Here
<1>6. BfPlace'
  BY <1>1 DEF BfInv, BfPlace
<1> QED
  BY <1>2, <1>3, <1>4, <1>5, <1>6 DEF BfInv

LEMMA NextKeeps ==
    ASSUME BfInv, [Next]_vars
    PROVE  BfInv'
  BY OpenKeeps, ScanKeeps, FinishDirectlyKeeps, FinishWithErrorKeeps, SplitAtKeeps,
     TrySkipKeeps, SkipForgetsBlocksKeeps, NoMoreSkipsKeeps, FastAttemptKeeps,
     FastGivesUpKeeps, FillKeeps, FillBehindTheEndKeeps, SkipGapKeeps, PadBlockKeeps,
     PadCheckKeeps, SettleKeeps, NextRangeKeeps, StutterKeeps DEF Next

-----------------------------------------------------------------------------
(* The initial states                                                      *)

(* A marked range that changes otherwise, or moves, still marks its start. *)
LEMMA ReplacedMark ==
    ASSUME NEW l \in Lists, NEW t \in 1..Len(l), NEW r \in RangeType, NEW h,
           MarkedAt(l, h),
           l[t].start = h /\ l[t].stat # NoStat => r.start = h /\ r.stat # NoStat
    PROVE  MarkedAt([l EXCEPT ![t] = r], h)
<1> DEFINE m == [l EXCEPT ![t] = r]
<1>1. /\ m \in Lists /\ Len(m) = Len(l)
      /\ \A j \in 1..Len(l) : m[j] = IF j = t THEN r ELSE l[j]
  BY ExceptCells DEF Lists
<1> HIDE DEF m
<1>2. DOMAIN m = 1..Len(l) /\ DOMAIN l = 1..Len(l)
  BY <1>1, CellsOfLists
<1>3. PICK i \in 1..Len(l) : l[i].start = h /\ l[i].stat # NoStat
  BY <1>2 DEF MarkedAt
<1>4. m[i].start = h /\ m[i].stat # NoStat
  BY <1>1, <1>3
<1> QED
  BY <1>2, <1>3, <1>4 DEF MarkedAt, m

LEMMA AppendedMark ==
    ASSUME NEW l \in Lists, NEW r \in RangeType, NEW h,
           MarkedAt(l, h) \/ (r.start = h /\ r.stat # NoStat)
    PROVE  MarkedAt(Append(l, r), h)
<1> DEFINE m == Append(l, r)
<1>1. /\ m \in Lists /\ Len(m) = Len(l) + 1
      /\ \A i \in 1..Len(l) : m[i] = l[i]
      /\ m[Len(l) + 1] = r
  BY AppendedCell DEF Lists
<1> HIDE DEF m
<1>2. DOMAIN m = 1..(Len(l) + 1) /\ DOMAIN l = 1..Len(l) /\ Len(l) \in Nat
  BY <1>1, CellsOfLists
<1>3. CASE MarkedAt(l, h)
  <2>1. PICK i \in 1..Len(l) : l[i].start = h /\ l[i].stat # NoStat
    BY <1>2, <1>3 DEF MarkedAt
  <2>2. i \in 1..(Len(l) + 1) /\ m[i].start = h /\ m[i].stat # NoStat
    BY <1>1, <1>2, <2>1
  <2> QED
    BY <1>2, <2>2 DEF MarkedAt, m
<1>4. CASE r.start = h /\ r.stat # NoStat
  <2>1. Len(l) + 1 \in 1..(Len(l) + 1)
    BY <1>2
  <2> QED
    BY <1>1, <1>2, <1>4, <2>1 DEF MarkedAt, m
<1> QED
  BY <1>3, <1>4

(* The list grows by the next block of the disk, if that is free.          *)
LEMMA WithBlockIs ==
    ASSUME NEW l \in Lists, Ordered(l), NEW b \in Nat,
           \A i \in 1..Len(l) : l[i].end < b,
           NEW free, NEW marks, NEW kind \in Stats
    PROVE  LET m == WithBlock(l, b, free, marks, kind)
           IN  /\ m \in Lists /\ Ordered(m)
               /\ \A i \in 1..Len(m) : m[i].end < b + 1
               /\ BlocksOf(m) = IF b \in free THEN BlocksOf(l) \cup {b} ELSE BlocksOf(l)
               /\ \A h : MarkedAt(l, h) => MarkedAt(m, h)
               /\ b \in free /\ b \in marks => MarkedAt(m, b)
<1> DEFINE k == Len(l)
           m == WithBlock(l, b, free, marks, kind)
           joins == l # <<>> /\ l[k].end + 1 = b /\ b \notin marks
<1>1. /\ k \in Nat /\ DOMAIN l = 1..k
      /\ \A i \in 1..k : /\ l[i] \in RangeType
                         /\ l[i].start \in Nat /\ l[i].end \in Nat
                         /\ l[i].stat \in Stats \cup {NoStat}
  BY CellsOfLists
<1>2. m = IF b \notin free THEN l
          ELSE IF joins THEN [l EXCEPT ![k].end = b]
          ELSE Append(l, [start |-> b, end |-> b,
                          stat |-> IF b \in marks THEN kind ELSE NoStat])
  BY DEF WithBlock, Last
<1>3. CASE b \notin free
  <2>1. \A i \in 1..Len(l) : l[i].end < b + 1
    BY <1>1
  <2> QED
    BY <1>2, <1>3, <2>1
<1>4. CASE b \in free /\ joins
  <2>1. k \in 1..k /\ l[k].end + 1 = b /\ b \notin marks
    BY <1>1, <1>4, EmptySeq DEF Lists
  <2> DEFINE r == [l[k] EXCEPT !.end = b]
             j == [l EXCEPT ![k] = r]
  <2>2. m = j
    <3>1. [l EXCEPT ![k].end = b] = j
      OBVIOUS
    <3> QED
      BY <1>2, <1>4, <3>1
  <2>3. r \in RangeType /\ r.start = l[k].start /\ r.end = b /\ r.stat = l[k].stat
    BY <1>1, <2>1 DEF RangeType
  <2>4. l[k].start <= l[k].end
    BY <1>1, <2>1 DEF Ordered
  <2>5. \A i \in 1..k : i < k => l[i].end < r.start
    BY <1>1, <2>1, <2>3 DEF Ordered
  <2> HIDE DEF r
  <2>6. r.start <= r.end
    BY <1>1, <2>1, <2>3, <2>4
  <2>7. /\ j \in Lists /\ Len(j) = k /\ Ordered(j)
        /\ BlocksOf(j) = (BlocksOf(l) \ Extent(l[k])) \cup Extent(r)
    <3> DEFINE t == k
    <3>1. t \in 1..Len(l) /\ \A i \in 1..Len(l) : ~(t < i)
      BY <1>1, <2>1
    <3>2. \A i \in 1..Len(l) : i < t => l[i].end < r.start
      BY <2>5
    <3>3. j = [l EXCEPT ![t] = r] /\ l[t] = l[k]
      OBVIOUS
    <3> HIDE DEF t, j
    <3>4. /\ [l EXCEPT ![t] = r] \in Lists
          /\ Len([l EXCEPT ![t] = r]) = Len(l)
          /\ Ordered([l EXCEPT ![t] = r])
          /\ BlocksOf([l EXCEPT ![t] = r]) = (BlocksOf(l) \ Extent(l[t])) \cup Extent(r)
      BY <2>3, <2>6, <3>1, <3>2, ReplacedCell
    <3> QED
      BY <3>3, <3>4
  <2>8. Extent(r) = Extent(l[k]) \cup {b}
    BY <1>1, <2>1, <2>3, <2>4 DEF Extent
  <2>9. Extent(l[k]) \subseteq BlocksOf(l)
    BY <1>1, <2>1 DEF BlocksOf
  <2>10. \A i \in 1..k : j[i] = IF i = k THEN r ELSE l[i]
    BY <2>1, <2>3, ExceptCells DEF Lists
  <2>11. \A h : MarkedAt(l, h) => MarkedAt(j, h)
    BY <2>1, <2>3, ReplacedMark
  <2> HIDE DEF j, m
  <2>12. \A i \in 1..Len(j) : j[i].end < b + 1
    <3> SUFFICES ASSUME NEW i \in 1..k PROVE j[i].end < b + 1
      BY <2>7
    <3>1. CASE i = k
      BY <2>3, <2>10, <3>1
    <3>2. CASE i # k
      <4>1. j[i] = l[i] /\ l[i].end < b /\ l[i].end \in Nat
        BY <1>1, <2>10, <3>2
      <4> QED
        BY <4>1
    <3> QED
      BY <3>1, <3>2
  <2>13. BlocksOf(j) = BlocksOf(l) \cup {b}
    BY <2>7, <2>8, <2>9
  <2>14. /\ m \in Lists /\ Ordered(m)
         /\ \A i \in 1..Len(m) : m[i].end < b + 1
         /\ BlocksOf(m) = BlocksOf(l) \cup {b}
         /\ \A h : MarkedAt(l, h) => MarkedAt(m, h)
    BY <2>2, <2>7, <2>11, <2>12, <2>13
  <2> QED
    BY <1>4, <2>1, <2>14 DEF m
<1>5. CASE b \in free /\ ~joins
  <2> DEFINE r == [start |-> b, end |-> b, stat |-> IF b \in marks THEN kind ELSE NoStat]
             j == Append(l, r)
  <2>1. m = j
    BY <1>2, <1>5
  <2>2. /\ r \in RangeType /\ r.start = b /\ r.end = b
        /\ r.stat = IF b \in marks THEN kind ELSE NoStat
    BY DEF RangeType
  <2> HIDE DEF r
  <2>3. /\ j \in Lists /\ Len(j) = k + 1
        /\ \A i \in 1..k : j[i] = l[i]
        /\ j[k + 1] = r
        /\ BlocksOf(j) = BlocksOf(l) \cup Extent(r)
    BY <2>2, AppendedCell DEF Lists
  <2>4. \A h : MarkedAt(l, h) => MarkedAt(j, h)
    BY <2>2, AppendedMark
  <2>5. b \in marks => MarkedAt(j, b)
    BY <2>2, StatsAssumption, AppendedMark
  <2> HIDE DEF j, m
  <2>6. DOMAIN j = 1..(k + 1)
    BY <2>3, CellsOfLists
  <2>7. ASSUME NEW i \in 1..(k + 1)
        PROVE  j[i].start <= j[i].end /\ j[i].end < b + 1 /\ (i # k + 1 => j[i].end < b)
    <3>1. CASE i = k + 1
      BY <2>2, <2>3, <3>1
    <3>2. CASE i # k + 1
      <4>1. i \in 1..k
        BY <1>1, <3>2
      <4>2. l[i].start <= l[i].end /\ l[i].end < b /\ l[i].end \in Nat /\ j[i] = l[i]
        BY <1>1, <2>3, <4>1 DEF Ordered
      <4> QED
        BY <4>2
    <3> QED
      BY <3>1, <3>2
  <2>8. ASSUME NEW i \in 1..(k + 1), NEW n \in 1..(k + 1), i < n
        PROVE  j[i].end < j[n].start
    <3>1. CASE n = k + 1
      BY <1>1, <2>2, <2>3, <2>7, <2>8, <3>1
    <3>2. CASE n # k + 1
      <4>1. i \in 1..k /\ n \in 1..k
        BY <1>1, <2>8, <3>2
      <4> QED
        BY <1>1, <2>3, <2>8, <4>1 DEF Ordered
    <3> QED
      BY <3>1, <3>2
  <2>9. Ordered(j)
    BY <2>6, <2>7, <2>8 DEF Ordered
  <2>10. Extent(r) = {b}
    BY <2>2 DEF Extent
  <2>11. \A i \in 1..Len(j) : j[i].end < b + 1
    BY <2>3, <2>7
  <2>12. /\ m \in Lists /\ Ordered(m)
         /\ \A i \in 1..Len(m) : m[i].end < b + 1
         /\ BlocksOf(m) = BlocksOf(l) \cup {b}
         /\ \A h : MarkedAt(l, h) => MarkedAt(m, h)
         /\ b \in marks => MarkedAt(m, b)
    BY <2>1, <2>3, <2>4, <2>5, <2>9, <2>10, <2>11
  <2> QED
    BY <1>5, <2>12 DEF m
<1> QED
  BY <1>3, <1>4, <1>5

(* The list of the free blocks has these blocks, and the marks.            *)
LEMMA ListOfIs ==
    ASSUME NEW free, free \subseteq Disk, NEW marks, NEW kind \in Stats
    PROVE  LET l == ListOf(free, marks, kind)
           IN  /\ l \in Lists /\ Ordered(l) /\ BlocksOf(l) = free
               /\ \A h \in marks : h \in free => MarkedAt(l, h)
<1> DEFINE R == Runs(free, marks, kind)
           Good(m) == /\ R[m] \in Lists /\ Ordered(R[m])
                      /\ \A i \in 1..Len(R[m]) : R[m][i].end < m
                      /\ BlocksOf(R[m]) = { b \in free : b < m }
                      /\ \A h \in marks : h \in free /\ h < m => MarkedAt(R[m], h)
           M == { m \in Nat : m <= Blocks => Good(m) }
<1>1. R = [i \in 0..Blocks |-> IF i = 0 THEN <<>>
                               ELSE WithBlock(R[i - 1], i - 1, free, marks, kind)]
  BY RunsIs
<1>2. Blocks \in Nat
  BY BruteForceAssumption
<1>3. \A b \in free : b \in Nat /\ b < Blocks
  BY <1>2 DEF Disk
<1> HIDE DEF R
<1>4. /\ R[0] = <<>>
      /\ \A i \in 1..Blocks : R[i] = WithBlock(R[i - 1], i - 1, free, marks, kind)
  BY <1>1, <1>2
<1>5. 0 \in M
  <2>1. <<>> \in Lists /\ Ordered(<<>>) /\ Len(<<>>) = 0
    BY DEF Ordered, Lists
  <2>2. BlocksOf(<<>>) = { b \in free : b < 0 }
    BY <1>3, NoCellsNoBlocks
  <2>3. Good(0)
    BY <1>3, <1>4, <2>1, <2>2
  <2> QED
    BY <2>3
<1>6. ASSUME NEW m \in Nat, m \in M PROVE m + 1 \in M
  <2> SUFFICES ASSUME m + 1 <= Blocks PROVE Good(m + 1)
    OBVIOUS
  <2>1. m + 1 \in 1..Blocks /\ (m + 1) - 1 = m /\ m <= Blocks
    BY <1>2
  <2> DEFINE l == R[m]
             n == R[m + 1]
  <2>2. /\ l \in Lists /\ Ordered(l) /\ \A i \in 1..Len(l) : l[i].end < m
        /\ BlocksOf(l) = { b \in free : b < m }
        /\ \A h \in marks : h \in free /\ h < m => MarkedAt(l, h)
    BY <2>1, <1>6
  <2>3. n = WithBlock(l, m, free, marks, kind)
    BY <2>1, <1>4
  <2> HIDE DEF l, n, M
  <2>4. /\ n \in Lists /\ Ordered(n)
        /\ \A i \in 1..Len(n) : n[i].end < m + 1
        /\ BlocksOf(n) = IF m \in free THEN BlocksOf(l) \cup {m} ELSE BlocksOf(l)
        /\ \A h : MarkedAt(l, h) => MarkedAt(n, h)
        /\ m \in free /\ m \in marks => MarkedAt(n, m)
    BY <2>2, <2>3, WithBlockIs
  <2>5. BlocksOf(n) = { b \in free : b < m + 1 }
    <3>1. ASSUME NEW b \in free PROVE b < m + 1 <=> b < m \/ b = m
      BY <1>3
    <3> QED
      BY <2>2, <2>4, <3>1
  <2>6. ASSUME NEW h \in marks, h \in free, h < m + 1 PROVE MarkedAt(n, h)
    <3>1. h < m \/ h = m
      BY <1>3, <2>6
    <3> QED
      BY <2>2, <2>4, <2>6, <3>1
  <2> QED
    BY <2>4, <2>5, <2>6 DEF n
<1> HIDE DEF M
<1>7. Blocks \in M
  BY <1>2, <1>5, <1>6, CountUp
<1>8. Good(Blocks)
  BY <1>2, <1>7 DEF M
<1>9. { b \in free : b < Blocks } = free
  BY <1>3
<1>10. \A h \in marks : h \in free => MarkedAt(R[Blocks], h)
  BY <1>3, <1>8
<1> QED
  BY <1>8, <1>9, <1>10 DEF R, ListOf

LEMMA BfInit ==
    ASSUME Init
    PROVE  BfInv /\ MarksInv /\ WalkInv
<1> DEFINE kind == CHOOSE k \in Stats : TRUE
<1>1. PICK free \in SUBSET Disk :
        /\ headers \in SUBSET free
        /\ \/ whole = <<>>
           \/ whole \in Files
        /\ \E marks \in IF whole = <<>> THEN SUBSET headers ELSE {headers} :
             LET list == ListOf(free, marks, kind)
             IN  /\ space = [list |-> list, cur |-> Len(list), offset |-> 0]
                 /\ ghost = Ghost(Disk \ free, marks)
  BY DEF Init
<1>2. PICK marks \in SUBSET free :
        LET list == ListOf(free, marks, kind)
        IN  /\ space = [list |-> list, cur |-> Len(list), offset |-> 0]
            /\ ghost = Ghost(Disk \ free, marks)
  BY <1>1
<1> DEFINE l == ListOf(free, marks, kind)
<1>3. kind \in Stats
  BY BruteForceAssumption
<1> HIDE DEF kind
<1>4. /\ l \in Lists /\ Ordered(l) /\ BlocksOf(l) = free
      /\ \A h \in marks : h \in free => MarkedAt(l, h)
  BY <1>3, ListOfIs
<1>5. space = [list |-> l, cur |-> Len(l), offset |-> 0]
  BY <1>2
<1>6. ghost = Ghost(Disk \ free, marks)
  BY <1>2
<1> HIDE DEF l
<1>7. space.list = l /\ Space(space)
  <2>1. Len(l) \in Nat /\ Len(l) \in 0..Len(l)
    BY <1>4, CellsOfLists
  <2> QED
    BY <1>4, <1>5, <2>1 DEF Space
<1>8. /\ ghost \in GhostType /\ ghost.owned = Disk \ free /\ ghost.marks = marks
      /\ ghost.before = {}
  <2>1. Disk \ free \subseteq Disk /\ marks \subseteq Disk /\ {} \subseteq Disk
          /\ FALSE \in BOOLEAN
    OBVIOUS
  <2> QED
    BY <1>6, <2>1 DEF Ghost, GhostType
<1>9. /\ pc = "open" /\ prev = ListHead /\ file = NoFile /\ levels = <<>>
      /\ nextFile = 0 /\ lastEnd = -1 /\ counted = FALSE /\ out = {} /\ lost = {}
  BY DEF Init
<1>10. BlocksOf(file.loc) = {}
  BY <1>9, NothingHeld, NoCellsNoBlocks
<1>11. BfHeld
  <2>1. FivePlaces(ghost.owned, BlocksOf(space.list), BlocksOf(file.loc), out, lost)
    BY <1>4, <1>7, <1>8, <1>9, <1>10 DEF FivePlaces
  <2> QED
    BY <1>7, <1>8, <1>9, <2>1, NothingHeld DEF BfHeld, Held
<1>12. BfShape
  <2>1. whole \in Seq(Disk)
    <3>1. CASE whole = <<>>
      BY <3>1
    <3>2. CASE whole \in Files
      <4>1. PICK n \in 1..MaxWhole : whole \in [1..n -> Disk]
        BY <3>2 DEF Files
      <4>2. n \in Nat
        BY BruteForceAssumption
      <4> QED
        BY <4>1, <4>2, SeqDef
    <3> QED
      BY <1>1, <3>1, <3>2
  <2>2. prev \in Freed..Len(space.list)
    <3>1. Len(l) \in Nat
      BY <1>4, CellsOfLists
    <3> QED
      BY <1>7, <1>9, <3>1 DEF ListHead, Freed
  <2>3. levels \in Seq(LevelType)
    BY <1>9
  <2>4. lastEnd \in Int
    BY <1>9
  <2>5. nextFile \in Nat
    BY <1>9
  <2>6. counted \in BOOLEAN
    BY <1>9
  <2>7. pc = "open"
    BY <1>9
  <2> QED
    BY <2>1, <2>2, <2>3, <2>4, <2>5, <2>6, <2>7 DEF BfShape
<1>13. BfFile
  BY <1>9, NothingHeld DEF BfFile, Searching
<1>14. BfCalls
  BY <1>9 DEF BfCalls, Searching
<1>15. BfPlace
  BY <1>9 DEF BfPlace
<1>16. MarksInv
  BY <1>4, <1>7, <1>8, <1>10 DEF MarksInv, Marked
<1>17. WalkInv
  BY <1>8, <1>9 DEF WalkInv
<1> QED
  BY <1>11, <1>12, <1>13, <1>14, <1>15, <1>16, <1>17 DEF BfInv

(* Whatever is done in the pass, every block is in one place, and what is  *)
(* written of a file begins with its header and goes forward on the disk.  *)
THEOREM BruteForceConserves == Spec => []Conservation
<1>1. Init => BfInv
  BY BfInit
<1>2. BfInv /\ [Next]_vars => BfInv'
  BY NextKeeps
<1>3. BfInv => Conservation
  <2> SUFFICES ASSUME BfInv PROVE Conservation
    OBVIOUS
  <2>1. Held(space, file, ghost, out, lost)
    BY DEF BfInv, BfHeld
  <2>2. Ordered(space.list) /\ FileFromHeader
    BY <2>1 DEF Held, Space, FileFromHeader, InOrder
  <2> DEFINE a == ghost.owned
             b == BlocksOf(space.list)
             c == InFile
             parts == << a, b, c, lost, out >>
  <2>3. FivePlaces(a, b, c, out, lost)
    BY <2>1 DEF Held, InFile
  <2>4. Conservation <=>
           /\ Ordered(space.list)
           /\ UNION { parts[i] : i \in DOMAIN parts } = Disk
           /\ \A i, j \in DOMAIN parts : i # j => parts[i] \cap parts[j] = {}
           /\ FileFromHeader
    BY DEF Conservation
  <2> HIDE DEF a, b, c
  <2>5. /\ DOMAIN parts = 1..5 /\ 1..5 = {1, 2, 3, 4, 5}
        /\ parts[1] = a /\ parts[2] = b /\ parts[3] = c /\ parts[4] = lost /\ parts[5] = out
    OBVIOUS
  <2> HIDE DEF parts
  <2>6. UNION { parts[i] : i \in DOMAIN parts } = a \cup b \cup c \cup lost \cup out
    BY <2>5
  <2>7. UNION { parts[i] : i \in DOMAIN parts } = Disk
    BY <2>3, <2>6 DEF FivePlaces
  <2>8. \A i, j \in DOMAIN parts : i # j => parts[i] \cap parts[j] = {}
    BY <2>3, <2>5 DEF FivePlaces
  <2> QED
    BY <2>2, <2>4, <2>7, <2>8
<1> QED
  BY <1>1, <1>2, <1>3, PTL DEF Spec

-----------------------------------------------------------------------------
(* The walk                                                                *)

(* What the properties look at while a file is in progress.                *)
Grows == /\ ghost'.before = ghost.before /\ ghost'.marks = ghost.marks
         /\ ghost.unmarked \subseteq ghost'.unmarked
         /\ ghost.short => ghost'.short

LEMMA GhostStays ==
    ASSUME ghost' = ghost
    PROVE  Grows
  BY DEF Grows

LEMMA TakenGrows ==
    ASSUME BfInv, space.offset \in Disk, NEW f, ghost' = Taken(ghost, space, f)
    PROVE  Grows
<1> DEFINE h == Taken(ghost, space, f)
<1>1. ghost \in GhostType
  BY InvParts
<1>2. /\ h.marks = ghost.marks /\ h.before = ghost.before
      /\ ghost.unmarked \subseteq h.unmarked
      /\ ghost.short => h.short
  BY <1>1, TakenIs
<1>3. ghost' = h
  OBVIOUS
<1> HIDE DEF h
<1> QED
  BY <1>2, <1>3 DEF Grows

(* The position is on a block of the disk.                                 *)
LEMMA OnDisk ==
    ASSUME BfInv, OnRange(space)
    PROVE  space.offset \in Disk
<1>1. Space(space) /\ BlocksOf(space.list) \subseteq Disk
  BY InvParts
<1> QED
  BY <1>1, TakeIs

LEMMA ScanGrows ==
    ASSUME BfInv, Scan
    PROVE  Grows
<1>1. \/ \E f : ghost' = Taken(ghost, space, f)
      \/ \E c \in BOOLEAN : ghost' = [ghost EXCEPT !.spoilt = ghost.spoilt \/ c]
  <2>1. PICK kind \in Recognised, checked \in BOOLEAN, full \in BOOLEAN,
           written \in IF Faulty THEN BOOLEAN ELSE {TRUE} :
          LET found == kind # NoStat /\ file.stat = NoStat
              ends == AtStart /\ ((kind = NoStat) <=> (file.stat = NoStat))
              f == IF found THEN [NoFile EXCEPT !.stat = kind, !.check = checked,
                                                !.start = space.offset]
                   ELSE file
          IN  /\ checked => found /\ AnyAnswer
              /\ \E open \in Creations(f) :
                   LET takes == open /\ ~ends
                   IN  /\ (full \/ ~written) => takes
                       /\ full => AnyAnswer
                       /\ space' = IF takes THEN RemoveBlock(space)
                                   ELSE GetNextSector(space)
                       /\ file' = IF takes THEN [Extended(f, space.offset)
                                                   EXCEPT !.open = TRUE]
                                  ELSE [f EXCEPT !.open = open]
                       /\ ghost' = IF takes THEN Taken(ghost, space, f)
                                   ELSE [ghost EXCEPT !.spoilt = @ \/ (~open /\ Saved(f))]
                       /\ indStop' = IF ~written THEN "ENOSPC"
                                     ELSE IF ~open /\ Saved(f) THEN "EACCES"
                                     ELSE indStop
                       /\ pc' = IF ends \/ full \/ space'.cur = ListHead
                                THEN "finish" ELSE "scan"
    BY Zenon DEF Scan
  <2> DEFINE found == kind # NoStat /\ file.stat = NoStat
             f == IF found THEN [NoFile EXCEPT !.stat = kind, !.check = checked,
                                               !.start = space.offset]
                  ELSE file
  <2>2. PICK open \in Creations(f) :
          \/ ghost' = Taken(ghost, space, f)
          \/ ghost' = [ghost EXCEPT !.spoilt = ghost.spoilt \/ (~open /\ Saved(f))]
    BY <2>1
  <2> HIDE DEF f
  <2> DEFINE c == ~open /\ Saved(f)
  <2>3. c \in BOOLEAN
    OBVIOUS
  <2>4. \/ ghost' = Taken(ghost, space, f)
        \/ ghost' = [ghost EXCEPT !.spoilt = ghost.spoilt \/ c]
    BY <2>2
  <2> HIDE DEF c
  <2> QED
    BY <2>3, <2>4
<1>2. ASSUME NEW f, ghost' = Taken(ghost, space, f) PROVE Grows
  <2>1. OnRange(space)
    BY DEF BfInv, BfPlace, Scan
  <2> QED
    BY <1>2, <2>1, OnDisk, TakenGrows
<1>3. ASSUME NEW c \in BOOLEAN, ghost' = [ghost EXCEPT !.spoilt = ghost.spoilt \/ c]
      PROVE  Grows
  <2> DEFINE h == [ghost EXCEPT !.spoilt = ghost.spoilt \/ c]
  <2>1. ghost \in GhostType
    BY InvParts
  <2>2. ghost' = h
    BY <1>3
  <2>3. /\ h.marks = ghost.marks /\ h.before = ghost.before /\ h.unmarked = ghost.unmarked
        /\ ghost.short => h.short
    BY <2>1, SpoiltIs
  <2> HIDE DEF h
  <2> QED
    BY <2>2, <2>3 DEF Grows
<1> QED
  BY <1>1, <1>2, <1>3

LEMMA TrySkipGrows ==
    ASSUME BfInv, TrySkip
    PROVE  Grows
<1>1. ghost' = [ghost EXCEPT !.short = @ \/ SizeOf(file.loc) < Here.at]
  BY DEF TrySkip
<1>2. ghost \in GhostType
  BY InvParts
<1> DEFINE z == ghost.short \/ SizeOf(file.loc) < Here.at
<1>3. PICK y \in BOOLEAN : y = z
  OBVIOUS
<1>4. ghost' = [ghost EXCEPT !.short = y]
  BY <1>1, <1>3, Zenon
<1>5. ghost'.short = y
  BY <1>2, <1>4 DEF GhostType
<1>6. /\ ghost'.before = ghost.before /\ ghost'.marks = ghost.marks
      /\ ghost'.unmarked = ghost.unmarked
  BY <1>2, <1>4 DEF GhostType
<1> QED
  BY <1>3, <1>5, <1>6 DEF Grows

LEMMA FastAttemptGrows ==
    ASSUME BfInv, FastAttempt
    PROVE  Grows
<1> DEFINE size == FastBlocks(Here.ok)
           U == IF size > 0 THEN ghost.unmarked ELSE ghost.unmarked \cup Beginning(file)
<1>1. ghost' = [ghost EXCEPT !.spoilt = @ \/ size = 0,
                             !.short = @ \/ SizeOf(file.loc) < size,
                             !.unmarked = U]
  BY DEF FastAttempt
<1>2. ghost \in GhostType /\ U \subseteq Disk /\ ghost.unmarked \subseteq U
  BY InvParts, BeginningIs DEF GhostType
<1> DEFINE z == ghost.short \/ SizeOf(file.loc) < size
           w == ghost.spoilt \/ size = 0
<1>3. PICK y \in BOOLEAN : y = z
  OBVIOUS
<1>4. PICK x \in BOOLEAN : x = w
  OBVIOUS
<1>5. ghost' = [ghost EXCEPT !.spoilt = x, !.short = y, !.unmarked = U]
  BY <1>1, <1>3, <1>4, Zenon
<1> HIDE DEF U
<1>6. ghost'.short = y
  BY <1>2, <1>5 DEF GhostType
<1>7. /\ ghost'.before = ghost.before /\ ghost'.marks = ghost.marks
      /\ ghost'.unmarked = U
  BY <1>2, <1>5 DEF GhostType
<1> QED
  BY <1>2, <1>3, <1>6, <1>7 DEF Grows

LEMMA FinishWithErrorGrows ==
    ASSUME BfInv, FinishWithError
    PROVE  Grows
<1>1. \/ ghost' = [ghost EXCEPT !.unmarked = @ \cup Beginning(file)]
      \/ ghost' = ghost
  BY DEF FinishWithError
<1>2. CASE ghost' = [ghost EXCEPT !.unmarked = @ \cup Beginning(file)]
  <2> DEFINE U == ghost.unmarked \cup Beginning(file)
  <2>1. ghost \in GhostType /\ U \subseteq Disk /\ ghost.unmarked \subseteq U
    BY InvParts, BeginningIs DEF GhostType
  <2>2. ghost' = [ghost EXCEPT !.unmarked = U]
    BY <1>2
  <2> HIDE DEF U
  <2>3. /\ ghost'.before = ghost.before /\ ghost'.marks = ghost.marks
        /\ ghost'.unmarked = U
    BY <2>1, <2>2 DEF GhostType
  <2>4. ghost'.short = ghost.short
    BY <2>1, <2>2 DEF GhostType
  <2> QED
    BY <2>1, <2>3, <2>4 DEF Grows
<1> QED
  BY <1>1, <1>2, GhostStays

(* A step of the search that is neither of these.                          *)
LEMMA TakeGrows ==
    ASSUME BfInv, pc \in {"fill", "pad"}, space.cur # ListHead, TakeBlock
    PROVE  Grows
<1>1. OnRange(space)
  BY DEF BfInv, BfPlace
<1> QED
  BY <1>1, OnDisk, TakenGrows DEF TakeBlock

(* Where no file is closed, none is recovered.                             *)
LEMMA WalkQuiet ==
    ASSUME WalkInv, UNCHANGED << counted, out >>, Grows
    PROVE  WalkInv'
  BY DEF WalkInv, Grows

(* A file that is recovered with a block has one that no other had.        *)
LEMMA CloseCounts ==
    ASSUME BfInv, WalkInv, NEW size \in Nat \ {0}, NEW recovered \in BOOLEAN,
           Close(TruncatedLoc(file.loc, size), recovered), ghost' = ghost,
           recovered /\ ~ghost.short => file.loc # <<>>
    PROVE  WalkInv'
<1> DEFINE k == TruncatedLoc(file.loc, size)
<1>1. /\ Held(space, file, ghost, out, lost) /\ Space(space)
      /\ file.loc \in Seq(Fragment) /\ Apart(file.loc)
      /\ BlocksOf(space.list) \cap BlocksOf(file.loc) = {}
  BY InvParts
<1>2. /\ k \in Seq(Fragment) /\ Apart(k) /\ BlocksOf(k) \subseteq BlocksOf(file.loc)
      /\ file.loc # <<>> => k # <<>>
  <2>1. k \in Seq(Fragment) /\ Apart(k)
    BY <1>1, TruncatedLocIs
  <2>2. BlocksOf(k) \subseteq BlocksOf(file.loc)
    BY <1>1, TruncatedSpaceIs
  <2>3. size >= 1 /\ size \in Nat
    OBVIOUS
  <2>4. file.loc # <<>> => k # <<>>
    BY <1>1, <2>3, TruncatedSize
  <2> QED
    BY <2>1, <2>2, <2>4
<1> HIDE DEF k
<1>3. BlocksOf(file.loc) \cap out = {}
  BY <1>1 DEF Held, FivePlaces
<1>4. /\ recovered => out' = out \cup BlocksOf(k)
      /\ ~recovered => out' = out
      /\ counted' = (counted \/ recovered)
  BY DEF Close, k
<1>5. k # <<>> => BlocksOf(k) # {}
  <2> SUFFICES ASSUME k # <<>> PROVE BlocksOf(k) # {}
    OBVIOUS
  <2>1. Len(k) \in Nat /\ Len(k) # 0
    BY <1>2, EmptySeq, FragmentCells
  <2>2. 1 \in 1..Len(k) /\ 1 \in DOMAIN k
    BY <1>2, <2>1, FragmentCells
  <2>3. k[1].start <= k[1].end /\ k[1].start \in Nat /\ k[1].end \in Nat
    BY <1>2, <2>2, FragmentCells DEF Apart
  <2>4. k[1].start \in Extent(k[1])
    BY <2>3 DEF Extent
  <2> QED
    BY <2>2, <2>4 DEF BlocksOf
<1>6. ghost.before \subseteq out
  BY DEF WalkInv
<1>7. CASE recovered
  <2>1. ghost.short \/ out' # ghost.before
    BY <1>2, <1>3, <1>4, <1>5, <1>6, <1>7
  <2>2. ghost.before \subseteq out'
    BY <1>4, <1>6, <1>7
  <2> QED
    BY <2>1, <2>2 DEF WalkInv
<1>8. CASE ~recovered
  <2>1. out' = out /\ (counted' => counted)
    BY <1>4, <1>8
  <2> QED
    BY <2>1 DEF WalkInv
<1> QED
  BY <1>7, <1>8

(* A file without blocks is not recovered, but from what an earlier        *)
(* attempt left.                                                           *)
LEMMA FinishBfCounts ==
    ASSUME BfInv, WalkInv, NEW size \in FinalSizes(file), FinishBf(size), ghost' = ghost,
           ~ghost.short => file.size = SizeOf(file.loc)
    PROVE  WalkInv'
<1>1. CASE size = 0
  <2>1. UNCHANGED << counted, out >>
    BY <1>1 DEF FinishBf
  <2> QED
    BY <2>1, GhostStays, WalkQuiet
<1>2. CASE size # 0
  <2>1. Close(TruncatedLoc(file.loc, size), TRUE)
    BY <1>2 DEF FinishBf
  <2>2. size \in Nat \ {0} /\ (~ghost.short => file.loc # <<>>)
    BY <1>2, FinalSizesIs
  <2> QED
    BY <2>1, <2>2, CloseCounts
<1> QED
  BY <1>1, <1>2

LEMMA SettleCounts ==
    ASSUME BfInv, WalkInv, Settle
    PROVE  WalkInv'
<1>1. ghost' = ghost
  BY DEF Settle
<1>2. CASE file.stat = NoStat
  <2>1. UNCHANGED << counted, out >>
    BY <1>2 DEF Settle
  <2> QED
    BY <1>1, <2>1, GhostStays, WalkQuiet
<1>3. CASE file.stat # NoStat
  <2>1. PICK size \in FinalSizes(file) :
          LET loc == TruncatedLoc(file.loc, size)
          IN  IF size = 0 \/ (loc = <<>> /\ ~file.open)
              THEN UNCHANGED << lastEnd, out, lost, counted >>
              ELSE Close(loc, file.open)
    BY <1>3 DEF Settle
  <2> DEFINE loc == TruncatedLoc(file.loc, size)
  <2>2. CASE size = 0 \/ (loc = <<>> /\ ~file.open)
    <3>1. UNCHANGED << counted, out >>
      BY <2>1, <2>2
    <3> QED
      BY <1>1, <3>1, GhostStays, WalkQuiet
  <2>3. CASE ~(size = 0 \/ (loc = <<>> /\ ~file.open))
    <3>1. Close(loc, file.open) /\ size \in Nat \ {0} /\ file.open \in BOOLEAN
      BY <2>1, <2>3, FinalSizesIs, InvParts DEF FileType
    <3>2. file.open /\ ~ghost.short => file.size = SizeOf(file.loc)
      BY InvParts DEF Held
    <3>3. file.open /\ ~ghost.short => file.loc # <<>>
      BY <3>1, <3>2, FinalSizesIs
    <3> QED
      BY <1>1, <3>1, <3>3, CloseCounts
  <2> QED
    BY <2>2, <2>3
<1> QED
  BY <1>2, <1>3

(* In a new range nothing is recovered yet.                                *)
LEMMA NextRangeCounts ==
    ASSUME BfInv, WalkInv, NextRange
    PROVE  WalkInv'
<1>1. counted' = FALSE /\ out' = out /\ ghost \in GhostType
  BY InvParts DEF NextRange
<1>2. CASE prev = Freed
  <2>1. ghost' = ghost
    BY <1>2 DEF NextRange
  <2> QED
    BY <1>1, <2>1 DEF WalkInv
<1>3. CASE prev # Freed
  <2>1. ghost' = [ghost EXCEPT !.spoilt = FALSE, !.short = FALSE, !.before = out]
    BY <1>3 DEF NextRange
  <2>2. ghost'.before = out
    BY <1>1, <2>1 DEF GhostType
  <2> QED
    BY <1>1, <2>2 DEF WalkInv
<1> QED
  BY <1>2, <1>3

(* Every step of the pass, for what it does to files in progress: a file   *)
(* is closed, the walk goes on, or no file is recovered.                   *)
LEMMA StepsGrow ==
    ASSUME BfInv, [Next]_vars
    PROVE  \/ NextRange
           \/ Settle
           \/ FinishDirectly
           \/ PadCheck /\ \E r \in Reports(file) : PadComplete(r)
           \/ UNCHANGED << counted, out >> /\ Grows
<1>1. CASE Open
  BY <1>1, GhostStays DEF Open
<1>2. CASE Scan
  <2>1. UNCHANGED << counted, out >>
    BY <1>2 DEF Scan
  <2> QED
    BY <1>2, <2>1, ScanGrows
<1>3. CASE FinishWithError
  <2>1. UNCHANGED << counted, out >>
    BY <1>3 DEF FinishWithError
  <2> QED
    BY <1>3, <2>1, FinishWithErrorGrows
<1>4. CASE SplitAt
  BY <1>4, GhostStays DEF SplitAt, quiet
<1>5. CASE TrySkip
  <2>1. UNCHANGED << counted, out >>
    BY <1>5 DEF TrySkip, quiet
  <2> QED
    BY <1>5, <2>1, TrySkipGrows
<1>6. CASE SkipForgetsBlocks
  BY <1>6, GhostStays DEF SkipForgetsBlocks, quiet
<1>7. CASE NoMoreSkips
  BY <1>7, GhostStays DEF NoMoreSkips, quiet
<1>8. CASE FastAttempt
  <2>1. UNCHANGED << counted, out >>
    BY <1>8 DEF FastAttempt, quiet
  <2> QED
    BY <1>8, <2>1, FastAttemptGrows
<1>9. CASE FastGivesUp
  BY <1>9, GhostStays DEF FastGivesUp, quiet
<1>10. CASE WriteFails
  BY <1>10, GhostStays DEF WriteFails, quiet
<1>11. CASE Fill
  <2>1. CASE TakeBlock /\ UNCHANGED quiet
    <3>1. pc \in {"fill", "pad"} /\ space.cur # ListHead
      BY <1>11 DEF Fill
    <3>2. UNCHANGED << counted, out >>
      BY <2>1 DEF quiet
    <3> QED
      BY <2>1, <3>1, <3>2, TakeGrows
  <2> QED
    BY <1>10, <1>11, <2>1 DEF Fill
<1>12. CASE FillBehindTheEnd
  BY <1>12, GhostStays DEF FillBehindTheEnd, quiet
<1>13. CASE SkipGap
  BY <1>13, GhostStays DEF SkipGap, quiet
<1>14. CASE PadBlock
  <2>1. CASE TakeBlock /\ UNCHANGED quiet
    <3>1. pc \in {"fill", "pad"} /\ space.cur # ListHead
      BY <1>14 DEF PadBlock, Padding
    <3>2. UNCHANGED << counted, out >>
      BY <2>1 DEF quiet
    <3> QED
      BY <2>1, <3>1, <3>2, TakeGrows
  <2>2. CASE UNCHANGED quiet /\ ghost' = ghost
    BY <2>2, GhostStays DEF quiet
  <2> QED
    BY <1>10, <1>14, <2>1, <2>2 DEF PadBlock
<1>15. CASE PadCheck
  <2>1. PICK r \in Reports(file) : PadMore(r) \/ PadComplete(r) \/ PadFails(r)
    BY <1>15 DEF PadCheck
  <2>2. CASE PadMore(r)
    BY <2>2, GhostStays DEF PadMore, quiet
  <2>3. CASE PadFails(r)
    BY <2>3, GhostStays DEF PadFails, quiet
  <2> QED
    BY <1>15, <2>1, <2>2, <2>3
<1>16. CASE UNCHANGED vars
  BY <1>16, GhostStays DEF vars
<1> QED
  BY <1>1, <1>2, <1>3, <1>4, <1>5, <1>6, <1>7, <1>8, <1>9, <1>11, <1>12, <1>13, <1>14,
     <1>15, <1>16 DEF Next

LEMMA WalkKeeps ==
    ASSUME BfInv, WalkInv, [Next]_vars
    PROVE  WalkInv'
<1>1. CASE FinishDirectly
  <2>1. pc = "finish" /\ ghost' = ghost /\ \E size \in FinalSizes(file) : FinishBf(size)
    BY <1>1 DEF FinishDirectly
  <2>2. ~ghost.short => file.size = SizeOf(file.loc)
    BY <2>1 DEF BfInv, BfFile
  <2> QED
    BY <2>1, <2>2, FinishBfCounts
<1>2. ASSUME PadCheck, NEW r, PadComplete(r) PROVE WalkInv'
  <2>1. pc = "pad" /\ ghost' = ghost /\ \E size \in FinalSizes(file) : FinishBf(size)
    BY <1>2 DEF PadCheck, PadComplete
  <2>2. file.open /\ Held(space, file, ghost, out, lost)
    BY <2>1, InvParts DEF BfInv, BfFile, Searching
  <2>3. ~ghost.short => file.size = SizeOf(file.loc)
    BY <2>2 DEF Held
  <2> QED
    BY <2>1, <2>3, FinishBfCounts
<1>3. CASE UNCHANGED << counted, out >> /\ Grows
  BY <1>3, WalkQuiet
<1> QED
  BY <1>1, <1>2, <1>3, SettleCounts, NextRangeCounts, StepsGrow

(* The walk goes back, unless a file was recovered in the range.           *)
THEOREM BruteForceWalkEnds == Spec => WalkEnds
<1> DEFINE Back == pc' = "open" /\ pc \in {"next", "ahead"} =>
                      (space'.cur = prev \/ out # ghost.before \/ ghost.short)
<1>1. Init => BfInv /\ WalkInv
  BY BfInit
<1>2. (BfInv /\ WalkInv) /\ [Next]_vars => (BfInv /\ WalkInv)'
  BY NextKeeps, WalkKeeps
<1>3. (BfInv /\ WalkInv) /\ [Next]_vars => [Back]_vars
  <2> SUFFICES ASSUME BfInv, WalkInv, [Next]_vars, pc' = "open", pc \in {"next", "ahead"},
                      ~UNCHANGED vars
               PROVE  space'.cur = prev \/ out # ghost.before \/ ghost.short
    OBVIOUS
  <2>1. NextRange
    BY DEF Next, Open, Scan, FinishDirectly, FinishWithError, SplitAt, TrySkip,
           SkipForgetsBlocks, NoMoreSkips, FastAttempt, FastGivesUp, Fill,
           FillBehindTheEnd, SkipGap, PadBlock, Padding, PadCheck, Settle
  <2> DEFINE to == IF GoesForward /\ NextMarked(space.list, prev) # 0
                   THEN NextMarked(space.list, prev) ELSE prev
  <2>2. prev # Freed
    BY <2>1 DEF NextRange
  <2>3. space' = [space EXCEPT !.cur = to, !.offset = 0]
    BY <2>1, <2>2 DEF NextRange
  <2> HIDE DEF to
  <2>4. space'.cur = to
    BY <2>3, InvParts DEF Space
  <2>5. CASE GoesForward
    <3>1. counted
      BY <2>5 DEF GoesForward
    <3> QED
      BY <3>1 DEF WalkInv
  <2>6. CASE ~GoesForward
    BY <2>4, <2>6 DEF to
  <2> QED
    BY <2>5, <2>6
<1>4. Spec => [][Back]_vars
  BY <1>1, <1>2, <1>3, PTL DEF Spec
<1> QED
  BY <1>4 DEF WalkEnds

-----------------------------------------------------------------------------
(* Rejected headers                                                        *)

LEMMA InsertedMark ==
    ASSUME NEW l \in Lists, NEW t \in 1..(Len(l) + 1), NEW r \in RangeType
    PROVE  \A h : MarkedAt(l, h) \/ (r.start = h /\ r.stat # NoStat)
                     => MarkedAt(InsertAt(l, t, r), h)
<1> DEFINE m == InsertAt(l, t, r)
<1>0. l \in Seq(RangeType)
  BY DEF Lists
<1>1. /\ m \in Seq(RangeType) /\ Len(m) = Len(l) + 1
      /\ \A j \in 1..(Len(l) + 1) :
            m[j] = IF j < t THEN l[j] ELSE IF j = t THEN r ELSE l[j - 1]
  BY <1>0, InsertAtCells, SMTT(30)
<1> HIDE DEF m
<1>2. /\ DOMAIN m = 1..(Len(l) + 1) /\ DOMAIN l = 1..Len(l)
      /\ Len(l) \in Nat /\ t \in Nat
  BY <1>1, CellsOfLists DEF Lists
<1>3. ASSUME NEW h, MarkedAt(l, h) PROVE MarkedAt(m, h)
  <2>1. PICK i \in 1..Len(l) : l[i].start = h /\ l[i].stat # NoStat
    BY <1>2, <1>3 DEF MarkedAt
  <2>2. CASE i < t
    <3>1. i \in 1..(Len(l) + 1) /\ m[i] = l[i]
      BY <1>1, <1>2, <2>2
    <3> QED
      BY <1>2, <2>1, <3>1 DEF MarkedAt
  <2>3. CASE ~(i < t)
    <3>1. i + 1 \in 1..(Len(l) + 1) /\ m[i + 1] = l[i]
      BY <1>1, <1>2, <2>3
    <3> QED
      BY <1>2, <2>1, <3>1 DEF MarkedAt
  <2> QED
    BY <2>2, <2>3
<1>4. ASSUME NEW h, r.start = h /\ r.stat # NoStat PROVE MarkedAt(m, h)
  <2>1. m[t] = r
    BY <1>1, <1>2
  <2> QED
    BY <1>2, <1>4, <2>1 DEF MarkedAt
<1> QED
  BY <1>3, <1>4 DEF m

LEMMA RemovedMark ==
    ASSUME NEW l \in Lists, NEW t \in 1..Len(l), NEW h,
           MarkedAt(l, h), l[t].start # h
    PROVE  MarkedAt(RemoveAt(l, t), h)
<1> DEFINE m == RemoveAt(l, t)
<1>1. /\ m \in Lists /\ Len(m) = Len(l) - 1
      /\ \A j \in 1..(Len(l) - 1) :
            m[j] = IF j < t THEN l[j] ELSE l[j + 1]
  BY RemoveAtCells DEF Lists
<1> HIDE DEF m
<1>2. /\ DOMAIN m = 1..(Len(l) - 1) /\ DOMAIN l = 1..Len(l)
      /\ Len(l) \in Nat /\ t \in Nat
  BY <1>1, CellsOfLists
<1>3. PICK i \in 1..Len(l) : l[i].start = h /\ l[i].stat # NoStat
  BY <1>2 DEF MarkedAt
<1>4. CASE i < t
  <2>1. i \in 1..(Len(l) - 1) /\ m[i] = l[i]
    BY <1>1, <1>2, <1>4
  <2> QED
    BY <1>2, <1>3, <2>1 DEF MarkedAt, m
<1>5. CASE t < i
  <2>1. i - 1 \in 1..(Len(l) - 1) /\ ~(i - 1 < t) /\ (i - 1) + 1 = i
    BY <1>2, <1>5
  <2>2. m[i - 1] = l[i]
    BY <1>1, <2>1
  <2> QED
    BY <1>2, <1>3, <2>1, <2>2 DEF MarkedAt, m
<1> QED
  BY <1>2, <1>3, <1>4, <1>5

(* The space with a cell replaced, or with a new one, keeps the marks.     *)
LEMMA WithCellMark ==
    ASSUME NEW s, Space(s), NEW t \in 1..Len(s.list), NEW r \in RangeType, NEW h,
           MarkedAt(s.list, h),
           s.list[t].start = h /\ s.list[t].stat # NoStat
              => r.start = h /\ r.stat # NoStat
    PROVE  MarkedAt(WithCell(s, t, r).list, h)
<1> DEFINE l == s.list
<1>1. l \in Lists /\ WithCell(s, t, r).list = [l EXCEPT ![t] = r]
  BY DEF Space, WithCell
<1>2. /\ t \in 1..Len(l) /\ MarkedAt(l, h)
      /\ l[t].start = h /\ l[t].stat # NoStat => r.start = h /\ r.stat # NoStat
  OBVIOUS
<1> HIDE DEF l
<1>3. MarkedAt([l EXCEPT ![t] = r], h)
  BY <1>1, <1>2, ReplacedMark
<1> QED
  BY <1>1, <1>3

LEMMA InsertEntryMark ==
    ASSUME NEW s, Space(s), NEW i \in 1..(Len(s.list) + 1), NEW r \in RangeType, NEW h,
           MarkedAt(s.list, h) \/ (r.start = h /\ r.stat # NoStat)
    PROVE  MarkedAt(InsertEntry(s, i, r).list, h)
<1>1. s.list \in Lists /\ InsertEntry(s, i, r).list = InsertAt(s.list, i, r)
  BY DEF Space, InsertEntry
<1> QED
  BY <1>1, InsertedMark

(* Blocks that are given back leave the marks as they are.                 *)
LEMMA GiveBackMark ==
    ASSUME NEW s, Space(s), NEW low \in Nat, NEW end \in Nat,
           BlocksOf(s.list) \cap (low .. end) = {}, NEW h, MarkedAt(s.list, h)
    PROVE  MarkedAt(GiveBack(s, low, end).list, h)
<1> DEFINE l == s.list
           I == { i \in 1..Len(l) :
                    \/ l[i].start = end + 1 /\ l[i].stat = NoStat
                    \/ l[i].end + 1 = low
                    \/ end < l[i].start }
           t == IF I # {} THEN Min(I) ELSE 0
           next == l[t].start = end + 1 /\ l[t].stat = NoStat
           before == l[t].end + 1 = low
           entry == [start |-> low, end |-> end, stat |-> NoStat]
           forward == [l[t] EXCEPT !.start = low]
           backward == [l[t] EXCEPT !.end = end]
<1>0. GiveBack(s, low, end) =
         IF low > end THEN s
         ELSE IF t # 0 /\ next
              THEN WithCell(s, t, forward)
         ELSE IF t # 0 /\ before
              THEN WithCell(s, t, backward)
         ELSE InsertEntry(s, PlaceOf(l, end), entry)
  BY DEF GiveBack, Nothing, SelectInSeq, WithCell
<1>1. /\ l \in Lists /\ Ordered(l) /\ Len(l) \in Nat /\ DOMAIN l = 1..Len(l)
      /\ \A j \in 1..Len(l) : /\ l[j] \in RangeType
                              /\ l[j].start \in Nat /\ l[j].end \in Nat
                              /\ l[j].stat \in Stats \cup {NoStat}
  BY CellsOfLists DEF Space
<1>2. t # 0 => t \in 1..Len(l)
  <2>1. I \subseteq 1..Len(l)
    OBVIOUS
  <2> HIDE DEF I, l
  <2> QED
    BY <2>1, <1>1, FirstCell
<1> HIDE DEF t, forward, backward, entry
<1>3. CASE low > end
  BY <1>0, <1>3
<1>4. CASE low <= end /\ t # 0 /\ next
  <2>1. GiveBack(s, low, end) = WithCell(s, t, forward)
    BY <1>0, <1>4
  <2>2. forward \in RangeType
    BY <1>1, <1>2, <1>4 DEF RangeType, forward
  <2>3. t \in 1..Len(s.list) /\ s.list[t].stat = NoStat
    BY <1>2, <1>4
  <2> QED
    BY <2>1, <2>2, <2>3, WithCellMark
<1>5. CASE low <= end /\ t # 0 /\ ~next /\ before
  <2>1. GiveBack(s, low, end) = WithCell(s, t, backward)
    BY <1>0, <1>5
  <2>2. backward \in RangeType /\ backward.start = l[t].start /\ backward.stat = l[t].stat
    BY <1>1, <1>2, <1>5 DEF RangeType, backward
  <2>3. t \in 1..Len(s.list)
    BY <1>2, <1>5
  <2> QED
    BY <2>1, <2>2, <2>3, WithCellMark
<1>6. CASE low <= end /\ ~(t # 0 /\ next) /\ ~(t # 0 /\ before)
  <2>1. GiveBack(s, low, end) = InsertEntry(s, PlaceOf(s.list, end), entry)
    BY <1>0, <1>6
  <2>2. entry \in RangeType
    BY DEF entry, RangeType
  <2>3. PlaceOf(s.list, end) \in 1..(Len(s.list) + 1)
    BY <1>1, <1>6, PlaceCorrect
  <2> QED
    BY <2>1, <2>2, <2>3, InsertEntryMark
<1>7. low > end \/ low <= end
  OBVIOUS
<1> QED
  BY <1>3, <1>4, <1>5, <1>6, <1>7

(* A header that is rejected is marked.                                    *)
LEMMA GiveBackHeaderMark ==
    ASSUME NEW s, Space(s), NEW low \in Nat, NEW end \in Nat, low <= end,
           NEW stat \in Stats \cup {NoStat},
           BlocksOf(s.list) \cap (low .. end) = {}, NEW h,
           MarkedAt(s.list, h) \/ (h = low /\ stat # NoStat)
    PROVE  MarkedAt(GiveBackHeader(s, low, end, stat).list, h)
<1> DEFINE l == s.list
           I == { i \in 1..Len(l) :
                    \/ l[i].start = end + 1 /\ l[i].stat = NoStat
                    \/ end < l[i].start }
           t == IF I # {} THEN Min(I) ELSE 0
           next == l[t].start = end + 1 /\ l[t].stat = NoStat
           entry == [start |-> low, end |-> end, stat |-> stat]
           forward == [l[t] EXCEPT !.start = low, !.stat = stat]
<1>0. GiveBackHeader(s, low, end, stat) =
         IF low > end THEN s
         ELSE IF t # 0 /\ next
              THEN WithCell(s, t, forward)
         ELSE InsertEntry(s, PlaceOf(l, end), entry)
  BY DEF GiveBackHeader, Nothing, SelectInSeq, WithCell
<1>1. /\ l \in Lists /\ Ordered(l) /\ Len(l) \in Nat /\ DOMAIN l = 1..Len(l)
      /\ \A j \in 1..Len(l) : /\ l[j] \in RangeType
                              /\ l[j].start \in Nat /\ l[j].end \in Nat
                              /\ l[j].stat \in Stats \cup {NoStat}
  BY CellsOfLists DEF Space
<1>2. t # 0 => t \in 1..Len(l)
  <2>1. I \subseteq 1..Len(l)
    OBVIOUS
  <2> HIDE DEF I, l
  <2> QED
    BY <2>1, <1>1, FirstCell
<1> HIDE DEF t, forward, entry
<1>4. CASE t # 0 /\ next
  <2>1. GiveBackHeader(s, low, end, stat) = WithCell(s, t, forward)
    BY <1>0, <1>4
  <2>2. forward \in RangeType /\ forward.start = low /\ forward.stat = stat
    BY <1>1, <1>2, <1>4 DEF RangeType, forward
  <2>3. t \in 1..Len(s.list) /\ s.list[t].stat = NoStat
    BY <1>2, <1>4
  <2>4. CASE MarkedAt(s.list, h)
    BY <2>1, <2>2, <2>3, <2>4, WithCellMark
  <2>5. CASE h = low /\ stat # NoStat
    <3> DEFINE m == [l EXCEPT ![t] = forward]
    <3>1. WithCell(s, t, forward).list = m
      BY DEF WithCell, Space
    <3>2. /\ m \in Lists /\ Len(m) = Len(l)
          /\ \A j \in 1..Len(l) : m[j] = IF j = t THEN forward ELSE l[j]
      BY <1>1, <2>2, <2>3, ExceptCells DEF Lists
    <3> HIDE DEF m
    <3>3. DOMAIN m = 1..Len(l)
      BY <3>2, CellsOfLists
    <3> QED
      BY <2>1, <2>2, <2>3, <2>5, <3>1, <3>2, <3>3 DEF MarkedAt
  <2> QED
    BY <2>4, <2>5
<1>5. CASE ~(t # 0 /\ next)
  <2>1. GiveBackHeader(s, low, end, stat) = InsertEntry(s, PlaceOf(s.list, end), entry)
    BY <1>0, <1>5
  <2>2. entry \in RangeType /\ entry.start = low /\ entry.stat = stat
    BY DEF entry, RangeType
  <2>3. PlaceOf(s.list, end) \in 1..(Len(s.list) + 1)
    BY <1>1, PlaceCorrect
  <2> QED
    BY <2>1, <2>2, <2>3, InsertEntryMark
<1> QED
  BY <1>4, <1>5

(* Taking a block leaves the marks, but that of a header it is.            *)
LEMMA RemoveFromRangeMark ==
    ASSUME NEW s, Space(s), NEW t \in 1..Len(s.list),
           s.list[t].start <= s.offset, s.offset <= s.list[t].end,
           NEW h, MarkedAt(s.list, h), h # s.offset
    PROVE  MarkedAt(RemoveFromRange(s, t).list, h)
<1> DEFINE l == s.list
           o == s.offset
<1>1. /\ l \in Lists /\ Ordered(l) /\ Len(l) \in Nat /\ DOMAIN l = 1..Len(l)
      /\ o \in Nat /\ s \in [list : Lists, cur : Nat, offset : Nat]
      /\ l[t] \in RangeType /\ l[t].start \in Nat /\ l[t].end \in Nat
      /\ l[t].stat \in Stats \cup {NoStat}
  BY CellsOfLists DEF Space
<1>2. MarkedAt(l, h) /\ t \in 1..Len(l)
  OBVIOUS
<1>3. CASE l[t].start = o /\ o + 1 <= l[t].end
  <2> DEFINE r == [l[t] EXCEPT !.start = o + 1, !.stat = NoStat]
  <2>1. r \in RangeType
    <3> DEFINE c == l[t]
               e == o + 1
    <3>1. c \in RangeType /\ e \in Nat /\ c.end \in Nat
      BY <1>1
    <3>2. r = [c EXCEPT !.start = e, !.stat = NoStat]
      OBVIOUS
    <3> HIDE DEF c, e, r
    <3>3. r = [start |-> e, end |-> c.end, stat |-> NoStat]
      BY <3>1, <3>2, RangeFrom, Zenon
    <3> QED
      BY <3>1, <3>3 DEF RangeType
  <2>2. RemoveFromRange(s, t).list = [l EXCEPT ![t] = r]
    <3>1. RemoveFromRange(s, t) = CutFirst(s, t)
      BY <1>3 DEF RemoveFromRange
    <3>2. CutFirst(s, t) = [s EXCEPT !.list = [l EXCEPT ![t] = r], !.offset = o + 1]
      BY DEF CutFirst
    <3> HIDE DEF r
    <3> QED
      BY <3>1, <3>2, <1>1
  <2> HIDE DEF r
  <2>3. ~(l[t].start = h /\ l[t].stat # NoStat)
    BY <1>3
  <2> HIDE DEF l, o
  <2>4. MarkedAt([l EXCEPT ![t] = r], h)
    BY <1>1, <1>2, <2>1, <2>3, ReplacedMark
  <2> QED
    BY <2>2, <2>4
<1>4. CASE l[t].start = o /\ ~(o + 1 <= l[t].end)
  <2>1. RemoveFromRange(s, t).list = RemoveAt(l, t)
    BY <1>1, <1>4 DEF RemoveFromRange, FreeCell, MoveTo
  <2>2. l[t].start # h
    BY <1>4
  <2> HIDE DEF l, o
  <2>3. MarkedAt(RemoveAt(l, t), h)
    BY <1>1, <1>2, <2>2, RemovedMark
  <2> QED
    BY <2>1, <2>3
<1>5. CASE l[t].start # o /\ o = l[t].end
  <2> DEFINE r == [l[t] EXCEPT !.end = l[t].end - 1]
  <2>1. r \in RangeType /\ r.start = l[t].start /\ r.stat = l[t].stat
    <3>1. l[t].end - 1 \in Nat
      BY <1>1, <1>5
    <3> QED
      BY <3>1, <1>1 DEF RangeType
  <2>2. RemoveFromRange(s, t).list = [l EXCEPT ![t] = r]
    BY <1>1, <1>5 DEF RemoveFromRange, CutLast, MoveTo
  <2> HIDE DEF r
  <2>3. l[t].start = h /\ l[t].stat # NoStat => r.start = h /\ r.stat # NoStat
    BY <2>1
  <2> HIDE DEF l, o
  <2>4. MarkedAt([l EXCEPT ![t] = r], h)
    BY <1>1, <1>2, <2>1, <2>3, ReplacedMark
  <2> QED
    BY <2>2, <2>4
<1>6. CASE l[t].start # o /\ o # l[t].end
  <2> DEFINE a == [l[t] EXCEPT !.end = o - 1]
             b == [l[t] EXCEPT !.start = o + 1, !.stat = NoStat]
             m == [l EXCEPT ![t] = a]
  <2>1. /\ a \in RangeType /\ a.start = l[t].start /\ a.stat = l[t].stat
        /\ b \in RangeType
    <3>1. o - 1 \in Nat /\ o + 1 \in Nat
      BY <1>1, <1>6
    <3> QED
      BY <3>1, <1>1 DEF RangeType
  <2>2. RemoveFromRange(s, t).list = InsertAt(m, t + 1, b)
    BY <1>6 DEF RemoveFromRange, CutMiddle
  <2> HIDE DEF a, b
  <2>3. l[t].start = h /\ l[t].stat # NoStat => a.start = h /\ a.stat # NoStat
    BY <2>1
  <2> HIDE DEF l, o
  <2>4. MarkedAt(m, h)
    BY <1>1, <1>2, <2>1, <2>3, ReplacedMark
  <2>5. m \in Lists /\ Len(m) = Len(l)
    BY <1>1, <1>2, <2>1, ExceptCells DEF Lists
  <2> HIDE DEF m
  <2>6. t + 1 \in 1..(Len(m) + 1)
    BY <1>1, <1>2, <2>5
  <2>7. MarkedAt(InsertAt(m, t + 1, b), h)
    <3> DEFINE i == t + 1
    <3>1. i \in 1..(Len(m) + 1)
      BY <2>6
    <3> HIDE DEF i
    <3>2. MarkedAt(InsertAt(m, i, b), h)
      BY <2>1, <2>4, <2>5, <3>1, InsertedMark
    <3> QED
      BY <3>2 DEF i
  <2> QED
    BY <2>2, <2>7
<1> QED
  BY <1>3, <1>4, <1>5, <1>6

LEMMA RemoveBlockMark ==
    ASSUME NEW s, Space(s), OnRange(s), NEW h, MarkedAt(s.list, h), h # s.offset
    PROVE  MarkedAt(RemoveBlock(s).list, h)
<1>1. /\ s.cur \in 1..Len(s.list) /\ s.cur # 0
      /\ s.list[s.cur].start <= s.offset /\ s.offset <= s.list[s.cur].end
  <2>1. s.cur \in 0..Len(s.list) /\ Len(s.list) \in Nat /\ s.list \in Lists
        /\ s.offset \in Nat
    BY CellsOfLists DEF Space
  <2>2. s.cur \in 1..Len(s.list)
    BY <2>1 DEF OnRange, ListHead
  <2>3. s.list[s.cur].start \in Nat /\ s.list[s.cur].end \in Nat
    BY <2>1, <2>2, CellsOfLists
  <2> QED
    BY <2>1, <2>2, <2>3 DEF OnRange, Extent, ListHead
<1>2. RemoveBlock(s) = RemoveFromRange(s, s.cur)
  BY <1>1 DEF RemoveBlock, ListHead
<1> DEFINE t == s.cur
<1>3. /\ t \in 1..Len(s.list)
      /\ s.list[t].start <= s.offset /\ s.offset <= s.list[t].end
  BY <1>1
<1> HIDE DEF t
<1>4. MarkedAt(RemoveFromRange(s, t).list, h)
  BY <1>3, RemoveFromRangeMark
<1> QED
  BY <1>2, <1>4 DEF t

(* Cutting a file leaves the marks as they are.                            *)
LEMMA TruncatedSpaceMark ==
    ASSUME NEW s, Space(s), NEW loc \in Seq(Fragment), Apart(loc), NEW size \in Nat,
           BlocksOf(s.list) \cap BlocksOf(loc) = {}, NEW h, MarkedAt(s.list, h)
    PROVE  MarkedAt(TruncatedSpace(s, loc, size).list, h)
<1> DEFINE n == Len(loc)
           R == Returns(s, loc, size)
           kept(i) == Kept(loc, size, i)
           part(i) == (loc[i].start + kept(i)) .. loc[i].end
           Back(m) == UNION { part(i) : i \in 1..m }
<1>1. /\ n \in Nat
      /\ \A i \in 1..n : loc[i].start \in Nat /\ loc[i].end \in Nat
  BY FragmentCells
<1>2. /\ \A i \in 1..n : loc[i].start <= loc[i].end
      /\ \A i, j \in 1..n : i # j => Extent(loc[i]) \cap Extent(loc[j]) = {}
  BY DEF Apart
<1>3. R = [i \in 0..n |-> IF i = 0 THEN s
                           ELSE GiveBack(R[i - 1], loc[i].start + kept(i), loc[i].end)]
  BY ReturnsIs
<1>4. ASSUME NEW i \in 1..n
      PROVE  /\ loc[i].start + kept(i) \in Nat
             /\ part(i) \subseteq Extent(loc[i])
  <2>1. kept(i) \in 0..Size(loc[i])
    BY KeptIs
  <2> HIDE DEF kept
  <2>2. kept(i) \in Nat
    BY <2>1, <1>1 DEF Size
  <2> QED
    BY <2>2, <1>1 DEF Extent
<1>5. \A b : b \in BlocksOf(loc) <=> \E i \in 1..n : b \in Extent(loc[i])
  BY BlockInCells
<1> HIDE DEF R, kept, n
<1>6. R[0] = s /\ \A i \in 1..n :
               R[i] = GiveBack(R[i - 1], loc[i].start + kept(i), loc[i].end)
  BY <1>1, <1>3
<1> DEFINE Good(m) == /\ Space(R[m])
                      /\ BlocksOf(R[m].list) = BlocksOf(s.list) \cup Back(m)
                      /\ MarkedAt(R[m].list, h)
           M == { m \in Nat : m <= n => Good(m) }
<1>7. 0 \in M
  <2>1. Back(0) = {}
    OBVIOUS
  <2> QED
    BY <2>1, <1>6
<1>8. ASSUME NEW m \in Nat, m \in M PROVE m + 1 \in M
  <2> SUFFICES ASSUME m + 1 <= n PROVE Good(m + 1)
    OBVIOUS
  <2>1. m + 1 \in 1..n /\ (m + 1) - 1 = m /\ m <= n /\ 1..(m + 1) = (1..m) \cup {m + 1}
    BY <1>1
  <2>2. Good(m)
    BY <2>1, <1>8
  <2> DEFINE P == part(m + 1)
  <2>3. Back(m + 1) = Back(m) \cup P
    <3> HIDE DEF part
    <3> QED
      BY <2>1
  <2>4. R[m + 1] = GiveBack(R[m], loc[m + 1].start + kept(m + 1), loc[m + 1].end)
    BY <2>1, <1>6
  <2>5. BlocksOf(R[m].list) \cap P = {}
    <3>1. P \subseteq Extent(loc[m + 1]) /\ P \subseteq BlocksOf(loc)
      BY <2>1, <1>4, <1>5
    <3>2. ASSUME NEW i \in 1..m PROVE part(i) \cap P = {}
      <4>1. i \in 1..n /\ i # m + 1
        BY <2>1, <1>1
      <4>2. part(i) \subseteq Extent(loc[i])
        BY <4>1, <1>4
      <4> HIDE DEF part, P
      <4> QED
        BY <4>1, <4>2, <3>1, <2>1, <1>2
    <3> HIDE DEF part, P
    <3>3. Back(m) \cap P = {}
      BY <3>2
    <3> HIDE DEF Back
    <3> QED
      BY <3>1, <3>3, <2>2
  <2>6. loc[m + 1].start + kept(m + 1) \in Nat /\ loc[m + 1].end \in Nat
    BY <2>1, <1>1, <1>4
  <2> DEFINE n1 == GiveBack(R[m], loc[m + 1].start + kept(m + 1), loc[m + 1].end)
  <2>7. /\ Space(n1) /\ MarkedAt(n1.list, h)
        /\ BlocksOf(n1.list) = BlocksOf(R[m].list) \cup P
    <3> DEFINE a == loc[m + 1].start + kept(m + 1)
               b == loc[m + 1].end
               q == R[m]
    <3>0. P = a .. b
      OBVIOUS
    <3>1. /\ a \in Nat /\ b \in Nat /\ BlocksOf(q.list) \cap (a .. b) = {} /\ Space(q)
          /\ MarkedAt(q.list, h)
      BY <2>2, <2>5, <2>6
    <3> HIDE DEF a, b, q, P, Good, part, n1
    <3>2. /\ Space(GiveBack(q, a, b))
          /\ BlocksOf(GiveBack(q, a, b).list) = BlocksOf(q.list) \cup (a .. b)
      BY <3>1, GiveBackCorrect
    <3>3. MarkedAt(GiveBack(q, a, b).list, h)
      BY <3>1, GiveBackMark
    <3> QED
      BY <3>0, <3>2, <3>3 DEF a, b, q, n1
  <2> HIDE DEF n1, P, Back
  <2> QED
    BY <2>2, <2>3, <2>4, <2>7 DEF n1
<1> HIDE DEF M
<1>9. Nat \subseteq M
  BY <1>7, <1>8, CountUp
<1>10. Good(n)
  BY <1>1, <1>9 DEF M
<1>11. TruncatedSpace(s, loc, size) = R[n]
  BY DEF TruncatedSpace, R, n
<1> QED
  BY <1>10, <1>11

(* A file that is rejected leaves its header marked.                       *)
LEMMA RejectMark ==
    ASSUME NEW s, Space(s), NEW f, f.loc \in Seq(Fragment), Apart(f.loc),
           f.stat \in Stats \cup {NoStat}, BlocksOf(s.list) \cap BlocksOf(f.loc) = {},
           NEW h,
           MarkedAt(s.list, h)
              \/ (f.loc # <<>> /\ f.stat # NoStat /\ h = f.loc[1].start)
    PROVE  MarkedAt(Reject(s, f).list, h)
<1> DEFINE loc == f.loc
           n == GiveBackHeader(s, loc[1].start, loc[1].end, f.stat)
<1>1. CASE loc = <<>>
  BY <1>1 DEF Reject
<1>2. CASE loc # <<>>
  <2>1. /\ loc[1].start \in Nat /\ loc[1].end \in Nat
        /\ Tail(loc) \in Seq(Fragment) /\ Apart(Tail(loc))
        /\ BlocksOf(loc) = Extent(loc[1]) \cup BlocksOf(Tail(loc))
        /\ Extent(loc[1]) \cap BlocksOf(Tail(loc)) = {}
    BY <1>2, FirstAndRest
  <2>0. loc[1].start <= loc[1].end
    <3>1. Len(loc) \in Nat /\ Len(loc) # 0
      BY <1>2, FragmentCells, EmptySeq
    <3>2. 1 \in 1..Len(loc)
      BY <3>1
    <3> QED
      BY <3>2 DEF Apart
  <2> DEFINE B == loc[1].start .. loc[1].end
  <2>2. B = Extent(loc[1]) /\ BlocksOf(s.list) \cap B = {}
    BY <2>1 DEF Extent
  <2>3. Space(n) /\ BlocksOf(n.list) = BlocksOf(s.list) \cup B /\ MarkedAt(n.list, h)
    <3> DEFINE a == loc[1].start
               b == loc[1].end
               c == f.stat
    <3>1. /\ a \in Nat /\ b \in Nat /\ c \in Stats \cup {NoStat}
          /\ BlocksOf(s.list) \cap (a .. b) = {} /\ a <= b
          /\ MarkedAt(s.list, h) \/ (h = a /\ c # NoStat)
      BY <2>0, <2>1, <2>2
    <3> HIDE DEF a, b, c
    <3>2. /\ Space(GiveBackHeader(s, a, b, c))
          /\ BlocksOf(GiveBackHeader(s, a, b, c).list) = BlocksOf(s.list) \cup (a .. b)
      BY <3>1, GiveBackHeaderCorrect
    <3>3. MarkedAt(GiveBackHeader(s, a, b, c).list, h)
      BY <3>1, GiveBackHeaderMark
    <3> QED
      BY <3>2, <3>3 DEF a, b, c
  <2>4. Reject(s, f) = TruncatedSpace(n, Tail(loc), 0)
    BY <1>2 DEF Reject
  <2> HIDE DEF n, B, loc
  <2>5. BlocksOf(n.list) \cap BlocksOf(Tail(loc)) = {}
    BY <2>1, <2>2, <2>3 DEF loc
  <2> DEFINE q == Tail(loc)
  <2>6. q \in Seq(Fragment) /\ Apart(q) /\ BlocksOf(n.list) \cap BlocksOf(q) = {}
    BY <2>1, <2>5
  <2> HIDE DEF q
  <2>7. MarkedAt(TruncatedSpace(n, q, 0).list, h)
    BY <2>3, <2>6, TruncatedSpaceMark
  <2> QED
    BY <2>4, <2>7 DEF q
<1> QED
  BY <1>1, <1>2

NoLess(g, e) == e.marks = g.marks /\ g.unmarked \subseteq e.unmarked

LEMMA MarkedStill ==
    ASSUME NEW list, NEW loc, NEW g, NEW e, Marked(list, loc, g), NoLess(g, e)
    PROVE  Marked(list, loc, e) /\ Marked(list, <<>>, e)
  BY NoCellsNoBlocks DEF Marked, NoLess

(* A file that is cut keeps its beginning.                                 *)
LEMMA CutMarked ==
    ASSUME NEW s, Space(s), NEW loc \in Seq(Fragment), Apart(loc), NEW size \in Nat,
           BlocksOf(s.list) \cap BlocksOf(loc) = {}, NEW g, NEW e,
           Marked(s.list, loc, g), NoLess(g, e),
           size >= 1 \/ loc = <<>> \/ loc[1].start \in e.unmarked
    PROVE  Marked(TruncatedSpace(s, loc, size).list, TruncatedLoc(loc, size), e)
<1> DEFINE t == TruncatedSpace(s, loc, size)
           k == TruncatedLoc(loc, size)
           r == Remaining(loc, size)
<1>1. /\ BlocksOf(k) \subseteq BlocksOf(loc)
      /\ BlocksOf(t.list) = BlocksOf(s.list) \cup (BlocksOf(loc) \ BlocksOf(k))
  BY TruncatedSpaceIs
<1>2. /\ k \in Seq(Fragment) /\ Len(k) = r /\ r \in 0..Len(loc)
      /\ \A i \in 1..r : k[i].start = loc[i].start /\ k[i].start <= k[i].end
  BY TruncatedLocIs
<1>3. size >= 1 /\ loc # <<>> => k # <<>>
  BY TruncatedSize
<1>4. \A h : MarkedAt(s.list, h) => MarkedAt(t.list, h)
  BY TruncatedSpaceMark
<1> HIDE DEF t, k, r
<1>5. k # <<>> => k[1].start = loc[1].start /\ k[1].start \in BlocksOf(k)
  <2> SUFFICES ASSUME k # <<>> PROVE k[1].start = loc[1].start /\ k[1].start \in BlocksOf(k)
    OBVIOUS
  <2>1. Len(k) \in Nat /\ Len(k) # 0
    BY <1>2, FragmentCells, EmptySeq
  <2>2. 1 \in 1..r /\ 1 \in 1..Len(k)
    BY <1>2, <2>1
  <2>3. k[1].start \in Nat /\ k[1].end \in Nat
    BY <1>2, <2>2, FragmentCells
  <2>4. k[1].start \in Extent(k[1])
    BY <1>2, <2>2, <2>3 DEF Extent
  <2> QED
    BY <1>2, <2>2, <2>4, BlockInCells
<1>6. loc = <<>> => BlocksOf(loc) = {}
  BY NoCellsNoBlocks
<1>7. k = <<>> => BlocksOf(k) = {}
  BY NoCellsNoBlocks
<1> SUFFICES ASSUME NEW h \in e.marks \ e.unmarked
             PROVE  /\ h \in BlocksOf(t.list) => MarkedAt(t.list, h)
                    /\ h \in BlocksOf(k) => k[1].start = h
  BY DEF Marked, t, k
<1>8. /\ h \in BlocksOf(s.list) => MarkedAt(s.list, h)
      /\ h \in BlocksOf(loc) => loc[1].start = h
  BY DEF Marked, NoLess
<1>9. ASSUME h \in BlocksOf(loc), h \notin BlocksOf(k) PROVE FALSE
  <2>1. loc # <<>> /\ loc[1].start = h
    BY <1>6, <1>8, <1>9
  <2>2. size >= 1
    BY <2>1
  <2> QED
    BY <2>1, <2>2, <1>3, <1>5, <1>9
<1>10. h \in BlocksOf(t.list) => MarkedAt(t.list, h)
  BY <1>1, <1>4, <1>8, <1>9
<1>11. h \in BlocksOf(k) => k[1].start = h
  BY <1>1, <1>5, <1>7, <1>8
<1> QED
  BY <1>10, <1>11

(* A file that is rejected leaves its beginning.                           *)
LEMMA RejectMarked ==
    ASSUME NEW s, Space(s), NEW f, f.loc \in Seq(Fragment), Apart(f.loc),
           f.stat \in Stats \cup {NoStat}, f.loc # <<>> => f.stat # NoStat,
           BlocksOf(s.list) \cap BlocksOf(f.loc) = {}, NEW g, NEW e,
           Marked(s.list, f.loc, g), NoLess(g, e)
    PROVE  Marked(Reject(s, f).list, <<>>, e)
<1> DEFINE t == Reject(s, f)
<1>1. BlocksOf(t.list) = BlocksOf(s.list) \cup BlocksOf(f.loc)
  BY RejectIs
<1>2. ASSUME NEW h, MarkedAt(s.list, h)
                      \/ (f.loc # <<>> /\ f.stat # NoStat /\ h = f.loc[1].start)
      PROVE  MarkedAt(t.list, h)
  BY <1>2, RejectMark
<1> HIDE DEF t
<1>3. f.loc = <<>> => BlocksOf(f.loc) = {}
  BY NoCellsNoBlocks
<1> SUFFICES ASSUME NEW h \in e.marks \ e.unmarked, h \in BlocksOf(t.list)
             PROVE  MarkedAt(t.list, h)
  BY NoCellsNoBlocks DEF Marked, t
<1>4. /\ h \in BlocksOf(s.list) => MarkedAt(s.list, h)
      /\ h \in BlocksOf(f.loc) => f.loc[1].start = h
  BY DEF Marked, NoLess
<1> QED
  BY <1>1, <1>2, <1>3, <1>4

(* The file begins with the first block that is taken; a header that is    *)
(* taken later is content of the file.                                     *)
LEMMA TakeMarked ==
    ASSUME NEW s, Space(s), OnRange(s), NEW f, f.loc \in Seq(Fragment), Apart(f.loc),
           BlocksOf(s.list) \cap BlocksOf(f.loc) = {}, s.offset \in Disk,
           NEW g \in GhostType, Marked(s.list, f.loc, g)
    PROVE  Marked(RemoveBlock(s).list, AddToFile(f.loc, s.offset, 1), Taken(g, s, f))
<1> DEFINE t == RemoveBlock(s)
           b == s.offset
           m == AddToFile(f.loc, b, 1)
           e == Taken(g, s, f)
<1>1. BlocksOf(t.list) = BlocksOf(s.list) \ {b} /\ b \in BlocksOf(s.list) /\ b \in Nat
  BY TakeIs
<1>2. b \notin BlocksOf(f.loc)
  BY <1>1
<1>3. /\ BlocksOf(m) = BlocksOf(f.loc) \cup {b}
      /\ m[1].start = IF f.loc = <<>> THEN b ELSE f.loc[1].start
  BY <1>1, <1>2, ExtendedIs
<1>4. \A h : MarkedAt(s.list, h) /\ h # b => MarkedAt(t.list, h)
  BY RemoveBlockMark
<1>5. NoLess(g, e)
  BY TakenIs DEF NoLess
<1>6. ASSUME MarkedAt(s.list, b), f.loc # <<>> PROVE b \in e.unmarked
  <2> DEFINE U == g.unmarked \cup {b}
  <2>1. StartsMarked(s)
    BY <1>6 DEF MarkedAt, StartsMarked
  <2>2. e = [g EXCEPT !.unmarked = U]
    BY <1>6, <2>1 DEF Taken
  <2> HIDE DEF e
  <2>3. e.unmarked = U
    BY <2>2 DEF GhostType
  <2> QED
    BY <2>3
<1>7. f.loc = <<>> => BlocksOf(f.loc) = {}
  BY NoCellsNoBlocks
<1> HIDE DEF t, m, e
<1> SUFFICES ASSUME NEW h \in e.marks \ e.unmarked
             PROVE  /\ h \in BlocksOf(t.list) => MarkedAt(t.list, h)
                    /\ h \in BlocksOf(m) => m[1].start = h
  BY DEF Marked, t, m, e
<1>8. /\ h \in BlocksOf(s.list) => MarkedAt(s.list, h)
      /\ h \in BlocksOf(f.loc) => f.loc[1].start = h
  BY <1>5 DEF Marked, NoLess
<1>9. h \in BlocksOf(t.list) => MarkedAt(t.list, h)
  BY <1>1, <1>4, <1>8
<1>10. CASE f.loc = <<>>
  BY <1>3, <1>7, <1>9, <1>10
<1>11. CASE f.loc # <<>>
  <2>1. h # b
    BY <1>1, <1>6, <1>8, <1>11
  <2> QED
    BY <2>1, <1>3, <1>8, <1>9, <1>11
<1> QED
  BY <1>10, <1>11

(* The parts of Grows that the marks need.                                 *)
LEMMA GrowsLess ==
    ASSUME Grows
    PROVE  NoLess(ghost, ghost')
  BY DEF Grows, NoLess

LEMMA StillMarked ==
    ASSUME MarksInv, NoLess(ghost, ghost'), space'.list = space.list,
           file'.loc = file.loc \/ file'.loc = <<>>
    PROVE  MarksInv'
<1>1. Marked(space.list, file.loc, ghost)
  BY DEF MarksInv
<1>2. Marked(space.list, file.loc, ghost') /\ Marked(space.list, <<>>, ghost')
  BY <1>1, MarkedStill
<1> QED
  BY <1>2 DEF MarksInv

(* The list after a file was cut and the position put behind it.           *)
LEMMA CutSpaceList ==
    ASSUME NEW s, Space(s), NEW f, f.loc \in Seq(Fragment), Apart(f.loc), NEW size \in Nat,
           BlocksOf(s.list) \cap BlocksOf(f.loc) = {}
    PROVE  /\ Space(CutSpace(s, f, size))
           /\ CutSpace(s, f, size).list = TruncatedSpace(s, f.loc, size).list
           /\ CutSpace(s, f, size).cur = ListHead \/ OnRange(CutSpace(s, f, size))
<1> DEFINE t == TruncatedSpace(s, f.loc, size)
           k == TruncatedLoc(f.loc, size)
<1>1. Space(t) /\ k \in Seq(Fragment)
  BY TruncatedSpaceIs, TruncatedLocIs
<1> HIDE DEF t, k
<1>2. /\ Space(MoveBehind(t, k)) /\ MoveBehind(t, k).list = t.list
      /\ MoveBehind(t, k).cur = ListHead \/ OnRange(MoveBehind(t, k))
  BY <1>1, MoveBehindIs
<1> QED
  BY <1>2 DEF CutSpace, t, k

LEMMA CutMarks ==
    ASSUME BfInv, MarksInv, Grows, NEW size \in Nat,
           NEW s, Space(s), s.list = space.list,
           space'.list = TruncatedSpace(s, file.loc, size).list,
           file'.loc = TruncatedLoc(file.loc, size),
           size >= 1 \/ Beginning(file) \subseteq ghost'.unmarked
    PROVE  MarksInv'
<1>1. /\ file.loc \in Seq(Fragment) /\ Apart(file.loc)
      /\ BlocksOf(space.list) \cap BlocksOf(file.loc) = {}
  BY InvParts
<1>2. size >= 1 \/ file.loc = <<>> \/ file.loc[1].start \in ghost'.unmarked
  <2> SUFFICES ASSUME file.loc # <<>>, Beginning(file) \subseteq ghost'.unmarked
               PROVE  file.loc[1].start \in ghost'.unmarked
    OBVIOUS
  <2>1. Len(file.loc) \in Nat /\ Len(file.loc) # 0
    BY <1>1, FragmentCells, EmptySeq
  <2>2. 1 \in 1..Len(file.loc) /\ DOMAIN file.loc = 1..Len(file.loc)
    BY <1>1, <2>1, LenProperties
  <2>3. file.loc[1].start \in Beginning(file)
    BY <2>2 DEF Beginning
  <2> QED
    BY <2>3
<1>3. NoLess(ghost, ghost') /\ Marked(space.list, file.loc, ghost)
  BY GrowsLess DEF MarksInv
<1> DEFINE l == file.loc
           g == ghost'
<1>4. /\ l \in Seq(Fragment) /\ Apart(l) /\ BlocksOf(s.list) \cap BlocksOf(l) = {}
      /\ size >= 1 \/ l = <<>> \/ l[1].start \in g.unmarked
      /\ NoLess(ghost, g) /\ Marked(s.list, l, ghost)
  BY <1>1, <1>2, <1>3
<1> HIDE DEF l, g
<1>5. Marked(TruncatedSpace(s, l, size).list, TruncatedLoc(l, size), g)
  BY <1>1, <1>4, CutMarked
<1> QED
  BY <1>5 DEF MarksInv, l, g

LEMMA TakeMarks ==
    ASSUME BfInv, MarksInv, OnRange(space), NEW f, f.loc = file.loc,
           space' = RemoveBlock(space), file'.loc = AddToFile(f.loc, space.offset, 1),
           ghost' = Taken(ghost, space, f)
    PROVE  MarksInv'
<1>1. /\ Space(space) /\ f.loc \in Seq(Fragment) /\ Apart(f.loc)
      /\ BlocksOf(space.list) \cap BlocksOf(f.loc) = {} /\ ghost \in GhostType
  BY InvParts
<1>2. space.offset \in Disk
  BY OnDisk
<1>3. Marked(space.list, f.loc, ghost)
  BY DEF MarksInv
<1>4. Marked(RemoveBlock(space).list, AddToFile(f.loc, space.offset, 1), Taken(ghost, space, f))
  BY <1>1, <1>2, <1>3, TakeMarked
<1> QED
  BY <1>4 DEF MarksInv

LEMMA TakeBlockMarks ==
    ASSUME BfInv, MarksInv, pc \in {"fill", "pad"}, space.cur # ListHead, TakeBlock
    PROVE  MarksInv'
<1>1. OnRange(space)
  BY DEF BfInv, BfPlace
<1>2. space.offset \in Nat /\ space.offset \in Disk
  BY <1>1, InvParts, OnDisk
<1>3. /\ file' = Extended(file, space.offset) /\ space' = RemoveBlock(space)
      /\ ghost' = Taken(ghost, space, file)
  BY DEF TakeBlock
<1>4. file'.loc = AddToFile(file.loc, space.offset, 1)
  BY <1>3, InvParts DEF Extended, FileType
<1> QED
  BY <1>1, <1>3, <1>4, TakeMarks

LEMMA FinishBfMarks ==
    ASSUME BfInv, MarksInv, NEW size \in Nat, FinishBf(size), ghost' = ghost
    PROVE  MarksInv'
<1>1. /\ Space(space) /\ file.loc \in Seq(Fragment) /\ Apart(file.loc)
      /\ file.stat \in Stats \cup {NoStat} /\ file \in FileType
      /\ file.loc # <<>> => file.stat # NoStat
      /\ BlocksOf(space.list) \cap BlocksOf(file.loc) = {}
  BY InvParts DEF FileType
<1>2. Marked(space.list, file.loc, ghost) /\ NoLess(ghost, ghost')
  BY GhostStays, GrowsLess DEF MarksInv
<1>3. CASE size = 0
  <2>1. space' = Reject(space, file) /\ file' = NoFile
    BY <1>3 DEF FinishBf
  <2>2. file'.loc = <<>>
    BY <2>1 DEF NoFile
  <2>3. Marked(Reject(space, file).list, <<>>, ghost)
    BY <1>1, <1>2, RejectMarked
  <2> QED
    BY <2>1, <2>2, <2>3 DEF MarksInv
<1>4. CASE size # 0
  <2> DEFINE t == TruncatedSpace(space, file.loc, size)
  <2>1. /\ space' = t
        /\ file' = [file EXCEPT !.open = FALSE, !.loc = <<>>, !.size = size, !.err = 0]
    BY <1>4 DEF FinishBf
  <2>2. file'.loc = <<>>
    BY <2>1, <1>1 DEF FileType
  <2>3. size >= 1
    BY <1>4
  <2>4. Marked(t.list, TruncatedLoc(file.loc, size), ghost)
    BY <1>1, <1>2, <2>3, CutMarked
  <2> HIDE DEF t
  <2>5. NoLess(ghost, ghost)
    BY DEF NoLess
  <2>6. Marked(t.list, <<>>, ghost)
    BY <2>4, <2>5, MarkedStill
  <2> QED
    BY <2>1, <2>2, <2>6 DEF MarksInv
<1> QED
  BY <1>3, <1>4

LEMMA SettleMarks ==
    ASSUME BfInv, MarksInv, Settle
    PROVE  MarksInv'
<1>1. ghost' = ghost
  BY DEF Settle
<1>2. CASE file.stat = NoStat
  <2>1. NoLess(ghost, ghost')
    BY <1>1 DEF NoLess
  <2>2. space' = space /\ (file' = file \/ file' = NoFile)
    BY <1>2 DEF Settle
  <2> QED
    BY <2>1, <2>2, StillMarked DEF NoFile
<1>3. CASE file.stat # NoStat
  <2>1. /\ Space(space) /\ file.loc \in Seq(Fragment) /\ Apart(file.loc)
        /\ file.stat \in Stats \cup {NoStat} /\ file \in FileType
        /\ file.loc # <<>> => file.stat # NoStat
        /\ BlocksOf(space.list) \cap BlocksOf(file.loc) = {}
    BY InvParts DEF FileType
  <2>2. Marked(space.list, file.loc, ghost) /\ NoLess(ghost, ghost)
    BY DEF MarksInv, NoLess
  <2>3. PICK size \in FinalSizes(file) :
           /\ space' = IF size = 0 THEN Reject(space, file)
                       ELSE TruncatedSpace(space, file.loc, size)
           /\ file' = NoFile
    BY <1>3 DEF Settle
  <2>4. size \in Nat
    BY <2>1, FinalSizesIs DEF BfInv, BfShape
  <2>5. file'.loc = <<>>
    BY <2>3 DEF NoFile
  <2>6. CASE size = 0
    <3>1. Marked(Reject(space, file).list, <<>>, ghost)
      BY <2>1, <2>2, RejectMarked
    <3> QED
      BY <1>1, <2>3, <2>5, <2>6, <3>1 DEF MarksInv
  <2>7. CASE size # 0
    <3> DEFINE t == TruncatedSpace(space, file.loc, size)
    <3>1. size >= 1
      BY <2>4, <2>7
    <3>2. Marked(t.list, TruncatedLoc(file.loc, size), ghost)
      BY <2>1, <2>2, <2>4, <3>1, CutMarked
    <3>3. space' = t
      BY <2>3, <2>7
    <3> HIDE DEF t
    <3>4. Marked(t.list, <<>>, ghost)
      BY <2>2, <3>2, MarkedStill
    <3> QED
      BY <1>1, <2>5, <3>3, <3>4 DEF MarksInv
  <2> QED
    BY <2>6, <2>7
<1> QED
  BY <1>2, <1>3

LEMMA ScanMarks ==
    ASSUME BfInv, MarksInv, Scan
    PROVE  MarksInv'
<1>1. PICK kind \in Recognised, checked \in BOOLEAN, full \in BOOLEAN,
           written \in IF Faulty THEN BOOLEAN ELSE {TRUE} :
        LET found == kind # NoStat /\ file.stat = NoStat
            ends == AtStart /\ ((kind = NoStat) <=> (file.stat = NoStat))
            f == IF found THEN [NoFile EXCEPT !.stat = kind, !.check = checked,
                                              !.start = space.offset]
                 ELSE file
        IN  /\ checked => found /\ AnyAnswer
            /\ \E open \in Creations(f) :
                 LET takes == open /\ ~ends
                 IN  /\ (full \/ ~written) => takes
                     /\ full => AnyAnswer
                     /\ space' = IF takes THEN RemoveBlock(space)
                                 ELSE GetNextSector(space)
                     /\ file' = IF takes THEN [Extended(f, space.offset)
                                                 EXCEPT !.open = TRUE]
                                ELSE [f EXCEPT !.open = open]
                     /\ ghost' = IF takes THEN Taken(ghost, space, f)
                                 ELSE [ghost EXCEPT !.spoilt = @ \/ (~open /\ Saved(f))]
                     /\ indStop' = IF ~written THEN "ENOSPC"
                                   ELSE IF ~open /\ Saved(f) THEN "EACCES"
                                   ELSE indStop
                     /\ pc' = IF ends \/ full \/ space'.cur = ListHead
                              THEN "finish" ELSE "scan"
  BY Zenon DEF Scan
<1> DEFINE found == kind # NoStat /\ file.stat = NoStat
           ends == AtStart /\ ((kind = NoStat) <=> (file.stat = NoStat))
           f == IF found THEN [NoFile EXCEPT !.stat = kind, !.check = checked,
                                             !.start = space.offset]
                ELSE file
<1>2. PICK open \in Creations(f) :
        LET takes == open /\ ~ends
        IN  /\ space' = IF takes THEN RemoveBlock(space) ELSE GetNextSector(space)
            /\ file' = IF takes THEN [Extended(f, space.offset) EXCEPT !.open = TRUE]
                       ELSE [f EXCEPT !.open = open]
            /\ takes => ghost' = Taken(ghost, space, f)
  BY <1>1
<1>3. Held(space, f, ghost, out, lost) /\ (found => f.loc = <<>>) /\ (~found => f = file)
  <2>1. /\ kind # NoStat /\ file.stat = NoStat
              => f = [NoFile EXCEPT !.stat = kind, !.check = checked,
                                    !.start = space.offset]
        /\ ~(kind # NoStat /\ file.stat = NoStat) => f = file
    OBVIOUS
  <2> HIDE DEF f
  <2>2. BfInv /\ pc = "scan" /\ kind \in Recognised /\ checked \in BOOLEAN
    BY DEF Scan
  <2>3. /\ Held(space, f, ghost, out, lost)
        /\ kind # NoStat /\ file.stat = NoStat => f.loc = <<>>
    <3> HIDE DEF found, ends
    <3> QED
      BY <2>1, <2>2, ScannedFile
  <2> QED
    BY <2>1, <2>3
<1>4. f.loc = file.loc
  BY <1>3, InvParts
<1> HIDE DEF f, found, ends
<1>5. /\ f \in FileType /\ f.loc \in Seq(Fragment) /\ Apart(f.loc) /\ Space(space)
      /\ BlocksOf(space.list) \cap BlocksOf(f.loc) = {} /\ OnRange(space)
  BY <1>3, HeldParts DEF BfInv, BfPlace, Scan
<1>6. CASE open /\ ~ends
  <2> DEFINE o == space.offset
             e == Extended(f, o)
  <2>1. o \in Nat /\ o \notin BlocksOf(f.loc)
    BY <1>5, TakeIs
  <2> HIDE DEF o
  <2>2. e \in FileType /\ e.loc = AddToFile(f.loc, o, 1)
    BY <1>5, <2>1, ExtendedFile
  <2>3. /\ space' = RemoveBlock(space) /\ ghost' = Taken(ghost, space, f)
        /\ file' = [e EXCEPT !.open = TRUE]
    BY <1>2, <1>6 DEF o
  <2> HIDE DEF e
  <2>4. file'.loc = AddToFile(f.loc, space.offset, 1)
    BY <2>2, <2>3 DEF FileType, o
  <2> QED
    BY <1>4, <1>5, <2>3, <2>4, TakeMarks
<1>7. CASE ~(open /\ ~ends)
  <2>1. space' = GetNextSector(space) /\ file' = [f EXCEPT !.open = open]
    BY <1>2, <1>7
  <2>2. space'.list = space.list
    BY <1>5, <2>1, GoesOn
  <2>3. file'.loc = file.loc
    BY <1>4, <1>5, <2>1 DEF FileType
  <2>4. NoLess(ghost, ghost')
    BY ScanGrows, GrowsLess
  <2> QED
    BY <2>2, <2>3, <2>4, StillMarked
<1> QED
  BY <1>6, <1>7

LEMMA FinishWithErrorMarks ==
    ASSUME BfInv, MarksInv, FinishWithError
    PROVE  MarksInv'
<1>1. PICK r \in Reports(file) :
         LET size == r.err \div Half
             there == [r EXCEPT !.err = Half * size, !.ok = Min({@, Half * size})]
         IN  /\ r.err > 0
             /\ file' = Cut([file EXCEPT !.err = Half * size], size)
             /\ levels' = << Level(there, 0, FALSE) >>
             /\ space' = CutSpace(space, file, size)
             /\ ghost' = IF size = 0 THEN [ghost EXCEPT !.unmarked = @ \cup Beginning(file)]
                         ELSE ghost
  BY DEF FinishWithError
<1> DEFINE size == r.err \div Half
           b == Half * size
           e == [file EXCEPT !.err = b]
           U == ghost.unmarked \cup Beginning(file)
<1>2. /\ file' = Cut(e, size) /\ space' = CutSpace(space, file, size)
      /\ size = 0 => ghost' = [ghost EXCEPT !.unmarked = U]
  BY <1>1
<1>3. /\ Space(space) /\ file \in FileType /\ ghost \in GhostType
      /\ file.loc \in Seq(Fragment) /\ Apart(file.loc)
      /\ BlocksOf(space.list) \cap BlocksOf(file.loc) = {}
  BY InvParts
<1>4. size \in Nat /\ b \in Nat
  <2>1. r.err \in Nat
    BY ReportsIs
  <2> QED
    BY <2>1 DEF Half
<1> HIDE DEF size, b, U
<1>5. e \in FileType /\ e.loc = file.loc
  BY <1>3, <1>4, FileErr
<1> HIDE DEF e
<1>6. file'.loc = TruncatedLoc(file.loc, size)
  BY <1>2, <1>3, <1>4, <1>5, CutFile
<1>7. space'.list = TruncatedSpace(space, file.loc, size).list
  BY <1>2, <1>3, <1>4, CutSpaceList
<1>8. size = 0 => ghost'.unmarked = U
  BY <1>2, <1>3 DEF GhostType
<1>9. size >= 1 \/ Beginning(file) \subseteq ghost'.unmarked
  BY <1>4, <1>8 DEF U
<1>10. Grows
  BY FinishWithErrorGrows
<1> QED
  BY <1>3, <1>4, <1>6, <1>7, <1>9, <1>10, CutMarks

LEMMA TrySkipMarks ==
    ASSUME BfInv, MarksInv, TrySkip
    PROVE  MarksInv'
<1> DEFINE at == Here.at
           n == Here.skipped
           b == CutSpace(space, file, at)
           c == Cut(file, at)
<1>1. /\ pc = "skip" /\ pc \in Searching
      /\ file' = [c EXCEPT !.err = 0]
      /\ space' = IF n = -2 THEN b ELSE IF n = -1 THEN NextHeader(b) ELSE Skip(b, n)
  BY DEF TrySkip, Searching
<1>2. /\ Space(space) /\ file \in FileType
      /\ file.loc \in Seq(Fragment) /\ Apart(file.loc)
      /\ BlocksOf(space.list) \cap BlocksOf(file.loc) = {}
      /\ Here \in LevelType /\ n >= -2 /\ at >= 1
  BY <1>1, InvParts, CallParts DEF BfInv, BfCalls
<1>3. at \in Nat /\ n \in Int
  BY <1>2 DEF LevelType
<1> HIDE DEF at, n
<1>4. /\ Space(b) /\ (b.cur = ListHead \/ OnRange(b))
      /\ b.list = TruncatedSpace(space, file.loc, at).list
  BY <1>2, <1>3, CutSpaceList
<1>5. c \in FileType /\ c.loc = TruncatedLoc(file.loc, at)
  BY <1>2, <1>3, CutFile
<1> HIDE DEF b, c
<1>6. space'.list = b.list
  <2>1. Space(b) /\ (b.cur = ListHead \/ OnRange(b)) /\ n >= -2
    BY <1>2, <1>4
  <2>2. /\ Space(space') /\ space'.list = b.list /\ NotBefore(space', b.offset)
        /\ b.cur = ListHead => space'.cur = ListHead
    BY <1>1, <1>3, <2>1, SkipsOn
  <2> QED
    BY <2>2
<1>7. file'.loc = c.loc
  BY <1>1, <1>5, FileErr
<1>8. Grows
  BY TrySkipGrows
<1> QED
  BY <1>2, <1>3, <1>4, <1>5, <1>6, <1>7, <1>8, CutMarks

LEMMA FastAttemptMarks ==
    ASSUME BfInv, MarksInv, FastAttempt
    PROVE  MarksInv'
<1> DEFINE size == FastBlocks(Here.ok)
           U == IF size > 0 THEN ghost.unmarked ELSE ghost.unmarked \cup Beginning(file)
<1>1. /\ pc \in Searching /\ file' = Cut(file, size)
      /\ ghost' = [ghost EXCEPT
                    !.spoilt = @ \/ size = 0,
                    !.short = @ \/ SizeOf(file.loc) < size,
                    !.unmarked = U]
  BY DEF FastAttempt, Searching
<1>2. /\ Space(space) /\ file \in FileType /\ ghost \in GhostType
      /\ file.loc \in Seq(Fragment) /\ Apart(file.loc)
      /\ BlocksOf(space.list) \cap BlocksOf(file.loc) = {}
      /\ Here \in LevelType /\ start \in Freed..Len(space.list) /\ space.list \in Lists
  BY <1>1, InvParts, CallParts
<1>3. size \in Nat /\ Here.i \in Nat
  BY <1>2 DEF LevelType, FastBlocks, Half
<1>4. PICK at \in IF start = Freed THEN Disk ELSE {StartOf(space.list, start)} :
         space' = Skip(CutSpace([space EXCEPT !.cur = ListHead, !.offset = at], file, size),
                       Here.i)
  BY DEF FastAttempt
<1>5. size = 0 => Beginning(file) \subseteq ghost'.unmarked
  <2> DEFINE y == ghost.spoilt \/ size = 0
             z == ghost.short \/ SizeOf(file.loc) < size
  <2>1. ghost' = [ghost EXCEPT !.spoilt = y, !.short = z, !.unmarked = U]
    BY <1>1
  <2> HIDE DEF size, U, y, z
  <2>2. ghost'.unmarked = U
    BY <2>1, <1>2 DEF GhostType
  <2> QED
    BY <2>2 DEF U
<1> HIDE DEF size, U
<1> DEFINE from == Placed(space, ListHead, at)
           b == CutSpace(from, file, size)
<1>6. at \in Nat
  <2>1. CASE start = Freed
    BY <2>1 DEF Disk
  <2>2. CASE start # Freed
    <3>1. start \in 0..Len(space.list)
      BY <2>2, <1>2 DEF Freed
    <3> QED
      BY <2>2, <3>1, <1>2, CellsOfLists DEF StartOf, ListHead
  <2> QED
    BY <2>1, <2>2
<1>7. Space(from) /\ from.list = space.list
  <2>1. ListHead \in 0..Len(space.list)
    BY <1>2, CellsOfLists DEF ListHead
  <2> QED
    BY <2>1, <1>2, <1>6, Moved
<1>8. space' = Skip(b, Here.i)
  BY <1>4 DEF Placed
<1> HIDE DEF from
<1>9. /\ Space(b) /\ (b.cur = ListHead \/ OnRange(b))
      /\ b.list = TruncatedSpace(from, file.loc, size).list
  BY <1>2, <1>3, <1>7, CutSpaceList
<1> HIDE DEF b
<1>10. space'.list = b.list
  <2> DEFINE i == Here.i
  <2>1. Space(b) /\ (b.cur = ListHead \/ OnRange(b)) /\ i \in Nat /\ space' = Skip(b, i)
    BY <1>3, <1>8, <1>9
  <2> HIDE DEF i
  <2>2. Space(Skip(b, i)) /\ Skip(b, i).list = b.list
    BY <2>1, SkipIs
  <2> QED
    BY <2>1, <2>2
<1>11. file'.loc = TruncatedLoc(file.loc, size)
  BY <1>1, <1>2, <1>3, CutFile
<1>12. Grows
  BY FastAttemptGrows
<1>13. size >= 1 \/ Beginning(file) \subseteq ghost'.unmarked
  BY <1>3, <1>5
<1> QED
  BY <1>3, <1>7, <1>9, <1>10, <1>11, <1>12, <1>13, CutMarks

(* The steps that neither take nor give back a block.                      *)
LEMMA OtherMarks ==
    ASSUME BfInv, MarksInv,
           \/ Open \/ SplitAt \/ SkipForgetsBlocks \/ NoMoreSkips \/ FastGivesUp
           \/ FillBehindTheEnd \/ SkipGap \/ NextRange \/ WriteFails
           \/ PadBlock /\ UNCHANGED << file, ghost >> /\ space' = GetNextSector(space)
           \/ \E r \in Reports(file) : PadMore(r) \/ PadFails(r)
           \/ UNCHANGED vars
    PROVE  MarksInv'
<1>1. /\ Space(space) /\ file \in FileType /\ ghost \in GhostType
      /\ space \in [list : Lists, cur : Nat, offset : Nat]
  BY InvParts DEF Space
<1>2. NoLess(ghost, ghost)
  BY DEF NoLess
<1>3. CASE Open
  <2>1. space'.list = space.list
    BY <1>1, <1>3 DEF Open, MoveTo
  <2> QED
    BY <1>2, <1>3, <2>1, StillMarked DEF Open
<1>4. CASE SplitAt
  <2>1. space' = space /\ ghost' = ghost /\ (file' = file \/ file' = [file EXCEPT !.err = 0])
    BY <1>4 DEF SplitAt
  <2>2. file'.loc = file.loc
    BY <1>1, <2>1 DEF FileType
  <2> QED
    BY <1>2, <2>1, <2>2, StillMarked
<1>5. CASE UNCHANGED << space, file, ghost >>
  BY <1>2, <1>5, StillMarked
<1>6. CASE SkipGap
  <2> DEFINE n == Here.extra - Here.i
  <2>1. /\ pc = "fill" /\ pc \in Searching /\ space' = Skip(space, n)
        /\ file' = file /\ ghost' = ghost
    BY <1>6 DEF SkipGap, Searching
  <2>2. space.cur = ListHead \/ OnRange(space)
    BY <2>1 DEF BfInv, BfPlace
  <2>3. Here \in LevelType
    BY <2>1, CallParts
  <2>4. n \in Nat
    BY <2>1, <2>3 DEF BfInv, BfCalls, LevelType
  <2> HIDE DEF n
  <2>5. space'.list = space.list
    BY <1>1, <2>1, <2>2, <2>4, SkipIs, InvParts
  <2> QED
    BY <1>2, <2>1, <2>5, StillMarked
<1>7. CASE NextRange
  <2>1. file' = NoFile
        /\ (space' = space \/ \E to : space' = [space EXCEPT !.cur = to, !.offset = 0])
    BY <1>7 DEF NextRange
  <2>2. space'.list = space.list
    BY <1>1, <2>1
  <2>3. NoLess(ghost, ghost')
    <3>1. CASE ghost' = ghost
      BY <1>2, <3>1
    <3>2. CASE ghost' = [ghost EXCEPT !.spoilt = FALSE, !.short = FALSE, !.before = out]
      BY <1>1, <3>2 DEF GhostType, NoLess
    <3> QED
      BY <3>1, <3>2, <1>7 DEF NextRange
  <2> QED
    BY <2>1, <2>2, <2>3, StillMarked DEF NoFile
<1>8. CASE WriteFails
  <2>1. space' = space /\ ghost' = ghost /\ file' = [file EXCEPT !.open = FALSE]
    BY <1>8 DEF WriteFails
  <2>2. file'.loc = file.loc
    BY <1>1, <2>1 DEF FileType
  <2> QED
    BY <1>2, <2>1, <2>2, StillMarked
<1>9. CASE PadBlock /\ UNCHANGED << file, ghost >> /\ space' = GetNextSector(space)
  <2>1. OnRange(space)
    BY <1>9 DEF BfInv, BfPlace, PadBlock, Padding
  <2>2. space'.list = space.list
    BY <1>9, <2>1, GoesOn, InvParts
  <2> QED
    BY <1>2, <1>9, <2>2, StillMarked
<1>10. CASE \E r \in Reports(file) : PadMore(r) \/ PadFails(r)
  <2>1. PICK r \in Reports(file) : PadMore(r) \/ PadFails(r)
    BY <1>10
  <2>2. space' = space /\ ghost' = ghost /\ file' = [file EXCEPT !.err = r.err]
    BY <2>1 DEF PadMore, PadFails
  <2>3. file'.loc = file.loc
    BY <1>1, <2>2 DEF FileType
  <2> QED
    BY <1>2, <2>2, <2>3, StillMarked
<1>11. CASE SkipForgetsBlocks \/ NoMoreSkips \/ FastGivesUp \/ FillBehindTheEnd
             \/ UNCHANGED vars
  <2>1. UNCHANGED << space, file, ghost >>
    BY <1>11 DEF SkipForgetsBlocks, NoMoreSkips, FastGivesUp, FillBehindTheEnd, vars
  <2> QED
    BY <1>5, <2>1
<1> QED
  BY <1>3, <1>4, <1>6, <1>7, <1>8, <1>9, <1>10, <1>11, Zenon

LEMMA MarksKeep ==
    ASSUME BfInv, MarksInv, [Next]_vars
    PROVE  MarksInv'
<1>1. CASE FinishDirectly
  <2>1. ghost' = ghost /\ \E size \in FinalSizes(file) : FinishBf(size)
    BY <1>1 DEF FinishDirectly
  <2> QED
    BY <2>1, FinalSizesIs, FinishBfMarks
<1>2. CASE Fill
  <2>1. CASE TakeBlock
    BY <1>2, <2>1, TakeBlockMarks DEF Fill
  <2> QED
    BY <1>2, <2>1, OtherMarks DEF Fill
<1>3. CASE PadBlock
  <2>1. CASE TakeBlock
    BY <1>3, <2>1, TakeBlockMarks DEF PadBlock, Padding
  <2> QED
    BY <1>3, <2>1, OtherMarks DEF PadBlock
<1>4. CASE PadCheck
  <2>1. PICK r \in Reports(file) : PadMore(r) \/ PadComplete(r) \/ PadFails(r)
    BY <1>4 DEF PadCheck
  <2>2. CASE PadComplete(r)
    <3>1. ghost' = ghost /\ \E size \in FinalSizes(file) : FinishBf(size)
      BY <2>2 DEF PadComplete
    <3> QED
      BY <3>1, FinalSizesIs, FinishBfMarks
  <2>3. CASE PadMore(r) \/ PadFails(r)
    BY <2>3, OtherMarks
  <2> QED
    BY <2>1, <2>2, <2>3
<1> QED
  BY <1>1, <1>2, <1>3, <1>4, ScanMarks, FinishWithErrorMarks, TrySkipMarks,
     FastAttemptMarks, SettleMarks, OtherMarks DEF Next

(* No header that was rejected is lost in the list, however often the file *)
(* before it, or the one it was thought to be, is undone.                  *)
THEOREM BruteForceKeepsMarks == Spec => []MarksKept
<1>1. Init => BfInv /\ MarksInv
  BY BfInit
<1>2. (BfInv /\ MarksInv) /\ [Next]_vars => (BfInv /\ MarksInv)'
  BY NextKeeps, MarksKeep
<1>3. MarksInv => MarksKept
  BY DEF MarksInv, Marked, MarkedAt, MarksKept
<1> QED
  BY <1>1, <1>2, <1>3, PTL DEF Spec
=============================================================================
