---------------------------- MODULE CarverProofs ----------------------------
(***************************************************************************)
(* Theorems about one carving pass, on a disk of any size, whatever the    *)
(* checkers answer, whatever fails and whenever the user stops: the list   *)
(* stays in order and no block is ever lost or owned twice, the pass       *)
(* implements Ownership, it looks at every block it leaves, it undoes the  *)
(* file in progress when it gives up on an error, and what a recovered     *)
(* file claims as its data has been written to it.                         *)
(***************************************************************************)
EXTENDS Carver, SearchSpaceProofs, FiniteSetTheorems

-----------------------------------------------------------------------------
(* The inductive invariant                                                 *)

FileShape ==
    [stat : Stats \cup {NoStat}, start : Nat, open : BOOLEAN,
     loc : Seq(Fragment), size : Nat, written : SUBSET (Nat \X Nat)]

FinShape ==
    [caller : {"none", "header", "data", "media", "abort"},
     kept : Seq(Fragment), seen : Nat, truncated : BOOLEAN]

(* What the operators of SearchSpace and the fragment walks rely on.       *)
Shape ==
    /\ Space(space)
    /\ file \in FileShape /\ Apart(file.loc)
    /\ fin \in FinShape
    /\ skipped \in Nat /\ bufAt \in Nat

(* Fragments are kept in file_block_truncate only, and taken from those    *)
(* still to be settled.                                                    *)
KeptInTruncate ==
    /\ pc # "truncate" => fin.kept = <<>>
    /\ BlocksOf(file.loc) \cap BlocksOf(fin.kept) = {}

(* From the header check until the block is taken, the block looked at     *)
(* belongs to nobody yet, even while the previous file is finished.        *)
AwaitsBlock ==
    \/ pc \in {"new", "data"}
    \/ pc \in {"truncate", "reject", "reject_rest"} /\ fin.caller = "header"

OffsetIsFree == AwaitsBlock => space.offset \in BlocksOf(space.list)

(* Conservation, place by place.                                           *)
Partition(free, held, saved, gone) ==
    /\ free \cup held \cup saved \cup gone = Disk
    /\ free \cap held = {} /\ free \cap saved = {} /\ free \cap gone = {}
    /\ held \cap saved = {} /\ held \cap gone = {} /\ saved \cap gone = {}

SavedApart ==
    \A f, g \in out : f # g => BlocksOf(f.loc) \cap BlocksOf(g.loc) = {}

IInv ==
    /\ Shape /\ KeptInTruncate /\ OffsetIsFree
    /\ Partition(BlocksOf(space.list), FileBlocks, SavedBlocks, forgotten)
    /\ SavedApart

(* Blocks change hands in one way at a time: the file takes some or gives  *)
(* some back, or it is recovered with all that it has, or some free ones   *)
(* are forgotten.                                                          *)
HandOver ==
    \/ /\ UNCHANGED << out, forgotten >>
       /\ FileBlocks \subseteq FileBlocks' \/ FileBlocks' \subseteq FileBlocks
    \/ /\ UNCHANGED << space, forgotten >>
       /\ FileBlocks' = {} /\ out \subseteq out'
    \/ UNCHANGED << file, fin, out >> /\ forgotten \subseteq forgotten'

(* What the lemmas show of each action.                                    *)
GoodStep == IInv' /\ HandOver

-----------------------------------------------------------------------------
(* The records the actions update                                          *)

(* reset_file_recovery leaves no fragment.                                 *)
LEMMA ResetFileShape ==
    ASSUME NEW f \in FileShape
    PROVE  ResetFile(f) \in FileShape /\ ResetFile(f).loc = <<>>
<1>1. <<>> \in Seq(Fragment) /\ FALSE \in BOOLEAN /\ {} \in SUBSET Nat
  BY EmptySeq
<1> QED
  BY <1>1 DEF ResetFile, FileShape

(* A file with another size, closed when it is empty.                      *)
LEMMA SizedFileShape ==
    ASSUME NEW f \in FileShape, NEW size \in Nat, NEW o \in BOOLEAN
    PROVE  /\ [f EXCEPT !.size = size, !.open = o] \in FileShape
           /\ [f EXCEPT !.size = size, !.open = o].loc = f.loc
  BY DEF FileShape

(* A file with other fragments.                                            *)
LEMMA OtherFragments ==
    ASSUME NEW f \in FileShape, NEW loc \in Seq(Fragment)
    PROVE  /\ [f EXCEPT !.loc = loc] \in FileShape
           /\ [f EXCEPT !.loc = loc].loc = loc
  BY DEF FileShape

(* File f with one more block.                                             *)
Grown(f, loc, size, w) == [f EXCEPT !.loc = loc, !.size = size, !.written = w]

(* It is a file, with the fragments given.                                 *)
LEMMA GrownFileShape ==
    ASSUME NEW f \in FileShape, NEW loc \in Seq(Fragment), NEW size \in Nat,
           NEW w \in SUBSET (Nat \X Nat)
    PROVE  /\ Grown(f, loc, size, w) \in FileShape
           /\ Grown(f, loc, size, w).loc = loc
  BY DEF FileShape, Grown

(* The start of a call of file_finish2.                                    *)
LEMMA StartFinishShape ==
    ASSUME NEW f \in FileShape, NEW size \in Nat,
           NEW caller \in {"header", "data", "media", "abort"},
           StartFinish(f, size, caller)
    PROVE  /\ file' \in FileShape /\ file'.loc = f.loc
           /\ fin' \in FinShape /\ fin'.kept = <<>> /\ fin'.caller = caller
           /\ pc' \in {"reject", "truncate"}
<1>1. f.open \in BOOLEAN
  BY DEF FileShape
<1>2. (f.open /\ size > 0) \in BOOLEAN
  OBVIOUS
<1>3. file' = [f EXCEPT !.size = size, !.open = f.open /\ size > 0]
  BY DEF StartFinish
<1>4. file' \in FileShape /\ file'.loc = f.loc
  BY <1>2, <1>3, SizedFileShape
<1>5. fin' = [caller |-> caller, kept |-> <<>>, seen |-> 0, truncated |-> FALSE]
  BY DEF StartFinish, NoCall
<1>6. <<>> \in Seq(Fragment) /\ FALSE \in BOOLEAN
  BY EmptySeq
<1>7. fin' \in FinShape /\ fin'.kept = <<>> /\ fin'.caller = caller
  BY <1>5, <1>6 DEF FinShape
<1> QED
  BY <1>4, <1>7 DEF StartFinish

(* The end of one.                                                         *)
LEMMA FinishReturnsShape ==
    ASSUME NEW r, file \in FileShape, fin \in FinShape, FinishReturns(r)
    PROVE  /\ file' \in FileShape /\ file'.loc = <<>>
           /\ fin' \in FinShape /\ fin'.kept = <<>> /\ fin'.caller = "none"
           /\ pc' \notin {"reject", "reject_rest", "truncate"}
           /\ pc' \in {"new", "data"} => fin.caller = "header"
<1>1. file' \in FileShape /\ file'.loc = <<>>
  BY ResetFileShape DEF FinishReturns
<1>2. fin' = [caller |-> "none", kept |-> <<>>, seen |-> 0, truncated |-> FALSE]
  BY DEF FinishReturns, NoCall
<1>3. <<>> \in Seq(Fragment) /\ FALSE \in BOOLEAN
  BY EmptySeq
<1>4. fin' \in FinShape /\ fin'.kept = <<>> /\ fin'.caller = "none"
  BY <1>2, <1>3 DEF FinShape
<1>5. /\ pc' \notin {"reject", "reject_rest", "truncate"}
      /\ pc' \in {"new", "data"} => fin.caller = "header"
  BY DEF FinishReturns
<1> QED
  BY <1>1, <1>4, <1>5

(* No block leaves the search space and the file in progress together      *)
(* unless one is recovered or forgotten.                                   *)
LEMMA SearchableStays ==
    ASSUME IInv, IInv', UNCHANGED << out, forgotten >>
    PROVE  BlocksOf(space'.list) \cup FileBlocks' =
              BlocksOf(space.list) \cup FileBlocks
<1>1. SavedBlocks' = SavedBlocks
  BY DEF SavedBlocks
<1> QED
  BY <1>1 DEF IInv, Partition

-----------------------------------------------------------------------------
(* Initial states                                                          *)

(* The list init_search_space and file_found leave is the whole disk.      *)
LEMMA InitialListCorrect ==
    ASSUME NEW cuts \in Cuts, NEW marks, NEW kind \in Stats
    PROVE  /\ InitialList(cuts, marks, kind) \in Lists
           /\ InitialList(cuts, marks, kind) # <<>>
           /\ Ordered(InitialList(cuts, marks, kind))
           /\ BlocksOf(InitialList(cuts, marks, kind)) = Disk
<1> DEFINE l == InitialList(cuts, marks, kind)
           n == Len(cuts)
           endOf(i) == IF i = n THEN Blocks - 1 ELSE cuts[i + 1] - 1
           statOf(i) == IF cuts[i] \in marks THEN kind ELSE NoStat
<1>1. PICK k \in 1..Blocks : cuts \in [1..k -> Disk]
  BY DEF Cuts
<1>2. n = k /\ k \in 1..Blocks /\ DOMAIN cuts = 1..n
  <2>1. cuts \in Seq(Disk)
    BY <1>1
  <2> QED
    BY <2>1, <1>1, LenProperties, BlocksAssumption
<1>3. /\ Blocks \in Nat \ {0} /\ n \in Nat \ {0}
      /\ \A i \in 1..n : cuts[i] \in Nat /\ cuts[i] <= Blocks - 1
      /\ cuts[1] = 0
      /\ \A i, j \in 1..n : i < j => cuts[i] < cuts[j]
  BY <1>1, <1>2, BlocksAssumption DEF Cuts, Disk
<1> HIDE DEF n
<1>4. \A i \in 1..n : endOf(i) \in Nat /\ cuts[i] <= endOf(i)
  <2> SUFFICES ASSUME NEW i \in 1..n
               PROVE  endOf(i) \in Nat /\ cuts[i] <= endOf(i)
    OBVIOUS
  <2>1. CASE i = n
    BY <2>1, <1>3
  <2>2. CASE i # n
    <3>1. i + 1 \in 1..n /\ i < i + 1
      BY <2>2, <1>3
    <3>2. cuts[i] < cuts[i + 1] /\ cuts[i] \in Nat /\ cuts[i + 1] \in Nat
      BY <3>1, <1>3
    <3> QED
      BY <2>2, <3>2
  <2> QED
    BY <2>1, <2>2
<1>5. \A i, j \in 1..n : i < j => endOf(i) < cuts[j]
  <2> SUFFICES ASSUME NEW i \in 1..n, NEW j \in 1..n, i < j
               PROVE  endOf(i) < cuts[j]
    OBVIOUS
  <2>1. i # n /\ i + 1 \in 1..n
    BY <1>3
  <2>2. i + 1 = j \/ cuts[i + 1] < cuts[j]
    BY <2>1, <1>3
  <2>3. cuts[i + 1] \in Nat /\ cuts[j] \in Nat
    BY <2>1, <1>3
  <2> QED
    BY <2>1, <2>2, <2>3
<1>6. \A i \in 1..n : statOf(i) \in Stats \cup {NoStat}
  OBVIOUS
<1>7. l = [i \in 1..n |-> [start |-> cuts[i], end |-> endOf(i),
                           stat |-> statOf(i)]]
  BY DEF InitialList, n
<1> HIDE DEF endOf, statOf
<1>8. \A i \in 1..n : [start |-> cuts[i], end |-> endOf(i), stat |-> statOf(i)]
                         \in RangeType
  BY <1>3, <1>4, <1>6 DEF RangeType
<1>9. l \in Lists /\ Len(l) = n
  <2>1. l \in [1..n -> RangeType]
    BY <1>7, <1>8
  <2>2. n \in Nat
    BY <1>3
  <2>3. l \in Seq(RangeType)
    BY <2>1, <2>2
  <2> QED
    BY <2>1, <2>2, <2>3, LenProperties DEF Lists
<1>10. \A i \in 1..n : l[i].start = cuts[i] /\ l[i].end = endOf(i)
  BY <1>7
<1> HIDE DEF l
<1>11. Ordered(l)
  <2>1. DOMAIN l = 1..n
    BY <1>9, CellsOfLists
  <2> QED
    BY <2>1, <1>4, <1>5, <1>10 DEF Ordered
<1>12. ASSUME NEW b
       PROVE  b \in BlocksOf(l) <=> \E i \in 1..n : b \in cuts[i] .. endOf(i)
  BY <1>9, <1>10, BlockInList DEF Lists
<1>13. ASSUME NEW b \in BlocksOf(l) PROVE b \in Disk
  <2>1. PICK i \in 1..n : b \in cuts[i] .. endOf(i)
    BY <1>12, <1>13
  <2>2. endOf(i) <= Blocks - 1
    <3>1. CASE i = n
      BY <3>1, <1>3 DEF endOf
    <3>2. CASE i # n
      <4>1. i + 1 \in 1..n
        BY <3>2, <1>3
      <4> QED
        BY <4>1, <3>2, <1>3 DEF endOf
    <3> QED
      BY <3>1, <3>2
  <2> QED
    BY <2>1, <2>2, <1>3, <1>4 DEF Disk
<1>14. ASSUME NEW b \in Disk PROVE b \in BlocksOf(l)
  <2> DEFINE I == { i \in 1..n : cuts[i] <= b }
             m == Max(I)
  <2>1. I \subseteq 0..n /\ 1 \in I /\ b \in Nat /\ b <= Blocks - 1
    BY <1>3, BlocksAssumption DEF Disk
  <2>2. m \in I /\ \A j \in I : m >= j
    <3> HIDE DEF I
    <3>1. n \in Nat /\ I # {}
      BY <2>1, <1>3
    <3> QED
      BY <2>1, <3>1, MaxOfCells
  <2>3. m \in 1..n /\ cuts[m] <= b
    BY <2>2
  <2>4. CASE m = n
    BY <2>1, <2>3, <2>4, <1>3, <1>4, <1>12 DEF endOf
  <2>5. CASE m # n
    <3>1. m + 1 \in 1..n /\ ~(m >= m + 1)
      BY <2>3, <2>5, <1>3
    <3>2. m + 1 \notin I
      BY <2>2, <3>1
    <3>3. ~(cuts[m + 1] <= b)
      BY <3>1, <3>2
    <3> HIDE DEF m, I
    <3>4. cuts[m] \in Nat /\ cuts[m + 1] \in Nat /\ endOf(m) = cuts[m + 1] - 1
      BY <2>3, <2>5, <3>1, <1>3 DEF endOf
    <3>5. b \in cuts[m] .. endOf(m)
      BY <2>1, <2>3, <3>3, <3>4
    <3> QED
      BY <2>3, <3>5, <1>12
  <2> QED
    BY <2>4, <2>5
<1>15. l # <<>>
  BY <1>3, <1>9, EmptySeq
<1> QED
  BY <1>9, <1>11, <1>13, <1>14, <1>15 DEF l

(* The pass starts with everything in the search space.                    *)
LEMMA InitInvariant == Init => IInv
<1> SUFFICES ASSUME Init PROVE IInv
  OBVIOUS
<1>1. PICK cuts \in Cuts, marks \in SUBSET headers, kind \in Stats :
          space = SetSearchStart(InitialList(cuts, marks, kind), -1)
  BY DEF Init
<1> DEFINE l == InitialList(cuts, marks, kind)
           c == NextEntry(l, ListHead)
<1>2. /\ l \in Lists /\ l # <<>> /\ Ordered(l) /\ BlocksOf(l) = Disk
      /\ Len(l) \in Nat
  BY InitialListCorrect, CellsOfLists
<1> HIDE DEF l
<1>3. c \in 0..Len(l)
  BY <1>2 DEF NextEntry, ListHead
<1>4. StartOf(l, c) \in Nat
  BY <1>2, <1>3, CellsOfLists DEF StartOf, ListHead
<1>5. space = [list |-> l, cur |-> c, offset |-> StartOf(l, c)]
  BY <1>1 DEF SetSearchStart, l
<1> HIDE DEF c
<1>6. Space(space) /\ space.list = l
  BY <1>2, <1>3, <1>4, <1>5, SpaceRecord
<1>7. <<>> \in Seq(Fragment) /\ FALSE \in BOOLEAN /\ {} \in SUBSET Nat
  BY EmptySeq
<1>8. file = [stat |-> NoStat, start |-> 0, open |-> FALSE, loc |-> <<>>,
              size |-> 0, written |-> {}]
  BY DEF Init
<1>9. file \in FileShape /\ file.loc = <<>>
  BY <1>7, <1>8 DEF FileShape
<1>10. fin = [caller |-> "none", kept |-> <<>>, seen |-> 0, truncated |-> FALSE]
  BY DEF Init, NoCall
<1>11. fin \in FinShape /\ fin.kept = <<>>
  BY <1>7, <1>10 DEF FinShape
<1>12. Apart(file.loc)
  BY <1>9, EmptySeq DEF Apart
<1>13. /\ skipped = 0 /\ pc = "top" /\ out = {} /\ forgotten = {}
       /\ bufAt \in Nat
  BY <1>4, <1>5 DEF Init
<1>14. Shape
  BY <1>6, <1>9, <1>11, <1>12, <1>13 DEF Shape
<1>15. FileBlocks = {} /\ SavedBlocks = {}
  BY <1>9, <1>11, <1>13, NoCellsNoBlocks DEF FileBlocks, SavedBlocks
<1>16. KeptInTruncate /\ OffsetIsFree /\ SavedApart
  BY <1>9, <1>11, <1>13, NoCellsNoBlocks
     DEF KeptInTruncate, OffsetIsFree, AwaitsBlock, SavedApart
<1>17. Partition(BlocksOf(space.list), FileBlocks, SavedBlocks, forgotten)
  BY <1>2, <1>6, <1>13, <1>15 DEF Partition
<1> QED
  BY <1>14, <1>16, <1>17 DEF IInv

-----------------------------------------------------------------------------
(* Steps that move no block                                                *)

(* A step that leaves every list of blocks alone, whatever it does to the  *)
(* position in the search space or to the file's other fields.             *)
LEMMA NothingMoves ==
    ASSUME IInv, Space(space'), space'.list = space.list,
           file' \in FileShape, file'.loc = file.loc,
           fin' \in FinShape, fin'.kept = fin.kept,
           out' = out, forgotten' = forgotten, skipped' \in Nat,
           bufAt' \in Nat, KeptInTruncate', OffsetIsFree'
    PROVE  GoodStep
<1>1. Shape'
  BY DEF IInv, Shape
<1>2. FileBlocks' = FileBlocks /\ SavedBlocks' = SavedBlocks
  BY DEF FileBlocks, SavedBlocks
<1>3. Partition(BlocksOf(space'.list), FileBlocks', SavedBlocks', forgotten')
  BY <1>2 DEF IInv, Partition
<1>4. SavedApart'
  BY DEF IInv, SavedApart
<1> QED
  BY <1>1, <1>2, <1>3, <1>4 DEF IInv, GoodStep, HandOver

(* A step that changes neither the file nor the call under way: the walk   *)
(* over the search space.                                                  *)
LEMMA WalkStep ==
    ASSUME IInv, Space(space'), space'.list = space.list,
           UNCHANGED << file, fin, out, forgotten >>, skipped' \in Nat,
           bufAt' \in Nat, pc' # "truncate" => pc # "truncate", OffsetIsFree'
    PROVE  GoodStep
<1>1. KeptInTruncate'
  BY DEF IInv, KeptInTruncate
<1>2. file \in FileShape /\ fin \in FinShape
  BY DEF IInv, Shape
<1> QED
  BY <1>1, <1>2, NothingMoves

(* A step that only begins to finish a file.                               *)
LEMMA FinishStep ==
    ASSUME IInv, Space(space'), space'.list = space.list,
           NEW f \in FileShape, f.loc = file.loc, NEW size \in Nat,
           NEW caller \in {"header", "data", "media", "abort"},
           StartFinish(f, size, caller),
           UNCHANGED << bufAt, out, forgotten, skipped >>, pc # "truncate",
           caller = "header" => space'.offset \in BlocksOf(space'.list)
    PROVE  GoodStep
<1>1. /\ file' \in FileShape /\ file'.loc = file.loc
      /\ fin' \in FinShape /\ fin'.kept = <<>> /\ fin'.caller = caller
      /\ pc' \in {"reject", "truncate"}
  BY StartFinishShape
<1>2. fin.kept = <<>> /\ skipped \in Nat /\ bufAt \in Nat
  BY DEF IInv, KeptInTruncate, Shape
<1>3. KeptInTruncate'
  BY <1>1, NoCellsNoBlocks DEF KeptInTruncate
<1>4. OffsetIsFree'
  BY <1>1 DEF OffsetIsFree, AwaitsBlock
<1> QED
  BY <1>1, <1>2, <1>3, <1>4, NothingMoves

(* The final size of a file is a number.                                   *)
LEMMA FinalSizeIsNat ==
    ASSUME NEW f \in FileShape, NEW size \in FinalSizes(f)
    PROVE  size \in Nat
<1>1. f.size \in Nat
  BY DEF FileShape
<1> QED
  BY <1>1 DEF FinalSizes

(* The head of the loop looks at a block that nobody owns.                 *)
LEMMA LookingAtFree ==
    ASSUME IInv, Looking
    PROVE  /\ Space(space') /\ space'.list = space.list
           /\ space'.offset \in BlocksOf(space'.list)
           /\ space'.offset \in Nat
<1>1. /\ Space(space) /\ space.list \in Lists /\ Ordered(space.list)
      /\ space.cur \in 0..Len(space.list) /\ space.cur # ListHead
      /\ Len(space.list) \in Nat /\ space' = Corrected
  BY CellsOfLists DEF IInv, Shape, Space, Looking
<1>2. space.cur \in 1..Len(space.list)
  BY <1>1 DEF ListHead
<1>3. CASE OffsetInRange
  <2>1. space' = space /\ space.offset \in Nat
    BY <1>1, <1>3 DEF Corrected, Space
  <2>2. space.offset \in BlocksOf(space.list)
    BY <1>1, <1>2, <1>3, BlockInCells DEF OffsetInRange, Lists
  <2> QED
    BY <1>1, <2>1, <2>2
<1>4. CASE ~OffsetInRange
  <2>1. space' = MoveTo(space, space.cur)
    BY <1>1, <1>4 DEF Corrected
  <2>2. /\ Space(space') /\ space'.list = space.list
        /\ space'.offset = space.list[space.cur].start
    BY <2>1, <1>1, MovedTo DEF StartOf
  <2>3. /\ space.list[space.cur].start \in Nat
        /\ space.list[space.cur].end \in Nat
        /\ space.list[space.cur].start <= space.list[space.cur].end
    BY <1>1, <1>2, CellsOfLists DEF Ordered
  <2>4. space.list[space.cur].start \in Extent(space.list[space.cur])
    BY <2>3 DEF Extent
  <2>5. space.list[space.cur].start \in BlocksOf(space.list)
    BY <2>4, <1>1, <1>2, BlockInCells DEF Lists
  <2> QED
    BY <2>2, <2>3, <2>5
<1> QED
  BY <1>3, <1>4

(* A step that leaves the space itself alone.                              *)
LEMMA SameSpace ==
    ASSUME IInv, UNCHANGED space
    PROVE  Space(space') /\ space'.list = space.list
  BY DEF IInv, Shape

-----------------------------------------------------------------------------
(* Steps that take or give back blocks                                     *)

(* The block looked at leaves the search space for the file.               *)
LEMMA TakenBlock ==
    ASSUME IInv, TakeBlock, NEW f \in FileShape, NEW data \in {0, 1},
           f.loc = AddToFile(file.loc, space.offset, data),
           NEW verdict, Verdict(f, verdict)
    PROVE  GoodStep
<1> DEFINE o == space.offset
           loc == AddToFile(file.loc, o, data)
<1>1. /\ pc = "data" /\ space' = RemoveBlock(space)
      /\ out' = out /\ forgotten' = forgotten /\ skipped' = skipped
      /\ bufAt' = bufAt
  BY DEF TakeBlock
<1>2. /\ Space(space) /\ file \in FileShape /\ Apart(file.loc)
      /\ skipped \in Nat /\ bufAt \in Nat /\ fin.kept = <<>> /\ fin \in FinShape
  BY <1>1 DEF IInv, Shape, KeptInTruncate
<1>3. o \in BlocksOf(space.list) /\ o \in Nat
  BY <1>1, <1>2 DEF IInv, OffsetIsFree, AwaitsBlock, Space
<1>4. FileBlocks = BlocksOf(file.loc)
  BY <1>2, NoCellsNoBlocks DEF FileBlocks
<1>5. o \notin BlocksOf(file.loc) /\ file.loc \in Seq(Fragment)
  BY <1>2, <1>3, <1>4 DEF IInv, Partition, FileShape
<1>6. /\ loc \in Seq(Fragment) /\ Apart(loc)
      /\ BlocksOf(loc) = BlocksOf(file.loc) \cup {o}
  BY <1>2, <1>3, <1>5, AddToFileCorrect
<1> HIDE DEF loc
<1>7. Space(space') /\ BlocksOf(space'.list) = BlocksOf(space.list) \ {o}
  BY <1>1, <1>2, RemoveBlockCorrect
<1>8. /\ file' \in FileShape /\ file'.loc = loc
      /\ fin' \in FinShape /\ fin'.kept = <<>>
      /\ ~AwaitsBlock'
  <2>1. f.loc = loc
    BY DEF loc
  <2>2. CASE pc' = "advance" /\ file' = f /\ UNCHANGED fin
    BY <2>1, <2>2, <1>2 DEF AwaitsBlock
  <2>3. ASSUME NEW size \in Nat, StartFinish(f, size, "data")
        PROVE  /\ file' \in FileShape /\ file'.loc = loc
               /\ fin' \in FinShape /\ fin'.kept = <<>>
               /\ ~AwaitsBlock'
    BY <2>1, <2>3, StartFinishShape DEF AwaitsBlock
  <2>4. ASSUME NEW size \in FinalSizes(f) PROVE size \in Nat
    BY <2>4, FinalSizeIsNat
  <2> QED
    BY <2>2, <2>3, <2>4 DEF Verdict
<1>9. Shape'
  BY <1>1, <1>2, <1>6, <1>7, <1>8 DEF Shape
<1>10. KeptInTruncate' /\ OffsetIsFree'
  BY <1>8, NoCellsNoBlocks DEF KeptInTruncate, OffsetIsFree
<1>11. FileBlocks' = FileBlocks \cup {o} /\ SavedBlocks' = SavedBlocks
  BY <1>1, <1>4, <1>6, <1>8, NoCellsNoBlocks DEF FileBlocks, SavedBlocks
<1>12. Partition(BlocksOf(space'.list), FileBlocks', SavedBlocks', forgotten')
  BY <1>1, <1>3, <1>7, <1>11 DEF IInv, Partition
<1>13. SavedApart'
  BY <1>1 DEF IInv, SavedApart
<1> QED
  BY <1>1, <1>9, <1>10, <1>11, <1>12, <1>13 DEF IInv, GoodStep, HandOver

(* A fragment has been settled: the position is where it was, on what its  *)
(* range has grown into, and no block left the search space.               *)
Settled ==
    /\ SameRange(space, space') /\ space'.offset = space.offset
    /\ BlocksOf(space.list) \subseteq BlocksOf(space'.list)
    /\ fin'.caller = fin.caller /\ file'.start = file.start

(* Blocks of the file go back to the search space, and the file keeps the  *)
(* others.                                                                 *)
LEMMA ReturnedBlocks ==
    ASSUME IInv, Space(space'), space'.offset = space.offset,
           NEW B, B \subseteq FileBlocks,
           BlocksOf(space'.list) = BlocksOf(space.list) \cup B,
           SameRange(space, space'), fin'.caller = fin.caller,
           file'.start = file.start,
           FileBlocks' = FileBlocks \ B,
           file' \in FileShape, Apart(file'.loc), fin' \in FinShape,
           KeptInTruncate', AwaitsBlock' => AwaitsBlock,
           UNCHANGED << bufAt, out, forgotten, skipped >>
    PROVE  GoodStep /\ Settled
<1>1. Shape'
  BY DEF IInv, Shape
<1>2. OffsetIsFree'
  BY DEF IInv, OffsetIsFree
<1>3. SavedBlocks' = SavedBlocks
  BY DEF SavedBlocks
<1>4. Partition(BlocksOf(space'.list), FileBlocks', SavedBlocks', forgotten')
  BY <1>3 DEF IInv, Partition
<1>5. SavedApart'
  BY DEF IInv, SavedApart
<1> QED
  BY <1>1, <1>2, <1>4, <1>5 DEF IInv, GoodStep, HandOver, Settled

(* The first fragment of the file, which is settled next.                  *)
LEMMA NextFragment ==
    ASSUME IInv, file.loc # <<>>, file' = [file EXCEPT !.loc = Tail(@)]
    PROVE  /\ file' \in FileShape /\ Apart(file'.loc)
           /\ file'.start = file.start
           /\ file.loc[1] \in Fragment
           /\ file.loc[1].start \in Nat /\ file.loc[1].end \in Nat
           /\ file.loc[1].start <= file.loc[1].end
           /\ BlocksOf(file.loc) = Extent(file.loc[1]) \cup BlocksOf(file'.loc)
           /\ Extent(file.loc[1]) \cap BlocksOf(file'.loc) = {}
           /\ Extent(file.loc[1]) \cap BlocksOf(space.list) = {}
           /\ Extent(file.loc[1]) \cap BlocksOf(fin.kept) = {}
           /\ Extent(file.loc[1]) \subseteq FileBlocks
<1>1. file \in FileShape /\ Apart(file.loc) /\ file.loc \in Seq(Fragment)
  BY DEF IInv, Shape, FileShape
<1>2. /\ file.loc[1] \in Fragment /\ file.loc[1].start <= file.loc[1].end
      /\ file.loc[1].start \in Nat /\ file.loc[1].end \in Nat
      /\ Tail(file.loc) \in Seq(Fragment) /\ Apart(Tail(file.loc))
      /\ BlocksOf(file.loc) = Extent(file.loc[1]) \cup BlocksOf(Tail(file.loc))
      /\ Extent(file.loc[1]) \cap BlocksOf(Tail(file.loc)) = {}
  BY <1>1, FirstAndRest
<1>3. file' \in FileShape /\ file'.loc = Tail(file.loc)
  BY <1>1, <1>2, OtherFragments
<1>3a. file'.start = file.start
  BY <1>1 DEF FileShape
<1>4. Extent(file.loc[1]) \subseteq FileBlocks
  BY <1>2 DEF FileBlocks
<1>5. /\ Extent(file.loc[1]) \cap BlocksOf(space.list) = {}
      /\ Extent(file.loc[1]) \cap BlocksOf(fin.kept) = {}
  BY <1>2, <1>4 DEF IInv, Partition, KeptInTruncate
<1> QED
  BY <1>1, <1>2, <1>3, <1>3a, <1>4, <1>5

(* file_block_truncate_zero on the first fragment.                         *)
LEMMA RejectFirstStep == IInv /\ RejectFirst => GoodStep /\ Settled
<1> SUFFICES ASSUME IInv, RejectFirst PROVE GoodStep /\ Settled
  OBVIOUS
<1> DEFINE e == file.loc[1]
           B == Extent(e)
<1>1. /\ file.loc # <<>> /\ file' = [file EXCEPT !.loc = Tail(@)]
      /\ space' = GiveBackHeader(space, e.start, e.end, file.stat)
      /\ UNCHANGED << bufAt, fin, out, forgotten, skipped >>
      /\ pc = "reject" /\ pc' = "reject_rest"
  BY DEF RejectFirst
<1>2. /\ file' \in FileShape /\ Apart(file'.loc)
      /\ file'.start = file.start
      /\ e.start \in Nat /\ e.end \in Nat
      /\ BlocksOf(file.loc) = B \cup BlocksOf(file'.loc)
      /\ B \cap BlocksOf(file'.loc) = {}
      /\ B \cap BlocksOf(space.list) = {}
      /\ B \cap BlocksOf(fin.kept) = {}
      /\ B \subseteq FileBlocks
  BY <1>1, NextFragment
<1>3. /\ Space(space) /\ fin \in FinShape /\ fin.kept = <<>>
      /\ file.stat \in Stats \cup {NoStat}
  BY <1>1 DEF IInv, Shape, KeptInTruncate, FileShape
<1>4. B = e.start .. e.end
  BY DEF Extent
<1>5. /\ Space(space') /\ space'.offset = space.offset
      /\ BlocksOf(space'.list) = BlocksOf(space.list) \cup B
      /\ SameRange(space, space')
  <2>1. BlocksOf(space.list) \cap (e.start .. e.end) = {}
    BY <1>2, <1>4
  <2> HIDE DEF e, B
  <2> QED
    BY <2>1, <1>1, <1>2, <1>3, <1>4, GiveBackHeaderCorrect
<1> HIDE DEF B
<1>6. FileBlocks' = FileBlocks \ B
  BY <1>1, <1>2 DEF FileBlocks
<1>7. KeptInTruncate'
  BY <1>1, <1>3, NoCellsNoBlocks DEF KeptInTruncate
<1>8. AwaitsBlock' => AwaitsBlock
  BY <1>1 DEF AwaitsBlock
<1> QED
  BY <1>1, <1>2, <1>3, <1>5, <1>6, <1>7, <1>8, ReturnedBlocks

(* The fragments behind it.                                                *)
LEMMA RejectRestStep == IInv /\ RejectRest => GoodStep /\ Settled
<1> SUFFICES ASSUME IInv, RejectRest PROVE GoodStep /\ Settled
  OBVIOUS
<1> DEFINE e == file.loc[1]
           B == Extent(e)
<1>1. /\ file.loc # <<>> /\ file' = [file EXCEPT !.loc = Tail(@)]
      /\ space' = GiveBack(space, e.start, e.end)
      /\ UNCHANGED << bufAt, fin, out, forgotten, skipped >>
      /\ pc = "reject_rest" /\ pc' = "reject_rest"
  BY DEF RejectRest
<1>2. /\ file' \in FileShape /\ Apart(file'.loc)
      /\ file'.start = file.start
      /\ e.start \in Nat /\ e.end \in Nat
      /\ BlocksOf(file.loc) = B \cup BlocksOf(file'.loc)
      /\ B \cap BlocksOf(file'.loc) = {}
      /\ B \cap BlocksOf(space.list) = {}
      /\ B \cap BlocksOf(fin.kept) = {}
      /\ B \subseteq FileBlocks
  BY <1>1, NextFragment
<1>3. Space(space) /\ fin \in FinShape /\ fin.kept = <<>>
  BY <1>1 DEF IInv, Shape, KeptInTruncate
<1>4. B = e.start .. e.end
  BY DEF Extent
<1>5. /\ Space(space') /\ space'.offset = space.offset
      /\ BlocksOf(space'.list) = BlocksOf(space.list) \cup B
      /\ SameRange(space, space')
  <2>1. BlocksOf(space.list) \cap (e.start .. e.end) = {}
    BY <1>2, <1>4
  <2> HIDE DEF e, B
  <2> QED
    BY <2>1, <1>1, <1>2, <1>3, <1>4, GiveBackCorrect
<1> HIDE DEF B
<1>6. FileBlocks' = FileBlocks \ B
  BY <1>1, <1>2 DEF FileBlocks
<1>7. KeptInTruncate'
  BY <1>1, <1>3, NoCellsNoBlocks DEF KeptInTruncate
<1>8. AwaitsBlock' => AwaitsBlock
  BY <1>1 DEF AwaitsBlock
<1> QED
  BY <1>1, <1>2, <1>3, <1>5, <1>6, <1>7, <1>8, ReturnedBlocks

(* What file_block_truncate keeps of a fragment is a first part of it.     *)
LEMMA KeptBlocksBounded ==
    ASSUME NEW e \in Fragment, e.start <= e.end, file \in FileShape,
           fin \in FinShape, ~(fin.seen >= file.size)
    PROVE  KeptBlocks(e) \in 1 .. Size(e)
<1>1. /\ e.start \in Nat /\ e.end \in Nat /\ fin.seen \in Nat
      /\ file.size \in Nat
  BY DEF Fragment, FileShape, FinShape
<1>2. Size(e) \in Nat /\ Size(e) >= 1
  BY <1>1 DEF Size
<1>3. CASE e.data = 0 \/ fin.seen + Size(e) <= file.size
  BY <1>2, <1>3 DEF KeptBlocks
<1>4. CASE ~(e.data = 0 \/ fin.seen + Size(e) <= file.size)
  <2>1. KeptBlocks(e) = file.size - fin.seen
    BY <1>4 DEF KeptBlocks
  <2> HIDE DEF Size
  <2> QED
    BY <2>1, <1>1, <1>2, <1>4
<1> QED
  BY <1>3, <1>4

(* file_block_truncate on one fragment.                                    *)
LEMMA TruncateStep == IInv /\ TruncateFragment => GoodStep /\ Settled
<1> SUFFICES ASSUME IInv, TruncateFragment PROVE GoodStep /\ Settled
  OBVIOUS
<1> DEFINE e == file.loc[1]
           cut == e.start + KeptBlocks(e)
<1>1. /\ file.loc # <<>> /\ file' = [file EXCEPT !.loc = Tail(@)]
      /\ UNCHANGED << bufAt, out, forgotten, skipped >>
      /\ pc = "truncate" /\ pc' = "truncate"
  BY DEF TruncateFragment
<1>2. /\ file' \in FileShape /\ Apart(file'.loc)
      /\ file'.start = file.start
      /\ e \in Fragment /\ e.start <= e.end
      /\ e.start \in Nat /\ e.end \in Nat
      /\ BlocksOf(file.loc) = Extent(e) \cup BlocksOf(file'.loc)
      /\ Extent(e) \cap BlocksOf(file'.loc) = {}
      /\ Extent(e) \cap BlocksOf(space.list) = {}
      /\ Extent(e) \cap BlocksOf(fin.kept) = {}
      /\ Extent(e) \subseteq FileBlocks
  BY <1>1, NextFragment
<1>3. /\ Space(space) /\ file \in FileShape /\ fin \in FinShape
      /\ BlocksOf(file.loc) \cap BlocksOf(fin.kept) = {}
      /\ fin.kept \in Seq(Fragment) /\ fin.seen \in Nat
  BY DEF IInv, Shape, KeptInTruncate, FinShape
<1>4. CASE fin.seen >= file.size
  <2>1. /\ space' = GiveBack(space, e.start, e.end)
        /\ fin' = [fin EXCEPT !.truncated = TRUE]
    BY <1>4 DEF TruncateFragment
  <2>2. Extent(e) = e.start .. e.end
    BY DEF Extent
  <2>3. /\ Space(space') /\ space'.offset = space.offset
        /\ BlocksOf(space'.list) = BlocksOf(space.list) \cup Extent(e)
        /\ SameRange(space, space')
    BY <2>1, <2>2, <1>2, <1>3, GiveBackCorrect
  <2>4. TRUE \in BOOLEAN
    OBVIOUS
  <2>5. /\ fin' \in FinShape /\ fin'.kept = fin.kept
        /\ fin'.caller = fin.caller
    BY <2>1, <2>4, <1>3 DEF FinShape
  <2>6. FileBlocks' = FileBlocks \ Extent(e)
    BY <2>5, <1>2 DEF FileBlocks
  <2>7. KeptInTruncate'
    BY <2>5, <1>1, <1>2, <1>3 DEF KeptInTruncate
  <2>8. AwaitsBlock' => AwaitsBlock
    BY <2>5, <1>1 DEF AwaitsBlock
  <2> QED
    BY <2>3, <2>5, <2>6, <2>7, <2>8, <1>1, <1>2, ReturnedBlocks
<1>5. CASE ~(fin.seen >= file.size)
  <2> DEFINE k == [e EXCEPT !.end = cut - 1]
             seen == fin.seen + IF e.data = 0 THEN 0 ELSE KeptBlocks(e)
             B == cut .. e.end
  <2>1. /\ space' = GiveBack(space, cut, e.end)
        /\ fin' = [fin EXCEPT !.kept = Append(fin.kept, k), !.seen = seen]
    BY <1>5 DEF TruncateFragment
  <2>2. KeptBlocks(e) \in 1 .. Size(e) /\ Size(e) = e.end - e.start + 1
    BY <1>2, <1>3, <1>5, KeptBlocksBounded DEF Size
  <2>3. /\ cut \in Nat /\ cut - 1 \in Nat /\ seen \in Nat
        /\ e.start < cut /\ cut <= e.end + 1
    <3> DEFINE kb == KeptBlocks(e)
    <3>1. kb \in Nat /\ kb >= 1 /\ kb <= e.end - e.start + 1
      BY <2>2, <1>2
    <3>2. seen = fin.seen \/ seen = fin.seen + kb
      BY <1>3
    <3>3. cut = e.start + kb
      OBVIOUS
    <3>4. e.start \in Nat /\ e.end \in Nat /\ fin.seen \in Nat
      BY <1>2, <1>3
    <3> HIDE DEF kb, cut, seen, e
    <3> QED
      BY <3>1, <3>2, <3>3, <3>4
  <2> HIDE DEF cut, seen
  <2>4. k \in Fragment /\ k.start = e.start /\ k.end = cut - 1
    BY <2>3, <1>2 DEF Fragment
  <2> HIDE DEF k
  <2>5. /\ Extent(k) \cup B = Extent(e) /\ Extent(k) \cap B = {}
    BY <2>3, <2>4, <1>2 DEF Extent
  <2>6. /\ Space(space') /\ space'.offset = space.offset
        /\ BlocksOf(space'.list) = BlocksOf(space.list) \cup B
        /\ SameRange(space, space')
    <3>1. BlocksOf(space.list) \cap (cut .. e.end) = {}
      BY <2>5, <1>2
    <3> QED
      BY <3>1, <2>1, <2>3, <1>2, <1>3, GiveBackCorrect
  <2> HIDE DEF B
  <2>7. /\ Append(fin.kept, k) \in Seq(Fragment)
        /\ BlocksOf(Append(fin.kept, k)) = BlocksOf(fin.kept) \cup Extent(k)
    BY <2>4, <1>3, AppendedCell
  <2>8. /\ fin' \in FinShape /\ fin'.kept = Append(fin.kept, k)
        /\ fin'.caller = fin.caller
    BY <2>1, <2>3, <2>7, <1>3 DEF FinShape
  <2>9. BlocksOf(fin'.kept) = BlocksOf(fin.kept) \cup Extent(k)
    BY <2>7, <2>8
  <2>10. FileBlocks' = FileBlocks \ B /\ B \subseteq FileBlocks
    BY <2>5, <2>9, <1>2, <1>3 DEF FileBlocks
  <2>11. KeptInTruncate'
    BY <2>5, <2>9, <1>1, <1>2, <1>3 DEF KeptInTruncate
  <2>12. AwaitsBlock' => AwaitsBlock
    BY <2>8, <1>1 DEF AwaitsBlock
  <2> QED
    BY <2>6, <2>8, <2>10, <2>11, <2>12, <1>1, <1>2, ReturnedBlocks
<1> QED
  BY <1>4, <1>5

(* A rejected file is gone once all its fragments are.                     *)
LEMMA RejectedStep == IInv /\ Rejected => GoodStep
<1> SUFFICES ASSUME IInv, Rejected PROVE GoodStep
  OBVIOUS
<1>1. /\ file.loc = <<>> /\ pc \in {"reject", "reject_rest"}
      /\ FinishReturns("BAD")
      /\ UNCHANGED << space, bufAt, out, forgotten, skipped >>
  BY DEF Rejected
<1>2. file \in FileShape /\ fin \in FinShape /\ skipped \in Nat
      /\ fin.kept = <<>> /\ bufAt \in Nat
  BY <1>1 DEF IInv, Shape, KeptInTruncate
<1>3. /\ file' \in FileShape /\ file'.loc = <<>>
      /\ fin' \in FinShape /\ fin'.kept = <<>> /\ fin'.caller = "none"
      /\ pc' \notin {"reject", "reject_rest", "truncate"}
      /\ pc' \in {"new", "data"} => fin.caller = "header"
  BY <1>1, <1>2, FinishReturnsShape
<1>4. KeptInTruncate'
  BY <1>3, NoCellsNoBlocks DEF KeptInTruncate
<1>5. OffsetIsFree'
  BY <1>1, <1>3 DEF IInv, OffsetIsFree, AwaitsBlock
<1> QED
  BY <1>1, <1>2, <1>3, <1>4, <1>5, SameSpace, NothingMoves

(* A recovered file takes its fragments with it.                           *)
LEMMA AcceptedStep == IInv /\ Accepted => GoodStep
<1> SUFFICES ASSUME IInv, Accepted PROVE GoodStep
  OBVIOUS
<1> DEFINE r == IF fin.truncated THEN "OK_TRUNCATED" ELSE "OK"
           g == [start |-> file.start, saved |-> file.open,
                 loc |-> fin.kept, written |-> file.written]
<1>1. /\ file.loc = <<>> /\ pc = "truncate" /\ FinishReturns(r)
      /\ out' = out \cup {g} /\ g.loc = fin.kept
      /\ skipped' = SkipAfterFree(fin.kept)
      /\ UNCHANGED << space, bufAt, forgotten >>
  BY DEF Accepted
<1> HIDE DEF g, r
<1>2. /\ file \in FileShape /\ fin \in FinShape /\ skipped \in Nat
      /\ Space(space) /\ bufAt \in Nat
  BY DEF IInv, Shape
<1>3. /\ file' \in FileShape /\ file'.loc = <<>>
      /\ fin' \in FinShape /\ fin'.kept = <<>> /\ fin'.caller = "none"
      /\ pc' \notin {"reject", "reject_rest", "truncate"}
      /\ pc' \in {"new", "data"} => fin.caller = "header"
  BY <1>1, <1>2, FinishReturnsShape
<1>4. skipped' \in Nat
  BY <1>1, <1>2 DEF SkipAfterFree
<1>5. Shape'
  <2>1. Apart(file'.loc)
    BY <1>3, EmptySeq DEF Apart
  <2> QED
    BY <2>1, <1>1, <1>2, <1>3, <1>4 DEF Shape
<1>6. KeptInTruncate'
  BY <1>3, NoCellsNoBlocks DEF KeptInTruncate
<1>7. OffsetIsFree'
  BY <1>1, <1>3 DEF IInv, OffsetIsFree, AwaitsBlock
<1>8. FileBlocks = BlocksOf(fin.kept) /\ FileBlocks' = {}
  BY <1>1, <1>3, NoCellsNoBlocks DEF FileBlocks
<1>9. SavedBlocks' = SavedBlocks \cup BlocksOf(fin.kept)
  BY <1>1 DEF SavedBlocks
<1>10. Partition(BlocksOf(space'.list), FileBlocks', SavedBlocks', forgotten')
  BY <1>1, <1>8, <1>9 DEF IInv, Partition
<1>11. SavedApart'
  <2>1. \A f \in out : BlocksOf(f.loc) \subseteq SavedBlocks
    BY DEF SavedBlocks
  <2>2. BlocksOf(fin.kept) \cap SavedBlocks = {}
    BY <1>8 DEF IInv, Partition
  <2>3. \A f \in out : BlocksOf(f.loc) \cap BlocksOf(g.loc) = {}
    BY <2>1, <2>2, <1>1
  <2> QED
    BY <2>3, <1>1 DEF IInv, SavedApart
<1> QED
  BY <1>1, <1>5, <1>6, <1>7, <1>8, <1>10, <1>11 DEF IInv, GoodStep, HandOver

(* forget() moves blocks from the list to the forgotten ones.              *)
LEMMA ForgetStep == IInv /\ ForgetRanges => GoodStep
<1> SUFFICES ASSUME IInv, ForgetRanges PROVE GoodStep
  OBVIOUS
<1>1. /\ pc \in {"forget", "media_forget"} /\ space' = Forget(space)
      /\ forgotten' = forgotten
             \cup (BlocksOf(space.list) \ BlocksOf(space'.list))
      /\ pc' \in {"advance", "refill"}
      /\ UNCHANGED << bufAt, file, fin, out, skipped >>
  BY DEF ForgetRanges
<1>2. Space(space') /\ BlocksOf(space'.list) \subseteq BlocksOf(space.list)
  BY <1>1, ForgetCorrect DEF IInv, Shape
<1>3. Shape'
  BY <1>1, <1>2 DEF IInv, Shape
<1>4. KeptInTruncate' /\ OffsetIsFree'
  BY <1>1 DEF IInv, KeptInTruncate, OffsetIsFree, AwaitsBlock
<1>5. FileBlocks' = FileBlocks /\ SavedBlocks' = SavedBlocks
  BY <1>1 DEF FileBlocks, SavedBlocks
<1>6. Partition(BlocksOf(space'.list), FileBlocks', SavedBlocks', forgotten')
  BY <1>1, <1>2, <1>5 DEF IInv, Partition
<1>7. SavedApart'
  BY <1>1 DEF IInv, SavedApart
<1> QED
  BY <1>1, <1>3, <1>4, <1>6, <1>7 DEF IInv, GoodStep, HandOver

-----------------------------------------------------------------------------
(* The steps of the loop body                                              *)

(* The head of the loop.                                                   *)
LEMMA HeadSteps ==
    IInv /\ (EndOfSpace \/ UserStop \/ CheckNoHeader \/ CheckHeader) => GoodStep
<1> SUFFICES ASSUME IInv,
                    EndOfSpace \/ UserStop \/ CheckNoHeader \/ CheckHeader
             PROVE  GoodStep
  OBVIOUS
<1>1. skipped \in Nat /\ bufAt \in Nat /\ file \in FileShape
  BY DEF IInv, Shape
<1>2. CASE EndOfSpace \/ UserStop
  <2>1. /\ pc' = "returned" /\ pc = "top"
        /\ UNCHANGED << space, bufAt, file, fin, out, forgotten, skipped >>
    BY <1>2 DEF EndOfSpace, UserStop, Return
  <2>2. OffsetIsFree'
    BY <2>1 DEF OffsetIsFree, AwaitsBlock
  <2> QED
    BY <2>1, <2>2, <1>1, SameSpace, WalkStep
<1>3. CASE CheckNoHeader
  <2>1. /\ Space(space') /\ space'.list = space.list
        /\ space'.offset \in BlocksOf(space'.list)
        /\ space'.offset \in Nat
    BY <1>3, LookingAtFree DEF CheckNoHeader
  <2>2. /\ pc = "top" /\ pc' = "data" /\ space' = Corrected
        /\ UNCHANGED << bufAt, file, fin, out, forgotten >>
    BY <1>3 DEF CheckNoHeader, Looking
  <2>3. skipped' \in Nat /\ bufAt' \in Nat
    BY <2>1, <2>2, <1>1, <1>3 DEF CheckNoHeader
  <2>4. OffsetIsFree'
    BY <2>1 DEF OffsetIsFree
  <2> QED
    BY <2>1, <2>2, <2>3, <2>4, WalkStep
<1>4. CASE CheckHeader
  <2>1. /\ Space(space') /\ space'.list = space.list
        /\ space'.offset \in BlocksOf(space'.list)
    BY <1>4, LookingAtFree DEF CheckHeader
  <2>2. pc = "top" /\ UNCHANGED << bufAt, out, forgotten, skipped >>
    BY <1>4 DEF CheckHeader, Looking
  <2>3. ASSUME NEW size \in FinalSizes(file), StartFinish(file, size, "header")
        PROVE  GoodStep
    <3>1. size \in Nat
      BY <2>3, <1>1, FinalSizeIsNat
    <3> QED
      BY <3>1, <2>1, <2>2, <2>3, <1>1, FinishStep
  <2>4. CASE pc' = "new" /\ UNCHANGED << file, fin >>
    <3>1. OffsetIsFree'
      BY <2>1 DEF OffsetIsFree
    <3> QED
      BY <3>1, <2>1, <2>2, <2>4, <1>1, WalkStep
  <2> QED
    BY <2>3, <2>4, <1>4 DEF CheckHeader
<1> QED
  BY <1>2, <1>3, <1>4

(* A new file starts, or its output cannot be created.                     *)
LEMMA NewSteps ==
    ASSUME IInv, NEW kind \in Stats, StartFile(kind) \/ CreateFails(kind)
    PROVE  GoodStep
<1>1. /\ skipped \in Nat /\ file \in FileShape /\ fin \in FinShape
      /\ space.offset \in Nat /\ bufAt \in Nat
  BY DEF IInv, Shape, Space
<1>2. ASSUME NEW opened \in BOOLEAN
      PROVE  /\ NewFile(kind, opened) \in FileShape
             /\ NewFile(kind, opened).loc = file.loc
  <2>1. kind \in Stats \cup {NoStat}
    OBVIOUS
  <2> QED
    BY <2>1, <1>1 DEF NewFile, FileShape
<1>3. CASE StartFile(kind)
  <2>1. pc = "new" /\ pc' = "data"
        /\ UNCHANGED << space, bufAt, fin, skipped, out, forgotten >>
    BY <1>3 DEF StartFile
  <2>2. (kind \notin Unsaved) \in BOOLEAN
    OBVIOUS
  <2>3. file' \in FileShape /\ file'.loc = file.loc
    BY <2>2, <1>2, <1>3 DEF StartFile
  <2>4. KeptInTruncate' /\ OffsetIsFree'
    BY <2>1, <2>3 DEF IInv, KeptInTruncate, OffsetIsFree, AwaitsBlock
  <2> QED
    BY <2>1, <2>3, <2>4, <1>1, SameSpace, NothingMoves
<1>4. CASE CreateFails(kind)
  <2>1. /\ pc = "new" /\ UNCHANGED << space, bufAt, skipped, out, forgotten >>
        /\ StartFinish(NewFile(kind, FALSE), 0, "abort")
    BY <1>4 DEF CreateFails, Abort
  <2>2. /\ NewFile(kind, FALSE) \in FileShape
        /\ NewFile(kind, FALSE).loc = file.loc
    BY <1>2
  <2> HIDE DEF NewFile
  <2> QED
    BY <2>1, <2>2, SameSpace, FinishStep
<1> QED
  BY <1>3, <1>4

(* The block goes to the file in progress, if any.                         *)
LEMMA DataSteps ==
    ASSUME IInv,
           \/ NoFileInProgress \/ WriteFails \/ SkipIndirectBlock
           \/ \E verdict \in {"CONTINUE", "STOP", "ERROR"}, written \in BOOLEAN :
                  WriteBlock(verdict, written)
    PROVE  GoodStep
<1>1. /\ skipped \in Nat /\ file \in FileShape /\ fin \in FinShape
      /\ space.offset \in Nat /\ Apart(file.loc)
      /\ file.loc \in Seq(Fragment) /\ file.size \in Nat
      /\ file.written \in SUBSET (Nat \X Nat) /\ bufAt \in Nat
  BY DEF IInv, Shape, Space, FileShape
<1>2. CASE NoFileInProgress
  <2>1. pc = "data" /\ pc' = "advance"
        /\ UNCHANGED << space, bufAt, file, fin, skipped, out, forgotten >>
    BY <1>2 DEF NoFileInProgress
  <2>2. OffsetIsFree'
    BY <2>1 DEF OffsetIsFree, AwaitsBlock
  <2> QED
    BY <2>1, <2>2, <1>1, SameSpace, WalkStep
<1>3. CASE WriteFails
  <2>1. /\ pc = "data" /\ UNCHANGED << space, bufAt, skipped, out, forgotten >>
        /\ StartFinish(file, 0, "abort")
    BY <1>3 DEF WriteFails, Abort
  <2> QED
    BY <2>1, <1>1, SameSpace, FinishStep
<1> DEFINE added(data) == AddToFile(file.loc, space.offset, data)
<1>4. ASSUME TakeBlock, NEW data \in {0, 1}
      PROVE  added(data) \in Seq(Fragment)
  <2>1. space.offset \in BlocksOf(space.list) /\ fin.kept = <<>>
    BY <1>4 DEF TakeBlock, IInv, OffsetIsFree, AwaitsBlock, KeptInTruncate
  <2>2. space.offset \notin BlocksOf(file.loc)
    BY <2>1 DEF IInv, Partition, FileBlocks
  <2> QED
    BY <2>2, <1>1, AddToFileCorrect
<1> HIDE DEF added
<1>5. CASE SkipIndirectBlock
  <2>1. TakeBlock /\ Verdict([file EXCEPT !.loc = added(0)], "CONTINUE")
    BY <1>5 DEF SkipIndirectBlock, added
  <2>2. /\ [file EXCEPT !.loc = added(0)] \in FileShape
        /\ [file EXCEPT !.loc = added(0)].loc = added(0)
    BY <2>1, <1>1, <1>4, OtherFragments
  <2> DEFINE f == [file EXCEPT !.loc = added(0)]
  <2> HIDE DEF f
  <2>3. f \in FileShape /\ f.loc = added(0) /\ Verdict(f, "CONTINUE")
    BY <2>1, <2>2 DEF f
  <2> QED
    BY <2>1, <2>3, TakenBlock DEF added
<1>6. ASSUME NEW verdict, NEW written \in BOOLEAN, WriteBlock(verdict, written)
      PROVE  GoodStep
  <2> DEFINE w == IF file.open /\ written
                  THEN file.written \cup {<< space.offset, bufAt >>}
                  ELSE file.written
             f == [file EXCEPT !.loc = added(1), !.size = @ + 1, !.written = w]
  <2>1. TakeBlock /\ Verdict(f, verdict)
    BY <1>6 DEF WriteBlock, added
  <2>2. added(1) \in Seq(Fragment) /\ w \in SUBSET (Nat \X Nat)
    BY <2>1, <1>1, <1>4
  <2> HIDE DEF w
  <2>3. f \in FileShape /\ f.loc = added(1)
    <3>1. file.size + 1 \in Nat
      BY <1>1
    <3>2. f = Grown(file, added(1), file.size + 1, w)
      BY DEF Grown
    <3> HIDE DEF f
    <3> QED
      BY <3>1, <3>2, <2>2, <1>1, GrownFileShape
  <2> HIDE DEF f
  <2> QED
    BY <2>1, <2>3, TakenBlock DEF added
<1> QED
  BY <1>2, <1>3, <1>5, <1>6

(* Where to look next.                                                     *)
LEMMA AdvanceSteps ==
    ASSUME IInv,
           AdvanceSector \/ AdvanceInFile \/ BackToHeader \/ BackToSkipped
    PROVE  GoodStep
<1>1. /\ Space(space) /\ skipped \in Nat /\ file \in FileShape
      /\ file.start \in Nat /\ bufAt \in Nat
  BY DEF IInv, Shape, FileShape
<1>2. /\ pc = "advance" /\ pc' \in {"media", "refill"}
      /\ UNCHANGED << bufAt, file, fin, out, forgotten >>
  BY DEF AdvanceSector, AdvanceInFile, BackToHeader, BackToSkipped, AfterAdvance
<1>3. skipped' \in Nat /\ bufAt' \in Nat
  BY <1>1, <1>2 DEF AdvanceSector, AdvanceInFile, BackToHeader, BackToSkipped
<1>4. OffsetIsFree'
  BY <1>2 DEF OffsetIsFree, AwaitsBlock
<1>5. Space(space') /\ space'.list = space.list
  <2>1. CASE AdvanceSector
    BY <2>1, <1>1, GetNextSectorCorrect DEF AdvanceSector
  <2>2. CASE AdvanceInFile
    BY <2>2, SameSpace DEF AdvanceInFile
  <2>3. CASE BackToHeader
    <3>1. PrevFileHeader(space) \in 0..Len(space.list)
      BY <1>1, PrevFileHeaderCell
    <3> QED
      BY <3>1, <2>3, <1>1, MovedTo DEF BackToHeader
  <2>4. CASE BackToSkipped
    BY <2>4, <1>1, PrevLocationSmartCorrect DEF BackToSkipped
  <2> QED
    BY <2>1, <2>2, <2>3, <2>4
<1> QED
  BY <1>2, <1>3, <1>4, <1>5, WalkStep

(* The end of the media.                                                   *)
LEMMA MediaSteps ==
    ASSUME IInv, EndOfMedia \/ EndOfMediaDone
    PROVE  GoodStep
<1>1. /\ Space(space) /\ skipped \in Nat /\ file \in FileShape
      /\ file.start \in Nat /\ bufAt \in Nat
  BY DEF IInv, Shape, FileShape
<1>2. CASE EndOfMedia
  <2>1. /\ pc = "media" /\ UNCHANGED << space, bufAt, skipped, out, forgotten >>
    BY <1>2 DEF EndOfMedia
  <2>2. ASSUME NEW size \in FinalSizes(file), StartFinish(file, size, "media")
        PROVE  GoodStep
    <3>1. size \in Nat
      BY <2>2, <1>1, FinalSizeIsNat
    <3> QED
      BY <3>1, <2>1, <2>2, <1>1, SameSpace, FinishStep
  <2>3. CASE pc' = "media_done" /\ UNCHANGED << file, fin >>
    <3>1. OffsetIsFree'
      BY <2>3 DEF OffsetIsFree, AwaitsBlock
    <3> QED
      BY <3>1, <2>1, <2>3, <1>1, SameSpace, WalkStep
  <2> QED
    BY <2>2, <2>3, <1>2 DEF EndOfMedia
<1>3. CASE EndOfMediaDone
  <2>1. /\ pc = "media_done" /\ pc' \in {"media_forget", "refill"}
        /\ UNCHANGED << bufAt, file, fin, out, forgotten >>
    BY <1>3 DEF EndOfMediaDone
  <2>2. OffsetIsFree'
    BY <2>1 DEF OffsetIsFree, AwaitsBlock
  <2>3. Space(space') /\ space'.list = space.list /\ skipped' \in Nat
    <3>1. CASE result = "BAD"
      BY <3>1, <1>1, <1>3, SameSpace DEF EndOfMediaDone
    <3>2. CASE result # "BAD"
      <4>1. /\ space' = PrevLocationSmart(space, skipped, file.start)
            /\ skipped' = 0
        BY <3>2, <1>3 DEF EndOfMediaDone
      <4> QED
        BY <4>1, <1>1, PrevLocationSmartCorrect
    <3> QED
      BY <3>1, <3>2
  <2>4. bufAt' \in Nat
    BY <2>1, <1>1
  <2> QED
    BY <2>1, <2>2, <2>3, <2>4, WalkStep
<1> QED
  BY <1>2, <1>3

(* The buffer moves on; the user asks to stop; nothing happens.            *)
LEMMA OtherSteps ==
    ASSUME IInv,
           KeepBuffer \/ ReadBuffer \/ ShowProgress \/ RequestStop
              \/ UNCHANGED vars
    PROVE  GoodStep
<1>1. skipped \in Nat /\ bufAt \in Nat /\ space.offset \in Nat
  BY DEF IInv, Shape, Space
<1>2. CASE KeepBuffer \/ ReadBuffer \/ ShowProgress
  <2>1. pc = "refill" /\ pc' = "top"
        /\ UNCHANGED << space, file, fin, out, forgotten, skipped >>
        /\ bufAt' \in Nat
    BY <1>1, <1>2 DEF KeepBuffer, ReadBuffer, ShowProgress, NextIteration
  <2>2. OffsetIsFree'
    BY <2>1 DEF OffsetIsFree, AwaitsBlock
  <2> QED
    BY <2>1, <2>2, <1>1, SameSpace, WalkStep
<1>3. CASE RequestStop \/ UNCHANGED vars
  <2>1. UNCHANGED << pc, space, bufAt, file, fin, out, forgotten, skipped >>
    BY <1>3 DEF RequestStop, vars
  <2>2. OffsetIsFree'
    BY <2>1 DEF IInv, OffsetIsFree, AwaitsBlock
  <2> QED
    BY <2>1, <2>2, <1>1, SameSpace, WalkStep
<1> QED
  BY <1>2, <1>3

-----------------------------------------------------------------------------
(* The theorems                                                            *)

(* Every step of photorec_aux keeps the invariant and hands blocks over in *)
(* one way only.                                                           *)
LEMMA EveryStep == IInv /\ [Next]_vars => GoodStep
<1> SUFFICES ASSUME IInv, [Next]_vars PROVE GoodStep
  OBVIOUS
<1>1. CASE Finishing
  BY <1>1, RejectFirstStep, RejectRestStep, RejectedStep, TruncateStep,
     AcceptedStep DEF Finishing
<1>2. CASE EndOfSpace \/ UserStop \/ CheckNoHeader \/ CheckHeader
  BY <1>2, HeadSteps
<1>3. CASE \E kind \in Stats : StartFile(kind) \/ CreateFails(kind)
  BY <1>3, NewSteps
<1>4. CASE \/ NoFileInProgress \/ WriteFails \/ SkipIndirectBlock
           \/ \E verdict \in {"CONTINUE", "STOP", "ERROR"},
                 written \in BOOLEAN : WriteBlock(verdict, written)
  BY <1>4, DataSteps
<1>5. CASE ForgetRanges
  BY <1>5, ForgetStep
<1>6. CASE AdvanceSector \/ AdvanceInFile \/ BackToHeader \/ BackToSkipped
  BY <1>6, AdvanceSteps
<1>7. CASE EndOfMedia \/ EndOfMediaDone
  BY <1>7, MediaSteps
<1>8. CASE KeepBuffer \/ ReadBuffer \/ ShowProgress \/ RequestStop
           \/ UNCHANGED vars
  BY <1>8, OtherSteps
<1> QED
  BY <1>1, <1>2, <1>3, <1>4, <1>5, <1>6, <1>7, <1>8 DEF Next, Pass

(* The invariant holds throughout a pass.                                  *)
THEOREM CarverInvariant == Spec => []IInv
<1>1. IInv /\ [Next]_vars => IInv'
  BY EveryStep DEF GoodStep
<1> QED
  BY <1>1, InitInvariant, PTL DEF Spec

(* The search space stays sorted, its ranges disjoint and never empty,     *)
(* however often blocks are cut out of it and given back.                  *)
THEOREM ListStaysOrdered == Spec => []ListOrdered
<1>1. IInv => ListOrdered
  BY DEF IInv, Shape, Space, ListOrdered
<1> QED
  BY <1>1, CarverInvariant, PTL

(* At every moment every block of the disk is in exactly one place: free,  *)
(* in the file in progress, in one recovered file, or forgotten.           *)
THEOREM BlocksConserved == Spec => []Conservation
<1>1. ASSUME IInv PROVE Conservation
  <2> DEFINE F == BlocksOf(space.list)
  <2>1. Partition(F, FileBlocks, SavedBlocks, forgotten) /\ SavedApart
    BY <1>1 DEF IInv
  <2>2. DOMAIN Places = {"free", "held", "saved", "forgotten"}
    BY DEF Places
  <2>3. /\ Places["free"] = F /\ Places["held"] = FileBlocks
        /\ Places["saved"] = SavedBlocks /\ Places["forgotten"] = forgotten
    BY DEF Places
  <2> HIDE DEF F
  <2>4. UNION { Places[p] : p \in DOMAIN Places } =
           F \cup FileBlocks \cup SavedBlocks \cup forgotten
    BY <2>2, <2>3
  <2>5. \A p, q \in DOMAIN Places : p # q => Places[p] \cap Places[q] = {}
    BY <2>1, <2>2, <2>3 DEF Partition
  <2> QED
    BY <2>1, <2>4, <2>5 DEF Partition, SavedApart, Conservation
<1> QED
  BY <1>1, CarverInvariant, PTL


-----------------------------------------------------------------------------
(* A carving pass implements Ownership: whatever the lists it keeps them    *)
(* in, blocks change hands only as that specification allows.               *)

(* The place a block is in, of four disjoint ones.                         *)
PlaceOfBlock(places, b) ==
    LET at == { p \in DOMAIN places : b \in places[p] }
    IN  IF \E p \in DOMAIN places : at = {p} THEN CHOOSE p \in at : TRUE
        ELSE "lost"

PlacesOf(free, held, saved, gone) ==
    [free |-> free, held |-> held, saved |-> saved, forgotten |-> gone]

(* In a partition every block has one owner, the place it is in.           *)
LEMMA OwnersOfPartition ==
    ASSUME NEW free, NEW held, NEW saved, NEW gone,
           Partition(free, held, saved, gone), NEW b \in Disk
    PROVE  LET o == PlaceOfBlock(PlacesOf(free, held, saved, gone), b)
           IN  /\ o \in {"free", "held", "saved", "forgotten"}
               /\ (o = "free") = (b \in free) /\ (o = "held") = (b \in held)
               /\ (o = "saved") = (b \in saved)
               /\ (o = "forgotten") = (b \in gone)
<1> DEFINE P == PlacesOf(free, held, saved, gone)
           at == { p \in DOMAIN P : b \in P[p] }
           o == PlaceOfBlock(P, b)
<1>1. /\ DOMAIN P = {"free", "held", "saved", "forgotten"}
      /\ P["free"] = free /\ P["held"] = held
      /\ P["saved"] = saved /\ P["forgotten"] = gone
  BY DEF PlacesOf
<1>2. o = IF \E p \in DOMAIN P : at = {p} THEN CHOOSE p \in at : TRUE
          ELSE "lost"
  BY DEF PlaceOfBlock
<1> HIDE DEF P, o
<1>3. ASSUME NEW q \in DOMAIN P, b \in P[q] PROVE o = q
  <2>1. \A p \in DOMAIN P : p # q => b \notin P[p]
    BY <1>1, <1>3 DEF Partition
  <2>2. at = {q}
    BY <2>1, <1>3
  <2> HIDE DEF at
  <2>3. (CHOOSE p \in at : TRUE) = q
    BY <2>2
  <2> QED
    BY <2>2, <2>3, <1>2, <1>3
<1>4. \E q \in DOMAIN P : b \in P[q]
  BY <1>1 DEF Partition
<1> QED
  BY <1>1, <1>3, <1>4 DEF o, P, Partition

(* The same of Carver's own definitions, in a state and the next one.      *)
LEMMA OwnerIsPlace ==
    /\ Owner = [b \in Disk |->
                   PlaceOfBlock(PlacesOf(BlocksOf(space.list), FileBlocks,
                                         SavedBlocks, forgotten), b)]
    /\ Owner' = [b \in Disk |->
                   PlaceOfBlock(PlacesOf(BlocksOf(space'.list), FileBlocks',
                                         SavedBlocks', forgotten'), b)]
  BY DEF Owner, Places, PlaceOfBlock, PlacesOf

(* All blocks are free in the beginning.                                   *)
LEMMA OwnedInit == Init => Owned!Init
<1> SUFFICES ASSUME Init PROVE Owned!Init
  OBVIOUS
<1>1. FileBlocks = {} /\ SavedBlocks = {} /\ forgotten = {}
  <2>1. file.loc = <<>> /\ fin.kept = <<>> /\ out = {} /\ forgotten = {}
    BY DEF Init, NoCall
  <2> QED
    BY <2>1, NoCellsNoBlocks DEF FileBlocks, SavedBlocks
<1>2. Partition(BlocksOf(space.list), FileBlocks, SavedBlocks, forgotten)
  BY InitInvariant DEF IInv
<1>3. BlocksOf(space.list) = Disk
  BY <1>1, <1>2 DEF Partition
<1>4. \A b \in Disk :
         PlaceOfBlock(PlacesOf(BlocksOf(space.list), FileBlocks, SavedBlocks,
                               forgotten), b) = "free"
  BY <1>2, <1>3, OwnersOfPartition
<1> QED
  BY <1>4, OwnerIsPlace DEF Owned!Init

(* Every step of photorec_aux is a step of Ownership, or none.             *)
LEMMA OwnedStep == IInv /\ [Next]_vars => [Owned!Next]_Owner
<1> SUFFICES ASSUME IInv, [Next]_vars PROVE Owned!Next
  OBVIOUS
<1> DEFINE free == BlocksOf(space.list)
           P == PlacesOf(free, FileBlocks, SavedBlocks, forgotten)
           Q == PlacesOf(free', FileBlocks', SavedBlocks', forgotten')
<1>1. IInv' /\ HandOver
  BY EveryStep DEF GoodStep
<1>2. /\ Partition(free, FileBlocks, SavedBlocks, forgotten)
      /\ Partition(free', FileBlocks', SavedBlocks', forgotten')
  BY <1>1 DEF IInv
<1>3. /\ Owner = [b \in Disk |-> PlaceOfBlock(P, b)]
      /\ Owner' = [b \in Disk |-> PlaceOfBlock(Q, b)]
  BY OwnerIsPlace
<1>4. \A b \in Disk :
         /\ Owner[b] \in Owned!States /\ Owner'[b] \in Owned!States
         /\ (Owner[b] = "free") = (b \in free)
         /\ (Owner[b] = "held") = (b \in FileBlocks)
         /\ (Owner[b] = "saved") = (b \in SavedBlocks)
         /\ (Owner[b] = "forgotten") = (b \in forgotten)
         /\ (Owner'[b] = "free") = (b \in free')
         /\ (Owner'[b] = "held") = (b \in FileBlocks')
         /\ (Owner'[b] = "saved") = (b \in SavedBlocks')
         /\ (Owner'[b] = "forgotten") = (b \in forgotten')
  BY <1>2, <1>3, OwnersOfPartition DEF Owned!States
<1>5. Owner' \in [Disk -> Owned!States]
  BY <1>3, <1>4
<1> HIDE DEF free, P, Q
<1>6. CASE UNCHANGED << out, forgotten >> /\ FileBlocks \subseteq FileBlocks'
  <2>1. SavedBlocks' = SavedBlocks /\ forgotten' = forgotten
    BY <1>6 DEF SavedBlocks
  <2>2. Owned!Take
    BY <2>1, <1>2, <1>4, <1>5, <1>6
       DEF Owned!Take, Owned!Moves, Owned!States, Partition
  <2> QED
    BY <2>2 DEF Owned!Next
<1>7. CASE UNCHANGED << out, forgotten >> /\ FileBlocks' \subseteq FileBlocks
  <2>1. SavedBlocks' = SavedBlocks /\ forgotten' = forgotten
    BY <1>7 DEF SavedBlocks
  <2>2. Owned!GiveBack
    BY <2>1, <1>2, <1>4, <1>5, <1>7
       DEF Owned!GiveBack, Owned!Moves, Owned!States, Partition
  <2> QED
    BY <2>2 DEF Owned!Next
<1>8. CASE /\ UNCHANGED << space, forgotten >>
           /\ FileBlocks' = {} /\ out \subseteq out'
  <2>1. free' = free /\ SavedBlocks \subseteq SavedBlocks'
    BY <1>8 DEF SavedBlocks, free
  <2>2. Owned!Save
    BY <2>1, <1>2, <1>4, <1>5, <1>8
       DEF Owned!Save, Owned!Moves, Owned!States, Partition
  <2> QED
    BY <2>2 DEF Owned!Next
<1>9. CASE UNCHANGED << file, fin, out >> /\ forgotten \subseteq forgotten'
  <2>1. FileBlocks' = FileBlocks /\ SavedBlocks' = SavedBlocks
    BY <1>9 DEF FileBlocks, SavedBlocks
  <2>2. Owned!Forget
    BY <2>1, <1>2, <1>4, <1>5, <1>9
       DEF Owned!Forget, Owned!Moves, Owned!States, Partition
  <2> QED
    BY <2>2 DEF Owned!Next
<1> QED
  BY <1>1, <1>6, <1>7, <1>8, <1>9 DEF HandOver

(* A pass over a disk of any size, with any headers, answers and failures, *)
(* implements Ownership: a saved block stays saved, a forgotten one is     *)
(* never seen again, and a file is saved with all its blocks at once.      *)
THEOREM CarverImplementsOwnership == Spec => OwnershipSpec
  BY OwnedInit, OwnedStep, CarverInvariant, PTL
     DEF Spec, OwnershipSpec, Owned!Spec

-----------------------------------------------------------------------------
(* A carving pass that gives up on an error undoes the file in progress:    *)
(* what a resumed recovery starts from is searchable again.                 *)

FinishPlaces == {"truncate", "reject", "reject_rest"}

(* The first block of the file in progress is one of its blocks, or the    *)
(* one it takes next.                                                      *)
StartIsHeld ==
    InProgress /\ pc \notin FinishPlaces =>
        \/ file.start \in BlocksOf(file.loc)
        \/ pc = "data" /\ file.start = space.offset

(* An error is followed by file_finish2 alone, which leaves the resume     *)
(* offset to the file or in the search space, and then by the return.      *)
ErrorIsUndone ==
    ret \in {"EACCES", "ENOSPC"} =>
        /\ resumeAt \in BlocksOf(space.list) \cup FileBlocks
        /\ \/ pc \in {"reject", "reject_rest"} /\ fin.caller = "abort"
           \/ /\ pc = "returned" /\ ~InProgress /\ ~file.open
              /\ file.loc = <<>> /\ fin.kept = <<>>

AbortInv == StartIsHeld /\ ErrorIsUndone

(* What StartFinish leaves of the file it is called with.                  *)
LEMMA FinishKeepsFile ==
    ASSUME NEW f \in FileShape, NEW size, NEW caller, StartFinish(f, size, caller)
    PROVE  /\ file'.loc = f.loc /\ fin'.caller = caller
           /\ pc' \in {"reject", "truncate"} /\ (size = 0 => pc' = "reject")
<1>1. /\ file' = [f EXCEPT !.size = size, !.open = f.open /\ size > 0]
      /\ fin' = [caller |-> caller, kept |-> <<>>, seen |-> 0,
                 truncated |-> FALSE]
      /\ pc' = IF size = 0 THEN "reject" ELSE "truncate"
  BY DEF StartFinish, NoCall
<1>2. file'.loc = f.loc
  BY <1>1 DEF FileShape
<1> QED
  BY <1>1, <1>2

(* A file begins to be finished, for any reason but an error.              *)
LEMMA FinishBegins ==
    ASSUME AbortInv, pc \notin FinishPlaces \cup {"returned"}, ret' = ret,
           pc' \in FinishPlaces
    PROVE  AbortInv'
  BY DEF AbortInv, StartIsHeld, ErrorIsUndone, FinishPlaces

(* The walk, with the file left alone.                                     *)
LEMMA FileLeftAlone ==
    ASSUME AbortInv, pc \notin FinishPlaces \cup {"returned", "data"},
           UNCHANGED file, ret' \notin {"EACCES", "ENOSPC"}
    PROVE  AbortInv'
  BY DEF AbortInv, StartIsHeld, ErrorIsUndone, FinishPlaces, InProgress

(* The pass gives up: the file becomes f, and is undone from here.         *)
LEMMA AbortStep ==
    ASSUME IInv, NEW f \in FileShape, f.loc = file.loc,
           pc \notin FinishPlaces, UNCHANGED space, NEW status, Abort(f, status),
           f.start \in BlocksOf(space.list) \cup BlocksOf(file.loc)
    PROVE  AbortInv'
<1>1. StartFinish(f, 0, "abort") /\ resumeAt' = f.start
  BY DEF Abort
<1>2. file'.loc = f.loc /\ fin'.caller = "abort" /\ pc' = "reject"
  BY <1>1, FinishKeepsFile
<1>3. resumeAt' \in BlocksOf(space'.list) \cup FileBlocks'
  BY <1>1, <1>2 DEF FileBlocks
<1> QED
  BY <1>2, <1>3 DEF AbortInv, StartIsHeld, ErrorIsUndone, FinishPlaces

(* file_finish2 goes on, and returns.                                      *)
LEMMA AbortFinishing == IInv /\ IInv' /\ AbortInv /\ Finishing => AbortInv'
<1> SUFFICES ASSUME IInv, IInv', AbortInv, Finishing PROVE AbortInv'
  OBVIOUS
<1>1. CASE RejectFirst \/ RejectRest
  <2>1. /\ pc \in {"reject", "reject_rest"} /\ pc' = "reject_rest"
        /\ UNCHANGED << ret, fin, out, forgotten, resumeAt >>
    BY <1>1 DEF RejectFirst, RejectRest
  <2>2. BlocksOf(space'.list) \cup FileBlocks' =
           BlocksOf(space.list) \cup FileBlocks
    BY <2>1, SearchableStays
  <2> QED
    BY <2>1, <2>2 DEF AbortInv, StartIsHeld, ErrorIsUndone, FinishPlaces
<1>2. CASE TruncateFragment
  <2>1. pc = "truncate" /\ pc' = "truncate" /\ ret' = ret
    BY <1>2 DEF TruncateFragment
  <2> QED
    BY <2>1 DEF AbortInv, StartIsHeld, ErrorIsUndone, FinishPlaces
<1>3. ASSUME NEW r, FinishReturns(r)
      PROVE  /\ ~InProgress' /\ ~file'.open /\ file'.loc = <<>>
             /\ fin'.kept = <<>>
             /\ fin.caller = "abort" => pc' = "returned"
  <2>1. file' = ResetFile(file) /\ fin' = NoCall
    BY <1>3 DEF FinishReturns
  <2>2. file \in FileShape
    BY DEF IInv, Shape
  <2>3. file'.stat = NoStat /\ ~file'.open /\ file'.loc = <<>>
    BY <2>1, <2>2 DEF ResetFile, FileShape
  <2>4. fin'.kept = <<>>
    BY <2>1 DEF NoCall
  <2>5. fin.caller = "abort" => pc' = "returned"
    BY <1>3 DEF FinishReturns
  <2> QED
    BY <2>3, <2>4, <2>5 DEF InProgress
<1>4. CASE Rejected
  <2>1. /\ FinishReturns("BAD")
        /\ UNCHANGED << ret, out, forgotten, resumeAt >>
        /\ pc \in {"reject", "reject_rest"}
    BY <1>4 DEF Rejected
  <2>2. BlocksOf(space'.list) \cup FileBlocks' =
           BlocksOf(space.list) \cup FileBlocks
    BY <2>1, SearchableStays
  <2> QED
    BY <2>1, <2>2, <1>3 DEF AbortInv, StartIsHeld, ErrorIsUndone
<1>5. CASE Accepted
  <2>1. /\ pc = "truncate" /\ ret' = ret
        /\ FinishReturns(IF fin.truncated THEN "OK_TRUNCATED" ELSE "OK")
    BY <1>5 DEF Accepted
  <2>2. ~InProgress'
    BY <2>1, <1>3
  <2> QED
    BY <2>1, <2>2 DEF AbortInv, StartIsHeld, ErrorIsUndone
<1> QED
  BY <1>1, <1>2, <1>4, <1>5 DEF Finishing

(* A new file starts, or its output cannot be created.                     *)
LEMMA AbortNew ==
    ASSUME IInv, AbortInv, NEW kind \in Stats, StartFile(kind) \/ CreateFails(kind)
    PROVE  AbortInv'
<1>1. file \in FileShape /\ space.offset \in Nat
  BY DEF IInv, Shape, Space
<1>2. ASSUME NEW opened \in BOOLEAN
      PROVE  /\ NewFile(kind, opened) \in FileShape
             /\ NewFile(kind, opened).loc = file.loc
             /\ NewFile(kind, opened).start = space.offset
  <2>1. kind \in Stats \cup {NoStat}
    OBVIOUS
  <2> QED
    BY <2>1, <1>1 DEF NewFile, FileShape
<1>3. CASE StartFile(kind)
  <2>1. pc = "new" /\ pc' = "data" /\ UNCHANGED << ret, space >>
        /\ file' = NewFile(kind, kind \notin Unsaved)
    BY <1>3 DEF StartFile
  <2>2. (kind \notin Unsaved) \in BOOLEAN
    OBVIOUS
  <2>3. file'.start = space'.offset
    BY <2>1, <2>2, <1>2
  <2> QED
    BY <2>1, <2>3 DEF AbortInv, StartIsHeld, ErrorIsUndone
<1>4. CASE CreateFails(kind)
  <2>1. /\ pc = "new" /\ UNCHANGED space
        /\ Abort(NewFile(kind, FALSE), "EACCES")
    BY <1>4 DEF CreateFails
  <2>2. space.offset \in BlocksOf(space.list)
    BY <2>1 DEF IInv, OffsetIsFree, AwaitsBlock
  <2>3. /\ NewFile(kind, FALSE) \in FileShape
        /\ NewFile(kind, FALSE).loc = file.loc
        /\ NewFile(kind, FALSE).start = space.offset
    BY <1>2
  <2> HIDE DEF NewFile
  <2> QED
    BY <2>1, <2>2, <2>3, AbortStep DEF FinishPlaces
<1> QED
  BY <1>3, <1>4

(* The file has the block that was looked at, or fails on it.              *)
LEMMA AbortData ==
    ASSUME IInv, AbortInv,
           \/ NoFileInProgress \/ WriteFails \/ SkipIndirectBlock
           \/ \E verdict \in {"CONTINUE", "STOP", "ERROR"}, written \in BOOLEAN :
                  WriteBlock(verdict, written)
    PROVE  AbortInv'
<1>1. /\ file \in FileShape /\ space.offset \in Nat /\ Apart(file.loc)
      /\ file.loc \in Seq(Fragment)
  BY DEF IInv, Shape, Space, FileShape
<1>2. CASE NoFileInProgress
  <2>1. pc = "data" /\ ~InProgress /\ UNCHANGED << ret, file >>
    BY <1>2 DEF NoFileInProgress
  <2> QED
    BY <2>1 DEF AbortInv, StartIsHeld, ErrorIsUndone, InProgress
<1>3. CASE WriteFails
  <2>1. pc = "data" /\ InProgress /\ UNCHANGED space /\ Abort(file, "ENOSPC")
    BY <1>3 DEF WriteFails
  <2>2. space.offset \in BlocksOf(space.list)
    BY <2>1 DEF IInv, OffsetIsFree, AwaitsBlock
  <2>3. file.start \in BlocksOf(space.list) \cup BlocksOf(file.loc)
    BY <2>1, <2>2 DEF AbortInv, StartIsHeld, FinishPlaces
  <2> QED
    BY <2>1, <2>3, <1>1, AbortStep DEF FinishPlaces
<1>4. ASSUME TakeBlock, NEW data \in {0, 1}, NEW f, NEW verdict,
             f.loc = AddToFile(file.loc, space.offset, data),
             f.start = file.start, Verdict(f, verdict)
      PROVE  AbortInv'
  <2>1. pc = "data" /\ InProgress /\ ret' = ret
    BY <1>4 DEF TakeBlock
  <2>2. space.offset \in BlocksOf(space.list) /\ fin.kept = <<>>
    BY <2>1 DEF IInv, OffsetIsFree, AwaitsBlock, KeptInTruncate
  <2>3. space.offset \notin BlocksOf(file.loc)
    BY <2>2 DEF IInv, Partition, FileBlocks
  <2>4. BlocksOf(f.loc) = BlocksOf(file.loc) \cup {space.offset}
    BY <2>3, <1>1, <1>4, AddToFileCorrect
  <2>5. f.start \in BlocksOf(f.loc)
    BY <2>1, <2>4, <1>4 DEF AbortInv, StartIsHeld, FinishPlaces
  <2>6. CASE pc' = "advance" /\ file' = f
    BY <2>1, <2>5, <2>6 DEF AbortInv, StartIsHeld, ErrorIsUndone
  <2>7. CASE pc' \in {"reject", "truncate"}
    BY <2>1, <2>7, FinishBegins DEF FinishPlaces
  <2> QED
    BY <2>6, <2>7, <1>4 DEF Verdict, StartFinish
<1>5. CASE SkipIndirectBlock
  <2> DEFINE f == [file EXCEPT !.loc = AddToFile(@, space.offset, 0)]
  <2>1. TakeBlock /\ Verdict(f, "CONTINUE")
    BY <1>5 DEF SkipIndirectBlock
  <2>2. /\ f.loc = AddToFile(file.loc, space.offset, 0)
        /\ f.start = file.start
    BY <1>1 DEF FileShape
  <2> HIDE DEF f
  <2> QED
    BY <2>1, <2>2, <1>4
<1>6. ASSUME NEW verdict, NEW written \in BOOLEAN, WriteBlock(verdict, written)
      PROVE  AbortInv'
  <2> DEFINE w == IF file.open /\ written
                  THEN file.written \cup {<< space.offset, bufAt >>}
                  ELSE file.written
             f == [file EXCEPT !.loc = AddToFile(@, space.offset, 1),
                               !.size = @ + 1, !.written = w]
  <2>1. TakeBlock /\ Verdict(f, verdict)
    BY <1>6 DEF WriteBlock
  <2>2. /\ f.loc = AddToFile(file.loc, space.offset, 1)
        /\ f.start = file.start
    BY <1>1 DEF FileShape
  <2> HIDE DEF f
  <2> QED
    BY <2>1, <2>2, <1>4
<1> QED
  BY <1>2, <1>3, <1>5, <1>6

(* Every other step, of the head and the end of the loop body.             *)
LEMMA AbortElsewhere ==
    ASSUME IInv, AbortInv,
           \/ EndOfSpace \/ UserStop \/ CheckNoHeader \/ CheckHeader
           \/ ForgetRanges \/ AdvanceSector \/ AdvanceInFile \/ BackToHeader
           \/ BackToSkipped \/ EndOfMedia \/ EndOfMediaDone
           \/ KeepBuffer \/ ReadBuffer \/ ShowProgress
    PROVE  AbortInv'
<1>1. pc \in {"top", "forget", "media_forget", "advance", "media",
              "media_done", "refill"}
  BY DEF EndOfSpace, UserStop, CheckNoHeader, CheckHeader, Looking,
         ForgetRanges, AdvanceSector, AdvanceInFile, BackToHeader,
         BackToSkipped, EndOfMedia, EndOfMediaDone, KeepBuffer, ReadBuffer,
         ShowProgress, NextIteration
<1>2. ret' = ret \/ ret' \in {"OK", "STOP"}
  BY DEF EndOfSpace, UserStop, Return, CheckNoHeader, CheckHeader, Looking,
         ForgetRanges, AdvanceSector, AdvanceInFile, BackToHeader,
         BackToSkipped, EndOfMedia, EndOfMediaDone, KeepBuffer, ReadBuffer,
         ShowProgress, NextIteration
<1>3. ret' \notin {"EACCES", "ENOSPC"}
  BY <1>1, <1>2 DEF AbortInv, ErrorIsUndone
<1>4. UNCHANGED file \/ pc' \in FinishPlaces
  BY DEF EndOfSpace, UserStop, Return, CheckNoHeader, CheckHeader, Looking,
         ForgetRanges, AdvanceSector, AdvanceInFile, BackToHeader,
         BackToSkipped, EndOfMedia, EndOfMediaDone, KeepBuffer, ReadBuffer,
         ShowProgress, NextIteration, StartFinish, FinishPlaces
<1>5. CASE UNCHANGED file
  BY <1>1, <1>3, <1>5, FileLeftAlone DEF FinishPlaces
<1>6. CASE pc' \in FinishPlaces
  BY <1>3, <1>6 DEF AbortInv, StartIsHeld, ErrorIsUndone
<1> QED
  BY <1>4, <1>5, <1>6

(* Every step keeps AbortInv.                                              *)
LEMMA AbortInvStep == IInv /\ AbortInv /\ [Next]_vars => AbortInv'
<1> SUFFICES ASSUME IInv, AbortInv, [Next]_vars PROVE AbortInv'
  OBVIOUS
<1>1. IInv'
  BY EveryStep DEF GoodStep
<1>2. CASE Finishing
  BY <1>1, <1>2, AbortFinishing
<1>3. CASE \E kind \in Stats : StartFile(kind) \/ CreateFails(kind)
  BY <1>3, AbortNew
<1>4. CASE \/ NoFileInProgress \/ WriteFails \/ SkipIndirectBlock
           \/ \E verdict \in {"CONTINUE", "STOP", "ERROR"},
                 written \in BOOLEAN : WriteBlock(verdict, written)
  BY <1>4, AbortData
<1>5. CASE \/ EndOfSpace \/ UserStop \/ CheckNoHeader \/ CheckHeader
           \/ ForgetRanges \/ AdvanceSector \/ AdvanceInFile \/ BackToHeader
           \/ BackToSkipped \/ EndOfMedia \/ EndOfMediaDone
           \/ KeepBuffer \/ ReadBuffer \/ ShowProgress
  BY <1>5, AbortElsewhere
<1>6. CASE RequestStop \/ UNCHANGED vars
  <2>1. UNCHANGED << pc, ret, space, file, fin, resumeAt >>
    BY <1>6 DEF RequestStop, vars
  <2> QED
    BY <2>1 DEF AbortInv, StartIsHeld, ErrorIsUndone, InProgress, FileBlocks
<1> QED
  BY <1>2, <1>3, <1>4, <1>5, <1>6 DEF Next, Pass

(* AbortInv holds throughout a pass.                                       *)
THEOREM AbortInvariant == Spec => []AbortInv
<1>1. Init => AbortInv
  <2> SUFFICES ASSUME Init PROVE AbortInv
    OBVIOUS
  <2>1. ret = "none" /\ file.stat = NoStat
    BY DEF Init
  <2> QED
    BY <2>1 DEF AbortInv, StartIsHeld, ErrorIsUndone, InProgress
<1> QED
  BY <1>1, AbortInvStep, CarverInvariant, PTL DEF Spec

(* When fopen or fwrite fails the pass returns with no file left open, all *)
(* blocks of the file in the search space again, and a resume offset that  *)
(* is in the search space too.                                             *)
THEOREM AbortIsUndone == Spec => []AbortUndone
<1>1. AbortInv => AbortUndone
  BY NoCellsNoBlocks DEF AbortInv, ErrorIsUndone, AbortUndone, FileBlocks
<1> QED
  BY <1>1, AbortInvariant, PTL

-----------------------------------------------------------------------------
(* What a recovered file claims as its data has been written to it: every   *)
(* block, or as many as the destination can hold.                           *)

(* The inductive invariant                                                 *)

(* The blocks of the file for which something was written.                 *)
Filled(f) == { p[1] : p \in f.written }

(* The data blocks of a file before block b of its fragment i.             *)
Earlier(loc, i, b) ==
    { c \in DataBlocks(loc) :
        \E j \in 1..i : /\ loc[j].data = 1 /\ c \in Extent(loc[j])
                        /\ j = i => c < b }

(* A data block that was not written comes after as many as can be.        *)
HoleIsLate(loc, written) ==
    \A i \in 1..Len(loc) : \A b \in Extent(loc[i]) :
        loc[i].data = 1 /\ b \notin written =>
            /\ "EFBIG" \in WriteErrors
            /\ Cardinality(Earlier(loc, i, b) \cap written) >= LargestFile

(* The file is being settled: its size is no longer what was gathered.     *)
Settling == pc \in {"truncate", "reject", "reject_rest"}

SizeIsData == ~Settling => Cardinality(DataBlocks(file.loc)) = file.size

(* A new file begins with nothing.                                         *)
NewIsEmpty ==
    /\ ~Settling /\ ~InProgress => file.loc = <<>>
    /\ pc = "new" => file.loc = <<>>

HolesAreLate ==
    file.open =>
        /\ ~Settling => HoleIsLate(file.loc, Filled(file))
        /\ pc = "truncate" =>
              /\ HoleIsLate(fin.kept, Filled(file))
              /\ fin.seen < file.size =>
                    HoleIsLate(fin.kept \o file.loc, Filled(file))

KeptIsFilled ==
    \A f \in out :
        f.saved => \/ DataBlocks(f.loc) \subseteq Filled(f)
                   \/ /\ "EFBIG" \in WriteErrors
                      /\ Cardinality(DataBlocks(f.loc) \cap Filled(f)) >= LargestFile

KeptInv == SizeIsData /\ NewIsEmpty /\ HolesAreLate /\ KeptIsFilled

-----------------------------------------------------------------------------
(* Holes                                                                   *)

(* What is filled depends on what was written only.                        *)
LEMMA SameFilled ==
    ASSUME NEW f, NEW g, g.written = f.written
    PROVE  Filled(g) = Filled(f)
  BY DEF Filled

(* The data blocks of a file, block by block.                              *)
LEMMA DataBlock ==
    ASSUME NEW loc \in Seq(Fragment), NEW c
    PROVE  c \in DataBlocks(loc) <=>
              \E j \in 1..Len(loc) : loc[j].data = 1 /\ c \in Extent(loc[j])
<1>1. DOMAIN loc = 1..Len(loc)
  BY FragmentCells
<1> QED
  BY <1>1 DEF DataBlocks

(* They are some of its blocks.                                            *)
LEMMA DataIsFinite ==
    ASSUME NEW loc \in Seq(Fragment), BlocksOf(loc) \subseteq Disk
    PROVE  IsFiniteSet(DataBlocks(loc))
<1>1. DataBlocks(loc) \subseteq BlocksOf(loc)
  BY FragmentCells DEF DataBlocks, BlocksOf
<1>2. IsFiniteSet(Disk)
  <2>1. 0 \in Int /\ Blocks - 1 \in Int
    BY BlocksAssumption
  <2> QED
    BY <2>1, FS_Interval DEF Disk
<1>3. DataBlocks(loc) \in SUBSET Disk
  BY <1>1
<1> QED
  BY <1>2, <1>3, FS_Subset

(* A larger part of a finite set has at least as many elements.            *)
LEMMA MoreIsMore ==
    ASSUME NEW S, IsFiniteSet(S), NEW T, T \subseteq S, NEW n \in Nat,
           Cardinality(T) >= n
    PROVE  Cardinality(S) >= n
<1>1. /\ IsFiniteSet(T) /\ Cardinality(T) <= Cardinality(S)
  BY FS_Subset
<1>2. Cardinality(T) \in Nat /\ Cardinality(S) \in Nat
  BY <1>1, FS_CardinalityType
<1> QED
  BY <1>1, <1>2

(* Only the fragments up to a block matter for what comes before it.       *)
LEMMA EarlierLocal ==
    ASSUME NEW K \in Seq(Fragment), NEW L \in Seq(Fragment),
           NEW i \in 1..Len(K), i \in 1..Len(L),
           \A j \in 1..(i - 1) : K[j] = L[j],
           K[i].start = L[i].start, K[i].data = L[i].data,
           NEW b \in Extent(K[i]), b \in Extent(L[i])
    PROVE  Earlier(K, i, b) = Earlier(L, i, b)
<1>1. /\ Len(K) \in Nat /\ Len(L) \in Nat
      /\ \A j \in 1..Len(K) : K[j].start \in Nat /\ K[j].end \in Nat
      /\ \A j \in 1..Len(L) : L[j].start \in Nat /\ L[j].end \in Nat
  BY FragmentCells
<1>2. \A c : (c \in Extent(K[i]) /\ c < b) <=> (c \in Extent(L[i]) /\ c < b)
  <2> SUFFICES ASSUME NEW c
               PROVE  (c \in Extent(K[i]) /\ c < b)
                         <=> (c \in Extent(L[i]) /\ c < b)
    OBVIOUS
  <2>1. /\ b \in Nat /\ b <= K[i].end /\ b <= L[i].end
        /\ K[i].start \in Nat /\ K[i].end \in Nat /\ L[i].end \in Nat
    BY <1>1 DEF Extent
  <2> QED
    BY <2>1 DEF Extent
<1> DEFINE before(M, c) == \E j \in 1..i : /\ M[j].data = 1 /\ c \in Extent(M[j])
                                           /\ j = i => c < b
<1>3. ASSUME NEW c PROVE before(K, c) <=> before(L, c)
  <2>1. \A j \in 1..i : j \in 1..(i - 1) \/ j = i
    BY <1>1
  <2> QED
    BY <2>1, <1>2
<1>4. \A j \in 1..i : j \in 1..Len(K) /\ j \in 1..Len(L)
  BY <1>1
<1>5. ASSUME NEW c
      PROVE  /\ before(K, c) => c \in DataBlocks(K)
             /\ before(L, c) => c \in DataBlocks(L)
  BY <1>4, DataBlock
<1> QED
  BY <1>3, <1>5 DEF Earlier

(* K is the beginning of L: its last fragment may be cut.                  *)
Begins(K, L) ==
    \A i \in 1..Len(K) :
        /\ i \in 1..Len(L)
        /\ K[i].start = L[i].start /\ K[i].data = L[i].data
        /\ Extent(K[i]) \subseteq Extent(L[i])
        /\ \A j \in 1..(i - 1) : K[j] = L[j]

(* The holes of the beginning of a file are late as well.                  *)
LEMMA HolesOfBeginning ==
    ASSUME NEW K \in Seq(Fragment), NEW L \in Seq(Fragment), Begins(K, L),
           NEW W, HoleIsLate(L, W)
    PROVE  HoleIsLate(K, W)
<1> SUFFICES ASSUME NEW i \in 1..Len(K), NEW b \in Extent(K[i]),
                    K[i].data = 1, b \notin W
             PROVE  /\ "EFBIG" \in WriteErrors
                    /\ Cardinality(Earlier(K, i, b) \cap W) >= LargestFile
  BY DEF HoleIsLate
<1>1. /\ i \in 1..Len(L) /\ K[i].start = L[i].start /\ K[i].data = L[i].data
      /\ b \in Extent(L[i]) /\ \A j \in 1..(i - 1) : K[j] = L[j]
  BY DEF Begins
<1>2. Earlier(K, i, b) = Earlier(L, i, b)
  BY <1>1, EarlierLocal
<1> QED
  BY <1>1, <1>2 DEF HoleIsLate

(* A file whose holes are late is written, or as long as it can be.        *)
LEMMA WrittenEnough ==
    ASSUME NEW loc \in Seq(Fragment), NEW W, HoleIsLate(loc, W),
           IsFiniteSet(DataBlocks(loc))
    PROVE  \/ DataBlocks(loc) \subseteq W
           \/ /\ "EFBIG" \in WriteErrors
              /\ Cardinality(DataBlocks(loc) \cap W) >= LargestFile
<1> SUFFICES ASSUME NEW b \in DataBlocks(loc), b \notin W
             PROVE  /\ "EFBIG" \in WriteErrors
                    /\ Cardinality(DataBlocks(loc) \cap W) >= LargestFile
  OBVIOUS
<1>1. PICK i \in 1..Len(loc) : loc[i].data = 1 /\ b \in Extent(loc[i])
  BY DataBlock
<1>2. /\ "EFBIG" \in WriteErrors
      /\ Cardinality(Earlier(loc, i, b) \cap W) >= LargestFile
  BY <1>1 DEF HoleIsLate
<1>3. Earlier(loc, i, b) \cap W \subseteq DataBlocks(loc) \cap W
  BY DEF Earlier
<1>4. IsFiniteSet(DataBlocks(loc) \cap W)
  BY FS_Subset
<1>5. LargestFile \in Nat
  BY LimitsAssumption
<1> QED
  BY <1>2, <1>3, <1>4, <1>5, MoreIsMore

(* n is loc with one block more, at the end of its last fragment or as a   *)
(* fragment of its own.                                                    *)
Added(loc, block, data, n) ==
    LET k == Len(n)
    IN  /\ k \in 1..k /\ n[k].data = data /\ n[k].end = block
        /\ \A i \in 1..Len(loc) :
              /\ i \in 1..k /\ n[i].start = loc[i].start
              /\ n[i].data = loc[i].data
              /\ i # k => n[i] = loc[i]
        /\ \A i \in 1..k : i # k => i \in 1..Len(loc)
        /\ \A c \in Extent(n[k]) :
              c = block \/ (k \in 1..Len(loc) /\ c \in Extent(loc[k]))
        /\ k \in 1..Len(loc) => Extent(loc[k]) \subseteq Extent(n[k])

(* file_block_add_to_file does that.                                       *)
LEMMA AddedAtTheEnd ==
    ASSUME NEW loc \in Seq(Fragment), NEW block \in Nat, NEW data \in {0, 1}
    PROVE  /\ AddToFile(loc, block, data) \in Seq(Fragment)
           /\ Added(loc, block, data, AddToFile(loc, block, data))
<1> DEFINE m == Len(loc)
           joins == loc[m].end + 1 = block /\ loc[m].data = data
           e == [start |-> block, end |-> block, data |-> data]
           g == [start |-> loc[m].start, end |-> block, data |-> loc[m].data]
           n == AddToFile(loc, block, data)
<1>1. /\ m \in Nat
      /\ \A i \in 1..m : /\ loc[i] \in Fragment
                         /\ loc[i].start \in Nat /\ loc[i].end \in Nat
                         /\ loc[i].data \in {0, 1}
  BY FragmentCells
<1>2. CASE loc # <<>> /\ joins
  <2>1. m \in 1..m
    BY <1>1, <1>2, EmptySeq
  <2>2. g = [loc[m] EXCEPT !.end = block]
    <3>1. loc[m] \in Fragment
      BY <1>1, <2>1
    <3>2. \A x \in Fragment : [x EXCEPT !.end = block]
                              = [start |-> x.start, end |-> block, data |-> x.data]
      BY DEF Fragment
    <3> QED
      BY <3>1, <3>2
  <2>3. n = [loc EXCEPT ![m] = g]
    <3>1. n = [loc EXCEPT ![m].end = block]
      BY <1>2 DEF AddToFile, Last
    <3>2. [loc EXCEPT ![m].end = block] =
             [loc EXCEPT ![m] = [loc[m] EXCEPT !.end = block]]
      OBVIOUS
    <3> QED
      BY <3>1, <3>2, <2>2
  <2>4. /\ g \in Fragment /\ g.start = loc[m].start /\ g.end = block
        /\ g.data = loc[m].data
    BY <1>1, <2>1 DEF Fragment
  <2> HIDE DEF g
  <2>5. /\ n \in Seq(Fragment) /\ Len(n) = m
        /\ \A i \in 1..m : n[i] = IF i = m THEN g ELSE loc[i]
    BY <2>1, <2>3, <2>4, ExceptCells
  <2> HIDE DEF n
  <2>6. /\ \A c \in Extent(g) : c = block \/ c \in Extent(loc[m])
        /\ Extent(loc[m]) \subseteq Extent(g)
    BY <2>1, <2>4, <1>1, <1>2 DEF Extent
  <2>7. Added(loc, block, data, n)
    BY <2>1, <2>4, <2>5, <2>6, <1>1, <1>2 DEF Added
  <2> QED
    BY <2>5, <2>7 DEF n
<1>3. CASE ~(loc # <<>> /\ joins)
  <2>1. n = Append(loc, e)
    BY <1>3 DEF AddToFile, Last
  <2>2. e \in Fragment /\ Extent(e) = {block} /\ e.data = data /\ e.end = block
    BY DEF Fragment, Extent
  <2> HIDE DEF e
  <2>3. /\ n \in Seq(Fragment) /\ Len(n) = m + 1
        /\ \A i \in 1..m : n[i] = loc[i]
        /\ n[m + 1] = e
    BY <2>1, <2>2, AppendedCell
  <2> HIDE DEF n
  <2>4. \A i \in 1..(m + 1) : i # m + 1 => i \in 1..m
    BY <1>1
  <2>5. m + 1 \in Nat /\ m + 1 \in 1..(m + 1) /\ m + 1 \notin 1..m
        /\ \A i \in 1..m : i \in 1..(m + 1)
    BY <1>1
  <2>6. Added(loc, block, data, n)
    BY <2>2, <2>3, <2>4, <2>5 DEF Added
  <2> QED
    BY <2>3, <2>6 DEF n
<1> QED
  BY <1>2, <1>3

(* The data of a file with one more block.                                 *)
LEMMA DataAfterAdd ==
    ASSUME NEW loc \in Seq(Fragment), NEW block \in Nat, NEW data \in {0, 1},
           block \notin BlocksOf(loc), Apart(loc)
    PROVE  DataBlocks(AddToFile(loc, block, data)) =
              IF data = 1 THEN DataBlocks(loc) \cup {block} ELSE DataBlocks(loc)
<1> DEFINE n == AddToFile(loc, block, data)
           k == Len(n)
<1>0. n \in Seq(Fragment) /\ Added(loc, block, data, n)
  BY AddedAtTheEnd
<1>2. BlocksOf(n) = BlocksOf(loc) \cup {block}
  BY AddToFileCorrect
<1> HIDE DEF n
<1>1. /\ n \in Seq(Fragment) /\ k \in 1..k /\ n[k].data = data
      /\ \A i \in 1..Len(loc) :
            /\ i \in 1..k /\ n[i].data = loc[i].data
            /\ i # k => n[i] = loc[i]
      /\ \A c \in Extent(n[k]) :
            c = block \/ (k \in 1..Len(loc) /\ c \in Extent(loc[k]))
      /\ \A i \in 1..k : i # k => i \in 1..Len(loc)
      /\ k \in 1..Len(loc) => Extent(loc[k]) \subseteq Extent(n[k])
  BY <1>0 DEF Added
<1>3. /\ \A i \in 1..Len(loc) : block \notin Extent(loc[i])
      /\ \E i \in 1..k : block \in Extent(n[i])
  BY <1>1, <1>2, BlockInCells
<1>4. block \in Extent(n[k])
  BY <1>1, <1>3
<1>5. ASSUME NEW c
      PROVE  c \in DataBlocks(n) <=>
                c \in DataBlocks(loc) \/ (data = 1 /\ c = block)
  <2>1. /\ c \in DataBlocks(n) <=>
              \E j \in 1..k : n[j].data = 1 /\ c \in Extent(n[j])
        /\ c \in DataBlocks(loc) <=>
              \E j \in 1..Len(loc) : loc[j].data = 1 /\ c \in Extent(loc[j])
    BY <1>1, DataBlock
  <2>2. ASSUME NEW j \in 1..k, n[j].data = 1, c \in Extent(n[j])
        PROVE  c \in DataBlocks(loc) \/ (data = 1 /\ c = block)
    BY <2>1, <2>2, <1>1
  <2>3. ASSUME NEW j \in 1..Len(loc), loc[j].data = 1, c \in Extent(loc[j])
        PROVE  c \in DataBlocks(n)
    BY <2>1, <2>3, <1>1
  <2> QED
    BY <2>1, <2>2, <2>3, <1>1, <1>4
<1> QED
  BY <1>5 DEF n

(* A block more, written unless the file is as long as it can be: its      *)
(* holes are late.                                                         *)
LEMMA HolesAfterAdd ==
    ASSUME NEW loc \in Seq(Fragment), NEW block \in Nat, NEW data \in {0, 1},
           block \notin BlocksOf(loc), Apart(loc),
           NEW W, HoleIsLate(loc, W), NEW V, W \subseteq V,
           IsFiniteSet(DataBlocks(loc)),
           data = 1 /\ block \notin V =>
              "EFBIG" \in WriteErrors /\ Cardinality(DataBlocks(loc)) >= LargestFile
    PROVE  HoleIsLate(AddToFile(loc, block, data), V)
<1> DEFINE n == AddToFile(loc, block, data)
           k == Len(n)
<1>0. LargestFile \in Nat
  BY LimitsAssumption
<1>a. n \in Seq(Fragment) /\ Added(loc, block, data, n)
  BY AddedAtTheEnd
<1>2. DataBlocks(n) \subseteq DataBlocks(loc) \cup {block}
      /\ DataBlocks(loc) \subseteq DataBlocks(n)
  BY DataAfterAdd
<1>3. IsFiniteSet(DataBlocks(n))
  <2>1. IsFiniteSet(DataBlocks(loc) \cup {block})
    BY FS_AddElement
  <2>2. DataBlocks(n) \in SUBSET (DataBlocks(loc) \cup {block})
    BY <1>2
  <2> HIDE DEF n
  <2> QED
    BY <2>1, <2>2, FS_Subset
<1>4. \A i \in 1..Len(loc) : block \notin Extent(loc[i])
  BY BlockInCells
<1> HIDE DEF n
<1>1. /\ n \in Seq(Fragment) /\ k \in Nat
      /\ k \in 1..k /\ n[k].data = data /\ n[k].end = block
      /\ \A i \in 1..Len(loc) :
            /\ i \in 1..k /\ n[i].start = loc[i].start
            /\ n[i].data = loc[i].data
            /\ i # k => n[i] = loc[i]
      /\ \A c \in Extent(n[k]) :
            c = block \/ (k \in 1..Len(loc) /\ c \in Extent(loc[k]))
      /\ \A i \in 1..k : i # k => i \in 1..Len(loc)
      /\ k \in 1..Len(loc) => Extent(loc[k]) \subseteq Extent(n[k])
  BY <1>a, FragmentCells DEF Added
<1> SUFFICES ASSUME NEW i \in 1..k, NEW b \in Extent(n[i]),
                    n[i].data = 1, b \notin V
             PROVE  /\ "EFBIG" \in WriteErrors
                    /\ Cardinality(Earlier(n, i, b) \cap V) >= LargestFile
  BY DEF HoleIsLate, n
<1>5. IsFiniteSet(Earlier(n, i, b) \cap V)
  <2>1. Earlier(n, i, b) \cap V \in SUBSET DataBlocks(n)
    BY DEF Earlier
  <2> QED
    BY <2>1, <1>3, FS_Subset
<1>6. CASE b # block
  <2>1. /\ i \in 1..Len(loc) /\ b \in Extent(loc[i]) /\ loc[i].data = 1
        /\ n[i].start = loc[i].start
    BY <1>1, <1>6
  <2>2. \A j \in 1..(i - 1) : n[j] = loc[j]
    <3>1. \A j \in 1..(i - 1) : j \in 1..Len(loc) /\ j # k
      BY <2>1, <1>1, FragmentCells
    <3> QED
      BY <3>1, <1>1
  <2>3. Earlier(n, i, b) = Earlier(loc, i, b)
    BY <2>1, <2>2, <1>1, EarlierLocal
  <2>4. /\ "EFBIG" \in WriteErrors
        /\ Cardinality(Earlier(loc, i, b) \cap W) >= LargestFile
    BY <2>1 DEF HoleIsLate
  <2>5. Earlier(loc, i, b) \cap W \subseteq Earlier(n, i, b) \cap V
    BY <2>3
  <2> QED
    BY <2>4, <2>5, <1>0, <1>5, MoreIsMore
<1>7. CASE b = block
  <2>1. i = k /\ data = 1
    BY <1>1, <1>4, <1>7
  <2>2. "EFBIG" \in WriteErrors /\ Cardinality(DataBlocks(loc)) >= LargestFile
    BY <2>1, <1>7
  <2>3. Cardinality(DataBlocks(loc) \cap W) >= LargestFile
    <3>1. CASE DataBlocks(loc) \subseteq W
      <4>1. DataBlocks(loc) \cap W = DataBlocks(loc)
        BY <3>1
      <4> QED
        BY <4>1, <2>2
    <3> QED
      BY <3>1, WrittenEnough
  <2>4. DataBlocks(loc) \subseteq Earlier(n, k, block)
    <3> SUFFICES ASSUME NEW c \in DataBlocks(loc)
                 PROVE  c \in Earlier(n, k, block)
      OBVIOUS
    <3>1. PICK j \in 1..Len(loc) : loc[j].data = 1 /\ c \in Extent(loc[j])
      BY DataBlock
    <3>2. j \in 1..k /\ n[j].data = 1 /\ c \in Extent(n[j]) /\ c # block
      BY <3>1, <1>1, <1>4
    <3>3. j = k => c < block
      BY <3>2, <1>1, FragmentCells DEF Extent
    <3> QED
      BY <3>2, <3>3, <1>2 DEF Earlier
  <2>5. DataBlocks(loc) \cap W \subseteq Earlier(n, i, b) \cap V
    BY <2>1, <2>4, <1>7
  <2> QED
    BY <2>2, <2>3, <2>5, <1>0, <1>5, MoreIsMore
<1> QED
  BY <1>6, <1>7

-----------------------------------------------------------------------------
(* The steps                                                               *)

(* A file with no fragment has no data, and no holes.                      *)
LEMMA NoFragments ==
    /\ Cardinality(DataBlocks(<<>>)) = 0
    /\ \A none, W : Len(none) = 0 => HoleIsLate(none, W)
<1>1. DataBlocks(<<>>) = {}
  BY DEF DataBlocks
<1>2. Len(<<>>) = 0 /\ 1..0 = {}
  OBVIOUS
<1> QED
  BY <1>1, <1>2, FS_EmptySet DEF HoleIsLate

(* The pass begins without a file.                                         *)
LEMMA KeptInit == Init => KeptInv
<1> SUFFICES ASSUME Init PROVE KeptInv
  OBVIOUS
<1>1. /\ file.loc = <<>> /\ file.size = 0 /\ ~file.open /\ out = {}
      /\ pc = "top"
  BY DEF Init
<1> QED
  BY <1>1, NoFragments
     DEF KeptInv, SizeIsData, NewIsEmpty, HolesAreLate, KeptIsFilled

(* A step that leaves the file alone.                                      *)
LEMMA FileStays ==
    ASSUME KeptInv, UNCHANGED << file, out >>, ~Settling, ~Settling',
           pc' = "new" => ~InProgress
    PROVE  KeptInv'
<1>1. SizeIsData' /\ KeptIsFilled'
  BY DEF KeptInv, SizeIsData, KeptIsFilled
<1>2. NewIsEmpty'
  BY DEF KeptInv, NewIsEmpty, InProgress
<1>3. pc' # "truncate"
  BY DEF Settling
<1>4. HolesAreLate'
  BY <1>3 DEF KeptInv, HolesAreLate
<1> QED
  BY <1>1, <1>2, <1>4 DEF KeptInv

(* Nothing comes before the fragments of a file that is not settled yet.   *)
LEMMA NoneBefore ==
    ASSUME NEW loc \in Seq(Fragment),
           NEW none \in Seq(Fragment), Len(none) = 0
    PROVE  none \o loc = loc
<1>1. none = <<>>
  BY EmptySeq
<1> QED
  BY <1>1, ConcatEmptySeq

(* file_finish2 begins with file f.                                        *)
LEMMA KeptFinishStarts ==
    ASSUME KeptIsFilled, UNCHANGED out,
           NEW f \in FileShape, f.open => HoleIsLate(f.loc, Filled(f)),
           NEW size, NEW caller, StartFinish(f, size, caller)
    PROVE  KeptInv'
<1>1. /\ file' = [f EXCEPT !.size = size, !.open = f.open /\ size > 0]
      /\ fin' = [caller |-> caller, kept |-> <<>>, seen |-> 0,
                 truncated |-> FALSE]
      /\ pc' = IF size = 0 THEN "reject" ELSE "truncate"
  BY DEF StartFinish, NoCall
<1>2. /\ file'.loc = f.loc /\ file'.written = f.written
      /\ file'.open => f.open
      /\ f.loc \in Seq(Fragment)
  BY <1>1 DEF FileShape
<1>3. Settling' /\ pc' # "new"
  BY <1>1 DEF Settling
<1>4. fin'.kept \in Seq(Fragment) /\ Len(fin'.kept) = 0
  BY <1>1
<1>5. fin'.kept \o file'.loc = f.loc /\ Filled(file') = Filled(f)
  BY <1>2, <1>4, NoneBefore, SameFilled
<1>6. HolesAreLate'
  <2> SUFFICES ASSUME file'.open
               PROVE  /\ HoleIsLate(fin'.kept, Filled(file'))
                      /\ HoleIsLate(fin'.kept \o file'.loc, Filled(file'))
    BY <1>3 DEF HolesAreLate
  <2>1. HoleIsLate(f.loc, Filled(f))
    BY <1>1 DEF FileShape
  <2>2. HoleIsLate(fin'.kept, Filled(file'))
    BY <1>4, NoFragments
  <2> QED
    BY <2>1, <2>2, <1>2, <1>5
<1>7. KeptIsFilled'
  BY DEF KeptIsFilled
<1> QED
  BY <1>3, <1>6, <1>7 DEF KeptInv, SizeIsData, NewIsEmpty

(* The head of the loop.                                                   *)
LEMMA KeptHead ==
    ASSUME IInv, KeptInv, EndOfSpace \/ UserStop \/ CheckNoHeader \/ CheckHeader
    PROVE  KeptInv'
<1>1. /\ pc = "top" /\ ~Settling /\ UNCHANGED out /\ file \in FileShape
  BY DEF EndOfSpace, UserStop, CheckNoHeader, CheckHeader, Looking, Return,
         Settling, IInv, Shape
<1>2. CASE EndOfSpace \/ UserStop \/ CheckNoHeader
  <2>1. UNCHANGED file /\ pc' \in {"returned", "data"}
    BY <1>2 DEF EndOfSpace, UserStop, CheckNoHeader, Return
  <2> QED
    BY <2>1, <1>1, FileStays DEF Settling
<1>3. CASE CheckHeader
  <2>1. CASE ~InProgress /\ pc' = "new" /\ UNCHANGED << file, fin >>
    BY <2>1, <1>1, FileStays DEF Settling
  <2>2. ASSUME NEW size, StartFinish(file, size, "header")
        PROVE  KeptInv'
    BY <2>2, <1>1, KeptFinishStarts DEF KeptInv, HolesAreLate
  <2> QED
    BY <2>1, <2>2, <1>3 DEF CheckHeader
<1> QED
  BY <1>2, <1>3

(* A new file.                                                             *)
LEMMA KeptNew ==
    ASSUME IInv, KeptInv, NEW kind \in Stats,
           StartFile(kind) \/ CreateFails(kind)
    PROVE  KeptInv'
<1>1. /\ pc = "new" /\ UNCHANGED out /\ file \in FileShape
      /\ space.offset \in Nat /\ kind \in Stats \cup {NoStat} /\ ~Settling
      /\ file.loc = <<>>
  BY DEF StartFile, CreateFails, IInv, Shape, Space, KeptInv, NewIsEmpty,
         Settling
<1>2. ASSUME NEW opened \in BOOLEAN
      PROVE  /\ NewFile(kind, opened) \in FileShape
             /\ NewFile(kind, opened).loc = <<>>
             /\ NewFile(kind, opened).stat = kind
             /\ NewFile(kind, opened).size = file.size
             /\ NewFile(kind, opened).open = opened
  BY <1>1 DEF NewFile, FileShape
<1>3. CASE StartFile(kind)
  <2>1. pc' = "data" /\ file' = NewFile(kind, kind \notin Unsaved)
    BY <1>3 DEF StartFile
  <2>2. (kind \notin Unsaved) \in BOOLEAN
    OBVIOUS
  <2>3. file'.loc = <<>> /\ file'.stat = kind /\ file'.size = file.size
    BY <2>1, <2>2, <1>2
  <2>4. SizeIsData' /\ NewIsEmpty' /\ KeptIsFilled'
    BY <2>1, <2>3, <1>1
       DEF KeptInv, SizeIsData, NewIsEmpty, Settling, KeptIsFilled
  <2>5. HolesAreLate'
    BY <2>1, <2>3, NoFragments DEF HolesAreLate
  <2> QED
    BY <2>4, <2>5 DEF KeptInv
<1>4. CASE CreateFails(kind)
  <2>1. StartFinish(NewFile(kind, FALSE), 0, "abort")
    BY <1>4 DEF CreateFails, Abort
  <2>2. NewFile(kind, FALSE) \in FileShape /\ ~NewFile(kind, FALSE).open
    BY <1>2
  <2> HIDE DEF NewFile
  <2> QED
    BY <2>1, <2>2, <1>1, KeptFinishStarts DEF KeptInv
<1> QED
  BY <1>3, <1>4

(* File f, which has the block, goes on or is finished.                    *)
LEMMA KeptVerdict ==
    ASSUME IInv, KeptInv, UNCHANGED out, NEW f \in FileShape,
           f.stat # NoStat, Cardinality(DataBlocks(f.loc)) = f.size,
           f.open => HoleIsLate(f.loc, Filled(f)),
           NEW verdict, Verdict(f, verdict)
    PROVE  KeptInv'
<1>1. CASE pc' = "advance" /\ file' = f
  <2>1. SizeIsData' /\ NewIsEmpty' /\ KeptIsFilled'
    BY <1>1 DEF KeptInv, SizeIsData, NewIsEmpty, KeptIsFilled, InProgress
  <2>2. HolesAreLate'
    BY <1>1 DEF HolesAreLate
  <2> QED
    BY <2>1, <2>2 DEF KeptInv
<1>2. ASSUME NEW size, StartFinish(f, size, "data")
      PROVE  KeptInv'
  BY <1>2, KeptFinishStarts DEF KeptInv
<1>3. \/ pc' = "advance" /\ file' = f
      \/ \E size : StartFinish(f, size, "data")
  BY DEF Verdict
<1> QED
  BY <1>1, <1>2, <1>3

(* What happens at the block while pc = "data".                            *)
LEMMA KeptData ==
    ASSUME IInv, KeptInv,
           \/ NoFileInProgress \/ WriteFails \/ SkipIndirectBlock
           \/ \E verdict \in {"CONTINUE", "STOP", "ERROR"}, written \in BOOLEAN :
                  WriteBlock(verdict, written)
    PROVE  KeptInv'
<1>1. /\ file \in FileShape /\ space.offset \in Nat /\ Apart(file.loc)
      /\ file.loc \in Seq(Fragment) /\ file.size \in Nat
      /\ file.written \in SUBSET (Nat \X Nat) /\ file.open \in BOOLEAN
      /\ bufAt \in Nat
      /\ BlocksOf(file.loc) \subseteq Disk
  BY DEF IInv, Shape, Space, FileShape, Partition, FileBlocks
<1>2. /\ pc = "data" /\ ~Settling /\ UNCHANGED out
  BY DEF NoFileInProgress, WriteFails, SkipIndirectBlock, WriteBlock, TakeBlock,
         Settling
<1>3. CASE NoFileInProgress
  BY <1>2, <1>3, FileStays DEF NoFileInProgress, Settling
<1>4. CASE WriteFails
  <2>1. StartFinish(file, 0, "abort")
    BY <1>4 DEF WriteFails, Abort
  <2>2. file.open => HoleIsLate(file.loc, Filled(file))
    BY <1>2 DEF KeptInv, HolesAreLate
  <2> QED
    BY <2>1, <2>2, <1>1, <1>2, KeptFinishStarts DEF KeptInv
<1> DEFINE o == space.offset
           D == DataBlocks(file.loc)
           added(data) == AddToFile(file.loc, o, data)
<1>5. ASSUME TakeBlock
      PROVE  /\ o \notin BlocksOf(file.loc) /\ file.stat # NoStat
             /\ IsFiniteSet(D) /\ Cardinality(D) = file.size /\ o \notin D
             /\ file.open => HoleIsLate(file.loc, Filled(file))
  <2>1. o \in BlocksOf(space.list) /\ fin.kept = <<>>
    BY <1>5 DEF TakeBlock, IInv, OffsetIsFree, AwaitsBlock, KeptInTruncate
  <2>2. o \notin BlocksOf(file.loc)
    BY <2>1 DEF IInv, Partition, FileBlocks
  <2>3. o \notin D
    BY <2>2, <1>1, FragmentCells DEF DataBlocks, BlocksOf
  <2> QED
    BY <2>2, <2>3, <1>1, <1>2, <1>5, DataIsFinite
       DEF TakeBlock, InProgress, KeptInv, SizeIsData, HolesAreLate
<1>6. ASSUME TakeBlock, NEW data \in {0, 1}
      PROVE  /\ added(data) \in Seq(Fragment)
             /\ DataBlocks(added(data)) = IF data = 1 THEN D \cup {o} ELSE D
             /\ Cardinality(DataBlocks(added(data))) = file.size + data
  <2>1. /\ added(data) \in Seq(Fragment)
        /\ DataBlocks(added(data)) = IF data = 1 THEN D \cup {o} ELSE D
    BY <1>1, <1>5, <1>6, AddToFileCorrect, DataAfterAdd
  <2> HIDE DEF D
  <2> HIDE DEF o
  <2>2. Cardinality(D \cup {o}) = Cardinality(D) + 1
    BY <1>5, <1>6, FS_AddElement
  <2>3. Cardinality(D \cup {o}) = file.size + 1 /\ file.size + 0 = file.size
    BY <2>2, <1>1, <1>5, <1>6
  <2> QED
    BY <2>1, <2>3, <1>5, <1>6
<1> HIDE DEF added
<1>7. CASE SkipIndirectBlock
  <2> DEFINE f == [file EXCEPT !.loc = added(0)]
  <2>1. TakeBlock /\ Verdict(f, "CONTINUE")
    BY <1>7 DEF SkipIndirectBlock, added
  <2>2. /\ f \in FileShape /\ f.stat = file.stat /\ f.loc = added(0)
        /\ f.size = file.size /\ f.open = file.open
        /\ f.written = file.written
    BY <2>1, <1>1, <1>6 DEF FileShape
  <2> HIDE DEF f
  <2>2a. Filled(f) = Filled(file)
    BY <2>2, SameFilled
  <2>3. Cardinality(DataBlocks(f.loc)) = f.size
    BY <2>1, <2>2, <1>1, <1>6
  <2>4. f.open => HoleIsLate(f.loc, Filled(f))
    <3> SUFFICES ASSUME f.open
                 PROVE  HoleIsLate(AddToFile(file.loc, o, 0), Filled(file))
      BY <2>2, <2>2a DEF added
    <3>1. HoleIsLate(file.loc, Filled(file))
      BY <2>1, <2>2, <1>5
    <3> HIDE DEF o
    <3> QED
      BY <3>1, <2>1, <1>1, <1>5, HolesAfterAdd DEF o
  <2> QED
    BY <2>1, <2>2, <2>3, <2>4, <1>2, <1>5, KeptVerdict
<1>8. ASSUME NEW verdict \in {"CONTINUE", "STOP", "ERROR"},
             NEW written \in BOOLEAN, WriteBlock(verdict, written)
      PROVE  KeptInv'
  <2> DEFINE w == IF file.open /\ written
                  THEN file.written \cup {<< o, bufAt >>} ELSE file.written
             f == [file EXCEPT !.loc = added(1), !.size = @ + 1, !.written = w]
  <2>1. TakeBlock /\ Verdict(f, verdict) /\ written = ~TooBig
    BY <1>8 DEF WriteBlock, added
  <2>2. /\ added(1) \in Seq(Fragment) /\ w \in SUBSET (Nat \X Nat)
        /\ file.size + 1 \in Nat
    BY <2>1, <1>1, <1>6
  <2>3. /\ file.open /\ ~written =>
               "EFBIG" \in WriteErrors /\ Cardinality(D) >= LargestFile
        /\ IF file.open /\ written THEN w = file.written \cup {<< o, bufAt >>}
                                   ELSE w = file.written
    BY <2>1, <1>5 DEF TooBig
  <2> HIDE DEF w
  <2>4. /\ f \in FileShape /\ f.stat = file.stat /\ f.loc = added(1)
        /\ f.size = file.size + 1 /\ f.open = file.open /\ f.written = w
    BY <2>2, <1>1 DEF FileShape
  <2> HIDE DEF f
  <2>4a. IF file.open /\ written THEN Filled(f) = Filled(file) \cup {o}
                                 ELSE Filled(f) = Filled(file)
    <3>1. CASE file.open /\ written
      <4>1. f.written = file.written \cup {<< o, bufAt >>}
        BY <3>1, <2>3, <2>4
      <4>2. << o, bufAt >>[1] = o
        OBVIOUS
      <4> HIDE DEF o
      <4>3. Filled(f) = Filled(file) \cup {o}
        BY <4>1, <4>2 DEF Filled
      <4> QED
        BY <3>1, <4>3
    <3>2. CASE ~(file.open /\ written)
      <4>1. f.written = file.written
        BY <3>2, <2>3, <2>4
      <4> QED
        BY <3>2, <4>1, SameFilled
    <3> QED
      BY <3>1, <3>2
  <2>5. Cardinality(DataBlocks(f.loc)) = f.size
    BY <2>1, <2>4, <1>6
  <2>6. f.open => HoleIsLate(f.loc, Filled(f))
    <3> SUFFICES ASSUME f.open
                 PROVE  HoleIsLate(AddToFile(file.loc, o, 1), Filled(f))
      BY <2>4 DEF added
    <3>1. HoleIsLate(file.loc, Filled(file)) /\ file.open
      BY <2>1, <2>4, <1>5
    <3>2. /\ o \notin Filled(f) =>
                "EFBIG" \in WriteErrors /\ Cardinality(D) >= LargestFile
          /\ Filled(file) \subseteq Filled(f)
      BY <2>3, <2>4a, <3>1
    <3> HIDE DEF o
    <3> QED
      BY <3>1, <3>2, <2>1, <2>2, <1>1, <1>5, HolesAfterAdd DEF o
  <2> QED
    BY <2>1, <2>4, <2>5, <2>6, <1>2, <1>5, KeptVerdict
<1> QED
  BY <1>3, <1>4, <1>7, <1>8

(* The fragments of a rejected file go back.                               *)
LEMMA KeptReject ==
    ASSUME KeptInv, RejectFirst \/ RejectRest
    PROVE  KeptInv'
<1>1. pc' = "reject_rest" /\ UNCHANGED out
  BY DEF RejectFirst, RejectRest
<1> QED
  BY <1>1 DEF KeptInv, SizeIsData, NewIsEmpty, HolesAreLate, KeptIsFilled,
              Settling

(* file_finish2 returns: what the file has kept is what is saved.          *)
LEMMA KeptReturn ==
    ASSUME IInv, KeptInv, Rejected \/ Accepted
    PROVE  KeptInv'
<1>1. PICK r : FinishReturns(r)
  BY DEF Rejected, Accepted
<1>2. /\ file \in FileShape /\ fin \in FinShape /\ file' = ResetFile(file)
      /\ fin.kept \in Seq(Fragment) /\ BlocksOf(fin.kept) \subseteq Disk
  BY <1>1 DEF IInv, Shape, FinShape, FinishReturns, Partition, FileBlocks
<1>3. /\ file'.loc = <<>> /\ file'.size = 0 /\ ~file'.open
  BY <1>2 DEF ResetFile, FileShape
<1>4. SizeIsData' /\ NewIsEmpty' /\ HolesAreLate'
  BY <1>3, NoFragments DEF SizeIsData, NewIsEmpty, HolesAreLate
<1>5. KeptIsFilled'
  <2>1. CASE Rejected
    BY <2>1 DEF Rejected, KeptInv, KeptIsFilled
  <2>2. CASE Accepted
    <3> DEFINE g == [start |-> file.start, saved |-> file.open,
                     loc |-> fin.kept, written |-> file.written]
    <3>1. out' = out \cup {g} /\ pc = "truncate"
      BY <2>2 DEF Accepted
    <3>2. /\ g.saved = file.open /\ g.loc = fin.kept
          /\ g.written = file.written
      OBVIOUS
    <3> HIDE DEF g
    <3>2a. Filled(g) = Filled(file)
      BY <3>2, SameFilled
    <3>3. g.saved => \/ DataBlocks(g.loc) \subseteq Filled(g)
                     \/ /\ "EFBIG" \in WriteErrors
                        /\ Cardinality(DataBlocks(g.loc) \cap Filled(g))
                               >= LargestFile
      <4> SUFFICES ASSUME file.open
                   PROVE  \/ DataBlocks(fin.kept) \subseteq Filled(file)
                          \/ /\ "EFBIG" \in WriteErrors
                             /\ Cardinality(DataBlocks(fin.kept)
                                              \cap Filled(file)) >= LargestFile
        BY <3>2, <3>2a
      <4>1. HoleIsLate(fin.kept, Filled(file))
        BY <3>1 DEF KeptInv, HolesAreLate
      <4>2. IsFiniteSet(DataBlocks(fin.kept))
        BY <1>2, DataIsFinite
      <4> QED
        BY <4>1, <4>2, <1>2, WrittenEnough
    <3> QED
      BY <3>1, <3>3 DEF KeptInv, KeptIsFilled
  <2> QED
    BY <2>1, <2>2
<1> QED
  BY <1>4, <1>5 DEF KeptInv

(* The first fragment of the file goes over to what it has kept, as a      *)
(* first part k of it.                                                     *)
LEMMA FragmentKept ==
    ASSUME NEW kept \in Seq(Fragment), NEW loc \in Seq(Fragment), loc # <<>>,
           NEW k \in Fragment, k.start = loc[1].start, k.data = loc[1].data,
           Extent(k) \subseteq Extent(loc[1])
    PROVE  /\ Append(kept, k) \in Seq(Fragment)
           /\ kept \o loc \in Seq(Fragment)
           /\ Append(kept, k) \o Tail(loc) \in Seq(Fragment)
           /\ Begins(Append(kept, k), kept \o loc)
           /\ k = loc[1] => Begins(Append(kept, k) \o Tail(loc), kept \o loc)
<1> DEFINE m == Len(kept)
           n == Append(kept, k)
           L == kept \o loc
           t == Tail(loc)
           r == n \o t
<1>1. /\ m \in Nat /\ Len(loc) \in Nat /\ Len(loc) # 0
      /\ t \in Seq(Fragment) /\ Len(t) = Len(loc) - 1
      /\ \A i \in 1..Len(t) : t[i] = loc[i + 1]
  BY FragmentCells, HeadTailProperties, EmptySeq
<1>2. /\ L \in Seq(Fragment) /\ Len(L) = m + Len(loc)
      /\ \A i \in 1..(m + Len(loc)) : L[i] = IF i <= m THEN kept[i] ELSE loc[i - m]
  BY ConcatProperties
<1>3. /\ n \in Seq(Fragment) /\ Len(n) = m + 1
      /\ \A i \in 1..m : n[i] = kept[i]
      /\ n[m + 1] = k
  BY AppendedCell
<1> HIDE DEF n, t
<1>4. /\ r \in Seq(Fragment) /\ Len(r) = (m + 1) + Len(t)
      /\ \A i \in 1..((m + 1) + Len(t)) :
            r[i] = IF i <= m + 1 THEN n[i] ELSE t[i - (m + 1)]
  <2>1. /\ r \in Seq(Fragment) /\ Len(r) = Len(n) + Len(t)
        /\ \A i \in 1..(Len(n) + Len(t)) :
              r[i] = IF i <= Len(n) THEN n[i] ELSE t[i - Len(n)]
    BY <1>1, <1>3, ConcatProperties
  <2> HIDE DEF r, m
  <2> QED
    BY <2>1, <1>3
<1> HIDE DEF L, m, r
<1>5. /\ m + 1 \in 1..Len(L) /\ L[m + 1] = loc[1]
      /\ \A i \in 1..m : i \in 1..Len(L) /\ L[i] = kept[i]
  <2>1. (m + 1) - m = 1 /\ ~(m + 1 <= m) /\ m + 1 \in 1..(m + Len(loc))
    BY <1>1
  <2>2. \A i \in 1..m : i \in 1..(m + Len(loc)) /\ i <= m
    BY <1>1
  <2> QED
    BY <2>1, <2>2, <1>2
<1>6. Begins(n, L)
  <2> SUFFICES ASSUME NEW i \in 1..(m + 1)
               PROVE  /\ i \in 1..Len(L)
                      /\ n[i].start = L[i].start /\ n[i].data = L[i].data
                      /\ Extent(n[i]) \subseteq Extent(L[i])
                      /\ \A j \in 1..(i - 1) : n[j] = L[j]
    BY <1>3 DEF Begins
  <2>1. \A j \in 1..(i - 1) : j \in 1..m
    BY <1>1
  <2>2. i \in 1..m \/ i = m + 1
    BY <1>1
  <2> QED
    BY <2>1, <2>2, <1>3, <1>5
<1>7. ASSUME k = loc[1] PROVE Begins(r, L)
  <2>1. ASSUME NEW i \in 1..Len(r) PROVE i \in 1..Len(L) /\ r[i] = L[i]
    <3>1. i \in 1..m \/ i = m + 1 \/ i \in (m + 2)..(m + Len(loc))
      BY <1>1, <1>4
    <3>2. CASE i \in 1..m
      <4>1. i <= m + 1 /\ i \in 1..((m + 1) + Len(t))
        BY <3>2, <1>1
      <4> QED
        BY <4>1, <3>2, <1>3, <1>4, <1>5
    <3>3. CASE i = m + 1
      <4>1. i <= m + 1 /\ i \in 1..((m + 1) + Len(t))
        BY <3>3, <1>1
      <4> QED
        BY <4>1, <3>3, <1>3, <1>4, <1>5, <1>7
    <3>4. CASE i \in (m + 2)..(m + Len(loc))
      <4>1. /\ ~(i <= m + 1) /\ i \in 1..((m + 1) + Len(t)) /\ ~(i <= m)
            /\ i - (m + 1) \in 1..Len(t) /\ (i - (m + 1)) + 1 = i - m
            /\ i \in 1..(m + Len(loc))
        BY <3>4, <1>1
      <4>2. r[i] = t[i - (m + 1)] /\ L[i] = loc[i - m]
        BY <4>1, <1>2, <1>4
      <4> QED
        BY <4>1, <4>2, <1>1, <1>2
    <3> QED
      BY <3>1, <3>2, <3>3, <3>4
  <2>2. \A i \in 1..Len(r) : \A j \in 1..(i - 1) : j \in 1..Len(r)
    BY <1>1, <1>4
  <2> QED
    BY <2>1, <2>2 DEF Begins
<1> QED
  BY <1>2, <1>3, <1>4, <1>6, <1>7 DEF n, t, L, r

(* file_block_truncate on one fragment: what is kept is a beginning of what *)
(* the file had, and as long as the file is not complete nothing is cut.   *)
LEMMA KeptTruncate ==
    ASSUME IInv, KeptInv, TruncateFragment
    PROVE  KeptInv'
<1> DEFINE e == file.loc[1]
           W == Filled(file)
           kept == fin.kept
<1>1. /\ file.loc # <<>> /\ file' = [file EXCEPT !.loc = Tail(@)]
      /\ pc = "truncate" /\ pc' = "truncate" /\ UNCHANGED out
  BY DEF TruncateFragment
<1>2. /\ file \in FileShape /\ fin \in FinShape /\ file.loc \in Seq(Fragment)
      /\ kept \in Seq(Fragment) /\ fin.seen \in Nat /\ file.size \in Nat
      /\ fin.truncated \in BOOLEAN
  BY DEF IInv, Shape, FileShape, FinShape
<1>3. /\ file'.loc = Tail(file.loc) /\ file'.size = file.size
      /\ file'.open = file.open /\ file'.written = file.written
  BY <1>1, <1>2 DEF FileShape
<1>3a. Filled(file') = W
  BY <1>3, SameFilled
<1>4. /\ e \in Fragment /\ e.start <= e.end /\ e.start \in Nat /\ e.end \in Nat
  BY <1>1, NextFragment
<1>5. SizeIsData' /\ NewIsEmpty' /\ KeptIsFilled'
  BY <1>1 DEF KeptInv, SizeIsData, NewIsEmpty, KeptIsFilled, Settling
<1> SUFFICES ASSUME file.open
             PROVE  /\ HoleIsLate(fin'.kept, W)
                    /\ fin'.seen < file.size =>
                          HoleIsLate(fin'.kept \o Tail(file.loc), W)
  BY <1>1, <1>3, <1>3a, <1>5 DEF KeptInv, HolesAreLate, Settling
<1> HIDE DEF W
<1>6. /\ HoleIsLate(kept, W)
      /\ fin.seen < file.size => HoleIsLate(kept \o file.loc, W)
  BY <1>1 DEF KeptInv, HolesAreLate, W
<1>7. CASE fin.seen >= file.size
  <2>1. fin' = [fin EXCEPT !.truncated = TRUE]
    BY <1>7 DEF TruncateFragment
  <2>2. fin'.kept = kept /\ fin'.seen = fin.seen
    BY <2>1, <1>2 DEF FinShape
  <2>3. ~(fin'.seen < file.size)
    BY <2>2, <1>2, <1>7
  <2> QED
    BY <2>2, <2>3, <1>6
<1>8. CASE ~(fin.seen >= file.size)
  <2> DEFINE kb == KeptBlocks(e)
             cut == e.start + kb
             k == [e EXCEPT !.end = cut - 1]
             seen == fin.seen + IF e.data = 0 THEN 0 ELSE kb
  <2>1. fin' = [fin EXCEPT !.kept = Append(fin.kept, k), !.seen = seen]
    BY <1>8 DEF TruncateFragment
  <2>2. kb \in 1 .. Size(e) /\ Size(e) = e.end - e.start + 1
    BY <1>2, <1>4, <1>8, KeptBlocksBounded DEF Size
  <2>3. seen < file.size => kb = Size(e)
    <3>1. kb = IF e.data = 0 \/ fin.seen + Size(e) <= file.size THEN Size(e)
               ELSE file.size - fin.seen
      BY DEF KeptBlocks
    <3>2. CASE e.data = 0 \/ fin.seen + Size(e) <= file.size
      BY <3>1, <3>2
    <3>3. CASE ~(e.data = 0 \/ fin.seen + Size(e) <= file.size)
      <4>1. seen = fin.seen + kb /\ kb = file.size - fin.seen
        BY <3>1, <3>3
      <4> HIDE DEF seen, kb
      <4> QED
        BY <4>1, <1>2
    <3> QED
      BY <3>2, <3>3
  <2> HIDE DEF kb
  <2>4. /\ cut - 1 \in Nat /\ cut - 1 <= e.end
        /\ kb = Size(e) => cut - 1 = e.end
    BY <2>2, <1>4
  <2>5. /\ k \in Fragment /\ k.start = e.start /\ k.end = cut - 1
        /\ k.data = e.data
        /\ cut - 1 = e.end => k = e
    BY <2>4, <1>4 DEF Fragment
  <2> HIDE DEF k, cut
  <2>6. Extent(k) \subseteq Extent(e)
    BY <2>4, <2>5, <1>4 DEF Extent
  <2>7. /\ Append(kept, k) \in Seq(Fragment)
        /\ kept \o file.loc \in Seq(Fragment)
        /\ Append(kept, k) \o Tail(file.loc) \in Seq(Fragment)
        /\ Begins(Append(kept, k), kept \o file.loc)
        /\ k = e => Begins(Append(kept, k) \o Tail(file.loc), kept \o file.loc)
    BY <2>5, <2>6, <1>1, <1>2, FragmentKept
  <2>8. HoleIsLate(kept \o file.loc, W)
    BY <1>2, <1>6, <1>8
  <2>9. fin'.kept = Append(kept, k) /\ fin'.seen = seen
    <3> HIDE DEF seen
    <3> QED
      BY <2>1, <1>2 DEF FinShape
  <2>10. HoleIsLate(Append(kept, k), W)
    BY <2>7, <2>8, HolesOfBeginning
  <2>11. seen < file.size => HoleIsLate(Append(kept, k) \o Tail(file.loc), W)
    BY <2>3, <2>4, <2>5, <2>7, <2>8, HolesOfBeginning
  <2> QED
    BY <2>9, <2>10, <2>11
<1> QED
  BY <1>7, <1>8

(* The end of the media, and the steps that are not about the file.        *)
LEMMA KeptOther ==
    ASSUME IInv, KeptInv,
           \/ ForgetRanges \/ AdvanceSector \/ AdvanceInFile \/ BackToHeader
           \/ BackToSkipped \/ EndOfMedia \/ EndOfMediaDone
           \/ KeepBuffer \/ ReadBuffer \/ ShowProgress \/ RequestStop
           \/ UNCHANGED vars
    PROVE  KeptInv'
<1>1. CASE RequestStop \/ UNCHANGED vars
  BY <1>1 DEF RequestStop, vars, KeptInv, SizeIsData, NewIsEmpty, HolesAreLate,
              KeptIsFilled, Settling, InProgress
<1>2. CASE ForgetRanges
  BY <1>2, FileStays DEF ForgetRanges, Settling
<1>3. CASE AdvanceSector \/ AdvanceInFile \/ BackToHeader \/ BackToSkipped
  BY <1>3, FileStays DEF AdvanceSector, AdvanceInFile, BackToHeader,
                         BackToSkipped, AfterAdvance, Settling
<1>4. CASE KeepBuffer \/ ReadBuffer \/ ShowProgress
  BY <1>4, FileStays DEF KeepBuffer, ReadBuffer, ShowProgress, NextIteration,
                         Settling
<1>5. CASE EndOfMediaDone
  BY <1>5, FileStays DEF EndOfMediaDone, Settling
<1>6. CASE EndOfMedia
  <2>1. pc = "media" /\ UNCHANGED out /\ file \in FileShape
    BY <1>6 DEF EndOfMedia, IInv, Shape
  <2>2. CASE pc' = "media_done" /\ UNCHANGED << file, fin >>
    BY <2>1, <2>2, FileStays DEF Settling
  <2>3. ASSUME NEW size, StartFinish(file, size, "media")
        PROVE  KeptInv'
    <3>1. file.open => HoleIsLate(file.loc, Filled(file))
      BY <2>1 DEF KeptInv, HolesAreLate, Settling
    <3> QED
      BY <3>1, <2>1, <2>3, KeptFinishStarts DEF KeptInv
  <2> QED
    BY <2>2, <2>3, <1>6 DEF EndOfMedia
<1> QED
  BY <1>1, <1>2, <1>3, <1>4, <1>5, <1>6

(* Every step keeps the invariant.                                         *)
LEMMA KeptStep == IInv /\ KeptInv /\ [Next]_vars => KeptInv'
<1> SUFFICES ASSUME IInv, KeptInv, [Next]_vars PROVE KeptInv'
  OBVIOUS
<1>1. CASE Finishing
  BY <1>1, KeptReject, KeptReturn, KeptTruncate DEF Finishing
<1>2. CASE EndOfSpace \/ UserStop \/ CheckNoHeader \/ CheckHeader
  BY <1>2, KeptHead
<1>3. CASE \E kind \in Stats : StartFile(kind) \/ CreateFails(kind)
  BY <1>3, KeptNew
<1>4. CASE \/ NoFileInProgress \/ WriteFails \/ SkipIndirectBlock
           \/ \E verdict \in {"CONTINUE", "STOP", "ERROR"},
                 written \in BOOLEAN : WriteBlock(verdict, written)
  BY <1>4, KeptData
<1>5. CASE \/ ForgetRanges \/ AdvanceSector \/ AdvanceInFile \/ BackToHeader
           \/ BackToSkipped \/ EndOfMedia \/ EndOfMediaDone
           \/ KeepBuffer \/ ReadBuffer \/ ShowProgress \/ RequestStop
           \/ UNCHANGED vars
  BY <1>5, KeptOther
<1> QED
  BY <1>1, <1>2, <1>3, <1>4, <1>5 DEF Next, Pass

-----------------------------------------------------------------------------
(* The theorems                                                            *)

(* The strengthening holds of every pass.                                  *)
THEOREM KeptInvariant == Spec => []KeptInv
<1>1. IInv /\ KeptInv /\ [Next]_vars => KeptInv'
  BY KeptStep
<1> QED
  BY <1>1, KeptInit, CarverInvariant, PTL DEF Spec

-----------------------------------------------------------------------------
(* However a pass jumps back, to rejected headers or to ignored ones, it    *)
(* passes over no free block whose bytes it has not looked at.              *)

(* Every free block before block p has been looked at.                     *)
Seen(list, seen, p) == \A b \in BlocksOf(list) : b < p => b \in seen
SeenBefore(p) == Seen(space.list, visited, p)

(* The buffer starts at the position when the loop body starts, and while  *)
(* it runs old_offset remembers where that was.                            *)
BufferFollows ==
    /\ pc = "top" => bufAt = space.offset
    /\ pc \notin {"top", "returned"} => bufAt = oldOffset

(* The block looked at is still the one at the position when it goes to a  *)
(* file, or when the walk moves past it.                                   *)
LooksHere ==
    /\ (AwaitsBlock \/ (pc = "advance" /\ res = "SCAN")) =>
          OnRange(space) /\ space.offset \in visited
    /\ (AwaitsBlock /\ ~IgnoreHeaders) => bufAt = space.offset

(* Once the block has gone to a file that file ends, or its data_check     *)
(* says what comes next: the walk does not.                                *)
BlockWasTaken ==
    \/ pc \in {"truncate", "reject", "reject_rest"} /\ fin.caller = "data"
    \/ pc = "forget"

TakenIsChecked == BlockWasTaken => res # "SCAN"

(* The position has only seen blocks before it.  get_prev_location_smart   *)
(* can leave it beside the current range, but not between the loop's head  *)
(* and the next jump, and only with a range whose start has been seen.     *)
BesidePlaces == {"refill", "media_forget", "top", "returned"}

BesideRange ==
    /\ IgnoreHeaders
    /\ pc \in BesidePlaces
    /\ SeenBefore(space.list[space.cur].start)
    /\ space.list[space.cur].start \in visited

SeenBehind ==
    /\ space.cur = ListHead => BlocksOf(space.list) \subseteq visited
    /\ space.cur # ListHead =>
          IF OnRange(space) THEN SeenBefore(space.offset) ELSE BesideRange

(* What the jumps back are measured by has been passed: the start of the   *)
(* last file and the header ignored in it.  Nothing the file holds is new. *)
SeenInFile ==
    /\ SeenBefore(file.start) /\ SeenBefore(skipped)
    /\ FileBlocks \subseteq visited
    /\ ~IgnoreHeaders => skipped = 0

(* A pass that ran to its end returns, and has looked everywhere.          *)
EndIsSeen ==
    ret = "OK" => pc = "returned" /\ BlocksOf(space.list) \subseteq visited

VisitInv ==
    /\ BufferFollows /\ LooksHere /\ TakenIsChecked /\ SeenBehind
    /\ SeenInFile /\ EndIsSeen

-----------------------------------------------------------------------------
(* Positions                                                               *)

(* The walk has passed block b.                                            *)
Passed(s, b) == s.cur = ListHead \/ b < s.offset

(* Moving on by one block passes that block and no other free one.         *)
LEMMA NextPassed ==
    ASSUME NEW s, Space(s), OnRange(s), NEW n, Space(n), NextPlace(s, n),
           BlocksOf(n.list) \subseteq BlocksOf(s.list)
    PROVE  /\ n.cur # ListHead => OnRange(n)
           /\ \A b \in BlocksOf(n.list) : Passed(n, b) => b <= s.offset
<1> DEFINE l == s.list
           r == l[s.cur]
<1>1. /\ l \in Lists /\ Ordered(l) /\ Len(l) \in Nat /\ DOMAIN l = 1..Len(l)
      /\ s.cur \in 1..Len(l) /\ s.offset \in Nat
      /\ \A j \in 1..Len(l) : l[j].start \in Nat /\ l[j].end \in Nat
  BY CellsOfLists DEF Space, OnRange, ListHead
<1>2. /\ \A j \in 1..Len(l) : l[j].start <= l[j].end
      /\ \A i, j \in 1..Len(l) : i < j => l[i].end < l[j].start
  BY <1>1 DEF Ordered
<1>3. ASSUME NEW b \in BlocksOf(l), s.offset = r.end, s.offset < b
      PROVE  s.cur < Len(l) /\ l[s.cur + 1].start <= b
  <2>1. PICK j \in 1..Len(l) : b \in l[j].start .. l[j].end
    BY <1>1, BlockInList DEF Lists
  <2> HIDE DEF l
  <2>0. /\ b \in Int /\ l[j].start <= b /\ b <= l[j].end
        /\ j \in Nat /\ s.cur \in Nat
    BY <2>1, <1>1
  <2>1a. j # s.cur
    BY <2>0, <1>1, <1>3
  <2>1b. ~(j < s.cur)
    <3> SUFFICES ASSUME j < s.cur PROVE FALSE
      OBVIOUS
    <3>1. l[j].end < r.start /\ r.start <= r.end
      BY <1>1, <1>2
    <3> QED
      BY <3>1, <2>0, <1>1, <1>3
  <2>2. ~(j < s.cur) /\ j # s.cur
    BY <2>1a, <2>1b
  <2>3. s.cur < Len(l) /\ s.cur + 1 \in 1..Len(l)
    BY <2>1, <2>2, <1>1
  <2>4. s.cur + 1 = j \/ s.cur + 1 < j
    BY <2>0, <2>2
  <2>5. l[s.cur + 1].start <= l[j].start
    <3>1. CASE s.cur + 1 = j
      BY <3>1, <1>1
    <3>2. CASE s.cur + 1 < j
      <4>1. /\ l[s.cur + 1].end < l[j].start
            /\ l[s.cur + 1].start <= l[s.cur + 1].end
        BY <3>2, <2>3, <1>2
      <4> QED
        BY <4>1, <2>3, <1>1
    <3> QED
      BY <3>1, <3>2, <2>4
  <2> QED
    BY <2>0, <2>3, <2>5, <1>1
<1>4. \A b \in BlocksOf(l) : b \in Nat
  <2> SUFFICES ASSUME NEW b \in BlocksOf(l) PROVE b \in Nat
    OBVIOUS
  <2>1. PICK j \in 1..Len(l) : b \in l[j].start .. l[j].end
    BY <1>1, BlockInList DEF Lists
  <2> QED
    BY <2>1, <1>1
<1>5. CASE n.cur # ListHead /\ n.offset = s.offset + 1
           /\ n.offset \in Extent(n.list[n.cur])
  BY <1>1, <1>4, <1>5 DEF OnRange, Passed
<1>6. CASE s.offset = r.end /\ s.cur = Len(l) /\ n.cur = ListHead
  BY <1>1, <1>3, <1>4, <1>6
<1>7. CASE /\ s.offset = r.end /\ s.cur < Len(l)
           /\ n.cur # ListHead /\ n.list[n.cur] = l[s.cur + 1]
           /\ n.offset = n.list[n.cur].start
  <2>1. s.cur + 1 \in 1..Len(l)
    BY <1>1, <1>7
  <2>2. OnRange(n)
    BY <2>1, <1>1, <1>2, <1>7 DEF OnRange, Extent
  <2>3. ASSUME NEW b \in BlocksOf(n.list), Passed(n, b) PROVE b <= s.offset
    <3>1. b < l[s.cur + 1].start /\ b \in BlocksOf(l) /\ b \in Nat
      BY <2>3, <1>4, <1>7 DEF Passed
    <3> QED
      BY <3>1, <2>1, <1>1, <1>3, <1>7
  <2> QED
    BY <2>2, <2>3
<1> QED
  BY <1>5, <1>6, <1>7 DEF NextPlace

(* get_next_sector moves on by one block.                                  *)
LEMMA NextSectorPlace ==
    ASSUME NEW s, Space(s), OnRange(s)
    PROVE  NextPlace(s, GetNextSector(s))
<1> DEFINE r == s.list[s.cur]
<1>1. /\ s \in [list : Lists, cur : Nat, offset : Nat]
      /\ s.cur \in 1..Len(s.list) /\ Len(s.list) \in Nat
      /\ r.start \in Nat /\ r.end \in Nat
      /\ r.start <= s.offset /\ s.offset <= r.end
  BY CellsOfLists DEF Space, OnRange, ListHead, Extent
<1>2. CASE s.offset + 1 <= r.end
  <2> DEFINE n == [s EXCEPT !.offset = @ + 1]
  <2>1. n.list = s.list /\ n.cur = s.cur /\ n.offset = s.offset + 1
    BY <1>1
  <2>2. GetNextSector(s) = n
    BY <1>1, <1>2 DEF GetNextSector, ListHead
  <2> HIDE DEF n
  <2>3. n.offset \in Extent(n.list[n.cur]) /\ n.cur # ListHead
    BY <2>1, <1>1, <1>2 DEF Extent, ListHead
  <2> QED
    BY <2>1, <2>2, <2>3 DEF NextPlace
<1>3. CASE ~(s.offset + 1 <= r.end)
  <2> DEFINE c == NextEntry(s.list, s.cur)
  <2>1. s.offset = r.end
    BY <1>1, <1>3
  <2>2. GetNextSector(s) = Placed(s, c, StartOf(s.list, c))
    BY <1>1, <1>3 DEF GetNextSector, MoveTo, Placed, ListHead
  <2>3. IF s.cur = Len(s.list) THEN c = ListHead
        ELSE c = s.cur + 1 /\ s.cur < Len(s.list) /\ c # ListHead
    BY <1>1 DEF NextEntry, ListHead
  <2> HIDE DEF c
  <2>4. c \in 0..Len(s.list)
    BY <2>3, <1>1 DEF ListHead
  <2>5. StartOf(s.list, c) \in Nat
    BY <2>4, CellsOfLists DEF StartOf, ListHead, Space
  <2>6. /\ Placed(s, c, StartOf(s.list, c)).list = s.list
        /\ Placed(s, c, StartOf(s.list, c)).cur = c
        /\ Placed(s, c, StartOf(s.list, c)).offset = StartOf(s.list, c)
    BY <2>4, <2>5, Moved
  <2> QED
    BY <2>1, <2>2, <2>3, <2>6 DEF NextPlace, StartOf
<1> QED
  BY <1>2, <1>3
-----------------------------------------------------------------------------
(* What has been looked at stays so                                        *)

(* More blocks seen, and no unseen one is free that was not free before.   *)
LEMMA SeenGrows ==
    ASSUME NEW list, NEW seen, NEW p, Seen(list, seen, p),
           NEW more, seen \subseteq more,
           NEW new, BlocksOf(new) \subseteq BlocksOf(list) \cup more
    PROVE  Seen(new, more, p)
  BY DEF Seen

(* The blocks of a list are numbers.                                       *)
LEMMA BlocksAreNat ==
    ASSUME NEW l \in Lists
    PROVE  BlocksOf(l) \subseteq Nat
<1> SUFFICES ASSUME NEW b \in BlocksOf(l) PROVE b \in Nat
  OBVIOUS
<1>1. PICK j \in 1..Len(l) : b \in l[j].start .. l[j].end
  BY BlockInList DEF Lists
<1>2. l[j].start \in Nat /\ l[j].end \in Nat
  BY CellsOfLists
<1> QED
  BY <1>1, <1>2

(* Nothing comes before the first block of a list.                         *)
LEMMA NothingBefore ==
    ASSUME NEW l \in Lists, Ordered(l), NEW seen, 1 \in 1..Len(l)
    PROVE  Seen(l, seen, l[1].start)
<1> SUFFICES ASSUME NEW b \in BlocksOf(l), b < l[1].start PROVE FALSE
  BY DEF Seen
<1>1. PICK j \in 1..Len(l) : b \in l[j].start .. l[j].end
  BY BlockInList DEF Lists
<1>2. /\ l[j].start \in Nat /\ l[j].end \in Nat /\ Len(l) \in Nat
      /\ DOMAIN l = 1..Len(l)
  BY CellsOfLists
<1>3. b \in Nat /\ l[j].start <= b /\ j \in Nat
  BY <1>1, <1>2
<1>4. /\ l[1].start \in Nat /\ l[1].end \in Nat /\ l[1].start <= l[1].end
      /\ 1 < j => l[1].end < l[j].start
  BY <1>2, CellsOfLists DEF Ordered
<1>5. j = 1 \/ 1 < j
  BY <1>3
<1> QED
  BY <1>2, <1>3, <1>4, <1>5

(* The file in progress and the skipped header stay behind the walk.       *)
LEMMA FileStaysSeen ==
    ASSUME IInv, IInv', SeenInFile, visited \subseteq visited',
           BlocksOf(space'.list) \subseteq BlocksOf(space.list) \cup visited',
           FileBlocks' \subseteq visited',
           file'.start = file.start \/ SeenBefore(file'.start),
           skipped' \in {skipped, 0}
    PROVE  SeenInFile'
<1>1. space'.list \in Lists /\ Ordered(space'.list)
  BY DEF IInv, Shape, Space
<1>2. SeenBefore(file'.start) /\ SeenBefore(skipped)
  BY DEF SeenInFile
<1>3. /\ Seen(space'.list, visited', file'.start)
      /\ Seen(space'.list, visited', skipped)
  BY <1>2, SeenGrows DEF SeenBefore
<1>4. Seen(space'.list, visited', 0)
  <2>1. \A b \in BlocksOf(space'.list) : b \in Nat
    BY <1>1, BlocksAreNat
  <2> QED
    BY <2>1 DEF Seen
<1>5. ~IgnoreHeaders => skipped' = 0
  BY DEF SeenInFile
<1> QED
  BY <1>3, <1>4, <1>5 DEF SeenInFile, SeenBefore

(* Blocks that pass between the search space and the file are seen ones.   *)
LEMMA MovedBlocksSeen ==
    ASSUME IInv, IInv', SeenInFile, UNCHANGED << out, forgotten, visited >>,
           NEW O, O \subseteq visited,
           BlocksOf(space.list) \ O \subseteq BlocksOf(space'.list)
    PROVE  /\ BlocksOf(space'.list) \subseteq BlocksOf(space.list) \cup visited'
           /\ FileBlocks' \subseteq visited'
<1>1. BlocksOf(space'.list) \cup FileBlocks' =
         BlocksOf(space.list) \cup FileBlocks
  BY SearchableStays
<1>2. FileBlocks \subseteq visited
  BY DEF SeenInFile
<1>3. BlocksOf(space'.list) \cap FileBlocks' = {}
  BY DEF IInv, Partition
<1> QED
  BY <1>1, <1>2, <1>3

(* The position does not move.                                             *)
LEMMA PositionStays ==
    ASSUME SeenBehind, UNCHANGED space, visited \subseteq visited',
           pc \in BesidePlaces => pc' \in BesidePlaces
    PROVE  SeenBehind'
  BY DEF SeenBehind, BesideRange, SeenBefore, Seen, OnRange

(* A step that leaves the search space and the looking to others.          *)
LEMMA QuietStep ==
    ASSUME IInv, IInv', VisitInv,
           UNCHANGED << space, visited, bufAt, oldOffset, out, forgotten >>,
           file'.start = file.start, skipped' \in {skipped, 0},
           pc' # "top", pc \notin {"top", "returned"}, ret' # "OK",
           pc \in BesidePlaces => pc' \in BesidePlaces,
           LooksHere', TakenIsChecked'
    PROVE  VisitInv'
<1>1. SeenInFile /\ SeenBehind /\ BufferFollows
  BY DEF VisitInv
<1>2. /\ BlocksOf(space'.list) \subseteq BlocksOf(space.list) \cup visited'
      /\ FileBlocks' \subseteq visited'
  BY <1>1, MovedBlocksSeen
<1>3. SeenInFile'
  BY <1>1, <1>2, FileStaysSeen
<1>4. SeenBehind'
  BY <1>1, PositionStays
<1>5. BufferFollows'
  BY <1>1 DEF BufferFollows
<1>6. EndIsSeen'
  BY DEF EndIsSeen
<1> QED
  BY <1>3, <1>4, <1>5, <1>6 DEF VisitInv

(* What a call of file_finish2 begins with.                                *)
LEMMA FinishStarts ==
    ASSUME NEW f \in FileShape, NEW size, NEW caller, StartFinish(f, size, caller)
    PROVE  /\ file'.loc = f.loc /\ file'.start = f.start
           /\ fin'.caller = caller /\ fin'.kept = <<>>
           /\ pc' \in {"truncate", "reject"}
<1>1. /\ file' = [f EXCEPT !.size = size, !.open = f.open /\ size > 0]
      /\ fin' = [caller |-> caller, kept |-> <<>>, seen |-> 0,
                 truncated |-> FALSE]
      /\ pc' = IF size = 0 THEN "reject" ELSE "truncate"
  BY DEF StartFinish, NoCall
<1>2. file'.loc = f.loc /\ file'.start = f.start
  BY <1>1 DEF FileShape
<1> QED
  BY <1>1, <1>2

-----------------------------------------------------------------------------
(* The steps                                                               *)

(* The first pass begins at the start of the list.                         *)
LEMMA VisitInit == Init => VisitInv
<1> SUFFICES ASSUME Init PROVE VisitInv
  OBVIOUS
<1>1. PICK cuts \in Cuts, marks \in SUBSET headers, kind \in Stats :
          space = SetSearchStart(InitialList(cuts, marks, kind), -1)
  BY DEF Init
<1> DEFINE l == InitialList(cuts, marks, kind)
           c == NextEntry(l, ListHead)
<1>2. /\ l \in Lists /\ l # <<>> /\ Ordered(l) /\ BlocksOf(l) = Disk
      /\ Len(l) \in Nat /\ DOMAIN l = 1..Len(l)
  BY InitialListCorrect, CellsOfLists
<1> HIDE DEF l
<1>3. Len(l) # 0
  BY <1>2, EmptySeq, LenProperties DEF Lists
<1>4. c = 1 /\ 1 \in 1..Len(l) /\ 1 # ListHead
  BY <1>2, <1>3 DEF NextEntry, ListHead
<1>5. /\ l[1].start \in Nat /\ l[1].end \in Nat /\ l[1].start <= l[1].end
  BY <1>2, <1>4, CellsOfLists DEF Ordered
<1>6. space = [list |-> l, cur |-> 1, offset |-> l[1].start]
  BY <1>1, <1>4 DEF SetSearchStart, StartOf, l
<1>7. OnRange(space)
  BY <1>4, <1>5, <1>6 DEF OnRange, Extent
<1>8. SeenBefore(space.offset)
  BY <1>2, <1>4, <1>6, NothingBefore DEF SeenBefore
<1>9. SeenBehind
  BY <1>7, <1>8 DEF SeenBehind, OnRange
<1>10. /\ file.start = 0 /\ file.loc = <<>> /\ fin.kept = <<>> /\ skipped = 0
       /\ pc = "top" /\ bufAt = space.offset /\ ret = "none" /\ res = "SCAN"
  BY DEF Init, NoCall
<1>11. SeenBefore(0)
  <2>1. \A b \in BlocksOf(space.list) : b \in Nat
    BY <1>2, <1>6, BlocksAreNat
  <2> QED
    BY <2>1 DEF SeenBefore, Seen
<1>12. FileBlocks = {}
  BY <1>10, NoCellsNoBlocks DEF FileBlocks
<1> QED
  BY <1>9, <1>10, <1>11, <1>12
     DEF VisitInv, BufferFollows, LooksHere, TakenIsChecked, SeenInFile,
         EndIsSeen, AwaitsBlock, BlockWasTaken

(* The head of the loop looks at a block of the current range: it is a new *)
(* one only where the walk has got to.                                     *)
LEMMA LooksAtBlock ==
    ASSUME IInv, VisitInv, Looking
    PROVE  /\ OnRange(space') /\ space'.list = space.list
           /\ space'.offset \in visited' /\ visited \subseteq visited'
           /\ SeenBefore(space'.offset) /\ bufAt' = oldOffset'
           /\ ~IgnoreHeaders => bufAt' = space'.offset
<1>1. /\ Space(space') /\ space'.list = space.list
      /\ space.list \in Lists /\ Ordered(space.list)
      /\ space.cur \in 1..Len(space.list) /\ space.cur # ListHead
      /\ DOMAIN space.list = 1..Len(space.list)
  BY LookingAtFree, CellsOfLists DEF IInv, Shape, Space, Looking, ListHead
<1>2. /\ bufAt = space.offset /\ pc = "top"
      /\ bufAt' = bufAt /\ oldOffset' = space.offset /\ space' = Corrected
      /\ visited' = visited \cup ({bufAt} \cap {Corrected.offset})
  BY DEF VisitInv, BufferFollows, Looking
<1>3. CASE OffsetInRange
  <2>1. space' = space /\ OnRange(space)
    BY <1>1, <1>2, <1>3 DEF Corrected, OnRange, OffsetInRange
  <2>2. SeenBefore(space.offset)
    BY <2>1, <1>1 DEF VisitInv, SeenBehind
  <2> QED
    BY <2>1, <2>2, <1>2
<1>4. CASE ~OffsetInRange
  <2> DEFINE r == space.list[space.cur]
  <2>1. /\ space' = MoveTo(space, space.cur) /\ ~OnRange(space)
    BY <1>2, <1>4 DEF Corrected, OnRange, OffsetInRange
  <2>2. BesideRange
    BY <2>1, <1>1 DEF VisitInv, SeenBehind
  <2>3. space'.cur = space.cur /\ space'.offset = r.start
    <3>1. Space(space) /\ r.start \in Nat /\ space.cur \in 0..Len(space.list)
      BY <1>1, CellsOfLists DEF IInv, Shape, Space
    <3>2. space' = Placed(space, space.cur, r.start)
      BY <2>1, <1>1 DEF MoveTo, Placed, StartOf
    <3> QED
      BY <3>1, <3>2, Moved
  <2>4. r.start \in Nat /\ r.end \in Nat /\ r.start <= r.end
    BY <1>1, CellsOfLists DEF Ordered
  <2>5. OnRange(space')
    BY <2>3, <2>4, <1>1 DEF OnRange, Extent
  <2> QED
    BY <2>2, <2>3, <2>5, <1>1, <1>2 DEF BesideRange
<1> QED
  BY <1>3, <1>4

(* The head of the loop.                                                   *)
LEMMA VisitHead ==
    IInv /\ IInv' /\ VisitInv
         /\ (EndOfSpace \/ UserStop \/ CheckNoHeader \/ CheckHeader)
       => VisitInv'
<1> SUFFICES ASSUME IInv, IInv', VisitInv,
                    EndOfSpace \/ UserStop \/ CheckNoHeader \/ CheckHeader
             PROVE  VisitInv'
  OBVIOUS
<1>0. SeenInFile /\ SeenBehind /\ BufferFollows
  BY DEF VisitInv
<1>1. CASE EndOfSpace \/ UserStop
  <2>1. /\ pc = "top" /\ pc' = "returned"
        /\ UNCHANGED << space, visited, file, fin, skipped, res >>
        /\ ret' = "OK" => space.cur = ListHead
    BY <1>1 DEF EndOfSpace, UserStop, Return
  <2>2. SeenBehind'
    BY <2>1, <1>0, PositionStays DEF BesidePlaces
  <2>3. SeenInFile'
    BY <2>1, <1>0 DEF SeenInFile, SeenBefore, FileBlocks
  <2>4. EndIsSeen'
    BY <2>1, <1>0 DEF EndIsSeen, SeenBehind
  <2> QED
    BY <2>1, <2>2, <2>3, <2>4
       DEF VisitInv, BufferFollows, LooksHere, TakenIsChecked, AwaitsBlock,
           BlockWasTaken
<1>2. ASSUME Looking, FileBlocks' = FileBlocks, file'.start = file.start,
             skipped' = skipped \/ (IgnoreHeaders /\ skipped' = space'.offset),
             \/ pc' \in {"data", "new"}
             \/ pc' \in {"truncate", "reject"} /\ fin'.caller = "header"
      PROVE  VisitInv'
  <2>1. /\ OnRange(space') /\ space'.list = space.list
        /\ space'.offset \in visited' /\ visited \subseteq visited'
        /\ SeenBefore(space'.offset) /\ bufAt' = oldOffset'
        /\ ~IgnoreHeaders => bufAt' = space'.offset
    BY <1>2, LooksAtBlock
  <2>2. SeenBehind'
    <3>1. SeenBefore(space.offset)'
      BY <2>1 DEF SeenBefore, Seen
    <3> QED
      BY <3>1, <2>1 DEF SeenBehind, OnRange
  <2>3. SeenInFile'
    BY <2>1, <1>0, <1>2 DEF SeenInFile, SeenBefore, Seen
  <2>4. ret' = ret /\ ret # "OK"
    BY <1>2 DEF Looking, VisitInv, EndIsSeen
  <2> QED
    BY <2>1, <2>2, <2>3, <2>4, <1>2
       DEF VisitInv, BufferFollows, LooksHere, TakenIsChecked, AwaitsBlock,
           BlockWasTaken, EndIsSeen
<1>3. CASE CheckNoHeader
  <2>1. /\ Looking /\ pc' = "data" /\ UNCHANGED << file, fin >>
        /\ skipped' = skipped \/ (IgnoreHeaders /\ skipped' = space'.offset)
    BY <1>3 DEF CheckNoHeader, Looking
  <2> QED
    BY <2>1, <1>2 DEF FileBlocks
<1>4. CASE CheckHeader
  <2>1. Looking /\ skipped' = skipped
    BY <1>4 DEF CheckHeader
  <2>2. CASE pc' = "new" /\ UNCHANGED << file, fin >>
    BY <2>1, <2>2, <1>2 DEF FileBlocks
  <2>3. ASSUME NEW size \in FinalSizes(file), StartFinish(file, size, "header")
        PROVE  VisitInv'
    <3>1. /\ file'.loc = file.loc /\ fin'.caller = "header"
          /\ pc' \in {"truncate", "reject"} /\ fin'.kept = <<>>
          /\ file'.start = file.start
      BY <2>3, FinishStarts DEF IInv, Shape
    <3>2. fin.kept = <<>>
      BY <2>1 DEF Looking, IInv, KeptInTruncate
    <3> QED
      BY <3>1, <3>2, <2>1, <1>2 DEF FileBlocks
  <2> QED
    BY <2>2, <2>3, <1>4 DEF CheckHeader
<1> QED
  BY <1>1, <1>3, <1>4

(* file_finish2 settles a fragment.                                        *)
LEMMA VisitFragment ==
    IInv /\ IInv' /\ VisitInv
         /\ (RejectFirst \/ RejectRest \/ TruncateFragment)
       => VisitInv'
<1> SUFFICES ASSUME IInv, IInv', VisitInv,
                    RejectFirst \/ RejectRest \/ TruncateFragment
             PROVE  VisitInv'
  OBVIOUS
<1>0. SeenInFile /\ SeenBehind /\ BufferFollows
  BY DEF VisitInv
<1>1. /\ pc \in {"truncate", "reject", "reject_rest"}
      /\ pc' \in {"truncate", "reject", "reject_rest"}
      /\ UNCHANGED << ret, bufAt, res, oldOffset, skipped, out, visited,
                      forgotten >>
  BY DEF RejectFirst, RejectRest, TruncateFragment
<1>2. Settled
  BY RejectFirstStep, RejectRestStep, TruncateStep
<1>3. /\ BlocksOf(space'.list) \subseteq BlocksOf(space.list) \cup visited'
      /\ FileBlocks' \subseteq visited'
  <2>1. BlocksOf(space.list) \ {} \subseteq BlocksOf(space'.list)
    BY <1>2 DEF Settled
  <2>2. {} \subseteq visited
    OBVIOUS
  <2> QED
    BY <2>1, <2>2, <1>0, <1>1, MovedBlocksSeen
<1>4. SeenInFile'
  BY <1>0, <1>1, <1>2, <1>3, FileStaysSeen DEF Settled
<1>5. OnRange(space) => OnRange(space')
  BY <1>2 DEF Settled, SameRange, OnRange
<1>6. SeenBehind'
  <2>1. CASE space.cur = ListHead
    <3>1. space'.cur = ListHead
      BY <2>1, <1>2 DEF Settled, SameRange
    <3> QED
      BY <3>1, <2>1, <1>0, <1>1, <1>3 DEF SeenBehind
  <2>2. CASE space.cur # ListHead
    <3>1. OnRange(space) /\ SeenBefore(space.offset)
      BY <2>2, <1>0, <1>1 DEF SeenBehind, BesideRange, BesidePlaces
    <3>2. OnRange(space') /\ space'.offset = space.offset
      BY <3>1, <1>2, <1>5 DEF Settled
    <3>3. Seen(space'.list, visited', space.offset)
      BY <3>1, <1>1, <1>3, SeenGrows DEF SeenBefore
    <3> QED
      BY <3>2, <3>3 DEF SeenBehind, SeenBefore, OnRange
  <2> QED
    BY <2>1, <2>2
<1>7. LooksHere' /\ TakenIsChecked'
  <2>1. fin'.caller = fin.caller /\ space'.offset = space.offset
    BY <1>2 DEF Settled
  <2> QED
    BY <2>1, <1>1, <1>5
       DEF VisitInv, LooksHere, TakenIsChecked, AwaitsBlock, BlockWasTaken
<1>8. BufferFollows' /\ EndIsSeen'
  BY <1>0, <1>1 DEF VisitInv, BufferFollows, EndIsSeen
<1> QED
  BY <1>4, <1>6, <1>7, <1>8 DEF VisitInv

(* file_finish2 returns to where it was called from.                       *)
LEMMA VisitReturn ==
    IInv /\ IInv' /\ VisitInv /\ (Rejected \/ Accepted) => VisitInv'
<1> SUFFICES ASSUME IInv, IInv', VisitInv, Rejected \/ Accepted
             PROVE  VisitInv'
  OBVIOUS
<1>0. SeenInFile /\ SeenBehind /\ BufferFollows
  BY DEF VisitInv
<1>1. /\ pc \in {"truncate", "reject", "reject_rest"}
      /\ \E r \in {"BAD", "OK_TRUNCATED", "OK"} : FinishReturns(r)
      /\ UNCHANGED << ret, space, bufAt, res, oldOffset, visited >>
      /\ skipped' \in {skipped, 0}
  BY DEF Rejected, Accepted, SkipAfterFree
<1>2. file \in FileShape /\ fin \in FinShape
  BY DEF IInv, Shape
<1>3. PICK r \in {"BAD", "OK_TRUNCATED", "OK"} : FinishReturns(r)
  BY <1>1
<1>4. /\ file'.loc = <<>> /\ fin'.kept = <<>> /\ file'.start = file.start
  <2>1. file' = ResetFile(file)
    BY <1>3 DEF FinishReturns
  <2> QED
    BY <2>1, <1>2, <1>3, FinishReturnsShape DEF ResetFile, FileShape
<1>5. /\ pc' \in {"data", "new", "advance", "forget", "media_done", "returned"}
      /\ pc' \in {"data", "new"} => fin.caller = "header"
      /\ pc' \in {"advance", "forget"} => fin.caller = "data"
  BY <1>2, <1>3 DEF FinishReturns, FinShape
<1>6. SeenInFile'
  <2>1. FileBlocks' = {}
    BY <1>4, NoCellsNoBlocks DEF FileBlocks
  <2>2. visited \subseteq visited' /\ FileBlocks' \subseteq visited'
        /\ BlocksOf(space'.list) \subseteq BlocksOf(space.list) \cup visited'
    BY <2>1, <1>1
  <2> QED
    BY <2>2, <1>0, <1>1, <1>4, FileStaysSeen
<1>7. SeenBehind'
  BY <1>0, <1>1, PositionStays DEF BesidePlaces
<1>8. LooksHere'
  <2>1. AwaitsBlock' => AwaitsBlock
    BY <1>1, <1>5 DEF AwaitsBlock
  <2>2. ~(pc' = "advance" /\ res' = "SCAN")
    BY <1>1, <1>5 DEF VisitInv, TakenIsChecked, BlockWasTaken
  <2> QED
    BY <2>1, <2>2, <1>1 DEF VisitInv, LooksHere
<1>9. TakenIsChecked'
  BY <1>1, <1>5 DEF VisitInv, TakenIsChecked, BlockWasTaken
<1>10. BufferFollows' /\ EndIsSeen'
  BY <1>0, <1>1, <1>5 DEF VisitInv, BufferFollows, EndIsSeen
<1> QED
  BY <1>6, <1>7, <1>8, <1>9, <1>10 DEF VisitInv

(* A call of file_finish2 for a file that starts where the file in         *)
(* progress does, or at the block looked at.                               *)
LEMMA VisitFinishStarts ==
    ASSUME IInv, IInv', VisitInv, NEW f \in FileShape, f.loc = file.loc,
           f.start = file.start \/ (AwaitsBlock /\ f.start = space.offset),
           NEW size, NEW caller \in {"media", "abort"},
           StartFinish(f, size, caller),
           pc \notin BesidePlaces \cup {"truncate"}, ret' # "OK",
           UNCHANGED << space, visited, bufAt, oldOffset, out, forgotten,
                        skipped >>
    PROVE  VisitInv'
<1>0. SeenInFile /\ SeenBehind /\ BufferFollows
  BY DEF VisitInv
<1>1. /\ file'.loc = f.loc /\ file'.start = f.start /\ fin'.caller = caller
      /\ fin'.kept = <<>> /\ pc' \in {"truncate", "reject"}
  BY FinishStarts
<1>2. fin.kept = <<>>
  BY DEF IInv, KeptInTruncate
<1>3. FileBlocks' = FileBlocks
  BY <1>1, <1>2 DEF FileBlocks
<1>4. file'.start = file.start \/ SeenBefore(file'.start)
  BY <1>0, <1>1 DEF VisitInv, LooksHere, SeenBehind, OnRange
<1>5. SeenInFile'
  <2>1. visited \subseteq visited' /\ FileBlocks' \subseteq visited'
        /\ BlocksOf(space'.list) \subseteq BlocksOf(space.list) \cup visited'
    BY <1>0, <1>3 DEF SeenInFile
  <2>2. skipped' \in {skipped, 0}
    OBVIOUS
  <2> QED
    BY <2>1, <2>2, <1>0, <1>4, FileStaysSeen
<1>6. SeenBehind'
  BY <1>0, PositionStays
<1>7. LooksHere' /\ TakenIsChecked'
  BY <1>1 DEF LooksHere, TakenIsChecked, AwaitsBlock, BlockWasTaken
<1>8. BufferFollows' /\ EndIsSeen'
  BY <1>0, <1>1 DEF BufferFollows, EndIsSeen, BesidePlaces
<1> QED
  BY <1>5, <1>6, <1>7, <1>8 DEF VisitInv

(* The walk moves past a block that was looked at, or that the file has.   *)
LEMMA PassesOne ==
    ASSUME IInv, IInv', VisitInv, OnRange(space), NextPlace(space, space'),
           visited' = visited, space.offset \in visited,
           BlocksOf(space'.list) \subseteq BlocksOf(space.list)
    PROVE  SeenBehind'
<1>1. Space(space) /\ Space(space')
  BY DEF IInv, Shape
<1>2. /\ space'.cur # ListHead => OnRange(space')
      /\ \A b \in BlocksOf(space'.list) : Passed(space', b) => b <= space.offset
  BY <1>1, NextPassed
<1>3. SeenBefore(space.offset)
  BY DEF VisitInv, SeenBehind, OnRange
<1>4. space.offset \in Nat /\ BlocksOf(space'.list) \subseteq Nat
  BY <1>1, BlocksAreNat DEF Space
<1>5. ASSUME NEW b \in BlocksOf(space'.list), Passed(space', b)
      PROVE  b \in visited'
  <2>1. b <= space.offset /\ b \in Nat /\ b \in BlocksOf(space.list)
    BY <1>2, <1>4, <1>5
  <2>2. b < space.offset \/ b = space.offset
    BY <2>1, <1>4
  <2> QED
    BY <2>1, <2>2, <1>3 DEF SeenBefore, Seen
<1> QED
  BY <1>2, <1>5 DEF SeenBehind, SeenBefore, Seen, Passed, OnRange

(* A step that takes the walk away from the block looked at.               *)
LEMMA LeavesTheBlock ==
    ASSUME IInv, IInv', VisitInv,
           UNCHANGED << visited, bufAt, oldOffset, ret >>,
           BlocksOf(space'.list) \subseteq BlocksOf(space.list),
           FileBlocks' \subseteq visited', file'.start = file.start,
           skipped' \in {skipped, 0},
           pc \notin {"top", "returned"}, pc' \notin {"top", "returned"},
           ~AwaitsBlock', pc' = "advance" => res' # "SCAN",
           TakenIsChecked', SeenBehind'
    PROVE  VisitInv'
<1>1. SeenInFile /\ BufferFollows /\ EndIsSeen
  BY DEF VisitInv
<1>2. BlocksOf(space'.list) \subseteq BlocksOf(space.list) \cup visited'
      /\ visited \subseteq visited'
  OBVIOUS
<1>3. SeenInFile'
  BY <1>1, <1>2, FileStaysSeen
<1>4. BufferFollows' /\ EndIsSeen' /\ LooksHere'
  BY <1>1 DEF BufferFollows, EndIsSeen, LooksHere
<1> QED
  BY <1>3, <1>4 DEF VisitInv

(* A new file starts at the block looked at, or its output cannot be       *)
(* created.                                                                *)
LEMMA VisitNew ==
    ASSUME IInv, IInv', VisitInv, NEW kind \in Stats,
           StartFile(kind) \/ CreateFails(kind)
    PROVE  VisitInv'
<1>1. /\ file \in FileShape /\ space.offset \in Nat
      /\ SeenInFile /\ SeenBehind /\ BufferFollows /\ EndIsSeen
  BY DEF IInv, Shape, Space, VisitInv
<1>2. ASSUME NEW opened \in BOOLEAN
      PROVE  /\ NewFile(kind, opened) \in FileShape
             /\ NewFile(kind, opened).loc = file.loc
             /\ NewFile(kind, opened).start = space.offset
  <2>1. kind \in Stats \cup {NoStat}
    OBVIOUS
  <2> QED
    BY <2>1, <1>1 DEF NewFile, FileShape
<1>3. pc = "new" /\ AwaitsBlock /\ OnRange(space) /\ SeenBefore(space.offset)
  BY DEF StartFile, CreateFails, AwaitsBlock, VisitInv, LooksHere, SeenBehind,
         OnRange
<1>4. CASE StartFile(kind)
  <2>1. pc' = "data" /\ file' = NewFile(kind, kind \notin Unsaved)
        /\ UNCHANGED << space, fin, skipped, visited, bufAt, oldOffset, res,
                        ret, out, forgotten >>
    BY <1>4 DEF StartFile
  <2>2. (kind \notin Unsaved) \in BOOLEAN
    OBVIOUS
  <2>3. file'.loc = file.loc /\ file'.start = space.offset
    BY <2>1, <2>2, <1>2
  <2>4. FileBlocks' = FileBlocks
    BY <2>1, <2>3 DEF FileBlocks
  <2>5. SeenInFile' /\ SeenBehind' /\ BufferFollows' /\ EndIsSeen'
    <3>1. SeenInFile'
      <4>1. visited \subseteq visited' /\ FileBlocks' \subseteq visited'
            /\ BlocksOf(space'.list) \subseteq BlocksOf(space.list) \cup visited'
        BY <2>1, <2>4, <1>1 DEF SeenInFile
      <4>2. SeenBefore(file'.start)
        BY <2>3, <1>3
      <4> QED
        BY <4>1, <4>2, <2>1, <1>1, FileStaysSeen
    <3>2. SeenBehind'
      BY <2>1, <1>1, <1>3, PositionStays DEF BesidePlaces
    <3> QED
      BY <3>1, <3>2, <2>1, <1>1, <1>3 DEF BufferFollows, EndIsSeen
  <2>6. LooksHere' /\ TakenIsChecked'
    BY <2>1, <1>3 DEF VisitInv, LooksHere, TakenIsChecked, AwaitsBlock,
                      BlockWasTaken, OnRange
  <2> QED
    BY <2>5, <2>6 DEF VisitInv
<1>5. CASE CreateFails(kind)
  <2>1. ret' = "EACCES" /\ StartFinish(NewFile(kind, FALSE), 0, "abort")
        /\ UNCHANGED << space, skipped, visited, bufAt, oldOffset, out,
                        forgotten >>
    BY <1>5 DEF CreateFails, Abort
  <2>2. /\ NewFile(kind, FALSE) \in FileShape
        /\ NewFile(kind, FALSE).loc = file.loc
        /\ NewFile(kind, FALSE).start = space.offset
    BY <1>2
  <2> HIDE DEF NewFile
  <2>3. pc \notin BesidePlaces \cup {"truncate"} /\ ret' # "OK"
    BY <2>1, <1>3 DEF BesidePlaces
  <2> QED
    BY <2>1, <2>2, <2>3, <1>3, VisitFinishStarts
<1> QED
  BY <1>4, <1>5

(* The block goes to the file f.                                           *)
LEMMA VisitTaken ==
    ASSUME IInv, IInv', VisitInv, TakeBlock, NEW f \in FileShape,
           f.start = file.start,
           NEW verdict \in {"CONTINUE", "STOP", "ERROR"}, Verdict(f, verdict)
    PROVE  VisitInv'
<1>1. /\ pc = "data" /\ space' = RemoveBlock(space) /\ AwaitsBlock
      /\ UNCHANGED << ret, bufAt, oldOffset, skipped, out, visited, forgotten >>
  BY DEF TakeBlock, AwaitsBlock
<1>2. /\ OnRange(space) /\ space.offset \in visited /\ SeenInFile
      /\ Space(space) /\ space.offset \in BlocksOf(space.list)
  BY <1>1 DEF VisitInv, LooksHere, IInv, Shape, OffsetIsFree
<1>3. /\ res' # "SCAN" /\ file'.start = f.start
      /\ pc' \in {"advance", "truncate", "reject"}
      /\ pc' # "advance" => fin'.caller = "data"
  <2>1. res' \in {"CONTINUE", "STOP", "ERROR"}
    BY DEF Verdict
  <2>2. CASE pc' = "advance" /\ file' = f
    BY <2>1, <2>2
  <2>3. ASSUME NEW size, StartFinish(f, size, "data")
        PROVE  /\ file'.start = f.start /\ pc' \in {"truncate", "reject"}
               /\ fin'.caller = "data"
    BY <2>3, FinishStarts
  <2>4. \/ pc' = "advance" /\ file' = f
        \/ \E size : StartFinish(f, size, "data")
    BY DEF Verdict
  <2> QED
    BY <2>1, <2>2, <2>3, <2>4
<1>4. /\ BlocksOf(space'.list) = BlocksOf(space.list) \ {space.offset}
      /\ NextPlace(space, space')
  BY <1>1, <1>2, RemoveBlockCorrect
<1>5. SeenBehind'
  BY <1>1, <1>2, <1>4, PassesOne
<1>6. FileBlocks' \subseteq visited'
  <2>1. {space.offset} \subseteq visited
        /\ BlocksOf(space.list) \ {space.offset} \subseteq BlocksOf(space'.list)
    BY <1>2, <1>4
  <2> QED
    BY <2>1, <1>1, <1>2, MovedBlocksSeen
<1>7. ~AwaitsBlock' /\ TakenIsChecked'
  BY <1>3 DEF AwaitsBlock, TakenIsChecked
<1> QED
  BY <1>1, <1>3, <1>4, <1>5, <1>6, <1>7, LeavesTheBlock

(* What happens at the block while pc = "data".                            *)
LEMMA VisitData ==
    ASSUME IInv, IInv', VisitInv,
           \/ NoFileInProgress \/ WriteFails \/ SkipIndirectBlock
           \/ \E verdict \in {"CONTINUE", "STOP", "ERROR"}, written \in BOOLEAN :
                  WriteBlock(verdict, written)
    PROVE  VisitInv'
<1>1. /\ file \in FileShape /\ space.offset \in Nat /\ bufAt \in Nat
      /\ file.size \in Nat /\ file.written \in SUBSET (Nat \X Nat)
  BY DEF IInv, Shape, Space, FileShape
<1>2. CASE NoFileInProgress
  <2>1. /\ pc = "data" /\ pc' = "advance"
        /\ UNCHANGED << ret, space, bufAt, file, res, oldOffset, skipped, out,
                        visited, forgotten >>
    BY <1>2 DEF NoFileInProgress
  <2>2. LooksHere' /\ TakenIsChecked' /\ ret' # "OK"
    BY <2>1 DEF VisitInv, LooksHere, TakenIsChecked, AwaitsBlock,
                BlockWasTaken, EndIsSeen, OnRange
  <2>3. file'.start = file.start /\ skipped' \in {skipped, 0}
        /\ pc' # "top" /\ pc \notin {"top", "returned"} \cup BesidePlaces
    BY <2>1 DEF BesidePlaces
  <2> QED
    BY <2>1, <2>2, <2>3, QuietStep
<1>3. CASE WriteFails
  <2>1. /\ pc = "data" /\ StartFinish(file, 0, "abort") /\ ret' = "ENOSPC"
        /\ UNCHANGED << space, visited, bufAt, oldOffset, out, forgotten,
                        skipped >>
    BY <1>3 DEF WriteFails, Abort
  <2>2. pc \notin BesidePlaces \cup {"truncate"} /\ ret' # "OK"
    BY <2>1 DEF BesidePlaces
  <2> QED
    BY <2>1, <2>2, <1>1, VisitFinishStarts
<1> DEFINE added(data) == AddToFile(file.loc, space.offset, data)
<1>4. ASSUME TakeBlock, NEW data \in {0, 1}
      PROVE  added(data) \in Seq(Fragment)
  <2>1. space.offset \in BlocksOf(space.list) /\ fin.kept = <<>>
    BY <1>4 DEF TakeBlock, IInv, OffsetIsFree, AwaitsBlock, KeptInTruncate
  <2>2. space.offset \notin BlocksOf(file.loc)
    BY <2>1 DEF IInv, Partition, FileBlocks
  <2>3. file.loc \in Seq(Fragment) /\ Apart(file.loc)
    BY DEF IInv, Shape, FileShape
  <2> QED
    BY <2>2, <2>3, <1>1, AddToFileCorrect
<1> HIDE DEF added
<1>5. CASE SkipIndirectBlock
  <2> DEFINE f == [file EXCEPT !.loc = added(0)]
  <2>1. TakeBlock /\ Verdict(f, "CONTINUE")
    BY <1>5 DEF SkipIndirectBlock, added
  <2>2. f \in FileShape /\ f.start = file.start
    BY <2>1, <1>1, <1>4 DEF FileShape
  <2> HIDE DEF f
  <2> QED
    BY <2>1, <2>2, VisitTaken
<1>6. ASSUME NEW verdict \in {"CONTINUE", "STOP", "ERROR"},
             NEW written \in BOOLEAN, WriteBlock(verdict, written)
      PROVE  VisitInv'
  <2> DEFINE w == IF file.open /\ written
                  THEN file.written \cup {<< space.offset, bufAt >>}
                  ELSE file.written
             f == [file EXCEPT !.loc = added(1), !.size = @ + 1, !.written = w]
  <2>1. TakeBlock /\ Verdict(f, verdict)
    BY <1>6 DEF WriteBlock, added
  <2>2. /\ added(1) \in Seq(Fragment) /\ w \in SUBSET (Nat \X Nat)
        /\ file.size + 1 \in Nat
    BY <2>1, <1>1, <1>4
  <2> HIDE DEF w
  <2>3. f \in FileShape /\ f.start = file.start
    BY <2>2, <1>1 DEF FileShape
  <2> HIDE DEF f
  <2> QED
    BY <2>1, <2>3, VisitTaken
<1> QED
  BY <1>2, <1>3, <1>5, <1>6

(* forget() drops ranges before the current one.                           *)
LEMMA VisitForget ==
    ASSUME IInv, IInv', VisitInv, ForgetRanges
    PROVE  VisitInv'
<1>1. /\ pc \in {"forget", "media_forget"} /\ space' = Forget(space)
      /\ pc' = IF pc = "forget" THEN "advance" ELSE "refill"
      /\ UNCHANGED << file, fin, skipped, visited, bufAt, oldOffset, ret, res >>
  BY DEF ForgetRanges
<1> DEFINE n == Forget(space)
<1>2. /\ BlocksOf(n.list) \subseteq BlocksOf(space.list)
      /\ n.offset = space.offset
      /\ n.cur = ListHead <=> space.cur = ListHead
      /\ space.cur # ListHead => n.list[n.cur] = space.list[space.cur]
  BY ForgetCorrect DEF IInv, Shape
<1>3. space' = n
  BY <1>1
<1> HIDE DEF n
<1>4. SeenBehind'
  <2>1. ASSUME NEW p, SeenBefore(p) PROVE Seen(space'.list, visited', p)
    BY <2>1, <1>1, <1>2, <1>3 DEF SeenBefore, Seen
  <2>2. CASE space.cur = ListHead
    BY <2>2, <1>1, <1>2, <1>3 DEF VisitInv, SeenBehind
  <2>3. CASE space.cur # ListHead /\ OnRange(space)
    <3>1. OnRange(space') /\ SeenBefore(space.offset)
      BY <2>3, <1>2, <1>3 DEF VisitInv, SeenBehind, OnRange
    <3> QED
      BY <3>1, <2>1, <1>2, <1>3 DEF SeenBehind, SeenBefore, OnRange
  <2>4. CASE space.cur # ListHead /\ ~OnRange(space)
    <3>1. BesideRange /\ pc' = "refill"
      BY <2>4, <1>1 DEF VisitInv, SeenBehind, BesideRange, BesidePlaces
    <3>2. /\ space'.list[space'.cur] = space.list[space.cur]
          /\ space'.cur # ListHead
      BY <2>4, <1>2, <1>3
    <3>3. BesideRange'
      BY <3>1, <3>2, <2>1, <1>1 DEF BesideRange, BesidePlaces, SeenBefore
    <3>4. ~OnRange(space')
      BY <2>4, <3>2, <1>2, <1>3 DEF OnRange
    <3> QED
      BY <3>2, <3>3, <3>4 DEF SeenBehind, OnRange
  <2> QED
    BY <2>2, <2>3, <2>4
<1>5. /\ ~AwaitsBlock' /\ TakenIsChecked'
      /\ pc' = "advance" => res' # "SCAN"
      /\ pc \notin {"top", "returned"} /\ pc' \notin {"top", "returned"}
  BY <1>1 DEF VisitInv, AwaitsBlock, TakenIsChecked, BlockWasTaken
<1>6. FileBlocks' \subseteq visited'
  BY <1>1 DEF VisitInv, SeenInFile, FileBlocks
<1> QED
  BY <1>1, <1>2, <1>3, <1>4, <1>5, <1>6, LeavesTheBlock

(* A jump to a block that is not further on than what has been passed.     *)
LEMMA JumpsBack ==
    ASSUME IInv, IInv', VisitInv, space'.list = space.list,
           UNCHANGED << visited, bufAt, oldOffset, ret, file, fin >>,
           skipped' \in {skipped, 0},
           pc \in {"advance", "media", "media_done"},
           pc' \in {"media", "media_done", "media_forget", "refill"},
           SeenBehind'
    PROVE  VisitInv'
<1>1. FileBlocks' \subseteq visited'
  BY DEF VisitInv, SeenInFile, FileBlocks
<1>2. ~AwaitsBlock' /\ TakenIsChecked'
  BY DEF AwaitsBlock, TakenIsChecked, BlockWasTaken
<1> QED
  BY <1>1, <1>2, LeavesTheBlock

(* The two ways a position may be.                                         *)
LEMMA BehindWays ==
    ASSUME space'.cur # ListHead, Seen(space'.list, visited', space'.offset),
           OnRange(space') \/ BesideRange'
    PROVE  SeenBehind'
  BY DEF SeenBehind, SeenBefore, OnRange

(* get_prev_location_smart stays behind what has been passed.              *)
LEMMA SmartStaysBehind ==
    ASSUME IInv, IInv', VisitInv,
           space' = PrevLocationSmart(space, skipped, file.start),
           visited' = visited, pc' \in BesidePlaces \cup {"media"},
           pc' = "media" => space'.cur = ListHead,
           pc \notin BesidePlaces
    PROVE  SeenBehind' /\ space'.list = space.list
<1> DEFINE l == space.list
<1>1. /\ Space(space) /\ Space(space') /\ skipped \in Nat /\ file.start \in Nat
      /\ SeenBehind /\ SeenBefore(file.start) /\ SeenBefore(skipped)
      /\ ~IgnoreHeaders => skipped = 0
  BY DEF IInv, Shape, FileShape, VisitInv, SeenInFile
<1>2. space'.list = l /\ SmartPlace(space, skipped, file.start, space')
  BY <1>1, PrevLocationSmartCorrect
<1>3. /\ l \in Lists /\ Ordered(l) /\ Len(l) \in Nat /\ DOMAIN l = 1..Len(l)
      /\ BlocksOf(l) \subseteq Nat
      /\ \A j \in 1..Len(l) : l[j].start \in Nat /\ l[j].end \in Nat
                              /\ l[j].start <= l[j].end
  BY <1>1, CellsOfLists, BlocksAreNat DEF Space, Ordered
<1>4. ASSUME NEW j \in 1..Len(l) PROVE l[j].start \in BlocksOf(l)
  BY <1>3 DEF BlocksOf, Extent
<1>5. CASE space' = space
  BY <1>1, <1>2, <1>5 DEF SeenBehind, BesideRange, SeenBefore, Seen, OnRange
<1>6. CASE /\ skipped # 0 /\ space'.cur \in 1..Len(l) /\ space'.offset = skipped
           /\ l[space'.cur].start <= skipped /\ skipped <= l[space'.cur].end
  <2>1. OnRange(space')
    BY <1>1, <1>2, <1>3, <1>6 DEF OnRange, Extent, ListHead
  <2> QED
    BY <2>1, <1>1, <1>2, <1>6 DEF SeenBehind, SeenBefore, OnRange
<1>7. CASE /\ skipped # 0 /\ space'.cur \in 1..Len(l) /\ space'.offset = skipped
           /\ \/ l[space'.cur].start < file.start
              \/ l[space'.cur].start < skipped
  <2> DEFINE p == l[space'.cur].start
  <2>1. p \in BlocksOf(l) /\ p \in Nat /\ space'.cur # ListHead
    BY <1>3, <1>4, <1>7 DEF ListHead
  <2>2. p \in visited /\ SeenBefore(p)
    BY <2>1, <1>1, <1>3, <1>7 DEF SeenBefore, Seen
  <2>3. Seen(space'.list, visited', p) /\ Seen(space'.list, visited', skipped)
    BY <2>2, <1>1, <1>2 DEF SeenBefore
  <2>4. pc' \in BesidePlaces /\ IgnoreHeaders
    BY <2>1, <1>1, <1>7
  <2>5. BesideRange'
    BY <2>2, <2>3, <2>4, <1>2 DEF BesideRange, SeenBefore
  <2>6. Seen(space'.list, visited', space'.offset)
    BY <2>3, <1>7
  <2> HIDE DEF p
  <2> QED
    BY <2>1, <2>5, <2>6, <1>2, BehindWays
<1>8. CASE space'.cur = 1 /\ 1 \in 1..Len(l) /\ space'.offset = l[1].start
  <2>1. OnRange(space')
    BY <1>2, <1>3, <1>8 DEF OnRange, Extent, ListHead
  <2>2. Seen(l, visited', l[1].start)
    BY <1>3, <1>8, NothingBefore
  <2> QED
    BY <2>1, <2>2, <1>2, <1>8, BehindWays DEF OnRange
<1> QED
  BY <1>2, <1>5, <1>6, <1>7, <1>8 DEF SmartPlace

(* Where to look next.                                                     *)
LEMMA VisitAdvance ==
    ASSUME IInv, IInv', VisitInv,
           AdvanceSector \/ AdvanceInFile \/ BackToHeader \/ BackToSkipped
    PROVE  VisitInv'
<1>1. /\ pc = "advance" /\ pc' = IF space'.cur = ListHead THEN "media" ELSE "refill"
      /\ UNCHANGED << visited, bufAt, oldOffset, ret, file, fin >>
      /\ skipped' \in {skipped, 0}
  BY DEF AdvanceSector, AdvanceInFile, BackToHeader, BackToSkipped, AfterAdvance
<1>2. Space(space) /\ Space(space') /\ SeenBehind /\ pc \notin BesidePlaces
  BY <1>1 DEF IInv, Shape, VisitInv, BesidePlaces
<1>3. CASE AdvanceSector
  <2>1. res = "SCAN" /\ space' = GetNextSector(space)
    BY <1>3 DEF AdvanceSector
  <2>2. OnRange(space) /\ space.offset \in visited
    BY <2>1, <1>1 DEF VisitInv, LooksHere
  <2>3. NextPlace(space, space') /\ space'.list = space.list
    BY <2>1, <2>2, <1>2, NextSectorPlace, GetNextSectorCorrect
  <2>4. SeenBehind'
    BY <2>2, <2>3, <1>1, PassesOne
  <2> QED
    BY <2>3, <2>4, <1>1, JumpsBack
<1>4. CASE AdvanceInFile
  <2>1. space' = space
    BY <1>4 DEF AdvanceInFile
  <2>2. SeenBehind'
    BY <2>1, <1>1, <1>2, PositionStays
  <2> QED
    BY <2>1, <2>2, <1>1, JumpsBack
<1>5. CASE BackToHeader
  <2> DEFINE l == space.list
             c == PrevFileHeader(space)
  <2>1. /\ l \in Lists /\ Ordered(l) /\ Len(l) \in Nat /\ space.cur \in 0..Len(l)
        /\ DOMAIN l = 1..Len(l) /\ BlocksOf(l) \subseteq Nat
    BY <1>2, CellsOfLists, BlocksAreNat DEF Space
  <2>2. c \in 1..Len(l) /\ c < Behind(l, space.cur) /\ c # ListHead
    BY <1>2, <1>5, <2>1, PrevFileHeaderCell
       DEF BackToHeader, CanGoBack, ListHead
  <2>3. space' = MoveTo(space, c)
    BY <1>5 DEF BackToHeader
  <2> HIDE DEF c
  <2>4. /\ space'.list = l /\ space'.offset = l[c].start /\ space'.cur = c
    <3>1. l[c].start \in Nat /\ c \in 0..Len(l)
      BY <2>1, <2>2, CellsOfLists
    <3>2. space' = Placed(space, c, l[c].start)
      BY <2>2, <2>3 DEF MoveTo, Placed, StartOf
    <3> QED
      BY <3>1, <3>2, <1>2, Moved
  <2>5. l[c].start \in Nat /\ l[c].end \in Nat /\ l[c].start <= l[c].end
    BY <2>1, <2>2, CellsOfLists DEF Ordered
  <2>6. OnRange(space')
    BY <2>2, <2>4, <2>5 DEF OnRange, Extent
  <2>7. Seen(l, visited, l[c].start)
    <3>1. CASE space.cur = ListHead
      BY <3>1, <1>2 DEF SeenBehind, Seen
    <3>2. CASE space.cur # ListHead
      <4>1. OnRange(space) /\ SeenBefore(space.offset)
        BY <3>2, <1>2 DEF SeenBehind, BesideRange
      <4>2. space.cur \in 1..Len(l) /\ c < space.cur
        BY <3>2, <2>1, <2>2 DEF Behind, ListHead
      <4>3. l[c].end < l[space.cur].start /\ l[space.cur].start \in Nat
            /\ l[space.cur].end \in Nat
        BY <4>2, <2>1, <2>2, CellsOfLists DEF Ordered
      <4>4. l[c].start < space.offset /\ space.offset \in Nat
        BY <4>1, <4>3, <2>5 DEF OnRange, Extent
      <4> QED
        BY <4>1, <4>4, <2>1, <2>5 DEF SeenBefore, Seen
    <3> QED
      BY <3>1, <3>2
  <2>8. SeenBehind'
    BY <2>2, <2>4, <2>6, <2>7, <1>1, BehindWays
  <2> QED
    BY <2>4, <2>8, <1>1, JumpsBack
<1>6. CASE BackToSkipped
  <2>1. space' = PrevLocationSmart(space, skipped, file.start)
    BY <1>6 DEF BackToSkipped
  <2>2. /\ pc' \in BesidePlaces \cup {"media"}
        /\ pc' = "media" => space'.cur = ListHead
    BY <1>1 DEF BesidePlaces
  <2>3. SeenBehind' /\ space'.list = space.list
    BY <2>1, <2>2, <1>1, <1>2, SmartStaysBehind
  <2> QED
    BY <2>3, <1>1, JumpsBack
<1> QED
  BY <1>3, <1>4, <1>5, <1>6

(* The end of the media.                                                   *)
LEMMA VisitMedia ==
    ASSUME IInv, IInv', VisitInv, EndOfMedia \/ EndOfMediaDone
    PROVE  VisitInv'
<1>1. file \in FileShape /\ SeenBehind
  BY DEF IInv, Shape, VisitInv
<1>2. CASE EndOfMedia
  <2>1. /\ pc = "media"
        /\ UNCHANGED << ret, space, visited, bufAt, oldOffset, out, forgotten,
                        skipped >>
    BY <1>2 DEF EndOfMedia
  <2>2. pc \notin BesidePlaces \cup {"truncate"} /\ ret' # "OK"
    BY <2>1 DEF BesidePlaces, VisitInv, EndIsSeen
  <2>3. ASSUME NEW size \in FinalSizes(file), StartFinish(file, size, "media")
        PROVE  VisitInv'
    BY <2>1, <2>2, <2>3, <1>1, VisitFinishStarts
  <2>4. CASE pc' = "media_done" /\ UNCHANGED << file, fin >>
    <3>1. SeenBehind'
      BY <2>1, <2>2, <2>4, <1>1, PositionStays
    <3> QED
      BY <3>1, <2>1, <2>4, JumpsBack
  <2> QED
    BY <2>3, <2>4, <1>2 DEF EndOfMedia
<1>3. CASE EndOfMediaDone
  <2>1. /\ pc = "media_done" /\ pc' \in {"media_forget", "refill"}
        /\ UNCHANGED << ret, visited, bufAt, oldOffset, file, fin >>
        /\ skipped' \in {skipped, 0}
    BY <1>3 DEF EndOfMediaDone
  <2>2. /\ pc' \in BesidePlaces \cup {"media"}
        /\ pc' = "media" => space'.cur = ListHead
        /\ pc \notin BesidePlaces
    BY <2>1 DEF BesidePlaces
  <2>3. SeenBehind' /\ space'.list = space.list
    <3>1. CASE result = "BAD"
      <4>1. space' = space
        BY <3>1, <1>3 DEF EndOfMediaDone
      <4> QED
        BY <4>1, <2>1, <2>2, <1>1, PositionStays
    <3>2. CASE result # "BAD"
      <4>1. space' = PrevLocationSmart(space, skipped, file.start)
        BY <3>2, <1>3 DEF EndOfMediaDone
      <4> QED
        BY <4>1, <2>1, <2>2, SmartStaysBehind
    <3> QED
      BY <3>1, <3>2
  <2> QED
    BY <2>1, <2>3, JumpsBack
<1> QED
  BY <1>2, <1>3

(* The buffer moves on; the user asks to stop; nothing happens.            *)
LEMMA VisitOther ==
    ASSUME IInv, IInv', VisitInv,
           KeepBuffer \/ ReadBuffer \/ ShowProgress \/ RequestStop
              \/ UNCHANGED vars
    PROVE  VisitInv'
<1>1. CASE KeepBuffer \/ ReadBuffer \/ ShowProgress
  <2>1. /\ pc = "refill" /\ pc' = "top" /\ res' = "SCAN"
        /\ UNCHANGED << ret, space, file, fin, skipped, visited >>
        /\ bufAt' = space.offset \/ (~MustRead /\ bufAt' = bufAt + 1)
    BY <1>1 DEF KeepBuffer, ReadBuffer, ShowProgress, NextIteration
  <2>2. BufferFollows'
    <3>1. bufAt = oldOffset
      BY <2>1 DEF VisitInv, BufferFollows
    <3>2. bufAt' = space'.offset
      BY <3>1, <2>1 DEF MustRead
    <3> QED
      BY <3>2, <2>1 DEF BufferFollows
  <2>3. SeenBehind'
    BY <2>1, PositionStays DEF VisitInv, BesidePlaces
  <2>4. SeenInFile' /\ EndIsSeen'
    BY <2>1 DEF VisitInv, SeenInFile, SeenBefore, FileBlocks, EndIsSeen
  <2>5. LooksHere' /\ TakenIsChecked'
    BY <2>1 DEF LooksHere, TakenIsChecked, AwaitsBlock, BlockWasTaken
  <2> QED
    BY <2>2, <2>3, <2>4, <2>5 DEF VisitInv
<1>2. CASE RequestStop \/ UNCHANGED vars
  <2>1. UNCHANGED << ret, pc, space, bufAt, file, fin, res, oldOffset, skipped,
                     visited >>
    BY <1>2 DEF RequestStop, vars
  <2>2. BufferFollows' /\ LooksHere' /\ TakenIsChecked' /\ EndIsSeen'
    BY <2>1 DEF VisitInv, BufferFollows, LooksHere, TakenIsChecked, EndIsSeen,
                AwaitsBlock, BlockWasTaken, OnRange
  <2>3. SeenBehind'
    BY <2>1, PositionStays DEF VisitInv
  <2>4. SeenInFile'
    BY <2>1 DEF VisitInv, SeenInFile, SeenBefore, FileBlocks
  <2> QED
    BY <2>2, <2>3, <2>4 DEF VisitInv
<1> QED
  BY <1>1, <1>2

(* Every step of photorec_aux keeps the invariant.                         *)
LEMMA VisitStep == IInv /\ IInv' /\ VisitInv /\ [Next]_vars => VisitInv'
<1> SUFFICES ASSUME IInv, IInv', VisitInv, [Next]_vars PROVE VisitInv'
  OBVIOUS
<1>1. CASE Finishing
  BY <1>1, VisitFragment, VisitReturn DEF Finishing
<1>2. CASE EndOfSpace \/ UserStop \/ CheckNoHeader \/ CheckHeader
  BY <1>2, VisitHead
<1>3. CASE \E kind \in Stats : StartFile(kind) \/ CreateFails(kind)
  BY <1>3, VisitNew
<1>4. CASE \/ NoFileInProgress \/ WriteFails \/ SkipIndirectBlock
           \/ \E verdict \in {"CONTINUE", "STOP", "ERROR"},
                 written \in BOOLEAN : WriteBlock(verdict, written)
  BY <1>4, VisitData
<1>5. CASE ForgetRanges
  BY <1>5, VisitForget
<1>6. CASE AdvanceSector \/ AdvanceInFile \/ BackToHeader \/ BackToSkipped
  BY <1>6, VisitAdvance
<1>7. CASE EndOfMedia \/ EndOfMediaDone
  BY <1>7, VisitMedia
<1>8. CASE KeepBuffer \/ ReadBuffer \/ ShowProgress \/ RequestStop
              \/ UNCHANGED vars
  BY <1>8, VisitOther
<1> QED
  BY <1>1, <1>2, <1>3, <1>4, <1>5, <1>6, <1>7, <1>8 DEF Next, Pass

-----------------------------------------------------------------------------
(* The theorems                                                            *)

(* The strengthening holds of every pass.                                  *)
THEOREM VisitInvariant == Spec => []VisitInv
<1>1. IInv /\ IInv' /\ VisitInv /\ [Next]_vars => VisitInv'
  BY VisitStep
<1> QED
  BY <1>1, VisitInit, CarverInvariant, PTL DEF Spec

(* A pass that runs to its end leaves no block in the search space whose   *)
(* bytes it has not looked at, however often it went back to rejected or   *)
(* ignored headers and whatever was given back behind it.                  *)
THEOREM EverythingIsLookedAt == Spec => []EveryBlockLookedAt
<1>1. VisitInv => EveryBlockLookedAt
  BY DEF VisitInv, EndIsSeen, EveryBlockLookedAt
<1> QED
  BY <1>1, VisitInvariant, PTL

(* Unless a checker ignores headers, the position is in the current range  *)
(* whenever the loop looks at a block: the "BUG" that photorec_aux reports *)
(* needs offset_skipped_header.                                            *)
THEOREM OffsetStaysInRange ==
    ASSUME ~IgnoreHeaders
    PROVE  Spec => []OffsetInCurrent
<1>1. VisitInv => OffsetInCurrent
  BY DEF VisitInv, SeenBehind, BesideRange, OffsetInCurrent, OffsetInRange,
         OnRange
<1> QED
  BY <1>1, VisitInvariant, PTL

(* Unless a checker ignores headers, the bytes in the buffer are those of  *)
(* the block that goes to a file, whenever one does: no file begins with   *)
(* the bytes of another block.                                             *)
THEOREM FilesGetTheirBytes ==
    ASSUME ~IgnoreHeaders
    PROVE  Spec => [](AwaitsBlock => bufAt = space.offset)
<1>1. VisitInv => (AwaitsBlock => bufAt = space.offset)
  BY DEF VisitInv, LooksHere
<1> QED
  BY <1>1, VisitInvariant, PTL
-----------------------------------------------------------------------------
(* A file has the bytes of the blocks it claims.  The buffer may hold the   *)
(* bytes of another block than the one at the position, but only when the   *)
(* loop's head has moved the position, and then no file is in progress: a   *)
(* file that begins there has another header's bytes at its start, and no   *)
(* file goes on there.                                                      *)

(* The inductive invariant                                                 *)

(* Nothing was written to file f but the bytes of its own blocks, or those *)
(* of one of the headers hs for its first block.                           *)
RightBytes(f, hs) ==
    \A p \in f.written :
        \/ \E b \in Nat : p = << b, b >>
        \/ IgnoreHeaders /\ \E h \in hs : p = << f.start, h >>

(* Between two files there is nothing in the record of the file.           *)
BetweenFiles ==
    /\ ~Settling /\ ~InProgress => file.written = {}
    /\ pc \in {"new", "forget", "media_done", "media_forget"} => ~InProgress
    /\ pc = "top" => result = "BAD"
    /\ ~Settling /\ result = "OK_TRUNCATED" => ~InProgress /\ pc # "new"

(* The buffer and the position part only where a header was found.         *)
BufferIsRight ==
    AwaitsBlock /\ bufAt # space.offset =>
        /\ IgnoreHeaders
        /\ pc = "data" /\ InProgress => space.offset = file.start
        /\ (pc = "data" /\ ~InProgress) \/ bufAt \in headers

(* With a file in progress the position is never beside its range.         *)
FileOnRange ==
    InProgress /\ pc \in {"top", "advance", "refill"} =>
        OnRange(space) \/ space.cur = ListHead

FilesAreRight ==
    RightBytes(file, headers) /\ \A f \in out : RightBytes(f, headers)

BytesInv == FilesAreRight /\ BetweenFiles /\ BufferIsRight /\ FileOnRange

-----------------------------------------------------------------------------
(* What was written                                                        *)

(* It is what counts of a file, with the file's start.                     *)
LEMMA SameBytes ==
    ASSUME NEW f, NEW g, NEW hs, RightBytes(f, hs),
           g.written = f.written, g.start = f.start
    PROVE  RightBytes(g, hs)
  BY DEF RightBytes

(* Nothing was written to an empty file.                                   *)
LEMMA NoBytes ==
    ASSUME NEW g, NEW hs, g.written = {}
    PROVE  RightBytes(g, hs)
  BY DEF RightBytes

(* One more block is written.                                              *)
LEMMA MoreBytes ==
    ASSUME NEW f, NEW g, NEW hs, RightBytes(f, hs), g.start = f.start,
           NEW o \in Nat, NEW b, g.written = f.written \cup {<< o, b >>},
           b # o => IgnoreHeaders /\ o = f.start /\ b \in hs
    PROVE  RightBytes(g, hs)
<1> SUFFICES ASSUME NEW p \in g.written
             PROVE  \/ \E c \in Nat : p = << c, c >>
                    \/ IgnoreHeaders /\ \E h \in hs : p = << g.start, h >>
  BY DEF RightBytes
<1>1. CASE p \in f.written
  BY <1>1 DEF RightBytes
<1>2. CASE p = << o, b >>
  BY <1>2
<1> QED
  BY <1>1, <1>2

-----------------------------------------------------------------------------
(* The steps                                                               *)

(* The pass begins without a file.                                         *)
LEMMA BytesInit == Init => BytesInv
<1> SUFFICES ASSUME Init PROVE BytesInv
  OBVIOUS
<1>1. /\ file.written = {} /\ file.stat = NoStat /\ out = {} /\ pc = "top"
      /\ result = "BAD"
  BY DEF Init
<1>2. FilesAreRight
  BY <1>1, NoBytes DEF FilesAreRight
<1> QED
  BY <1>1, <1>2 DEF BytesInv, BetweenFiles, BufferIsRight, FileOnRange,
                    AwaitsBlock, InProgress

(* file_finish2 begins with file f.                                        *)
LEMMA BytesFinishStarts ==
    ASSUME BytesInv, UNCHANGED << headers, out >>,
           NEW f \in FileShape, RightBytes(f, headers),
           NEW size, NEW caller, StartFinish(f, size, caller),
           caller = "header" /\ bufAt' # space'.offset =>
               IgnoreHeaders /\ bufAt' \in headers
    PROVE  BytesInv'
<1>1. /\ file'.start = f.start /\ fin'.caller = caller
      /\ pc' \in {"truncate", "reject"}
  BY FinishStarts
<1>2. file'.written = f.written
  BY DEF StartFinish, FileShape
<1>3. FilesAreRight'
  <2>1. RightBytes(file', headers)
    BY <1>1, <1>2, SameBytes
  <2> QED
    BY <2>1 DEF BytesInv, FilesAreRight
<1> QED
  BY <1>1, <1>3 DEF BytesInv, BetweenFiles, BufferIsRight, FileOnRange,
                    AwaitsBlock, Settling

(* The head of the loop moves the position but not with a file in progress. *)
LEMMA BytesHead ==
    ASSUME IInv, VisitInv, BytesInv,
           EndOfSpace \/ UserStop \/ CheckNoHeader \/ CheckHeader
    PROVE  BytesInv'
<1>1. /\ pc = "top" /\ ~Settling /\ UNCHANGED << out, headers, bufAt, result >>
      /\ file \in FileShape /\ result = "BAD"
  BY DEF EndOfSpace, UserStop, CheckNoHeader, CheckHeader, Looking, Return,
         Settling, IInv, Shape, BytesInv, BetweenFiles
<1>2. RightBytes(file, headers)
  BY DEF BytesInv, FilesAreRight
<1>3. file' = file => FilesAreRight'
  BY <1>1 DEF BytesInv, FilesAreRight
<1>4. CASE EndOfSpace \/ UserStop
  <2>1. UNCHANGED file /\ pc' = "returned"
    BY <1>4 DEF EndOfSpace, UserStop, Return
  <2> QED
    BY <2>1, <1>1, <1>3
       DEF BytesInv, BetweenFiles, BufferIsRight, FileOnRange, AwaitsBlock,
           Settling, InProgress
<1>5. ASSUME Looking
      PROVE  /\ bufAt' # space'.offset => IgnoreHeaders /\ ~InProgress
  <2>1. space.cur # ListHead /\ space' = Corrected /\ bufAt = space.offset
    BY <1>1, <1>5 DEF Looking, VisitInv, BufferFollows
  <2>2. ~IgnoreHeaders => bufAt' = space'.offset
    BY <1>5, LooksAtBlock
  <2>3. InProgress => space' = space
    BY <2>1, <1>1 DEF BytesInv, FileOnRange, OnRange, Corrected, OffsetInRange
  <2> QED
    BY <2>1, <2>2, <2>3, <1>1
<1>6. CASE CheckNoHeader
  <2>1. UNCHANGED file /\ pc' = "data" /\ Looking
    BY <1>6 DEF CheckNoHeader
  <2>2. BufferIsRight'
    BY <2>1, <1>5 DEF BufferIsRight, InProgress
  <2> QED
    BY <2>1, <2>2, <1>1, <1>3
       DEF BytesInv, BetweenFiles, FileOnRange, Settling, InProgress
<1>7. CASE CheckHeader
  <2>1. Looking /\ bufAt \in headers
    BY <1>7 DEF CheckHeader
  <2>2. CASE ~InProgress /\ pc' = "new" /\ UNCHANGED << file, fin >>
    <3>1. BufferIsRight'
      BY <2>1, <2>2, <1>1, <1>5 DEF BufferIsRight
    <3> QED
      BY <2>2, <3>1, <1>1, <1>3
         DEF BytesInv, BetweenFiles, FileOnRange, Settling, InProgress
  <2>3. ASSUME NEW size, StartFinish(file, size, "header")
        PROVE  BytesInv'
    BY <2>1, <2>3, <1>1, <1>2, <1>5, BytesFinishStarts
  <2> QED
    BY <2>2, <2>3, <1>7 DEF CheckHeader
<1> QED
  BY <1>4, <1>6, <1>7

(* A new file begins at the position, with what is in the buffer.          *)
LEMMA BytesNew ==
    ASSUME IInv, BytesInv, NEW kind \in Stats,
           StartFile(kind) \/ CreateFails(kind)
    PROVE  BytesInv'
<1>1. /\ pc = "new" /\ UNCHANGED << space, out, headers, bufAt, result >>
      /\ ~Settling /\ file \in FileShape /\ space.offset \in Nat
      /\ kind \in Stats \cup {NoStat}
  BY DEF StartFile, CreateFails, Settling, IInv, Shape, Space
<1>2. file.written = {} /\ result # "OK_TRUNCATED"
  BY <1>1 DEF BytesInv, BetweenFiles
<1>3. bufAt # space.offset => IgnoreHeaders /\ bufAt \in headers
  BY <1>1 DEF BytesInv, BufferIsRight, AwaitsBlock
<1>4. ASSUME NEW opened \in BOOLEAN
      PROVE  /\ NewFile(kind, opened) \in FileShape
             /\ NewFile(kind, opened).written = {}
             /\ NewFile(kind, opened).start = space.offset
             /\ RightBytes(NewFile(kind, opened), headers)
  <2>1. /\ NewFile(kind, opened) \in FileShape
        /\ NewFile(kind, opened).written = {}
        /\ NewFile(kind, opened).start = space.offset
    BY <1>1, <1>2 DEF NewFile, FileShape
  <2> HIDE DEF NewFile
  <2> QED
    BY <2>1, NoBytes
<1>5. CASE StartFile(kind)
  <2>1. pc' = "data" /\ file' = NewFile(kind, kind \notin Unsaved)
    BY <1>5 DEF StartFile
  <2>2. (kind \notin Unsaved) \in BOOLEAN
    OBVIOUS
  <2>3. /\ file'.written = {} /\ file'.start = space.offset
        /\ RightBytes(file', headers)
    BY <2>1, <2>2, <1>4
  <2>4. FilesAreRight'
    BY <2>3, <1>1 DEF BytesInv, FilesAreRight
  <2>5. BufferIsRight'
    BY <2>3, <1>1, <1>3 DEF BufferIsRight
  <2> QED
    BY <2>1, <2>3, <2>4, <2>5, <1>1, <1>2
       DEF BytesInv, BetweenFiles, FileOnRange
<1>6. CASE CreateFails(kind)
  <2>1. StartFinish(NewFile(kind, FALSE), 0, "abort")
    BY <1>6 DEF CreateFails, Abort
  <2>2. /\ NewFile(kind, FALSE) \in FileShape
        /\ RightBytes(NewFile(kind, FALSE), headers)
    BY <1>4
  <2> HIDE DEF NewFile
  <2> QED
    BY <2>1, <2>2, <1>1, BytesFinishStarts
<1> QED
  BY <1>5, <1>6

(* The block has gone to file f.                                           *)
LEMMA BytesTaken ==
    ASSUME IInv, VisitInv, BytesInv, TakeBlock, Space(space'),
           NEW f \in FileShape,
           RightBytes(f, headers), f.stat = file.stat, f.start = file.start,
           NEW verdict, Verdict(f, verdict)
    PROVE  BytesInv'
<1>1. /\ pc = "data" /\ space' = RemoveBlock(space) /\ InProgress
      /\ UNCHANGED << headers, bufAt, result, out >>
  BY DEF TakeBlock
<1>2. /\ OnRange(space) /\ Space(space)
      /\ space.offset \in BlocksOf(space.list)
  BY <1>1 DEF VisitInv, LooksHere, AwaitsBlock, IInv, Shape, OffsetIsFree
<1>3. /\ NextPlace(space, space')
      /\ BlocksOf(space'.list) \subseteq BlocksOf(space.list)
  BY <1>1, <1>2, RemoveBlockCorrect
<1>4. space'.cur # ListHead => OnRange(space')
  BY <1>2, <1>3, NextPassed
<1>5. CASE pc' = "advance" /\ file' = f
  <2>1. FilesAreRight'
    BY <1>1, <1>5 DEF BytesInv, FilesAreRight
  <2>2. BetweenFiles'
    BY <1>1, <1>5 DEF BytesInv, BetweenFiles, Settling, InProgress
  <2> QED
    BY <2>1, <2>2, <1>4, <1>5
       DEF BytesInv, BufferIsRight, FileOnRange, AwaitsBlock
<1>6. ASSUME NEW size, StartFinish(f, size, "data")
      PROVE  BytesInv'
  BY <1>1, <1>6, BytesFinishStarts
<1>7. \/ pc' = "advance" /\ file' = f
      \/ \E size : StartFinish(f, size, "data")
  BY DEF Verdict
<1> QED
  BY <1>5, <1>6, <1>7

(* What happens at the block while pc = "data".                            *)
LEMMA BytesData ==
    ASSUME IInv, IInv', VisitInv, BytesInv,
           \/ NoFileInProgress \/ WriteFails \/ SkipIndirectBlock
           \/ \E verdict \in {"CONTINUE", "STOP", "ERROR"}, written \in BOOLEAN :
                  WriteBlock(verdict, written)
    PROVE  BytesInv'
<1>1. /\ file \in FileShape /\ space.offset \in Nat /\ bufAt \in Nat
      /\ file.size \in Nat /\ file.written \in SUBSET (Nat \X Nat)
      /\ Space(space')
  BY DEF IInv, Shape, Space, FileShape
<1>2. /\ pc = "data" /\ ~Settling /\ UNCHANGED << out, headers, bufAt, result >>
      /\ RightBytes(file, headers)
  BY DEF NoFileInProgress, WriteFails, SkipIndirectBlock, WriteBlock, TakeBlock,
         Settling, BytesInv, FilesAreRight
<1>3. CASE NoFileInProgress
  <2>1. pc' = "advance" /\ UNCHANGED file /\ ~InProgress
    BY <1>3 DEF NoFileInProgress
  <2> QED
    BY <2>1, <1>2
       DEF BytesInv, FilesAreRight, BetweenFiles, BufferIsRight, FileOnRange,
           AwaitsBlock, Settling, InProgress
<1>4. CASE WriteFails
  <2>1. StartFinish(file, 0, "abort")
    BY <1>4 DEF WriteFails, Abort
  <2> QED
    BY <2>1, <1>1, <1>2, BytesFinishStarts
<1> DEFINE o == space.offset
           added(data) == AddToFile(file.loc, o, data)
<1>5. ASSUME TakeBlock, NEW data \in {0, 1}
      PROVE  added(data) \in Seq(Fragment)
  <2>1. o \in BlocksOf(space.list) /\ fin.kept = <<>>
    BY <1>5 DEF TakeBlock, IInv, OffsetIsFree, AwaitsBlock, KeptInTruncate
  <2>2. o \notin BlocksOf(file.loc)
    BY <2>1 DEF IInv, Partition, FileBlocks
  <2>3. file.loc \in Seq(Fragment) /\ Apart(file.loc)
    BY DEF IInv, Shape, FileShape
  <2> QED
    BY <2>2, <2>3, <1>1, AddToFileCorrect
<1> HIDE DEF added
<1>6. CASE SkipIndirectBlock
  <2> DEFINE f == [file EXCEPT !.loc = added(0)]
  <2>1. TakeBlock /\ Verdict(f, "CONTINUE")
    BY <1>6 DEF SkipIndirectBlock, added
  <2>2. /\ f \in FileShape /\ f.start = file.start /\ f.stat = file.stat
        /\ f.written = file.written
    BY <2>1, <1>1, <1>5 DEF FileShape
  <2> HIDE DEF f
  <2>3. RightBytes(f, headers)
    BY <2>2, <1>2, SameBytes
  <2> QED
    BY <2>1, <2>2, <2>3, <1>1, BytesTaken
<1>7. ASSUME NEW verdict \in {"CONTINUE", "STOP", "ERROR"},
             NEW written \in BOOLEAN, WriteBlock(verdict, written)
      PROVE  BytesInv'
  <2> DEFINE w == IF file.open /\ written
                  THEN file.written \cup {<< o, bufAt >>} ELSE file.written
             f == [file EXCEPT !.loc = added(1), !.size = @ + 1, !.written = w]
  <2>1. TakeBlock /\ Verdict(f, verdict) /\ InProgress
    BY <1>7 DEF WriteBlock, TakeBlock, added
  <2>2. /\ added(1) \in Seq(Fragment) /\ w \in SUBSET (Nat \X Nat)
        /\ file.size + 1 \in Nat
    BY <2>1, <1>1, <1>5
  <2>3. w = file.written \cup {<< o, bufAt >>} \/ w = file.written
    OBVIOUS
  <2> HIDE DEF w
  <2>4. /\ f \in FileShape /\ f.start = file.start /\ f.stat = file.stat
        /\ f.written = w
    BY <2>2, <1>1 DEF FileShape
  <2> HIDE DEF f
  <2>5. bufAt # o => IgnoreHeaders /\ o = file.start /\ bufAt \in headers
    BY <2>1, <1>2 DEF BytesInv, BufferIsRight, AwaitsBlock
  <2> HIDE DEF o
  <2>6. o \in Nat
    BY <1>1 DEF o
  <2>7. RightBytes(f, headers)
    <3>1. CASE w = file.written
      BY <3>1, <2>4, <1>2, SameBytes
    <3>2. CASE w = file.written \cup {<< o, bufAt >>}
      <4>1. f.written = file.written \cup {<< o, bufAt >>}
        BY <3>2, <2>4
      <4> QED
        BY <4>1, <2>4, <2>5, <2>6, <1>2, MoreBytes
    <3> QED
      BY <3>1, <3>2, <2>3
  <2> QED
    BY <2>1, <2>4, <2>7, <1>1, BytesTaken
<1> QED
  BY <1>3, <1>4, <1>6, <1>7

(* One fragment is settled, or file_finish2 returns.                       *)
LEMMA BytesFinishing ==
    ASSUME IInv, BytesInv, Finishing
    PROVE  BytesInv'
<1>1. CASE RejectFirst \/ RejectRest \/ TruncateFragment
  <2>1. /\ pc \in {"truncate", "reject", "reject_rest"}
        /\ pc' \in {"truncate", "reject", "reject_rest"}
        /\ UNCHANGED << headers, bufAt, result, out >>
        /\ file' = [file EXCEPT !.loc = Tail(@)]
    BY <1>1 DEF RejectFirst, RejectRest, TruncateFragment
  <2>2. Settled
    BY <1>1, RejectFirstStep, RejectRestStep, TruncateStep
  <2>3. file'.written = file.written /\ file'.start = file.start
    BY <2>1 DEF IInv, Shape, FileShape
  <2>4. FilesAreRight'
    <3>1. RightBytes(file', headers)
      BY <2>3, SameBytes DEF BytesInv, FilesAreRight
    <3> QED
      BY <3>1, <2>1 DEF BytesInv, FilesAreRight
  <2>5. BufferIsRight'
    <3>1. AwaitsBlock' => AwaitsBlock
      BY <2>1, <2>2 DEF AwaitsBlock, Settled
    <3> QED
      BY <3>1, <2>1, <2>2 DEF BytesInv, BufferIsRight, Settled
  <2> QED
    BY <2>1, <2>4, <2>5 DEF BytesInv, BetweenFiles, FileOnRange, Settling
<1>2. CASE Rejected \/ Accepted
  <2>1. /\ pc \in {"truncate", "reject", "reject_rest"}
        /\ UNCHANGED << space, headers, bufAt >>
    BY <1>2 DEF Rejected, Accepted
  <2>2. PICK r \in {"BAD", "OK_TRUNCATED", "OK"} : FinishReturns(r)
    BY <1>2 DEF Rejected, Accepted
  <2>3. file \in FileShape /\ fin \in FinShape
    BY DEF IInv, Shape
  <2>4. file'.written = {} /\ file'.stat = NoStat
    BY <2>2, <2>3 DEF FinishReturns, ResetFile, FileShape
  <2>5. /\ pc' \in {"data", "new", "advance", "forget", "media_done", "returned"}
        /\ pc' \in {"data", "new"} => fin.caller = "header"
        /\ pc' = "new" => result' # "OK_TRUNCATED"
    BY <2>2, <2>3 DEF FinishReturns, FinShape
  <2>6. FilesAreRight'
    <3>1. RightBytes(file', headers)
      BY <2>4, NoBytes
    <3>2. CASE Rejected
      BY <3>1, <3>2, <2>1 DEF Rejected, BytesInv, FilesAreRight
    <3>3. CASE Accepted
      <4> DEFINE g == [start |-> file.start, saved |-> file.open,
                       loc |-> fin.kept, written |-> file.written]
      <4>1. out' = out \cup {g}
        BY <3>3 DEF Accepted
      <4>2. g.written = file.written /\ g.start = file.start
        OBVIOUS
      <4> HIDE DEF g
      <4>3. RightBytes(g, headers)
        BY <4>2, SameBytes DEF BytesInv, FilesAreRight
      <4> QED
        BY <3>1, <4>1, <4>3, <2>1 DEF BytesInv, FilesAreRight
    <3> QED
      BY <3>2, <3>3, <1>2
  <2>7. BufferIsRight'
    <3>1. AwaitsBlock' => AwaitsBlock
      BY <2>1, <2>5 DEF AwaitsBlock
    <3> QED
      BY <3>1, <2>1, <2>4, <2>5 DEF BytesInv, BufferIsRight, InProgress
  <2> QED
    BY <2>4, <2>5, <2>6, <2>7
       DEF BytesInv, BetweenFiles, FileOnRange, InProgress
<1> QED
  BY <1>1, <1>2 DEF Finishing

(* The rest of the loop body: nothing is written.                          *)
LEMMA BytesOther ==
    ASSUME IInv, IInv', VisitInv, BytesInv,
           \/ ForgetRanges \/ AdvanceSector \/ AdvanceInFile \/ BackToHeader
           \/ BackToSkipped \/ EndOfMedia \/ EndOfMediaDone
           \/ KeepBuffer \/ ReadBuffer \/ ShowProgress \/ RequestStop
           \/ UNCHANGED vars
    PROVE  BytesInv'
<1>1. UNCHANGED << headers, out >>
  BY DEF ForgetRanges, AdvanceSector, AdvanceInFile, BackToHeader, BackToSkipped,
         EndOfMedia, EndOfMediaDone, KeepBuffer, ReadBuffer, ShowProgress,
         NextIteration, RequestStop, vars
<1>2. UNCHANGED file => FilesAreRight'
  BY <1>1 DEF BytesInv, FilesAreRight
<1>3. CASE RequestStop \/ UNCHANGED vars
  BY <1>2, <1>3
     DEF RequestStop, vars, BytesInv, BetweenFiles, BufferIsRight,
         FileOnRange, AwaitsBlock, Settling, InProgress
<1>4. CASE ForgetRanges
  <2>1. /\ pc \in {"forget", "media_forget"} /\ pc' \in {"advance", "refill"}
        /\ UNCHANGED << file, result >>
    BY <1>4 DEF ForgetRanges
  <2>2. ~InProgress
    BY <2>1 DEF BytesInv, BetweenFiles
  <2> QED
    BY <2>1, <2>2, <1>2
       DEF BytesInv, BetweenFiles, BufferIsRight, FileOnRange, AwaitsBlock,
           Settling, InProgress
<1>5. CASE AdvanceSector \/ AdvanceInFile \/ BackToHeader \/ BackToSkipped
  <2>1. /\ pc = "advance" /\ pc' \in {"media", "refill"} /\ ~Settling
        /\ UNCHANGED << file, result >>
    BY <1>5 DEF AdvanceSector, AdvanceInFile, BackToHeader, BackToSkipped,
                AfterAdvance, Settling
  <2>2. FileOnRange'
    <3>1. CASE AdvanceSector
      <4>1. OnRange(space) /\ Space(space) /\ Space(space')
        BY <2>1, <3>1
           DEF AdvanceSector, VisitInv, LooksHere, IInv, Shape
      <4>2. NextPlace(space, space') /\ space'.list = space.list
        BY <4>1, <3>1, NextSectorPlace, GetNextSectorCorrect DEF AdvanceSector
      <4>3. space'.cur # ListHead => OnRange(space')
        BY <4>1, <4>2, NextPassed
      <4> QED
        BY <4>3 DEF FileOnRange
    <3>2. CASE AdvanceInFile
      BY <2>1, <3>2 DEF AdvanceInFile, BytesInv, FileOnRange, InProgress
    <3>3. CASE BackToHeader \/ BackToSkipped
      <4>1. ~InProgress
        BY <2>1, <3>3
           DEF BackToHeader, BackToSkipped, Recovered, BytesInv, BetweenFiles
      <4> QED
        BY <4>1, <2>1 DEF FileOnRange, InProgress
    <3> QED
      BY <3>1, <3>2, <3>3, <1>5
  <2> QED
    BY <2>1, <2>2, <1>2
       DEF BytesInv, BetweenFiles, BufferIsRight, AwaitsBlock, Settling,
           InProgress
<1>6. CASE EndOfMedia
  <2>1. pc = "media" /\ file \in FileShape /\ ~Settling
    BY <1>6 DEF EndOfMedia, IInv, Shape, Settling
  <2>2. CASE ~InProgress /\ pc' = "media_done" /\ result' = "BAD"
             /\ UNCHANGED << file, fin >>
    BY <2>1, <2>2, <1>2
       DEF BytesInv, BetweenFiles, BufferIsRight, FileOnRange, AwaitsBlock,
           Settling, InProgress
  <2>3. ASSUME NEW size, StartFinish(file, size, "media")
        PROVE  BytesInv'
    <3>1. RightBytes(file, headers)
      BY DEF BytesInv, FilesAreRight
    <3> QED
      BY <3>1, <2>1, <2>3, <1>1, BytesFinishStarts
  <2> QED
    BY <2>2, <2>3, <1>6 DEF EndOfMedia
<1>7. CASE EndOfMediaDone
  <2>1. /\ pc = "media_done" /\ pc' \in {"media_forget", "refill"}
        /\ UNCHANGED << file, result >>
    BY <1>7 DEF EndOfMediaDone
  <2>2. ~InProgress
    BY <2>1 DEF BytesInv, BetweenFiles
  <2> QED
    BY <2>1, <2>2, <1>2
       DEF BytesInv, BetweenFiles, BufferIsRight, FileOnRange, AwaitsBlock,
           Settling, InProgress
<1>8. CASE KeepBuffer \/ ReadBuffer \/ ShowProgress
  <2>1. /\ pc = "refill" /\ pc' = "top" /\ result' = "BAD"
        /\ UNCHANGED << file, space >>
    BY <1>8 DEF KeepBuffer, ReadBuffer, ShowProgress, NextIteration
  <2> QED
    BY <2>1, <1>2
       DEF BytesInv, BetweenFiles, BufferIsRight, FileOnRange, AwaitsBlock,
           Settling, InProgress
<1> QED
  BY <1>3, <1>4, <1>5, <1>6, <1>7, <1>8

(* Every step keeps the invariant.                                         *)
LEMMA BytesStep ==
    IInv /\ IInv' /\ VisitInv /\ BytesInv /\ [Next]_vars => BytesInv'
<1> SUFFICES ASSUME IInv, IInv', VisitInv, BytesInv, [Next]_vars
             PROVE  BytesInv'
  OBVIOUS
<1>1. CASE Finishing
  BY <1>1, BytesFinishing
<1>2. CASE EndOfSpace \/ UserStop \/ CheckNoHeader \/ CheckHeader
  BY <1>2, BytesHead
<1>3. CASE \E kind \in Stats : StartFile(kind) \/ CreateFails(kind)
  BY <1>3, BytesNew
<1>4. CASE \/ NoFileInProgress \/ WriteFails \/ SkipIndirectBlock
           \/ \E verdict \in {"CONTINUE", "STOP", "ERROR"},
                 written \in BOOLEAN : WriteBlock(verdict, written)
  BY <1>4, BytesData
<1>5. CASE \/ ForgetRanges \/ AdvanceSector \/ AdvanceInFile \/ BackToHeader
           \/ BackToSkipped \/ EndOfMedia \/ EndOfMediaDone
           \/ KeepBuffer \/ ReadBuffer \/ ShowProgress \/ RequestStop
           \/ UNCHANGED vars
  BY <1>5, BytesOther
<1> QED
  BY <1>1, <1>2, <1>3, <1>4, <1>5 DEF Next, Pass

-----------------------------------------------------------------------------
(* The theorems                                                            *)

(* The strengthening holds of every pass.                                  *)
THEOREM BytesInvariant == Spec => []BytesInv
<1>1. IInv /\ IInv' /\ VisitInv /\ BytesInv /\ [Next]_vars => BytesInv'
  BY BytesStep
<1> QED
  BY <1>1, BytesInit, CarverInvariant, VisitInvariant, PTL DEF Spec

(* A saved file has the bytes of every block of data it was recovered      *)
(* with, as the disk has them, however the pass jumped back before it and  *)
(* however it was cut at its end: a write that failed either ended the     *)
(* file, or came after as many blocks as the destination can hold in one   *)
(* file.  Where headers are ignored, the first block may have the bytes of *)
(* another header.                                                         *)
THEOREM KeptBlocksAreWritten == Spec => []KeptIsWritten
<1>1. KeptInv /\ BytesInv => KeptIsWritten
  <2> SUFFICES ASSUME KeptInv, BytesInv, NEW f \in out, f.saved
               PROVE  LET data == DataBlocks(f.loc)
                          held == {b \in data : HasBytes(f, b)}
                      IN  \/ held = data
                          \/ /\ "EFBIG" \in WriteErrors
                             /\ Cardinality(held) >= LargestFile
    BY DEF KeptIsWritten
  <2> DEFINE data == DataBlocks(f.loc)
             held == {b \in data : HasBytes(f, b)}
  <2>1. ASSUME NEW b \in Filled(f) PROVE HasBytes(f, b)
    <3>1. PICK p \in f.written : b = p[1]
      BY <2>1 DEF Filled
    <3>2. \/ \E c \in Nat : p = << c, c >>
          \/ IgnoreHeaders /\ \E h \in headers : p = << f.start, h >>
      BY DEF BytesInv, FilesAreRight, RightBytes
    <3> QED
      BY <3>1, <3>2 DEF HasBytes
  <2>2. ASSUME NEW b, HasBytes(f, b) PROVE b \in Filled(f)
    <3>1. PICK c : << b, c >> \in f.written
      BY <2>2 DEF HasBytes
    <3>2. << b, c >>[1] = b
      OBVIOUS
    <3> QED
      BY <3>1, <3>2 DEF Filled
  <2>3. held = data \cap Filled(f)
    BY <2>1, <2>2
  <2>4. \/ data \subseteq Filled(f)
        \/ /\ "EFBIG" \in WriteErrors
           /\ Cardinality(data \cap Filled(f)) >= LargestFile
    BY DEF KeptInv, KeptIsFilled
  <2> HIDE DEF data
  <2> QED
    BY <2>3, <2>4 DEF data
<1> QED
  BY <1>1, KeptInvariant, BytesInvariant, PTL
=============================================================================
