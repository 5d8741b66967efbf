----------------------------- MODULE BruteForce -----------------------------
(***************************************************************************)
(* photorec_bf (phbf.c): the pass that tries to recover fragmented files.  *)
(* It walks over the ranges from the last one back.  A file whose check    *)
(* reports an error at some offset is cut there, the search goes on behind *)
(* it, and what lies there is appended, leaving out ever more blocks, until*)
(* the check is content; an error further on is a further gap.             *)
(*                                                                         *)
(* `pc` is                                                                 *)
(*   open     the head of the loop over the ranges                         *)
(*   scan     the do loop: one block of the file in progress               *)
(*   finish   file_finish_bf after it                                      *)
(*   level    photorec_bf_frag: the next attempt of the innermost call     *)
(*   fill     photorec_bf_frag_fast: the blocks before the gap             *)
(*   skip     the loop of photorec_bf_frag over blocs_to_skip              *)
(*   pad      photorec_bf_pad                                              *)
(*   settle   the file_finish2 of photorec_bf_aux; full after BF_ENOSPC    *)
(*   next     the walk goes to another range; ahead after photorec_bf_aux  *)
(*   done     photorec_bf returned indStop                                 *)
(*   broken   the walk is at a freed cell, a block that is not in the      *)
(*            search space is taken, or the blocks of a file are forgotten:*)
(*            what happens then is not followed                            *)
(*                                                                         *)
(* Either the checkers give every answer they may, or one file is on the   *)
(* disk, in the blocks `whole`, and they find the block where what was     *)
(* gathered departs from it.  Sizes are in blocks; offset_error and        *)
(* offset_ok, whose place within a block matters, are in half blocks (Half *)
(* to a block).  mStopRecovrey is not looked at in this pass, and          *)
(* set_photorec_progressbar always says PSTATUS_OK, so that a user cannot  *)
(* stop it and BF_STOP does not occur.                                     *)
(***************************************************************************)
EXTENDS SearchSpace

CONSTANTS
    Blocks,         \* number of blocks on the disk
    AnyBlocks,      \* bound: of these free, when a checker may say anything
    MaxWhole,       \* bound: blocks of the file that is on the disk
    ScanFaults,     \* bound: of these free, when fopen, and fwrite in the
                    \* scan, may fail; fwrite in the search may always fail
    Unsaved,        \* kinds of file that are not written out (recover == 0)
    Extras,         \* blocks jpg_search_marker may find in the way
    MaxFrag,        \* 5 in the code: photorec_bf_frag calls itself to 6
    MaxSkip,        \* 5000: bound of blocs_to_skip
    PatienceFirst, PatienceSecond,
                    \* 16, 100: skips tried however early the error is
    PadChecked,     \* 1000: blocks added at most, with a data_check
    PadPlain,       \* 100: without
    Window          \* 6*512 bytes in half blocks

ASSUME BruteForceAssumption ==
    /\ Blocks \in Nat \ {0} /\ AnyBlocks \in 0..Blocks /\ MaxWhole \in Nat
    /\ ScanFaults \in 0..AnyBlocks
    /\ Extras \subseteq Nat \ {0}
    /\ MaxFrag \in Nat /\ MaxSkip \in Nat /\ Window \in Nat
    /\ PatienceFirst \in Nat /\ PatienceSecond \in Nat
    /\ Stats # {} /\ Unsaved \subseteq Stats
    /\ PadChecked \in Nat \ {0} /\ PadPlain \in Nat \ {0}

VARIABLES
    headers,    \* content of the disk: the blocks where a file starts
    whole,      \* the blocks of the file on the disk, <<>>: none in particular
    pc, phase,
    indStop,    \* ind_stop
    space,      \* list_search_space, current_search_space, offset
    prev,       \* p: the cell before the one the walk is at
    start,      \* start_search_space
    file,       \* file_recovery
    levels,     \* the calls of photorec_bf_frag in progress
    pad,        \* photorec_bf_pad: file_offset, offset_error_tmp, nbr, stop
    todo,       \* photorec_bf_frag_fast: blocks still to come before the gap
    nextFile,   \* offset_next_file
    lastEnd,    \* free_list_allocation_end after the last file, -1: none yet
    counted,    \* file_nbr is not file_nbr_old
    out,        \* blocks of recovered files
    lost,       \* blocks of files that were closed without being recovered
    ghost       \* what the properties look at, see Ghost

vars == << headers, whole, pc, phase, indStop, space, prev, start, file, levels, pad,
           todo, nextFile, lastEnd, counted, out, lost, ghost >>

(* What the scan leaves alone.                                             *)
search == << levels, pad, todo, start >>

Disk == 0..(Blocks - 1)
Half == 2
Freed == -1

NoFile == [stat |-> NoStat, start |-> 0, open |-> FALSE, check |-> FALSE,
           loc |-> <<>>, size |-> 0, err |-> 0, top |-> 0]

(* owned: blocks of files recovered before.  marks: headers rejected       *)
(* before.  unmarked: of these, those that were taken as the content of    *)
(* another file or whose file was truncated to nothing.  spoilt: this file *)
(* does not begin with its first block, because the first fopen failed or  *)
(* photorec_bf_frag_fast dropped it.  short: the search went on from an    *)
(* error behind the blocks of the file: photorec_bf_frag_fast left fewer,  *)
(* or the check looked at the output of an earlier attempt.                *)
(* before: what was recovered when the walk came to this range.            *)
Ghost(owned, marks) == [owned |-> owned, marks |-> marks, unmarked |-> {},
                        spoilt |-> FALSE, short |-> FALSE, before |-> {}]

(* The free blocks as a list, a range for each run of them and for each    *)
(* mark, the kind of file that was found at it: run[n] has the blocks      *)
(* before n.                                                               *)
WithBlock(list, b, free, marks, kind) ==
    LET joins == list # <<>> /\ Last(list).end + 1 = b /\ b \notin marks
    IN  IF b \notin free THEN list
        ELSE IF joins THEN [list EXCEPT ![Len(list)].end = b]
        ELSE Append(list, [start |-> b, end |-> b,
                           stat |-> IF b \in marks THEN kind ELSE NoStat])

Runs(free, marks, kind) ==
    LET run[n \in 0..Blocks] ==
            IF n = 0 THEN <<>> ELSE WithBlock(run[n - 1], n - 1, free, marks, kind)
    IN  run

ListOf(free, marks, kind) == Runs(free, marks, kind)[Blocks]

Files == UNION { [1..n -> Disk] : n \in 1..MaxWhole }

Init ==
    /\ \E free \in SUBSET Disk :
         /\ headers \in SUBSET free
         /\ \/ whole = <<>> /\ free \subseteq 0..(AnyBlocks - 1)
            \/ /\ whole \in { w \in Files : \A i, j \in DOMAIN w : i < j => w[i] < w[j] }
               /\ Range(whole) \subseteq free
               /\ Range(whole) \cap headers = {whole[1]}
         /\ \E marks \in IF whole = <<>> THEN SUBSET headers ELSE {headers} :
           LET list == ListOf(free, marks, CHOOSE k \in Stats : TRUE)
           IN  /\ space = [list |-> list, cur |-> Len(list), offset |-> 0]
               /\ ghost = Ghost(Disk \ free, marks)
    /\ pc = "open" /\ phase = 0 /\ indStop = "OK"
    /\ prev = ListHead /\ start = ListHead /\ file = NoFile
    /\ levels = <<>> /\ pad = <<>> /\ todo = 0
    /\ nextFile = 0 /\ lastEnd = -1 /\ counted = FALSE
    /\ out = {} /\ lost = {}

-----------------------------------------------------------------------------
(* Cells, fragments and blocks                                             *)

AnyAnswer == whole = <<>>

(* The index of a cell after the list was changed: it still has a block of *)
(* those it had, and a new cell is inserted behind the rest of a split one.*)
SameCell(old, new, cell) ==
    IF cell \in {ListHead, Freed} THEN cell
    ELSE LET here == SelectInSeq(new, LAMBDA r : Extent(r) \cap Extent(old[cell]) # {})
         IN  IF here = 0 THEN Freed ELSE here

FollowCells ==
    /\ prev' = SameCell(space.list, space'.list, prev)
    /\ start' = SameCell(space.list, space'.list, start)

(* The blocks of the first i fragments.                                    *)
Sums(loc) ==
    LET sum[i \in 0..Len(loc)] == IF i = 0 THEN 0 ELSE sum[i - 1] + Size(loc[i])
    IN  sum

SizeOf(loc) == Sums(loc)[Len(loc)]

(* Of fragment i, when the file is cut to size.                            *)
Kept(loc, size, i) == Max({0, Min({Size(loc[i]), size - Sums(loc)[i - 1]})})

TruncatedLast(s, loc, size) ==      \* mutant: only the last fragment goes back
    IF loc = <<>> THEN s
    ELSE GiveBack(s, Last(loc).start + Kept(loc, size, Len(loc)), Last(loc).end)

(* file_block_truncate: what is beyond size goes back, fragment by         *)
(* fragment.                                                               *)
Returns(s, loc, size) ==
    LET given[i \in 0..Len(loc)] ==
            IF i = 0 THEN s
            ELSE GiveBack(given[i - 1], loc[i].start + Kept(loc, size, i), loc[i].end)
    IN  given

TruncatedSpace(s, loc, size) == Returns(s, loc, size)[Len(loc)]

(* The fragments that keep a block are the first ones.                     *)
Remaining(loc, size) == Max({0} \cup { i \in DOMAIN loc : Sums(loc)[i - 1] < size })

TruncatedLoc(loc, size) ==
    [i \in 1..Remaining(loc, size) |->
        [loc[i] EXCEPT !.end = loc[i].start + Kept(loc, size, i) - 1]]

RejectUnmarked(s, f) == TruncatedSpace(s, f.loc, 0)     \* mutant

(* file_block_truncate_zero: the first fragment keeps the kind of file.    *)
Reject(s, f) ==
    IF f.loc = <<>> THEN s
    ELSE TruncatedSpace(GiveBackHeader(s, f.loc[1].start, f.loc[1].end, f.stat),
                        Tail(f.loc), 0)

(* file_block_move: the first range behind the last fragment.  The end of  *)
(* an empty location is 0.  The offset stays when there is no such range.  *)
MoveBehind(s, loc) ==
    LET end == IF loc = <<>> THEN 0 ELSE Last(loc).end
        next == SelectInSeq(s.list, LAMBDA r : r.start > end)
    IN  IF next = 0 THEN [s EXCEPT !.cur = ListHead] ELSE MoveTo(s, next)

(* file_block_truncate_and_move to size blocks.  (offset_ok and extra are  *)
(* read only where they were just reported: they are in Report and Level.) *)
Cut(f, size) ==
    [f EXCEPT !.loc = TruncatedLoc(@, size), !.size = size,
              !.err = IF @ > Half * size THEN 0 ELSE @]

CutSpace(s, f, size) ==
    MoveBehind(TruncatedSpace(s, f.loc, size), TruncatedLoc(f.loc, size))

(* pnext.h get_next_header and n times get_next_sector.                    *)
NextHeader(s) == MoveTo(s, IF s.cur = ListHead THEN ListHead ELSE NextEntry(s.list, s.cur))

Sectors(s, n) ==
    LET walk[i \in 0..n] == IF i = 0 THEN s ELSE GetNextSector(walk[i - 1]) IN walk

Skip(s, n) == Sectors(s, n)[n]

(* file_block_append of the block at the offset.                           *)
Extended(f, at) == [f EXCEPT !.loc = AddToFile(@, at, 1), !.size = @ + 1,
                             !.top = Max({@, f.size + 1})]

StartsMarked(s) == \E i \in DOMAIN s.list :
                       s.list[i].start = s.offset /\ s.list[i].stat # NoStat

Beginning(f) == { f.loc[i].start : i \in DOMAIN f.loc \cap {1} }

Taken(g, s, f) ==
    [g EXCEPT !.unmarked = IF StartsMarked(s) /\ f.loc # <<>>
                           THEN @ \cup {s.offset} ELSE @]

-----------------------------------------------------------------------------
(* The walk over the ranges                                                *)

Open ==
    /\ pc = "open"
    /\ IF space.cur # ListHead /\ indStop = "OK"
       THEN /\ pc' = "scan"
            /\ prev' = space.cur - 1
            /\ space' = MoveTo(space, space.cur)
            /\ UNCHANGED phase
       ELSE /\ pc' = IF phase = 0 THEN "open" ELSE "done"
            /\ phase' = 1
            /\ space' = IF phase = 0 THEN [space EXCEPT !.cur = Len(space.list)]
                        ELSE space
            /\ UNCHANGED prev
    /\ UNCHANGED << headers, whole, indStop, file, search, nextFile, lastEnd, counted, out,
                    lost, ghost >>

AtStart == space.list[space.cur].start = space.offset

(* What the header checks may say at the start of a range.  Inside a file  *)
(* they may pass over a header.                                            *)
Recognised ==
    IF ~AtStart \/ space.offset \notin headers THEN {NoStat}
    ELSE IF ~AnyAnswer THEN Stats \ Unsaved
    ELSE IF file.stat = NoStat THEN Stats ELSE Stats \cup {NoStat}

Saved(f) == f.stat \notin Unsaved \cup {NoStat}

Faulty == AnyAnswer /\ (Disk \ ghost.owned) \subseteq 0..(ScanFaults - 1)

Creations(f) == IF f.open \/ ~Saved(f) THEN {f.open}
                ELSE {TRUE} \cup (IF Faulty THEN {FALSE} ELSE {})

(* One iteration.  An fwrite that fails is remembered, and the block taken *)
(* all the same; after a failed fopen the next block tries again.          *)
Scan ==
    /\ pc = "scan"
    /\ \E kind \in Recognised, checked \in BOOLEAN, full \in BOOLEAN,
          written \in IF Faulty THEN BOOLEAN ELSE {TRUE} :
         LET found == kind # NoStat /\ file.stat = NoStat
             ends == AtStart /\ ((kind = NoStat) <=> (file.stat = NoStat))
             f == IF found THEN [NoFile EXCEPT !.stat = kind, !.check = checked,
                                               !.start = space.offset]
                  ELSE file
         IN  /\ checked => found /\ AnyAnswer
             /\ \E open \in Creations(f) :
                  LET takes == open /\ ~ends
                  IN  /\ (full \/ ~written) => takes
                      /\ full => AnyAnswer
                      /\ space' = IF takes THEN RemoveBlock(space)
                                  ELSE GetNextSector(space)
                      /\ file' = IF takes THEN [Extended(f, space.offset)
                                                  EXCEPT !.open = TRUE]
                                 ELSE [f EXCEPT !.open = open]
                      /\ ghost' = IF takes THEN Taken(ghost, space, f)
                                  ELSE [ghost EXCEPT !.spoilt = @ \/ (~open /\ Saved(f))]
                      /\ indStop' = IF ~written THEN "ENOSPC"
                                    ELSE IF ~open /\ Saved(f) THEN "EACCES"
                                    ELSE indStop
                      /\ pc' = IF ends \/ full \/ space'.cur = ListHead
                               THEN "finish" ELSE "scan"
    /\ prev' = SameCell(space.list, space'.list, prev)
    /\ UNCHANGED << headers, whole, phase, search, nextFile, lastEnd, counted, out, lost >>

(* get_offset_next_file: the first marked range behind the cursor.         *)
NextMarked(list, cell) ==
    SelectInSubSeq(list, cell + 1, Len(list), LAMBDA r : r.stat # NoStat)

(* The file is closed with these blocks and counted (file_finish_aux), or  *)
(* closed without.  With none, free_list_allocation_end is that of an      *)
(* earlier file, whichever.                                                *)
Close(loc, recovered) ==
    /\ lastEnd' \in IF loc = <<>> THEN {-1, Blocks} ELSE {Last(loc).end}
    /\ counted' = (counted \/ recovered)
    /\ out' = IF recovered THEN out \cup BlocksOf(loc) ELSE out
    /\ lost' = IF recovered THEN lost ELSE lost \cup BlocksOf(loc)

(* Block n of the file in progress.                                        *)
BlockAt(loc, n) ==
    LET i == CHOOSE j \in DOMAIN loc : Sums(loc)[j - 1] < n /\ n <= Sums(loc)[j]
    IN  loc[i].start + n - Sums(loc)[i - 1] - 1

(* How far what was gathered is the file on the disk.                      *)
GoodBlocks(loc) ==
    Max({ n \in 0..Min({SizeOf(loc), Len(whole)}) :
            \A k \in 1..n : BlockAt(loc, k) = whole[k] })

Complete(loc) == GoodBlocks(loc) = Len(whole)

(* file_finish_bf with the size the check leaves: the file is recovered,   *)
(* or, at 0, undone.                                                       *)
FinishBf(size) ==
    /\ space' = IF size = 0 THEN Reject(space, file)
                ELSE TruncatedSpace(space, file.loc, size)
    /\ file' = IF size = 0 THEN NoFile
               ELSE [file EXCEPT !.open = FALSE, !.loc = <<>>, !.size = size, !.err = 0]
    /\ IF size = 0 THEN UNCHANGED << lastEnd, counted, out, lost >>
       ELSE Close(TruncatedLoc(file.loc, size), TRUE)

(* The size the check of a closed file leaves.  (Without a handle nothing  *)
(* is checked.)                                                            *)
FinalSizes(f) ==
    IF ~f.open THEN {f.size}
    ELSE IF AnyAnswer THEN 0..f.size
    ELSE IF Complete(f.loc) THEN {Len(whole)} ELSE {0}

(* What the check of a file in the search reports: the precise one finds   *)
(* the error at the beginning of the first block that is wrong or missing, *)
(* or in the middle of it.  (The output is not cut before it is closed: any*)
(* other checker may look at what an earlier attempt left behind the file.)*)
Reports(f) ==
    IF ~AnyAnswer
    THEN { [err |-> IF Complete(f.loc) THEN 0
                    ELSE Min({Half * GoodBlocks(f.loc) + more, Half * f.size}),
            ok |-> 0, extra |-> 0] : more \in 0..(Half - 1) }
    ELSE { r \in [err : 0..(Half * f.top),
                       ok : {0, 1} \cup { Half * n : n \in 1..f.top },
                       extra : {0} \cup Extras] :
                  /\ r.ok <= r.err
                  /\ IF r.extra = 0 THEN r.ok = 0 ELSE f.check }

(* A call of photorec_bf_frag, which begins with photorec_bf_frag_fast     *)
(* when there are blocks in the way.                                       *)
Level(r, frag, tail) ==
    LET fast == r.extra > 0 /\ r.err \div Half > r.ok \div Half /\ r.ok > 0
    IN  [frag |-> frag, tail |-> tail, err |-> r.err,
         ok |-> IF fast THEN r.ok ELSE 0, extra |-> IF fast THEN r.extra ELSE 0,
         mode |-> IF fast THEN "fast" ELSE "split",
         i |-> 0, at |-> r.err \div Half, skipped |-> -2, none |-> FALSE]

(* No error, or nothing to be done about it.                               *)
FinishDirectly ==
    /\ pc = "finish"
    /\ LET next == NextMarked(space.list, space.cur)
       IN  nextFile' = IF next = 0 THEN 0 ELSE space.list[next].start
    /\ ~file.open \/ AnyAnswer \/ Complete(file.loc) \/ GoodBlocks(file.loc) = 0
    /\ \E size \in FinalSizes(file) : FinishBf(size)
    /\ FollowCells
    /\ pc' = "next"
    /\ UNCHANGED << headers, whole, phase, indStop, levels, pad, todo, ghost >>

(* photorec_bf_aux: cut at the block with the error, and search.           *)
FinishWithError ==
    /\ pc = "finish" /\ file.open
    /\ AnyAnswer \/ GoodBlocks(file.loc) > 0
    /\ LET next == NextMarked(space.list, space.cur)
       IN  nextFile' = IF next = 0 THEN 0 ELSE space.list[next].start
    /\ \E r \in Reports(file) :
         LET size == r.err \div Half
             there == [r EXCEPT !.err = Half * size, !.ok = Min({@, Half * size})]
         IN  /\ r.err > 0
             /\ file' = Cut([file EXCEPT !.err = Half * size], size)
             /\ levels' = << Level(there, 0, FALSE) >>
             /\ space' = CutSpace(space, file, size)
             /\ ghost' = IF size = 0 THEN [ghost EXCEPT !.unmarked = @ \cup Beginning(file)]
                         ELSE ghost
    /\ prev' = SameCell(space.list, space'.list, prev)
    /\ start' = space'.cur
    /\ pc' = "level"
    /\ UNCHANGED << headers, whole, phase, indStop, pad, todo, lastEnd, counted, out, lost >>

-----------------------------------------------------------------------------
(* photorec_bf_frag, photorec_bf_frag_fast                                 *)

Here == levels[Len(levels)]
Outer == SubSeq(levels, 1, Len(levels) - 1)
SetHere(l) == levels' = Append(Outer, l)

(* The innermost call returns.  A call from the loop of photorec_bf_frag   *)
(* is its last act: levels holds the callee only, `tail` says so.  A       *)
(* caller in photorec_bf_frag_fast goes on, or gives up and splits.        *)
ReturnNothing(code) ==
    IF Outer = <<>> THEN levels' = <<>> /\ pc' = "settle"
    ELSE /\ pc' = "level"
         /\ LET caller == Outer[Len(Outer)]
            IN  levels' = [Outer EXCEPT ![Len(Outer)] =
                    IF code = "ERANGE" /\ ~Here.tail
                    THEN [caller EXCEPT !.mode = "split"]
                    ELSE [caller EXCEPT !.i = caller.i + 1]]

quiet == << headers, whole, phase, indStop, nextFile, lastEnd, counted, out, lost >>

Attempts(l) == /\ l.at >= 1
               /\ \/ l.err <= Half * l.at + Window
                  \/ l.err < Half * (l.at + 2)

(* The file is to be split at another block, or nowhere.                   *)
SplitAt ==
    /\ pc = "level" /\ Here.mode = "split"
    /\ IF Attempts(Here)
       THEN /\ pc' = "skip"
            /\ file' = [file EXCEPT !.err = 0]
            /\ SetHere([Here EXCEPT !.skipped = -2,
                                    !.none = TruncatedLoc(file.loc, Here.at) = <<>>])
       ELSE ReturnNothing("ENOENT") /\ UNCHANGED file
    /\ UNCHANGED << quiet, space, prev, start, pad, todo, ghost >>

KeepsSkippingImpatiently(l) ==      \* mutant: an early error ends the second phase too
    /\ l.skipped < MaxSkip
    /\ file.err = 0 \/ (file.err >= Half * l.at /\ l.skipped < PatienceFirst)

KeepsSkipping(l) ==
    /\ l.skipped < MaxSkip
    /\ \/ file.err = 0
       \/ phase = 0 /\ (file.err >= Half * l.at \/ l.skipped < PatienceFirst)
       \/ phase = 1 /\ (file.err + Half >= Half * l.at \/ l.skipped < PatienceSecond)

BeginPad(base) == /\ pc' = "pad"
                  /\ pad' = [base |-> base, tmp |-> base, nbr |-> 0, stop |-> FALSE]

(* The file is cut again, the cursor put behind it and moved on.  (The     *)
(* search for an "extra block" never finds one: it looks for the last      *)
(* block of the file in the search space.)                                 *)
TrySkip ==
    /\ pc = "skip" /\ KeepsSkipping(Here)
    /\ ~Here.none \/ file.loc = <<>>
    /\ LET behind == CutSpace(space, file, Here.at)
           n == Here.skipped
       IN  /\ file' = [Cut(file, Here.at) EXCEPT !.err = 0]
           /\ space' = IF n = -2 THEN behind
                       ELSE IF n = -1 THEN NextHeader(behind) ELSE Skip(behind, n)
           /\ IF n > 0 /\ space'.cur = ListHead
              THEN ReturnNothing("ENOENT") /\ UNCHANGED pad
              ELSE BeginPad(Half * Here.at) /\ UNCHANGED levels
    /\ ghost' = [ghost EXCEPT !.short = @ \/ SizeOf(file.loc) < Here.at]
    /\ FollowCells
    /\ UNCHANGED << quiet, todo >>

(* The file_recovery_t of before the loop is copied back.  If it had no    *)
(* blocks, its list head forgets those that were added since.              *)
SkipForgetsBlocks ==
    /\ pc = "skip" /\ KeepsSkipping(Here)
    /\ Here.none /\ file.loc # <<>>
    /\ pc' = "broken"
    /\ UNCHANGED << quiet, space, prev, start, file, levels, pad, todo, ghost >>

NoMoreSkips ==
    /\ pc = "skip" /\ ~KeepsSkipping(Here)
    /\ IF file.err > 0 /\ file.err < Half * Here.at
       THEN ReturnNothing("ERANGE")
       ELSE pc' = "level" /\ SetHere([Here EXCEPT !.at = @ - 1])
    /\ UNCHANGED << quiet, space, prev, start, file, pad, todo, ghost >>

FastBlocks(ok) == ok \div Half

(* photorec_bf_frag_fast: back to the block before offset_ok, i blocks     *)
(* left out.                                                               *)
FastAttempt ==
    /\ pc = "level" /\ Here.mode = "fast" /\ Here.i < Here.extra
    /\ \E at \in IF start = Freed THEN Disk ELSE {StartOf(space.list, start)} :
         LET size == FastBlocks(Here.ok)
             from == [space EXCEPT !.cur = ListHead, !.offset = at]
         IN  /\ space' = Skip(CutSpace(from, file, size), Here.i)
             /\ file' = Cut(file, size)
             /\ todo' = Max({0, Here.err \div Half - Here.ok \div Half - 1})
             /\ ghost' = [ghost EXCEPT
                    !.spoilt = @ \/ size = 0,
                    !.short = @ \/ SizeOf(file.loc) < size,
                    !.unmarked = IF size > 0 THEN @ ELSE @ \cup Beginning(file)]
    /\ FollowCells
    /\ pc' = "fill"
    /\ UNCHANGED << quiet, levels, pad >>

FastGivesUp ==
    /\ pc = "level" /\ Here.mode = "fast" /\ Here.i >= Here.extra
    /\ SetHere([Here EXCEPT !.mode = "split"])
    /\ UNCHANGED << quiet, pc, space, prev, start, file, pad, todo, ghost >>

(* fwrite fails: the file is closed, and every call returns BF_ENOSPC.     *)
WriteFails ==
    /\ AnyAnswer
    /\ file' = [file EXCEPT !.open = FALSE]
    /\ levels' = <<>> /\ pc' = "full" /\ pad' = <<>> /\ todo' = 0
    /\ UNCHANGED << quiet, space, prev, start, ghost >>

TakeBlock ==
    /\ file' = Extended(file, space.offset)
    /\ space' = RemoveBlock(space)
    /\ ghost' = Taken(ghost, space, file)
    /\ FollowCells

Fill ==
    /\ pc = "fill" /\ todo > 0 /\ space.cur # ListHead
    /\ \/ WriteFails
       \/ /\ TakeBlock
          /\ todo' = todo - 1
          /\ UNCHANGED << quiet, pc, levels, pad >>

(* There is no test for the end of the list: the block at offset 0, and    *)
(* those behind it, are taken as blocks of the file.                       *)
FillBehindTheEnd ==
    /\ pc = "fill" /\ todo > 0 /\ space.cur = ListHead
    /\ pc' = "broken"
    /\ UNCHANGED << quiet, space, prev, start, file, levels, pad, todo, ghost >>

(* The gap: the rest of the blocks in the way is left out.                 *)
SkipGap ==
    /\ pc = "fill" /\ todo = 0
    /\ space' = Skip(space, Here.extra - Here.i)
    /\ BeginPad(file.err)
    /\ UNCHANGED << quiet, prev, start, file, levels, todo, ghost >>

-----------------------------------------------------------------------------
(* photorec_bf_pad                                                         *)

Padding == /\ pc = "pad" /\ space.cur # ListHead /\ ~pad.stop
           /\ Half * file.size < pad.tmp + Half * (IF file.check THEN PadChecked
                                                   ELSE PadPlain)

(* A rejected header is not taken, and in the second phase, with a         *)
(* data_check, nothing that follows it either.                             *)
PassesOver == /\ space.list[space.cur].stat # NoStat
              /\ AtStart \/ (phase = 1 /\ file.check)

PadBlock ==
    /\ Padding
    /\ IF PassesOver
       THEN /\ space' = GetNextSector(space)
            /\ UNCHANGED << quiet, pc, prev, start, file, levels, pad, todo, ghost >>
       ELSE \/ WriteFails
            \/ /\ TakeBlock
               /\ \E stop \in {FALSE, file.check} :
                    pad' = [pad EXCEPT !.nbr = @ + 1, !.stop = stop]
               /\ UNCHANGED << quiet, pc, levels, todo >>

(* The answer of file_check.  With an error well behind the last one there *)
(* is more to add.                                                         *)
PadMore(r) ==
    /\ r.err > pad.tmp + Half * (pad.nbr \div 2)
    /\ pad' = [pad EXCEPT !.tmp = r.err, !.nbr = 0, !.stop = FALSE]
    /\ file' = [file EXCEPT !.err = r.err]
    /\ UNCHANGED << quiet, pc, space, prev, start, levels, todo, ghost >>

(* The file is complete: file_finish_bf, and every call returns BF_OK.     *)
PadComplete(r) ==
    /\ r.err = 0
    /\ \E size \in FinalSizes(file) : FinishBf(size)
    /\ FollowCells
    /\ levels' = <<>> /\ pc' = "settle" /\ pad' = <<>>
    /\ UNCHANGED << headers, whole, phase, indStop, todo, nextFile, ghost >>

(* Another gap, two blocks behind this one or more, or a failure.          *)
NextAttempt ==
    IF Here.mode = "fast" THEN pc' = "level" /\ SetHere([Here EXCEPT !.i = @ + 1])
    ELSE pc' = "skip" /\ SetHere([Here EXCEPT !.skipped = @ + 1])

TooDeep == IF Here.mode = "fast" THEN pc' = "level" /\ SetHere([Here EXCEPT !.mode = "split"])
           ELSE ReturnNothing("ENOENT")

Deeper(r) == /\ pc' = "level"
             /\ levels' = IF Here.mode = "fast"
                          THEN Append(levels, Level(r, Here.frag + 1, FALSE))
                          ELSE Append(Outer, Level(r, Here.frag + 1, TRUE))

FragsUsedUp == Here.frag > MaxFrag

PadFails(r) ==
    /\ r.err > 0 /\ r.err <= pad.tmp + Half * (pad.nbr \div 2)
    /\ file' = [file EXCEPT !.err = r.err]
    /\ IF r.err \div Half < pad.base \div Half + 2 THEN NextAttempt
       ELSE IF FragsUsedUp THEN TooDeep
       ELSE Deeper(r)
    /\ pad' = <<>>
    /\ UNCHANGED << quiet, space, prev, start, todo, ghost >>

PadCheck ==
    /\ pc = "pad" /\ ~Padding
    /\ \E r \in Reports(file) : PadMore(r) \/ PadComplete(r) \/ PadFails(r)

-----------------------------------------------------------------------------
(* photorec_bf_aux: file_finish2, unless the file was closed.  A file that *)
(* fwrite failed for keeps its blocks, and is not counted.                 *)
Settle ==
    /\ pc \in {"settle", "full"}
    /\ IF file.stat = NoStat THEN UNCHANGED << space, file, lastEnd, out, lost, counted >>
       ELSE \E size \in FinalSizes(file) :
              LET loc == TruncatedLoc(file.loc, size)
              IN  /\ space' = IF size = 0 THEN Reject(space, file)
                              ELSE TruncatedSpace(space, file.loc, size)
                  /\ file' = NoFile
                  /\ IF size = 0 \/ (loc = <<>> /\ ~file.open)
                     THEN UNCHANGED << lastEnd, out, lost, counted >>
                     ELSE Close(loc, file.open)
    /\ prev' = SameCell(space.list, space'.list, prev)
    /\ start' = ListHead
    /\ indStop' = IF pc = "full" THEN "ENOSPC" ELSE "OK"
    /\ pc' = "ahead"
    /\ UNCHANGED << headers, whole, phase, levels, pad, todo, nextFile, ghost >>

GoesForwardAlways == TRUE   \* mutant: also when no file was recovered

(* go_backward == 0: photorec_bf_aux recovered the file.                   *)
GoesForward == pc = "ahead" /\ counted /\ lastEnd >= nextFile

NextRange ==
    /\ pc \in {"next", "ahead"}
    /\ LET ahead == NextMarked(space.list, prev)
           to == IF GoesForward /\ ahead # 0 THEN ahead ELSE prev
       IN  IF prev = Freed THEN pc' = "broken" /\ UNCHANGED space
           ELSE pc' = "open" /\ space' = [space EXCEPT !.cur = to, !.offset = 0]
    /\ nextFile' = 0 /\ lastEnd' = -1 /\ counted' = FALSE /\ file' = NoFile
    /\ ghost' = IF prev = Freed THEN ghost
                ELSE [ghost EXCEPT !.spoilt = FALSE, !.short = FALSE, !.before = out]
    /\ UNCHANGED << headers, whole, phase, indStop, prev, search, out, lost >>

Next ==
    \/ Open \/ Scan \/ FinishDirectly \/ FinishWithError
    \/ SplitAt \/ TrySkip \/ SkipForgetsBlocks \/ NoMoreSkips
    \/ FastAttempt \/ FastGivesUp \/ Fill \/ FillBehindTheEnd \/ SkipGap
    \/ PadBlock \/ PadCheck \/ Settle \/ NextRange

Spec == Init /\ [][Next]_vars

-----------------------------------------------------------------------------
(* Properties                                                              *)

InFile == BlocksOf(file.loc)

(* What is written is a prefix of the file that starts with its header and *)
(* goes forward on the disk, and offset_error and the size of the output   *)
(* count the blocks taken, whatever was tried before.  Not so after a      *)
(* failed fopen, which loses the first block, nor when                     *)
(* photorec_bf_frag_fast drops it.                                         *)
FileFromHeader ==
    file.loc # <<>> /\ ~ghost.spoilt =>
        /\ file.loc[1].start = file.start
        /\ \A i, j \in DOMAIN file.loc : i < j => file.loc[i].end < file.loc[j].start
        /\ ghost.short \/ file.size = SizeOf(file.loc)

(* Every block is in one place: free, in the file in progress, in one      *)
(* recovered file, or lost to a failed write, and list and file stay in    *)
(* order, however often a file is cut, extended and cut again.             *)
Conservation ==
    LET parts == << ghost.owned, BlocksOf(space.list), InFile, lost, out >>
    IN  /\ Ordered(space.list)
        /\ UNION { parts[i] : i \in DOMAIN parts } = Disk
        /\ \A i, j \in DOMAIN parts : i # j => parts[i] \cap parts[j] = {}
        /\ FileFromHeader

(* A header that was rejected before and is still free can still be found: *)
(* a marked range starts with it, after any number of files that failed.   *)
(* The exceptions are in `unmarked`.                                       *)
MarksKept ==
    pc \in {"open", "done"} =>
        \A h \in (ghost.marks \cap BlocksOf(space.list)) \ ghost.unmarked :
            \E i \in DOMAIN space.list :
                space.list[i].start = h /\ space.list[i].stat # NoStat

Breaks(q) == { i \in 2..Len(q) : q[i] # q[i - 1] + 1 }

(* A file whose blocks are in order and in no other file is recovered, in  *)
(* whatever ranges they are and whatever headers were rejected in between, *)
(* from a checker that names the block with the error: what the pass is    *)
(* for.  The search takes a single right block for a coincidence: only the *)
(* first fragment and the last may be that short.                          *)
GapsAreBridged ==
    /\ pc = "done" /\ ~AnyAnswer
    /\ \A i, j \in Breaks(whole) : i < j => i + 2 <= j
    => Range(whole) \subseteq out

(* The walk over the ranges is the only loop without a counter.  It goes   *)
(* back by a range, but for a file that photorec_bf_aux recovered: then    *)
(* less is left to be searched.  So both phases come to an end, however    *)
(* the list changes under the walk.  The exception is a file that is       *)
(* recovered from what earlier attempts left in the output, and so counts  *)
(* as progress without taking a block.                                     *)
WalkEnds ==
    [][pc' = "open" /\ pc \in {"next", "ahead"} =>
          (space'.cur = prev \/ out # ghost.before \/ ghost.short)]_vars
=============================================================================
