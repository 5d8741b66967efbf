---------------------------- MODULE SearchSpace ----------------------------
(***************************************************************************)
(* The search space of PhotoRec: the ordered list of ranges that no        *)
(* recovered file owns yet (photorec.c, pnext.h, filegen.c).               *)
(*                                                                         *)
(* Positions are block numbers: update_blocksize has made every range a    *)
(* whole number of blocks, so byte b of the code is block b / blocksize    *)
(* here, and with blocksize > 1 its test "start >= end" on the first and   *)
(* last byte of a range is "start > end" on its first and last block.      *)
(*                                                                         *)
(* A range is a record [start, end, stat]: its first and last block and    *)
(* the kind of file whose header was found, and rejected, at its start     *)
(* (NoStat: none).  A list cell the C code points to is an index of the    *)
(* sequence; the dummy head of the circular td_list is index 0, and its    *)
(* `start` is 0.  A space is the record [list, cur, offset] the functions  *)
(* update in place: list_search_space, *new_current_search_space, *offset. *)
(***************************************************************************)
EXTENDS Integers, Sequences, FiniteSets, SequencesExt

CONSTANTS
    Stats,          \* the kinds of file (file_stat_t)
    NoStat,         \* file_stat == NULL
    BackRanges,     \* ranges get_prev_file_header goes back, 3 in the code
    BackBlocks,     \* blocks it goes back at most, 200 MB in the code
    ForgetKeep      \* ranges forget() keeps, 10001 in the code

ASSUME StatsAssumption == NoStat \notin Stats
ASSUME BackAssumption == BackRanges \in Nat /\ BackBlocks \in Nat
ASSUME ForgetAssumption == ForgetKeep \in Nat \ {0}

ListHead == 0

RangeType == [start : Nat, end : Nat, stat : Stats \cup {NoStat}]

Extent(r) == r.start .. r.end
Size(r) == r.end - r.start + 1
BlocksOf(list) == UNION { Extent(list[i]) : i \in DOMAIN list }

(* Ranges in increasing order that neither overlap nor are empty.          *)
Ordered(list) ==
    /\ \A i \in DOMAIN list : list[i].start <= list[i].end
    /\ \A i, j \in DOMAIN list : i < j => list[i].end < list[j].start

NextEntryRing(list, i) ==   \* mutant: the walk passes over the list head
    IF list = <<>> THEN ListHead ELSE IF i = Len(list) THEN 1 ELSE i + 1

NextEntry(list, i) == IF i = Len(list) THEN ListHead ELSE i + 1
StartOf(list, i) == IF i = ListHead THEN 0 ELSE list[i].start

(* Where a walk backwards from cell i begins: just after the tail when i   *)
(* is the list head.                                                       *)
Behind(list, i) == IF i = ListHead THEN Len(list) + 1 ELSE i

MoveTo(s, i) == [s EXCEPT !.cur = i, !.offset = StartOf(s.list, i)]

-----------------------------------------------------------------------------
(* Walking the list                                                        *)

GetNextSectorStrict(s) ==   \* mutant: the last block of a range is left out
    IF s.cur = ListHead THEN s
    ELSE IF s.offset + 1 < s.list[s.cur].end
         THEN [s EXCEPT !.offset = @ + 1]
         ELSE MoveTo(s, NextEntry(s.list, s.cur))

GetNextSector(s) ==
    IF s.cur = ListHead THEN s
    ELSE IF s.offset + 1 <= s.list[s.cur].end
         THEN [s EXCEPT !.offset = @ + 1]
         ELSE MoveTo(s, NextEntry(s.list, s.cur))

(* The rejected header that get_prev_file_header goes back to, 0 when it   *)
(* returns -1.                                                             *)
PrevFileHeader(s) ==
    LET from == Behind(s.list, s.cur)
        passed(i) == { j \in 1..Len(s.list) : i < j /\ j < from }
        near == { i \in 1..(from - 1) :
                    /\ from - i <= BackRanges
                    /\ MapThenSumSet(LAMBDA j : Size(s.list[j]), passed(i))
                            < BackBlocks
                    /\ s.list[i].stat # NoStat }
    IN  IF near = {} THEN 0 ELSE Max(near)

(* get_prev_location_smart with offset_skipped_header = skipped.  Every    *)
(* path through it leaves offset_skipped_header at 0.                      *)
PrevLocationSmart(s, skipped, prevLocation) ==
    LET holds(r) == r.start <= skipped /\ skipped <= r.end
        from == Behind(s.list, s.cur)
        first == SelectLastInSubSeq(s.list, 1, from - 1,
                     LAMBDA r : holds(r) \/ r.start < prevLocation)
        again == Behind(s.list, first)
        second == SelectLastInSubSeq(s.list, 1, again - 1,
                     LAMBDA r : r.start < prevLocation \/ r.start < skipped)
    IN  IF skipped = 0 THEN s
        ELSE IF first # 0 /\ holds(s.list[first])
             THEN [s EXCEPT !.cur = first, !.offset = skipped]
        ELSE IF second # 0
             THEN [s EXCEPT !.cur = second, !.offset = skipped]
        ELSE IF again > 1 THEN MoveTo(s, 1) ELSE s

(* set_search_start: the range that holds the resume offset, or the first  *)
(* one.  start = -1: no resume offset.                                     *)
SetSearchStart(list, start) ==
    LET first == NextEntry(list, ListHead)
        holder == SelectInSeq(list,
                              LAMBDA r : r.start <= start /\ start <= r.end)
    IN  IF start = -1
        THEN [list |-> list, cur |-> first, offset |-> StartOf(list, first)]
        ELSE [list |-> list, offset |-> start,
              cur |-> IF holder = 0 THEN first ELSE holder]

(* forget: keep the current range and the ForgetKeep - 1 before it.        *)
ForgottenCells(s) == IF s.cur > ForgetKeep THEN s.cur - ForgetKeep ELSE 0

Forget(s) ==
    LET drop == ForgottenCells(s)
    IN  [s EXCEPT !.list = SubSeq(@, drop + 1, Len(@)), !.cur = @ - drop]

-----------------------------------------------------------------------------
(* Moving a block from the list to the file being recovered                *)

(* file_block_remove_from_sp_aux cuts the block at s.offset out of cell t, *)
(* whose first block, only block, last block or none of these it is.       *)
CutFirst(s, t) ==
    [s EXCEPT !.list[t].start = s.offset + 1, !.list[t].stat = NoStat,
              !.offset = @ + 1]

FreeCell(s, t) == MoveTo([s EXCEPT !.list = RemoveAt(@, t)],
                         IF t = Len(s.list) THEN ListHead ELSE t)

CutLast(s, t) ==
    MoveTo([s EXCEPT !.list[t].end = @ - 1], NextEntry(s.list, t))

CutMiddle(s, t) ==
    LET r == s.list[t]
    IN  [list |-> InsertAt([s.list EXCEPT ![t] = [r EXCEPT !.end = s.offset - 1]],
                           t + 1, [r EXCEPT !.start = s.offset + 1,
                                            !.stat = NoStat]),
         cur |-> t + 1, offset |-> s.offset + 1]

RemoveFromRange(s, t) ==
    LET r == s.list[t]
    IN  IF r.start = s.offset
        THEN IF s.offset + 1 <= r.end THEN CutFirst(s, t) ELSE FreeCell(s, t)
        ELSE IF s.offset = r.end THEN CutLast(s, t) ELSE CutMiddle(s, t)

(* file_block_remove_from_sp: the current range if the block lies in it,   *)
(* else the first range that holds it, else (a log line) nothing.          *)
RemoveBlock(s) ==
    LET fits(r) == r.start <= s.offset /\ s.offset <= r.end
        t == IF s.cur # ListHead /\ fits(s.list[s.cur])
             THEN s.cur ELSE SelectInSeq(s.list, fits)
    IN  IF t = 0 THEN s ELSE RemoveFromRange(s, t)

(* file_block_add_to_file: the file's own list of fragments, in file       *)
(* order; data = 0 marks blocks that are not part of its content.          *)
AddToFileGap(loc, block, data) ==   \* mutant: joins whatever lies between
    IF loc # <<>> /\ Last(loc).end < block /\ Last(loc).data = data
    THEN [loc EXCEPT ![Len(loc)].end = block]
    ELSE Append(loc, [start |-> block, end |-> block, data |-> data])

AddToFile(loc, block, data) ==
    IF loc # <<>> /\ Last(loc).end + 1 = block /\ Last(loc).data = data
    THEN [loc EXCEPT ![Len(loc)].end = block]
    ELSE Append(loc, [start |-> block, end |-> block, data |-> data])

-----------------------------------------------------------------------------
(* Giving the blocks of a file back to the list                            *)

EmptyOrSingle(start, end) == start >= end       \* mutant

Nothing(start, end) == start > end

(* td_list_add before cell i, or at the tail: the cells after it, and the  *)
(* cursor with them, move up by one.                                       *)
InsertEntry(s, i, r) ==
    [s EXCEPT !.list = InsertAt(@, i, r), !.cur = IF @ >= i THEN @ + 1 ELSE @]

(* The cell before which a range that ends at `end` belongs.               *)
PlaceOf(list, end) ==
    LET t == SelectInSeq(list, LAMBDA r : end < r.start)
    IN  IF t = 0 THEN Len(list) + 1 ELSE t

(* file_block_truncate_aux: start..end goes back, merged into the first    *)
(* neighbour met, else as a range of its own.                              *)
GiveBack(s, start, end) ==
    LET joinsNext(r) == r.start = end + 1 /\ r.stat = NoStat
        joinsPrev(r) == r.end + 1 = start
        t == SelectInSeq(s.list, LAMBDA r : \/ joinsNext(r) \/ joinsPrev(r)
                                            \/ end < r.start)
    IN  IF Nothing(start, end) THEN s
        ELSE IF t # 0 /\ joinsNext(s.list[t])
             THEN [s EXCEPT !.list[t].start = start]
        ELSE IF t # 0 /\ joinsPrev(s.list[t])
             THEN [s EXCEPT !.list[t].end = end]
        ELSE InsertEntry(s, PlaceOf(s.list, end),
                         [start |-> start, end |-> end, stat |-> NoStat])

(* file_block_truncate_zero_aux: the same for the first fragment of a      *)
(* rejected file, which keeps the kind of header found at its start.       *)
GiveBackHeader(s, start, end, stat) ==
    LET joinsNext(r) == r.start = end + 1 /\ r.stat = NoStat
        t == SelectInSeq(s.list, LAMBDA r : joinsNext(r) \/ end < r.start)
    IN  IF Nothing(start, end) THEN s
        ELSE IF t # 0 /\ joinsNext(s.list[t])
             THEN [s EXCEPT !.list[t].start = start, !.list[t].stat = stat]
        ELSE InsertEntry(s, PlaceOf(s.list, end),
                         [start |-> start, end |-> end, stat |-> stat])
=============================================================================
