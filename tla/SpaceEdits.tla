----------------------------- MODULE SpaceEdits -----------------------------
(* What is done to the search space in bytes, before its ranges are whole    *)
(* blocks (photorec.c): an extent is removed from it (del_search_space),     *)
(* its ranges are rounded to blocks (update_blocksize), and it is walked     *)
(* sector by sector (get_next_sector).                                       *)
EXTENDS SearchSpace

CONSTANT Sector         \* bytes of a sector

ASSUME SectorAssumption == Sector \in Nat \ {0}

(* When update_search_space_aux has something to do with a range.          *)
Touches(r, start, end) ==
    \/ r.start = start \/ r.end = end
    \/ start < r.start /\ r.start <= end
    \/ start <= r.end /\ r.end < end
    \/ r.start < start /\ end < r.end

(* update_search_space_aux, the cursor arguments being NULL: the ranges    *)
(* are met from the tail on, and the first that touches start..end decides *)
(* what is done.  An extent that sticks out of it is cut there.            *)
(* Called[<< l, start, end >>] is what the calls this one makes leave.     *)
UpdateSearchSpaceAux(Called, l, start, end) ==
    LET t == SelectLastInSeq(l, LAMBDA r : Touches(r, start, end))
        r == l[t]
    IN  IF start > end \/ t = 0 THEN l
        ELSE IF r.start = start THEN
            IF end < r.end
            THEN [l EXCEPT ![t] = [start |-> end + 1, end |-> r.end, stat |-> NoStat]]
            ELSE Called[<< RemoveAt(l, t), r.end + 1, end >>]
        ELSE IF r.end = end THEN
            IF r.start < start THEN [l EXCEPT ![t].end = start - 1]
            ELSE Called[<< RemoveAt(l, t), start, r.start - 1 >>]
        ELSE IF start < r.start /\ r.start <= end
        THEN Called[<< Called[<< l, start, r.start - 1 >>], r.start, end >>]
        ELSE IF start <= r.end /\ r.end < end
        THEN Called[<< Called[<< l, start, r.end >>], r.end + 1, end >>]
        ELSE Called[<< InsertAt([l EXCEPT ![t].end = start - 1], t + 1,
                                [start |-> start, end |-> r.end, stat |-> NoStat]),
                       start, end >>]

(* Calls nest no deeper than the extent is long: an extent that is cut is  *)
(* shorter then, and after a range was split the next call is the last.    *)
Call == Seq(RangeType) \X Int \X Int

NoCalls == [c \in Call |-> c[1]]
CallsOf(Called) == [c \in Call |-> UpdateSearchSpaceAux(Called, c[1], c[2], c[3])]

UpdateCalls(n) ==
    LET calls[k \in 0..n] == IF k = 0 THEN NoCalls ELSE CallsOf(calls[k - 1])
    IN  calls

RemoveExtent(l, start, end) ==
    IF start > end THEN l
    ELSE UpdateCalls(end - start + 2)[end - start + 2][<< l, start, end >>]

-----------------------------------------------------------------------------
(* update_blocksize with blocksize b and offset o.  No subtraction wraps   *)
(* to anything but the negative number it is below: ranges that would end  *)
(* before o are gone by then.                                              *)
RoundDown(x, b, o) == ((x - o) \div b) * b + o
RoundUp(x, b, o) == RoundDown(x + b - 1, b, o)

AlignLastEnd(l, b, o) ==
    IF l = <<>> THEN l ELSE [l EXCEPT ![Len(l)].end = RoundUp(@ + 1, b, o) - 1]

(* One range, from the tail on: joined with the one before it, rounded or  *)
(* dropped.  (The list head before the first range ends at 0, and no range *)
(* of whole sectors starts at 1.)                                          *)
AlignStart(l, i, b, o) ==
    LET r == l[i]
        aligned == RoundUp(r.start, b, o)
    IN  IF r.start = aligned THEN l
        ELSE IF i > 1 /\ l[i - 1].end + 1 = r.start
        THEN RemoveAt([l EXCEPT ![i - 1].end = r.end], i)
        ELSE IF aligned >= r.end THEN RemoveAt(l, i)
        ELSE [l EXCEPT ![i] = [start |-> aligned, end |-> r.end, stat |-> NoStat]]

AlignStarts(l, b, o) ==
    LET from[i \in 1..(Len(l) + 1)] ==
            IF i > Len(l) THEN l ELSE AlignStart(from[i + 1], i, b, o)
    IN  from[1]

AlignEndSmall(l, i, b, o) ==    \* mutant: a range of one block is too small
    LET end == RoundDown(l[i].end + 1, b, o) - 1
    IN  IF l[i].start + b >= end THEN RemoveAt(l, i) ELSE [l EXCEPT ![i].end = end]

(* And its end: what is no whole block is cut off, or the range dropped.   *)
AlignEnd(l, i, b, o) ==
    LET end == RoundDown(l[i].end + 1, b, o) - 1
    IN  IF l[i].start >= end THEN RemoveAt(l, i) ELSE [l EXCEPT ![i].end = end]

AlignEnds(l, b, o) ==
    LET from[i \in 1..(Len(l) + 1)] ==
            IF i > Len(l) THEN l ELSE AlignEnd(from[i + 1], i, b, o)
    IN  from[1]

(* update_blocksize *)
InBlocks(l, b, o) == AlignEnds(AlignStarts(AlignLastEnd(l, b, o), b, o), b, o)

-----------------------------------------------------------------------------
(* get_next_sector with the blocksize of the walk.                         *)
NextSector(l, i, at) ==
    IF at + Sector <= l[i].end THEN << i, at + Sector >>
    ELSE << NextEntry(l, i), StartOf(l, NextEntry(l, i)) >>
=============================================================================
