------------------------------ MODULE Carver ------------------------------
(***************************************************************************)
(* photorec_aux (psearchn.c): one carving pass over the search space, with *)
(* photorec_check_header, file_finish2 and file_recovery_aborted, while    *)
(* the user interface may set mStopRecovrey at any time (photodll.cpp).    *)
(*                                                                         *)
(* The loop body is cut where it decides.  `pc` is                         *)
(*   top      the head of the loop: stop flag, "BUG" check, header check   *)
(*   new      photorec_new_file: a header was found                        *)
(*   data     the block goes to the file in progress, if there is one      *)
(*   advance  next sector, or back to what was skipped                     *)
(*   media    end of media, media_done after its file_finish2              *)
(*   forget, media_forget                                                  *)
(*            forget() after a file_finish2, with lowmem only              *)
(*   refill   the read buffer moves on, the progress line                  *)
(*   truncate, reject, reject_rest                                         *)
(*            inside file_finish2 (or file_recovery_aborted), one fragment *)
(*            of the file at a time                                        *)
(*   returned photorec_aux has returned `ret`                              *)
(*                                                                         *)
(* The format checkers (header_check, data_check, file_check: file_*.c)    *)
(* are abstracted to every answer they may give; `headers` is the set of   *)
(* blocks of this disk whose content starts a file.  Sizes are in blocks,  *)
(* rounded up as file_block_truncate does.                                 *)
(***************************************************************************)
EXTENDS SearchSpace

CONSTANTS
    Blocks,         \* number of blocks on the disk
    Marked,         \* may photorec_find_blocksize have marked headers before?
    IgnoreHeaders,  \* may a checker call header_ignored inside a file?
    LargestFile,    \* blocks of a file the destination can hold
    WriteErrors,    \* errors fwrite may report: a subset of {EFBIG, ENOSPC}
    CreateMayFail,  \* may fopen of the output file fail (after its retries)?
    Unsaved,        \* kinds of file that are not written out (recover == 0)
    Ext2,           \* params->status is STATUS_EXT2_ON
    IndirectAfter,  \* blocks before an ext2 indirect block, 12 in the code
    MaxFileSize,    \* file_hint->max_filesize, 0 for none
    Lowmem,         \* options->lowmem > 0
    MaxBack         \* bound of `back`, 5 in the code

ASSUME BlocksAssumption == Blocks \in Nat \ {0}
ASSUME OptionsAssumption ==
    /\ Marked \in BOOLEAN
    /\ IgnoreHeaders \in BOOLEAN /\ CreateMayFail \in BOOLEAN
    /\ Ext2 \in BOOLEAN /\ Lowmem \in BOOLEAN
    /\ WriteErrors \subseteq {"EFBIG", "ENOSPC"} /\ Unsaved \subseteq Stats
ASSUME LimitsAssumption ==
    /\ IndirectAfter \in Nat \ {0} /\ MaxFileSize \in Nat /\ MaxBack \in Nat
    /\ LargestFile \in Nat

VARIABLES
    headers,    \* content of the disk: the blocks where a file starts
    stop,       \* mStopRecovrey
    pc, ret,    \* where photorec_aux is, and what it returns
    space,      \* list_search_space, current_search_space, offset
    bufAt,      \* the block of the disk whose bytes are at `buffer`
    file,       \* file_recovery
    fin,        \* the call of file_finish2 in progress, see StartFinish
    result,     \* file_recovered
    res,        \* the last data_check_t
    oldOffset,  \* old_offset
    obb, back,  \* offset_before_back, back
    skipped,    \* offset_skipped_header (filegen.c)
    resumeAt,   \* params->offset
    out,        \* the output files that are complete
    visited,    \* ghost: blocks whose own bytes the loop body looked at
    forgotten   \* ghost: blocks that forget() dropped

vars == << headers, stop, pc, ret, space, bufAt, file, fin, result, res,
           oldOffset, obb, back, skipped, resumeAt, out, visited, forgotten >>

Disk == 0..(Blocks - 1)

(* reset_file_recovery: it leaves location.start alone.                    *)
ResetFile(f) == [f EXCEPT !.stat = NoStat, !.open = FALSE, !.loc = <<>>,
                          !.size = 0, !.written = {}]

NoCall == [caller |-> "none", kept |-> <<>>, seen |-> 0, truncated |-> FALSE]

InProgress == file.stat # NoStat

(* The first blocks of the ranges file_found may cut the disk into.        *)
Cuts == { c \in UNION { [1..n -> Disk] : n \in 1..Blocks } :
            /\ c[1] = 0
            /\ \A i, j \in DOMAIN c : i < j => c[i] < c[j] }

(* The whole disk, cut at the headers in marks.                            *)
InitialList(cuts, marks, kind) ==
    [i \in 1..Len(cuts) |->
        [start |-> cuts[i],
         end |-> IF i = Len(cuts) THEN Blocks - 1 ELSE cuts[i + 1] - 1,
         stat |-> IF cuts[i] \in marks THEN kind ELSE NoStat]]

Init ==
    /\ headers \in SUBSET Disk
    /\ stop = FALSE /\ pc = "top" /\ ret = "none"
    /\ \E cuts \in Cuts, marks \in SUBSET headers, kind \in Stats :
           /\ marks # {} => Marked
           /\ Range(cuts) = marks \cup {0}
           /\ space = SetSearchStart(InitialList(cuts, marks, kind), -1)
    /\ bufAt = space.offset
    /\ file = [stat |-> NoStat, start |-> 0, open |-> FALSE, loc |-> <<>>,
               size |-> 0, written |-> {}]
    /\ fin = NoCall
    /\ result = "BAD" /\ res = "SCAN" /\ oldOffset = 0
    /\ obb = 0 /\ back = 0 /\ skipped = 0 /\ resumeAt = -1
    /\ out = {} /\ visited = {} /\ forgotten = {}

-----------------------------------------------------------------------------
(* file_finish2 and file_recovery_aborted                                  *)

(* What file_check, the clamps and min_filesize leave of a file: any size  *)
(* up to what was gathered.  Without an open handle the size stands.       *)
FinalSizes(f) == IF f.open THEN 0..f.size ELSE {f.size}

(* The call starts: the file has its final size, and its fragments will be *)
(* kept or given back one after the other.                                 *)
StartFinish(f, size, caller) ==
    /\ file' = [f EXCEPT !.size = size, !.open = @ /\ size > 0]
    /\ fin' = [NoCall EXCEPT !.caller = caller]
    /\ pc' = IF size = 0 THEN "reject" ELSE "truncate"

(* Back in the caller with pfstatus_t r.                                   *)
FinishReturns(r) ==
    /\ file' = ResetFile(file) /\ fin' = NoCall
    /\ result' = IF fin.caller = "abort" THEN result ELSE r
    /\ pc' = CASE fin.caller = "header" ->
                    IF r = "OK_TRUNCATED" THEN "data" ELSE "new"
               [] fin.caller = "data" -> IF Lowmem THEN "forget" ELSE "advance"
               [] fin.caller = "media" -> "media_done"
               [] OTHER -> "returned"

(* file_block_truncate_zero: the first fragment keeps the header's kind.   *)
RejectFirst ==
    /\ pc = "reject" /\ file.loc # <<>>
    /\ space' = GiveBackHeader(space, file.loc[1].start, file.loc[1].end,
                               file.stat)
    /\ file' = [file EXCEPT !.loc = Tail(@)]
    /\ pc' = "reject_rest"
    /\ UNCHANGED << headers, stop, ret, bufAt, fin, result, res, oldOffset,
                    obb, back, skipped, resumeAt, out, visited, forgotten >>

RejectRest ==
    /\ pc = "reject_rest" /\ file.loc # <<>>
    /\ space' = GiveBack(space, file.loc[1].start, file.loc[1].end)
    /\ file' = [file EXCEPT !.loc = Tail(@)]
    /\ UNCHANGED << headers, stop, pc, ret, bufAt, fin, result, res, oldOffset,
                    obb, back, skipped, resumeAt, out, visited, forgotten >>

(* The file is erased and reset_file_recovery'd: PFSTATUS_BAD.             *)
Rejected ==
    /\ pc \in {"reject", "reject_rest"} /\ file.loc = <<>>
    /\ FinishReturns("BAD")
    /\ UNCHANGED << headers, stop, ret, space, bufAt, res, oldOffset, obb,
                    back, skipped, resumeAt, out, visited, forgotten >>

(* file_block_truncate, one fragment e.  `kept` blocks of e belong to the  *)
(* file, which has `seen` blocks of data already; fragments that are not   *)
(* data count for nothing but are dropped once the file is complete.       *)
KeptBlocks(e) == IF e.data = 0 \/ fin.seen + Size(e) <= file.size THEN Size(e)
                 ELSE file.size - fin.seen

TruncateFragment ==
    /\ pc = "truncate" /\ file.loc # <<>>
    /\ LET e == file.loc[1]
           cut == e.start + KeptBlocks(e)
       IN  IF fin.seen >= file.size
           THEN /\ space' = GiveBack(space, e.start, e.end)
                /\ fin' = [fin EXCEPT !.truncated = TRUE]
           ELSE /\ space' = GiveBack(space, cut, e.end)
                /\ fin' = [fin EXCEPT
                              !.kept = Append(@, [e EXCEPT !.end = cut - 1]),
                              !.seen = @ + IF e.data = 0 THEN 0
                                           ELSE KeptBlocks(e)]
    /\ file' = [file EXCEPT !.loc = Tail(@)]
    /\ UNCHANGED << headers, stop, pc, ret, bufAt, result, res, oldOffset, obb,
                    back, skipped, resumeAt, out, visited, forgotten >>

(* header_ignored_cond_reset for every fragment the file keeps.            *)
SkipAfterFree(kept) ==
    IF \E i \in DOMAIN kept : skipped \in Extent(kept[i]) THEN 0 ELSE skipped

(* file_finish_aux has closed the file, file_block_free forgets its list.  *)
Accepted ==
    /\ pc = "truncate" /\ file.loc = <<>>
    /\ FinishReturns(IF fin.truncated THEN "OK_TRUNCATED" ELSE "OK")
    /\ skipped' = SkipAfterFree(fin.kept)
    /\ out' = out \cup {[start |-> file.start, saved |-> file.open,
                         loc |-> fin.kept, written |-> file.written]}
    /\ UNCHANGED << headers, stop, ret, space, bufAt, res, oldOffset, obb,
                    back, resumeAt, visited, forgotten >>

(* Mutant of Abort: returns at once, the file is reset but not undone.     *)
AbortForgets(f, status) ==
    /\ resumeAt' = f.start /\ ret' = status
    /\ file' = ResetFile(f) /\ pc' = "returned" /\ UNCHANGED fin

(* file_recovery_aborted: the resume offset is the start of the file, all  *)
(* of which goes back, and photorec_aux returns.                           *)
Abort(f, status) ==
    /\ resumeAt' = f.start
    /\ ret' = status
    /\ StartFinish(f, 0, "abort")

-----------------------------------------------------------------------------
(* The head of the loop                                                    *)

(* stopRecover: the user interface thread.                                 *)
RequestStop ==
    /\ ~stop /\ pc # "returned"
    /\ stop' = TRUE
    /\ UNCHANGED << headers, pc, ret, space, bufAt, file, fin, result, res,
                    oldOffset, obb, back, skipped, resumeAt, out, visited,
                    forgotten >>

Return(status) ==
    /\ pc' = "returned" /\ ret' = status
    /\ UNCHANGED << headers, stop, space, bufAt, file, fin, result, res,
                    oldOffset, obb, back, skipped, resumeAt, out, visited,
                    forgotten >>

(* The list is exhausted: photorec_aux returns ind_stop, PSTATUS_OK here.  *)
EndOfSpace == pc = "top" /\ space.cur = ListHead /\ Return("OK")

(* if(mStopRecovrey==1) return 1: nothing is undone.                       *)
UserStop == pc = "top" /\ space.cur # ListHead /\ stop /\ Return("STOP")

OffsetInRange == space.offset \in Extent(space.list[space.cur])

(* "BUG: offset=%llu not in [%llu-%llu]": offset is moved to the current   *)
(* range; the buffer is not read again.                                    *)
Corrected == IF OffsetInRange THEN space ELSE MoveTo(space, space.cur)

Looking ==
    /\ pc = "top" /\ space.cur # ListHead /\ ~stop
    /\ space' = Corrected
    /\ oldOffset' = space.offset
    /\ visited' = visited \cup ({bufAt} \cap {Corrected.offset})
    /\ UNCHANGED << headers, stop, ret, bufAt, res, obb, back, resumeAt, out,
                    forgotten >>

(* No checker accepts the block.  A header may be passed over while a file *)
(* is in progress (a tar archive, or a checker that finds the header part  *)
(* of that file); a checker may call header_ignored about it.              *)
CheckNoHeader ==
    /\ Looking
    /\ bufAt \in headers => InProgress /\ IgnoreHeaders
    /\ \/ UNCHANGED skipped
       \/ /\ bufAt \in headers
          /\ Corrected.offset < skipped \/ skipped = 0
          /\ skipped' = Corrected.offset
    /\ pc' = "data"
    /\ UNCHANGED << file, fin, result >>

(* photorec_header_found: the file in progress is finished first.          *)
CheckHeader ==
    /\ Looking
    /\ bufAt \in headers
    /\ UNCHANGED << result, skipped >>
    /\ \/ InProgress /\ \E size \in FinalSizes(file) :
                            StartFinish(file, size, "header")
       \/ ~InProgress /\ pc' = "new" /\ UNCHANGED << file, fin >>

(* file_recovery_cpy and photorec_new_file.                                *)
NewFile(kind, opened) ==
    [file EXCEPT !.stat = kind, !.start = space.offset, !.open = opened]

StartFile(kind) ==
    /\ pc = "new"
    /\ file' = NewFile(kind, kind \notin Unsaved)
    /\ pc' = "data"
    /\ UNCHANGED << headers, stop, ret, space, bufAt, fin, result, res,
                    oldOffset, obb, back, skipped, resumeAt, out, visited,
                    forgotten >>

(* fopen fails three times: PSTATUS_EACCES.                                *)
CreateFails(kind) ==
    /\ pc = "new" /\ CreateMayFail /\ kind \notin Unsaved
    /\ Abort(NewFile(kind, FALSE), "EACCES")
    /\ UNCHANGED << headers, stop, space, bufAt, result, res, oldOffset, obb,
                    back, skipped, out, visited, forgotten >>

-----------------------------------------------------------------------------
(* The block goes to the file in progress                                  *)

NoFileInProgress ==
    /\ pc = "data" /\ ~InProgress
    /\ pc' = "advance"
    /\ UNCHANGED << headers, stop, ret, space, bufAt, file, fin, result, res,
                    oldOffset, obb, back, skipped, resumeAt, out, visited,
                    forgotten >>

(* The rest of the block once file f has it: max_filesize is tested after  *)
(* every block, DC_STOP and DC_ERROR finish the file, DC_ERROR with        *)
(* nothing in it.                                                          *)
Verdict(f, verdict) ==
    LET v == IF verdict = "CONTINUE" /\ MaxFileSize > 0 /\ f.size >= MaxFileSize
             THEN "STOP" ELSE verdict
    IN  /\ res' = v
        /\ \/ v = "CONTINUE" /\ pc' = "advance" /\ file' = f /\ UNCHANGED fin
           \/ v = "STOP" /\ \E size \in FinalSizes(f) :
                                StartFinish(f, size, "data")
           \/ v = "ERROR" /\ StartFinish(f, 0, "data")

TakeBlock ==
    /\ pc = "data" /\ InProgress
    /\ space' = RemoveBlock(space)
    /\ UNCHANGED << headers, stop, ret, bufAt, result, oldOffset, obb, back,
                    skipped, resumeAt, out, visited, forgotten >>

(* A file cannot grow beyond what the destination's file system allows.    *)
TooBig == file.open /\ "EFBIG" \in WriteErrors /\ file.size >= LargestFile

(* Mutant of WriteBlock: the result of fwrite is not looked at.            *)
WriteBlockUnchecked(verdict, written) ==
    /\ TakeBlock
    /\ Verdict([file EXCEPT !.loc = AddToFile(@, space.offset, 1),
                            !.size = @ + 1,
                            !.written = IF file.open /\ written
                                        THEN @ \cup {<< space.offset, bufAt >>}
                                        ELSE @],
               verdict)

(* fwrite, file_block_append and data_check.  fwrite gets the bytes in the *)
(* buffer, which are those of block bufAt: `written` has, for each block   *)
(* of the file, the block whose bytes it was given.  With EFBIG nothing is *)
(* written, and the DC_STOP it sets is overwritten by the data_check.      *)
WriteBlock(verdict, written) ==
    /\ TakeBlock
    /\ written = ~TooBig
    /\ Verdict([file EXCEPT !.loc = AddToFile(@, space.offset, 1),
                            !.size = @ + 1,
                            !.written = IF file.open /\ written
                                        THEN @ \cup {<< space.offset, bufAt >>}
                                        ELSE @],
               verdict)

(* An ext2/ext3 indirect block: it leaves the search space but is not      *)
(* data of the file.                                                       *)
SkipIndirectBlock ==
    /\ TakeBlock
    /\ Ext2 /\ file.size >= IndirectAfter
    /\ Verdict([file EXCEPT !.loc = AddToFile(@, space.offset, 0)], "CONTINUE")

(* fwrite fails for any other reason: PSTATUS_ENOSPC, the block is not     *)
(* taken and the file is aborted.                                          *)
WriteFails ==
    /\ pc = "data" /\ InProgress /\ file.open /\ "ENOSPC" \in WriteErrors
    /\ Abort(file, "ENOSPC")
    /\ UNCHANGED << headers, stop, space, bufAt, result, res, oldOffset, obb,
                    back, skipped, out, visited, forgotten >>

(* forget() after a file_finish2, with lowmem only.                        *)
ForgetRanges ==
    /\ pc \in {"forget", "media_forget"}
    /\ space' = Forget(space)
    /\ forgotten' = forgotten \cup (BlocksOf(space.list) \ BlocksOf(space'.list))
    /\ pc' = IF pc = "forget" THEN "advance" ELSE "refill"
    /\ UNCHANGED << headers, stop, ret, bufAt, file, fin, result, res,
                    oldOffset, obb, back, skipped, resumeAt, out, visited >>

-----------------------------------------------------------------------------
(* Where to look next                                                      *)

AfterAdvance == pc' = IF space'.cur = ListHead THEN "media" ELSE "refill"

AdvanceSector ==
    /\ pc = "advance" /\ result = "BAD" /\ res = "SCAN"
    /\ space' = GetNextSector(space)
    /\ back' = IF space'.offset > obb THEN 0 ELSE back
    /\ AfterAdvance
    /\ UNCHANGED << headers, stop, ret, bufAt, file, fin, result, res,
                    oldOffset, obb, skipped, resumeAt, out, visited, forgotten >>

(* The block just appended, or given back, has moved the position already. *)
AdvanceInFile ==
    /\ pc = "advance"
    /\ \/ result = "BAD" /\ res # "SCAN"
       \/ result = "OK" /\ InProgress
    /\ UNCHANGED << headers, stop, ret, space, bufAt, file, fin, result, res,
                    oldOffset, obb, back, skipped, resumeAt, out, visited,
                    forgotten >>
    /\ AfterAdvance

Recovered == \/ result = "OK_TRUNCATED"
             \/ result = "OK" /\ ~InProgress

CanGoBack == back < MaxBack /\ PrevFileHeader(space) # 0

(* A file was recovered: try the rejected header before it again ...       *)
BackToHeader ==
    /\ pc = "advance" /\ Recovered /\ CanGoBack
    /\ obb' = space.offset /\ back' = back + 1
    /\ space' = MoveTo(space, PrevFileHeader(space))
    /\ AfterAdvance
    /\ UNCHANGED << headers, stop, ret, bufAt, file, fin, result, res,
                    oldOffset, skipped, resumeAt, out, visited, forgotten >>

(* ... or go back to the header that was ignored inside the file.          *)
BackToSkipped ==
    /\ pc = "advance" /\ Recovered /\ ~CanGoBack
    /\ obb' = space.offset /\ back' = 0
    /\ space' = PrevLocationSmart(space, skipped, file.start)
    /\ skipped' = 0
    /\ AfterAdvance
    /\ UNCHANGED << headers, stop, ret, bufAt, file, fin, result, res,
                    oldOffset, resumeAt, out, visited, forgotten >>

(* End of media: the file in progress is finished here ...                 *)
EndOfMedia ==
    /\ pc = "media"
    /\ \/ /\ InProgress
          /\ \E size \in FinalSizes(file) : StartFinish(file, size, "media")
          /\ UNCHANGED result
       \/ /\ ~InProgress
          /\ pc' = "media_done" /\ result' = "BAD"
          /\ UNCHANGED << file, fin >>
    /\ UNCHANGED << headers, stop, ret, space, bufAt, res, oldOffset, obb,
                    back, skipped, resumeAt, out, visited, forgotten >>

(* ... and a header ignored inside it is looked at again.                  *)
EndOfMediaDone ==
    /\ pc = "media_done"
    /\ IF result = "BAD" THEN UNCHANGED << space, skipped >>
       ELSE /\ space' = PrevLocationSmart(space, skipped, file.start)
            /\ skipped' = 0
    /\ pc' = IF Lowmem THEN "media_forget" ELSE "refill"
    /\ UNCHANGED << headers, stop, ret, bufAt, file, fin, result, res,
                    oldOffset, obb, back, resumeAt, out, visited, forgotten >>

-----------------------------------------------------------------------------
(* The buffer moves on.  result, res and oldOffset are locals of the loop  *)
(* body: they start afresh in the next iteration.                          *)

MustReadSeldom == result # "BAD"    \* mutant: the position has not jumped

MustRead == result # "BAD" \/ oldOffset + 1 # space.offset

NextIteration ==
    /\ pc = "refill" /\ pc' = "top"
    /\ result' = "BAD" /\ res' = "SCAN" /\ oldOffset' = 0
    /\ UNCHANGED << headers, stop, ret, space, file, fin, obb, back, skipped,
                    out, visited, forgotten >>

(* The next block is in the buffer already.                                *)
KeepBuffer ==
    /\ NextIteration /\ ~MustRead
    /\ bufAt' = bufAt + 1 /\ UNCHANGED resumeAt

(* pread at offset; when nothing asks for it the end of the buffer is      *)
(* reached, which here may happen at any step.                             *)
ReadBuffer ==
    /\ NextIteration
    /\ bufAt' = space.offset /\ UNCHANGED resumeAt

(* ReadBuffer when a second has passed: set_photorec_progressbar (which    *)
(* always returns PSTATUS_OK), then params->offset = offset.               *)
ShowProgress ==
    /\ NextIteration
    /\ bufAt' = space.offset /\ resumeAt' = space.offset

-----------------------------------------------------------------------------
Finishing == RejectFirst \/ RejectRest \/ Rejected \/ TruncateFragment
             \/ Accepted

Pass ==
    \/ Finishing
    \/ EndOfSpace \/ UserStop \/ CheckNoHeader \/ CheckHeader
    \/ \E kind \in Stats : StartFile(kind) \/ CreateFails(kind)
    \/ NoFileInProgress \/ WriteFails \/ SkipIndirectBlock \/ ForgetRanges
    \/ \E verdict \in {"CONTINUE", "STOP", "ERROR"}, written \in BOOLEAN :
           WriteBlock(verdict, written)
    \/ AdvanceSector \/ AdvanceInFile \/ BackToHeader \/ BackToSkipped
    \/ EndOfMedia \/ EndOfMediaDone
    \/ KeepBuffer \/ ReadBuffer \/ ShowProgress

Next == Pass \/ RequestStop

Spec == Init /\ [][Next]_vars

(* photorec_aux runs in a thread of its own that nothing blocks: it takes  *)
(* its next step.                                                          *)
FairSpec == Spec /\ WF_vars(Pass)

-----------------------------------------------------------------------------
(* Properties                                                              *)

(* The list stays sorted, its ranges disjoint and never empty, whatever is *)
(* cut out of it, given back or merged.                                    *)
ListOrdered == Ordered(space.list)

(* The blocks of the file in progress: still to be settled, or kept by the *)
(* file_finish2 under way.                                                 *)
FileBlocks == BlocksOf(file.loc) \cup BlocksOf(fin.kept)
SavedBlocks == UNION { BlocksOf(f.loc) : f \in out }

Places == [free |-> BlocksOf(space.list), held |-> FileBlocks,
           saved |-> SavedBlocks, forgotten |-> forgotten]

(* Every block of the partition is, at every moment, in exactly one of:    *)
(* the search space, the file in progress, one recovered file (or it was   *)
(* forgotten).                                                             *)
Conservation ==
    /\ UNION { Places[p] : p \in DOMAIN Places } = Disk
    /\ \A p, q \in DOMAIN Places : p # q => Places[p] \cap Places[q] = {}
    /\ \A f, g \in out : f # g => BlocksOf(f.loc) \cap BlocksOf(g.loc) = {}

(* The lists implement the ownership of blocks: see Ownership.             *)
Owner ==
    LET places == Places
        at(b) == { p \in DOMAIN places : b \in places[p] }
    IN  [b \in Disk |-> IF \E p \in DOMAIN places : at(b) = {p}
                        THEN CHOOSE p \in at(b) : TRUE ELSE "lost"]

Owned == INSTANCE Ownership WITH owner <- Owner

OwnershipSpec == Owned!Spec

(* The head of the loop looks at a block of the current range: the code    *)
(* prints "BUG: offset=%llu not in [%llu-%llu]" otherwise, and the file it *)
(* may then start takes the bytes of another block for its first ones.     *)
OffsetInCurrent == pc = "top" /\ space.cur # ListHead => OffsetInRange

(* A pass that ran to its end has looked at the bytes of every block it    *)
(* leaves unrecovered, however often it jumped back.                       *)
EveryBlockLookedAt ==
    pc = "returned" /\ ret = "OK" => BlocksOf(space.list) \subseteq visited

DataBlocks(loc) ==
    UNION { Extent(loc[i]) : i \in { j \in DOMAIN loc : loc[j].data = 1 } }

(* File f has the bytes of its block b.  One way remains to a wrong block: *)
(* where headers are ignored the head of the loop may move the position    *)
(* and not the buffer (see OffsetInCurrent), and a file that begins there  *)
(* has the bytes of another header at its start.                           *)
HasBytes(f, b) ==
    \/ << b, b >> \in f.written
    \/ IgnoreHeaders /\ b = f.start /\ \E h \in headers : << b, h >> \in f.written

(* What a recovered file claims as its data is in it: the bytes of every   *)
(* block, as the disk has them, but for what lies beyond the largest file  *)
(* the destination can hold: EFBIG does not end a file (see WriteBlock).   *)
(* The buffer is read in pieces and the position jumps back after every    *)
(* file, so that a block may be written for another one.                   *)
KeptIsWritten ==
    \A f \in out :
        LET data == DataBlocks(f.loc)
            held == {b \in data : HasBytes(f, b)}
        IN  f.saved => \/ held = data
                       \/ "EFBIG" \in WriteErrors /\ Cardinality(held) >= LargestFile

(* When the pass gives up on an error, the file in progress is undone: no  *)
(* output file is left open, its blocks are searchable again and the       *)
(* resume offset is in the search space.                                   *)
AbortUndone ==
    pc = "returned" /\ ret \in {"EACCES", "ENOSPC"} =>
        /\ ~InProgress /\ ~file.open /\ file.loc = <<>>
        /\ resumeAt \in BlocksOf(space.list)

(* When the pass stops, for any reason, every block is recovered or still  *)
(* in the search space that session_save writes next.                      *)
StopKeepsBlocks ==
    pc = "returned" => BlocksOf(space.list) \cup SavedBlocks = Disk

(* The pass ends: jumps back are paid for by recovered files.              *)
Termination == <>(pc = "returned")
=============================================================================
