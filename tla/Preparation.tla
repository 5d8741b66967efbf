---------------------------- MODULE Preparation ----------------------------
(***************************************************************************)
(* What happens to the search space before the first carving pass: the     *)
(* partition becomes one range (init_search_space), or the groups of an    *)
(* ext2 file system ranges, used space is cut out of it                    *)
(* (remove_used_space), the FIND_OFFSET pass marks the first headers       *)
(* (photorec_find_blocksize, file_found), derives the blocksize from them  *)
(* (find_blocksize) and rounds every range to whole blocks                 *)
(* (update_blocksize).  Carver starts from the list this leaves.           *)
(*                                                                         *)
(* Positions are bytes on a small scale: Sector bytes are a sector, and    *)
(* MaxBlock, 128*512 bytes in the code, is the largest blocksize tried.    *)
(* `phase` is                                                              *)
(*   menu     menu_photorec_cli, before "search"                           *)
(*   chosen   the space is chosen, used space may still be removed         *)
(*   ready    photorec() is called                                         *)
(*   walk     the loop of photorec_find_blocksize                          *)
(*   choose   find_blocksize                                               *)
(*   align    update_blocksize                                             *)
(*   done     photorec() goes on to status_inc                             *)
(***************************************************************************)
EXTENDS UsedSpace

CONSTANTS
    MaxBlock,           \* bytes of the largest block tried
    DiskSize,           \* bytes of the disk
    PartStarts,         \* where the partition may begin
    PartSizes,          \* and its bytes, as the partition table says
    UserBlocksizes,     \* what the user may set as a blocksize
    FileSystems(_),     \* the file systems a partition may hold
    Ext2s,              \* and the ext2 file systems with groups to choose
    MaxInodes,          \* bound: inodes the user may name
    MaxFiles            \* headers photorec_find_blocksize looks for, 10

ASSUME SizesAssumption ==
    /\ Sector > 1 /\ MaxBlock \in Nat /\ MaxBlock > Sector
    /\ DiskSize \in Nat \ {0} /\ DiskSize % Sector = 0
    /\ PartStarts \subseteq 0..(DiskSize - 1) /\ PartSizes \subseteq Nat \ {0}
    /\ UserBlocksizes \subseteq 1..MaxBlock
    /\ MaxFiles \in Nat \ {0} /\ MaxInodes \in Nat

(* MaxBlock, 2^16, is Sector times a power of two: halved, it comes to      *)
(* Sector and not below.                                                    *)
ASSUME HalvesAssumption ==
    /\ MaxBlock % Sector = 0
    /\ \A b \in (Sector + 1)..MaxBlock :
          MaxBlock % b = 0 /\ b % Sector = 0 => b % (2 * Sector) = 0

VARIABLES
    phase, list,
    headers,        \* content of the disk: where a file starts
    stop,           \* mStopRecovrey
    cur, offset,    \* current_search_space, offset of the walk
    inFile,         \* file_recovery.file_stat != NULL
    fileNbr,        \* params->file_nbr
    blocksize,      \* blocksize_is_known, then params->blocksize
    startOffset,    \* start_offset
    partition,      \* the range init_search_space makes
    chosen,         \* ghost: the space chosen, then the space photorec() gets
    fs,             \* ghost: the file system whose used space was removed
    before          \* ghost: the list update_blocksize was given

ghosts == << partition, chosen, fs >>

vars == << phase, list, headers, stop, cur, offset, inFile, fileNbr,
           blocksize, startOffset, ghosts, before >>

Sectors == { s \in 0..(DiskSize - 1) : s % Sector = 0 }

(* init_search_space: the partition as far as the disk goes.               *)
WholePartition(start, size) ==
    [start |-> start, stat |-> NoStat,
     end |-> Min({start + size - 1, DiskSize - 1})]

(* Clusters begin at a sector.                                              *)
ASSUME FileSystemsAssumption ==
    \A start \in PartStarts, size \in PartSizes :
        \A f \in FileSystems(WholePartition(start, size)) :
            FileSystem(f) /\ start + f.data # 1

ASSUME Ext2Assumption ==
    \A e \in Ext2s :
        /\ e.block \in Nat /\ e.block > 1
        /\ e.blocks \in Nat \ {0} /\ e.inodes \in Nat \ {0}

NoFileSystem == [kind |-> "none", used |-> <<>>]

Init ==
    /\ \E start \in PartStarts, size \in PartSizes :
           partition = WholePartition(start, size)
    /\ headers \in SUBSET Sectors
    /\ list = <<>> /\ blocksize = 0 /\ phase = "menu" /\ stop = FALSE
    /\ cur = ListHead /\ offset = 0 /\ inFile = FALSE /\ fileNbr = 0
    /\ startOffset = 0 /\ chosen = <<>> /\ fs = NoFileSystem /\ before = <<>>

-----------------------------------------------------------------------------
(* menu_photorec_cli                                                       *)

(* "search": the whole partition, or what ext2_group and ext2_inode said   *)
Choose(l, b) ==
    /\ list' = l /\ chosen' = l /\ blocksize' = b
    /\ phase' = "chosen"
    /\ UNCHANGED << headers, stop, cur, offset, inFile, fileNbr, startOffset,
                    partition, fs, before >>

ChooseWhole == phase = "menu" /\ Choose(<< partition >>, 0)

ChooseGroups ==
    /\ phase = "menu"
    /\ \E e \in Ext2s :
          LET n == NGroups(e, DiskSize)
          IN  \E groups \in SortedUniq(0..(n - 1), n) :
                  Choose(ext2_fix_group(e, groups), e.block)

ChooseInodes ==
    /\ phase = "menu"
    /\ \E e \in Ext2s :
          \E inodes \in SortedUniq(1..(NGroups(e, DiskSize) * e.inodes), MaxInodes) :
              Choose(ext2_fix_inode(e, inodes), e.block)

(* "freespace", and a blocksize the user sets                               *)
Ready(l, b) ==
    /\ list' = l
    /\ blocksize' \in {b} \cup UserBlocksizes
    /\ phase' = "ready"
    /\ UNCHANGED << headers, stop, cur, offset, inFile, fileNbr, startOffset,
                    partition, chosen, before >>

KeepSpace == phase = "chosen" /\ Ready(list, blocksize) /\ UNCHANGED fs

(* The file system is the one whose groups were chosen.                     *)
RemoveUsed ==
    /\ phase = "chosen"
    /\ \E f \in FileSystems(partition) :
          LET free == RemoveUsedSpace(list, partition, f)
          IN  /\ blocksize > 0 => f.kind = "ext2" /\ f.cluster = blocksize
              /\ Ready(free.list, free.blocksize) /\ fs' = f

-----------------------------------------------------------------------------
(* photorec_find_blocksize                                                 *)

(* The ghosts start again when photorec() is called.                        *)
GhostsRestart == chosen' = list /\ fs' = NoFileSystem /\ UNCHANGED partition

(* The blocksize is known (from the file system or from the user): the     *)
(* first range says where blocks begin.                                    *)
BlocksizeKnown ==
    /\ phase = "ready" /\ blocksize > 0
    /\ startOffset' = IF list = <<>> THEN 0 ELSE list[1].start % blocksize
    /\ phase' = "align"
    /\ GhostsRestart
    /\ UNCHANGED << list, headers, stop, cur, offset, inFile, fileNbr,
                    blocksize, before >>

(* params_reset: until it is known a block is a sector.                    *)
StartWalk ==
    /\ phase = "ready" /\ blocksize = 0
    /\ cur' = NextEntry(list, ListHead)
    /\ offset' = StartOf(list, cur')
    /\ blocksize' = Sector /\ phase' = "walk"
    /\ GhostsRestart
    /\ UNCHANGED << list, headers, stop, inFile, fileNbr, startOffset, before >>

RequestStop ==
    /\ ~stop /\ phase = "walk"
    /\ stop' = TRUE
    /\ UNCHANGED << phase, list, headers, cur, offset, inFile, fileNbr,
                    blocksize, startOffset, ghosts, before >>

(* file_found: the range at cell i is marked at its start, or cut.         *)
FileFound(l, i, at, kind) ==
    LET r == l[i]
    IN  IF r.start = at THEN [l EXCEPT ![i].stat = kind]
        ELSE IF r.start < at /\ at <= r.end
        THEN InsertAt([l EXCEPT ![i].end = at - 1], i + 1,
                      [start |-> at, end |-> r.end, stat |-> kind])
        ELSE l

(* Go on from cell i, unless enough headers were found.                    *)
WalkOn(i) ==
    LET next == IF fileNbr' >= MaxFiles THEN << ListHead, offset >>
                ELSE NextSector(list', i, offset)
    IN  cur' = next[1] /\ offset' = next[2]

Walking == /\ phase = "walk" /\ cur # ListHead /\ ~stop
           /\ UNCHANGED << phase, headers, stop, blocksize, startOffset,
                           ghosts, before >>

(* A checker accepts the sector.  Its data_check may end the file at once. *)
MarkHeader(kind) ==
    /\ Walking /\ offset \in headers
    /\ list' = FileFound(list, cur, offset, kind)
    /\ inFile' \in BOOLEAN /\ fileNbr' = fileNbr + 1
    /\ WalkOn(IF list[cur].start = offset THEN cur ELSE cur + 1)

(* No checker does; inside a file one may pass over a header.              *)
PassSector ==
    /\ Walking /\ (offset \in headers => inFile)
    /\ UNCHANGED << list, fileNbr >>
    /\ inFile' \in {FALSE, inFile}
    /\ WalkOn(cur)

(* The end of the list, or a stop: photorec_find_blocksize returns         *)
(* PSTATUS_OK in both cases.                                               *)
EndWalk ==
    /\ phase = "walk" /\ (cur = ListHead \/ stop)
    /\ phase' = "choose"
    /\ UNCHANGED << list, headers, stop, cur, offset, inFile, fileNbr,
                    blocksize, startOffset, ghosts, before >>

-----------------------------------------------------------------------------
(* find_blocksize: g is << blocksize, *offset >>.  A marked range the      *)
(* blocksize does not fit halves it.                                       *)
Fitted(r, g) ==
    IF r.stat # NoStat /\ r.start % g[1] # g[2] /\ g[1] > Sector
    THEN << g[1] \div 2, r.start % (g[1] \div 2) >> ELSE g

FittedToAll(l, g) ==
    LET fitted[i \in 0..Len(l)] == IF i = 0 THEN g ELSE Fitted(l[i], fitted[i - 1])
    IN  fitted[Len(l)]

HalveOnce(l, g) == FittedToAll(l, g)    \* mutant: the ranges are met once

(* The ranges are met again until all fit, or it is a sector, which takes  *)
(* fewer than MaxBlock times.                                              *)
Halve(l, g) ==
    LET halved[k \in 0..MaxBlock] ==
            IF k = 0 THEN g ELSE FittedToAll(l, halved[k - 1])
    IN  halved[MaxBlock]

ChooseBlocksize ==
    /\ phase = "choose"
    /\ LET g == IF list = <<>> THEN << Sector, 0 >>
                ELSE Halve(list, << MaxBlock, list[1].start % MaxBlock >>)
       IN  blocksize' = g[1] /\ startOffset' = g[2]
    /\ phase' = "align"
    /\ UNCHANGED << list, headers, stop, cur, offset, inFile, fileNbr,
                    ghosts, before >>

-----------------------------------------------------------------------------
UpdateBlocksize ==
    /\ phase = "align"
    /\ list' = InBlocks(list, blocksize, startOffset % blocksize)
    /\ before' = list
    /\ phase' = "done"
    /\ UNCHANGED << headers, stop, cur, offset, inFile, fileNbr, blocksize,
                    startOffset, ghosts >>

-----------------------------------------------------------------------------
Next ==
    \/ ChooseWhole \/ ChooseGroups \/ ChooseInodes
    \/ KeepSpace \/ RemoveUsed
    \/ BlocksizeKnown \/ StartWalk \/ RequestStop
    \/ \E kind \in Stats : MarkHeader(kind)
    \/ PassSector \/ EndWalk \/ ChooseBlocksize \/ UpdateBlocksize

Spec == Init /\ [][Next]_vars

-----------------------------------------------------------------------------
(* Properties                                                              *)

(* The clusters in use, those whose state was taken from a piece of the      *)
(* table that was not read or from a wrong place, and those known to be used *)
UsedClusters == {c \in DOMAIN fs.used : fs.used[c]}
Doubtful == {c \in DOMAIN fs.used : Astray(fs, c)}
KnownUsed == UsedClusters \ Doubtful

Cluster(p, f, c) == ClusterStart(p, f, c) .. (ClusterStart(p, f, c) + f.cluster - 1)
Bytes(C) == UNION {Cluster(partition, fs, c) : c \in C}

Tables == IF fs.kind = "fat" THEN partition.start .. (partition.start + fs.data - 1) ELSE {}

(* Two inodes of one group make the same range twice.                       *)
SameGroup ==
    \E i, j \in DOMAIN chosen : i # j /\ Extent(chosen[i]) \cap Extent(chosen[j]) # {}

GroupsApart == phase = "chosen" => ~SameGroup

(* What is carved is what was chosen without the used clusters, however the *)
(* runs of them lie and wherever headers cut the list.  Clusters in doubt   *)
(* may stay or go, and all stay if nothing is known.                        *)
OnlyUsedLeaves ==
    phase \in {"ready", "walk", "choose", "align"} /\ ~SameGroup =>
        LET gone == BlocksOf(chosen) \ BlocksOf(list)
        IN  /\ Ordered(list)
            /\ BlocksOf(list) \subseteq BlocksOf(chosen)
            /\ fs.kind = "none" => gone = {}
            /\ fs.kind # "none" =>
                   /\ gone \subseteq Tables \cup Bytes(UsedClusters \cup Doubtful)
                   /\ fs.opened /\ (fs.kind \in {"fat", "exfat"} \/ fs.unread = {}) =>
                          BlocksOf(chosen) \cap (Tables \cup Bytes(KnownUsed)) \subseteq gone
                   /\ fs.opened /\ fs.unread = {} /\ Doubtful = {} =>
                          gone = BlocksOf(chosen) \cap (Tables \cup Bytes(UsedClusters))

Ends == { list[i].end + 1 : i \in DOMAIN list }
Starts == { list[i].start : i \in DOMAIN list }

(* Whatever headers the walk met and wherever it was stopped, blocks begin   *)
(* where the headers are, and the list the carving passes begin with is in   *)
(* order and whole blocks, unless a group was chosen twice.                  *)
PreparedInBlocks ==
    /\ \A i \in DOMAIN list :
          list[i].stat # NoStat =>
              /\ list[i].start \in headers
              /\ phase \in {"align", "done"} =>
                    list[i].start % blocksize = startOffset % blocksize
    /\ phase = "done" /\ ~SameGroup =>
          /\ Ordered(list)
          /\ \A x \in Starts \cup Ends : x % blocksize = startOffset % blocksize

(* Rounding gives up no whole block and no header found in one, and takes  *)
(* nothing in but the rest of the block the search space ends in.          *)
RoundingKeepsBlocks ==
    phase = "done" /\ before # <<>> =>
        LET b == blocksize
            free == BlocksOf(before)
            now == BlocksOf(list)
            block(x) == RoundDown(x, b, startOffset % b) ..
                            (RoundDown(x, b, startOffset % b) + b - 1)
            lastEnd == Last(before).end
        IN  /\ \A x \in free : block(x) \subseteq free => x \in now
            /\ \A x \in now \ free :
                   lastEnd < x /\ lastEnd \in block(x)
            /\ \A i \in DOMAIN before :
                   /\ before[i].stat # NoStat
                   /\ before[i].start + b - 1 <= before[i].end
                   => \E j \in DOMAIN list :
                          /\ list[j].start = before[i].start
                          /\ list[j].stat = before[i].stat
=============================================================================
