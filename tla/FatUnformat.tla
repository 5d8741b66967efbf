----------------------------- MODULE FatUnformat ----------------------------
(***************************************************************************)
(* The UNFORMAT pass (fat_unformat.c): on a FAT file system that has been  *)
(* formatted over, the subdirectories are still there.  Their "." entries  *)
(* tell where clusters are and how large (find_sectors_per_cluster_aux);   *)
(* then every cluster is looked at, and the files a directory lists are    *)
(* copied as if they were in one piece, and taken from the search space.   *)
(*                                                                         *)
(* Positions are bytes.  A directory on the disk is a record               *)
(*   at     its first byte                                                 *)
(*   self   the cluster its "." entry names                                *)
(*   slots  its entries, see dir_fat_aux, in read_size bytes               *)
(* `phase` is                                                              *)
(*   find     fat_unformat before it knows the clusters                    *)
(*   walk     the loop of fat_unformat_aux                                 *)
(*   entries  its loop over the entries of a directory                     *)
(*   done     fat_unformat_aux has returned                                *)
(*   unknown, before: fat_unformat has returned with a message             *)
(***************************************************************************)
EXTENDS SpaceEdits, ClusterSize

CONSTANTS
    DiskSize,       \* bytes of the disk
    Contents(_),    \* the directories a disk may have, by start of partition
    PartStarts,     \* where the partition may begin
    Holes,          \* extents that may be missing in the search space
    MaxSubdirs,     \* directories that are enough, 10 in the code
    Look, Buffer    \* read_size and READ_SIZE, in bytes

ASSUME BufferAssumption == Look \in Nat \ {0} /\ Buffer \in Nat /\ Look <= Buffer

VARIABLES
    phase, partition, list,
    dirs,           \* content of the disk
    blocksize,      \* cluster_size
    startData,      \* start_data: sectors in "find" and "before", then bytes
    offset, offsetEnd,
    at, base,       \* what the buffer has at `buffer`, and at buffer_start
    entries, nbr,   \* the rest of dir_list, and the entries before it
    copied,         \* files copied: [start, size, written]
    failed,         \* files fat_copy_file returned -1 for
    given,          \* ghost: the search space fat_unformat_aux is given
    cut             \* ghost: the clusters removed as directories: [at, offset]

vars == << phase, partition, list, dirs, blocksize, startData, offset,
           offsetEnd, at, base, entries, nbr, copied, failed, given, cut >>

Init ==
    /\ \E start \in PartStarts :
          /\ partition = [start |-> start, end |-> DiskSize - 1, stat |-> NoStat]
          /\ dirs \in Contents(start)
    /\ \E hole \in Holes :
          list = RemoveExtent(<< partition >>, hole[1], hole[2])
    /\ phase = "find"
    /\ blocksize = 0 /\ startData = 0 /\ offset = 0 /\ offsetEnd = 0
    /\ at = 0 /\ base = 0 /\ entries = <<>> /\ nbr = 0
    /\ copied = {} /\ failed = {} /\ given = <<>> /\ cut = {}

PartSize == partition.end - partition.start + 1

-----------------------------------------------------------------------------
(* Slots of a directory: what it holds, the first cluster, the size         *)
Slot(kind, ino, size) == [kind |-> kind, ino |-> ino, size |-> size]

(* dir_fat_aux: up to the first slot that was never used, without deleted   *)
(* entries, volume names and the slots of long names                        *)
dir_fat_aux(slots) ==
    LET unused == SelectInSeq(slots, LAMBDA s : s.kind = "unused")
        used == IF unused = 0 THEN slots ELSE SubSeq(slots, 1, unused - 1)
    IN  SelectSeq(used, LAMBDA s : s.kind \notin {"deleted", "volume", "long"})

is_fat_directory(d) ==
    Len(d.slots) >= 2 /\ d.slots[1].kind = "." /\ d.slots[2].kind = ".."

DirectoriesAt(x) == {d \in dirs : d.at = x /\ is_fat_directory(d)}

-----------------------------------------------------------------------------
(* pfind_sectors_per_cluster: the first directories of the search space, in *)
(* steps of a sector from the start of each range                           *)
OnTheWalk(x) ==
    \E i \in DOMAIN list : x \in Extent(list[i]) /\ (x - list[i].start) % Sector = 0

SectorCluster ==
    LET met == SetToSortSeq({d \in dirs : is_fat_directory(d) /\ OnTheWalk(d.at)},
                            LAMBDA c, d : c.at < d.at)
    IN  [i \in 1..Min({Len(met), MaxSubdirs}) |->
            [sector |-> met[i].at \div Sector, cluster |-> met[i].self]]

(* The set has one pair of them, or none.                                    *)
BestPairs ==
    Solutions(SectorCluster, PartSize \div Sector, 0)

Unchanged == UNCHANGED << partition, dirs >>

(* "Can't find FAT cluster size" *)
ClustersUnknown ==
    /\ phase = "find" /\ BestPairs = {}
    /\ phase' = "unknown"
    /\ Unchanged
    /\ UNCHANGED << list, blocksize, startData, offset, offsetEnd, at, base,
                    entries, nbr, copied, failed, given, cut >>

Found == LET s == SectorCluster
             p == CHOOSE p \in BestPairs : TRUE
         IN  Proposal(s, p[1], p[2])

(* "FAT filesystem was beginning before the actual partition.": sectors are *)
(* compared with bytes                                                      *)
BeforePartition ==
    /\ phase = "find" /\ BestPairs # {}
    /\ Found[2] <= partition.start
    /\ phase' = "before" /\ startData' = Found[2]
    /\ Unchanged
    /\ UNCHANGED << list, blocksize, offset, offsetEnd, at, base, entries, nbr,
                    copied, failed, given, cut >>

(* The rest of fat_unformat, and fat_unformat_aux up to its loop            *)
Begin ==
    /\ phase = "find" /\ BestPairs # {}
    /\ Found[2] > partition.start
    /\ blocksize' = Found[1] * Sector
    /\ startData' = Found[2] * Sector
    /\ list' = InBlocks(RemoveExtent(list, partition.start, startData' - 1),
                        blocksize', startData' % blocksize')
    /\ given' = list'
    /\ IF list' = <<>>
       THEN phase' = "done" /\ UNCHANGED << offset, offsetEnd, at, base >>
       ELSE /\ phase' = "walk"
            /\ offset' = list'[1].start /\ offsetEnd' = Last(list').end
            /\ at' = offset' /\ base' = offset'
    /\ Unchanged
    /\ UNCHANGED << entries, nbr, copied, failed, cut >>

-----------------------------------------------------------------------------
(* fat_unformat_aux *)

NumberOfClusters == (PartSize - startData) \div blocksize

(* The end of the body of the loop, and its step.  The buffer is filled     *)
(* again from the cluster just looked at, not from the next one.            *)
NextClusterAhead ==     \* mutant: filled again from the cluster after the next
    LET next == at + blocksize
    IN  /\ offset' = offset + blocksize
        /\ IF next + Look > base + Buffer
           THEN at' = offset + 2 * blocksize /\ base' = at'
           ELSE at' = next /\ UNCHANGED base

NextCluster ==
    LET next == at + blocksize
    IN  /\ offset' = offset + blocksize
        /\ IF next + Look > base + Buffer
           THEN at' = offset /\ base' = offset
           ELSE at' = next /\ UNCHANGED base

WalkEnds == phase = "walk" /\ offset >= offsetEnd

Finish ==
    /\ WalkEnds
    /\ phase' = "done"
    /\ Unchanged
    /\ UNCHANGED << list, blocksize, startData, offset, offsetEnd, at, base,
                    entries, nbr, copied, failed, given, cut >>

(* No directory here *)
PassCluster ==
    /\ phase = "walk" /\ ~WalkEnds
    /\ DirectoriesAt(at) = {}
    /\ NextCluster
    /\ Unchanged
    /\ UNCHANGED << phase, list, blocksize, startData, offsetEnd, entries, nbr,
                    copied, failed, given, cut >>

(* A directory: its cluster leaves the search space.                        *)
OpenDirectory ==
    /\ phase = "walk" /\ ~WalkEnds
    /\ \E d \in DirectoriesAt(at) : entries' = dir_fat_aux(d.slots)
    /\ phase' = "entries" /\ nbr' = 0
    /\ list' = RemoveExtent(list, offset, offset + blocksize - 1)
    /\ cut' = cut \cup {[at |-> at, offset |-> offset]}
    /\ Unchanged
    /\ UNCHANGED << blocksize, startData, offset, offsetEnd, at, base, copied,
                    failed, given >>

FileStart(e) == startData + (e.ino - 2) * blocksize
FileEnd(e) == FileStart(e) + ((e.size + blocksize - 1) \div blocksize) * blocksize - 1

(* Entries that cannot be right end the listing.                            *)
InRangeLoose(e) == TRUE         \* mutant: any cluster will do
InRange(e) == FileEnd(e) < partition.start + PartSize

Implausible(e, n) ==
    \/ e.ino = 1 \/ e.ino >= NumberOfClusters + 2
    \/ e.kind = ".." /\ n # 1
    \/ e.kind = "dir" /\ e.ino = 0
    \/ e.kind = "." /\ (e.ino = 0 \/ n # 0)
    \/ e.kind = "file" /\ (e.ino = 0 \/ ~InRange(e))

CloseDirectory ==
    /\ phase = "entries"
    /\ entries # <<>> => Implausible(Head(entries), nbr)
    /\ phase' = "walk" /\ entries' = <<>>
    /\ NextCluster
    /\ Unchanged
    /\ UNCHANGED << list, blocksize, startData, offsetEnd, nbr, copied, failed,
                    given, cut >>

Entry == phase = "entries" /\ entries # <<>> /\ ~Implausible(Head(entries), nbr)

(* ".", ".." and subdirectories, for which a directory is made              *)
PassEntry ==
    /\ Entry /\ Head(entries).kind # "file"
    /\ entries' = Tail(entries) /\ nbr' = nbr + 1
    /\ Unchanged
    /\ UNCHANGED << phase, list, blocksize, startData, offset, offsetEnd, at,
                    base, copied, failed, given, cut >>

(* fat_copy_file: clusters in a row, as far as clusters go                  *)
Written(e) ==
    Min({e.size, (NumberOfClusters + 2 - e.ino + 1) * blocksize})

CopyRemovesFirst(e) ==      \* mutant: the extent is taken in any case
    /\ list' = RemoveExtent(list, FileStart(e), FileEnd(e))
    /\ \/ /\ copied' = copied \cup {[start |-> FileStart(e), end |-> FileEnd(e),
                                     size |-> e.size, written |-> Written(e)]}
          /\ UNCHANGED failed
       \/ failed' = failed \cup {e} /\ UNCHANGED copied

(* It returns -1 when the file cannot be created or the destination is full *)
Copy(e) ==
    \/ /\ copied' = copied \cup {[start |-> FileStart(e), end |-> FileEnd(e),
                                  size |-> e.size, written |-> Written(e)]}
       /\ list' = RemoveExtent(list, FileStart(e), FileEnd(e))
       /\ UNCHANGED failed
    \/ failed' = failed \cup {e} /\ UNCHANGED << list, copied >>

CopyFile ==
    /\ Entry /\ Head(entries).kind = "file"
    /\ Copy(Head(entries))
    /\ entries' = Tail(entries) /\ nbr' = nbr + 1
    /\ Unchanged
    /\ UNCHANGED << phase, blocksize, startData, offset, offsetEnd, at, base, given,
                    cut >>

Next ==
    \/ ClustersUnknown \/ BeforePartition \/ Begin
    \/ PassCluster \/ OpenDirectory \/ PassEntry \/ CopyFile \/ CloseDirectory
    \/ Finish

Spec == Init /\ [][Next]_vars

-----------------------------------------------------------------------------
(* Properties                                                              *)

First == given[1].start
Cluster(x) == x .. (x + blocksize - 1)

(* The buffer has been filled again: from then on the contents are those of *)
(* the cluster before `offset`.                                             *)
Behind1(x) == x - First >= Buffer - Look
Late(c) == c.at + blocksize = c.offset /\ Behind1(c.offset)

(* What has left the search space has been recovered, or is a directory     *)
(* that has been read - or, once the buffer was filled again, the cluster   *)
(* behind a directory; and the list stays in order.                         *)
SpaceKeepsTheRest ==
    phase \in {"walk", "entries", "done"} =>
        /\ Ordered(list)
        /\ \A x \in BlocksOf(given) \ BlocksOf(list) :
              \/ \E f \in copied : x \in f.start .. f.end
              \/ \E c \in cut : x \in Cluster(c.at) \/ (Late(c) /\ x \in Cluster(c.offset))

(* A file that has been copied lies in the clusters of the partition, is    *)
(* not in the search space any more, and has been written to its end, if    *)
(* the partition begins with the disk: clusters are counted from there.     *)
CopiedIsWhole ==
    \A f \in copied :
        /\ startData <= f.start /\ f.end <= partition.end
        /\ (f.start .. f.end) \cap BlocksOf(list) = {}
        /\ f.written = f.size \/ partition.start > 0

(* The files a directory lists before something implausible                 *)
Listed(d) ==
    LET all == dir_fat_aux(d.slots)
        odd == {i \in DOMAIN all : Implausible(all[i], i - 1)}
    IN  {all[i] : i \in {j \in DOMAIN all :
                             all[j].kind = "file" /\ \A k \in odd : j < k}}

(* Every directory that begins a cluster is read: what it lists is copied,  *)
(* or could not be written.  The last cluster is not, once the buffer was   *)
(* filled again.                                                            *)
EveryListingRead ==
    phase = "done" /\ given # <<>> =>
        \A d \in dirs :
            /\ is_fat_directory(d)
            /\ d.at \in First .. offsetEnd /\ (d.at - First) % blocksize = 0
            /\ ~(Behind1(d.at) /\ d.at + blocksize > offsetEnd)
            => \A e \in Listed(d) :
                  \/ e \in failed
                  \/ \E f \in copied : f.start = FileStart(e) /\ f.size = e.size

=============================================================================
