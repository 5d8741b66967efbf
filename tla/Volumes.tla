------------------------------- MODULE Volumes ------------------------------
(***************************************************************************)
(* What TestDisk reads of a file system to list its directories:           *)
(* fat_dir.c, exfat_dir.c, ntfs_dir.c, ext2_dir.c, rfs_dir.c and the       *)
(* choice among them in dirpart.c.  The last three ask a library, which is *)
(* external.                                                               *)
(*                                                                         *)
(* A volume is a record                                                    *)
(*   ptype   type of the partition: "fat", "ntfs", "linux" or "other"      *)
(*   upart   the file system found there: "fat16", "fat32", "exfat", ...   *)
(*   opens   the readers that accept it                                    *)
(*   last    its last cluster, or the last block of a library's file       *)
(*   fat     the table: 0, a cluster, EOC, or anything else; 0 as well     *)
(*           where the table cannot be read                                *)
(*   bad     clusters that cannot be read                                  *)
(*   cell    content of a cluster: the dots that a directory begins with,  *)
(*           its slots, and whether slots of another cluster may follow    *)
(*   root    cluster or inode of the root directory                        *)
(*   slots   entries of the root of a FAT16, or of a library's directories *)
(*   blocks  blocks of a library's file, by inode                          *)
(***************************************************************************)
EXTENDS Integers, Sequences, FiniteSetsExt, SequencesExt

CONSTANTS MaxDirClusters    \* clusters of a directory that are read, at most

ASSUME MaxDirClustersAssumption == MaxDirClusters \in Nat \ {0}

EOC == 99
Fat == {"fat16", "fat32"}
Chained == Fat \cup {"exfat"}

(* get_next_cluster of fat.c, exfat_get_next_cluster: behind the table's    *)
(* entries there are zeros.                                                 *)
get_next_cluster(v, c) == IF c \in DOMAIN v.fat THEN v.fat[c] ELSE 0

\* mutant: the last two clusters are not linked to
LastLinkedShort(v) == v.last - 1

(* The last cluster a link is followed to: no_of_cluster + 2 is one too     *)
(* many, total_clusters one too few.                                        *)
LastLinked(v) == IF v.upart = "exfat" THEN v.last - 1 ELSE v.last + 1
IsLink(v, c) == c \in 2..LastLinked(v)

(* The partition ends with its disk.                                        *)
Readable(v, c) == c \in (2..v.last) \ v.bad
Cell(v, c) == v.cell[c]

(* while(++cluster<no_of_cluster+2 && get_next_cluster()!=0); *)
NextFree(v, c) ==
    LET free(x) == x >= LastLinked(v) \/ get_next_cluster(v, x) = 0
    IN  CHOOSE x \in (c + 1)..(c + v.last + 2) :
            free(x) /\ \A y \in (c + 1)..(x - 1) : ~free(y)

-----------------------------------------------------------------------------
\* mutant: every cluster of a directory must begin with the dots
DirectoryClustersDots(v, first, dots) ==
    LET follow[c \in Nat, trust \in BOOLEAN, n \in 0..MaxDirClusters] ==
            IF \/ c = EOC \/ c < 2 \/ n = MaxDirClusters \/ ~Readable(v, c)
               \/ dots /\ ~Cell(v, c).dots
            THEN <<>>
            ELSE LET next == get_next_cluster(v, c)
                     sane == trust /\ (IsLink(v, next) \/ next = EOC \/ next = 0)
                 IN  << c >> \o follow[IF sane THEN next ELSE c + 1, sane, n + 1]
    IN  follow[first, TRUE, 0]

(* The clusters fat_dir and exfat_dir read of a directory.  A free entry    *)
(* ends the chain; when the table makes no sense the next clusters are      *)
(* taken until one cannot be read.                                          *)
DirectoryClusters(v, first, dots) ==
    LET follow[c \in Nat, trust \in BOOLEAN, n \in 0..MaxDirClusters] ==
            IF \/ c = EOC \/ c < 2 \/ n = MaxDirClusters \/ ~Readable(v, c)
               \/ n = 0 /\ dots /\ ~Cell(v, c).dots
            THEN <<>>
            ELSE LET next == get_next_cluster(v, c)
                     sane == trust /\ (IsLink(v, next) \/ next = EOC \/ next = 0)
                 IN  << c >> \o follow[IF sane THEN next ELSE c + 1, sane, n + 1]
    IN  follow[first, TRUE, 0]

(* Up to the first cluster with a slot that was never used                  *)
SlotsOf(v, clusters) ==
    LET part == SelectInSeq(clusters, LAMBDA c : ~Cell(v, c).more)
        used == IF part = 0 THEN clusters ELSE SubSeq(clusters, 1, part)
    IN  FlattenSeq([i \in DOMAIN used |-> Cell(v, used[i]).slots])

(* An entry of a directory: file_info_t.  A name is a first letter and the  *)
(* rest; size is in clusters.                                               *)
Entry(name, kind, ino, size, deleted) ==
    [name |-> name, kind |-> kind, ino |-> ino, size |-> size, deleted |-> deleted]

(* A deleted file without its long name is listed as "_est.txt".            *)
FatEntry(s) ==
    Entry(IF s.deleted /\ ~s.long THEN [s.name EXCEPT ![1] = "_"] ELSE s.name,
          s.kind, s.ino, s.size, s.deleted)

fat_dir(v, first, deleted) ==
    LET root == first = 0
        slots == IF root /\ v.upart # "fat32" THEN v.slots[0]
                 ELSE SlotsOf(v, DirectoryClusters(v, IF root THEN v.root ELSE first, ~root))
        listed == SelectSeq(slots, LAMBDA s : s.deleted => deleted)
    IN  [i \in DOMAIN listed |-> FatEntry(listed[i])]

(* dir_exfat_aux: the slots that follow a file's belong to it, as many as   *)
(* it says.                                                                 *)
ExfatEntries(slots, deleted) ==
    LET read[i \in 0..Len(slots)] ==
            IF i = 0 THEN [files |-> <<>>, owed |-> 0]
            ELSE LET before == read[i - 1]
                     s == slots[i]
                     n == Len(before.files)
                     put(file) == [files |-> [before.files EXCEPT ![n] = file],
                                   owed |-> before.owed - 1]
                 IN  IF s.deleted /\ ~deleted THEN before
                     ELSE IF s.type = "file"
                     THEN [files |-> Append(before.files,
                               Entry(<<>>, s.kind, 0, 0, s.deleted)), owed |-> s.count]
                     ELSE IF before.owed = 0 \/ n = 0 THEN before
                     ELSE LET file == before.files[n]
                          IN  CASE s.type = "stream" ->
                                       put([file EXCEPT !.ino = s.ino, !.size = s.size])
                                [] s.type = "name" -> put([file EXCEPT !.name = @ \o s.name])
                                [] OTHER -> put(file)
    IN  read[Len(slots)].files

exfat_dir(v, first, deleted) ==
    LET clusters == DirectoryClusters(v, IF first < 2 THEN v.root ELSE first, FALSE)
    IN  ExfatEntries(FlattenSeq([i \in DOMAIN clusters |-> Cell(v, clusters[i]).slots]), deleted)

(* What a library reports: ntfs_td_list_entry hides alternate streams unless*)
(* they are asked for, and an inode it cannot open ends the directory;      *)
(* list_dir_proc2 passes over that, over deleted entries unless they are    *)
(* asked for, and over inodes that hold nothing.                            *)
ntfs_dir(v, ino, param) ==
    LET slots == v.slots[ino]
        part == SelectInSeq(slots, LAMBDA s : s.unreadable)
        met == IF part = 0 THEN slots ELSE SubSeq(slots, 1, part - 1)
        shown == SelectSeq(met, LAMBDA s : s.stream => param)
    IN  SelectSeq(shown, LAMBDA s : s.kind = "dir") \o SelectSeq(shown, LAMBDA s : s.kind # "dir")

ext2_dir(v, ino, param) ==
    SelectSeq(v.slots[ino], LAMBDA s :
        /\ s.ino # 0 /\ ~s.unreadable /\ ~s.gone
        /\ s.deleted => param)

library_dir(reader, v, ino, param) ==
    LET listed == IF ino \notin DOMAIN v.slots THEN <<>>
                  ELSE IF reader = "ntfs" THEN ntfs_dir(v, ino, param)
                  ELSE ext2_dir(v, ino, param)
    IN  [i \in DOMAIN listed |->
            Entry(listed[i].name, listed[i].kind, listed[i].ino, listed[i].size,
                  listed[i].deleted)]

(* dir_data->get_dir(); `param` is FLAG_LIST_DELETED or FLAG_LIST_ADS       *)
get_dir(reader, v, ino, param) ==
    CASE reader \in Fat -> fat_dir(v, ino, param)
      [] reader = "exfat" -> exfat_dir(v, ino, param)
      [] OTHER -> library_dir(reader, v, ino, param)

-----------------------------------------------------------------------------
(* dir_partition_init: the reader that is used, or ENOIMP or EIO            *)
Initialised(v, reader) == IF reader \in v.opens THEN reader ELSE "EIO"

ByPartition(v) ==
    CASE v.ptype = "fat" -> Initialised(v, v.upart)
      [] v.ptype = "ntfs" ->
             IF "ntfs" \in v.opens THEN "ntfs" ELSE Initialised(v, "exfat")
      [] v.ptype = "linux" ->
             IF "ext2" \in v.opens THEN "ext2" ELSE Initialised(v, "reiser")
      [] OTHER -> "ENOIMP"

dir_partition_init(v) ==
    IF ByPartition(v) \in {"EIO", "ENOIMP"} /\ v.upart \in Chained \cup {"ntfs", "ext2", "reiser"}
    THEN Initialised(v, v.upart)
    ELSE ByPartition(v)

(* dir_data->current_inode of each reader, and whether it lists everything  *)
(* before 'h' is pressed                                                    *)
RootInode(reader) ==
    CASE reader \in Chained -> 0 [] reader = "ntfs" -> 5 [] OTHER -> 2
ShowsAll(reader) == reader # "reiser"
=============================================================================
