------------------------------ MODULE UsedSpace -----------------------------
(* What a file system says of the search space: which clusters are in use    *)
(* (remove_used_space, in fatp.c, exfatp.c, ntfsp.c and ext2p.c), and where  *)
(* a group of an ext2 file system lies (ext2grp.c).                          *)
(*                                                                           *)
(* A file system is a record                                                 *)
(*   kind     "fat", "exfat", "ntfs" or "ext2"                               *)
(*   cluster  bytes of a cluster (sectors_per_cluster, blocksize)            *)
(*   data     where the first cluster of its table lies in the partition     *)
(*   used     for each cluster of its table, in order, whether it is in use  *)
(*   unread   pieces of the table that cannot be read, of Piece clusters     *)
(*   stray    for each cluster, what the buffer shows in the place of its    *)
(*            state when the piece it lies in was not read, or was read from *)
(*            a wrong place                                                  *)
(*   opened   whether its first sector and the way to the table can be read  *)
EXTENDS SpaceEdits

CONSTANT Piece      \* clusters whose state one read of the table gives

ASSUME PieceAssumption == Piece \in Nat \ {0}

(* A cluster is whole sectors, and a sector more than a byte.               *)
FileSystem(fs) ==
    /\ fs \in [kind : {"fat", "exfat", "ntfs", "ext2"}, cluster : Nat, data : Nat,
              used : Seq(BOOLEAN), stray : Seq(BOOLEAN), unread : SUBSET Nat,
              opened : BOOLEAN]
    /\ fs.cluster > 1
    /\ Len(fs.stray) = Len(fs.used)

ClusterStart(p, fs, c) == p.start + fs.data + (c - 1) * fs.cluster

(* The used clusters met so far: those from start to end wait until the run  *)
(* is over, and start = end = 0 when there are none.                         *)
NoRun(l) == [list |-> l, start |-> 0, end |-> 0]

EndRun(acc) ==
    IF acc.start = acc.end THEN acc.list
    ELSE RemoveExtent(acc.list, acc.start, acc.end)

NotFreeOver(acc, at, size) ==   \* mutant: a run takes in any later cluster
    IF acc.start # acc.end THEN [acc EXCEPT !.end = at + size - 1]
    ELSE [list |-> EndRun(acc), start |-> at, end |-> at + size - 1]

NotFree(acc, at, size) ==
    IF acc.end + 1 = at THEN [acc EXCEPT !.end = @ + size]
    ELSE [list |-> EndRun(acc), start |-> at, end |-> at + size - 1]

Unread(fs, c) == (c - 1) \div Piece \in fs.unread

(* fatp.c and exfatp.c go on with what the buffer holds where a piece of the *)
(* table cannot be read: zeroes if hdaccess.c failed to read it, anything    *)
(* read earlier into the buffer or the cache if win32.c did.  exfatp.c knows *)
(* where its bitmap begins; to find the next piece it asks get_next_cluster  *)
(* for a FAT at start_exfat1, in bytes where sectors are expected, so that   *)
(* every further piece comes from anywhere.                                  *)
Astray(fs, c) ==
    \/ fs.kind \in {"fat", "exfat"} /\ Unread(fs, c)
    \/ fs.kind = "exfat" /\ c > Piece

MetAsUsed(fs, c) == IF Astray(fs, c) THEN fs.stray[c] ELSE fs.used[c]

(* The walk over the clusters up to c                                        *)
Walked(l, p, fs) ==
    LET walk[c \in 0..Len(fs.used)] ==
            IF c = 0 THEN NoRun(l)
            ELSE IF MetAsUsed(fs, c)
                 THEN NotFree(walk[c - 1], ClusterStart(p, fs, c), fs.cluster)
                 ELSE walk[c - 1]
    IN  walk

Freed(fs, l) == [blocksize |-> fs.cluster, list |-> l]
NothingKnown(l) == [blocksize |-> 0, list |-> l]

(* fatp.c: what lies before the clusters is in use as well.                  *)
WithoutTables(l, p, fs) == RemoveExtent(l, p.start, p.start + fs.data - 1)

fat_remove_used_space(l, p, fs) ==
    IF fs.opened
    THEN Freed(fs, EndRun(Walked(WithoutTables(l, p, fs), p, fs)[Len(fs.used)]))
    ELSE NothingKnown(l)

(* exfatp.c: `opened` is the boot sector, the root directory and its entry   *)
(* of the bitmap                                                             *)
exfat_remove_used_space(l, p, fs) ==
    IF fs.opened THEN Freed(fs, EndRun(Walked(l, p, fs)[Len(fs.used)]))
    ELSE NothingKnown(l)

(* ntfsp.c stops where $Bitmap cannot be read, without a blocksize, and      *)
(* keeps the run it was in.                                                  *)
FirstUnread(fs) ==
    LET lost == {c \in DOMAIN fs.used : Unread(fs, c)}
    IN  IF lost = {} THEN Len(fs.used) + 1 ELSE Min(lost)

ntfs_remove_used_space(l, p, fs) ==
    LET walk == Walked(l, p, fs)
        stop == FirstUnread(fs)
    IN  IF ~fs.opened THEN NothingKnown(l)
        ELSE IF stop <= Len(fs.used) THEN NothingKnown(walk[stop - 1].list)
        ELSE Freed(fs, EndRun(walk[Len(fs.used)]))

(* ext2p.c reads the whole bitmap first.                                     *)
ext2_remove_used_space(l, p, fs) ==
    IF fs.opened /\ fs.unread = {} THEN Freed(fs, EndRun(Walked(l, p, fs)[Len(fs.used)]))
    ELSE NothingKnown(l)

RemoveUsedSpace(l, p, fs) ==
    CASE fs.kind = "fat" -> fat_remove_used_space(l, p, fs)
      [] fs.kind = "exfat" -> exfat_remove_used_space(l, p, fs)
      [] fs.kind = "ntfs" -> ntfs_remove_used_space(l, p, fs)
      [] fs.kind = "ext2" -> ext2_remove_used_space(l, p, fs)

-----------------------------------------------------------------------------
(* An ext2 file system: the bytes of a block, blocks of a group and inodes   *)
(* of a group.  The smallest block, a sector here, is 1024 bytes: then block *)
(* 0 belongs to no group.                                                    *)
GroupBytes(e) == e.blocks * e.block
NGroups(e, size) == size \div GroupBytes(e)
BeforeGroups(e) == IF e.block = Sector THEN Sector ELSE 0

GroupExtent(e, g) ==
    [start |-> g * GroupBytes(e) + BeforeGroups(e), stat |-> NoStat,
     end |-> g * GroupBytes(e) + GroupBytes(e) - 1 + BeforeGroups(e)]

(* The numbers named on the command line, in the order in which              *)
(* td_list_add_sorted_uniq keeps them.                                       *)
Increasing(s) == \A i, j \in DOMAIN s : i < j => s[i] < s[j]
SortedUniq(S, n) == {s \in UNION {[1..k -> S] : k \in 1..n} : Increasing(s)}

(* ext2_fix_group: positions count from the start of the disk.               *)
ext2_fix_group(e, groups) == [i \in DOMAIN groups |-> GroupExtent(e, groups[i])]

(* ext2_fix_inode: one range for each inode.                                 *)
GroupOf(e, inode) == inode \div e.inodes

ext2_fix_inode(e, inodes) ==
    [i \in DOMAIN inodes |-> GroupExtent(e, GroupOf(e, inodes[i]))]
=============================================================================
