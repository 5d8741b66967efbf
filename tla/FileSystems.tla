---------------------------- MODULE FileSystems -----------------------------
(* What TestDisk and PhotoRec know of each file system: where the search     *)
(* functions look for its superblock, what recover_* takes from it, and      *)
(* where check_* looks for it again.  One definition to each source file,    *)
(* named after it.  Abstracted: the fields a test compares beside the magic  *)
(* number (the superblock is "good" or not), names, text and UUID.           *)
EXTENDS Integers, Sequences, FiniteSets

(* The fields of partition_t that are taken from a superblock.  "type" is    *)
(* the part_type of the partition table in use.                              *)
Fields == {"upart", "type", "part_size", "blocksize", "sborg_offset",
           "sb_size", "sb_offset"}

(*  types   upart_type values                                                *)
(*  places  where the search functions look, from the start of the partition *)
(*  checks  where check_* looks, in its order; <<>> when it cannot succeed   *)
(*  sets    what recover_* sets, a constant 0 included                       *)
(*  tables  the partition tables recover_* sets the part_type of             *)
FileSystem(types, place, sets, tables) ==
    [types |-> types, places |-> {place}, checks |-> <<place>>,
     sets |-> sets \cup {"upart", "type", "part_size"}, tables |-> tables]

Intel  == {"i386"}
Pc     == {"i386", "gpt"}
Linux  == {"i386", "gpt", "sun", "mac"}
NoMac  == {"i386", "gpt", "sun"}
Apple  == {"i386", "gpt", "mac"}
Origin == {"sborg_offset", "sb_size"}
Unsized == {"blocksize", "sborg_offset", "sb_offset"}    \* all set to 0

(* two copies of each number: taken only when they agree (size not 0) *)
iso == FileSystem({"ISO"}, "32k", {"blocksize"}, {})
bfs == FileSystem({"BEOS"}, "0x200", {"blocksize"}, Intel)
bsd == FileSystem({"FREEBSD", "OPENBSD"}, "0x200", {}, Intel)
btrfs == FileSystem({"BTRFS"}, "64k", {"blocksize"} \cup Origin, Linux)
(* in an ordinary partition behind the first sector, or at its start *)
cramfs == [FileSystem({"CRAMFS"}, "0x200", {}, Linux) EXCEPT
             !.places = {"0x200", "0"}, !.checks = <<"0x200", "0">>]
exfat == FileSystem({"EXFAT"}, "0", {"blocksize"} \cup Origin, Pc)
ext2 == FileSystem({"EXT2", "EXT3", "EXT4"}, "0x400",
                   {"blocksize", "sb_offset"} \cup Origin, Linux)
f2fs == FileSystem({"F2FS"}, "0x400", {"blocksize"} \cup Origin, Pc)
(* part_type_mac is set for FAT32 only, see Sets *)
fat == FileSystem({"FAT12", "FAT16", "FAT32"}, "0",
                  {"blocksize", "sb_offset"} \cup Origin, Apple)
fatx == FileSystem({"FATX"}, "0", {}, {"xbox"})
gfs2 == FileSystem({"GFS2"}, "64k", {}, Intel)
hfs == FileSystem({"HFS"}, "0x400", {"blocksize"} \cup Origin, Apple)
hfsp == FileSystem({"HFSP", "HFSX"}, "0x400", {"blocksize"} \cup Origin, Apple)
hpfs == FileSystem({"HPFS"}, "0", {}, Pc)
jfs == FileSystem({"JFS"}, "32k", {"blocksize", "sb_offset"} \cup Origin, Linux)
luks == FileSystem({"LUKS"}, "0", Unsized, Linux)
lvm == FileSystem({"LVM"}, "0", {}, NoMac)
lvm2 == FileSystem({"LVM2"}, "0x200", {}, NoMac)
(* version 1.1 at the start, 1.2 at 4 kB; 0.90 and 1.0 from the end, where   *)
(* MdChecked looks for them                                                  *)
md == [FileSystem({"MD", "MD1"}, "0", {}, NoMac) EXCEPT
         !.places = {"0", "4k", "0.90", "1.0"},
         !.checks = <<"0", "4k", "0.90", "1.0">>]
netware == FileSystem({"NETWARE"}, "0", {}, Intel)
ntfs == FileSystem({"NTFS"}, "0", {"blocksize"} \cup Origin, Pc)
os2mb == FileSystem({"OS2MB"}, "0", {}, Intel)
refs == FileSystem({"ReFS"}, "0", Origin, Pc)
rfs == FileSystem({"RFS", "RFS2", "RFS3", "RFS4"}, "64k", {"blocksize"}, Linux)
sun == FileSystem({"SUN"}, "0x200", {}, Pc)
swap == FileSystem({"LINSWAP", "LINSWAP2", "LINSWAP_8K", "LINSWAP2_8K",
                    "LINSWAP2_8KBE"}, "page end", {"blocksize"}, Linux)
sysv4 == FileSystem({"SYSV4"}, "0x200", {}, Intel)
(* UFS2 is found behind 64 kB too, check_ufs looks at 8 kB only *)
ufs == [FileSystem({"UFS", "UFS2", "UFS_LE", "UFS2_LE"}, "8k", {"blocksize"},
                   {"sun", "gpt"}) EXCEPT !.places = {"8k", "64k"}]
(* check_VMFS and check_WBFS compare what two sectors return with one: they  *)
(* fail on a disk that can be read                                           *)
vmfs == [FileSystem({"VMFS"}, "1M", Unsized, Intel) EXCEPT !.checks = <<>>]
wbfs == [FileSystem({"WBFS"}, "0", Unsized, Intel) EXCEPT !.checks = <<>>]
(* "UNK": a version set_xfs_info does not know leaves upart_type alone *)
xfs == FileSystem({"XFS", "XFS2", "XFS3", "XFS4", "XFS5", "UNK"}, "0",
                  {"blocksize"}, Linux)
zfs == FileSystem({"ZFS"}, "8k", Unsized, Linux)

FileSystemOf ==
    [BeFS |-> bfs, BSD |-> bsd, btrfs |-> btrfs, cramfs |-> cramfs,
     exFAT |-> exfat, ext2 |-> ext2, f2fs |-> f2fs, FAT |-> fat,
     FATX |-> fatx, gfs2 |-> gfs2, HFS |-> hfs, HFSP |-> hfsp, HPFS |-> hpfs,
     ISO |-> iso, JFS |-> jfs, LUKS |-> luks, LVM |-> lvm, LVM2 |-> lvm2,
     MD |-> md, netware |-> netware, NTFS |-> ntfs, OS2MB |-> os2mb,
     ReFS |-> refs, rfs |-> rfs, sun_i386 |-> sun, Linux_SWAP |-> swap,
     sysv |-> sysv4, ufs |-> ufs, VMFS |-> vmfs, WBFS |-> wbfs, xfs |-> xfs,
     ZFS |-> zfs]
Names == DOMAIN FileSystemOf

-----------------------------------------------------------------------------
(* A superblock, where the disk has it:                                      *)
(*  fs, type  the file system and the upart_type it stands for               *)
(*  good      it passes the test of its file system                          *)
(*  size      the size it gives the partition, in sectors                    *)
(*  back      how far the start of the partition is before it; not 0 marks a *)
(*            copy (s_block_group_nr of ext2, super_offset of md)            *)
(* Also the sector in front of a logical partition, of fs "EBR": a boot      *)
(* sector of which the entry of the logical partition has a type, "FAT" or   *)
(* "NTFS", and a size, and starts -back behind the sector.                   *)
(*  at        <<location, place>>                                            *)
NoSuperblock == [fs |-> "none", type |-> "UNK", good |-> FALSE, size |-> 0,
                 back |-> 0, at |-> <<0, "0">>]

(* A partition is known by the superblock each of its fields comes from,     *)
(* NoSuperblock after partition_reset.                                       *)
partition_reset == [f \in Fields |-> NoSuperblock]
Take(p, fields, s) == [f \in Fields |-> IF f \in fields THEN s ELSE p[f]]

(* What recover_* sets when the partition table in use is arch *)
Sets(s, arch) ==
    IF s.fs \notin Names THEN {} ELSE
    FileSystemOf[s.fs].sets
    \ ((IF arch \in FileSystemOf[s.fs].tables
           /\ ~(arch = "mac" /\ s.type \in {"FAT12", "FAT16"})
        THEN {} ELSE {"type"})
       \cup (IF s.type = "UNK" THEN {"upart"} ELSE {})
       \cup (IF s.fs = "ISO" /\ s.size = 0 THEN {"part_size", "blocksize"}
             ELSE {}))

(* test_*: a boot sector of FAT or NTFS is refused when it is for more than  *)
(* the size the partition already has                                        *)
Fits(s, room) == s.fs \in {"FAT", "NTFS"} /\ room > 0 => s.size =< room
Tested(s, room) == s.good /\ Fits(s, room)

Found(p, offset) == [res |-> 1, part |-> p, offset |-> offset]
NotFound(p, offset) == [res |-> 0, part |-> p, offset |-> offset]

(* recover_* of a superblock read for a partition supposed at offset         *)
Recover(s, p, offset, arch) ==
    IF Tested(s, p["part_size"].size)
    THEN Found(Take(p, Sets(s, arch), s), offset)
    ELSE NotFound(p, offset)

(* A copy of the superblock moves the start of the partition back.  When it  *)
(* would be before the start of the disk recover_EXT2 gives up, with all but *)
(* sb_offset set.                                                            *)
RecoverExt2(s, p, offset, arch) ==
    IF ~Tested(s, p["part_size"].size) THEN NotFound(p, offset)
    ELSE IF offset < s.back
    THEN NotFound(Take(p, Sets(s, arch) \ {"sb_offset"}, s), offset)
    ELSE Found(Take(p, Sets(s, arch), s), offset - s.back)

(* The copy near the end, with backup: recover_NTFS takes the sector for the *)
(* last one, recover_HFS and recover_HFSP for the last but one, and count    *)
(* the size from there; where they give up they have set sborg_offset and    *)
(* sb_size.                                                                  *)
FromTheEnd(s) == IF s.fs = "NTFS" THEN 1 ELSE 2
RecoverFromEnd(s, p, offset, arch) ==
    IF ~Tested(s, p["part_size"].size) THEN NotFound(p, offset)
    ELSE IF offset + FromTheEnd(s) < s.size
    THEN NotFound(Take(p, Origin, s), offset)
    ELSE Found(Take(p, Sets(s, arch) \cup {"sb_offset"}, s),
               offset + FromTheEnd(s) - s.size)

(* recover_FAT of a sector searched as a backup: only FAT32 has one, the     *)
(* others keep their place                                                   *)
RecoverFAT(s, p, offset, arch, distance) ==
    IF ~Tested(s, p["part_size"].size) THEN NotFound(p, offset)
    ELSE IF s.type = "FAT32"
    THEN Found(Take(p, Sets(s, arch), s), offset - distance)
    ELSE Found(Take(p, Sets(s, arch), s), offset)

(* recover_exFAT knows a backup by the start of the partition in it *)
RecoverExFAT(s, p, offset, arch) ==
    IF ~Tested(s, p["part_size"].size) THEN NotFound(p, offset)
    ELSE Found(Take(p, Sets(s, arch)
                       \cup (IF s.back = 0 THEN {} ELSE {"sb_offset"}), s),
               offset - s.back)

(* recover_MD: from super_offset, or from the end of the partition *)
RecoverMD(s, p, offset, arch) ==
    IF s.good THEN Found(Take(p, Sets(s, arch), s), offset - s.back)
    ELSE NotFound(p, offset)

-----------------------------------------------------------------------------
(* check_MD accepts a version at its places only, and there only with the    *)
(* super_offset of the place                                                 *)
MdChecked(s) == IF s.at[2] = "0.90" THEN s.type = "MD"
                ELSE s.type = "MD1" /\ s.back = 0
=============================================================================
