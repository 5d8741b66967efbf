------------------------------ MODULE Detection -----------------------------
(* How TestDisk finds partitions: search_part (godmode.c) looks for the      *)
(* superblock of every file system at the places of the disk where a         *)
(* partition may start, next.c says which, and read_part_none (partnone.c)   *)
(* does so for a disk without partition table.                               *)
(* Units are sectors.  Left out: the keys that stop or skip a search (the    *)
(* library is built without ncurses), what is displayed.                     *)
EXTENDS FileSystems, PartitionList, FiniteSetsExt

CONSTANTS
    Disks(_),      \* the disks to search with a partition table, see Disk
    RealSize,      \* disk_real_size and disk_size: reads fail from here on
    HeadSize,      \* sectors_per_head
    Heads,         \* heads_per_cylinder
    Mega,          \* 1 MB, 2048 sectors of 512 bytes
    MacBlock,      \* 4 kB
    XboxStart,     \* 0x800 bytes
    GptStart,      \* 2 sectors and 16 kB
    Guesses,       \* starts of partitions under usual geometries: 32, 63, 16*63 .. 256*63
                   \* sectors, and the same numbers of heads
    FatBack,       \* where the backup boot sector of FAT32 is, 6
    ExBack,        \* where that of exFAT is, 12
    ExtBack,       \* hd_offset: where group 3 of an ext2 starts
    NearStart,     \* how far search_NTFS_from_backup looks, 32
    MaxHints,      \* MAX_SEARCH_LOCATION - 1
    Word           \* offsets are kept modulo this, 2^64

ASSUME SizesAssumption ==
    /\ \A n \in {RealSize, HeadSize, Heads, Mega, MacBlock, ExBack,
                 FatBack, ExtBack, NearStart, MaxHints, Word} : n \in Nat \ {0}
    /\ Guesses \subseteq Nat
    /\ FatBack < HeadSize /\ FatBack < Mega

Archs == {"i386", "gpt", "sun", "mac", "xbox"}
Cylinder == Heads * HeadSize
Cylinders == (RealSize + Cylinder - 1) \div Cylinder
Sectors == (RealSize \div Cylinder + 1) * Cylinder      \* search_location_max

(* A disk: its superblocks, the <<location, place>> that cannot be read, and  *)
(* where list_part_org has partitions.  arch is the partition table in use,  *)
(* "none" for read_part_none.                                                *)
IsDisk(d) ==
    /\ \A b \in d.blocks :
          IF b.fs = "EBR" THEN b.type \in {"FAT", "NTFS"} /\ b.at[2] = "0"
          ELSE b.fs \in Names /\ b.type \in FileSystemOf[b.fs].types
    /\ \A b, c \in d.blocks : b.at = c.at => b = c
    /\ d.known \subseteq 0..Sectors

VARIABLES
    arch, fast,    \* the partition table and fast_mode, never changed
    disk,          \* the disk, never changed
    pc,            \* "look", "advance", "near", "done"
    location,      \* search_location
    test,          \* test_nbr
    now,           \* search_now
    nowRaid,       \* search_now_raid
    hints,         \* try_offset, without its order
    raidHints,     \* try_offset_raid
    part,          \* the fields of *partition
    list,          \* list_part, what search_part returns
    listBad        \* list_part_bad

vars == <<arch, fast, disk, pc, location, test, now, nowRaid, hints, raidHints, part,
          list, listBad>>

(* a read of the sectors at place, l sectors from the start of the disk *)
At(l, place) ==
    LET here == {b \in disk.blocks : b.at = <<l, place>>}
    IN IF here = {} THEN NoSuperblock ELSE CHOOSE b \in here : TRUE
CanRead(l, places) ==
    l < RealSize /\ \A p \in places : <<l, p>> \notin disk.unreadable

-----------------------------------------------------------------------------
(* next.c: the locations to look at, as pairs <<first, increment>>.          *)
(* update_location merges entries without changing their union.              *)

(* The third entry of the heads is overwritten: update_location is not       *)
(* called for it                                                             *)
HeadStarts == {<<0, Cylinder>>, <<HeadSize, Cylinder>>}
get_location_boundary == CASE arch = "mac" -> MacBlock
                           [] arch = "sun" -> Cylinder
                           [] OTHER -> 1
OfHeads(sector) == {<<h * HeadSize + sector, Cylinder>> : h \in 0..2}

search_location_init ==
    LET boundary == get_location_boundary
        starts == IF arch # "i386" THEN {<<0, boundary>>}
                  ELSE (IF fast > 1 THEN {<<0, HeadSize>>} ELSE HeadStarts)
                       \cup {<<0, Mega>>}
        backups == IF arch = "i386"
                   THEN OfHeads(FatBack) \cup OfHeads(ExtBack)
                        \cup {<<Cylinder - 1, Cylinder>>}
                   ELSE {<<FatBack, boundary>>, <<boundary - 1, boundary>>,
                         <<ExtBack, boundary>>}
    IN starts \cup (IF fast = 0 THEN {}
                    ELSE backups \cup {<<FatBack, Mega>>, <<Mega - 1, Mega>>})

(* the first location behind l; the table is never empty *)
search_location_update(l) ==
    LET after(e) == IF e[1] > l THEN e[1]
                    ELSE e[1] + ((l - e[1]) \div e[2] + 1) * e[2]
    IN Min({after(e) : e \in search_location_init})

-----------------------------------------------------------------------------
(* The tests of search_part.  They work on a record:                         *)
(*  res      -1 the disk could not be read, 0 nothing, 1 found               *)
(*  part, offset   *partition                                                *)
Result(r) == [r EXCEPT !.offset = @ % Word]
ReadError(acc) == [acc EXCEPT !.res = -1]

RecoverAny(s, p, offset) ==
    CASE s.fs = "ext2" -> RecoverExt2(s, p, offset, arch)
      [] s.fs = "exFAT" -> RecoverExFAT(s, p, offset, arch)
      [] s.fs = "MD" -> RecoverMD(s, p, offset, arch)
      [] OTHER -> Recover(s, p, offset, arch)

\* mutant: the first place only
Check_First(fs, start, size) ==
    LET s == IF FileSystemOf[fs].checks = <<>> THEN NoSuperblock
             ELSE At(start, FileSystemOf[fs].checks[1])
    IN IF s.fs = fs /\ Tested(s, size) THEN s ELSE NoSuperblock
(* check_* of a file system: the superblock confirmed, or NoSuperblock.      *)
(* size is that of the partition.                                            *)
Check(fs, start, size) ==
    LET places == FileSystemOf[fs].checks
        OkAt(i) == LET s == At(start, places[i])
                   IN /\ s.fs = fs
                      /\ Tested(s, size)
                      /\ fs = "MD" => MdChecked(s)
        ok == {i \in 1..Len(places) : OkAt(i)}
    IN IF ok = {} THEN NoSuperblock
       ELSE At(start, places[CHOOSE i \in ok : \A j \in ok : i =< j])

(* The search functions that look at one place.  A place holds one           *)
(* superblock, the order of the tests for it is left out.                    *)
search_type(acc, place, fs) ==
    LET s == At(acc.offset, place)
    IN IF s.fs \notin fs \/ (s.fs = "MD" /\ s.type = "MD") THEN [acc EXCEPT !.res = 0]
       ELSE Result(RecoverAny(s, acc.part, acc.offset))

search_type_2(acc) == search_type(acc, "0x400", {"ext2", "HFS", "HFSP", "f2fs"})
search_type_1(acc) ==
    search_type(acc, "0x200", {"BSD", "BeFS", "cramfs", "sysv", "LVM2", "sun_i386"})
(* The logical partition an extended boot record leads to: its entry becomes *)
(* the partition, and check_part_i386 looks for a file system there.  With   *)
(* none it is found as it is, for what may be encrypted; otherwise nothing   *)
(* is found, but *partition stays at the logical partition, with the type of *)
(* the entry and what the check has set.                                     *)
recover_i386_logical(acc) ==
    LET e == At(acc.offset, "0")
        start == (acc.offset - e.back) % Word
        Checked(fs) == IF CanRead(start, {"0"}) THEN Check(fs, start, e.size) ELSE NoSuperblock
        there == CASE e.type = "FAT" -> Checked("FAT")
                   [] Checked("NTFS") # NoSuperblock -> Checked("NTFS")
                   [] OTHER -> Checked("exFAT")
    IN IF arch # "i386" \/ e.fs # "EBR" THEN acc
       ELSE [res |-> IF there.type = "UNK" THEN 1 ELSE 0, offset |-> start,
             part |-> Take(Take(partition_reset, {"type", "part_size"}, e),
                           {"upart", "blocksize"}, there)]

search_type_0(acc) ==
    LET Sector == {"LVM", "FAT", "exFAT", "HPFS", "OS2MB", "NTFS", "netware", "xfs", "FATX",
                   "LUKS", "ReFS", "MD", "WBFS", "cramfs"}
    IN FoldLeft(LAMBDA r, t : CASE r.res = 1 -> r
                                [] t = "swap" -> search_type(r, "page end", {"Linux_SWAP"})
                                [] t = "sector" -> search_type(r, "0", Sector)
                                [] t = "logical" -> recover_i386_logical(r),
                acc, <<"swap", "sector", "logical">>)
(* the functions that read the disk themselves *)
ReadAndSearch(acc, place, fs) ==
    IF CanRead(acc.offset, {place}) THEN search_type(acc, place, fs)
    ELSE ReadError(acc)
search_type_8(acc) == ReadAndSearch(acc, "4k", {"MD"})
search_type_16(acc) == ReadAndSearch(acc, "8k", {"ufs", "ZFS"})
search_type_64(acc) == ReadAndSearch(acc, "32k", {"JFS"})
search_type_128(acc) == ReadAndSearch(acc, "64k", {"rfs", "ufs", "btrfs", "gfs2"})
search_type_2048(acc) == ReadAndSearch(acc, "1M", {"VMFS"})

(* A backup boot sector: the sector at the location itself *)
BackupAt(acc) == At(acc.offset, "0")
SearchBackup(acc, fs, recovered) ==
    IF ~CanRead(acc.offset, {"0"}) THEN ReadError(acc)
    ELSE IF BackupAt(acc).fs \notin fs THEN [acc EXCEPT !.res = 0]
    ELSE Result(recovered)
search_FAT_backup(acc) ==
    SearchBackup(acc, {"FAT"},
                 RecoverFAT(BackupAt(acc), acc.part, acc.offset, arch, FatBack))
search_exFAT_backup(acc) ==
    SearchBackup(acc, {"exFAT"},
                 RecoverExFAT(BackupAt(acc), acc.part, acc.offset, arch))
search_NTFS_backup(acc) ==
    SearchBackup(acc, {"NTFS"},
                 RecoverFromEnd(BackupAt(acc), acc.part, acc.offset, arch))
search_HFS_backup(acc) ==
    SearchBackup(acc, {"HFS", "HFSP"},
                 RecoverFromEnd(BackupAt(acc), acc.part, acc.offset, arch))

-----------------------------------------------------------------------------
(* Where the tests look for something that is not at the start of a partition *)
Boundary(l, sector) == l % get_location_boundary = sector
HeadBelow3(l) == fast > 1 \/ (l \div HeadSize) % Heads =< 2
FatBackPlace(l) ==
    CASE arch = "i386" -> (l % HeadSize = FatBack /\ HeadBelow3(l)) \/ l % Mega = FatBack
      [] arch = "gpt" -> Boundary(l, FatBack) \/ l % Mega = FatBack
      [] OTHER -> Boundary(l, FatBack)
ExBackPlace(l) ==
    CASE arch = "i386" -> (l % HeadSize = ExBack /\ HeadBelow3(l)) \/ l % Mega = ExBack
      [] arch = "gpt" -> Boundary(l, ExBack) \/ l % Mega = ExBack
      [] OTHER -> Boundary(l, ExBack)
LastOfCylinder(l) ==
    l % HeadSize = HeadSize - 1 /\ (fast > 1 \/ (l \div HeadSize) % Heads = Heads - 1)
LastPlace(l) ==
    IF arch = "i386" THEN LastOfCylinder(l) \/ l % Mega = Mega - 1
    ELSE Boundary(l, get_location_boundary - 1) /\ l > 0
NtfsBackPlace(l) == LastPlace(l) \/ (arch = "gpt" /\ l % Mega = Mega - 1)
ExtBackPlace(l) ==
    /\ l >= ExtBack
    /\ LET start == l - ExtBack
       IN IF arch = "i386" THEN (start % HeadSize = 0 /\ HeadBelow3(start)) \/ start % Mega = 0
          ELSE Boundary(start, 0)

(* search_now, but for the hints *)
StartPlace(l) ==
    IF arch = "i386"
    THEN (l % HeadSize = 0 /\ HeadBelow3(l)) \/ l % Mega = 0
    ELSE Boundary(l, 0)

(* The sector is a superblock of group 3.  A good one far enough from the    *)
(* start of the disk is taken.                                               *)
search_EXT2_copy(acc) ==
    LET s == At(acc.offset, "0")
    IN IF CanRead(acc.offset, {"0"}) /\ s.fs = "ext2" /\ s.back > 0
       THEN LET r == Result(RecoverExt2(s, acc.part, acc.offset, arch))
            IN [r EXCEPT !.res = IF @ = 1 THEN 1 ELSE acc.res]
       ELSE acc
search_MD(acc) ==
    LET s == At(acc.offset, "0")
    IN IF CanRead(acc.offset, {"0"}) /\ s.fs = "MD"
       THEN Result(RecoverMD(s, acc.part, acc.offset, arch)) ELSE acc

Test(n, acc) ==
    LET l == acc.offset
    IN CASE n = 0 -> IF nowRaid \/ fast > 1 THEN search_MD(acc) ELSE acc
         [] n = 1 -> IF FatBackPlace(l) THEN search_FAT_backup(acc) ELSE acc
         [] n = 2 -> IF ExBackPlace(l) THEN search_exFAT_backup(acc) ELSE acc
         [] n = 3 -> IF NtfsBackPlace(l) THEN search_NTFS_backup(acc) ELSE acc
         [] n = 4 -> IF LastPlace(l) THEN search_HFS_backup(acc) ELSE acc
         [] n = 5 -> IF ExtBackPlace(l) THEN search_EXT2_copy(acc) ELSE acc
         [] n = 6 -> IF CanRead(l, {"0", "0x200", "0x400", "page end"})
                     THEN search_type_2(acc) ELSE ReadError(acc)
         [] n = 7 -> IF acc.res = 0 THEN search_type_1(acc) ELSE acc
         [] n = 8 -> IF acc.res = 0 THEN search_type_0(acc) ELSE acc
         [] n = 9 -> search_type_8(acc)
         [] n = 10 -> search_type_16(acc)
         [] n = 11 -> search_type_64(acc)
         [] n = 12 -> search_type_128(acc)
         [] n = 13 -> search_type_2048(acc)

(* One turn of the do loop: the tests from test_nbr until one finds          *)
(* something.  Tests 6 to 13 are for search_now only.                        *)
LastTest == IF now THEN 13 ELSE 5
RunTests ==
    FoldLeft(LAMBDA acc, n : IF acc.res = 1 THEN acc ELSE [test |-> n + 1] @@ Test(n, acc),
             [res |-> 0, offset |-> location, test |-> test,
              part |-> [part EXCEPT !["part_size"] = NoSuperblock]],
             [i \in 1..LastTest + 1 - test |-> test + i - 1])

-----------------------------------------------------------------------------
(* The entry of the list for a partition that was found *)
PartType(s) == IF s.fs = "EBR" THEN s.type
               ELSE IF FileSystemOf[s.fs].tables = Linux /\ s.fs # "Linux_SWAP"
               THEN "LINUX" ELSE s.fs
Entry(p, offset) ==
    [offset |-> offset, size |-> p["part_size"].size,
     type |-> PartType(p["type"]), upart |-> p["upart"].type, status |-> Deleted,
     sb_offset |-> LET s == p["sb_offset"]
                   IN IF s.fs \in {"NTFS", "HFS", "HFSP"} THEN s.size - FromTheEnd(s)
                      ELSE s.back,
     part |-> p]
EndOf(e) == ((e.offset + e.size - 1) % Word) + 1

get_min_location == CASE arch = "i386" -> 1
                      [] arch = "gpt" -> GptStart
                      [] arch = "mac" -> MacBlock
                      [] arch = "sun" -> Cylinder
                      [] arch = "xbox" -> XboxStart

(* is_part_known, a size, and not in front of the first place *)
Known(r) == /\ r.part["type"] # NoSuperblock
            /\ r.part["part_size"].size > 0
            /\ r.offset >= get_min_location

hint_insert(tab, offset) ==
    IF Cardinality(tab) < MaxHints THEN tab \cup {offset} ELSE tab

LastMega(n) == n - (n % Mega) - 1
LastCylinders ==
    (IF Cylinders > 1 THEN <<Cylinders * Cylinder - 1>> ELSE <<>>)
    \o (IF Cylinders > 2 THEN <<(Cylinders - 1) * Cylinder - 1>> ELSE <<>>)
(* The first place of another table, alignment, geometry and the usual places *)
(* of a backup of NTFS *)
search_add_hints ==
    CASE arch = "i386" -> <<GptStart, Mega>> \o SetToSeq(Guesses) \o LastCylinders
                          \o <<LastMega(RealSize - 1)>>
      [] arch = "gpt" -> <<LastMega(RealSize - 1 - GptStart)>>
      [] arch = "mac" -> <<GptStart>>
      [] OTHER -> <<>>
InitialHints == FoldLeft(hint_insert, {},
                         SetToSortSeq(disk.known, <) \o search_add_hints)

(* Where the next partition may start *)
NextHints(e) ==
    LET next == EndOf(e)
        rounded == next + HeadSize - (next % HeadSize)
    IN <<next, next + HeadSize>>
       \o (IF next % HeadSize # 0 THEN <<rounded, rounded + HeadSize>> ELSE <<>>)

(* Where a Linux RAID 0.90 around the partition would have its superblock *)
RaidHints(e) == <<(e.offset + e.size \div 2) % Word, (e.offset + e.size) % Word>>

\* mutant: what was found is not cleared
AfterTests_Stale(r) == r.part
(* A partition that was found is entered as a copy, what was not found stays *)
AfterTests(r) == IF r.res = 1 THEN partition_reset ELSE r.part

(* The start of a turn of the while loop at l *)
ArriveAt(l, h, rh) ==
    /\ location' = l
    /\ hints' = {x \in h : x > l}
    /\ raidHints' = {x \in rh : x > l}
    /\ now' = (l \in h \/ StartPlace(l))
    /\ nowRaid' = (l \in rh)
    /\ pc' = IF l < Sectors THEN "look" ELSE "near"

(* What a turn of the do loop, whose tests left r, enters and where it goes *)
EnterFound(r) ==
    LET e == Entry(r.part, r.offset)
        known == r.res = 1 /\ Known(r)
        good == known /\ EndOf(e) =< Sectors
        jump == good /\ fast = 0 /\ EndOf(e) - 1 > location
        over == jump \/ r.res # 1 \/ r.test = 14
    IN /\ part' = AfterTests(r)
       /\ list' = IF good THEN Inserted(list, e) ELSE list
       /\ listBad' = IF known /\ ~good THEN Inserted(listBad, e) ELSE listBad
       /\ hints' = IF good THEN FoldLeft(hint_insert, hints, NextHints(e))
                   ELSE hints
       /\ raidHints' = IF known /\ r.part["upart"].fs # "MD"
                       THEN FoldLeft(hint_insert, raidHints, RaidHints(e))
                       ELSE raidHints
       /\ location' = IF jump THEN EndOf(e) - 1
                      ELSE IF r.res = -1 /\ location >= RealSize THEN Sectors
                      ELSE location
       /\ test' = IF over THEN 0 ELSE r.test
       /\ pc' = IF over THEN "advance" ELSE "look"

(* The do loop: test, and enter what is found *)
Look ==
    /\ pc = "look"
    /\ \E r \in {RunTests} : EnterFound(r)
    /\ UNCHANGED <<arch, fast, disk, now, nowRaid>>

\* mutant: only the table of next.c is asked
NextLocation_NoHints(l) == search_location_update(l)
(* Optimized search_location += sector_size *)
NextLocation(l) ==
    LET min == Min({search_location_update(l)} \cup hints \cup raidHints)
    IN IF min =< l THEN l + 1 ELSE min
Advance ==
    /\ pc = "advance"
    /\ ArriveAt(NextLocation(location), hints, raidHints)
    /\ UNCHANGED <<arch, fast, disk, test, part, list, listBad>>

-----------------------------------------------------------------------------
(* search_NTFS_from_backup: the boot sector may be some sectors in front of  *)
(* where the backup at the end of an NTFS says it is.  The list it inserts   *)
(* into is its own: what comes before the first element is not in the list   *)
(* search_part returns.                                                      *)
NearElement(l, e) ==
    FoldLeft(LAMBDA m, i :
               LET at == e.offset - (NearStart + 1 - i)
                   s == At(at, "0")
                   r == Recover(s, partition_reset, at, arch)
                   n == Entry(r.part, r.offset)
               IN IF /\ at >= 0 /\ CanRead(at, {"0"}) /\ s.fs = "NTFS"
                     /\ r.res = 1 /\ Known(r) /\ EndOf(n) =< Sectors
                  THEN Inserted(m, n) ELSE m,
             l, [i \in 1..NearStart |-> i])
FromBackup(e) == e.upart = "NTFS" /\ e.sb_offset # 0

Near ==
    /\ pc = "near"
    /\ LET near == IF fast > 0
                   THEN FoldLeft(NearElement, list, SelectSeq(list, FromBackup))
                   ELSE list
       IN list' = IF list = <<>> THEN list
                  ELSE SubSeq(near, SelectInSeq(near, LAMBDA e : e = list[1]), Len(near))
    /\ pc' = "done"
    /\ UNCHANGED <<arch, fast, disk, location, test, now, nowRaid, hints, raidHints, part,
                   listBad>>

-----------------------------------------------------------------------------
(* read_part_none: one partition, the whole disk.  The steps in their order, *)
(* each while nothing is found.                                              *)

(* The volumes of a RAID that ends the disk, or is version 1 inside it *)
recover_MD_from_partition(acc) ==
    LET TakeMD(place, type, otherwise) ==
            LET s == At(0, place)
            IN IF s.fs = "MD" /\ s.type \in type
               THEN Result(RecoverMD(s, acc.part, 0, arch)) ELSE otherwise
    IN TakeMD("0.90", {"MD", "MD1"}, TakeMD("1.0", {"MD1"}, acc))

From(acc, l) == [acc EXCEPT !.offset = l]
OnlyAtStart(r) == IF r.res = 1 /\ r.offset # 0 THEN [r EXCEPT !.res = 0] ELSE r

(* an exFAT backup needs no start here, see recover_exFAT *)
ExFatWithoutTable(acc) ==
    LET there == From(acc, ExBack)
        s == [BackupAt(there) EXCEPT !.back = ExBack]
    IN SearchBackup(there, {"exFAT"}, RecoverExFAT(s, acc.part, ExBack, arch))

NoneStep(n, acc) ==
    CASE n = 1 -> LET r == recover_MD_from_partition(acc)
                  IN IF r.res = 1 THEN r ELSE [acc EXCEPT !.part = partition_reset]
      [] n = 2 -> IF CanRead(0, {"0", "0x200", "0x400", "page end"})
                  THEN search_type_2(acc) ELSE acc
      (* in a buffer of zeroes when it could not be read *)
      [] n \in {3, 4} -> IF CanRead(0, {"0", "0x200", "0x400", "page end"})
                         THEN IF n = 3 THEN search_type_1(acc) ELSE search_type_0(acc)
                         ELSE acc
      [] n = 5 -> search_type_8(acc)
      [] n = 6 -> IF CanRead(0, {"8k"}) THEN search_type_16(acc) ELSE acc
      [] n = 7 -> IF CanRead(0, {"32k"}) THEN search_type_64(acc) ELSE acc
      [] n = 8 -> IF CanRead(0, {"32k"}) THEN search_type(acc, "32k", {"ISO"}) ELSE acc
      [] n = 9 -> IF CanRead(0, {"64k"}) THEN search_type_128(acc) ELSE acc
      [] n = 10 -> search_type_2048(acc)
      [] n = 11 -> search_FAT_backup(From(acc, FatBack))
      [] n = 12 -> ExFatWithoutTable(acc)
      [] n = 13 -> OnlyAtStart(search_NTFS_backup(From(acc, RealSize - 1)))
      [] n = 14 -> OnlyAtStart(search_EXT2_copy(From(acc, ExtBack)))

(* check_part_none looks again, its answer is not used *)
ReadPartNone ==
    /\ pc = "none"
    /\ \E r \in {FoldLeft(LAMBDA acc, n : IF acc.res = 1 THEN acc ELSE NoneStep(n, acc),
                           [res |-> 0, offset |-> 0, part |-> partition_reset],
                           [i \in 1..14 |-> i])} :
          part' = IF r.res = 1 THEN r.part ELSE partition_reset
    /\ pc' = "done"
    /\ UNCHANGED <<arch, fast, disk, location, test, now, nowRaid, hints, raidHints, list,
                   listBad>>

-----------------------------------------------------------------------------
Init ==
    /\ arch \in Archs \cup {"none"}
    /\ fast \in IF arch = "none" THEN {0} ELSE 0..2
    /\ disk \in Disks(arch)
    /\ pc = IF arch = "none" THEN "none" ELSE "look"
    /\ location = IF arch = "none" THEN 0 ELSE get_min_location
    /\ test = 0
    /\ now = (arch # "none" /\ (StartPlace(location) \/ location \in InitialHints))
    /\ nowRaid = FALSE
    /\ hints = IF arch = "none" THEN {}
               ELSE {x \in InitialHints : x > location}
    /\ raidHints = {}
    /\ part = partition_reset
    /\ list = <<>> /\ listBad = <<>>

Next == Look \/ Advance \/ Near \/ ReadPartNone

Spec == Init /\ [][Next]_vars

-----------------------------------------------------------------------------
(* A superblock a recover function gave up after it had set most fields: a   *)
(* copy too far from the start for the place where it was found.             *)
GivenUp(s) == \/ s.fs = "ext2" /\ s.back > s.at[1]
              \/ s.fs \in {"NTFS", "HFS", "HFSP"} /\ s.size > s.at[1] + FromTheEnd(s)
(* On a PC: an extended boot record, or what is where it leads to.  The next *)
(* partition that is found may keep its type, its upart_type or its block    *)
(* size, when its own superblock does not set them.                          *)
Probed(s) == \/ s.fs = "EBR"
             \/ \E e \in disk.blocks : e.fs = "EBR" /\ s.at = <<e.at[1] - e.back, "0">>

(* What is told of a partition comes from one superblock: nothing of another *)
(* file system seen before is left in it, but for what was given up, and for *)
(* what recover_i386_logical has put in place of the partition that was      *)
(* looked for.  (partition_reset after every find, part_size and part_offset *)
(* set at every turn)                                                        *)
FromOneSource(p) ==
    LET source == IF p["part_size"] = NoSuperblock THEN p["upart"] ELSE p["part_size"]
        kept == {"type", "upart", "blocksize"} \ Sets(source, arch)
    IN \A f \in Fields :
          \/ p[f] \in {source, NoSuperblock}
          \/ GivenUp(p[f])
          \/ arch = "i386" /\ f \in kept /\ Probed(p[f])
OneSource == /\ \A i \in 1..Len(list) : FromOneSource(list[i].part)
             /\ arch = "none" /\ pc = "done" => FromOneSource(part)

(* Superblocks and copies at a place where some test looks *)
Readable(l) == l < RealSize /\ \A u \in disk.unreadable : u[1] # l
IsStart(s) == /\ s.back = 0
              /\ s.at[2] \in FileSystemOf[s.fs].places \ {"0.90", "1.0"}
              /\ StartPlace(s.at[1]) \/ s.at[1] \in disk.known
              /\ s.fs = "MD" => s.type = "MD1"
(* RAID 0.90 behind a partition that was found *)
IsRaid(s) == /\ s.fs = "MD" /\ s.type = "MD"
             /\ \E i \in 1..Len(list) : /\ EndOf(list[i]) = s.at[1]
                                        /\ list[i].part["part_size"].at[1] < s.at[1]
                                        /\ list[i].part["part_size"].fs # "MD"
IsCopy(s) ==
    /\ s.at[2] = "0" /\ s.back > 0 /\ fast > 0
    /\ \/ s.fs = "FAT" /\ s.type = "FAT32" /\ s.back = FatBack /\ FatBackPlace(s.at[1])
       \/ s.fs = "NTFS" /\ s.back = s.size - 1 /\ NtfsBackPlace(s.at[1])
       \/ s.fs \in {"HFS", "HFSP"} /\ s.back = s.size - 2 /\ LastPlace(s.at[1])
       \/ s.fs = "ext2" /\ ExtBackPlace(s.at[1])
       \/ s.fs = "exFAT" /\ ExBackPlace(s.at[1])
(* the boot sector of an NTFS that was found by its copy, near where the     *)
(* copy says it is                                                           *)
IsNear(s) == /\ s.fs = "NTFS" /\ s.at[2] = "0" /\ s.back = 0 /\ fast > 0
             /\ \E i \in 1..Len(list) :
                   FromBackup(list[i]) /\ list[i].offset - s.at[1] \in 1..NearStart

(* Why one is not in the list all the same:                                  *)
(* the start of the third head of a cylinder is not in the table of next.c,  *)
(* nor is the backup of exFAT                                                *)
ThirdHead(s) == /\ arch = "i386" /\ fast < 2 /\ s.back = 0
                /\ s.at[1] % Cylinder = 2 * HeadSize /\ s.at[1] % Mega # 0
NotInTable(s) == ThirdHead(s) \/ (s.fs = "exFAT" /\ s.back > 0)
(* search_NTFS_from_backup put it in front of the list search_part returns *)
LostHead(s) ==
    IsNear(s) /\ Before([offset |-> s.at[1], size |-> s.size], list[1], FALSE)
(* A RAID superblock whose super_offset is before the start of the disk is   *)
(* taken: the offset wraps around                                            *)
Wrapped(e) == e.part["part_size"].fs = "MD"
              /\ e.part["part_size"].back > e.part["part_size"].at[1]
(* fast_mode 0 goes on behind a partition it has found *)
Covered(s) == fast = 0 /\ \E i \in 1..Len(list) : /\ list[i].offset =< s.at[1] \/ Wrapped(list[i])
                                                  /\ s.at[1] < EndOf(list[i])
                                                  /\ list[i].part["part_size"] # s
(* another superblock for the same location was found first, one given up    *)
(* has left a smaller part_size, or the probe for a logical partition has    *)
(* moved the place where the tests that follow it look                       *)
Hidden(s) == \E b \in disk.blocks \ {s} :
                /\ b.at[1] = s.at[1]
                /\ \/ GivenUp(b) \/ b.fs = "EBR"
                   \/ \E i \in 1..Len(list) : list[i].part["part_size"] = b
(* another copy of it was there before *)
Doubled(s) == \E i \in 1..Len(list) :
                 /\ list[i].offset = s.at[1] - s.back /\ list[i].size = s.size
                 /\ list[i].upart = s.type \/ s.type = "UNK"

Missed(s) ==
    /\ s.good /\ s.size > 0 /\ s.fs # "EBR" /\ "type" \in Sets(s, arch)
    /\ s.at[1] - s.back >= get_min_location
    /\ s.at[1] >= get_min_location
    /\ s.at[1] - s.back + s.size =< Sectors
    /\ Readable(s.at[1]) /\ (IsStart(s) \/ IsCopy(s) \/ IsRaid(s) \/ IsNear(s))
    /\ \A i \in 1..Len(list) : list[i].offset = s.at[1] - s.back
                              => list[i].part["part_size"] # s
    /\ ~Covered(s) /\ ~Hidden(s) /\ ~Doubled(s)

(* The search visits every place where one of its tests would find something *)
(* and loses nothing of it: the steps of search_location_update and the      *)
(* hints together leave none out, but for the places that are not in their   *)
(* table and for the lost head of the list                                   *)
NothingMissed ==
    pc = "done" /\ arch # "none" =>
        \A s \in disk.blocks : Missed(s) => NotInTable(s) \/ LostHead(s)

(* What read_part_none takes from the start of a disk is what check_part_none *)
(* finds there; the exceptions cannot be confirmed, see FileSystems          *)
Unchecked(s) == \/ FileSystemOf[s.fs].checks = <<>>
                \/ s.fs = "ufs" /\ s.at[2] = "64k"
                \/ s.fs = "MD" /\ ~MdChecked(s)
                \/ ~Fits(s, RealSize)
ConfirmedByCheck ==
    pc = "done" /\ arch = "none" =>
      LET s == part["upart"]
      IN s.at[1] = 0 /\ s # NoSuperblock /\ ~Unchecked(s)
         => Check(s.fs, 0, RealSize) # NoSuperblock
=============================================================================
