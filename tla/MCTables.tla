----------------------------- MODULE MCTables ------------------------------
(* A disk of 67 sectors: 3 sectors on a track, 6 in a cylinder, and 16 to    *)
(* what stands for a megabyte. Partitions at the start of the disk, on its   *)
(* first track, on cylinders and behind them, on megabytes, with and without *)
(* a gap between them, and one that ends behind the disk.                    *)
EXTENDS Tables

Part(offset, size, type, upart) ==
    [NewPartition(offset, size, type, Deleted) EXCEPT !.upart = upart]

Candidates ==
    { Part(0, 12, "fat", "FAT"), Part(3, 9, "ntfs", "NTFS"), Part(12, 6, "swap", "SWAP"),
      Part(15, 5, "linux", "EXT"), Part(21, 8, "fat", "FAT"), Part(33, 6, "ntfs", "NTFS"),
      Part(39, 3, "linux", "EXT"), Part(45, 9, "fat", "FAT"), Part(16, 16, "linux", "EXT"),
      Part(32, 16, "ntfs", "NTFS"), Part(48, 15, "fat", "FAT"), Part(60, 12, "linux", "EXT"),
      Part(7, 58, "ntfs", "NTFS") }

Listed(set) == InsertAll(SetToSeq(set))
Several ==
    { { Part(3, 9, "ntfs", "NTFS"), Part(15, 5, "linux", "EXT"), Part(21, 8, "fat", "FAT"),
        Part(33, 6, "ntfs", "NTFS"), Part(39, 3, "linux", "EXT"), Part(45, 9, "fat", "FAT") },
      { Part(3, 9, "ntfs", "NTFS"), Part(12, 3, "linux", "EXT"), Part(16, 5, "linux", "EXT"),
        Part(24, 6, "fat", "FAT"), Part(30, 6, "ntfs", "NTFS"), Part(45, 9, "fat", "FAT") },
      { Part(6, 5, "ntfs", "NTFS"), Part(12, 5, "linux", "EXT"), Part(18, 6, "linux", "EXT"),
        Part(27, 6, "fat", "FAT"), Part(36, 12, "ntfs", "NTFS") },
      { Part(4, 8, "ntfs", "NTFS"), Part(16, 16, "linux", "EXT"), Part(33, 6, "ntfs", "NTFS"),
        Part(40, 6, "linux", "EXT"), Part(46, 4, "fat", "FAT") } }
Lists(n) == {Listed(s) : s \in kSubset(n, Candidates)}
Four == {Listed(s) : s \in kSubset(4, {p \in Candidates : p.offset < 45})}
Longer == {Listed(s) : s \in Several}

AdditionsTo(kind) == {NewPartition(3, 8, "fat", Deleted), NewPartition(27, 5, "linux", Deleted)}
BackupsOf(kind) ==
    {<< NewPartition(3, 9, "ntfs", IF kind = "i386" THEN "*" ELSE "P"), NewPartition(39, 3, "linux", "P") >>,
     << NewPartition(21, 8, "fat", IF kind = "i386" THEN "L" ELSE "P"),
        NewPartition(33, 6, "ntfs", Deleted) >>}

(* Disks: empty, with a PC table and logical partitions, with a GPT of which *)
(* both copies are good, or only the second, and with the label of an Xbox   *)
WriteAll(d, writes) == FoldLeft(Written, d, writes)
NoTable == [s \in {} |-> 0]
OldI386 ==
    init_part_order_i386(add_ext_part_i386(
        << NewPartition(3, 9, "ntfs", "*"), NewPartition(15, 3, "fat", "L"),
           NewPartition(21, 6, "linux", "L"), NewPartition(33, 9, "fat", "L") >>, FALSE))
OldGpt == init_part_order_gpt(<< NewPartition(8, 9, "ntfs", "P"), NewPartition(20, 3, "linux", "P") >>)
GptDisk == WriteAll(NoTable, write_part_gpt(OldGpt))
Label(kind, entries) == [kind |-> "label", arch |-> kind, entries |-> entries]
Slice(start, count, type) == [start |-> start, count |-> count, type |-> type]
SecondCopy == [GptDisk EXCEPT ![1] = [@ EXCEPT !.self = 0]]
I386Disk == WriteAll(NoTable, write_part_i386(OldI386))
XboxDisk == I386Disk @@ (3 :> Label("xbox", <<>>))
SunDisk == 0 :> Label("sun", << Slice(1, 6, "linux"), Slice(0, 66, "whole"), Slice(4, 0, "linux") >>)
\* a FAT or NTFS that fills the disk, and one with its superblock in sector 2
BootFs == 0 :> [BootSector(NoEntries) EXCEPT !.code = "fs"]
SuperFs == 2 :> [kind |-> "fs"]

Case(kind, d, found) == [arch |-> kind, disk |-> d, found |-> found]
AllCases ==
    { Case("i386", NoTable, Lists(1) \cup Lists(2) \cup Lists(3) \cup Four \cup Longer),
      Case("i386", I386Disk, Lists(2) \cup Longer),
      Case("i386", GptDisk, Lists(1) \cup Longer),
      Case("i386", SecondCopy, Longer), Case("i386", XboxDisk, Longer),
      Case("i386", SunDisk, Longer),
      Case("i386", BootFs, Lists(2)), Case("i386", SuperFs, Lists(1) \cup Longer),
      Case("gpt", NoTable, Lists(1) \cup Lists(2) \cup Longer
                           \cup {<< Part(10, 1, "linux", "EXT") >>}),
      Case("gpt", GptDisk, Longer), Case("gpt", SecondCopy, Longer),
      Case("gpt", I386Disk, Longer),
      Case("gpt", BootFs, Longer), Case("gpt", SuperFs, Longer) }
    \cup {Case(kind, NoTable, Lists(2)) : kind \in {"mac", "sun", "humax", "xbox"}}
Starts == << 8, 30, 50, 80 >>
=============================================================================
