----------------------------- MODULE PartTable ------------------------------
(* What the partition tables of TestDisk share: the geometry of the disk     *)
(* (fnctdsk.c), a disk as the sectors that hold a part of some table, and    *)
(* the structure functions of the tables that know primary partitions only   *)
(* (Sun, Xbox, Humax, Mac, GPT). Offsets and sizes are in sectors.           *)
EXTENDS PartitionList, FiniteSets

CONSTANTS
    DiskSize,      \* sectors of the disk
    HeadsPerCyl,   \* geom.heads_per_cylinder
    SectorsPerHead,\* geom.sectors_per_head
    Mega,          \* sectors of 1024*1024 bytes
    MacAlign       \* sectors of 4096 bytes

ASSUME GeometryAssumption ==
    /\ {DiskSize, HeadsPerCyl, SectorsPerHead, Mega, MacAlign} \subseteq Nat \ {0}
    /\ DiskSize >= HeadsPerCyl * SectorsPerHead

PerCylinder == HeadsPerCyl * SectorsPerHead
Cylinders == DiskSize \div PerCylinder

offset2cylinder(s) == s \div PerCylinder
offset2head(s) == (s \div SectorsPerHead) % HeadsPerCyl
offset2sector(s) == (s % SectorsPerHead) + 1
offset2CHS(s) == [c |-> offset2cylinder(s), h |-> offset2head(s), s |-> offset2sector(s)]
CHS2offset(chs) == (chs.c * HeadsPerCyl + chs.h) * SectorsPerHead + chs.s - 1

\* the next and the last multiple of b that is not before, not behind n
Up(n, b) == ((n + b - 1) \div b) * b
Down(n, b) == (n \div b) * b

\* Status of a partition: P, * (bootable), L (logical), E (extended), X (an
\* extended partition inside of one) and D (deleted, or not chosen)
InUse == {"P", "*", "L"}
End(p) == p.offset + p.size                   \* the first sector behind p

NewPartition(offset, size, type, status) ==
    [offset |-> offset, size |-> size, type |-> type, status |-> status, order |-> 0,
     upart |-> "UNK", sb_offset |-> 0, bad |-> FALSE]

(***************************************************************************)
(* The disk: sectors with a part of a table, or with a file system that     *)
(* fills the disk; the others are in no domain.                             *)
(*   [kind |-> "boot", code, entries]   a sector with the mark 55AA; its    *)
(*        code is "mbr", or "fs" when it is a file system's boot sector     *)
(*   [kind |-> "fs"]                the superblock of another file system   *)
(*   [kind |-> "gpt", self, table, first, last, entries]    a GPT header;   *)
(*        entries stands for the checksum of its table                      *)
(*   [kind |-> "ent", piece, entries]   a sector of the table of a GPT      *)
(*   [kind |-> "label", arch, entries]  the label of another kind of table  *)
(***************************************************************************)
HasBoot(disk, s) == s \in DOMAIN disk /\ disk[s].kind = "boot"
HoldsFs(disk, s) ==
    s \in DOMAIN disk /\ (disk[s].kind = "fs" \/ (HasBoot(disk, s) /\ disk[s].code = "fs"))
HasLabel(disk, s, arch) ==
    s \in DOMAIN disk /\ disk[s].kind = "label" /\ disk[s].arch = arch

(***************************************************************************)
(* Structure functions of the tables with primary partitions only          *)
(***************************************************************************)
Overlap(p, q) == End(p) > q.offset                   \* p comes before q

\* to_be_removed: every one of two partitions that overlap
Overlapped(list, i) ==
    \/ \E j \in i+1..Len(list) : Overlap(list[i], list[j])
    \/ \E j \in 1..i-1 : Overlap(list[j], list[i])

Kept(list) == {i \in DOMAIN list : ~Overlapped(list, i)}

\* The partitions i of a list for which status is defined get status[i]
WithStatus(list, status) ==
    [i \in DOMAIN list |->
        IF i \in DOMAIN status THEN [list[i] EXCEPT !.status = status[i]] ELSE list[i]]

Selected(list, indexes) ==
    LET keep[n \in 0..Len(list)] ==
            IF n = 0 THEN <<>>
            ELSE IF n \in indexes THEN Append(keep[n-1], list[n]) ELSE keep[n-1]
    IN keep[Len(list)]

TestPlain(arch, list) ==
    \/ arch = "humax" /\ Cardinality({i \in DOMAIN list : list[i].status = "P"}) > 4
    \/ is_part_overlapping(gen_sorted_partition_list(list))

InitPlain(arch, list) ==
    LET kept == Kept(list)
        proposed == WithStatus(list, [i \in kept |-> "P"])
    IN IF TestPlain(arch, Selected(proposed, kept))
       THEN WithStatus(list, [i \in kept |-> Deleted]) ELSE proposed

ToggleStatus(p) == [p EXCEPT !.status = IF @ = Deleted THEN "P" ELSE Deleted]

(* add_partition_..: the test is made on the list as it began before, so it  *)
(* does not see a partition that was put in front of it                      *)
AddPlain(arch, list, p) ==
    LET res == InsertNewPartition(list, [p EXCEPT !.status = "P"], FALSE)
        front == ~res.error /\ (list = <<>> \/ res.list[1] # list[1])
        seen == IF front THEN Tail(res.list) ELSE res.list
    IN IF p.size <= 0 \/ res.error THEN list
       ELSE IF ~TestPlain(arch, seen) THEN res.list
       ELSE InsertNewPartition(list, [p EXCEPT !.status = Deleted], FALSE).list

(* align_structure for them: the end of a partition moves up                 *)
LocationBoundary(arch) ==
    CASE arch = "mac" -> MacAlign [] arch = "sun" -> PerCylinder [] OTHER -> 1

AlignPlain(arch, list) ==
    [i \in DOMAIN list |->
        [list[i] EXCEPT !.size = Up(End(list[i]), LocationBoundary(arch)) - list[i].offset]]
=============================================================================
