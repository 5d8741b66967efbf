------------------------------ MODULE PartI386 ------------------------------
(* The PC/Intel partition table: parti386.c, and what godmode.c does for it. *)
(* A table is the boot sector with four entries; the extended partition is   *)
(* a chain of boot sectors, one in front of each logical partition.          *)
EXTENDS PartTable

CONSTANTS
    MaxCylinder,   \* 1023, the last cylinder an entry can name
    MaxCount,      \* 0xFFFFFFFF, the last sector and the largest size it can name
    MaxLogical     \* 32, the logical and extended partitions that are read

ASSUME EntryAssumption == {MaxCylinder, MaxCount, MaxLogical} \subseteq Nat

Types == {"fat", "ntfs", "linux", "swap", "efi"}
Extended == {"ext", "extx"}                   \* P_EXTENDED, P_EXTENDX
NoEntry == [type |-> "none"]
NoEntries == << NoEntry, NoEntry, NoEntry, NoEntry >>

Least(a, b) == IF a < b THEN a ELSE b
\* cylinder c - 1, where unsigned arithmetic turns -1 into a huge number
CylinderBefore(c) == IF c = 0 THEN MaxCount ELSE c - 1
LastInCylinder(c) == [c |-> c, h |-> HeadsPerCyl - 1, s |-> SectorsPerHead]
EntryCHS(s) ==
    IF offset2cylinder(s) > MaxCylinder THEN LastInCylinder(MaxCylinder) ELSE offset2CHS(s)

(***************************************************************************)
(* Entries                                                                 *)
(***************************************************************************)
partition2_i386_entry(pos, p) ==
    [type |-> p.type, boot |-> p.status = "*",
     start |-> Least(p.offset - pos, MaxCount), count |-> Least(p.size, MaxCount),
     from |-> EntryCHS(p.offset), to |-> EntryCHS(End(p) - 1)]

OffGeometry(chs) ==
    \/ chs.s = 0 \/ chs.s > SectorsPerHead
    \/ chs.h >= HeadsPerCyl
    \/ chs.c >= Cylinders
Disagrees(chs, s) ==
    IF offset2cylinder(s) <= MaxCylinder THEN CHS2offset(chs) # s
    ELSE chs.c \notin {MaxCylinder, offset2cylinder(s) % (MaxCylinder + 1)}

\* bad: errcode of the partition is not BAD_NOERR
i386_entry2partition(pos, e, status, order) ==
    LET p == NewPartition(pos + e.start, e.count, e.type,
                          IF status # "P" THEN status
                          ELSE IF e.type \in Extended THEN "E"
                          ELSE IF e.boot THEN "*" ELSE "P")
    IN [p EXCEPT !.order = order,
                 !.bad = \/ OffGeometry(e.from) \/ OffGeometry(e.to)
                         \/ Disagrees(e.from, p.offset) \/ Disagrees(e.to, End(p) - 1)]

(***************************************************************************)
(* Reading                                                                 *)
(***************************************************************************)
\* Partitions of a sector put into the list; next: the offset of the last of
\* them that is extended and new, n: how many are new
AddEntries(acc, partitions) ==
    LET Add(s, p) ==
            LET r == InsertNewPartition(s.list, p, FALSE)
            IN IF r.error THEN [s EXCEPT !.list = r.list]
               ELSE [list |-> r.list, n |-> s.n + 1,
                     next |-> IF p.status = "X" THEN p.offset ELSE s.next]
    IN FoldLeft(Add, acc, partitions)

Used(entries) == SelectSeq(entries, LAMBDA e : e # NoEntry)

\* The loop of get_ext_data_i386: the extended partition at acc.next is read
RECURSIVE ReadChain(_, _, _)
ReadChain(disk, base, acc) ==
    IF acc.next = 0 \/ acc.n >= MaxLogical \/ ~HasBoot(disk, acc.next) THEN acc.list
    ELSE LET e == Used(disk[acc.next].entries)
             partitions == [i \in DOMAIN e |->
                 IF e[i].type \in Extended THEN i386_entry2partition(base, e[i], "X", 0)
                 ELSE i386_entry2partition(acc.next, e[i], "L", 0)]
         IN ReadChain(disk, base, AddEntries([acc EXCEPT !.next = 0], partitions))

get_ext_data_i386(disk, list) ==
    LET main == SelectInSeq(list, LAMBDA p : p.status = "E")
        base == list[main].offset
    IN IF main = 0 THEN list ELSE ReadChain(disk, base, [list |-> list, next |-> base, n |-> 0])

read_part_i386(disk) ==
    LET entries == disk[0].entries
        used == SelectSeq(<< 1, 2, 3, 4 >>, LAMBDA i : entries[i] # NoEntry)
        partitions == [n \in DOMAIN used |->
                          i386_entry2partition(0, entries[used[n]], "P", used[n])]
    IN IF ~HasBoot(disk, 0) THEN <<>>
       ELSE get_ext_data_i386(disk,
               AddEntries([list |-> <<>>, next |-> 0, n |-> 0], partitions).list)

(***************************************************************************)
(* The structure                                                           *)
(***************************************************************************)
parti386_can_be_ext(p) == offset2head(p.offset) > 0 /\ p.offset # SectorsPerHead

test_structure_i386(list) ==
    LET on == SelectSeq(list, LAMBDA p : p.status \in InUse)
        primaries == {i \in DOMAIN on : on[i].status # "L"}
        blocks == {i \in DOMAIN on : on[i].status = "L" /\ (i = 1 \/ on[i-1].status # "L")}
    IN \/ \E p \in Range(on) : p.status = "L" /\ p.type \in Extended
       \/ Cardinality({i \in primaries : on[i].status = "*"}) > 1
       \/ Cardinality(blocks) > 1
       \/ Cardinality(blocks) + Cardinality(primaries) > 4
       \/ is_part_overlapping(gen_sorted_partition_list(list))

only_one_bootable(list, pos) ==
    [i \in DOMAIN list |-> IF list[pos].status = "*" /\ i # pos /\ list[i].status = "*"
                           THEN [list[i] EXCEPT !.status = "P"] ELSE list[i]]

set_next_status_i386(p) ==
    [p EXCEPT !.status = CASE @ = "*" -> IF parti386_can_be_ext(p) THEN "L" ELSE Deleted
                           [] @ = "L" -> Deleted
                           [] @ = Deleted -> "P"
                           [] OTHER -> "*"]
set_prev_status_i386(p) ==
    [p EXCEPT !.status = CASE @ = Deleted -> IF parti386_can_be_ext(p) THEN "L" ELSE "*"
                           [] @ = "L" -> "*"
                           [] @ = "*" -> "P"
                           [] OTHER -> Deleted]

(* add_partition_i386_ncurses: logical, bootable or primary, the first that  *)
(* passes the test                                                           *)
AddI386(list, p) ==
    LET With(status) == InsertNewPartition(list, [p EXCEPT !.status = status], FALSE).list
        fit == {s \in {"L", "*", "P"} : ~test_structure_i386(With(s))
                                        /\ (s = "L" => parti386_can_be_ext(p))}
    IN IF p.offset = 0 \/ p.size <= 0 THEN list
       ELSE IF InsertNewPartition(list, p, FALSE).error THEN list
       ELSE IF test_structure_i386(list) \/ fit = {} THEN With(Deleted)
       ELSE IF "L" \in fit THEN With("L") ELSE IF "*" \in fit THEN With("*") ELSE With("P")

(* init_structure_i386. log_block_size counts on from block to block, so the *)
(* biggest block is always the last one.                                     *)
Bootable(p) == p.upart \notin {"SWAP", "LVM"}
Primaries(list, indexes) ==
    LET bootable == {i \in indexes : Bootable(list[i])}
    IN [i \in indexes |-> IF i \in bootable /\ \A j \in bootable : i <= j THEN "*" ELSE "P"]

ByGeometry(list, kept) ==
    LET ext == {i \in kept : parti386_can_be_ext(list[i])}
        Between(i, j) == \E k \in kept \ ext : i < k /\ k < j
        last == {i \in ext : \A j \in ext : i < j => ~Between(i, j)}
        blocks == {i \in ext : \A j \in ext : j < i => Between(j, i)}
    IN IF Cardinality(kept \ ext) + Cardinality(blocks) > 4 THEN <<>>
       ELSE [i \in last |-> "L"] @@ Primaries(list, kept \ last)

FirstThree(list, kept) ==
    LET first == {i \in kept : Cardinality({j \in kept : j < i}) < 3}
    IN Primaries(list, first) @@ [i \in kept \ first |-> "L"]

VistaAligned(p) == p.offset % Mega = 0 /\ p.size % Mega = 0

\* mutant: the last test is left out
init_structure_unchecked(list) ==
    LET kept == Kept(list)
        Wrong(l) == test_structure_i386(Selected(l, kept))
        first == WithStatus(list, ByGeometry(list, kept))
    IN IF Wrong(first) \/ \E p \in Range(list) : VistaAligned(p)
       THEN WithStatus(list, FirstThree(list, kept)) ELSE first
init_structure_i386(list) ==
    LET kept == Kept(list)
        Wrong(l) == test_structure_i386(Selected(l, kept))
        first == WithStatus(list, ByGeometry(list, kept))
        second == IF Wrong(first) \/ \E p \in Range(list) : VistaAligned(p)
                  THEN WithStatus(list, FirstThree(list, kept)) ELSE first
    IN IF Wrong(second) THEN WithStatus(list, [i \in kept |-> Deleted]) ELSE second

(***************************************************************************)
(* Ends of partitions, and the extended partition (godmode.c)              *)
(***************************************************************************)
align_structure_aux(offset) ==
    IF offset % Mega = 0 THEN Mega
    ELSE IF offset % PerCylinder \in {0, SectorsPerHead} THEN PerCylinder
    ELSE IF offset % SectorsPerHead = 0 THEN SectorsPerHead
    ELSE 1

align_structure_i386(list, align) ==
    [i \in DOMAIN list |->
        LET p == list[i]
            boundary == IF align THEN align_structure_aux(p.offset) ELSE 1
            end == Up(End(p), boundary)
            meets == /\ align /\ i < Len(list)
                     /\ list[i+1].offset >= End(p) /\ list[i+1].offset < end
        IN [p EXCEPT !.size = (IF meets THEN End(p) ELSE end) - p.offset]]

OnMega(p) == p.offset % Mega = 0

\* from and to: the first and the last sector of the extended partition
MaxExtended(list, deb, fin) ==
    LET free == IF deb = 1 THEN 0 ELSE End(list[deb-1])
        room == list[deb].offset - 1
        track == IF OnMega(list[deb]) THEN Mega ELSE SectorsPerHead
        up == IF OnMega(list[deb]) THEN Up(free, Mega)
              ELSE CHS2offset([c |-> offset2cylinder(free - 1) + 1, h |-> 0, s |-> 1])
        from == IF deb = 1 THEN Least(track, room)
                ELSE IF up < list[deb].offset THEN up ELSE free
        last == End(list[fin]) - 1
        till == IF fin < Len(list) THEN list[fin+1].offset - 1
                ELSE IF last < DiskSize - 1 THEN DiskSize - 1 ELSE last
        down == IF from % Mega = 0 THEN Down(till, Mega) - 1
                ELSE CHS2offset(LastInCylinder(CylinderBefore(offset2cylinder(till))))
    IN [from |-> from, to |-> IF last <= down THEN down ELSE till]

MinExtended(list, deb, fin) ==
    LET room == list[deb].offset - 1
        down == IF OnMega(list[deb]) THEN Down(room, Mega)
                ELSE CHS2offset([c |-> offset2cylinder(room), s |-> 1,
                                 h |-> IF offset2cylinder(room) = 0 THEN 1 ELSE 0])
        from == IF /\ down > 0 /\ down < list[deb].offset
                   /\ deb = 1 \/ down >= End(list[deb-1])
                THEN down ELSE room
        last == End(list[fin]) - 1
        up == IF from % Mega = 0 THEN Up(last, Mega) - 1
              ELSE CHS2offset([offset2CHS(last) EXCEPT !.h = HeadsPerCyl - 1,
                                                       !.s = SectorsPerHead])
    IN [from |-> from, to |-> IF up < DiskSize THEN up ELSE last]

add_ext_part_i386(list, max) ==
    LET old == {p \in Range(list) : p.status = "E"}
        rest == SelectSeq(list, LAMBDA p : p.status # "E")
        logical == {i \in DOMAIN rest : rest[i].status = "L"}
        deb == CHOOSE i \in logical : \A j \in logical : i <= j
        fin == CHOOSE i \in logical : \A j \in logical : i >= j
        entries == Len(rest) - Cardinality(logical) + 1
        e == IF entries = 4 \/ max THEN MaxExtended(rest, deb, fin)
             ELSE MinExtended(rest, deb, fin)
        type == IF offset2cylinder(e.to) > MaxCylinder THEN "extx" ELSE "ext"
        order == IF old = {} THEN 0 ELSE (CHOOSE p \in old : TRUE).order
    IN IF logical = {} THEN rest
       ELSE Inserted(rest, [NewPartition(e.from, e.to - e.from + 1, type, "E")
                            EXCEPT !.order = order])

init_part_order_i386(list) ==
    [i \in DOMAIN list |->
        LET UpTo(set) == Cardinality({j \in 1..i : list[j].status \in set})
        IN [list[i] EXCEPT !.order =
                CASE list[i].status \in {"P", "*", "E"} -> UpTo({"P", "*", "E"})
                  [] list[i].status = "L" -> UpTo({"L"}) + 4
                  [] OTHER -> @]]

(***************************************************************************)
(* Writing: the sectors that are written, in their order                   *)
(***************************************************************************)
BootSector(entries) == [kind |-> "boot", code |-> "mbr", entries |-> entries]

write_mbr_i386(list) ==
    LET In(i) == {p \in Range(list) : p.status \in {"P", "*", "E"} /\ p.order = i}
    IN [at |-> 0,
        what |-> BootSector([i \in 1..4 |->
                     IF In(i) = {} THEN NoEntry
                     ELSE partition2_i386_entry(0, CHOOSE p \in In(i) : TRUE)])]

\* the boot sector in front of logical partition next, behind partition p
NextExtended(p, next) ==
    LET room == next.offset - 1
        chs == offset2CHS(room)
        track == [chs EXCEPT !.s = 1]
        above == IF chs.s = SectorsPerHead THEN track
                 ELSE IF chs.h > 0 THEN [track EXCEPT !.h = @ - 1]
                 ELSE [track EXCEPT !.h = HeadsPerCyl - 1, !.c = CylinderBefore(@)]
    IN IF CHS2offset(above) >= End(p) THEN CHS2offset(above)
       ELSE IF CHS2offset(track) >= End(p) THEN CHS2offset(track)
       ELSE room

\* mutant: the link counts from the boot sector it is in
LinkFromHere(ext, pos, from, next) ==
    partition2_i386_entry(pos, NewPartition(from, End(next) - from, "ext", "X"))
\* the entry of boot sector pos that leads to the one at from
Link(ext, pos, from, next) ==
    partition2_i386_entry(ext.offset, NewPartition(from, End(next) - from, "ext", "X"))

write_all_log_i386(list) ==
    LET exts == {i \in DOMAIN list : list[i].status = "E" /\ list[i].type \in Extended}
        ext == CHOOSE i \in exts : \A j \in exts : j <= i
        IsLog(i) == i <= Len(list) /\ list[i].status = "L"
        Chain[i \in 1..Len(list), pos \in 0..DiskSize] ==
            LET from == NextExtended(list[i], list[i+1])
                link == IF IsLog(i+1) THEN Link(list[ext], pos, from, list[i+1]) ELSE NoEntry
            IN << [at |-> pos,
                   what |-> BootSector(<< partition2_i386_entry(pos, list[i]), link,
                                          NoEntry, NoEntry >>)] >>
               \o IF IsLog(i+1) THEN Chain[i+1, from] ELSE <<>>
    IN IF exts = {} THEN <<>>
       ELSE IF ~IsLog(ext+1)
       THEN << [at |-> list[ext].offset, what |-> BootSector(NoEntries)] >>
       ELSE Chain[ext+1, list[ext].offset]

write_part_i386(list) == << write_mbr_i386(list) >> \o write_all_log_i386(list)

(* erase_list_part_i386: the entries, the labels of a Sun and an Xbox and    *)
(* the header of a GPT in sector 1 go; the header at the end of the disk and *)
(* the labels of the others stay                                             *)
Erased(disk, s) ==
    \/ s = 1 /\ disk[s].kind = "gpt"
    \/ HasLabel(disk, s, "sun") \/ HasLabel(disk, s, "xbox")
erase_list_part_i386(disk) ==
    [s \in {t \in DOMAIN disk : ~Erased(disk, t)} |->
        IF s = 0 /\ HasBoot(disk, 0) THEN [disk[0] EXCEPT !.entries = NoEntries] ELSE disk[s]]
=============================================================================
