------------------------------ MODULE PartGpt -------------------------------
(* The GUID partition table of partgpt.c and partgptw.c: a header in sector  *)
(* 1 with the table behind it, and a copy of both at the end of the disk.    *)
EXTENDS PartI386

CONSTANTS
    GptEntries,    \* 128, the entries of a table that is written
    GptSectors     \* sectors of a table, gpt_entries_size / sector_size

ASSUME GptAssumption == {GptEntries, GptSectors} \subseteq Nat \ {0}

LastSector == DiskSize - 1
BackupTable == LastSector - GptSectors

(***************************************************************************)
(* Reading                                                                 *)
(***************************************************************************)
\* The table at sector s has the checksum in header h
TableOf(disk, h, s) ==
    \A i \in 1..GptSectors :
        s+i-1 \in DOMAIN disk
        /\ disk[s+i-1] = [kind |-> "ent", piece |-> i, entries |-> h.entries]

ValidHeader(disk, lba) ==
    /\ lba \in DOMAIN disk /\ disk[lba].kind = "gpt"
    /\ LET h == disk[lba]
       IN /\ h.self = lba
          /\ h.first < h.last
          /\ lba = 1 => h.table < h.first
          /\ TableOf(disk, h, h.table)

read_part_gpt_aux(disk, lba) ==
    LET table == disk[disk[lba].table].entries
        Add(list, i) ==
            IF table[i].type # "none" /\ table[i].start < table[i].end
            THEN Inserted(list, [NewPartition(table[i].start, table[i].end - table[i].start + 1,
                                              table[i].type, "P") EXCEPT !.order = i])
            ELSE list
    IN IF ~ValidHeader(disk, lba) THEN <<>>
       ELSE FoldLeft(Add, <<>>, [i \in 1..Len(table) |-> i])

read_part_gpt(disk) ==
    IF read_part_gpt_aux(disk, 1) # <<>> THEN read_part_gpt_aux(disk, 1)
    ELSE read_part_gpt_aux(disk, LastSector)

(***************************************************************************)
(* Writing                                                                 *)
(***************************************************************************)
init_part_order_gpt(list) ==
    LET Numbered(i) == list[i].size > 0 /\ list[i].type # "none"
    IN [i \in DOMAIN list |->
          IF Numbered(i)
          THEN [list[i] EXCEPT !.order = Cardinality({j \in 1..i : Numbered(j)})]
          ELSE list[i]]

\* the entries up to the last one in use
partition_generate_gpt_entries(list) ==
    LET In(i) == {p \in Range(list) : p.order = i}
        used == {i \in 1..GptEntries : In(i) # {}}
        Entry(p) == [type |-> p.type, start |-> p.offset, end |-> End(p) - 1]
    IN [i \in 1..Cardinality(used) |-> Entry(CHOOSE p \in In(i) : TRUE)]

\* The protective MBR; for Boot Camp it also has the partitions of Mac OS X,
\* Linux and Windows
First(list, type) ==
    LET i == SelectInSeq(list, LAMBDA p : p.type = type)
    IN IF i = 0 THEN {} ELSE {list[i]}

write_part_gpt_i386(list) ==
    LET other == First(list, "linux") \cup First(list, "ntfs")
        guests == IF First(list, "hfs") = {} \/ other = {} THEN {}
                  ELSE First(list, "hfs") \cup other
        Order(p) == CASE p.type = "hfs" -> 2 [] p.type = "linux" -> 3 [] OTHER -> 4
        end == CHOOSE s \in {DiskSize} \cup {p.offset : p \in guests} :
                   \A p \in guests : s <= p.offset
        efi == [NewPartition(1, end - 1, "efi", "P") EXCEPT !.order = 1]
    IN write_part_i386(<< efi >> \o SetToSeq({[p EXCEPT !.order = Order(p)] : p \in guests}))

Header(self, table, entries) ==
    [kind |-> "gpt", self |-> self, table |-> table, entries |-> entries,
     first |-> 2 + GptSectors, last |-> BackupTable - 1]
TableAt(s, entries) ==
    [i \in 1..GptSectors |->
        [at |-> s+i-1, what |-> [kind |-> "ent", piece |-> i, entries |-> entries]]]

\* mutant: the header is written before its table
write_part_gpt_header_first(list) ==
    LET entries == partition_generate_gpt_entries(list)
        At(s, what) == << [at |-> s, what |-> what] >>
    IN At(1, Header(1, 2, entries)) \o At(LastSector, Header(LastSector, BackupTable, entries))
       \o TableAt(2, entries) \o TableAt(BackupTable, entries)
       \o write_part_gpt_i386(list)
write_part_gpt(list) ==
    LET entries == partition_generate_gpt_entries(list)
        At(s, what) == << [at |-> s, what |-> what] >>
    IN TableAt(2, entries) \o At(1, Header(1, 2, entries))
       \o TableAt(BackupTable, entries)
       \o At(LastSector, Header(LastSector, BackupTable, entries))
       \o write_part_gpt_i386(list)
=============================================================================
