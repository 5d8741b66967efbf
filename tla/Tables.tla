------------------------------- MODULE Tables -------------------------------
(* What TestDisk does with the partitions that a search found, from          *)
(* interface_recovery (godmode.c) to the last sector of the new partition    *)
(* table: it proposes a structure, the user edits it, it is tested, an       *)
(* extended partition is put around the logical ones, and the table is       *)
(* written sector by sector, where each write may fail and the process may   *)
(* end. Also the detection of the kind of table a disk has (partauto.c), and *)
(* the tables that are only read.                                            *)
EXTENDS PartGpt

CONSTANTS
    Cases,         \* [arch, disk, found]: the disks at the start, with what a search
                   \* may find on them, lists in order
    Additions(_),  \* arch |-> partitions the user may add
    NewTypes,      \* types the user may give to a partition, none of them extended
    Backups(_),    \* arch |-> lists a backup file may hold
    XboxStarts,    \* the offsets of the partitions of an Xbox
    Word,          \* 2^32 bytes in sectors, the width of an offset of Sun and Humax
    MaxEdits       \* changes by the user, to bound the states

ASSUME TablesAssumption == Word \in Nat \ {0} /\ MaxEdits \in Nat

VARIABLES phase, arch, disk, before, align, list, table, todo, maxExt, edits

vars == << phase, arch, disk, before, align, list, table, todo, maxExt, edits >>

(***************************************************************************)
(* Reading, and the kind of table of a disk                                *)
(***************************************************************************)
InsertAll(partitions) == FoldLeft(Inserted, <<>>, partitions)

(* The whole disk, as one partition: of a known type only when the searches  *)
(* find a file system whose header is at the start of the disk               *)
read_part_none(d) ==
    << [NewPartition(0, DiskSize, "none", "P")
        EXCEPT !.upart = IF \E s \in DOMAIN d : HoldsFs(d, s) THEN "FS" ELSE "UNK"] >>
LabelEntries(d, s, kind) == IF HasLabel(d, s, kind) THEN d[s].entries ELSE <<>>

read_part_sun(d) ==
    LET e == SelectSeq(LabelEntries(d, 0, "sun"), LAMBDA x : x.count > 0 /\ x.type # "whole")
    IN InsertAll([i \in DOMAIN e |->
           NewPartition((e[i].start * PerCylinder) % Word, e[i].count, e[i].type, "P")])
read_part_humax(d) ==
    LET e == SelectSeq(LabelEntries(d, 0, "humax"), LAMBDA x : x.count > 0)
    IN InsertAll([i \in DOMAIN e |->
           NewPartition(e[i].start % Word, e[i].count, "humax", "P")])
read_part_xbox(d) ==
    LET starts == SelectSeq(XboxStarts, LAMBDA s : s < DiskSize)
    IN IF ~HasLabel(d, 3, "xbox") THEN <<>>
       ELSE InsertAll([i \in DOMAIN starts |->
                NewPartition(starts[i],
                    (IF i < Len(starts) THEN starts[i+1] ELSE DiskSize) - starts[i],
                    "fatx", "P")])
\* the entries up to one with a bad signature
read_part_mac(d) ==
    LET e == LabelEntries(d, 1, "mac")
        bad == SelectInSeq(e, LAMBDA x : x.type = "bad")
        good == IF bad = 0 THEN e ELSE SubSeq(e, 1, bad - 1)
    IN InsertAll([i \in DOMAIN good |->
           NewPartition(good[i].start, good[i].count, good[i].type, "P")])

read_part(kind, d) ==
    CASE kind = "i386" -> read_part_i386(d) [] kind = "gpt" -> read_part_gpt(d)
      [] kind = "sun" -> read_part_sun(d)   [] kind = "humax" -> read_part_humax(d)
      [] kind = "xbox" -> read_part_xbox(d) [] kind = "mac" -> read_part_mac(d)
      [] kind = "none" -> read_part_none(d)

Order_of_autodetect == << "none", "xbox", "gpt", "humax", "i386", "sun", "mac" >>
autodetect_arch(d) ==
    LET Detects(k) == LET l == read_part(k, d)
                      IN l # <<>> /\ (k = "none" => l[1].upart # "UNK")
        i == SelectInSeq(Order_of_autodetect, Detects)
    IN IF i = 0 THEN "i386" ELSE Order_of_autodetect[i]

(***************************************************************************)
(* The functions of disk->arch                                             *)
(***************************************************************************)
test_structure(l) == IF arch = "i386" THEN test_structure_i386(l) ELSE TestPlain(arch, l)
init_structure(l) == IF arch = "i386" THEN init_structure_i386(l) ELSE InitPlain(arch, l)
align_structure(l) ==
    IF arch = "i386" THEN align_structure_i386(l, align) ELSE AlignPlain(arch, l)
set_next_status(p) == IF arch = "i386" THEN set_next_status_i386(p) ELSE ToggleStatus(p)
set_prev_status(p) == IF arch = "i386" THEN set_prev_status_i386(p) ELSE ToggleStatus(p)
add_partition(l, p) == IF arch = "i386" THEN AddI386(l, p) ELSE AddPlain(arch, l, p)

\* Sun: a partition for the whole disk is added
init_part_order_sun(l) == Inserted(l, NewPartition(0, DiskSize, "whole", "P"))
init_part_order(l) ==
    CASE arch = "i386" -> init_part_order_i386(l) [] arch = "gpt" -> init_part_order_gpt(l)
      [] arch = "sun" -> init_part_order_sun(l) [] OTHER -> l
write_part(l) == IF arch = "i386" THEN write_part_i386(l) ELSE write_part_gpt(l)

(***************************************************************************)
(* The steps                                                               *)
(***************************************************************************)
Init ==
    /\ \E c \in Cases : arch = c.arch /\ disk = c.disk /\ list \in c.found
    /\ before = disk
    /\ align \in BOOLEAN
    /\ phase = "start"
    /\ table = <<>> /\ todo = <<>>
    /\ maxExt = FALSE
    /\ edits = 0

\* Delete in the menu before the search
Delete ==
    /\ phase = "start"
    /\ arch = "i386"
    /\ disk' = erase_list_part_i386(disk)
    /\ disk' # disk
    /\ UNCHANGED << phase, arch, before, align, list, table, todo, maxExt, edits >>

Propose ==
    /\ phase = "start"
    /\ list' = init_structure(align_structure(list))
    /\ phase' = "ask"
    /\ UNCHANGED << arch, disk, before, align, table, todo, maxExt, edits >>

(* ask_structure, with the keys of the user *)
Edit(l) ==
    /\ phase = "ask"
    /\ edits < MaxEdits
    /\ list' = l
    /\ edits' = edits + 1
    /\ UNCHANGED << phase, arch, disk, before, align, table, todo, maxExt >>
NextStatus == \E i \in DOMAIN list : Edit([list EXCEPT ![i] = set_next_status(@)])
PrevStatus == \E i \in DOMAIN list : Edit([list EXCEPT ![i] = set_prev_status(@)])
Move == \E i \in DOMAIN list : Edit(only_one_bootable(list, i))
\* set_part_type refuses the extended types of a PC
ChangeType ==
    phase = "ask" /\ \E i \in DOMAIN list, t \in NewTypes \ Extended :
        Edit([list EXCEPT ![i].type = t])
AddPartition == phase = "ask" /\ \E p \in Additions(arch) : Edit(add_partition(list, p))
interface_load == phase = "ask" /\ \E b \in Backups(arch) : Edit(FoldLeft(Inserted, list, b))

reduce_structure(l) == InsertAll(SelectSeq(l, LAMBDA p : p.status # Deleted))

(* The table that is offered first: with the extended partition as small as  *)
(* possible                                                                  *)
ToWrite(l) ==
    LET largest == add_ext_part_i386(sort_partition_list(reduce_structure(l)), TRUE)
    IN init_part_order(IF \E p \in Range(largest) : p.status = "E" /\ p.offset > 0
                       THEN add_ext_part_i386(largest, FALSE) ELSE largest)

Accept ==
    /\ phase = "ask"
    /\ ~test_structure(list)
    /\ table' = ToWrite(list)
    /\ maxExt' = FALSE
    /\ phase' = "menu"
    /\ UNCHANGED << arch, disk, before, align, list, todo, edits >>

Refuse ==
    /\ phase = "ask"
    /\ test_structure(list)
    /\ phase' = "end"
    /\ UNCHANGED << arch, disk, before, align, list, table, todo, maxExt, edits >>

(* ask_write_partition_table and interface_write *)
CanAskMinMax ==
    add_ext_part_i386(table, TRUE) # add_ext_part_i386(table, FALSE)
ToggleExtended ==
    /\ phase = "menu"
    /\ CanAskMinMax
    /\ edits < MaxEdits
    /\ edits' = edits + 1
    /\ maxExt' = ~maxExt
    /\ table' = add_ext_part_i386(table, maxExt')
    /\ UNCHANGED << phase, arch, disk, before, align, list, todo >>

Return ==
    /\ phase = "menu"
    /\ edits < MaxEdits
    /\ phase' = "ask"
    /\ UNCHANGED << arch, disk, before, align, list, table, todo, maxExt, edits >>

Write ==
    /\ phase = "menu"
    /\ table # <<>>
    /\ arch \in {"i386", "gpt"}
    /\ todo' = write_part(table)
    /\ phase' = "writing"
    /\ UNCHANGED << arch, disk, before, align, list, table, maxExt, edits >>

Quit ==
    /\ phase = "menu"
    /\ phase' = "end"
    /\ UNCHANGED << arch, disk, before, align, list, table, todo, maxExt, edits >>

(* write_mbr_i386 and write_all_log_i386 change the entries of a boot sector *)
(* that is there, and keep its code; for a logical partition what is there   *)
(* need not be a boot sector                                                 *)
Written(d, w) ==
    LET kept == w.what.kind = "boot" /\ HoldsFs(d, w.at) /\ (HasBoot(d, w.at) \/ w.at # 0)
    IN  (w.at :> IF kept THEN [w.what EXCEPT !.code = "fs"] ELSE w.what) @@ d

Writing == phase \in {"writing", "limping"}

WriteSector ==
    /\ Writing
    /\ disk' = Written(disk, todo[1])
    /\ todo' = Tail(todo)
    /\ phase' = IF Len(todo) > 1 THEN phase
                ELSE IF phase = "writing" THEN "done" ELSE "failed"
    /\ UNCHANGED << arch, before, align, list, table, maxExt, edits >>

(* write_part_i386 goes on behind a sector that could not be written, and    *)
(* says so at its end; write_part_gpt gives up, but ignores what comes of    *)
(* its boot sectors                                                          *)
WriteFails ==
    LET boot == todo[1].what.kind = "boot"
        after == IF arch = "i386" THEN "limping" ELSE phase
    IN /\ Writing
       /\ todo' = Tail(todo)
       /\ phase' = IF ~boot THEN "failed"
                   ELSE IF Len(todo) > 1 THEN after
                   ELSE IF after = "writing" THEN "done" ELSE "failed"
       /\ UNCHANGED << arch, disk, before, align, list, table, maxExt, edits >>

Crash ==
    /\ Writing
    /\ phase' = "failed"
    /\ UNCHANGED << arch, disk, before, align, list, table, todo, maxExt, edits >>

Next ==
    \/ Delete \/ Propose
    \/ NextStatus \/ PrevStatus \/ Move \/ ChangeType \/ AddPartition \/ interface_load
    \/ Accept \/ Refuse
    \/ ToggleExtended \/ Return \/ Write \/ Quit
    \/ WriteSector \/ WriteFails \/ Crash

Spec == Init /\ [][Next]_vars

(***************************************************************************)
(* Properties                                                              *)
(***************************************************************************)
Chosen(l) == {[offset |-> p.offset, size |-> p.size, type |-> p.type, status |-> p.status] :
                 p \in {q \in Range(l) : q.status \in InUse}}

(* What TestDisk proposes is a structure its own test accepts, whatever a    *)
(* search found: init_structure_i386 has three proposals, of which the last  *)
(* one takes nothing.                                                        *)
ProposalIsValid == phase = "ask" /\ edits = 0 => ~test_structure(list)

(* No sector of a partition table lies in a partition that is written into   *)
(* it, so writing never damages what was found: the boot sectors of the      *)
(* extended partition go into gaps, which the test of the structure and the  *)
(* place of the extended partition leave. Not so for a partition that begins *)
(* at the start of the disk, or one where the tables of a GPT go, which no   *)
(* test looks for.                                                           *)
InTheWay(p) ==
    IF arch = "gpt" THEN p.offset < 2 + GptSectors \/ End(p) > BackupTable
    ELSE p.offset = 0
TablesBesidePartitions ==
    Writing => \A w \in Range(todo), p \in Range(table) :
        p.status \in InUse /\ w.at \in p.offset..End(p)-1 => InTheWay(p)

(* A table that was written in full is what TestDisk detects and reads from  *)
(* the disk: the same partitions, and no complaint about any of them. Not so *)
(* when an older GPT or the label of an Xbox is still there, which are       *)
(* looked at first, when a number does not fit into an entry, and for a GPT  *)
(* partition of one sector or behind the last entry; and a partition behind  *)
(* the last whole cylinder is complained about. Where a file system filled   *)
(* the disk and its header is still there, in the sectors the new table does *)
(* not take or in the boot sector whose code is kept, the disk is still      *)
(* taken for one without a table: the table is read only when the user names *)
(* its kind.                                                                 *)
WholeDisk == \E s \in DOMAIN disk : HoldsFs(disk, s)
OlderLabel == arch = "i386" /\ (read_part_xbox(disk) # <<>> \/ read_part_gpt(disk) # <<>>)
TooFar == \E p \in Range(table) : arch = "i386" /\ (p.offset > MaxCount \/ p.size > MaxCount)
NotRead(p) == arch = "gpt" /\ (p.size = 1 \/ p.order > GptEntries)
RoundTrip ==
    phase = "done" /\ ~OlderLabel /\ ~TooFar =>
        LET read == read_part(arch, disk)
            readable == SelectSeq(table, LAMBDA p : ~NotRead(p))
        IN /\ readable # <<>> => autodetect_arch(disk) = IF WholeDisk THEN "none" ELSE arch
           /\ readable # <<>> => Chosen(read) = Chosen(readable)
           /\ \A p \in Range(read) : p.bad => End(p) > Cylinders * PerCylinder

(* Whenever writing ends early, by an error or because the process ends, a   *)
(* partition that is read from the disk is one of the old or of the new      *)
(* table, although the links of old boot sectors count from the old extended *)
(* partition; and of a GPT it is all of the old or all of the new.           *)
TornTable ==
    phase \in {"writing", "limping", "failed"} /\ todo # <<>> /\ ~TooFar =>
        LET now == Chosen(read_part(arch, disk))
        IN IF arch = "gpt"
           THEN now \in {Chosen(read_part_gpt_aux(before, 1)),
                         Chosen(read_part_gpt_aux(before, LastSector)),
                         Chosen(SelectSeq(table, LAMBDA p : ~NotRead(p)))}
           ELSE now \subseteq Chosen(read_part_i386(before)) \cup Chosen(table)
=============================================================================
