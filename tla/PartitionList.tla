---------------------------- MODULE PartitionList ---------------------------
(* The list of partitions of fnctdsk.c: a sequence of records with at least  *)
(* the fields offset, size, type (the part_type of every partition table),   *)
(* upart, sb_offset and status.                                              *)
EXTENDS Integers, Sequences, SequencesExt

Deleted == "D"                                    \* STATUS_DELETED

(* The place of p is in front of the first q with Before(p, q, force) *)
Before(p, q, force) ==
    \/ p.offset < q.offset
    \/ /\ p.offset = q.offset
       /\ \/ p.size < q.size
          \/ p.size = q.size /\ (~force \/ p.sb_offset < q.sb_offset)

SamePartition(p, q) ==
    /\ p.offset = q.offset /\ p.size = q.size
    /\ p.type = q.type
    /\ p.upart \in {q.upart, "UNK"}

(* insert_new_partition; error: p is in the list already, where it gives a   *)
(* deleted partition its status                                              *)
InsertNewPartition(list, p, force) ==
    LET i == SelectInSeq(list, LAMBDA q : Before(p, q, force))
    IN IF i = 0 THEN [list |-> Append(list, p), error |-> FALSE]
       ELSE IF ~force /\ SamePartition(p, list[i])
       THEN [list |-> IF list[i].status = Deleted
                      THEN [list EXCEPT ![i].status = p.status] ELSE list,
             error |-> TRUE]
       ELSE [list |-> InsertAt(list, i, p), error |-> FALSE]

Inserted(list, p) == InsertNewPartition(list, p, FALSE).list

sort_partition_list(list) == FoldLeft(Inserted, <<>>, list)

gen_sorted_partition_list(list) ==
    FoldLeft(LAMBDA l, p : InsertNewPartition(l, p, TRUE).list, <<>>,
             SelectSeq(list, LAMBDA p : p.status # Deleted))

\* mutant: the extended boot record is forgotten
part_overlap_only(list) ==
    \E i \in 1..Len(list)-1 : list[i].offset + list[i].size > list[i+1].offset
(* Neighbours share a sector, or there is no room for the extended boot      *)
(* record in front of a logical partition                                    *)
is_part_overlapping(list) ==
    \E i \in 1..Len(list)-1 :
       LET p == list[i]
           next == list[i+1]
           end == p.offset + p.size
       IN \/ end > next.offset
          \/ p.status \in {"P", "*", "L"} /\ next.status = "L" /\ end >= next.offset
=============================================================================
