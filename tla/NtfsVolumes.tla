---------------------------- MODULE NtfsVolumes -----------------------------
(* NTFS volumes of ten records: a deleted file whose data, parent and name  *)
(* vary, two directories above it, another deleted file, one with two       *)
(* streams and two names, and a record that continues another one.          *)
EXTENDS Integers, Sequences, SequencesExt

CONSTANT ClusterSize

Missing == -2
Hole == -1
Dot == 0

Run(lcn, length) == [lcn |-> lcn, length |-> length]
Stream(name, runs, slack) ==
    LET length == FoldSeq(LAMBDA r, n : n + r.length, 0, runs) * ClusterSize
    IN  [name |-> name, resident |-> FALSE, raw |-> FALSE, runs |-> runs,
         data |-> length - slack, init |-> length - slack, alloc |-> length]
Resident(name, n) == [Stream(name, <<>>, 0) EXCEPT !.resident = TRUE, !.data = n]

Name(space, name, parent) == [space |-> space, name |-> name, parent |-> parent, born |-> 2]
Record(deleted, names, streams) ==
    [free |-> deleted, readable |-> TRUE, inUse |-> ~deleted, directory |-> FALSE,
     names |-> names, streams |-> streams]
Dir(deleted, names) == [Record(deleted, names, <<>>) EXCEPT !.directory = TRUE]

(* What the file of record 1 may be made of *)
Data == {Resident(0, 1), Stream(0, << Run(4, 2) >>, 1), Stream(0, << Run(4, 2), Run(9, 1) >>, 0),
         Stream(0, << Run(4, 1), Run(Hole, 1), Run(6, 1) >>, 1), Stream(0, << Run(9, 1), Run(Missing, 1) >>, 1),
         Stream(0, << Run(Missing, 2), Run(5, 1) >>, 0), Stream(0, <<>>, 0),
         Stream(0, << Run(20, 101) >>, 1), [Stream(0, << Run(4, 2) >>, 0) EXCEPT !.raw = TRUE],
         [Stream(0, << Run(4, 2) >>, 0) EXCEPT !.data = 20]}

Volume(file, up, loop, first, space) ==
    [opens |-> TRUE, last |-> 120, used |-> {0, 1, 2, 3, 8} \cup 20..119, unknown |-> {}, bad |-> {},
     chunks |-> << 4, 4, 2 >>,
     records |-> <<
        Record(FALSE, << Name(3, 1, 5) >>, << Stream(0, << Run(0, 2) >>, 0) >>),
        Record(TRUE, << Name(space, first, up) >>, << file >>),
        Dir(TRUE, << Name(2, 2, 3), Name(1, 12, 3) >>),
        Dir(FALSE, << Name(1, 3, IF loop THEN 2 ELSE 5), Name(2, 13, 5) >>),
        Record(TRUE, << Name(1, 4, 5) >>, << Stream(0, << Run(10, 1), Run(8, 1) >>, 1) >>),
        Dir(FALSE, << Name(3, Dot, 5) >>),
        Record(TRUE, << Name(2, 6, 5), Name(1, 7, 3) >>,
               << Stream(0, << Run(12, 1) >>, 0), Resident(5, 1), Stream(4, <<>>, 0), Stream(6, << Run(8, 1) >>, 0) >>),
        Record(TRUE, <<>>, << [Stream(0, << Run(Missing, 1), Run(13, 1) >>, 0) EXCEPT !.data = 0, !.init = 0, !.alloc = 0] >>),
        Record(FALSE, <<>>, <<>>),
        [Record(TRUE, << Name(1, 8, 5) >>, << Stream(0, << Run(14, 1) >>, 0) >>) EXCEPT !.inUse = TRUE] >>]

Files == {Volume(d, 2, FALSE, 9, 1) : d \in Data}
         \cup {Volume(Resident(0, 1), 2, TRUE, 9, 1)}
         \cup {Volume(Resident(0, 1), up, FALSE, 9, 1) : up \in {3, 5, 6, 20}}
         \cup {Volume(Stream(0, << Run(4, 2) >>, 1), up, FALSE, n, space) :
                   up \in {2, 5}, n \in {3, 4, 12}, space \in {0, 2}}
Plain == Volume(Stream(0, << Run(4, 2) >>, 1), 2, FALSE, 9, 1)
Damaged ==
    {[Plain EXCEPT !.chunks = c] : c \in {<< -1, 4, 2 >>, << 4, -1, 2 >>, << 1, 4, 2 >>, << 4, 3, 2 >>}}
    \cup {[Plain EXCEPT !.unknown = {u}] : u \in {1, 2, 3}}
    \cup {[Plain EXCEPT !.bad = {b}] : b \in {5, 10, 12, 13}}
    \cup {[Plain EXCEPT !.records[r].readable = FALSE] : r \in {2, 3, 5, 7}}
    \cup {[Plain EXCEPT !.records[3].names[1].born = 3], [Plain EXCEPT !.used = @ \cup {4}]}

Late == Volume(Stream(0, << Run(11, 1) >>, 1), 5, FALSE, 9, 1)

(* A volume that is full, one that is empty, and one that cannot be opened, *)
(* before another one                                                       *)
Others == {[Plain EXCEPT !.used = 0..120], [Plain EXCEPT !.used = {}], [opens |-> FALSE],
           [Plain EXCEPT !.unknown = {3}]}
NtfsSessions == {<< v >> : v \in Files \cup Damaged}
              \cup {<< a, b >> : a \in Others, b \in {Plain, [Plain EXCEPT !.used = {}], Late}}
(* Keys are pressed on one volume.                                          *)
NtfsOrders(v) == {"allundelete"} \cup (IF v = Plain THEN {"none", "other"} ELSE {})
=============================================================================
