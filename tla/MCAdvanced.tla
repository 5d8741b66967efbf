----------------------------- MODULE MCAdvanced ------------------------------
(* Volumes of clusters 2 to 8: a root directory, a subdirectory, two live   *)
(* files in them and a deleted one, with directories that point back, one   *)
(* damaged link and one cluster that cannot be read; and the NTFS volumes   *)
(* of NtfsVolumes, whose deleted files are undeleted.                       *)
EXTENDS Advanced

N == INSTANCE NtfsVolumes
MCSessions == N!NtfsSessions
MCOrders(v) == N!NtfsOrders(v)

Last0 == 8

Dir(path, ino, clusters) == [path |-> path, ino |-> ino, clusters |-> clusters]
File(path, ino, clusters, deleted, long) ==
    [path |-> path, ino |-> ino, clusters |-> clusters, deleted |-> deleted, long |-> long]
Live(path, clusters) ==
    File(path, IF clusters = <<>> THEN 0 ELSE clusters[1], clusters, FALSE, TRUE)

Shown(f) ==
    [i \in DOMAIN f.path |->
        IF i = Len(f.path) /\ f.deleted /\ ~f.long THEN [f.path[i] EXCEPT ![1] = "_"] ELSE f.path[i]]

(* Slots of FAT and of a library *)
Slot(name, kind, ino, size, deleted, long) ==
    [name |-> name, kind |-> kind, ino |-> ino, size |-> size, deleted |-> deleted,
     long |-> long, unreadable |-> FALSE, gone |-> FALSE, stream |-> FALSE]
Point(name, ino) == Slot(name, "dir", ino, 0, FALSE, TRUE)

Parent(path) == SubSeq(path, 1, Len(path) - 1)
In(dir, all) == SelectSeq(all, LAMBDA x : x.path # <<>> /\ Parent(x.path) = dir.path)

(* What a directory holds; `loops` are entries that point to a directory    *)
(* above                                                                    *)
Entries(dir, dirs, files, loops) ==
    (IF dir.path = <<>> THEN <<>>
     ELSE << Point(<< "." >>, dir.ino), Point(<< ".." >>, 0) >>)
    \o (IF dir.path = <<>> THEN <<>> ELSE [i \in DOMAIN loops |-> Point(<< "r", "2" >>, loops[i])])
    \o LET f == In(dir, files)
       IN  [i \in DOMAIN f |-> Slot(Last(f[i].path), "file", f[i].ino, Len(f[i].clusters),
                                    f[i].deleted, f[i].long)]
    \o LET d == In(dir, dirs) IN [i \in DOMAIN d |-> Point(Last(d[i].path), d[i].ino)]

(* The last cluster of a directory holds the rest. *)
Piece(slots, k, per, n) ==
    SubSeq(slots, (k - 1) * per + 1, IF k = n THEN Len(slots) ELSE Min({k * per, Len(slots)}))

ExfatSlots(slots) ==
    LET real == SelectSeq(slots, LAMBDA s : s.name \notin Dots)
    IN  FlattenSeq([i \in DOMAIN real |->
            LET s == real[i]
                half(type) == [type |-> type, count |-> 2, kind |-> s.kind, ino |-> s.ino,
                               size |-> s.size, name |-> s.name, deleted |-> s.deleted]
            IN  << half("file"), half("stream"), half("name"), half("other") >>])

(* The clusters of directory d of a chained volume                          *)
CellsOf(kind, d, slots) ==
    LET all == IF kind = "exfat" THEN ExfatSlots(slots) ELSE slots
        per == IF kind = "exfat" THEN 6 ELSE 3
    IN  [c \in Range(d.clusters) |->
            LET k == CHOOSE k \in DOMAIN d.clusters : d.clusters[k] = c
            IN  [dots |-> k = 1 /\ d.path # <<>>, slots |-> Piece(all, k, per, Len(d.clusters)),
                 more |-> k < Len(d.clusters) /\ Len(all) > k * per]]

NoSlots == [c \in 2..Last0 |-> [dots |-> FALSE, slots |-> <<>>, more |-> FALSE]]

Links(seqs) ==
    LET live == UNION {Range(s) : s \in seqs}
    IN  [c \in 2..Last0 |->
            IF c \notin live THEN 0
            ELSE LET s == CHOOSE s \in seqs : c \in Range(s)
                     k == CHOOSE k \in DOMAIN s : s[k] = c
                 IN  IF k = Len(s) THEN EOC ELSE s[k + 1]]

(* one: the clusters of directories and files that have no links            *)
Volume(kind, dirs, files, loops, one, damage, bad) ==
    LET slotsOf(d) == Entries(d, dirs, files, loops)
        live == SelectSeq(files, LAMBDA f : ~f.deleted /\ f.clusters # <<>>)
        chains == {d.clusters : d \in Range(dirs)} \cup {f.clusters : f \in Range(live)}
    IN  [ptype |-> CASE kind \in Fat -> "fat" [] kind = "ext2" -> "linux" [] OTHER -> "ntfs",
         upart |-> kind, opens |-> {kind}, last |-> Last0, bad |-> bad,
         root |-> 2,
         fat |-> damage @@ Links(chains \ one),
         cell |-> FoldSeq(LAMBDA d, all : CellsOf(kind, d, slotsOf(d)) @@ all, NoSlots, dirs),
         slots |-> IF kind \in Chained
                   THEN 0 :> slotsOf(dirs[1])
                   ELSE [i \in {d.ino : d \in Range(dirs)} |->
                            slotsOf(CHOOSE d \in Range(dirs) : d.ino = i)],
         blocks |-> [i \in {f.ino : f \in Range(files)} |->
                        (CHOOSE f \in Range(files) : f.ino = i).clusters],
         files |-> {[path |-> Shown(f), clusters |-> f.clusters,
                     entry |-> Entry(Last(Shown(f)), "file", f.ino, Len(f.clusters), f.deleted),
                     dirs |-> LET above == SelectSeq(dirs, LAMBDA d :
                                      /\ Len(d.path) < Len(f.path)
                                      /\ d.path = SubSeq(f.path, 1, Len(d.path))
                                      /\ kind = "fat16" => d.path # <<>>)
                              IN  [i \in DOMAIN above |->
                                      IF kind \in Chained THEN above[i].clusters ELSE << above[i].ino >>]]
                    : f \in Range(files)}]

A == << << "a", "1" >> >>
Sub == << << "d", "1" >> >>
InSub(name) == Append(Sub, name)

Deleted == << File(A, 5, << 5, 6 >>, TRUE, TRUE),
              File(InSub(<< "b", "1" >>), 6, << 6, 8 >>, TRUE, FALSE),
              File(InSub(<< "c", "1" >>), 4, << 4 >>, TRUE, FALSE) >>

Disjoint(seqs) == \A s, t \in seqs : s # t => Range(s) \cap Range(t) = {}

Seed(kind, root, a, b, del, loops, damage, bad, one) ==
    [kind |-> kind, root |-> root, a |-> a, b |-> b, del |-> del, loops |-> loops,
     damage |-> damage, bad |-> bad, one |-> one]

(* A link to where it may not lead, the loops, a cluster that cannot be     *)
(* read, or, on exFAT, a file or directory in one piece                     *)
Whole == << 0, 0 >>
Faults(kind) ==
    {<< <<>>, << c, n >>, 0, 0 >> : c \in 2..7, n \in {0, EOC, 77, 9, 6}}
    \cup {<< l, Whole, 0, 0 >> : l \in {<<>>, << 2 >>, << 3 >>, << 0 >>}}
    \cup {<< <<>>, Whole, c, 0 >> : c \in {2, 3, 4, 7}}
    \cup (IF kind = "exfat" THEN {<< <<>>, Whole, 0, c >> : c \in {2, 6}} ELSE {})

ChainSeeds ==
    {s \in {Seed(k, r, a, b, d, f[1], f[2], f[3], f[4]) :
                k \in {"fat16", "fat32", "exfat"},
                r \in {<< << 2 >>, << 3 >> >>, << << 2, 7 >>, << 3 >> >>, << << 2 >>, << 3, 7 >> >>},
                a \in {<<>>, << 4 >>, << 5, 4 >>, << 4, 8 >>}, b \in {<< 6 >>, << 6, 7 >>},
                d \in DOMAIN Deleted, f \in UNION {Faults(kind) : kind \in {"fat32", "exfat"}}} :
        /\ Disjoint(Range(s.root) \cup {s.a, s.b})
        /\ s.one # 0 => s.kind = "exfat"}

ChainVolume(s) ==
    LET dirs == << Dir(<<>>, 2, s.root[1]), Dir(Sub, 3, s.root[2]) >>
        files == << Live(A, s.a), Deleted[s.del], Live(InSub(<< "b", "1" >>), s.b) >>
        one == {seq \in {s.root[1], s.b} : s.one \in Range(seq)}
    IN  Volume(s.kind, dirs, files, s.loops, one,
               IF s.damage = Whole THEN <<>> ELSE s.damage[1] :> s.damage[2],
               {s.bad} \ {0})

(* Directories in directories, one deeper than MaxDirNbr, or with long names    *)
Nested(name, n) == [i \in 1..n |-> << name, ToString(i) >>]
NestedVolume(s) ==
    LET name == IF s.kind = "long" THEN "L" ELSE "e"
    IN  Volume("fat32", << Dir(<<>>, 2, << 2 >>) >> \o
               [i \in 1..s.one |-> Dir(Nested(name, i), 2 + i, << 2 + i >>)],
               << Live(Append(Nested(name, 1), << "a", "1" >>), << 7 >>),
                  Live(Append(Nested(name, 2), << "L", "1" >>), << 7 >>),
                  Live(Append(Nested(name, 3), << "c", "1" >>), << 8 >>) >>, s.loops, {}, <<>>, {})

(* ext2 and NTFS: a directory with a deleted file, one whose inode holds    *)
(* nothing or cannot be read, and an alternate stream                       *)
LibraryVolume(s) ==
    LET root == RootInode(s.kind)
        dirs == << Dir(<<>>, root, <<>>), Dir(Sub, 13, <<>>) >>
        files == << File(A, 14, s.a, FALSE, TRUE), File(InSub(<< "b", "1" >>), 16, s.b, FALSE, TRUE),
                    File(<< << "x", "1" >> >>, 15, << 5 >>, s.kind = "ext2", TRUE) >>
        v == Volume(s.kind, dirs, files, s.loops, {}, <<>>, {s.bad} \ {0})
    IN  [v EXCEPT !.slots[13] =
            << [Slot(<< "n", "1" >>, "file", 17, 1, FALSE, TRUE) EXCEPT !.gone = TRUE] >> \o @ \o
            << [Slot(<< "b", "1", "s" >>, "file", 14, 1, FALSE, TRUE) EXCEPT !.stream = TRUE],
               Slot(<< "l", "1" >>, "other", 18, 0, FALSE, TRUE),
               [Slot(<< "u", "1" >>, "file", 19, 1, FALSE, TRUE) EXCEPT !.unreadable = s.one = 1] >>,
                  !.blocks = (17 :> <<>>) @@ (18 :> <<>>) @@ (19 :> << 8 >>) @@ @]

LibrarySeeds ==
    {Seed(k, <<>>, a, << 6, 7 >>, 1, l, Whole, bad, one) :
        k \in {"ntfs", "ext2"}, a \in {<<>>, << 5 >>, << 4, 8 >>},
        l \in {<<>>, << 13 >>, << 2 >>, << 5 >>}, bad \in {0, 4, 7}, one \in {0, 1}}

(* A partition whose type is another file system's, or of no file system,   *)
(* or that no reader accepts                                                *)
Kinds == {"fat32", "exfat", "ntfs", "ext2", "reiser", "hfs"}
OtherSeeds ==
    {[kind |-> "other", ptype |-> t, upart |-> u, opens |-> o] :
        t \in {"fat", "ntfs", "linux", "other"}, u \in Kinds,
        o \in {{}, {"exfat"}, {"ntfs", "ext2"}}}
OtherVolume(s) ==
    LET v == IF s.opens \cap {"ntfs", "ext2"} # {}
             THEN LibraryVolume(Seed("ext2", <<>>, <<>>, << 6 >>, 1, <<>>, Whole, 0, 0))
             ELSE ChainVolume(Seed("exfat", << << 2 >>, << 3 >> >>, << 4 >>, << 6 >>, 1, <<>>, Whole, 0, 0))
    IN  [v EXCEPT !.ptype = s.ptype, !.upart = s.upart, !.opens = s.opens, !.files = {}]

MCSeeds == ChainSeeds \cup LibrarySeeds
           \cup {Seed(k, <<>>, <<>>, <<>>, 0, l, Whole, 0, n) :
                     k \in {"deep", "long"}, l \in {<<>>, << 3 >>}, n \in {3, 4}}
           \cup OtherSeeds

MCVolume(s) ==
    CASE s.kind \in Chained -> ChainVolume(s)
      [] s.kind \in {"deep", "long"} -> NestedVolume(s)
      [] s.kind \in {"ntfs", "ext2"} -> LibraryVolume(s)
      [] s.kind = "other" -> OtherVolume(s)

(* Keys are pressed on a few volumes.                                       *)
Browsed(s) ==
    \/ s.kind \in {"fat32", "fat16"} /\ s.a = << 4 >> /\ s.b = << 6 >> /\ s.del = 2
       /\ s.damage = Whole /\ s.bad = 0
    \/ s.kind = "deep" /\ s.one = 3 /\ s.loops = <<>>
    \/ s.kind = "ntfs" /\ s.bad = 0 /\ s.one = 0 /\ s.a = << 5 >>

(* Undelete is chosen of an NTFS volume, and of two others, which the menu *)
(* does not take for one.                                                  *)
Undeleted(s) ==
    \/ s.kind = "ntfs" /\ s.bad = 0 /\ s.one = 0 /\ s.a = << 5 >> /\ s.loops = <<>>
    \/ s.kind = "deep" /\ s.one = 3 /\ s.loops = <<>>
    \/ s.kind = "other" /\ s.ptype = "ntfs" /\ s.upart = "exfat" /\ s.opens = {"exfat"}

MCCommands(s) ==
    {[keys |-> FALSE, recursive |-> r, filecopy |-> TRUE, undelete |-> FALSE] :
        r \in IF s.kind \in {"deep", "long", "ext2"} THEN BOOLEAN ELSE {FALSE}}
    \cup {[keys |-> TRUE, recursive |-> FALSE, filecopy |-> FALSE, undelete |-> FALSE] : x \in {y \in {1} : Browsed(s)}}
    \cup {[keys |-> FALSE, recursive |-> FALSE, filecopy |-> TRUE, undelete |-> TRUE] : x \in {y \in {1} : Undeleted(s)}}
=============================================================================
