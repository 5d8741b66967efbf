---------------------------- MODULE MCDetection -----------------------------
(* Searches for the model checker.                                           *)
EXTENDS Detection

Block(fs, type, size, back, l, place) ==
    [fs |-> fs, type |-> type, good |-> TRUE, size |-> size, back |-> back,
     at |-> <<l, place>>]
Disk(blocks, unreadable, known) ==
    [blocks |-> blocks, unreadable |-> unreadable, known |-> known]

(* every file system at every place it is looked for, at l *)
Everything(l, sizes) ==
    UNION {{Block(fs, type, size, 0, l, place) :
              type \in FileSystemOf[fs].types, size \in sizes,
              place \in FileSystemOf[fs].places} : fs \in Names}

(* an ordinary start of a partition *)
StartOf(a) == CASE a \in {"i386", "gpt", "xbox"} -> 5 [] a = "mac" -> 6 [] a = "sun" -> 15

(* partitions that are in the way of others *)
Few(l) == {Block("FAT", "FAT32", 3, 0, l, "0"), Block("xfs", "UNK", 2, 0, l, "0"),
           Block("Linux_SWAP", "LINSWAP2", 2, 0, l, "page end"),
           Block("LVM", "LVM", 5, 0, l, "0")}

(* copies and others, anywhere *)
Wanderers(l) ==
    {Block("FAT", "FAT32", size, FatBack, l, "0") : size \in {2, 20}}
    \cup {Block("FAT", "FAT16", 2, 0, l, "0")}
    \cup {Block("exFAT", "EXFAT", 5, ExBack, l, "0")}
    \cup {Block("NTFS", "NTFS", size, size - 1, l, "0") : size \in {3, 7, 20}}
    \cup {Block("NTFS", "NTFS", 2, 0, l, "0")}
    \cup {Block("HFSP", "HFSP", size, size - 2, l, "0") : size \in {3, 20}}
    \cup {Block("ext2", "EXT4", size, ExtBack, l, "0") : size \in {2, 8}}
    \cup {Block("ext2", "EXT4", 2, 20, l, place) : place \in {"0", "0x400"}}
    \cup {Block("ext2", "EXT2", 4, 0, l, "0x400")}
    \cup {Block("MD", "MD", 4, 3, l, "0")}
    \cup {Block("MD", "MD1", size, back, l, "0") : size \in {3, 30}, back \in {0, 20}}

OneOf(a) == {Disk({b}, u, {}) :
               b \in Everything(StartOf(a), {2}),
               u \in {{}, {<<StartOf(a), "0">>}, {<<StartOf(a), "8k">>}}}
Alone(a) == {Disk({b}, {}, k) :
               b \in UNION {Wanderers(l) : l \in 0..Sectors-1},
               k \in IF a = "mac" THEN {{}, {7}} ELSE {{}}}
Two(a) == {Disk({b, w}, {}, {}) :
             b \in Few(StartOf(a)), w \in UNION {Wanderers(l) : l \in 1..Sectors-1}}
(* an NTFS known by its backup, and boot sectors near the start it gives *)
TwoNtfs == {Disk({Block("NTFS", "NTFS", size, size - 1, Mega * 2 - 1, "0"),
                  Block("NTFS", "NTFS", 3, 0, l, "0")}, {}, {}) :
             size \in {5, 7}, l \in 5..9}

(* a logical partition with and without a file system, and behind it what    *)
(* does not set the type, or the upart_type *)
Logical ==
    {Disk({Block("EBR", type, size, 0 - start, l, "0"), there, later} \ {NoSuperblock},
          {}, {}) :
       type \in {"FAT", "NTFS"}, size \in {2, 6, 20}, start \in 1..2, l \in {5, 7},
       there \in {NoSuperblock} \cup {Block(fs, CHOOSE t \in FileSystemOf[fs].types : TRUE,
                                            3, 0, p, "0") :
                                      fs \in {"FAT", "NTFS", "exFAT"}, p \in 6..9},
       later \in {NoSuperblock, Block("ufs", "UFS", 2, 0, 10, "8k"),
                  Block("xfs", "UNK", 2, 0, 10, "0"), Block("HPFS", "HPFS", 2, 0, 14, "0"),
                  Block("MD", "MD1", 3, 0, 7, "4k"), Block("NTFS", "NTFS", 5, 4, 13, "0")}}

(* superblocks of a disk without partition table *)
NoTable ==
    {Disk({b}, u, {}) : b \in Everything(0, {0, 2, 30}), u \in {{}, {<<0, "0">>}}}
    \cup {Disk({a, b}, {}, {}) :
            a \in Everything(0, {2}),
            b \in UNION {Wanderers(l) :
                           l \in {0, FatBack, ExBack, ExtBack, RealSize - 1}}}

DisksOf(a) ==
    {d \in IF a = "none" THEN NoTable
           ELSE OneOf(a) \cup Alone(a) \cup TwoNtfs
                \cup (IF a \in {"i386", "gpt"} THEN Logical ELSE {})
                \cup (IF a = "xbox" THEN {} ELSE Two(a)) : IsDisk(d)}
=============================================================================
