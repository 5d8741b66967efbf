--------------------------- MODULE MCFatUnformat ----------------------------
(* A disk of 20 sectors of 2 bytes; the file system has clusters of 2        *)
(* sectors, the first of them 2 or 5 sectors behind the start of the         *)
(* partition.                                                                *)
EXTENDS FatUnformat

ClusterBytes == 2 * Sector
Reserved(start) == IF start = 8 THEN 5 ELSE 2
At(start, cluster) == start + Reserved(start) * Sector + (cluster - 2) * ClusterBytes

Directory(start, cluster, rest) ==
    [at |-> At(start, cluster), self |-> cluster,
     slots |-> << Slot(".", cluster, 0), Slot("..", 0, 0) >> \o rest]

(* Empty files, one that ends in, and at the end of, a cluster, one behind   *)
(* the partition, and some whose last cluster is                             *)
Files == {Slot("file", 4, 3), Slot("file", 5, 8), Slot("file", 4, 9), Slot("file", 0, 0),
          Slot("file", 6, 0), Slot("file", 9, 7), Slot("file", 20, 3)}

Rests == {<< f >> : f \in Files}
         \cup {<< Slot("deleted", 5, 3), Slot("dir", 4, 0), Slot("file", 10, 4) >>,
               << Slot("file", 3, 3), Slot("unused", 0, 0), Slot("file", 4, 3) >>,
               << Slot("file", 0, 0), Slot("file", 7, 5) >>,
               << Slot("long", 0, 0), Slot("volume", 0, 0), Slot("dir", 0, 0), Slot("file", 4, 3) >>}
Few == {<<>>, << Slot("file", 4, 3) >>, << Slot("file", 8, 8) >>}

(* Two directories of the file system, and perhaps one of an older one, or   *)
(* something that only looks like one                                        *)
Strangers(start) ==
    { {}, {[at |-> start + 9 * Sector, self |-> 4,
            slots |-> << Slot(".", 4, 0), Slot("..", 3, 0), Slot("file", 5, 4) >>]},
      {[at |-> At(start, 9), self |-> 3,
        slots |-> << Slot(".", 3, 0), Slot("..", 0, 0) >>]},
      {[at |-> At(start, 3), self |-> 3, slots |-> << Slot(".", 3, 0) >>]} }

Disks(start) ==
    {{Directory(start, p[1], r), Directory(start, p[2], s)} \cup t :
        p \in {<<2, 3>>, <<2, 7>>, <<3, 8>>, <<5, 10>>}, r \in Rests, s \in Few,
        t \in Strangers(start)}

(* Nothing, used space, and clusters used by another file                    *)
Missing == {<<1, 0>>, <<12, 15>>, <<22, 29>>}
=============================================================================
