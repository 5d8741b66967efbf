--------------------------- MODULE MCPreparation ----------------------------
(* A disk of six sectors of two bytes, file systems with clusters of one or  *)
(* two sectors, and ext2 file systems of two or three groups.                *)
EXTENDS Preparation

Fs(kind, cluster, data, used, unread, opened) ==
    [kind |-> kind, cluster |-> cluster, data |-> data, used |-> used,
     stray |-> [c \in DOMAIN used |-> FALSE], unread |-> unread, opened |-> opened]

(* What the buffer may show where the state of a cluster is not read         *)
Strayed(f) ==
    {[f EXCEPT !.stray = [c \in DOMAIN f.used |-> c \in shown]] :
        shown \in SUBSET {c \in DOMAIN f.used : Astray(f, c)}}

(* As many clusters as there is room for, or one cluster more               *)
Layouts(p) ==
    {l \in [cluster : {Sector, 2 * Sector}, data : {0, Sector}, n : 2..5] :
        /\ l.data + (l.n - 1) * l.cluster <= p.end - p.start
        /\ l.data + (l.n + 1) * l.cluster > p.end - p.start}

(* FAT and exFAT have something before their clusters, NTFS does not, and    *)
(* ext2 only with the smallest blocks.                                       *)
Fits(kind, l) ==
    CASE kind \in {"fat", "exfat"} -> l.data > 0
      [] kind = "ntfs" -> l.data = 0
      [] kind = "ext2" -> l.data > 0 <=> l.cluster = Sector

FilledFileSystems(p) ==
    UNION {UNION {Strayed(Fs(kl[1], kl[2].cluster, kl[2].data, used, unread, TRUE)) :
                      used \in [1..kl[2].n -> BOOLEAN], unread \in {{}, {1}}} :
           kl \in {kl \in {"fat", "exfat", "ntfs", "ext2"} \X Layouts(p) : Fits(kl[1], kl[2])}}
    \cup {Fs("fat", Sector, Sector, << TRUE >>, {}, FALSE)}

SmallExt2s == {[block |-> 2, blocks |-> 2, inodes |-> 2],
               [block |-> 4, blocks |-> 1, inodes |-> 1]}
=============================================================================
