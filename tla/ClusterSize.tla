----------------------------- MODULE ClusterSize ----------------------------
(***************************************************************************)
(* The size of a cluster and the place of cluster 2, from directories met  *)
(* on a disk (fat_cluster.c).  A directory is a record                     *)
(*   sector   where it begins                                              *)
(*   cluster  the cluster its "." entry names                              *)
(***************************************************************************)
EXTENDS Integers, Sequences, FiniteSets

CONSTANTS
    Fat12Clusters,  \* clusters that make a file system FAT16, 4085 in the code
    Fat16Clusters   \* and FAT32, 65525

ASSUME ClustersAssumption ==
    /\ Fat12Clusters \in Nat /\ Fat16Clusters \in Nat
    /\ Fat12Clusters < Fat16Clusters

(* A negative count has wrapped around: it is a large one.                  *)
no_of_cluster2part_type(n) ==
    CASE n \in 0..(Fat12Clusters - 1) -> 12
      [] n \in Fat12Clusters..(Fat16Clusters - 1) -> 16
      [] OTHER -> 32

ClusterSizes == {1, 2, 4, 8, 16, 32, 64, 128}

(* find_sectors_per_cluster_aux: each pair of directories proposes the size *)
(* of a cluster and the sector of cluster 2.                                *)
Proposal(s, i, j) ==
    LET spc == (s[j].sector - s[i].sector) \div (s[j].cluster - s[i].cluster)
    IN  << spc, s[i].sector - (s[i].cluster - 2) * spc >>

PairsWithout(s, i) == {j \in (i + 1)..Len(s) : s[j].cluster > s[i].cluster}

Proposes(s, i, j) ==
    /\ j \in PairsWithout(s, i)
    /\ Proposal(s, i, j)[1] \in ClusterSizes
    /\ s[i].cluster >= 2 /\ Proposal(s, i, j)[2] > 0

(* A proposal counts the pairs that have its first directory.  When the     *)
(* type of the file system is known (`wanted` is not 0), a proposal that    *)
(* makes it another one is not heard.  The set holds one pair, or none.     *)
Solutions(s, size, wanted) ==
    LET pairs == {p \in (DOMAIN s) \X (DOMAIN s) : Proposes(s, p[1], p[2])}
        said(p) == Proposal(s, p[1], p[2])
        earlier(p, q) == p[1] < q[1] \/ (p[1] = q[1] /\ p[2] < q[2])
        firsts == {p \in pairs : \A q \in pairs :
                      said(q) = said(p) => p = q \/ earlier(p, q)}
        heard == {p \in firsts :
                    wanted \in {0, no_of_cluster2part_type((size - said(p)[2]) \div said(p)[1])}}
        ballot(p) == {j \in DOMAIN s :
                         Proposes(s, p[1], j) /\ Proposal(s, p[1], j) = said(p)}
    IN  {p \in heard : \A q \in heard :
            \/ Cardinality(ballot(q)) < Cardinality(ballot(p))
            \/ Cardinality(ballot(q)) = Cardinality(ballot(p)) /\ (p = q \/ earlier(p, q))}

=============================================================================
