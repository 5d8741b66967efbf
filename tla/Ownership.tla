----------------------------- MODULE Ownership -----------------------------
(***************************************************************************)
(* What the carver promises about the blocks of a partition, whatever the  *)
(* lists it keeps them in: a block is free, held by the file being         *)
(* recovered, saved in a recovered file, or (low memory) forgotten.        *)
(*                                                                         *)
(* Free blocks are taken for a file; held blocks go back, or all that are  *)
(* left are saved at once as one file; a saved block stays saved, and a forgotten   *)
(* one is never seen again.  Carver implements this specification.         *)
(***************************************************************************)
EXTENDS Naturals

CONSTANT Disk       \* the blocks of the partition

VARIABLE owner      \* who has each block

States == {"free", "held", "saved", "forgotten"}

(* Some blocks change hands, all of them from `from` to `to`.              *)
Moves(old, new, from, to) ==
    /\ new \in [Disk -> States]
    /\ \A b \in Disk : new[b] # old[b] => old[b] = from /\ new[b] = to

Init == owner = [b \in Disk |-> "free"]

Take == Moves(owner, owner', "free", "held")

GiveBack == Moves(owner, owner', "held", "free")

(* All held blocks are saved, as one file.                                 *)
Save ==
    /\ Moves(owner, owner', "held", "saved")
    /\ \A b \in Disk : owner'[b] # "held"

Forget == Moves(owner, owner', "free", "forgotten")

Next == Take \/ GiveBack \/ Save \/ Forget

Spec == Init /\ [][Next]_owner

=============================================================================
