------------------------------ MODULE Advanced ------------------------------
(***************************************************************************)
(* The menu for partitions (adv.c): "List" shows the files of a partition, *)
(* "Undelete" the deleted files of an NTFS one, and lists the others.      *)
(* DirTree models the list, NtfsUndelete the undeletion, of as many NTFS   *)
(* partitions as are chosen one after the other.  The boot sector read in  *)
(* place of a damaged one (io_redir_add_redir) is what the volumes have.   *)
(***************************************************************************)
EXTENDS DirTree

CONSTANTS Sessions, Orders(_), Space, ClusterSize, PerRead, PerSection, Filters, Sizes, MaxPressed

ASSUME UnitsAssumption == {ClusterSize, PerRead, PerSection} \subseteq Nat \ {0}

VARIABLES
    tool,    \* "none" before a choice, then "dir" or "ntfs"
    volumes, volume, command, mode, next, found, cursor, queue, part,
    percents, out, free, copied, failed, cached, inherited, pressed

undelete == << volumes, volume, command, mode, next, found, cursor, queue, part,
               percents, out, free, copied, failed, cached, inherited, pressed >>

U == INSTANCE NtfsUndelete
NotChosen == INSTANCE NtfsUndelete WITH Sessions <- {<<>>}

AdvInit ==
    /\ Init /\ NotChosen!Init
    /\ tool = "none"

adv_menu_list_selected ==
    /\ tool = "none" /\ ~cmd.undelete
    /\ tool' = "dir"
    /\ UNCHANGED << vars, undelete >>

adv_menu_undelete_selected ==
    /\ tool = "none" /\ cmd.undelete
    /\ IF vol.upart = "ntfs" \/ (vol.ptype = "ntfs" /\ vol.upart # "exfat")
       THEN tool' = "ntfs" /\ volumes' \in Sessions
       ELSE tool' = "dir" /\ UNCHANGED volumes
    /\ UNCHANGED << vars, volume, command, mode, next, found, cursor, queue, part,
                    percents, out, free, copied, failed, cached, inherited, pressed >>

DirStep  == tool = "dir" /\ UNCHANGED << tool, undelete >>
NtfsStep == tool = "ntfs" /\ UNCHANGED << tool, vars >>

AdvNext ==
    \/ adv_menu_list_selected \/ adv_menu_undelete_selected
    \/ Open /\ DirStep
    \/ Begin /\ DirStep
    \/ EnterDirectory /\ DirStep
    \/ SkipEntry /\ DirStep
    \/ LeaveDirectory /\ DirStep
    \/ StartFile /\ DirStep
    \/ CannotCreate /\ DirStep
    \/ CopyCluster /\ DirStep
    \/ CopyReturns /\ DirStep
    \/ CopyNtfs /\ DirStep
    \/ CopyExt2 /\ DirStep
    \/ MoveCursor /\ DirStep
    \/ MarkOne /\ DirStep
    \/ MarkAll /\ DirStep
    \/ MarkMatching /\ DirStep
    \/ ToggleDeleted /\ DirStep
    \/ Back /\ DirStep
    \/ Quit /\ DirStep
    \/ Change /\ DirStep
    \/ CopyCurrent /\ DirStep
    \/ CopySelection /\ DirStep
    \/ U!Choose /\ NtfsStep
    \/ U!SkipRecord /\ NtfsStep
    \/ U!ReadRecord /\ NtfsStep
    \/ U!EndScan /\ NtfsStep
    \/ U!NothingFound /\ NtfsStep
    \/ U!BeginFile /\ NtfsStep
    \/ U!WriteStream /\ NtfsStep
    \/ U!EndFile /\ NtfsStep
    \/ U!MoveCursor /\ NtfsStep
    \/ U!MarkAll /\ NtfsStep
    \/ U!MarkOne /\ NtfsStep
    \/ U!FilterNames /\ NtfsStep
    \/ U!FilterSizes /\ NtfsStep
    \/ U!ShowEverything /\ NtfsStep
    \/ U!CopyCurrent /\ NtfsStep
    \/ U!CopyMarked /\ NtfsStep
    \/ U!Quit /\ NtfsStep

AdvSpec == AdvInit /\ [][AdvNext]_<< tool, vars, undelete >>

-----------------------------------------------------------------------------
(* What undelete_file writes is the file (NtfsUndelete says where not).     *)
UndeletedIsWhole == tool = "ntfs" => U!UndeletedIsWhole

(* scan_disk finds, and undelete_file writes, every deleted file that can   *)
(* be undeleted (NtfsUndelete says which cannot).                           *)
EveryDeletedFileCopied == tool = "ntfs" => U!EveryDeletedFileCopied
=============================================================================
