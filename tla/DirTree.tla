------------------------------- MODULE DirTree ------------------------------
(***************************************************************************)
(* Listing and copying the files of a partition (dirpart.c, dir.c,         *)
(* dirn.c): dir_whole_partition_log and dir_whole_partition_copy walk the  *)
(* whole tree, the screen of dir_aff_ncurses lets the user walk through it *)
(* and copies what is selected (copy_dir, copy_selection).  A file is      *)
(* copied cluster by cluster by the reader of its file system.             *)
(*                                                                         *)
(* `phase` is                                                              *)
(*   start    dir_partition before it knows the file system                *)
(*   to log, to copy, log, copy   the functions of dir.c                   *)
(*   browse   the screen waits for a key                                   *)
(*   select   copying what was selected                                    *)
(*   closed   dir_partition has returned                                   *)
(* What is written of a file is the sequence of clusters it was read from, *)
(* 0 for the zeros of a buffer nothing was read into.  A path with ".." in *)
(* it is taken as it is written.                                           *)
(***************************************************************************)
EXTENDS Volumes, TLC

CONSTANTS
    Seeds,          \* names of the volumes there may be
    VolumeOf(_),    \* the volume of a name
    Commands(_),    \* what TestDisk may be told to do with one
    Rooms,          \* how many clusters may fit on the destination
    MaxDirNbr,      \* MAX_DIR_NBR, 256 in the code
    MaxPath,        \* sizeof(current_directory), 1024 in the code
    LongName,       \* length of a name that begins with "L", others are 1
    Needles,        \* what the user may ask the filter for
    MaxKeys         \* keys pressed, at most

ASSUME LimitsAssumption ==
    {MaxDirNbr, MaxPath, LongName, MaxKeys} \subseteq Nat /\ Rooms \subseteq Nat

(* vol.files says what the volume holds (see FilesOf): the entry of a file  *)
(* gives its size and where it begins.                                      *)
Described(v) ==
    /\ v.last \in Nat
    /\ \A f \in v.files :
          /\ f.clusters \in Seq(2..v.last)
          /\ f.entry.size = Len(f.clusters)
          /\ IF dir_partition_init(v) \in Chained
             THEN f.clusters # <<>> => f.entry.ino = f.clusters[1]
             ELSE v.blocks[f.entry.ino] = f.clusters

ASSUME VolumesAssumption == \A s \in Seeds : Described(VolumeOf(s))

VARIABLES
    phase, vol, cmd, reader,
    param,          \* dir_data->param: deleted files or streams are listed
    stack,          \* the calls of the walk: [ino, path, list, pos], and
                    \* for a selection, chosen: where its entries are
    known,          \* inode_known[0 .. dir_nbr - 1]
    copy,           \* the call of copy_file, or NoCopy
    local,          \* files written, by path: [entry, written, state]
    made,           \* directories made for them
    room, copyOk, copyBad,
    screens,        \* the calls of dir_partition_aux: [ino, path]
    list, pos, marks, status, \* what dir_aff_ncurses shows
    keys

walk == << stack, known, copy, local, made, room, copyOk, copyBad >>
screen == << param, screens, list, pos, marks, status, keys >>
vars == << phase, vol, cmd, reader, walk, screen >>

NoCopy == [path |-> <<>>]
Dots == {<< "." >>, << ".." >>}

Init ==
    /\ \E s \in Seeds : vol = VolumeOf(s) /\ cmd \in Commands(s)
    /\ phase = "start"
    /\ reader = "none" /\ param = FALSE
    /\ stack = <<>> /\ known = <<>> /\ copy = NoCopy
    /\ local = <<>> /\ made = {} /\ room \in Rooms /\ copyOk = 0 /\ copyBad = 0
    /\ screens = <<>> /\ list = <<>> /\ pos = 1 /\ marks = {} /\ status = TRUE
    /\ keys = 0

-----------------------------------------------------------------------------
(* Paths: current_directory, "/" when it is empty                           *)
NameLength(name) == IF name # <<>> /\ Head(name) = "L" THEN LongName ELSE 1
PathLength(path) ==
    IF path = <<>> THEN 1
    ELSE LET long == Cardinality({i \in DOMAIN path : NameLength(path[i]) # 1})
         IN  2 * (Len(path) - long) + (1 + LongName) * long
Fits(path, name) == PathLength(path) + 1 + NameLength(name) < MaxPath - 1
Below(path, name) == Append(path, name)

Parents(path) == {SubSeq(path, 1, n) : n \in 1..(Len(path) - 1)}

(* fopen_local makes the directories a file needs; it fails where a file is *)
(* a directory, or a directory a file, there.                               *)
CanCreate(path) ==
    /\ path # <<>> => Last(path) # <<>>
    /\ path \notin made \cup {<<>>}
    /\ Parents(path) \cap DOMAIN local = {}

-----------------------------------------------------------------------------
(* The walk                                                                 *)
Frame(ino, path) ==
    [ino |-> ino, path |-> path, list |-> get_dir(reader, vol, ino, param),
     pos |-> 1, chosen |-> <<>>]

(* copy_selection, and the key 'c' for one entry: its loop                  *)
Chosen(places) ==
    [ino |-> 0, path |-> Last(screens).path, pos |-> 1,
     list |-> [i \in DOMAIN places |-> list[places[i]]], chosen |-> places]

Walking == phase \in {"log", "copy", "select"} /\ copy = NoCopy /\ stack # <<>>
Top == Last(stack)
Current == Top.list[Top.pos]
Selecting == phase = "select" /\ Len(stack) = 1
At(kinds) == Walking /\ Top.pos <= Len(Top.list) /\ Current.kind \in kinds

Moved == [stack EXCEPT ![Len(stack)].pos = @ + 1]
PathHere ==
    IF Selecting /\ Current.name = << "." >> THEN Top.path
    ELSE Below(Top.path, Current.name)

(* is_inode_valid, and the same in copy_dir; what is selected is not looked *)
(* at.                                                                      *)
is_inode_valid ==
    \/ Selecting
    \/ /\ Current.ino >= 2
       /\ Current.name # << ".." >>
       /\ phase = "select" => Current.name # << "." >>
       /\ Current.ino \notin Range(known)

Unchanged == UNCHANGED << vol, cmd, reader >>

(* A subdirectory; the functions of dir.c return at once when they are too  *)
(* deep.                                                                    *)
TooDeep == phase # "select" /\ Len(known) = MaxDirNbr

EnterDirectory ==
    /\ At({"dir"}) /\ Fits(Top.path, Current.name) /\ is_inode_valid /\ ~TooDeep
    /\ stack' = Append(Moved, Frame(Current.ino, PathHere))
    /\ known' = Append(known, Current.ino)
    /\ made' = IF phase = "select" /\ CanCreate(PathHere)
               THEN made \cup {PathHere} \cup Parents(PathHere) ELSE made
    /\ Unchanged
    /\ UNCHANGED << phase, copy, local, room, copyOk, copyBad, screen >>

SkipEntry ==
    /\ At({"dir", "file", "other"})
    /\ \/ Current.kind = "other"
       \/ ~Fits(Top.path, Current.name)
       \/ Current.kind = "dir" /\ (~is_inode_valid \/ TooDeep)
       \/ Current.kind = "file" /\ phase = "log"
    /\ stack' = Moved
    /\ Unchanged
    /\ UNCHANGED << phase, known, copy, local, made, room, copyOk, copyBad, screen >>

(* What the code does when a walk is over                                   *)
AfterWalk ==
    CASE phase = "log" -> IF cmd.filecopy THEN "to copy" ELSE "closed"
      [] phase = "copy" -> "closed"
      [] phase = "select" -> "browse"

LeaveDirectory ==
    /\ Walking /\ Top.pos > Len(Top.list)
    /\ stack' = Front(stack)
    /\ known' = IF Selecting THEN known ELSE Front(known)
    /\ phase' = IF Len(stack) = 1 THEN AfterWalk ELSE phase
    /\ Unchanged
    /\ UNCHANGED << copy, local, made, room, copyOk, copyBad, screen >>

(* copy_file() begins.  In copy_dir the user may ask for a stop: the file   *)
(* is still copied.                                                         *)
StartFile ==
    /\ At({"file"}) /\ phase # "log" /\ Fits(Top.path, Current.name)
    /\ CanCreate(PathHere)
    /\ \E stop \in IF phase = "select" /\ ~Selecting THEN BOOLEAN ELSE {FALSE} :
          copy' = [path |-> PathHere, cluster |-> Current.ino, left |-> Current.size,
                   first |-> Current.ino, method |-> "follow", buffer |-> 0, at |-> 1,
                   error |-> FALSE, stop |-> stop]
    /\ local' = [p \in DOMAIN local \cup {PathHere} |->
                    IF p = PathHere THEN [entry |-> Current, written |-> <<>>, state |-> "open"]
                    ELSE local[p]]
    /\ made' = made \cup Parents(PathHere)
    /\ Unchanged
    /\ UNCHANGED << phase, stack, known, room, copyOk, copyBad, screen >>

CannotCreate ==
    /\ At({"file"}) /\ phase # "log" /\ Fits(Top.path, Current.name)
    /\ ~CanCreate(PathHere)
    /\ copyBad' = copyBad + 1
    /\ stack' = Moved
    /\ Unchanged
    /\ UNCHANGED << phase, known, copy, local, made, room, copyOk, screen >>

\* mutant: only the innermost copy_dir takes its directory out
UnwoundOnce == Front(known)

(* Every call of copy_dir returns 1 and takes its directory from            *)
(* inode_known.                                                             *)
Unwound == SubSeq(known, 1, Len(known) - (Len(stack) - 1))

(* Entries that were not reached stay marked. *)
StillMarked ==
    LET places == stack[1].chosen
    IN  marks \cup {places[i] : i \in {j \in DOMAIN places : j >= stack[1].pos}}

Finish(good) ==
    /\ copy' = NoCopy
    /\ local' = [local EXCEPT ![copy.path].state = IF good THEN "ok" ELSE "bad"]
    /\ IF good THEN copyOk' = copyOk + 1 /\ UNCHANGED copyBad
               ELSE copyBad' = copyBad + 1 /\ UNCHANGED copyOk
    /\ IF copy.stop
       THEN stack' = <<>> /\ known' = Unwound /\ phase' = "browse" /\ marks' = StillMarked
       ELSE stack' = Moved /\ UNCHANGED << known, phase, marks >>
    /\ UNCHANGED room

Write(data) ==
    /\ local' = [local EXCEPT ![copy.path].written = Append(@, data)]
    /\ room' = room - 1
    /\ UNCHANGED << phase, stack, known, copyOk, copyBad, marks >>

Copying == copy # NoCopy
Aside == Unchanged /\ UNCHANGED << made, param, screens, list, pos, status, keys >>

-----------------------------------------------------------------------------
(* fat_copy and exfat_copy                                                  *)
InVolume == copy.cluster \in 2..LastLinked(vol)
BufferRead == IF Readable(vol, copy.cluster) THEN copy.cluster ELSE copy.buffer

(* How the next cluster is found: once the table is not believed, never     *)
(* again.                                                                   *)
Method ==
    LET next == get_next_cluster(vol, copy.cluster)
    IN  IF copy.method # "follow" \/ IsLink(vol, next) THEN copy.method
        ELSE IF copy.cluster = copy.first /\ next = 0 THEN "free" ELSE "next"

NextCluster ==
    CASE Method = "follow" -> get_next_cluster(vol, copy.cluster)
      [] Method = "free" -> NextFree(vol, copy.cluster)
      [] Method = "next" -> copy.cluster + 1

CopyCluster ==
    /\ Copying /\ reader \in Chained /\ copy.left > 0 /\ InVolume
    /\ IF room = 0
       THEN Finish(FALSE)
       ELSE /\ Write(BufferRead)
            /\ copy' = [copy EXCEPT !.buffer = BufferRead, !.left = @ - 1,
                                    !.cluster = IF copy.left > 1 THEN NextCluster ELSE @,
                                    !.method = IF copy.left > 1 THEN Method ELSE @]
    /\ Aside

CopyReturns ==
    /\ Copying /\ reader \in Chained /\ (InVolume => copy.left = 0)
    /\ Finish(TRUE)
    /\ Aside

-----------------------------------------------------------------------------
(* ntfs_copy: whatever happens it returns 0.                                *)
Blocks == vol.blocks[copy.first]

CopyNtfs ==
    /\ Copying /\ reader = "ntfs"
    /\ IF copy.at > Len(Blocks) \/ room = 0
       THEN Finish(TRUE)
       ELSE IF ~Readable(vol, Blocks[copy.at])
       THEN Finish(TRUE)
       ELSE Write(Blocks[copy.at]) /\ copy' = [copy EXCEPT !.at = @ + 1]
    /\ Aside

(* ext2_copy: an error of a read ends it, one of a write does not; both are *)
(* reported.                                                                *)
CopyExt2 ==
    /\ Copying /\ reader = "ext2"
    /\ IF copy.at > Len(Blocks)
       THEN Finish(~copy.error)
       ELSE IF ~Readable(vol, Blocks[copy.at])
       THEN Finish(FALSE)
       ELSE IF room = 0
       THEN /\ copy' = [copy EXCEPT !.at = @ + 1, !.error = TRUE]
            /\ UNCHANGED << phase, stack, known, local, room, copyOk, copyBad, marks >>
       ELSE Write(Blocks[copy.at]) /\ copy' = [copy EXCEPT !.at = @ + 1]
    /\ Aside

-----------------------------------------------------------------------------
(* The screen of a directory: it is read again whenever it is shown.        *)
Show(all, deleted) ==
    /\ screens' = all
    /\ list' = get_dir(reader', vol, Last(all).ino, deleted)
    /\ pos' = 1 /\ marks' = {} /\ status' = TRUE /\ param' = deleted

(* dir_partition: the reader, and what the command asks for                 *)
Open ==
    /\ phase = "start"
    /\ reader' = dir_partition_init(vol)
    /\ UNCHANGED << vol, cmd, keys, walk >>
    /\ IF reader' \in {"EIO", "ENOIMP"}
       THEN phase' = "closed" /\ UNCHANGED << param, screens, list, pos, marks, status >>
       ELSE IF cmd.keys
       THEN /\ phase' = "browse"
            /\ Show(<< [ino |-> RootInode(reader'), path |-> <<>>] >>, ShowsAll(reader'))
       ELSE /\ phase' = CASE cmd.recursive -> "to log"
                         [] ~cmd.recursive /\ cmd.filecopy -> "to copy"
                         [] OTHER -> "closed"
            /\ param' = ShowsAll(reader')
            /\ UNCHANGED << screens, list, pos, marks, status >>

(* dir_whole_partition_log, then dir_whole_partition_copy                   *)
Begin ==
    /\ phase \in {"to log", "to copy"}
    /\ phase' = IF phase = "to log" THEN "log" ELSE "copy"
    /\ stack' = << Frame(RootInode(reader), <<>>) >>
    /\ known' = << RootInode(reader) >>
    /\ Unchanged
    /\ UNCHANGED << copy, local, made, room, copyOk, copyBad, screen >>

Key ==
    /\ phase = "browse" /\ keys < MaxKeys
    /\ keys' = keys + 1
    /\ UNCHANGED << vol, cmd, reader >>

Stay == UNCHANGED << phase, walk, param, screens, list >>

(* Arrows, pages and the search for a name                                  *)
MoveCursor ==
    /\ Key /\ Stay /\ UNCHANGED << marks, status >>
    /\ \E p \in DOMAIN list : p # pos /\ pos' = p

Toggled(set, i) == IF i \in set THEN set \ {i} ELSE set \cup {i}

(* ':' *)
MarkOne ==
    /\ Key /\ Stay /\ list # <<>> /\ UNCHANGED status
    /\ marks' = IF list[pos].name \in Dots THEN marks ELSE Toggled(marks, pos)
    /\ pos' = IF pos < Len(list) THEN pos + 1 ELSE pos

(* 'a' *)
MarkAll ==
    /\ Key /\ Stay /\ list # <<>> /\ UNCHANGED pos
    /\ marks' = IF status THEN {i \in DOMAIN list : list[i].name \notin Dots} ELSE {}
    /\ status' = ~status

(* 'F': dots are marked as well. *)
MarkMatching ==
    /\ Key /\ Stay /\ list # <<>> /\ UNCHANGED pos
    /\ \E needle \in Needles :
          LET matching == {i \in DOMAIN list : needle \in Range(list[i].name)}
          IN  marks' = (marks \ matching) \cup (matching \ marks)
    /\ status' = ~status

(* 'h' *)
ToggleDeleted ==
    /\ Key /\ reader # "reiser"
    /\ Show(screens, ~param)
    /\ UNCHANGED << phase, walk >>

(* Return from dir_partition_aux: the caller ignores the result, so that    *)
(* 'q' leaves one directory, as the left arrow does.                        *)
Back ==
    /\ Key /\ Len(screens) > 1
    /\ Show(Front(screens), param)
    /\ UNCHANGED << phase, walk >>

Quit ==
    /\ Key /\ Len(screens) = 1
    /\ phase' = "closed"
    /\ UNCHANGED << walk, param, screens, list, pos, marks, status >>

(* Enter on a directory.  ".." is Back, and so is an entry with inode 1,     *)
(* which dir_partition_aux takes for that answer: at the root it is Quit.    *)
Change ==
    /\ Key /\ list # <<>>
    /\ LET e == list[pos]
           here == Last(screens)
       IN  /\ e.kind = "dir" /\ e.ino \notin {here.ino, 1} /\ e.name \notin Dots
           /\ PathLength(here.path) + 1 + NameLength(e.name) + 1 <= MaxPath
           /\ Show(IF \/ e.ino = 0 \/ \E i \in DOMAIN screens : screens[i].ino = e.ino
                      \/ Len(screens) = MaxDirNbr
                   THEN screens
                   ELSE Append(screens, [ino |-> e.ino, path |-> Below(here.path, e.name)]),
                   param)
    /\ UNCHANGED << phase, walk >>

Select(places) ==
    /\ phase' = "select"
    /\ stack' = << Chosen(places) >>
    /\ UNCHANGED << known, copy, local, made, room, copyOk, copyBad >>
    /\ UNCHANGED << param, screens, list, pos, status >>

(* 'c' *)
CopyCurrent ==
    /\ Key /\ list # <<>>
    /\ list[pos].name # << ".." >> /\ Fits(Last(screens).path, list[pos].name)
    /\ Select(<< pos >>)
    /\ UNCHANGED marks

(* 'C': a mark is taken away when its entry is copied. *)
CopySelection ==
    /\ Key /\ list # <<>>
    /\ LET fitting == {i \in marks : Fits(Last(screens).path, list[i].name)}
       IN  /\ fitting # {}
           /\ Select(SetToSortSeq(fitting, <))
           /\ marks' = marks \ fitting

-----------------------------------------------------------------------------
Next ==
    \/ Open \/ Begin
    \/ EnterDirectory \/ SkipEntry \/ LeaveDirectory \/ StartFile \/ CannotCreate
    \/ CopyCluster \/ CopyReturns \/ CopyNtfs \/ CopyExt2
    \/ MoveCursor \/ MarkOne \/ MarkAll \/ MarkMatching \/ ToggleDeleted
    \/ Back \/ Quit \/ Change \/ CopyCurrent \/ CopySelection

Spec == Init /\ [][Next]_vars

-----------------------------------------------------------------------------
(* The files of a volume as its file system has them: vol.files is a set of *)
(* [path, entry, clusters, dirs], the last two without what is damaged, and *)
(* dirs the clusters of every directory on the path.                        *)
FilesOf(e) == {f \in vol.files : f.entry = e}

Linked(seq) ==
    \A i \in 1..(Len(seq) - 1) : get_next_cluster(vol, seq[i]) = seq[i + 1]
Intact(seq) ==
    /\ Range(seq) \cap vol.bad = {}
    /\ reader \in Chained => Linked(seq)

(* exFAT's last cluster is not read, and the rest of a directory in one     *)
(* piece, which has no links, is not found.                                 *)
LastOfExfat(seq) == reader = "exfat" /\ vol.last \in Range(seq)

FreeClusters == {c \in 2..vol.last : get_next_cluster(vol, c) = 0}

(* A file without links: the free clusters behind the first one were its.   *)
TakenAsFree(f) ==
    LET c == f.clusters
    IN  \A i \in 1..(Len(c) - 1) :
            c[i + 1] = Min({x \in FreeClusters : x > c[i]} \cup {vol.last + 1})

(* Whether the clusters can be known at all                                 *)
Recoverable(f) ==
    /\ Range(f.clusters) \cap vol.bad = {}
    /\ reader \in Chained =>
           \/ f.clusters = <<>>
           \/ ~f.entry.deleted /\ Linked(f.clusters)
           \/ /\ get_next_cluster(vol, f.clusters[1]) = 0
              /\ TakenAsFree(f)
              /\ Len(f.clusters) > 1 => Range(f.clusters) \subseteq FreeClusters
    /\ reader = "ntfs" => room > 0
    /\ ~LastOfExfat(f.clusters)

(* A file that is counted as copied holds what the file had, if its         *)
(* clusters can be read and known: linked, or, for a deleted file, the      *)
(* next free ones.  (fat_copy returns 0 after errors of reads and at the    *)
(* end of the volume, ntfs_copy after every error: see Recoverable.)        *)
CopiedFileIsWhole ==
    \A p \in DOMAIN local : local[p].state = "ok" =>
        \A f \in FilesOf(local[p].entry) :
            Recoverable(f) => local[p].written = f.clusters

(* How a file may be missed by dir_whole_partition_copy: its directory is   *)
(* damaged or larger than what is read of one, its path is too long or too  *)
(* deep, or another entry has the same name.                                *)
Missed(f) ==
    \/ \E i \in DOMAIN f.dirs :
          \/ ~Intact(f.dirs[i]) \/ LastOfExfat(f.dirs[i])
          \/ Len(f.dirs[i]) > MaxDirClusters
          \/ /\ reader = "ntfs"
             /\ \E s \in Range(vol.slots[f.dirs[i][1]]) : s.unreadable
    \/ \E i \in DOMAIN f.path : ~Fits(SubSeq(f.path, 1, i - 1), f.path[i])
    \/ Len(f.path) > MaxDirNbr
    \/ \E g \in vol.files : g # f /\ g.path = f.path

(* When a whole partition has been copied, every file of it has been        *)
(* written under its own path, whatever loops the directories form and      *)
(* whatever is damaged elsewhere.                                           *)
WholeTreeCopied ==
    phase = "closed" /\ cmd.filecopy /\ reader \notin {"EIO", "ENOIMP"} =>
        \A f \in vol.files :
            \/ f.entry.deleted \/ Missed(f)
            \/ f.path \in DOMAIN local /\ local[f.path].entry = f.entry

(* inode_known, which is static, holds the directories from the root to the *)
(* one being walked, each once, and is empty when nothing is: also after    *)
(* the user stopped a copy in the middle of a tree.                         *)
KnownIsThePath ==
    LET dirs == IF phase = "select" THEN Tail(stack) ELSE stack
    IN  /\ known = [i \in DOMAIN dirs |-> dirs[i].ino]
        /\ IsInjective(known)
        /\ phase \notin {"log", "copy", "select"} => known = <<>>
=============================================================================
