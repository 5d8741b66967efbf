---------------------------- MODULE NtfsUndelete ----------------------------
(***************************************************************************)
(* Undeleting the files of an NTFS volume (ntfs_udl.c, ntfs_utl.c):        *)
(* scan_disk lists every record that $MFT's bitmap has as free and some of *)
(* whose clusters are free, a menu or the command line chooses among them, *)
(* and undelete_file writes every stream of a record to a file.            *)
(*                                                                         *)
(* A volume is a record                                                    *)
(*   opens    whether the library opens it                                 *)
(*   records  the records of $MFT, the first is number 0                   *)
(*   chunks   how much is read of each piece of $MFT's bitmap, or -1       *)
(*   used     clusters that are in use by $Bitmap                          *)
(*   unknown  sections of $Bitmap that cannot be read                      *)
(*   last     its last cluster                                             *)
(*   bad      clusters that cannot be read                                 *)
(* a record of $MFT [free, readable, inUse, directory, names, streams], a  *)
(* name [space, name, parent, born], and a stream [name, resident, raw,    *)
(* runs, data, alloc, init], where raw is a compressed or encrypted one,   *)
(* runs is a sequence of [lcn, length], and the last three are its sizes.  *)
(* A record that is torn is one that cannot be read.  The date of a file   *)
(* and the length of its path are left out.                                *)
(***************************************************************************)
EXTENDS Integers, Sequences, FiniteSetsExt, SequencesExt, TLC

CONSTANTS
    Sessions,       \* sequences of volumes that are undeleted in one run
    Orders(_),      \* "none" for the menu, "allundelete", or another one,
                    \* by volume
    Space,          \* how many bytes may fit on the destination
    ClusterSize,    \* cluster_size, in bytes
    PerRead,        \* records in a piece of $MFT's bitmap, 8 * BUFSIZE
    PerSection,     \* clusters in a section of $Bitmap, 4096 in the code
    Filters, Sizes, \* what the filters are asked for
    MaxPressed      \* keys pressed in the menu of a volume, at most

VARIABLES
    volumes,        \* volumes that may still be chosen
    volume, command,
    mode,           \* "adv", "scan", "menu", "one", "marked" and "all" while
                    \* files are written, "endless" for a loop without end
    next,           \* the record that is scanned next
    found,          \* dir_list: [ino, path, size, marked, hidden]
    cursor,         \* current_file, 0 for the head of the list
    queue, part,    \* entries to undelete, stream of the first of them
    percents,       \* data->percent of its streams
    out,            \* files written, by path
    free,           \* bytes that still fit
    copied, failed,
    cached,         \* the section of $Bitmap in the static buffer
    inherited,      \* what was in it when the volume was opened
    pressed

vars == << volumes, volume, command, mode, next, found, cursor, queue, part,
           percents, out, free, copied, failed, cached, inherited, pressed >>

NotMapped == -2     \* LCN_RL_NOT_MAPPED
Hole == -1          \* LCN_HOLE
Dot == 0            \* the name of the root directory
None == -1

Records(v) == 0..(Len(v.records) - 1)
RecordOf(v, ino) == v.records[ino + 1]

-----------------------------------------------------------------------------
(* verify_parent, get_parent_name: the name of a directory is the one in    *)
(* the name space asked for, or in the lowest; one that is younger than the *)
(* file is not its parent.                                                  *)
LowestOf(names) ==
    names[CHOOSE i \in DOMAIN names : \A j \in DOMAIN names :
              names[i].space < names[j].space \/ (names[i].space = names[j].space /\ i <= j)]
IsParent(v, n, ino) ==
    /\ ino \in Records(v)
    /\ LET r == RecordOf(v, ino)
       IN  r.readable /\ r.directory /\ r.names # <<>> /\ r.names[1].born <= n.born
NameOfParent(v, n, ino) ==
    LET names == RecordOf(v, ino).names
        same == SelectInSeq(names, LAMBDA m : m.space = n.space)
    IN  IF same # 0 THEN names[same] ELSE LowestOf(names)

(* The records looked at, one by one up to one that is its own parent, or   *)
(* that is no parent; the number of a record is compared, not its sequence. *)
Ancestry(v, n) ==
    LET at[k \in 0..Len(v.records)] ==
            IF k = 0 THEN n.parent
            ELSE LET p == at[k - 1]
                 IN  IF p = None THEN None
                     ELSE IF ~IsParent(v, n, p) THEN None
                     ELSE IF NameOfParent(v, n, p).parent = p THEN None
                     ELSE NameOfParent(v, n, p).parent
    IN  at
Endless(v, n) == IsParent(v, n, Ancestry(v, n)[Len(v.records)])
Directory(v, n) ==
    LET up == Ancestry(v, n)
        name(k) == IF IsParent(v, n, up[k]) THEN NameOfParent(v, n, up[k]).name ELSE Dot
        names == [i \in 1..(Len(v.records) + 1) |-> name(Len(v.records) + 1 - i)]
    IN  SelectSeq(names, LAMBDA x : x # Dot)

(* get_filenames, create_pathname: the name in the lowest name space, or    *)
(* one made of the number of the record; a stream adds its own.             *)
Path(v, ino, d) ==
    LET names == RecordOf(v, ino).names
        streamed(name) == 10 * name + d.name
        dirs == Directory(v, LowestOf(names))
    IN  IF names = <<>> THEN << streamed(90 + ino) >>
        ELSE Append([i \in DOMAIN dirs |-> 10 * dirs[i]], streamed(LowestOf(names).name))

-----------------------------------------------------------------------------
(* utils_cluster_in_use: what cannot be read of $Bitmap counts as in use,   *)
(* as does what is behind the volume.                                       *)
SectionOf(c) == c \div PerSection
Bits(v, s) ==
    {c \in (s * PerSection)..((s + 1) * PerSection - 1) :
        c \in v.used \/ c > v.last \/ s \in v.unknown}

Mapped(d) == SelectSeq(d.runs, LAMBDA r : r.lcn >= 0)
ClustersOf(r) == [i \in 1..r.length |-> r.lcn + i - 1]
Clusters(d) ==
    LET mapped == Mapped(d) IN FlattenSeq([i \in DOMAIN mapped |-> ClustersOf(mapped[i])])
LengthOf(d, kinds) ==
    FoldSeq(LAMBDA r, n : IF r.lcn \in kinds THEN n + r.length ELSE n, 0, d.runs)

(* The buffer is static: the clusters of the section it holds are looked up *)
(* in it, whichever volume it was read from, until another one is needed.   *)
Stale(d, cache) ==
    LET c == Clusters(d)
        other == SelectInSeq(c, LAMBDA x : SectionOf(x) # cache.section)
    IN  IF other = 0 THEN DOMAIN c ELSE 1..(other - 1)
InUse(v, d, cache) ==
    LET c == Clusters(d)
        stale == Stale(d, cache)
    IN  {i \in DOMAIN c : c[i] \in IF i \in stale THEN cache.bits ELSE Bits(v, SectionOf(c[i]))}
Looked(v, d, cache) ==
    LET c == Clusters(d)
    IN  IF Stale(d, cache) = DOMAIN c THEN cache
        ELSE [section |-> SectionOf(Last(c)), bits |-> Bits(v, SectionOf(Last(c)))]

\* mutant: data in the record itself is not counted
PercentOfRuns(v, d, cache) ==
    IF d.raw \/ d.resident \/ d.runs = <<>> THEN 0
    ELSE LET inUse == LengthOf(d, {NotMapped}) + Cardinality(InUse(v, d, cache))
             all == LengthOf(d, {NotMapped, Hole}) + Len(Clusters(d))
         IN  ((all - inUse) * 100) \div all

(* calc_percentage of one stream, and of all of them in turn                *)
Percent(v, d, cache) ==
    CASE d.raw -> 0
      [] ~d.raw /\ d.resident -> 100
      [] ~d.raw /\ ~d.resident /\ d.runs = <<>> -> 0
      [] OTHER ->
             LET inUse == LengthOf(d, {NotMapped}) + Cardinality(InUse(v, d, cache))
                 all == LengthOf(d, {NotMapped, Hole}) + Len(Clusters(d))
             IN  ((all - inUse) * 100) \div all
calc_percentage(v, ino, cache) ==
    LET r == RecordOf(v, ino)
        skips(d) == d.raw \/ d.resident
        read[i \in 0..Len(r.streams)] ==
            IF i = 0 THEN [percents |-> <<>>, cache |-> cache]
            ELSE LET d == r.streams[i]
                     before == read[i - 1]
                 IN  [percents |-> Append(before.percents, Percent(v, d, before.cache)),
                      cache |-> IF skips(d) THEN before.cache ELSE Looked(v, d, before.cache)]
    IN  IF r.directory THEN [percents |-> << 0 >>, cache |-> cache] ELSE read[Len(r.streams)]
Best(percentages) == Max(Range(percentages) \cup {0})

-----------------------------------------------------------------------------
(* scan_disk                                                                *)
Entries(v, ino) ==
    LET streams == RecordOf(v, ino).streams
    IN  [i \in DOMAIN streams |->
            [ino |-> ino, path |-> Path(v, ino, streams[i]), marked |-> FALSE, hidden |-> FALSE,
             size |-> Max({streams[i].init, streams[i].data})]]

(* filesort: by name                                                        *)
Before(a, b) ==
    \E i \in DOMAIN b.path :
        /\ \A j \in 1..(i - 1) : j \in DOMAIN a.path /\ a.path[j] = b.path[j]
        /\ i \in DOMAIN a.path => a.path[i] < b.path[i]

NoVolume == [opens |-> FALSE]
NothingCached == [section |-> None, bits |-> {}]

Init ==
    /\ volumes \in Sessions
    /\ mode = "adv" /\ volume = NoVolume /\ command = "none"
    /\ next = 0 /\ found = <<>> /\ cursor = 0 /\ queue = <<>> /\ part = 0 /\ percents = <<>>
    /\ out = <<>> /\ free = 0 /\ copied = 0 /\ failed = 0 /\ pressed = 0
    /\ cached = NothingCached /\ inherited = NothingCached

(* ntfs_undelete_part                                                       *)
Choose ==
    /\ mode = "adv" /\ volumes # <<>>
    /\ volume' = Head(volumes) /\ volumes' = Tail(volumes)
    /\ command' \in Orders(Head(volumes))
    /\ mode' = IF Head(volumes).opens THEN "scan" ELSE "adv"
    /\ next' = 0 /\ found' = <<>> /\ cursor' = 0 /\ out' = <<>> /\ free' \in Space
    /\ copied' = 0 /\ failed' = 0 /\ pressed' = 0 /\ inherited' = cached
    /\ UNCHANGED << queue, part, percents, cached >>

Chunk == volume.chunks[next \div PerRead + 1]
Scanning == mode = "scan" /\ next \in Records(volume) /\ Chunk >= 0
Menu == UNCHANGED << volumes, volume, command, out, free, copied, failed, inherited >>
Scan == Menu /\ UNCHANGED << cursor, queue, part, percents, pressed >>

Listed == /\ next % PerRead < Chunk
          /\ RecordOf(volume, next).free /\ RecordOf(volume, next).readable

SkipRecord ==
    /\ Scanning /\ ~Listed
    /\ next' = next + 1
    /\ Scan /\ UNCHANGED << mode, found, cached >>

ReadRecord ==
    /\ Scanning /\ Listed
    /\ LET names == RecordOf(volume, next).names
           p == calc_percentage(volume, next, cached)
       IN  IF \E i \in DOMAIN names : Endless(volume, names[i])
           THEN mode' = "endless" /\ UNCHANGED << next, found, cached >>
           ELSE /\ next' = next + 1 /\ cached' = p.cache
                /\ found' = IF Best(p.percents) > 0 THEN found \o Entries(volume, next) ELSE found
                /\ UNCHANGED mode
    /\ Scan

(* The list is sorted, then shown, or the command line is followed.         *)
EndScan ==
    /\ mode = "scan" /\ ~Scanning
    /\ found' = SortSeq(found, Before)
    /\ cursor' = IF found = <<>> THEN 0 ELSE 1
    /\ mode' = CASE command = "none" -> "menu" [] command = "allundelete" -> "all" [] OTHER -> "adv"
    /\ queue' = IF command = "allundelete" THEN [i \in DOMAIN found |-> i] ELSE <<>>
    /\ Menu /\ UNCHANGED << next, part, percents, cached, pressed >>

-----------------------------------------------------------------------------
(* undelete_file                                                            *)
Writing == mode \in {"one", "marked", "all"} /\ queue # <<>>
Ino == found[Head(queue)].ino
Streams == RecordOf(volume, Ino).streams
Copy == UNCHANGED << volumes, volume, command, next, cursor, inherited, pressed >>

(* The caller counts, and takes the mark of what was chosen by marks.       *)
Returned(good) ==
    /\ queue' = Tail(queue) /\ part' = 0 /\ percents' = <<>>
    /\ IF good THEN copied' = copied + 1 /\ UNCHANGED failed
               ELSE failed' = failed + 1 /\ UNCHANGED copied
    /\ found' = IF good /\ mode = "marked" THEN [found EXCEPT ![Head(queue)].marked = FALSE] ELSE found
    /\ mode' = CASE Len(queue) > 1 -> mode
                 [] Len(queue) = 1 /\ mode = "all" -> "adv"
                 [] OTHER -> "menu"

NothingFound ==
    /\ mode = "all" /\ queue = <<>>
    /\ mode' = "adv"
    /\ Copy /\ UNCHANGED << found, queue, part, percents, out, free, copied, failed, cached >>

BeginFile ==
    /\ Writing /\ part = 0
    /\ IF RecordOf(volume, Ino).inUse
       THEN Returned(FALSE) /\ UNCHANGED cached
       ELSE LET p == calc_percentage(volume, Ino, cached)
            IN  /\ cached' = p.cache
                /\ IF Best(p.percents) = 0 THEN Returned(FALSE)
                   ELSE part' = 1 /\ percents' = p.percents
                        /\ UNCHANGED << queue, copied, failed, found, mode >>
    /\ Copy /\ UNCHANGED << out, free >>

(* What is written of a stream: a segment missing at its start is written   *)
(* twice.                                                                   *)
Zeros(n) == [i \in 1..n |-> 0]
PiecesWithoutHoles(d) ==    \* mutant: nothing is written for a hole
    (IF d.runs # <<>> /\ d.runs[1].lcn = NotMapped THEN Zeros(d.runs[1].length) ELSE <<>>)
    \o FlattenSeq([i \in DOMAIN d.runs |->
           CASE d.runs[i].lcn = NotMapped -> Zeros(d.runs[i].length)
             [] d.runs[i].lcn = Hole -> <<>>
             [] OTHER -> ClustersOf(d.runs[i])])
Pieces(d) ==
    (IF d.runs # <<>> /\ d.runs[1].lcn = NotMapped THEN Zeros(d.runs[1].length) ELSE <<>>)
    \o FlattenSeq([i \in DOMAIN d.runs |->
           IF d.runs[i].lcn \in {NotMapped, Hole} THEN Zeros(d.runs[i].length)
           ELSE ClustersOf(d.runs[i])])

(* The size is only set when it agrees with the clusters that were counted, *)
(* which holes are not.                                                     *)
Truncates(d, percent) ==
    /\ percent = 100 /\ d.alloc >= d.data /\ d.alloc - d.data <= ClusterSize
    /\ (LengthOf(d, {NotMapped}) + Len(Clusters(d))) * ClusterSize = d.alloc

(* write_data writes again when it wrote too little; an error of the first  *)
(* write is an unsigned -1, and is taken for a success.                     *)
Written(pieces, size, room) ==
    LET bad == SelectInSeq(pieces, LAMBDA c : c > 0 /\ (c \in volume.bad \/ c > volume.last))
        readable == IF bad = 0 THEN Len(pieces) ELSE bad - 1
        fitting == IF size = 0 THEN readable ELSE Min({readable, room \div size})
        short == fitting < readable /\ room % size # 0
    IN  [data |-> SubSeq(pieces, 1, fitting),
         bytes |-> IF short THEN room ELSE fitting * size,
         lost |-> fitting < readable,
         good |-> ~short /\ bad = 0]

(* open_file makes the directories that are missing; it fails where a       *)
(* directory is in the way of a file, or a file of a directory.             *)
CanOpen(path) ==
    \A q \in DOMAIN out : ~IsStrictPrefix(q, path) /\ ~IsStrictPrefix(path, q)
Freed(path) == IF path \in DOMAIN out THEN out[path].taken ELSE 0

WriteStream ==
    /\ Writing /\ part \in DOMAIN Streams
    /\ LET d == Streams[part]
           path == Path(volume, Ino, d)
           pieces == IF d.resident THEN << 0 >> ELSE Pieces(d)
           w == Written(pieces, IF d.resident THEN d.data ELSE ClusterSize, free + Freed(path))
           cut == w.good /\ ~d.resident /\ Truncates(d, percents[part])
           bytes == IF cut THEN d.data ELSE w.bytes
           taken == Min({bytes, w.bytes})
       IN  IF ~d.resident /\ d.runs = <<>>
           THEN part' = part + 1
                /\ UNCHANGED << queue, percents, copied, failed, found, mode, out, free >>
           ELSE IF ~CanOpen(path)
           THEN Returned(FALSE) /\ UNCHANGED << out, free >>
           ELSE /\ out' = (path :> [ino |-> Ino, part |-> part, data |-> w.data, bytes |-> bytes, taken |-> taken,
                                    lost |-> w.lost, good |-> w.good]) @@ out
                /\ free' = free + Freed(path) - taken
                /\ IF w.good
                   THEN part' = part + 1
                        /\ UNCHANGED << queue, percents, copied, failed, found, mode >>
                   ELSE Returned(FALSE)
    /\ Copy /\ UNCHANGED cached

EndFile ==
    /\ Writing /\ part > Len(Streams)
    /\ Returned(TRUE)
    /\ Copy /\ UNCHANGED << out, free, cached >>

-----------------------------------------------------------------------------
(* ntfs_undelete_menu_ncurses                                               *)
Key ==
    /\ mode = "menu" /\ pressed < MaxPressed
    /\ pressed' = pressed + 1
    /\ Menu /\ UNCHANGED << next, part, percents, cached >>
Shown(list) == {i \in DOMAIN list : ~list[i].hidden}
FirstShown(list) == IF Shown(list) = {} THEN 0 ELSE Min(Shown(list))
Stay == UNCHANGED << mode, queue >>

MoveCursor ==
    /\ Key /\ Stay /\ UNCHANGED found
    /\ \E p \in Shown(found) : p # cursor /\ cursor' = p

(* 'a' *)
MarkAll ==
    /\ Key /\ Stay /\ UNCHANGED cursor
    /\ cursor # 0
    /\ found' = [i \in DOMAIN found |->
                    IF i \in Shown(found) THEN [found[i] EXCEPT !.marked = ~found[cursor].marked]
                    ELSE found[i]]

(* ':' *)
MarkOne ==
    /\ Key /\ Stay
    /\ cursor # 0
    /\ found' = [found EXCEPT ![cursor].marked = ~@]
    /\ LET after == {i \in Shown(found) : i > cursor}
       IN  cursor' = IF after = {} THEN cursor ELSE Min(after)

Hide(entries) ==
    /\ found' = [i \in DOMAIN found |->
                    IF i \in entries THEN [found[i] EXCEPT !.hidden = TRUE] ELSE found[i]]
    /\ cursor' = FirstShown(found')

(* 'f' and 's' *)
FilterNames ==
    /\ Key /\ Stay
    /\ \E needle \in Filters :
          Hide({i \in DOMAIN found : needle \notin Range(found[i].path)})
FilterSizes ==
    /\ Key /\ Stay
    /\ \E size \in Sizes : Hide({i \in DOMAIN found : found[i].size < size})

(* 'r' *)
ShowEverything ==
    /\ Key /\ Stay
    /\ found' = [i \in DOMAIN found |-> [found[i] EXCEPT !.hidden = FALSE]]
    /\ cursor' = FirstShown(found')

(* 'c' *)
CopyCurrent ==
    /\ Key /\ UNCHANGED << found, cursor >>
    /\ cursor # 0
    /\ mode' = "one" /\ queue' = << cursor >>

(* 'C': also what is marked and no longer shown                             *)
CopyMarked ==
    /\ Key /\ UNCHANGED << found, cursor >>
    /\ mode' = "marked"
    /\ queue' = SelectSeq([i \in DOMAIN found |-> i], LAMBDA i : found[i].marked)
    /\ queue' # <<>>

Quit ==
    /\ Key /\ UNCHANGED << found, cursor, queue >>
    /\ mode' = "adv"

Next ==
    \/ Choose \/ SkipRecord \/ ReadRecord \/ EndScan \/ NothingFound
    \/ BeginFile \/ WriteStream \/ EndFile
    \/ MoveCursor \/ MarkAll \/ MarkOne \/ FilterNames \/ FilterSizes
    \/ ShowEverything \/ CopyCurrent \/ CopyMarked \/ Quit

Spec == Init /\ [][Next]_vars

-----------------------------------------------------------------------------
StreamOf(f) == RecordOf(volume, f.ino).streams[f.part]
Contents(d) ==
    IF d.resident THEN << 0 >>
    ELSE FlattenSeq([i \in DOMAIN d.runs |->
             IF d.runs[i].lcn < 0 THEN Zeros(d.runs[i].length) ELSE ClustersOf(d.runs[i])])

(* A stream whose start is in another record of $MFT *)
Headless(d) == d.runs # <<>> /\ d.runs[1].lcn = NotMapped

(* A stream that was written without an error has every cluster of it in    *)
(* its place, with zeros for the holes, and is at least as long as it was;  *)
(* exactly as long when its clusters were all free and it had no holes.     *)
(* (Not so where the destination was full before a write began, and where   *)
(* its start is missing.)                                                   *)
Consistent(d) ==
    /\ LengthOf(d, {NotMapped, Hole}) = 0
    /\ d.alloc = Len(Clusters(d)) * ClusterSize
    /\ d.data <= d.alloc /\ d.alloc - d.data <= ClusterSize
AllFree(d) ==
    \A c \in Range(Clusters(d)) : c \notin Bits(volume, SectionOf(c)) \cup inherited.bits

UndeletedIsWhole ==
    \A p \in DOMAIN out :
        LET f == out[p]
            d == StreamOf(f)
        IN  f.good /\ ~f.lost /\ ~Headless(d) =>
            /\ f.data = Contents(d)
            /\ d.resident \/ d.data <= Len(f.data) * ClusterSize => f.bytes >= d.data
            /\ Consistent(d) /\ AllFree(d) /\ ~d.raw => f.bytes = d.data

(* Why a deleted file may be missed *)
Hidden(ino) ==
    LET chunk == volume.chunks[ino \div PerRead + 1] IN
    \/ chunk <= ino % PerRead
    \/ \E k \in 1..(ino \div PerRead) : volume.chunks[k] < 0
InheritedBits(ino) ==
    /\ inherited # NothingCached
    /\ \E i \in DOMAIN RecordOf(volume, ino).streams :
           \E c \in Range(Clusters(RecordOf(volume, ino).streams[i])) :
               SectionOf(c) = inherited.section
Promising(d) ==
    /\ ~d.raw
    /\ d.resident \/ LET lost == {i \in DOMAIN Clusters(d) :
                                   Clusters(d)[i] \in Bits(volume, SectionOf(Clusters(d)[i]))}
                          all == LengthOf(d, {NotMapped, Hole}) + Len(Clusters(d))
                      IN  100 * (LengthOf(d, {Hole}) + Len(Clusters(d)) - Cardinality(lost)) >= all
                          /\ all > 0
Hopeless(ino) == \A i \in DOMAIN RecordOf(volume, ino).streams :
                     ~Promising(RecordOf(volume, ino).streams[i])
SharesPath(ino, d) ==
    \E other \in Records(volume) \ {ino} :
        \E i \in DOMAIN RecordOf(volume, other).streams :
            LET path == Path(volume, other, RecordOf(volume, other).streams[i])
            IN  IsPrefix(path, Path(volume, ino, d)) \/ IsPrefix(Path(volume, ino, d), path)

(* After the command allundelete every record of a deleted file that can be *)
(* read, is not marked as in use and has 1 % of free clusters is undeleted:  *)
(* all its streams are there, up to the first one that cannot be written.   *)
(* (Not so where the bitmap of $MFT cannot be read, where another file has  *)
(* the same path, and where the bitmap of the volume undeleted before was   *)
(* still in the buffer.)                                                    *)
EveryDeletedFileCopied ==
    mode = "adv" /\ volume.opens /\ command = "allundelete" =>
        \A ino \in Records(volume) :
            LET r == RecordOf(volume, ino) IN
            \/ ~r.free \/ ~r.readable \/ r.inUse \/ r.directory
            \/ Hidden(ino) \/ Hopeless(ino) \/ InheritedBits(ino)
            \/ \A i \in DOMAIN r.streams :
                  LET path == Path(volume, ino, r.streams[i]) IN
                  \/ ~r.streams[i].resident /\ r.streams[i].runs = <<>>
                  \/ SharesPath(ino, r.streams[i])
                  \/ path \in DOMAIN out /\ out[path].ino = ino
                  \/ \E j \in 1..(i - 1) :
                        LET before == Path(volume, ino, r.streams[j]) IN
                        IF before \in DOMAIN out THEN ~out[before].good
                        ELSE SharesPath(ino, r.streams[j])
=============================================================================
