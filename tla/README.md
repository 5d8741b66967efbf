# A verification project for RecoveRx

RecoveRx is PhotoRec as a library: a graphical interface loads `photodll.cpp`, calls
`startRevocer` from a worker thread, polls `getInformation` and may call `stopRecover`
at any time. The library carves files out of a disk: it walks over every block that no
known file owns, recognises headers, copies what follows to an output file, and gives
back what turned out not to belong to it. The same tree builds TestDisk, which finds and
rewrites partition tables and copies files out of damaged file systems.

There is no design document in the sources; the code and its comments are the reference.
Everything here is translated from it, and `PROJECT.json` ("map") names the lines behind
each definition.

1 the system, 2 the modules, 3 the runs, 4 fairness, 5 what is proved, 6 findings, 7
what the models show of the code, 8 what is not modelled and the plan.

## 1. The system

| Component | Code | State | Operations |
|---|---|---|---|
| Library interface | `photodll.cpp` | `mStopRecovrey`, `isFinish`, progress texts | `startRevocer`, `stopRecover`, `getInformation` |
| Recovery driver | `phrecn.c`, `photorec.c` `status_inc`, `params_reset` | `params` (status, offset, blocksize, pass), `ind_stop` | the loop over the passes, what is done with each result |
| Session file | `sessionp.c` | `RecoveRx.ses` | `session_save`, `regular_session_save`, `session_load` |
| Search space | `photorec.c`, `filegen.c`, `pnext.h` | the circular list of free ranges, `current_search_space`, `offset` | walk, cut a block out, give blocks back, forget, go back |
| Preparation | `photorec.c`, `phbs.c`, `file_found.c`, `fatp.c`, `exfatp.c`, `ntfsp.c`, `ext2p.c`, `ext2grp.c` | the same list in bytes, blocksize, start offset | `init_search_space`, `remove_used_space`, `del_search_space`, `photorec_find_blocksize`, `update_blocksize` |
| Carving pass | `psearchn.c`, `photorec_check_header.h`, `photorec.c` `file_finish2`, `file_recovery_aborted` | the file in progress and its fragments, read buffer, `back`, `offset_before_back`, `offset_skipped_header` | one iteration per block |
| Format checkers | some 330 `file_*.c`, `filegen.c` | `calculated_file_size`, `min_filesize`, `file_size` of the file in progress | `header_check`, `data_check`, `file_check` |
| Brute force pass | `phbf.c` | a file with gaps to be guessed | `photorec_bf`, `photorec_bf_aux` |
| FAT unformat pass | `fat_unformat.c`, `fat_cluster.c` | cluster size and place | copies files of lost directories |
| Disk cache | `hdcache.c` over `hdaccess.c` | ring of buffers, error count | `cache_pread`, `cache_pwrite` |
| File system detection | `godmode.c`, `next.c`, `analyse.c`, one source a file system | the place searched, hints, the list of partitions | `search_part`, `search_location_update` |
| Partition tables | `parti386.c`, `partgpt*.c`, `partsun.c`, `partmac.c`, `partxbox.c`, `parthumax.c`, `partauto.c`, `intrfn.c` | list of partitions, sectors of the table | propose, edit, test, write |
| File system readers | `dirpart.c`, `dir.c`, `dirn.c`, `fat_dir.c`, `exfat_dir.c`, `ntfs_dir.c`, `ext2_dir.c` | inodes known on the way, position in a listing | list, copy a file, a tree or a selection |
| NTFS undelete | `ntfs_udl.c`, `ntfs_utl.c`, `adv.c` | list of deleted files, static bitmap buffer | scan, mark, undelete |
| FAT repair, NTFS repair, other menus | `fat_adv.c`, `ntfs_adv.c`, ... | | not reached by the library, not modelled |

How they interact. The interface calls the driver through two shared integers without a
lock. The driver calls one pass after the other on one search space and saves a session
after each. A pass owns the search space while it runs, cuts blocks out of it for the
file in progress, and gives them back when the file is rejected, truncated or aborted.
The checkers are callbacks. All reads go through the cache. Two things outlive a run:
`RecoveRx.ses` and the output files. TestDisk runs its steps one after the other:
detection fills a list of partitions, the table code turns it into sectors, and the
readers work on one partition of it.

What is hard to get right, and hard to test:

* one cursor (`current_search_space`, `offset`) and one list are changed by a dozen
  functions, four of which free the cell the cursor is at;
* the pass jumps back after every file, to rejected and to ignored headers, and has to
  end all the same;
* a file may end in five ways (next header, data end, size limit, end of media, error),
  each of which returns its blocks in a different order;
* each format decides by its own arithmetic, on half overlapping blocks, where a file
  ends, and an error of one byte loses a file or takes blocks of the next one;
* `mStopRecovrey` is set at any moment and looked at in a few places only;
* errors of the destination come in the middle of a file, and the session must describe
  a state from which the recovery can go on;
* blocks are derived from the headers found, and rounding ranges to blocks must not lose
  one;
* the tables of a file system are read in pieces, any of which may fail, while a run of
  used clusters is open;
* a partition table is many sectors that depend on each other, and the process may end
  between any two of them.

The hazards with their lines are in `PROJECT.json`, each with the properties that would
notice.

## 2. Modules

| Module | What it is | Code |
|---|---|---|
| `SearchSpace` | operators on the list of ranges and the cursor, in blocks | `photorec.c`, `filegen.c`, `pnext.h` |
| `Carver` | state machine of one carving pass | `psearchn.c`, `photorec_check_header.h`, `photorec.c` |
| `Ownership` | abstract specification of a pass: who owns each block | what `Carver` promises |
| `Formats`, `PlainFormats`, `SizedFormats`, `ChunkFormats`, `MixedFormats`, `FileList` | one definition for each `file_*.c`: what its checks set and compare | `file_*.c`, `file_list.c` |
| `FileRecovery`, `MCFormats` | one file of a format, block by block, through its checks | `photorec.c`, `filegen.c`, the checks of `file_*.c` |
| `PhotoRec` | the life of a call of the library, the loop over the passes, the session | `photodll.cpp`, `phrecn.c`, `sessionp.c` |
| `SpaceEdits` | the search space in bytes | `photorec.c`, `pnext.h` |
| `UsedSpace` | what a file system says is in use | `fatp.c`, `exfatp.c`, `ntfsp.c`, `ext2p.c`, `ext2grp.c` |
| `Preparation`, `MCPreparation` | from the partition to the list a pass starts with | `photorec.c`, `phbs.c`, `file_found.c`, `phcli.c` |
| `DiskCache` | the cache over a disk whose sectors may fail | `hdcache.c`, `hdaccess.c` |
| `BruteForce` | the pass for fragmented files, over `SearchSpace` | `phbf.c` |
| `ClusterSize` | cluster size and place from the directories met | `fat_cluster.c` |
| `FatUnformat`, `MCFatUnformat` | the unformat pass, over `ClusterSize` and `SpaceEdits` | `fat_unformat.c` |
| `FileSystems` | the superblocks that are looked for, and where | one source a file system |
| `PartitionList` | the list of partitions in order | `fnctdsk.c` |
| `Detection`, `MCDetection` | the search for partitions | `godmode.c`, `next.c`, `partnone.c` |
| `PartTable`, `PartI386`, `PartGpt`, `Tables`, `MCTables` | proposing, editing, checking and writing partition tables | `part*.c`, `intrfn.c`, `godmode.c` |
| `Volumes`, `DirTree` | readers of file systems, and the functions that list and copy | `*_dir.c`, `dirpart.c`, `dir.c`, `dirn.c` |
| `NtfsUndelete`, `NtfsVolumes` | the undeletion and the volumes it is checked on | `ntfs_udl.c`, `ntfs_utl.c` |
| `Advanced`, `MCAdvanced` | the menu that composes `DirTree` and `NtfsUndelete` | `adv.c` |
| `SearchSpaceProofs`, `CarverProofs`, `PreparationProofs`, `BruteForceProofs`, `FileRecoveryProofs`, `PhotoRecProofs`, `AdvancedProofs`, `DiskCacheProofs` | theorems, see 5 | |

**SearchSpace.** A range is `[start, end, stat]` in block numbers, `stat` being the kind
of file whose header was rejected at its start. The circular `td_list` is a sequence,
its dummy head index 0. Every function of the code is an operator on the record `[list,
cur, offset]`: `get_next_sector` is `GetNextSector`, `file_block_remove_from_sp` is
`RemoveBlock` (its four cases `CutFirst`, `FreeCell`, `CutLast`, `CutMiddle`),
`file_block_truncate_aux` is `GiveBack`, `file_block_truncate_zero_aux` is
`GiveBackHeader`, `forget` is `Forget`, `get_prev_file_header` is `PrevFileHeader` and
`get_prev_location_smart` is `PrevLocationSmart`.

**Carver.** `pc` cuts the loop body of `photorec_aux` where it decides; the module
header lists the places. `file_finish2` gives back one fragment per step, so that a stop
may come between any two. `headers` is the content of the disk. The checkers answer
anything they may: a file goes on, ends or fails after each block, its final size is
anything up to what was gathered, a header inside a file may be passed over or ignored.
`LargestFile` is how many blocks of a file the destination can hold before a write fails
with `EFBIG`; any write may fail with `ENOSPC`. `bufAt` is the block whose bytes the
buffer holds, and `written`, of the file in progress and of each one saved, the pairs of
a block of the file and the block whose bytes were written for it: the two differ when
the position was moved and the buffer was not. `visited` and `forgotten` are ghosts.

**Formats and FileRecovery** look inside the checkers that `Carver` leaves open. A
record of `Formats` is what the header check of a format hands over
(`calculated_file_size`, `min_filesize`, the two callbacks) and the few numbers its
`data_check` and `file_check` compare with. The formats that share a way of counting
share a check: `FileRecovery` has one clause for each way, `Formats` one record for each
of the 332 entries of `file_list.c`. A file is its size, where its chunks start and its
end marks end, where the next file begins, and after how many blocks it is torn. The two
halves of the buffer, the block itself and the block in front of it, are what the
arithmetic of a `data_check` is about, and are kept. What is longer than the buffer
shows of it at the end of a block is in `long`, the length of such a chunk header, and
`cut` says what the format does there: `data_check_mov` waits for the rest of a 64 bit
header and `data_check_wv` for the next block, `data_check_gif` loses the chain,
`data_check_fits` reads the cards it has, `data_check_mp3` stops at lyrics whose end it
does not see. `bare` are FITS headers without data, `strays` the places a misread length
may lead to. At a descriptor that is lost `check` becomes "astray": what follows reads
bytes that are no lengths, and may come out anywhere behind them.

**PhotoRec.** `worker` is where the thread is; a pass is one step with every result the
code can give it. `Carver` justifies what the carving step may do: that an error leaves
a resume offset and something to carve, and that a stop is noticed while something is
left. `session_save` may fail at `fopen` or at any write after the file was emptied, and
`Kill` ends the process at any point, in the middle of a save if one is under way.
`startRevocer` always names a device, so the library never calls `session_load`; the
session is for another program, or a later one.

**Preparation** is on the scale of bytes, because rounding is about them: `Sector` bytes
are a sector. The space is the whole partition or the groups of an ext2 file system the
user asks for; `UsedSpace` walks over the table of a file system, of which any piece may
be unreadable. `Astray` are the clusters whose state comes from such a piece, or, with
exFAT, from a further piece of the bitmap, which `exfatp.c:97` looks for at a place in
bytes where `get_next_cluster` takes sectors: they may be met as used or as free
(`stray`). `SpaceEdits` follows `update_search_space_aux` case by case. The walk of
`photorec_find_blocksize` may be stopped at any sector; then the blocksize is halved
until it fits and the ranges are rounded. The last state is an initial state of
`Carver`.

**DiskCache** has buffers of versions of sectors. A device read fails as a whole
(Windows) or ends at the first bad sector (POSIX), and clears what it could not read;
sectors may fail or recover between calls. The recursion of `cache_pread_aux` is that of
the code.

**BruteForce** has two kinds of checkers. The first answers anything, on up to
`AnyBlocks` blocks, and is for what must hold whatever a checker says; the second knows
one fragmented file and answers precisely, and is for the question whether the guessing
finds it. At `pc = "broken"` the code has used a freed cell, taken a block that is not
in the search space, or forgotten the blocks of a file; nothing is claimed of what
follows.

**FatUnformat** finds the cluster size by the statistics of `ClusterSize` and then walks
over the partition in buffers of `Buffer` bytes. Directories and files may lie anywhere,
and pieces of the search space may be missing.

**Detection** is the search over a disk of superblocks and copies of them; a superblock
is its place, its size and whether it is good. An "EBR" is a sector with an entry for a
logical partition: `recover_i386_logical` makes that entry the partition, moves the place
where the tests that follow look, and returns what it found or nothing. HFS and HFS+ are
recovered from two sectors before their end, NTFS from one. Hints for other geometries
are `Guesses`, those for the last cylinders come from the size of the disk. What is found
goes into `PartitionList`.
**Tables** takes such a list through the proposed structure, the edits of the user, the
check, the extended partition and the writing, sector by sector, with a crash between
any two. `autodetect_arch` tries "none" first, and keeps it where a file system of the
whole disk is found: by its boot sector, whose code the writing of a table keeps, or by a
superblock the table does not overwrite.

**DirTree** has the walk of `dir.c` over a whole volume and the screen of `dirn.c`, over
chains of clusters that may loop, end too early or be unreadable. **NtfsUndelete** has
the scan, the list and the copy of streams made of runs, holes and missing segments.
**Advanced** chooses between them (`tool`) and lets volumes be undeleted one after
another, because one buffer survives the volume.

## 3. Runs

Every bound is a CONSTANT. Ten runs pass, two are expected violations.

| Run | Question | Bounds |
|---|---|---|
| `carver` | Is a pass consistent under every placement of headers, marks of `file_found`, ignored headers, `ENOSPC`, `EFBIG`, a failing `fopen`, ext2 indirect blocks, size limits, unwritten kinds, low memory and a stop at any time? Does it implement `Ownership` and end? | 3 blocks, 2 kinds, `back` up to 1, `LargestFile` 1, `MaxFileSize` 2, `forget` keeps 1 range |
| `formats` | Is a whole file kept whole and a torn one cut or rejected, for every format? | blocks of 512 bytes, whole files up to `MaxSpan` blocks, `Wrap` 0 |
| `driver` | Two calls with any condition: passes, session, stop, kill | 2 calls, 1 kill |
| `prepare` | From the partition to whole blocks | 6 sectors of 2 bytes, blocks up to 4 sectors, clusters of 1 or 2, 3 headers |
| `cache` | Freshness and read-ahead | 4 sectors, 2 buffers, 1 write, 1 change of the medium |
| `brute` | Is nothing lost, and is a fragmented file found? | 6 blocks (3 free ones when checkers say anything), a file of up to 5 blocks, write errors with up to 2 free blocks |
| `unformat` | Are the files copied whole and exactly their extents removed? | 20 sectors, 3 subdirectories, clusters of 2 sectors at 2 or 5 sectors |
| `detection` | Is everything found that the tests can find, from one source, and does the search move on? | 17 sectors, heads of 5 sectors, 1 or 2 superblocks, 6 hints |
| `tables` | Is what is proposed valid, does it read back as written, what is left of a torn table? | 67 sectors of 3 a track and 6 a cylinder, 2 edits, up to 9 logical partitions |
| `dirs` | Are files copied whole, trees completely, deleted files undeleted? | clusters 2 to 8, 3 clusters a directory, 10 NTFS records, 2 keys a volume |
| `carver_stop` | violation, see 6 | 3 blocks |
| `carver_ignored` | violation, see 6 | 4 blocks |

Why these bounds are enough for the interesting cases.

* `carver`: with three blocks every case of cutting (first, only, last, middle) and of
  giving back (joined with the next, with the previous, inserted between, inserted at
  the tail) occurs, a rejected file lies before a recovered one, and with `MaxBack` = 1
  the bound on jumps bites. The proofs of section 5 are for any number of blocks.
* `formats`: the chunks of `MCFormats` are as short as the format allows, end just
  before, at and just behind the end of a block, or start there; marks the same. Another
  file starts behind the last block, one or two blocks later, or inside. `Wrap` is what
  a negative distance, added as a 32 bit unsigned number, comes to: 0 where `size_t` has
  32 bits as well, as in the mingw build of the library, and 2^32 otherwise.
* `prepare`: blocks of 1, 2 and 4 sectors are chosen, partitions start on and off a
  block boundary, every set of clusters is in use, and the third header ends the walk.
* `cache`: two buffers are reused after three reads, and reads span two of them.
* `brute`: patience 1 and 2 make the search give up before and after what it is looking
  for; `Window` 1 makes it miss what lies further on.
* `unformat`: clusters that lie on and off a sector multiple, buffers of six sectors, so
  that directories lie on both sides of a refill, partitions at four places.
* `detection`: every superblock and every copy at every place, in pairs, so that one may
  cover, hide or double the other; the last sector of the search cannot be read.
* `tables`: partitions at the start of the disk, on its first track, on cylinders and
  behind them, on megabytes, with and without a gap between them, and one that ends
  behind the disk.
* `dirs`: three clusters are enough for a directory whose chain loops to its middle; the
  piece of a bitmap is 4 records or clusters, so that every volume needs several.

What the properties say:

* `Conservation` (carver, brute): each block is in exactly one of the search space, the
  file in progress, one recovered file, or (low memory) forgotten, and the list is in
  order. `OwnershipSpec` is the same as a refinement: blocks change hands only as
  `Ownership` allows, a saved block stays saved.
* `EveryBlockLookedAt`: a pass that ran to its end has examined all that it left over.
* `KeptIsWritten`: a saved file holds, for every block of data it was recovered with,
  the bytes of this block, unless `EFBIG` came between. The first block of a file may
  hold those of another header where headers are ignored (`HasBytes`).
* `AbortUndone`: after an error the file is undone and the resume offset is searchable.
* `Termination`: the jumps back come to an end.
* `WholeFileKept`: a file that is on the disk from its first to its last byte is kept
  with that size, and none of the next file with it. `TornFile`: one whose end is
  missing is rejected or ends with a whole chunk. `StopsInTime`: no block is taken
  behind the one that shows the end. `ChainNeverLost`: where the next chunk is expected
  is in the buffer or behind it, never in front of it. The losses of the code are named
  in the property, see 7. All but `TornFile` are about files that `data_check` reads
  right (`ReadRight`): `LosingFile` and `MisreadFile` describe the others by the file
  alone, and `TornFile` bounds what is kept of them as well.
* `PassesFollowPlan`: a run does the passes its options ask for, in order, once.
  `SessionMatchesRun`, `ErrorKeepsOffset`, `StopIsNoticed`: what `RecoveRx.ses` says
  when a run is over. `FinishedIsIdle`, `RunEnds`: what the interface may conclude from
  `isFinish`, and that a run ends.
* `OnlyUsedLeaves`: exactly what is in use leaves the search space, but for clusters
  whose state was not read where it is (`Doubtful`), which may go or stay. `PreparedInBlocks`: the carving passes begin with ranges in order, in
  whole blocks. `RoundingKeepsBlocks`: rounding loses no whole block and no header.
* `ReadsAreFresh`, `ReadAheadIsHarmless`: a full read returns the present content; a bad
  sector behind those asked for does no harm.
* `MarksKept`: a header that was rejected and is still free can still be found: a marked
  range starts with it. `GapsAreBridged`: a file whose blocks are in order and in no
  other file is recovered. `WalkEnds`: the walk goes back by a range, or less is left to
  search.
* `SpaceKeepsTheRest`, `CopiedIsWhole`, `EveryListingRead`: the unformat pass removes
  exactly what it copied, copies whole files, and reads every listing it should.
* `OneSource`, `NothingMissed`, `ConfirmedByCheck`: a partition found is described by
  one superblock alone, every good superblock leads to one, with the exceptions of 7, and `check_*` agrees with
  `recover_*`.
* `ProposalIsValid`, `TablesBesidePartitions`, `RoundTrip`, `TornTable`: a proposed
  structure overlaps nowhere, no sector of a table lies in a partition, what is written
  is read back, and after a crash every partition that is read is one of the old or of
  the new table, and a GPT is all of one of them.
* `CopiedFileIsWhole`, `WholeTreeCopied`, `KnownIsThePath`: a copy counted as good is
  the file, a tree is copied but for what cannot be read, and the inodes held against
  loops are those of the path. `UndeletedIsWhole`, `EveryDeletedFileCopied`: the same
  for NTFS.

Each property has a mutant of the code, kept beside the definition it changes and marked
as such, that the run refutes. `CHECK_DEADLOCK FALSE` is in the cfgs because a pass, a
run, a session at the screen and a series of requests end.

## 4. Fairness

`Carver`: weak fairness of `Pass`, all steps of `photorec_aux` together. It runs in a
thread of its own, takes no lock and waits for nobody; no fairness is assumed of
`RequestStop`, nor of any particular answer of a checker. `PhotoRec`: weak fairness of
`Starting \/ Working`: the worker thread goes on and a pass ends, which `Termination`
shows for carving passes and is assumed of the other ones. None of `StopRecover`,
`Kill`, `CallStart` and `Checkpoint` is fair. No other run states a temporal property;
`WalkEnds` and `ReadAheadIsHarmless` are about steps.

## 5. What is proved

For every value of the constants that satisfies the named assumptions of the modules
(`BlocksAssumption`, `OptionsAssumption`, `StatsAssumption`, ...: numbers are natural,
sets of kinds are sets of the kinds there are). TLC evaluates each of these assumptions
in the runs.

**The search space.** `SearchSpaceProofs` assumes of a state of the list only what
`Space` says: a sequence of ranges in order, the cursor in it or at its head. For a list
of any length it proves what each operator does to the blocks and that `Space` is kept:
`RemoveBlockCorrect` (one block goes, no other), `GiveBackCorrect` and
`GiveBackHeaderCorrect` (exactly the blocks given back come, if none was there). The
lemmas say the same of the walks (they change no block), of `forget` and of the
fragments of a file. All operators come down to three changes of a list (a cell
replaced, inserted, removed), proved once in `ReplacedCell`, `InsertedCell` and
`RemovedCell`.

**A carving pass: no block is lost.** `CarverProofs` proves `ListStaysOrdered` and
`BlocksConserved` for any number of blocks, any headers and options, whatever the
checkers answer, whichever write fails and whenever the user stops. `Conservation` alone
is not inductive. `IInv` adds

* `Shape`: the list is a `Space`, and the fragments of the file in progress are apart
  from each other. Giving back one must not give back a block of another;
* `KeptInTruncate`: while `file_block_truncate` walks over the fragments, those kept and
  those still to be settled share no block, and at any other time none is kept;
* `OffsetIsFree`: from the look at a block to the moment it is taken nobody owns it,
  also while the *previous* file is finished because a header was found in it. Without
  it the block taken could belong to a recovered file: giving back blocks may join and
  move the cell the cursor is at, but never removes the block at the offset.

There is one lemma per action or group of actions that change the same variables
(`RejectFirstStep`, `TruncateStep`, `DataSteps`, ...), put together in `EveryStep`,
which also says that a step hands blocks over in one way only (`HandOver`).

The refinement is `CarverImplementsOwnership`: with `Conservation` before and
after a step, `HandOver` decides which step of `Ownership` it is. The refinement mapping
`Owner` is a CHOOSE over places; `OwnersOfPartition` shows it is the place a block is
in.

**Every block is looked at.** `EveryBlockLookedAt` is proved over `IInv`. The
property is about the end of a pass, the reason is a fact about each moment, `VisitInv`:

* `BufferFollows`, `LooksHere`, `TakenIsChecked`: the buffer begins where the position
  was when the loop body began, so what is looked at is the block that is taken;
* `SeenBehind`: every free block before the position has been looked at. A jump to an
  ignored header may leave the position beside the current range; then the start of that
  range has been looked at, and all before it (`BesideRange`);
* `SeenInFile`: so has all before the start of the last file and before the ignored
  header in it, which is where the jumps lead, and every block the file holds, for when
  they are given back;
* `EndIsSeen`: what these come to when the walk ends.

The same invariant gives `OffsetStaysInRange` and `FilesGetTheirBytes`: without ignored
headers, the check "BUG: offset=..." never fires and a file gets the bytes of its own
blocks. Run `carver_ignored` shows that the hypothesis is needed.

**What is kept was written.** `KeptBlocksAreWritten` is about `KeptIsWritten`, and has two
halves. The bytes: `BytesInv` says that the buffer holds the block at the position
whenever a block is written, unless headers are ignored and the block is the first of its
file (then it holds some header), and that each pair of `written` is of a block of the
file. It needs `VisitInv`, which knows when the buffer follows the position, and the
fragments of the file in order, so that its first block is its start. The holes: a write
that fails with `EFBIG` leaves one and the file goes on. `KeptInv` adds that the size of
the file in progress is that of its data (`SizeIsData`), that a new file is empty
(`NewIsEmpty`), and that a block of data that was not written has at least `LargestFile`
written blocks before it (`HolesAreLate`), in the file as it is and as it will be when
cut: cutting keeps a beginning, so it cannot bring a hole forward.

**An abort is undone.** `AbortIsUndone` is about `AbortUndone`. The property looks at the
return, the reason lies before it: `StartIsHeld` says that the first block of the file
in progress is one of its own, or the free block it is about to take (an `fwrite` of the
very first block may fail), and `ErrorIsUndone` that after an error only `file_finish2`
runs, which moves blocks between the file and the search space and so cannot lose that
block.

**The formats.** `FileRecoveryProofs` proves the four properties of `FileRecovery` for
blocks and files of any size, for every set of files that is well-formed (`WellFormed`:
chunks follow one another, marks lie in the file, a record's numbers are what the checks
that use them need). TLC evaluates the assumption over every format of the list and
every file of `MCFormats`. `FileInv` is `OuterInv`, for every file, and for those that
are read right (`ReadRight`) `RightInv`. `OuterInv` has the types, and what `TornFile`
needs of the end of a file that was read wrong. `NothingMisread` and `NothingLost` show
from the description of the file alone that one that is read right never comes to
`MisreadBlock` or `AstrayBlock`; `WrongFileKeeps` and `WrongEnd` are about the others.
`RightInv` says for each kind of `data_check`

* `Carried`: what `calculated_file_size` is before a block: the start of a chunk that is
  not out of reach, the distance to the next unit, the place of the last mark;
* `Stopped`: what it is after `DC_STOP`;
* `InBlocks`, `HeaderIsTheNextFile`: sizes are whole blocks, and a copy of a header
  inside a file (a thumbnail, a page, an appended volume) never ends it.

From it `ChainIsNeverLost` and `FilesStopInTime` follow, and by a case for each pair of
`data_check` and `file_check` `WholeFilesAreKept` and `TornFilesAreCut`. The last two
assume `SumsFit`: `size_t` has the width of `unsigned int`, or no format of the set uses
the search of `data_check_axp`. On a 64 bit `size_t` that `data_check` would lose its
file: the distance `i + 1 - buffer_size / 2` is computed as an unsigned number before it
is added.

**The driver.** `PhotoRecProofs`, for any number of calls and kills, from
`BoundsAssumption` only. Every safety property of the run is proved:

* `TypeCorrect`: `TypeOK` is inductive as it stands.
* `FinishedMeansIdle`: `isFinish` is set only together with the end of the worker, and
  reset before a pass begins.
* `SessionCorrect` and `ErrorIsResumable`, both from `SessionInv`. `SessionMatchesRun`
  is not inductive: it looks at the end of a run, and what makes it true happened
  several steps before. `SessionInv` adds what holds in between: at "decide" the last
  recorded pass is the one that ended with `ind_stop`, the saved session (if it could be
  saved) is that pass with the present offset, and a carving pass that failed on an
  error has its offset set; at "finish" the same holds of a run that failed, and no
  session is left of one that did not.
* `RunFollowsPlan`: `PlanInv` says that the passes so far and those `status_inc` has
  still to name are together the plan of the options, whatever the condition.
* `StopEndsTheRun`: `StopInv` follows a stop from the flag to the pass that notices it.

**The brute force pass.** `BruteForceProofs` proves its three properties but one for
disks of any size, calls of any depth and checkers that say anything, assuming only that
there is a kind of file. The pass cuts, extends, tries and undoes a file many times
over, so the invariant is large. `BfInv` is `BfHeld` (list and file in progress apart and
in order, five disjoint owners of a block: a file begins with its header, goes forward,
and its size counts its blocks, unless it is `spoilt` or `short`), `BfShape` (types),
`BfFile` (where a file is open and where it has blocks), `BfCalls` (what a call on the
stack of `photorec_bf_frag` remembers) and `BfPlace` (where the position is on a block,
and behind the file).

* `BruteForceConserves`: `Conservation` follows from `BfHeld`, which needs the others:
  a block is taken where `BfPlace` says the position is on one.
* `BruteForceWalkEnds`: `WalkInv` ties the flag that sends the walk forward to a file
  recovered since the range was opened.
* `BruteForceKeepsMarks`: `MarksInv` says at every moment where the mark of a rejected
  header is, in the list or as the start of the file in progress: undoing the file puts
  it back.

What a file loses or gains in a loop over its fragments is a recursive function there;
its values are known one by one from the value before (`CountUp`), by induction over a
set of numbers.

**Preparing the search space.** `PreparationProofs` proves the three properties of
`Preparation` for disks, partitions, clusters and tables of any size, under `[]GroupsApart`:
no two ranges the user chose overlap. `GroupsApart` is about the choice alone and fails
only when two inodes of one group are named (`SameGroup`); then the list holds the same
range twice, `update_search_space_aux` cuts one of the two, and the invariant below is
false. `OnlyUsedLeaves` and what `PreparedInBlocks` says of the order except that case
themselves; run `prepare` goes through it.

The operators come first, for a list of any length.

* `RemoveExtentCorrect`: `del_search_space` removes the bytes of an extent and no other,
  and keeps the ranges in order and their marks. `update_search_space_aux` calls itself
  on what sticks out of the range it met. The model has the results of all calls of a
  depth as one function of the call; `RemoveExtentCorrect` goes by induction over the
  length of the extent (`CountUp`, over a set of numbers), with a step for each branch,
  and shows that the depth in `RemoveExtent` is never exhausted.
* `WalkedCorrect`, `RemoveUsedCorrect`: after any number of clusters, those met as used
  have left the list or lie in the run that is open, and nothing else has (`Walked` joins
  a cluster to the run only if it follows it). `KnownBytes`: those known to be in use are
  among them, and all of them are in use or in doubt.
* `HalveFits`: the blocksize `find_blocksize` ends with fits every mark. It is halved in
  the middle of a walk over the list, so a mark that fitted before must fit again:
  `HalvesAssumption`, that 2^16 is a sector times a power of two, makes every blocksize
  a divisor of the one before. At most `MaxBlock` walks change it.
* `InBlocksCorrect`, `InBlocksKeeps`: `update_blocksize` meets the ranges from the tail
  on. `Met` (for the starts) and `Trimmed` (for the ends) compare the list after each
  step with the one it began with: the ranges before the one met are as they were, those
  behind it are whole blocks, every whole free block is still there, and so is every
  mark whose block is whole.

`PInv` is inductive: the list is in order and its marks are at headers (`ListInv`),
what was chosen and is not in the list is what the file system says is in use
(`SpaceInv`), the walk stays in a range at a position that is free (`CursorInv`), and
the blocksize fits the marks from the moment it is chosen (`BlocksizeInv`), as does the
list that was rounded (`RoundedInv`). From it `OnlyUsedSpaceLeaves`,
`PreparedSpaceInBlocks` and `RoundingLosesNoBlock` follow. The last one assumes that the
user does not set a blocksize of 1, which `blocksize,N` on the command line allows:
`update_blocksize` drops a range whose start is not before its end (`photorec.c:481`,
`495`), and so every block of one byte that is free alone.

**The cache.** `DiskCacheProofs` proves `CachedReadsAreFresh` and
`ReadingAheadIsHarmless` for sectors, rings, requests and read-ahead of any size.
`CacheInv` adds to `ReadsAreFresh` what every buffer is, `GoodBuffer`: whole sectors, a
status that is an error or whole sectors, and up to the status the bytes of the disk.
Behind the status a buffer may hold anything, and the answer put together of several
may count too much: so a request is followed piece by piece (`PartRead`: a sum of
results that equals the length read means that each piece was whole). `PwriteKeeps`
needs that writes and buffers begin and end with sectors, or a buffer could hold a piece
of a sector the write touches and not overlap it. The alignment of `ReadAhead`
(`CacheAssumption`) is that of the code's constants, 8192 and 32768 bytes, to sectors
that are powers of two. For the second theorem `Sound` follows a request: no failed
buffer overlaps it, its sectors can be read; a call that fills a buffer leaves no new
failed one that overlaps what is left (`NoNewFailures`).

**Listing and copying.** `AdvancedProofs` is about `DirTree`, and about the menu
`Advanced` that composes it with `NtfsUndelete`. `WalkKnowsItsPath`: the stack of
directories and the static list of known inodes agree at every step (`StackInv`), and no
directory is on the path twice. `CopiesAreWhole`: where the copy of a file stands is the
number of clusters read so far of a chain without repetitions. `MenuListsFiles`: every
step of the menu is a step of `DirTree`, or changes none of its variables (a refinement
with the variables themselves as mapping). So the two properties hold in the menu
(`MenuKnowsItsPath`, `MenuCopiesAreWhole`).

Each of these invariants was checked by TLC on the states of `carver`, `formats`,
`driver`, `prepare`, `brute`, `cache` or `dirs` before it was proved.

**What stays with TLC, and why.**

* Liveness (`Termination`, `RunEnds`), which is outside the prover's reach.
* `Preparation` when the user names two inodes of one group (`SameGroup`).
* `FatUnformat`: its `SpaceKeepsTheRest` is within reach with `RemoveExtentCorrect`, the
  walk over the directories would be an induction over data. The tables: `ReadChain` is
  recursive as the code is.
* `GapsAreBridged` of `BruteForce` and `WholeTreeCopied` of `DirTree`: they compare a
  whole run with what the disk held, over every way there is to get there, and their
  proofs would be inductions over data.
* `Detection` and `NtfsUndelete`: within reach, see the plan.
* The type invariant of `Carver` (`Shape` has the types of list and file, without the
  bounds).

## 6. Findings

* `carver_stop` (`psearchn.c:123`): a stop returns from `photorec_aux` without
  `file_recovery_aborted`, which the other early exits call. The blocks of the file in
  progress are then neither in the search space the session saves nor in a recovered
  file, and a resumed recovery never sees them.
* `carver_ignored` (`psearchn.c:129`, "BUG: offset=..." at 133): the second loop of
  `get_prev_location_smart` (`filegen.c:703-712`) takes the first range that starts
  before the file or before the ignored header, and sets the offset to the ignored
  header, which another range holds, or none. `photorec_aux` moves the offset to the
  start of the range and does not read the buffer again: a file that starts there takes
  the bytes of another block for its first ones. Only ignored headers lead there
  (`OffsetStaysInRange`).

## 7. What the models show of the code

The behaviours below are modelled as they are in the code. Where a property holds but
for one of them, it names the exception by the word in parentheses.

*Carving.* `DC_STOP` after `EFBIG` (`psearchn.c:163-185`) is overwritten by the
`data_check` below it, and the file goes on with a hole. A file that begins where the
head of the loop has moved the position gets the bytes of another header at its start
(`HasBytes`, run `carver_ignored`).

*Formats.* A whole file may lose its end: the last chunk when its header does not end
before the last block does (`HiddenLastChunk`, `HiddenExtension`), the last chunk when
half of it is enough to stop (`CutLastChunk`), a byte of padding that is only counted
where a header could follow (`HiddenTail`), a short rest of text (`ShortText`), a file
behind a foreign end mark (`ForeignMark`), and one behind which less follows than the
check reads (`NothingBehind`). `file_ttf.c:100` rounds the length of a table with the
wrong padding; an ext superblock (`file_ext.c:73`), sp3, pdb, dxf, caf and par2 count in
ways of their own. The `min_filesize` of pct is the low 16 bits of the size. The checks
of x4a, nk2, xm and png seek behind the end of a torn file and keep it longer than it
was written; so does that of a picture torn in the header of its scan, while one torn
among its segments is rejected and one torn in the scan is kept. A zip archive torn in
its final comment keeps its full size, because the comment is skipped and not read.

An image descriptor of a GIF is read with 20 bytes in the buffer; when it is cut by the
end of a block that was entered in the middle of an image or an extension,
`data_check_gif2` stays the `data_check` (`file_gif.c:106`, `123`) and reads 0x2c as a
length (`LosingFile`). The cards of a FITS extension are read as far as the buffer goes
(`file_fits.c:74`): a header cut by its end, one with END alone in its last unit, and
one without data, after which the file has no checks any more, lead to a wrong size
(`MisreadFile`); with blocks of 512 bytes a header that fills its unit is always cut.
Lyrics of an MP3 file whose end is not in the buffer end the file (`file_mp3.c:412`). The
checks of flac are under `#if 0`: it has a minimum size and no more. wv looks at a chunk
again with the next block where it cannot tell what it is.

*Brute force.* The comment table `phbf.c:461-469` says that an ok block is kept, the
code drops it. A fragment in the middle that has one block, and an error reported late,
are not bridged. The user cannot stop the pass. `ENOSPC` in `photorec_bf_pad` loses the
blocks of a file that is not counted (`lost`).

*Preparation.* Group and inode numbers of an ext2 file system count from the start of
the disk, not of the partition (`ext2grp.c:67`, `105`), and an inode at the end of a
group is taken for the next (`SameGroup`). The minimum of `ntfsp.c` mixes clusters and
bytes; the shift of `exfat_cluster_to_offset` has 32 bits; a read error of NTFS's bitmap
keeps the run of used clusters open. A FAT or a bitmap of exFAT with a piece that cannot be
read is read on as the buffer is (`Doubtful`). "Consider these FAT sectors points to free
clusters", says `fatp.c:65` of such a piece: `hdaccess.c:1283` clears what it could not
read, which makes it true, `win32.c:494` does so only after a partial read. Every piece
of the bitmap of exFAT but the first comes from a wrong place (`Doubtful` too).

*FAT unformat.* The units of the start are those of another function
(`fat_unformat.c:415`). Once the buffer of 4 MB was filled again, what is looked at lags
one cluster behind where it is thought to be. Clusters are counted from the start of the
disk, so that a partition elsewhere gets other extents. An empty file, with cluster 0,
ends the listing of its directory. A stop is not noticed in the library.

*Detection.* The place of the third head is overwritten in the table of
`next.c:132-135`, against the comment of line 125, and the backup of exFAT is not in it
(`NotInTable`). The probe for a logical partition (`analyse.c:215-219`), which is there
for encrypted ones, takes an entry of any boot sector on a PC: where a file system is
found at it, nothing is returned, but the place and the fields stay for the tests that
follow (`Probed`, `Hidden`). A partition may be covered by another (`Covered`), hidden
(`Hidden`) or found twice (`Doubled`), a RAID superblock may wrap around the start of
the disk (`Wrapped`), a field may be left of one that was given up (`GivenUp`).
`search_NTFS_from_backup` takes the list after its head was replaced (`godmode.c:526`,
against the comment of 971), so that what was put in front of it is lost (`LostHead`).

*Partition tables.* `log_block_size` is never reset. `add_partition_i386_cli` never sets
`part_offset`; the functions of other tables test the old head. What is erased leaves
the backup header of a GPT, the labels of Humax and Mac, and the boot sectors of old
logical partitions; writing an i386 table leaves an older GPT or Xbox label, which is
read first (`OlderLabel`). Where a file system filled the disk and its header is still
there, the disk is taken for one without a table (`WholeDisk`), also when its boot sector
now is that of a table, as the code in it is kept. A partition at the very start, or where a GPT goes, is not
refused (`InTheWay`); a number that does not fit an entry (`TooFar`) and a partition
behind the last entry (`NotRead`) are written all the same. Offsets of Sun and Humax
have 32 bits; the cylinder before the first wraps; a smallest extended partition may
overlap a primary one behind it; a failing write of a GPT's MBR is ignored; extended
entries count toward the limit of 32.

*Readers.* The last cluster of an exFAT volume is refused, one too many of a FAT volume
accepted. A contiguous exFAT directory lists only its first cluster, a contiguous exFAT
file is copied through "next free" clusters. After a read error of FAT the previous
contents of the buffer are written and the file counts as copied; `ntfs_copy` returns 0
after every error; ext2 reports it. An NTFS inode that cannot be opened ends its
listing. `copy_dir` has no limit of depth, `dir.c` has `MAX_DIR_NBR`. 'q' in a
subdirectory only goes back (`dirn.c:621`), and so does Enter on a directory with inode
1, which is the number `dir_partition_aux` takes for "back". 'F' marks ".." too, and two files of one
local name overwrite each other, both counted as copied.

*NTFS undelete.* A stream whose first segment is missing has it written twice
(`Headless`). `write_data` returns -1 as an unsigned number, which is taken for success:
a full destination is not noticed (`lost`). Holes are not counted, so sparse files are
not cut to their size; the comment `ntfs_udl.c:830-832` says clusters in use are filled
with zeros, which is under `#if 0` at 1003. Compressed and encrypted streams are copied
raw when another stream is promising. One free cluster of 101 is 0 percent, and the file
is never listed. The buffer of `utils_cluster_in_use` is static and survives the volume
(`InheritedBits`). Parents that form a cycle are followed for ever (mode "endless"), and
the sequence number of a parent is not compared. 'C' copies marked entries that are
hidden; a stream that fails stops the later ones; an error in the bitmap of the records
ends the scan; a record that is free in the bitmap and flagged as in use is listed and
cannot be undeleted.

## 8. What is not modelled, and the plan

Not modelled: what the checkers compare in the contents, names, dates and directories of
output files; pictures whose headers are longer than the buffer of 320 kB; gpg files of
indeterminate length; text and menus; the torn text `getInformation` may copy;
`session_load`, which the library never calls; GUIDs, `ask_mbr_order` and the guess of a
geometry; ReiserFS (its reader writes a name through a pointer that is never allocated,
`rfs_dir.c:442`); the handling of names; what follows a key pressed on an empty list of
deleted files, which uses memory outside it. `cache_pread` may report a partial count
that is too high when one piece failed and the next did not; no caller in the recovery
uses a partial count.

FAT repair, which no pass of the library reaches, was read and not modelled: a volume of
2 sectors per cluster, rebuilt with 1, passes the test of its FAT; the window of two
sectors of a FAT12 loses readable data when the two copies have different bad sectors;
an entry unreadable in one copy and damaged in the other is written as zero;
`fat32_create_rootdir` overwrites one cluster with `next_cluster=cluster++`; the menu
entry 'L' leaves `upart_type` changed. `NtfsVolumes` and `ClusterSize` have what NTFS
undelete and the unformat pass share with it.

Plan:

1. Proofs about `Detection`: `OneSource` over any disk, from what each turn of the
   search resets.
2. Proofs about `NtfsUndelete`: `UndeletedIsWhole`, and through `MenuListsFiles` in the
   menu.
3. Lemmas about `PartitionList` (what is inserted, the order, no double) and
   `ClusterSize`.
4. A resumed run composed with a pass: what `session_save` wrote is what `session_load`
   and `set_search_start` take up.
