------------------------- MODULE FileRecoveryProofs -------------------------
(***************************************************************************)
(* What becomes of a file of any well-formed format, for every block size, *)
(* wherever its chunks, its end marks and its end fall in the blocks.      *)
(***************************************************************************)
EXTENDS FileRecovery, WellFoundedInduction, TLAPS

-----------------------------------------------------------------------------
(* Sets of positions and the files                                         *)

(* A nonempty set of positions has a first one.                            *)
LEMMA FirstOfPositions ==
    ASSUME NEW I, I \subseteq Nat, I # {}
    PROVE  FirstOf(I) \in I /\ \A j \in I : FirstOf(I) =< j
<1>1. PICK m \in I : \A j \in I : ~(<<j, m>> \in OpToRel(<, Nat))
  BY WFMin, NatLessThanWellFounded
<1>2. \A j \in I : m =< j
  <2> SUFFICES ASSUME NEW j \in I, ~(m =< j) PROVE FALSE
    OBVIOUS
  <2>1. j \in Nat /\ m \in Nat /\ j < m
    OBVIOUS
  <2>2. <<j, m>> \in OpToRel(<, Nat)
    BY <2>1 DEF OpToRel
  <2> QED
    BY <2>2, <1>1
<1> QED
  BY <1>1, <1>2 DEF FirstOf

(* A nonempty set of positions up to n has a last one.                     *)
LEMMA LastOfPositions ==
    ASSUME NEW n \in Nat, NEW I, I \subseteq Nat, I # {}, \A i \in I : i =< n
    PROVE  LastOf(I) \in I /\ \A j \in I : j =< LastOf(I)
<1> DEFINE J == {k \in 0 .. n : n - k \in I}
<1>1. J \subseteq Nat /\ J # {}
  <2>1. PICK i \in I : TRUE
    OBVIOUS
  <2>2. n - i \in 0 .. n /\ n - (n - i) = i
    BY <2>1
  <2>3. n - i \in J
    BY <2>1, <2>2
  <2> QED
    BY <2>3
<1>2. FirstOf(J) \in J /\ \A j \in J : FirstOf(J) =< j
  BY <1>1, FirstOfPositions
<1> DEFINE m == n - FirstOf(J)
<1>3. m \in I /\ m \in 0 .. n
  BY <1>2
<1>4. ASSUME NEW j \in I PROVE j =< m
  <2>1. j \in 0 .. n /\ n - j \in 0 .. n /\ n - (n - j) = j
    OBVIOUS
  <2>2. n - j \in J
    BY <2>1
  <2> QED
    BY <2>1, <2>2, <1>2
<1> QED
  BY <1>3, <1>4 DEF LastOf

(* The later one of two positions.                                         *)
LEMMA LaterOne ==
    ASSUME NEW a \in Int, NEW b \in Int
    PROVE  LastOf({a, b}) = IF a =< b THEN b ELSE a
BY DEF LastOf

(* What every file has.                                                    *)
LEMMA FileTypes ==
    ASSUME file \in Files
    PROVE  /\ BlockSize \in Nat /\ BlockSize > 0
           /\ file.size \in Nat /\ file.size > 0
           /\ file.span \in Nat /\ file.span > 0
           /\ Claimed(file) \in Nat /\ MinOf(file) \in Nat /\ file.chain \in Nat
           /\ format.head \in Nat /\ format.back \in Nat /\ format.tail \in Nat
           /\ format.extra \in Nat /\ format.tight \in {0, 1} /\ format.tight \in Nat
           /\ file.heads \subseteq Nat /\ file.marks \subseteq Nat /\ file.copies \subseteq Nat
           /\ file.strays \subseteq Nat /\ DOMAIN file.long \subseteq file.heads
           /\ \A h \in DOMAIN file.long : file.long[h] \in Nat
           /\ MinOf(file) =< file.size
<1>1. Sound(file) /\ file.copies \subseteq Nat
  BY FilesAssumption DEF WellFormed
<1> QED
  BY <1>1, BlockSizeAssumption DEF Sound, format

(* A format whose data_check is installed has files it is for.             *)
LEMMA DataUsed ==
    ASSUME file \in Files, DataCheck # "none"
    PROVE  /\ BlockSize >= format.need /\ check # "null"
           /\ DataCheck = format.data /\ FileCheck = format.file
           /\ Consistent(file) /\ FileCheck \in FileChecks(DataCheck)
           /\ DataCheck \in DataChecks
<1>1. BlockSize >= format.need /\ check # "null"
  BY DEF DataCheck
<1>2. WellFormed(file)
  BY FilesAssumption
<1> QED
  BY <1>1, <1>2 DEF WellFormed, DataCheck, FileCheck, format

(* Without a data_check, a file_check is for files without a structure.    *)
LEMMA DataUnused ==
    ASSUME file \in Files, DataCheck = "none"
    PROVE  \/ FileCheck = "none"
           \/ /\ FileCheck = format.file /\ FileCheck \in FileChecks("none")
              /\ PlainFile(file)
<1>1. WellFormed(file)
  BY FilesAssumption
<1>2. CASE ~(BlockSize >= format.need /\ check # "null")
  BY <1>2 DEF FileCheck
<1>3. CASE BlockSize >= format.need /\ check # "null"
  <2>1. format.data = "none" /\ FileCheck = format.file
    BY <1>3 DEF DataCheck, FileCheck
  <2>2. Consistent(file) /\ format.file \in FileChecks(format.data)
    BY <1>1, <1>3 DEF WellFormed, format
  <2> QED
    BY <2>1, <2>2 DEF Consistent, format
<1> QED
  BY <1>2, <1>3

(* The files of the chained formats.                                       *)
LEMMA ChainUsed ==
    ASSUME file \in Files, DataCheck \in Chained \cup {"sections"}
    PROVE  /\ DataCheck = format.data /\ FileCheck = format.file
           /\ FileCheck \in FileChecks(DataCheck) /\ ChunkFile(file)
<1>1. DataCheck # "none"
  BY DEF Chained
<1> QED
  BY <1>1, DataUsed DEF Consistent, Chained, format

-----------------------------------------------------------------------------
(* The inductive invariant                                                 *)

(* What has been written are the blocks so far.                            *)
Room == format.head + format.tight
InBlocks == \E k \in 0 .. file.span : size = k * BlockSize

(* What calculated_file_size is in front of a block, for each data_check:  *)
(* the next chunk is one that the buffer may still show, and the chunks    *)
(* before have been seen in it.                                            *)
ChunksCarried ==
    /\ calc \in Boundaries /\ calc >= Claimed(file)
    /\ calc + BlockSize >= size /\ calc + RoomAt(file, calc) > size
    /\ format.closed => \E h \in file.heads : size < h + RoomAt(file, h)
    /\ \A h \in file.heads : h < calc => h + RoomAt(file, h) =< size \/ h < Claimed(file)
PictureCarried ==
    /\ size < file.size
    /\ calc + BlockSize >= size /\ calc + Room > size
    /\ \A h \in file.heads : h < calc => h + Room =< size \/ h < Claimed(file)
    /\ \/ calc \in file.heads
       \/ /\ calc = size \/ calc = ScanStart
          /\ calc >= size /\ \A h \in file.heads : h =< calc
SectionsCarried == calc \in Boundaries /\ (calc = file.chain \/ calc + Room > size)
MarkCarried     == calc = size /\ size < file.size + format.tight
TextCarried     == calc = size /\ size =< file.size
SizeCarried     == calc = Claimed(file) /\ size < calc

Carried ==
    /\ DataCheck \in {"chunks", "hdus"} => ChunksCarried
    /\ DataCheck = "picture" => PictureCarried
    /\ DataCheck = "sections" => SectionsCarried
    /\ DataCheck \in {"mark", "unsigned_mark"} => MarkCarried
    /\ DataCheck = "text" => TextCarried
    /\ DataCheck = "size" => SizeCarried
    /\ DataCheck = "first_block" => size = 0
    /\ DataCheck = "none" => calc = Claimed(file)

(* What it is behind the block with which data_check stopped.              *)
ChunksStopped == calc = file.size /\ (~format.closed => file.size =< size)
HdusStopped   == /\ calc \in Boundaries /\ calc =< size /\ (calc = file.chain \/ calc + Room > size)
                 /\ BlockSize =< size
PictureStopped == calc = file.size /\ file.size =< size
MarkStopped   == \/ calc = file.size /\ file.size =< size
                 \/ calc = 0 /\ 0 \in file.marks /\ DataCheck = "unsigned_mark"
                 \/ DataCheck = "unsigned_mark" /\ Wrap # 0
TextStopped   == /\ file.size =< size
                 /\ \/ calc = file.size
                    \/ calc = size - BlockSize /\ calc =< file.size /\ file.size - calc < format.back
SizeStopped   == calc = Claimed(file) /\ calc =< size

Stopped ==
    /\ DataCheck \notin {"none", "sections"}
    /\ size < EndShows + BlockSize
    /\ DataCheck = "chunks" => ChunksStopped
    /\ DataCheck = "hdus" => HdusStopped
    /\ DataCheck = "picture" => PictureStopped
    /\ DataCheck \in {"mark", "unsigned_mark"} => MarkStopped
    /\ DataCheck = "text" => TextStopped
    /\ DataCheck = "size" => SizeStopped
    /\ DataCheck = "first_block" => calc = BlockSize /\ size = BlockSize

Finished == \E s \in Sizes(size, calc) : kept = IF s < MinFilesize THEN 0 ELSE s

(* What holds of every file                                                *)
OuterInv ==
    /\ file \in Files /\ calc \in Nat
    /\ phase \in {"carving", "header", "stop"}
    /\ InBlocks
    /\ phase # "carving" => Finished

(* What holds of a file that data_check reads right                        *)
RightInv ==
    /\ file \in Files /\ calc \in Nat
    /\ phase \in {"carving", "header", "stop"}
    /\ InBlocks
    /\ ReadRight /\ check = "format"
    /\ phase \in {"carving", "header"} => Carried
    /\ phase = "header" => EndsHere
    /\ phase = "stop" => Stopped
    /\ phase # "carving" => Finished

FileInv == OuterInv /\ (ReadRight => RightInv)

(* The kinds of data_check there are.                                      *)
LEMMA KindsOfData ==
    ASSUME file \in Files
    PROVE  DataCheck \in {"none", "chunks", "hdus", "picture", "sections", "mark",
                         "unsigned_mark", "text", "size", "first_block"}
<1>1. CASE DataCheck = "none"
  BY <1>1
<1>2. CASE DataCheck # "none"
  BY <1>2, DataUsed DEF DataChecks
<1> QED
  BY <1>1, <1>2


-----------------------------------------------------------------------------
(* The chunks                                                              *)

(* What a chunk needs in the buffer is a length.                           *)
LEMMA RoomIsLength ==
    ASSUME file \in Files, NEW p
    PROVE  RoomAt(file, p) \in Nat
BY FileTypes DEF RoomAt, format

(* What is known of the file of a chained format.                          *)
LEMMA ChunkFacts ==
    ASSUME file \in Files, DataCheck \in Chained \cup {"sections"}
    PROVE  /\ file.heads # {} /\ \A h \in file.heads : h < file.chain
           /\ ReadRight \/ DataCheck # "hdus" => Claimed(file) \in Boundaries
           /\ Boundaries \subseteq Nat /\ file.chain \in Boundaries
           /\ \A p \in Boundaries : p =< file.chain
           /\ Room \in Nat /\ 0 < Room /\ Room =< BlockSize
           /\ FileCheck # "sections" => file.size = file.chain + format.tail
           /\ file.chain =< file.size
           /\ LastOf(file.heads) \in file.heads
           /\ \A h \in file.heads : h =< LastOf(file.heads)
<1>1. ChunkFile(file) /\ FileCheck = format.file /\ DataCheck = format.data
  BY ChainUsed
<1>2. /\ file.heads # {} /\ \A h \in file.heads : h < file.chain
      /\ Claimed(file) \in file.heads \cup {file.chain} \/ format.data = "hdus"
      /\ format.data = "hdus" => format.cut = "misreads"
      /\ 0 < format.head + format.tight
      /\ \A p \in file.heads \cup {file.chain} :
             /\ format.head + format.tight =< RoomAt(file, p) /\ RoomAt(file, p) =< BlockSize
             /\ p + RoomAt(file, p) > BlockSize => p >= MinOf(file)
      /\ IF format.file = "sections" THEN file.size >= file.chain
         ELSE file.size = file.chain + format.tail
  BY <1>1 DEF ChunkFile, format
<1>3. /\ file.heads \subseteq Nat /\ file.chain \in Nat /\ format.head \in Nat
      /\ format.tight \in {0, 1} /\ format.tail \in Nat /\ file.size \in Nat
      /\ BlockSize \in Nat
  BY FileTypes
<1>4. LastOf(file.heads) \in file.heads /\ \A h \in file.heads : h =< LastOf(file.heads)
  <2>1. \A h \in file.heads : h =< file.chain
    BY <1>2, <1>3
  <2> QED
    BY <1>2, <1>3, <2>1, LastOfPositions
<1>5. Boundaries \subseteq Nat /\ \A p \in Boundaries : p =< file.chain
  BY <1>2, <1>3 DEF Boundaries
<1>6. ASSUME ReadRight \/ DataCheck # "hdus" PROVE Claimed(file) \in Boundaries
  BY <1>1, <1>2, <1>6 DEF ReadRight, MisreadFile, Boundaries
<1>7. Room \in Nat /\ 0 < Room /\ Room =< BlockSize
  <2>1. Room \in Nat /\ 0 < Room
    BY <1>2, <1>3 DEF Room
  <2>2. RoomAt(file, file.chain) \in Nat /\ Room =< RoomAt(file, file.chain)
        /\ RoomAt(file, file.chain) =< BlockSize
    BY <1>2, RoomIsLength DEF Room
  <2> QED
    BY <1>3, <2>1, <2>2
<1> QED
  BY <1>1, <1>2, <1>3, <1>4, <1>5, <1>6, <1>7 DEF Boundaries

(* What a chunk needs in the buffer is at least a header and no more than  *)
(* a block, and a first block that does not show a chunk has min_filesize. *)
LEMMA RoomFacts ==
    ASSUME file \in Files, DataCheck \in Chained \cup {"sections"}, NEW p \in Boundaries
    PROVE  /\ RoomAt(file, p) \in Nat /\ 0 < RoomAt(file, p)
           /\ Room =< RoomAt(file, p) /\ RoomAt(file, p) =< BlockSize
           /\ p + RoomAt(file, p) > BlockSize => p >= MinOf(file)
<1>1. ChunkFile(file)
  BY ChainUsed
<1>2. /\ format.head + format.tight =< RoomAt(file, p) /\ RoomAt(file, p) =< BlockSize
      /\ p + RoomAt(file, p) > BlockSize => p >= MinOf(file)
  BY <1>1 DEF ChunkFile, format, Boundaries
<1>3. Room \in Nat /\ 0 < Room
  BY ChunkFacts
<1> QED
  BY <1>2, <1>3, RoomIsLength DEF Room

(* All headers of a format that is no chain of chunks are alike.           *)
LEMMA AlikeFacts ==
    ASSUME file \in Files, DataCheck \in {"hdus", "picture", "sections"}, NEW p
    PROVE  /\ RoomAt(file, p) = Room
           /\ Readable(p) <=> p + BlockSize >= size /\ p + Room =< size + BlockSize
<1>1. ChunkFile(file) /\ DataCheck = format.data
  BY ChainUsed DEF Chained
<1>2. format.cut \in {"whole", "misreads"}
  BY <1>1 DEF ChunkFile, format
<1>3. RoomAt(file, p) = Room
  BY <1>2 DEF RoomAt, Room, format
<1> QED
  BY <1>3 DEF Readable

(* The chunk the loop of data_check gets to from the position it has: the  *)
(* first one that does not lie in the buffer with its header, or the end   *)
(* of the last one.                                                        *)
LEMMA ReachedChunk ==
    ASSUME file \in Files, DataCheck \in Chained \cup {"sections"}, calc \in Boundaries
    PROVE  /\ Reached \in Boundaries /\ calc =< Reached
           /\ Reached = file.chain \/ (Reached \in file.heads /\ ~Readable(Reached))
           /\ \A h \in file.heads : calc =< h /\ h < Reached => Readable(h)
<1> DEFINE R == {p \in Boundaries : p >= calc /\ (p = file.chain \/ ~Readable(p))}
<1>1. Boundaries \subseteq Nat /\ file.chain \in Boundaries /\ calc =< file.chain
  BY ChunkFacts
<1>2. R \subseteq Nat /\ R # {}
  <2>1. file.chain \in R
    BY <1>1
  <2> QED
    BY <1>1, <2>1
<1>3. FirstOf(R) \in R /\ \A j \in R : FirstOf(R) =< j
  BY <1>2, FirstOfPositions
<1>4. Reached = FirstOf(R)
  BY DEF Reached
<1>5. ASSUME NEW h \in file.heads, calc =< h, h < Reached
      PROVE  Readable(h)
  <2>1. h \in Boundaries /\ h \in Nat /\ Reached \in Nat /\ calc \in Nat
    BY <1>1, <1>2, <1>3, <1>4 DEF Boundaries
  <2>2. h \notin R
    BY <1>3, <1>4, <1>5, <2>1
  <2> QED
    BY <1>5, <2>1, <2>2
<1>6. Reached \in R
  BY <1>3, <1>4
<1>7. /\ Reached \in Boundaries /\ calc =< Reached
      /\ Reached = file.chain \/ ~Readable(Reached)
  BY <1>6, <1>1
<1> QED
  BY <1>5, <1>7 DEF Boundaries

(* Where data_check goes on, the next chunk is still in reach of the next  *)
(* block, and the chunks passed have been in the buffer.                   *)
LEMMA ChunksGoOn ==
    ASSUME file \in Files, size \in Nat, DataCheck = "chunks", ChunksCarried,
           ~ChunkCheck.stop
    PROVE  /\ ChunkCheck.calc \in Boundaries
           /\ ChunkCheck.calc >= size /\ ChunkCheck.calc >= Claimed(file)
           /\ ChunkCheck.calc + RoomAt(file, ChunkCheck.calc) > size + BlockSize
           /\ format.closed => \E h \in file.heads : size + BlockSize < h + RoomAt(file, h)
           /\ \A h \in file.heads :
                 h < ChunkCheck.calc => h + RoomAt(file, h) =< size + BlockSize \/ h < Claimed(file)
<1>1. DataCheck \in Chained \cup {"sections"}
  BY DEF Chained
<1>2. calc \in Boundaries
  BY DEF ChunksCarried
<1>3. ChunkCheck.calc = Reached /\ ~Readable(Reached) /\ ~(Reached = file.chain /\ format.closed)
  BY <1>2 DEF ChunkCheck, Goes, Stops
<1>4. /\ Reached \in Boundaries /\ calc =< Reached
      /\ Reached = file.chain \/ Reached \in file.heads
      /\ \A h \in file.heads : calc =< h /\ h < Reached => Readable(h)
  BY <1>1, <1>2, ReachedChunk
<1>5. /\ Boundaries \subseteq Nat /\ Room \in Nat /\ Room =< BlockSize /\ 0 < Room
      /\ Claimed(file) \in Nat
      /\ BlockSize \in Nat /\ format.head \in Nat /\ format.tight \in {0, 1}
      /\ LastOf(file.heads) \in file.heads
      /\ \A h \in file.heads : h =< LastOf(file.heads)
      /\ file.heads \subseteq Nat
      /\ \A p \in Boundaries : RoomAt(file, p) \in Nat /\ RoomAt(file, p) =< BlockSize
  BY <1>1, ChunkFacts, RoomFacts, FileTypes
<1>6. Reached + RoomAt(file, Reached) > size + BlockSize
  <2>1. Reached + BlockSize >= size
    BY <1>2, <1>4, <1>5 DEF ChunksCarried
  <2>2. RoomAt(file, Reached) \in Nat
    BY RoomIsLength
  <2>3. ~(Reached + RoomAt(file, Reached) =< size + BlockSize)
    BY <1>3, <2>1 DEF Readable
  <2> QED
    BY <1>4, <1>5, <2>2, <2>3
<1>7. Reached >= size
  <2>1. RoomAt(file, Reached) \in Nat /\ RoomAt(file, Reached) =< BlockSize
    BY <1>1, <1>4, RoomFacts
  <2>2. Reached \in Nat /\ BlockSize \in Nat
    BY <1>4, <1>5
  <2> QED
    BY <1>6, <2>1, <2>2
<1>8. ASSUME NEW h \in file.heads, h < Reached
      PROVE  h + RoomAt(file, h) =< size + BlockSize \/ h < Claimed(file)
  <2>0. RoomAt(file, h) \in Nat /\ h \in Nat
    BY <1>5, RoomIsLength
  <2>1. CASE h < calc
    <3>1. h + RoomAt(file, h) =< size \/ h < Claimed(file)
      BY <2>1 DEF ChunksCarried
    <3>2. h + RoomAt(file, h) =< size => h + RoomAt(file, h) =< size + BlockSize
      BY <1>5, <2>0
    <3> QED
      BY <3>1, <3>2
  <2>2. CASE ~(h < calc)
    <3>1. Readable(h)
      BY <2>2, <1>2, <1>4, <1>5, <1>8
    <3> QED
      BY <3>1, <1>5 DEF Readable
  <2> QED
    BY <2>1, <2>2
<1>9. Reached >= Claimed(file)
  <2>1. calc >= Claimed(file)
    BY DEF ChunksCarried
  <2>2. calc \in Nat
    BY <1>2, <1>5
  <2>3. Reached \in Nat /\ calc =< Reached
    BY <1>4, <1>5
  <2>4. Claimed(file) \in Nat
    BY <1>5
  <2> QED
    BY <2>1, <2>2, <2>3, <2>4
<1>10. ASSUME format.closed
      PROVE  \E h \in file.heads : size + BlockSize < h + RoomAt(file, h)
  <2>1. Reached \in file.heads
    BY <1>3, <1>4, <1>10
  <2>2. RoomAt(file, Reached) \in Nat /\ Reached \in Nat
    BY <1>4, <1>5, RoomIsLength
  <2>3. size + BlockSize < Reached + RoomAt(file, Reached)
    BY <1>5, <1>6, <2>2
  <2> QED
    BY <2>1, <2>3
<1> QED
  BY <1>3, <1>4, <1>6, <1>7, <1>8, <1>9, <1>10

(* Where data_check stops, it has found the end of the file; the last      *)
(* chunk of a closed format may reach beyond the block.                    *)
LEMMA ChunksStop ==
    ASSUME file \in Files, size \in Nat, DataCheck = "chunks", ChunksCarried,
           ChunkCheck.stop
    PROVE  /\ ChunkCheck.calc = file.size
           /\ ~format.closed => file.size =< size + BlockSize
<1>1. DataCheck \in Chained \cup {"sections"}
  BY DEF Chained
<1>2. calc \in Boundaries
  BY DEF ChunksCarried
<1>3. Reached = file.chain \/ ~Readable(Reached)
  BY <1>1, <1>2, ReachedChunk
<1>4. ChunkFile(file) /\ FileCheck = format.file /\ DataCheck = format.data
  BY <1>1, ChainUsed
<1>5. /\ FileCheck # "sections"
      /\ format.tail > 0 => ~format.closed
      /\ format.tail =< Room
  <2>1. FileCheck \in FileChecks("chunks")
    BY <1>1, ChainUsed
  <2> QED
    BY <1>4, <2>1 DEF ChunkFile, FileChecks, Room, format
<1>6. file.size = file.chain + format.tail /\ Room \in Nat /\ file.chain \in Nat
  BY <1>1, <1>5, ChunkFacts
<1>7. /\ BlockSize \in Nat /\ format.head \in Nat /\ format.tight \in {0, 1} /\ format.tail \in Nat
  BY FileTypes
<1>8. CASE Reached = file.chain /\ format.closed
  <2>1. ChunkCheck.calc = file.chain
    BY <1>2, <1>8 DEF ChunkCheck, Stops
  <2> QED
    BY <1>5, <1>6, <1>7, <1>8, <2>1
<1>9. CASE ~(Reached = file.chain /\ format.closed)
  <2>1. Readable(Reached) /\ ChunkCheck.calc = Reached + format.tail
    BY <1>2, <1>9 DEF ChunkCheck, Stops, Goes
  <2>2. Reached = file.chain
    BY <1>3, <2>1
  <2>3. file.chain + RoomAt(file, file.chain) =< size + BlockSize
    BY <2>1, <2>2 DEF Readable
  <2>4. RoomAt(file, file.chain) \in Nat /\ Room =< RoomAt(file, file.chain)
    BY <1>1, ChunkFacts, RoomFacts
  <2> QED
    BY <1>5, <1>6, <1>7, <2>1, <2>2, <2>3, <2>4
<1> QED
  BY <1>8, <1>9

(* data_check_fits goes on where the next header and data unit starts      *)
(* behind the block.                                                       *)
LEMMA HdusGoOn ==
    ASSUME file \in Files, size \in Nat, DataCheck = "hdus", ChunksCarried,
           ~HduCheck.stop
    PROVE  /\ HduCheck.calc \in Boundaries
           /\ HduCheck.calc >= size /\ HduCheck.calc >= Claimed(file)
           /\ HduCheck.calc + Room > size + BlockSize
           /\ ~format.closed
           /\ \A h \in file.heads :
                 h < HduCheck.calc => h + Room =< size + BlockSize \/ h < Claimed(file)
<1>0. \A p : /\ RoomAt(file, p) = Room
             /\ Readable(p) <=> p + BlockSize >= size /\ p + Room =< size + BlockSize
  BY AlikeFacts
<1>1. DataCheck \in Chained \cup {"sections"}
  BY DEF Chained
<1>2. calc \in Boundaries
  BY DEF ChunksCarried
<1>3. HduCheck.calc = Reached /\ ~(size + BlockSize >= Reached)
  BY <1>2 DEF HduCheck, Goes, Stops
<1>4. /\ Reached \in Boundaries /\ calc =< Reached
      /\ \A h \in file.heads : calc =< h /\ h < Reached => Readable(h)
  BY <1>1, <1>2, ReachedChunk
<1>5. /\ Boundaries \subseteq Nat /\ Room \in Nat /\ Room =< BlockSize /\ 0 < Room
      /\ Claimed(file) \in Nat
      /\ BlockSize \in Nat /\ format.head \in Nat /\ format.tight \in {0, 1}
      /\ file.heads \subseteq Nat
  BY <1>1, ChunkFacts, FileTypes
<1>6. ~format.closed
  BY <1>1, ChainUsed DEF ChunkFile, format
<1>7. Reached >= size /\ Reached + Room > size + BlockSize /\ Reached >= Claimed(file)
  BY <1>2, <1>3, <1>4, <1>5 DEF ChunksCarried
<1>8. ASSUME NEW h \in file.heads, h < Reached
      PROVE  h + Room =< size + BlockSize \/ h < Claimed(file)
  <2>1. CASE h < calc
    <3>1. h + Room =< size \/ h < Claimed(file)
      BY <1>0, <2>1 DEF ChunksCarried
    <3> QED
      BY <3>1, <1>5
  <2>2. CASE ~(h < calc)
    <3>1. Readable(h)
      BY <2>2, <1>2, <1>4, <1>5, <1>8
    <3> QED
      BY <1>0, <1>5, <3>1
  <2> QED
    BY <2>1, <2>2
<1> QED
  BY <1>3, <1>4, <1>6, <1>7, <1>8

(* It stops with the last one that starts in the block.                    *)
LEMMA HdusStop ==
    ASSUME file \in Files, size \in Nat, DataCheck = "hdus", ChunksCarried, HduCheck.stop
    PROVE  /\ HduCheck.calc \in Boundaries /\ HduCheck.calc =< size + BlockSize
           /\ HduCheck.calc = file.chain \/ HduCheck.calc + Room > size + BlockSize
<1>0. \A p : /\ RoomAt(file, p) = Room
             /\ Readable(p) <=> p + BlockSize >= size /\ p + Room =< size + BlockSize
  BY AlikeFacts
<1>1. DataCheck \in Chained \cup {"sections"}
  BY DEF Chained
<1>2. calc \in Boundaries
  BY DEF ChunksCarried
<1>3. HduCheck.calc = Reached /\ size + BlockSize >= Reached
  BY <1>2 DEF HduCheck, Goes, Stops
<1>4. /\ Reached \in Boundaries /\ calc =< Reached
      /\ Reached = file.chain \/ ~Readable(Reached)
  BY <1>1, <1>2, ReachedChunk
<1>5. /\ Boundaries \subseteq Nat /\ Room \in Nat
      /\ BlockSize \in Nat /\ format.head \in Nat /\ format.tight \in {0, 1}
  BY <1>1, ChunkFacts, FileTypes
<1>6. CASE ~Readable(Reached)
  <2>1. Reached + BlockSize >= size
    BY <1>2, <1>4, <1>5 DEF ChunksCarried
  <2> QED
    BY <1>0, <1>3, <1>4, <1>5, <1>6, <2>1
<1> QED
  BY <1>3, <1>4, <1>5, <1>6

-----------------------------------------------------------------------------
(* The other data_checks                                                   *)

(* data_check_jpg goes on with a segment the buffer does not show, or      *)
(* behind the start of the scan.                                           *)
LEMMA PictureGoesOn ==
    ASSUME file \in Files, size \in Nat, DataCheck = "picture", PictureCarried,
           calc \in Nat, ~PictureCheck.stop
    PROVE  /\ PictureCheck.calc \in Nat
           /\ size + BlockSize < file.size
           /\ PictureCheck.calc >= size /\ PictureCheck.calc + Room > size + BlockSize
           /\ \A h \in file.heads : h < PictureCheck.calc =>
                  h + Room =< size + BlockSize \/ h < Claimed(file)
           /\ \/ PictureCheck.calc \in file.heads
              \/ /\ PictureCheck.calc = size + BlockSize \/ PictureCheck.calc = ScanStart
                 /\ PictureCheck.calc >= size + BlockSize
                 /\ \A h \in file.heads : h =< PictureCheck.calc
<1> DEFINE ahead == {p \in file.heads : p >= calc /\ ~Readable(p)}
<1>0. \A p : /\ RoomAt(file, p) = Room
             /\ Readable(p) <=> p + BlockSize >= size /\ p + Room =< size + BlockSize
  BY AlikeFacts
<1>1. DataCheck \in Chained \cup {"sections"}
  BY DEF Chained
<1>2. /\ Room \in Nat /\ Room =< BlockSize /\ 0 < Room
      /\ BlockSize \in Nat /\ format.head \in Nat /\ format.tight \in {0, 1}
      /\ format.extra \in Nat /\ file.chain \in Nat /\ file.size \in Nat
      /\ LastOf(file.heads) \in file.heads
      /\ \A h \in file.heads : h =< LastOf(file.heads)
      /\ file.heads \subseteq Nat /\ file.chain =< file.size
  BY <1>1, ChunkFacts, FileTypes
<1>3. \A h \in file.heads : h + Room =< file.chain
  BY <1>1, ChainUsed DEF ChunkFile, Room, format
<1>6. ASSUME NEW h \in file.heads, h >= calc => Readable(h)
      PROVE  h + Room =< size + BlockSize \/ h < Claimed(file)
  <2>1. CASE h >= calc
    BY <1>0, <1>2, <1>6, <2>1
  <2>2. CASE ~(h >= calc)
    <3>1. h + Room =< size \/ h < Claimed(file)
      BY <1>2, <2>2 DEF PictureCarried
    <3> QED
      BY <1>2, <3>1
  <2> QED
    BY <2>1, <2>2
<1>4. CASE ahead # {}
  <2>1. FirstOf(ahead) \in ahead
    <3>1. ahead \subseteq Nat
      BY <1>2
    <3> QED
      BY <1>4, <3>1, FirstOfPositions
  <2>2. PictureCheck.calc = FirstOf(ahead)
    BY <1>4 DEF PictureCheck, Goes
  <2>3. PICK a \in file.heads : a = PictureCheck.calc /\ a >= calc /\ ~Readable(a)
    BY <2>1, <2>2
  <2>4. a \in Nat /\ a + Room =< file.chain
    BY <1>2, <1>3
  <2>5. a + BlockSize >= size
    BY <1>2, <2>3, <2>4 DEF PictureCarried
  <2>6. a + Room > size + BlockSize
    BY <1>0, <1>2, <2>3, <2>4, <2>5
  <2>7. ASSUME NEW h \in file.heads, h < a PROVE h >= calc => Readable(h)
    <3>1. \A x \in ahead : a =< x
      <4>1. ahead \subseteq Nat
        BY <1>2
      <4> QED
        BY <1>4, <2>2, <2>3, <4>1, FirstOfPositions
    <3> QED
      BY <1>2, <2>4, <2>7, <3>1
  <2> HIDE DEF ahead
  <2> QED
    BY <1>2, <1>6, <2>3, <2>4, <2>6, <2>7
<1>5. CASE ahead = {}
  <2>1. /\ ~(file.chain =< size + BlockSize)
        /\ PictureCheck.calc = LastOf({ScanStart, size + BlockSize})
    BY <1>5 DEF PictureCheck, Goes, Stops
  <2>2. ScanStart \in Int /\ size + BlockSize \in Int
    BY <1>2 DEF ScanStart
  <2>3. LastOf({ScanStart, size + BlockSize})
          = IF ScanStart =< size + BlockSize THEN size + BlockSize ELSE ScanStart
    BY <2>2, LaterOne
  <2>4. /\ PictureCheck.calc >= size + BlockSize /\ PictureCheck.calc >= ScanStart
        /\ PictureCheck.calc = size + BlockSize \/ PictureCheck.calc = ScanStart
        /\ PictureCheck.calc \in Int
    BY <2>1, <2>2, <2>3
  <2>5. \A h \in file.heads : h =< ScanStart
    BY <1>2 DEF ScanStart
  <2>6. \A h \in file.heads : h >= calc => Readable(h)
    BY <1>5
  <2> HIDE DEF ahead
  <2> QED
    BY <1>2, <1>6, <2>1, <2>2, <2>4, <2>5, <2>6
<1> QED
  BY <1>4, <1>5

(* data_check_jpg2 stops with the end of the picture.                      *)
LEMMA PictureStops ==
    ASSUME file \in Files, size \in Nat, DataCheck = "picture", PictureCheck.stop
    PROVE  PictureCheck.calc = file.size /\ file.size =< size + BlockSize
<1>1. DataCheck \in Chained \cup {"sections"}
  BY DEF Chained
<1>2. PictureCheck.calc = file.chain /\ file.chain =< size + BlockSize
  BY DEF PictureCheck, Goes, Stops
<1>3. FileCheck = "segments" /\ format.tail = 0
  <2>1. ChunkFile(file) /\ format.data = "picture" /\ FileCheck \in FileChecks("picture")
    BY <1>1, ChainUsed
  <2>2. ~(format.tail > 0) /\ format.tail \in Nat
    BY <2>1, FileTypes DEF ChunkFile, format
  <2> QED
    BY <2>1, <2>2 DEF FileChecks
<1>4. file.size = file.chain + format.tail /\ file.chain \in Nat
  BY <1>1, <1>3, ChunkFacts, FileTypes
<1> QED
  BY <1>2, <1>3, <1>4

(* The last section reached is the first one whose header is not in the    *)
(* buffer, or there is none behind it.                                     *)
LEMMA SectionsGoOn ==
    ASSUME file \in Files, size \in Nat, DataCheck = "sections", SectionsCarried
    PROVE  /\ ~SectionCheck.stop
           /\ SectionCheck.calc \in Boundaries
           /\ SectionCheck.calc = file.chain \/ SectionCheck.calc + Room > size + BlockSize
<1>0. \A p : /\ RoomAt(file, p) = Room
             /\ Readable(p) <=> p + BlockSize >= size /\ p + Room =< size + BlockSize
  BY AlikeFacts
<1>1. DataCheck \in Chained \cup {"sections"}
  OBVIOUS
<1>2. calc \in Boundaries
  BY DEF SectionsCarried
<1>3. /\ Reached \in Boundaries /\ calc =< Reached
      /\ Reached = file.chain \/ ~Readable(Reached)
  BY <1>1, <1>2, ReachedChunk
<1>4. /\ Boundaries \subseteq Nat /\ Room \in Nat /\ Room =< BlockSize
      /\ BlockSize \in Nat /\ format.head \in Nat /\ format.tight \in {0, 1}
  BY <1>1, ChunkFacts, FileTypes
<1>5. CASE calc = file.chain
  BY <1>2, <1>5 DEF SectionCheck, Goes
<1>6. CASE calc # file.chain
  <2>1. ~SectionCheck.stop /\ SectionCheck.calc = Reached
    BY <1>6 DEF SectionCheck, Goes
  <2>2. ASSUME Reached # file.chain
        PROVE  Reached + Room > size + BlockSize
    <3>1. calc + Room > size
      BY <1>6 DEF SectionsCarried
    <3>2. Reached + BlockSize >= size
      BY <1>2, <1>3, <1>4, <3>1
    <3> QED
      BY <1>0, <1>3, <1>4, <2>2, <3>2
  <2> QED
    BY <1>3, <2>1, <2>2
<1> QED
  BY <1>5, <1>6

(* The formats with an end mark.                                           *)
LEMMA MarkFacts ==
    ASSUME file \in Files, DataCheck \in {"mark", "unsigned_mark"}
    PROVE  /\ file.size \in file.marks /\ \A m \in file.marks : m = file.size \/ m = 0
           /\ Claimed(file) = 0
           /\ FileCheck = "size"
           /\ format.head + format.tight =< format.back + 1
           /\ DataCheck = "mark" => format.back < format.head
<1>1. MarkFile(file) /\ DataCheck = format.data /\ FileCheck = format.file
  BY DataUsed DEF Consistent, format
<1> QED
  BY <1>1 DEF MarkFile, format

(* An end mark that is not seen from a block on is not in it.              *)
LEMMA MarksGoOn ==
    ASSUME file \in Files, size \in Nat, DataCheck \in {"mark", "unsigned_mark"}, MarkCarried,
           MarksSeen = {}
    PROVE  size + BlockSize < file.size + format.tight
<1>1. /\ BlockSize \in Nat /\ format.head \in Nat /\ format.tight \in Nat
      /\ format.back \in Nat /\ file.size \in Nat
  BY FileTypes
<1>2. file.size \in file.marks /\ format.head + format.tight =< format.back + 1
  BY MarkFacts
<1>3. size < file.size + format.tight
  BY DEF MarkCarried
<1>4. file.size - format.head >= size - format.back
  BY <1>1, <1>2, <1>3
<1>5. ~(file.size + format.tight =< size + BlockSize)
  BY <1>2, <1>4 DEF MarksSeen
<1> QED
  BY <1>1, <1>5

(* One that is seen is the end of the file, or the one before the file, if *)
(* the search reaches back so far.                                         *)
LEMMA MarksStop ==
    ASSUME file \in Files, size \in Nat, DataCheck \in {"mark", "unsigned_mark"},
           MarksSeen # {}
    PROVE  \/ FirstOf(MarksSeen) = file.size /\ file.size =< size + BlockSize
           \/ FirstOf(MarksSeen) = 0 /\ 0 \in file.marks /\ DataCheck = "unsigned_mark"
<1>1. /\ BlockSize \in Nat /\ format.head \in Nat /\ format.tight \in Nat
      /\ format.back \in Nat /\ file.size \in Nat /\ file.marks \subseteq Nat
  BY FileTypes
<1>2. MarksSeen \subseteq Nat
  BY <1>1 DEF MarksSeen
<1>3. PICK m \in file.marks : /\ m = FirstOf(MarksSeen)
                              /\ m - format.head >= size - format.back
                              /\ m + format.tight =< size + BlockSize
  BY <1>2, FirstOfPositions DEF MarksSeen
<1>4. m = file.size \/ m = 0
  BY MarkFacts
<1>5. CASE m = file.size
  BY <1>1, <1>3, <1>5
<1>6. CASE m = 0
  <2>1. DataCheck = "unsigned_mark"
    BY <1>1, <1>3, <1>6, MarkFacts
  <2> QED
    BY <1>3, <1>6, <2>1
<1> QED
  BY <1>4, <1>5, <1>6

(* The text formats.                                                       *)
LEMMA TextFacts ==
    ASSUME file \in Files, DataCheck = "text"
    PROVE  /\ file.chain = file.size /\ format.tight = 1
           /\ Claimed(file) = 0 /\ MinOf(file) = 0
           /\ FileCheck \in {"size", "footer"}
           /\ FileCheck = "footer" => FooterFile(file)
<1>1. Consistent(file) /\ format.data = "text" /\ FileCheck = format.file
      /\ FileCheck \in FileChecks("text")
  BY DataUsed
<1>2. TextFile(file)
  BY <1>1 DEF Consistent, format
<1>3. FileCheck \in {"size", "footer"}
  BY <1>1 DEF FileChecks
<1> QED
  BY <1>1, <1>2, <1>3 DEF TextFile, PlainFile, format

(* The text of a file is taken block by block, up to its end or to a short *)
(* rest.                                                                   *)
LEMMA TextGoesOn ==
    ASSUME file \in Files, size \in Nat, DataCheck = "text", TextCarried, ~TextCheck.stop
    PROVE  TextCheck.calc = size + BlockSize /\ size + BlockSize =< file.size
<1>1. file.chain = file.size /\ file.size \in Nat /\ BlockSize \in Nat
  BY TextFacts, FileTypes
<1> QED
  BY <1>1 DEF TextCheck, Goes, Stops
LEMMA TextStops ==
    ASSUME file \in Files, size \in Nat, DataCheck = "text", TextCarried, TextCheck.stop
    PROVE  /\ file.size =< size + BlockSize
           /\ \/ TextCheck.calc = file.size
              \/ /\ TextCheck.calc = size /\ TextCheck.calc =< file.size
                 /\ file.size - TextCheck.calc < format.back
<1>1. /\ file.chain = file.size /\ file.size \in Nat /\ BlockSize \in Nat /\ format.back \in Nat
  BY TextFacts, FileTypes
<1>2. /\ ~(file.chain >= size + BlockSize)
      /\ TextCheck.calc = IF file.chain - size >= format.back THEN file.chain ELSE calc
  BY DEF TextCheck, Goes, Stops
<1>3. calc = size /\ size =< file.size
  BY DEF TextCarried
<1> QED
  BY <1>1, <1>2, <1>3

(* The formats that tell the size in the header.                           *)
LEMMA SizeFacts ==
    ASSUME file \in Files, DataCheck = "size"
    PROVE  /\ file.size =< Claimed(file)
           /\ FileCheck \in {"size", "max_size"}
           /\ FileCheck = "size" => Claimed(file) = file.size
<1>1. Consistent(file) /\ format.data = "size" /\ FileCheck = format.file
      /\ FileCheck \in FileChecks("size")
  BY DataUsed
<1>2. SizedFile(file)
  BY <1>1 DEF Consistent, format
<1>3. FileCheck \in {"size", "max_size"}
  BY <1>1 DEF FileChecks
<1> QED
  BY <1>1, <1>2, <1>3, FileTypes DEF SizedFile, format

(* The files of one block.                                                 *)
LEMMA BlockFacts ==
    ASSUME file \in Files, DataCheck = "first_block"
    PROVE  file.size = BlockSize /\ FileCheck \in {"none", "size"}
<1>1. Consistent(file) /\ format.data = "first_block" /\ FileCheck \in FileChecks("first_block")
  BY DataUsed
<1>2. BlockFile(file)
  BY <1>1 DEF Consistent, format
<1>3. FileCheck \in {"none", "size"}
  BY <1>1 DEF FileChecks
<1> QED
  BY <1>2, <1>3 DEF BlockFile

(* As long as data_check goes on, it has not had what shows the end.       *)
LEMMA EndIsAhead ==
    ASSUME file \in Files, size \in Nat, calc \in Nat, Carried,
           DataCheck \notin {"none", "sections"}
    PROVE  EndShows \in Int /\ size < EndShows
<1>0. /\ file.size \in Nat /\ file.size > 0 /\ format.tight \in Nat /\ format.head \in Nat
      /\ BlockSize \in Nat
  BY FileTypes
<1>1. CASE DataCheck \in {"chunks", "hdus"}
  <2> DEFINE ends == {p + RoomAt(file, p) : p \in IF format.closed THEN file.heads ELSE Boundaries}
  <2>1. EndShows = LastOf({file.chain} \cup ends)
    BY <1>1 DEF EndShows
  <2>2. DataCheck \in Chained \cup {"sections"} /\ ChunksCarried
    BY <1>1 DEF Chained, Carried
  <2>3. /\ Boundaries \subseteq Nat /\ file.chain \in Boundaries /\ file.heads \subseteq Boundaries
        /\ \A p \in Boundaries : p =< file.chain
    BY <2>2, ChunkFacts DEF Boundaries
  <2>4. \A p \in Boundaries : RoomAt(file, p) \in Nat /\ RoomAt(file, p) =< BlockSize
    BY <2>2, RoomFacts
  <2>5. PICK e \in ends : size < e
    <3>1. CASE format.closed
      <4>1. PICK h \in file.heads : size < h + RoomAt(file, h)
        BY <2>2, <3>1 DEF ChunksCarried
      <4> QED
        BY <3>1, <4>1
    <3>2. CASE ~format.closed
      <4>1. calc \in Boundaries /\ size < calc + RoomAt(file, calc)
        <5>1. calc \in Boundaries /\ calc + RoomAt(file, calc) > size
          BY <2>2 DEF ChunksCarried
        <5>2. RoomAt(file, calc) \in Nat
          BY <2>4, <5>1
        <5> QED
          BY <5>1, <5>2
      <4> QED
        BY <3>2, <4>1
    <3> QED
      BY <3>1, <3>2
  <2>6. /\ {file.chain} \cup ends \subseteq Nat /\ file.chain + BlockSize \in Nat
        /\ \A x \in {file.chain} \cup ends : x =< file.chain + BlockSize
    <3>1. ASSUME NEW p \in Boundaries
          PROVE  p + RoomAt(file, p) \in Nat /\ p + RoomAt(file, p) =< file.chain + BlockSize
      <4>1. RoomAt(file, p) \in Nat /\ RoomAt(file, p) =< BlockSize
        BY <2>2, RoomFacts
      <4>2. p \in Nat /\ file.chain \in Nat /\ p =< file.chain
        BY <2>3
      <4> QED
        BY <1>0, <4>1, <4>2
    <3>2. file.chain \in Nat
      BY FileTypes
    <3>3. ASSUME NEW x \in ends PROVE x \in Nat /\ x =< file.chain + BlockSize
      <4>1. PICK p \in Boundaries : x = p + RoomAt(file, p)
        BY <2>3
      <4>2. p + RoomAt(file, p) \in Nat /\ p + RoomAt(file, p) =< file.chain + BlockSize
        BY <3>1
      <4> HIDE DEF ends
      <4> QED
        BY <4>1, <4>2
    <3> HIDE DEF ends
    <3> QED
      BY <1>0, <3>2, <3>3
  <2> HIDE DEF ends
  <2>7. /\ LastOf({file.chain} \cup ends) \in {file.chain} \cup ends
        /\ \A x \in {file.chain} \cup ends : x =< LastOf({file.chain} \cup ends)
    BY <2>6, LastOfPositions
  <2> QED
    BY <2>1, <2>5, <2>6, <2>7
<1>2. CASE DataCheck \in {"mark", "unsigned_mark"}
  <2>1. EndShows = file.size + format.tight
    BY <1>2 DEF EndShows
  <2>2. size < file.size + format.tight
    BY <1>2 DEF Carried, MarkCarried
  <2> QED
    BY <1>0, <2>1, <2>2
<1>3. CASE DataCheck = "text"
  <2>1. EndShows = file.size + format.tight
    BY <1>3 DEF EndShows
  <2>2. size =< file.size /\ format.tight = 1
    BY <1>3, TextFacts DEF Carried, TextCarried
  <2> QED
    BY <1>0, <2>1, <2>2
<1>4. CASE DataCheck = "size"
  <2>1. EndShows = calc
    BY <1>4 DEF EndShows
  <2>2. size < calc
    BY <1>4 DEF Carried, SizeCarried
  <2> QED
    BY <2>1, <2>2
<1>5. CASE DataCheck \in {"picture", "first_block"}
  <2>1. EndShows = file.size
    BY <1>5 DEF EndShows
  <2>2. size < file.size
    BY <1>0, <1>5 DEF Carried, PictureCarried
  <2> QED
    BY <1>0, <2>1, <2>2
<1> QED
  BY <1>1, <1>2, <1>3, <1>4, <1>5, KindsOfData

-----------------------------------------------------------------------------
(* Every step keeps the invariant                                          *)

(* The operators on the file in progress depend on the file alone, and     *)
(* EndShows on calculated_file_size where the header tells the size.       *)
LEMMA SameFile ==
    ASSUME UNCHANGED <<file, check>>
    PROVE  /\ Boundaries' = Boundaries /\ Room' = Room
           /\ DataCheck' = DataCheck /\ FileCheck' = FileCheck
           /\ MinFilesize' = MinFilesize
           /\ Claimed(file)' = Claimed(file) /\ format' = format
           /\ LastOf(file.heads)' = LastOf(file.heads) /\ ScanStart' = ScanStart
           /\ DataCheck # "size" \/ calc' = calc => EndShows' = EndShows
           /\ \A p : RoomAt(file, p)' = RoomAt(file, p)
<1>1. format' = format
  BY DEF format
<1>2. DataCheck' = DataCheck
  BY <1>1 DEF DataCheck
<1>3. FileCheck' = FileCheck
  BY <1>1 DEF FileCheck
<1>4. Boundaries' = Boundaries
  BY DEF Boundaries
<1>5. DataCheck # "size" \/ calc' = calc => EndShows' = EndShows
  BY <1>1, <1>2, <1>4 DEF EndShows
<1>6. Room' = Room /\ ScanStart' = ScanStart /\ MinFilesize' = MinFilesize
  BY <1>1 DEF Room, ScanStart, MinFilesize
<1> QED
  BY <1>1, <1>2, <1>3, <1>4, <1>5, <1>6

(* Which files data_check reads right depends on the file alone.           *)
LEMMA SameReading ==
    ASSUME UNCHANGED file
    PROVE  ReadRight' = ReadRight
<1>1. format' = format /\ Boundaries' = Boundaries
  BY DEF format, Boundaries
<1>2. LosingFile' = LosingFile
  BY <1>1 DEF LosingFile, EnteredAt, CutAt
<1>3. MisreadFile' = MisreadFile
  BY <1>1 DEF MisreadFile, Misled, CutAt
<1> QED
  BY <1>2, <1>3 DEF ReadRight

(* The blocks so far are at most those before the next file.               *)
LEMMA BlocksBefore ==
    ASSUME file \in Files, InBlocks
    PROVE  size \in Nat /\ size =< file.span * BlockSize
<1>1. PICK k \in 0 .. file.span : size = k * BlockSize
  BY DEF InBlocks
<1>2. BlockSize \in Nat /\ file.span \in Nat
  BY FileTypes
<1>3. PICK d \in Nat : file.span = k + d
  <2>1. file.span - k \in Nat /\ file.span = k + (file.span - k)
    BY <1>2
  <2> QED
    BY <2>1
<1>4. file.span * BlockSize = k * BlockSize + d * BlockSize
  BY <1>2, <1>3
<1>5. k * BlockSize \in Nat /\ d * BlockSize \in Nat
  BY <1>2, <1>3
<1> QED
  BY <1>1, <1>4, <1>5

(* There is another block where the next file does not start.              *)
LEMMA BlockBehind ==
    ASSUME file \in Files, InBlocks, ~EndsHere
    PROVE  \E k \in 0 .. file.span : size + BlockSize = k * BlockSize
<1>1. PICK k \in 0 .. file.span : size = k * BlockSize
  BY DEF InBlocks
<1>2. BlockSize \in Nat /\ file.span \in Nat
  BY FileTypes
<1>3. k # file.span
  BY <1>1 DEF EndsHere
<1>4. k + 1 \in 0 .. file.span
  BY <1>2, <1>3
<1>5. size + BlockSize = (k + 1) * BlockSize
  BY <1>1, <1>2
<1> QED
  BY <1>4, <1>5

(* It has a number.                                                        *)
LEMMA NumberedBlock ==
    ASSUME file \in Files, InBlocks, ~EndsHere
    PROVE  \E k \in 1 .. file.span :
               size + BlockSize = k * BlockSize /\ size = (k - 1) * BlockSize
<1>1. PICK k \in 0 .. file.span : size = k * BlockSize
  BY DEF InBlocks
<1>2. BlockSize \in Nat /\ file.span \in Nat
  BY FileTypes
<1>3. k # file.span
  BY <1>1 DEF EndsHere
<1>4. k + 1 \in 1 .. file.span /\ (k + 1) - 1 = k
  BY <1>2, <1>3
<1>5. size + BlockSize = (k + 1) * BlockSize
  BY <1>1, <1>2
<1> QED
  BY <1>1, <1>4, <1>5

(* So do the sizes that file_check may leave.                              *)
LEMMA SameSizes ==
    ASSUME UNCHANGED <<file, check>>
    PROVE  Sizes(size, calc)' = Sizes(size', calc')
<1>1. /\ Boundaries' = Boundaries /\ FileCheck' = FileCheck
      /\ MinFilesize' = MinFilesize /\ format' = format
  BY SameFile
<1>2. SearchFooter(size)' = SearchFooter(size')
  BY <1>1 DEF SearchFooter
<1>3. WholeChunks(size)' = WholeChunks(size')
  BY <1>1 DEF WholeChunks
<1>4. CheckSize(size, calc)' = CheckSize(size', calc')
  BY DEF CheckSize
<1>5. LastOf({calc, file.chain - format.extra + format.head})'
         = LastOf({calc', file.chain - format.extra + format.head})
  BY <1>1
<1> QED
  BY <1>1, <1>2, <1>3, <1>4, <1>5 DEF Sizes

(* In front of the first block.                                            *)
LEMMA InitFileInv == Init => FileInv
<1> SUFFICES ASSUME Init PROVE FileInv
  OBVIOUS
<1>1. /\ file \in Files /\ size = 0 /\ calc = Claimed(file) /\ phase = "carving"
      /\ check = "format"
  BY DEF Init
<1>2. /\ BlockSize \in Nat /\ BlockSize > 0 /\ file.span \in Nat /\ Claimed(file) \in Nat
      /\ file.size \in Nat /\ file.size > 0 /\ format.tight \in Nat /\ file.heads \subseteq Nat
  BY <1>1, FileTypes
<1>3. InBlocks
  <2>1. 0 \in 0 .. file.span /\ size = 0 * BlockSize
    BY <1>1, <1>2
  <2> QED
    BY <2>1 DEF InBlocks
<1>4. OuterInv
  BY <1>1, <1>2, <1>3 DEF OuterInv
<1>5. ASSUME ReadRight, DataCheck \in Chained \cup {"sections"}
      PROVE  /\ calc \in Boundaries /\ calc >= Claimed(file)
             /\ calc + BlockSize >= size /\ calc + Room > size
             /\ calc + RoomAt(file, calc) > size
             /\ \E h \in file.heads : size < h + RoomAt(file, h)
             /\ size < file.size
             /\ \A h \in file.heads : h < calc => h < Claimed(file)
             /\ calc \in file.heads \/ (calc >= size /\ \A h \in file.heads : h =< calc)
  <2>1. /\ Claimed(file) \in Boundaries /\ Room \in Nat /\ Room > 0
        /\ LastOf(file.heads) \in file.heads
        /\ \A h \in file.heads : h < file.chain
        /\ file.chain \in Nat
    BY <1>1, <1>5, ChunkFacts, FileTypes
  <2>2. LastOf(file.heads) \in Nat
    BY <1>2, <2>1
  <2>3. calc \in file.heads \/ calc = file.chain
    BY <1>1, <2>1 DEF Boundaries
  <2>4. ASSUME NEW q \in Boundaries, q \in Nat PROVE size < q + RoomAt(file, q)
    <3>1. RoomAt(file, q) \in Nat /\ 0 < RoomAt(file, q)
      BY <1>1, <1>5, RoomFacts
    <3> QED
      BY <1>1, <2>4, <3>1
  <2>5. size < calc + RoomAt(file, calc)
    BY <1>1, <1>2, <2>1, <2>4
  <2>6. RoomAt(file, calc) \in Nat
    BY <1>1, RoomIsLength
  <2>7. calc + RoomAt(file, calc) > size
    BY <1>1, <1>2, <2>5, <2>6
  <2>8. \E h \in file.heads : size < h + RoomAt(file, h)
    <3>1. LastOf(file.heads) \in Boundaries
      BY <2>1 DEF Boundaries
    <3> QED
      BY <2>1, <2>2, <2>4, <3>1
  <2> QED
    BY <1>1, <1>2, <2>1, <2>2, <2>3, <2>7, <2>8
<1>6. ASSUME ReadRight PROVE Carried
  <2>1. DataCheck \in {"chunks", "hdus"} => ChunksCarried
    BY <1>5, <1>6 DEF Chained, ChunksCarried
  <2>2. DataCheck = "picture" => PictureCarried
    <3>1. DataCheck = "picture" => Claimed(file) \in file.heads
      BY <1>1, ChainUsed DEF Chained, ChunkFile, format
    <3> QED
      BY <1>1, <1>5, <1>6, <3>1 DEF Chained, PictureCarried
  <2>3. DataCheck = "sections" => SectionsCarried
    BY <1>5, <1>6 DEF SectionsCarried
  <2>4. DataCheck \in {"mark", "unsigned_mark"} => MarkCarried
    BY <1>1, <1>2, MarkFacts DEF MarkCarried
  <2>5. DataCheck = "text" => TextCarried
    BY <1>1, <1>2, TextFacts DEF TextCarried
  <2>6. DataCheck = "size" => SizeCarried
    BY <1>1, <1>2, SizeFacts DEF SizeCarried
  <2> QED
    BY <1>1, <2>1, <2>2, <2>3, <2>4, <2>5, <2>6 DEF Carried
<1> QED
  BY <1>1, <1>2, <1>3, <1>4, <1>6 DEF FileInv, RightInv

(* A file that data_check reads right is one whose headers are not cut     *)
(* where it matters: the header of an extension or of lyrics,              *)
LEMMA NothingMisread ==
    ASSUME RightInv, AnotherBlock
    PROVE  Misread = {}
<1>1. /\ file \in Files /\ InBlocks /\ ~EndsHere /\ Carried /\ ~MisreadFile
  BY DEF RightInv, AnotherBlock, ReadRight
<1>2. SUFFICES ASSUME NEW h \in Misread PROVE FALSE
  OBVIOUS
<1>3. /\ format.cut \in {"misreads", "stops"} /\ DataCheck \in {"hdus", "chunks"}
      /\ h \in file.heads /\ calc =< h
      /\ CutAt(h, size + BlockSize) \/ Misled(h)
  BY <1>2 DEF Misread
<1>4. ChunksCarried /\ DataCheck = format.data
  BY <1>1, <1>3, DataUsed DEF Carried
<1>5. h >= Claimed(file)
  <2>1. calc \in Boundaries /\ calc >= Claimed(file)
    BY <1>4 DEF ChunksCarried
  <2>2. Boundaries \subseteq Nat /\ h \in Nat /\ Claimed(file) \in Nat
    BY <1>1, <1>3, FileTypes DEF Boundaries
  <2> QED
    BY <1>3, <2>1, <2>2
<1>6. ASSUME CutAt(h, size + BlockSize)
      PROVE  \E k \in 1 .. file.span : CutAt(h, k * BlockSize)
  <2>1. PICK k \in 1 .. file.span : size + BlockSize = k * BlockSize
    BY <1>1, NumberedBlock
  <2> QED
    BY <1>6, <2>1
<1> QED
  BY <1>1, <1>3, <1>4, <1>5, <1>6 DEF MisreadFile

(* or an image descriptor.                                                 *)
LEMMA NothingLost ==
    ASSUME RightInv, AnotherBlock
    PROVE  ~LosesChain
<1>1. /\ file \in Files /\ InBlocks /\ ~EndsHere /\ Carried /\ ~LosingFile
  BY DEF RightInv, AnotherBlock, ReadRight
<1>2. SUFFICES ASSUME LosesChain PROVE FALSE
  OBVIOUS
<1>3. /\ DataCheck = "chunks" /\ format.cut = "loses"
      /\ calc \in file.heads \ file.blocks
      /\ CutAt(Reached, size + BlockSize)
  BY <1>2 DEF LosesChain
<1>4. ChunksCarried /\ format.data = "chunks"
  BY <1>1, <1>3, DataUsed DEF Carried
<1>5. Reached \in file.heads
  BY <1>1, <1>3, FileTypes DEF CutAt
<1>6. calc =< Reached
  BY <1>1, <1>3, <1>4, ReachedChunk DEF ChunksCarried, Chained
<1>7. EnteredAt(calc, size)
  <2>1. calc + RoomAt(file, calc) > size
    BY <1>4 DEF ChunksCarried
  <2>2. ASSUME NEW p \in file.heads, Claimed(file) =< p, p < calc
        PROVE  p + RoomAt(file, p) =< size
    <3>1. p + RoomAt(file, p) =< size \/ p < Claimed(file)
      BY <1>4, <2>2 DEF ChunksCarried
    <3>2. p \in Nat /\ Claimed(file) \in Nat
      BY <1>1, FileTypes
    <3> QED
      BY <2>2, <3>1, <3>2
  <2> QED
    BY <2>1, <2>2 DEF EnteredAt
<1>8. PICK k \in 1 .. file.span : size + BlockSize = k * BlockSize /\ size = (k - 1) * BlockSize
  BY <1>1, NumberedBlock
<1>9. EnteredAt(calc, (k - 1) * BlockSize) /\ CutAt(Reached, k * BlockSize)
  BY <1>3, <1>7, <1>8
<1> QED
  BY <1>1, <1>3, <1>4, <1>5, <1>6, <1>9 DEF LosingFile

(* A block after which the file goes on.                                   *)
LEMMA NextBlockKeeps ==
    ASSUME RightInv, NextBlock
    PROVE  RightInv'
<1>1. /\ file \in Files /\ calc \in Nat /\ InBlocks /\ Carried
  BY DEF RightInv, NextBlock, AnotherBlock
<1>2. /\ phase = "carving" /\ ~EndsHere /\ ~Checked.stop /\ calc' = Checked.calc
      /\ size' = size + BlockSize /\ file' = file /\ phase' = phase /\ check' = check
      /\ check' = "format"
  BY NothingLost DEF NextBlock, AnotherBlock, GoesOn, RightInv
<1>3. /\ Boundaries' = Boundaries /\ Room' = Room /\ format' = format
      /\ DataCheck' = DataCheck
      /\ Claimed(file)' = Claimed(file) /\ LastOf(file.heads)' = LastOf(file.heads)
      /\ ScanStart' = ScanStart
      /\ ReadRight'
      /\ \A p : RoomAt(file, p)' = RoomAt(file, p)
  BY <1>2, SameFile, SameReading DEF RightInv
<1>4. /\ size \in Nat /\ BlockSize \in Nat /\ file.size \in Nat /\ format.tight \in Nat
      /\ Claimed(file) \in Nat
  BY <1>1, BlocksBefore, FileTypes
<1>5. InBlocks'
  BY <1>1, <1>2, BlockBehind DEF InBlocks
<1>6. CASE DataCheck = "none"
  <2>1. calc' = calc
    BY <1>2, <1>6 DEF Checked, Goes
  <2> QED
    BY <1>1, <1>2, <1>3, <1>5, <1>6, <2>1 DEF RightInv, Carried
<1>7. CASE DataCheck = "chunks"
  <2>1. Checked = ChunkCheck /\ ChunksCarried
    BY <1>1, <1>7 DEF Checked, Carried
  <2>2. /\ calc' \in Boundaries /\ calc' >= size /\ calc' >= Claimed(file)
        /\ calc' + RoomAt(file, calc') > size'
        /\ format.closed => \E h \in file.heads : size' < h + RoomAt(file, h)
        /\ \A h \in file.heads :
               h < calc' => h + RoomAt(file, h) =< size' \/ h < Claimed(file)
    BY <1>1, <1>2, <1>4, <1>7, <2>1, ChunksGoOn
  <2>3. calc' \in Nat
    BY <1>1, <1>7, <2>2, ChunkFacts DEF Chained
  <2>4. calc' + BlockSize >= size'
    BY <1>2, <1>4, <2>2, <2>3
  <2>5. ChunksCarried'
    <3>1. /\ RoomAt(file, calc)' = RoomAt(file, calc')
          /\ \A h \in file.heads : RoomAt(file, h)' = RoomAt(file, h)
      BY <1>2, <1>3
    <3> QED
      BY <1>2, <1>3, <2>2, <2>4, <3>1 DEF ChunksCarried
  <2> QED
    BY <1>1, <1>2, <1>3, <1>5, <1>7, <2>3, <2>5 DEF RightInv, Carried
<1>8. CASE DataCheck = "hdus"
  <2>1. Checked = HduCheck /\ ChunksCarried
    BY <1>1, <1>8 DEF Checked, Carried
  <2>2. /\ calc' \in Boundaries /\ calc' >= size /\ calc' >= Claimed(file)
        /\ calc' + Room > size' /\ ~format.closed
        /\ \A h \in file.heads : h < calc' => h + Room =< size' \/ h < Claimed(file)
    BY <1>1, <1>2, <1>4, <1>8, <2>1, HdusGoOn
  <2>3. calc' \in Nat
    BY <1>1, <1>8, <2>2, ChunkFacts DEF Chained
  <2>4. calc' + BlockSize >= size'
    BY <1>2, <1>4, <2>2, <2>3
  <2>5. \A p : RoomAt(file, p) = Room
    BY <1>1, <1>8, AlikeFacts
  <2>6. ChunksCarried'
    BY <1>2, <1>3, <2>2, <2>4, <2>5 DEF ChunksCarried
  <2> QED
    BY <1>1, <1>2, <1>3, <1>5, <1>8, <2>3, <2>6 DEF RightInv, Carried
<1>9. CASE DataCheck = "picture"
  <2>1. Checked = PictureCheck /\ PictureCarried
    BY <1>1, <1>9 DEF Checked, Carried
  <2>2. /\ calc' \in Nat /\ size' < file.size
        /\ calc' >= size /\ calc' + Room > size'
        /\ \A h \in file.heads : h < calc' => h + Room =< size' \/ h < Claimed(file)
        /\ \/ calc' \in file.heads
           \/ /\ calc' = size' \/ calc' = ScanStart
              /\ calc' >= size' /\ \A h \in file.heads : h =< calc'
    BY <1>1, <1>2, <1>4, <1>9, <2>1, PictureGoesOn
  <2>3. calc' + BlockSize >= size'
    BY <1>2, <1>4, <2>2
  <2>4. PictureCarried'
    BY <1>2, <1>3, <2>2, <2>3 DEF PictureCarried
  <2> QED
    BY <1>1, <1>2, <1>3, <1>5, <1>9, <2>2, <2>4 DEF RightInv, Carried
<1>10. CASE DataCheck = "sections"
  <2>1. Checked = SectionCheck /\ SectionsCarried
    BY <1>1, <1>10 DEF Checked, Carried
  <2>2. /\ calc' \in Boundaries
        /\ calc' = file.chain \/ calc' + Room > size'
    BY <1>1, <1>2, <1>4, <1>10, <2>1, SectionsGoOn
  <2>3. calc' \in Nat
    BY <1>1, <1>10, <2>2, ChunkFacts
  <2>4. SectionsCarried'
    BY <1>2, <1>3, <2>2 DEF SectionsCarried
  <2> QED
    BY <1>1, <1>2, <1>3, <1>5, <1>10, <2>3, <2>4 DEF RightInv, Carried
<1>11. CASE DataCheck \in {"mark", "unsigned_mark"}
  <2>1. Checked = MarkCheck \/ Checked = UnsignedMarkCheck
    BY <1>11 DEF Checked
  <2>2. MarksSeen = {} /\ calc' = size + BlockSize
    BY <1>2, <2>1 DEF MarkCheck, UnsignedMarkCheck, Goes, Stops
  <2>3. size + BlockSize < file.size + format.tight
    BY <1>1, <1>4, <1>11, <2>2, MarksGoOn DEF Carried
  <2>4. MarkCarried' /\ calc' \in Nat
    BY <1>2, <1>3, <1>4, <2>2, <2>3 DEF MarkCarried
  <2> QED
    BY <1>1, <1>2, <1>3, <1>5, <1>11, <2>4 DEF RightInv, Carried
<1>12. CASE DataCheck = "text"
  <2>1. Checked = TextCheck /\ TextCarried
    BY <1>1, <1>12 DEF Checked, Carried
  <2>2. calc' = size + BlockSize /\ size + BlockSize =< file.size
    BY <1>1, <1>2, <1>4, <1>12, <2>1, TextGoesOn
  <2>3. TextCarried' /\ calc' \in Nat
    BY <1>2, <1>4, <2>2 DEF TextCarried
  <2> QED
    BY <1>1, <1>2, <1>3, <1>5, <1>12, <2>3 DEF RightInv, Carried
<1>13. CASE DataCheck = "size"
  <2>1. Checked = SizeCheck /\ SizeCarried
    BY <1>1, <1>13 DEF Checked, Carried
  <2>2. calc' = calc /\ ~(size + BlockSize >= calc)
    BY <1>2, <2>1 DEF SizeCheck, Goes, Stops
  <2>3. SizeCarried'
    BY <1>1, <1>2, <1>3, <1>4, <2>1, <2>2 DEF SizeCarried
  <2> QED
    BY <1>1, <1>2, <1>3, <1>5, <1>13, <2>2, <2>3 DEF RightInv, Carried
<1>14. CASE DataCheck = "first_block"
  BY <1>2, <1>14 DEF Checked, Stops
<1> QED
  BY <1>1, <1>6, <1>7, <1>8, <1>9, <1>10, <1>11, <1>12, <1>13, <1>14, KindsOfData

(* The block with which data_check stops the file.                         *)
LEMMA LastBlockKeeps ==
    ASSUME RightInv, LastBlock
    PROVE  RightInv'
<1>1. /\ file \in Files /\ calc \in Nat /\ InBlocks /\ Carried
  BY DEF RightInv, LastBlock, AnotherBlock
<1>2. /\ ~EndsHere /\ Checked.stop /\ calc' = Checked.calc
      /\ size' = size + BlockSize /\ file' = file /\ phase' = "stop" /\ check' = check
      /\ check' = "format"
      /\ \E s \in Sizes(size', calc') : kept' = IF s < MinFilesize THEN 0 ELSE s
  BY DEF LastBlock, AnotherBlock, Finish, RightInv
<1>3. /\ Boundaries' = Boundaries /\ Room' = Room /\ format' = format
      /\ DataCheck' = DataCheck /\ MinFilesize' = MinFilesize
      /\ Claimed(file)' = Claimed(file)
      /\ DataCheck # "size" \/ calc' = calc => EndShows' = EndShows
      /\ Sizes(size, calc)' = Sizes(size', calc')
      /\ ReadRight'
  BY <1>2, SameFile, SameSizes, SameReading DEF RightInv
<1>4. /\ size \in Nat /\ BlockSize \in Nat /\ file.size \in Nat /\ file.marks \subseteq Nat
  BY <1>1, BlocksBefore, FileTypes
<1>5. InBlocks'
  BY <1>1, <1>2, BlockBehind DEF InBlocks
<1>6. Finished'
  BY <1>2, <1>3 DEF Finished
<1>7. DataCheck \notin {"none", "sections"}
  <2>1. CASE DataCheck = "none"
    BY <1>2, <2>1 DEF Checked, Goes
  <2>2. CASE DataCheck = "sections"
    <3>1. Checked = SectionCheck /\ SectionsCarried
      BY <1>1, <2>2 DEF Checked, Carried
    <3> QED
      BY <1>1, <1>2, <1>4, <2>2, <3>1, SectionsGoOn
  <2> QED
    BY <2>1, <2>2
<1>8. ASSUME DataCheck = "size" => calc' = calc
      PROVE  size' < EndShows' + BlockSize
  <2>1. EndShows \in Int /\ size < EndShows /\ EndShows' = EndShows
    BY <1>1, <1>3, <1>4, <1>7, <1>8, EndIsAhead
  <2> QED
    BY <1>2, <1>4, <2>1
<1>9. CASE DataCheck = "chunks"
  <2>1. Checked = ChunkCheck /\ ChunksCarried
    BY <1>1, <1>9 DEF Checked, Carried
  <2>2. calc' = file.size /\ (~format.closed => file.size =< size')
    BY <1>1, <1>2, <1>4, <1>9, <2>1, ChunksStop
  <2>3. ChunksStopped'
    BY <1>2, <1>3, <2>2 DEF ChunksStopped
  <2> QED
    BY <1>1, <1>2, <1>3, <1>4, <1>5, <1>6, <1>8, <1>9, <2>2, <2>3 DEF RightInv, Stopped
<1>10. CASE DataCheck = "hdus"
  <2>1. Checked = HduCheck /\ ChunksCarried
    BY <1>1, <1>10 DEF Checked, Carried
  <2>2. /\ calc' \in Boundaries /\ calc' =< size'
        /\ calc' = file.chain \/ calc' + Room > size'
    BY <1>1, <1>2, <1>4, <1>10, <2>1, HdusStop
  <2>3. calc' \in Nat
    BY <1>1, <1>10, <2>2, ChunkFacts DEF Chained
  <2>4. HdusStopped'
    <3>1. BlockSize =< size'
      BY <1>2, <1>4
    <3> QED
      BY <1>2, <1>3, <2>2, <3>1 DEF HdusStopped
  <2> QED
    BY <1>1, <1>2, <1>3, <1>5, <1>6, <1>8, <1>10, <2>3, <2>4 DEF RightInv, Stopped
<1>11. CASE DataCheck = "picture"
  <2>1. Checked = PictureCheck
    BY <1>11 DEF Checked
  <2>2. calc' = file.size /\ file.size =< size'
    BY <1>1, <1>2, <1>4, <1>11, <2>1, PictureStops
  <2>3. PictureStopped'
    BY <1>2, <2>2 DEF PictureStopped
  <2> QED
    BY <1>1, <1>2, <1>3, <1>4, <1>5, <1>6, <1>8, <1>11, <2>2, <2>3 DEF RightInv, Stopped
<1>12. CASE DataCheck \in {"mark", "unsigned_mark"}
  <2>1. \/ DataCheck = "mark" /\ Checked = MarkCheck
        \/ DataCheck = "unsigned_mark" /\ Checked = UnsignedMarkCheck
    BY <1>12 DEF Checked
  <2>2. MarksSeen # {}
    BY <1>2, <2>1 DEF MarkCheck, UnsignedMarkCheck, Goes
  <2>3. \/ FirstOf(MarksSeen) = file.size /\ file.size =< size'
        \/ FirstOf(MarksSeen) = 0 /\ 0 \in file.marks /\ DataCheck = "unsigned_mark"
    BY <1>1, <1>2, <1>4, <1>12, <2>2, MarksStop
  <2>4. \/ calc' = FirstOf(MarksSeen)
        \/ DataCheck = "unsigned_mark" /\ Wrap # 0 /\ calc' = FirstOf(MarksSeen) + Wrap
    <3>1. CASE DataCheck = "mark"
      BY <1>2, <2>1, <2>2, <3>1 DEF MarkCheck, Stops
    <3>2. CASE DataCheck = "unsigned_mark"
      <4>1. calc' = calc + FirstOf(MarksSeen) - size
                      + IF FirstOf(MarksSeen) - format.head < size THEN Wrap ELSE 0
        BY <1>2, <2>1, <2>2, <3>2 DEF UnsignedMarkCheck, Stops
      <4>2. calc = size
        BY <1>1, <1>12 DEF Carried, MarkCarried
      <4>3. FirstOf(MarksSeen) \in Nat
        BY <1>4, <2>3
      <4> QED
        BY <1>4, <3>2, <4>1, <4>2, <4>3, WrapAssumption
    <3> QED
      BY <1>12, <3>1, <3>2
  <2>5. calc' \in Nat
    BY <1>4, <2>3, <2>4, WrapAssumption
  <2>6. MarkStopped'
    BY <1>2, <1>3, <2>3, <2>4 DEF MarkStopped
  <2> QED
    BY <1>1, <1>2, <1>3, <1>5, <1>6, <1>8, <1>12, <2>5, <2>6 DEF RightInv, Stopped
<1>13. CASE DataCheck = "text"
  <2>1. Checked = TextCheck /\ TextCarried
    BY <1>1, <1>13 DEF Checked, Carried
  <2>2. /\ file.size =< size'
        /\ \/ calc' = file.size
           \/ calc' = size /\ calc' =< file.size /\ file.size - calc' < format.back
    BY <1>1, <1>2, <1>4, <1>13, <2>1, TextStops
  <2>3. size = size' - BlockSize /\ calc' \in Nat
    BY <1>2, <1>4, <2>2
  <2>4. TextStopped'
    BY <1>2, <1>3, <2>2, <2>3 DEF TextStopped
  <2> QED
    BY <1>1, <1>2, <1>3, <1>5, <1>6, <1>8, <1>13, <2>3, <2>4 DEF RightInv, Stopped
<1>14. CASE DataCheck = "size"
  <2>1. Checked = SizeCheck /\ SizeCarried
    BY <1>1, <1>14 DEF Checked, Carried
  <2>2. calc' = calc /\ calc =< size'
    BY <1>1, <1>2, <1>4, <2>1 DEF SizeCheck, Goes, Stops
  <2>3. SizeStopped'
    BY <1>2, <1>3, <2>1, <2>2 DEF SizeCarried, SizeStopped
  <2> QED
    BY <1>1, <1>2, <1>3, <1>5, <1>6, <1>8, <1>14, <2>2, <2>3 DEF RightInv, Stopped
<1>15. CASE DataCheck = "first_block"
  <2>1. calc' = BlockSize /\ size' = BlockSize
    BY <1>1, <1>2, <1>4, <1>15 DEF Checked, Stops, Carried
  <2> QED
    BY <1>1, <1>2, <1>3, <1>4, <1>5, <1>6, <1>8, <1>15, <2>1 DEF RightInv, Stopped
<1> QED
  BY <1>1, <1>7, <1>9, <1>10, <1>11, <1>12, <1>13, <1>14, <1>15, KindsOfData

(* Another file, the end of the media or a header of the same format.      *)
LEMMA HeaderFoundKeeps ==
    ASSUME RightInv, HeaderFound
    PROVE  RightInv'
<1>1. /\ file \in Files /\ calc \in Nat /\ InBlocks /\ Carried /\ EndsHere
  BY DEF RightInv, HeaderFound
<1>2. /\ calc' = calc /\ size' = size /\ file' = file /\ phase' = "header"
      /\ check' = check /\ check' = "format"
      /\ \E s \in Sizes(size', calc') : kept' = IF s < MinFilesize THEN 0 ELSE s
  BY DEF HeaderFound, Finish, RightInv
<1>3. /\ Boundaries' = Boundaries /\ Room' = Room /\ format' = format
      /\ DataCheck' = DataCheck /\ MinFilesize' = MinFilesize
      /\ Claimed(file)' = Claimed(file) /\ LastOf(file.heads)' = LastOf(file.heads)
      /\ ScanStart' = ScanStart
      /\ Sizes(size, calc)' = Sizes(size', calc')
      /\ Sizes(size', calc') = Sizes(size, calc)
      /\ ReadRight' /\ RoomAt(file, calc)' = RoomAt(file, calc)
      /\ \A h \in file.heads : RoomAt(file, h)' = RoomAt(file, h)
  BY <1>2, SameFile, SameSizes, SameReading DEF RightInv
<1>4. InBlocks' /\ Finished'
  BY <1>1, <1>2, <1>3 DEF InBlocks, Finished
<1>5. Carried'
  BY <1>1, <1>2, <1>3 DEF Carried, ChunksCarried, PictureCarried, SectionsCarried, MarkCarried,
                          TextCarried, SizeCarried
<1>6. EndsHere'
  BY <1>1, <1>2, <1>3 DEF EndsHere, Refused
<1> QED
  BY <1>1, <1>2, <1>3, <1>4, <1>5, <1>6 DEF RightInv

(* A step that does nothing.                                               *)
LEMMA StutterKeeps ==
    ASSUME RightInv, UNCHANGED vars
    PROVE  RightInv'
<1>1. /\ file' = file /\ size' = size /\ calc' = calc /\ phase' = phase /\ kept' = kept
      /\ check' = check
  BY DEF vars
<1>2. /\ Boundaries' = Boundaries /\ Room' = Room /\ format' = format
      /\ DataCheck' = DataCheck /\ MinFilesize' = MinFilesize
      /\ Claimed(file)' = Claimed(file) /\ LastOf(file.heads)' = LastOf(file.heads)
      /\ EndShows' = EndShows /\ ScanStart' = ScanStart
      /\ Sizes(size, calc)' = Sizes(size', calc')
      /\ Sizes(size', calc') = Sizes(size, calc)
      /\ ReadRight' = ReadRight /\ RoomAt(file, calc)' = RoomAt(file, calc)
      /\ \A h \in file.heads : RoomAt(file, h)' = RoomAt(file, h)
  BY <1>1, SameFile, SameSizes, SameReading
<1>3. InBlocks' = InBlocks /\ Finished' = Finished
  BY <1>1, <1>2 DEF InBlocks, Finished
<1>4. Carried' = Carried
  BY <1>1, <1>2 DEF Carried, ChunksCarried, PictureCarried, SectionsCarried, MarkCarried,
                    TextCarried, SizeCarried
<1>5. Stopped' = Stopped
  BY <1>1, <1>2 DEF Stopped, ChunksStopped, HdusStopped, PictureStopped, MarkStopped,
                    TextStopped, SizeStopped
<1>6. EndsHere' = EndsHere
  BY <1>1, <1>2 DEF EndsHere, Refused
<1> QED
  BY <1>1, <1>2, <1>3, <1>4, <1>5, <1>6 DEF RightInv

(* A file that data_check reads wrong is one of a chained format.          *)
LEMMA WrongFile ==
    ASSUME ~ReadRight
    PROVE  /\ format.data \in {"chunks", "hdus"}
           /\ DataCheck \in {"chunks", "hdus"} \/ (DataCheck = "none" /\ FileCheck = "none")
<1>1. format.data \in {"chunks", "hdus"}
  BY DEF ReadRight, LosingFile, MisreadFile
<1> QED
  BY <1>1 DEF DataCheck, FileCheck

(* What data_check then leaves is still a position.                        *)
LEMMA WrongCheck ==
    ASSUME file \in Files, calc \in Nat, ~ReadRight
    PROVE  Checked.calc \in Nat
<1>1. /\ file.chain \in Nat /\ file.heads \subseteq Nat /\ format.tail \in Nat
  BY FileTypes
<1>2. ASSUME DataCheck \in {"chunks", "hdus"}, calc \in Boundaries PROVE Reached \in Nat
  <2>1. Reached \in Boundaries
    BY <1>2, ReachedChunk DEF Chained
  <2> QED
    BY <1>1, <2>1 DEF Boundaries
<1>3. CASE DataCheck = "none"
  BY <1>3 DEF Checked, Goes
<1>4. CASE DataCheck = "chunks"
  <2>1. CASE calc \notin Boundaries
    BY <1>4, <2>1 DEF Checked, ChunkCheck, Goes, Stops
  <2>2. CASE calc \in Boundaries
    <3>1. ChunkCheck.calc \in {Reached, Reached + format.tail}
      BY <2>2 DEF ChunkCheck, Goes, Stops
    <3>2. Checked = ChunkCheck
      BY <1>4 DEF Checked
    <3>3. Reached \in Nat
      BY <1>2, <1>4, <2>2
    <3> QED
      BY <1>1, <3>1, <3>2, <3>3
  <2> QED
    BY <2>1, <2>2
<1>5. CASE DataCheck = "hdus"
  <2>1. HduCheck.calc = IF calc \in Boundaries THEN Reached ELSE calc
    BY DEF HduCheck, Goes, Stops
  <2>2. Checked = HduCheck
    BY <1>5 DEF Checked
  <2> QED
    BY <1>2, <1>5, <2>1, <2>2
<1> QED
  BY <1>3, <1>4, <1>5, WrongFile

(* How a file ends, and how it goes on.                                    *)
LEMMA FinishKeeps ==
    ASSUME OuterInv, NEW how \in {"header", "stop"}, NEW n, NEW c \in Nat, Finish(how, n, c),
           \E k \in 0 .. file.span : n = k * BlockSize
    PROVE  OuterInv'
<1>1. /\ size' = n /\ calc' = c /\ phase' = how /\ file' = file /\ check' = check
      /\ \E s \in Sizes(n, c) : kept' = IF s < MinFilesize THEN 0 ELSE s
  BY DEF Finish
<1>2. MinFilesize' = MinFilesize /\ Sizes(size, calc)' = Sizes(size', calc')
  BY <1>1, SameFile, SameSizes
<1>3. Finished'
  BY <1>1, <1>2 DEF Finished
<1>4. InBlocks'
  BY <1>1 DEF InBlocks
<1> QED
  BY <1>1, <1>3, <1>4 DEF OuterInv

LEMMA GoesOnKeeps ==
    ASSUME OuterInv, AnotherBlock, NEW c \in Nat, NEW checks, GoesOn(c, checks)
    PROVE  OuterInv'
<1>1. /\ size' = size + BlockSize /\ calc' = c /\ phase' = phase /\ file' = file
      /\ phase = "carving" /\ ~EndsHere
  BY DEF GoesOn, AnotherBlock
<1>2. InBlocks'
  BY <1>1, BlockBehind DEF InBlocks, OuterInv
<1> QED
  BY <1>1, <1>2 DEF OuterInv

(* Every step of a file that data_check reads wrong.                       *)
LEMMA WrongFileKeeps ==
    ASSUME OuterInv, Next, ~ReadRight
    PROVE  OuterInv'
<1>1. /\ file \in Files /\ calc \in Nat /\ InBlocks /\ size \in Nat
  BY BlocksBefore DEF OuterInv
<1>2. /\ file.chain \in Nat /\ file.heads \subseteq Nat /\ file.marks \subseteq Nat
      /\ file.strays \subseteq Nat
  BY <1>1, FileTypes
<1>3. ASSUME AnotherBlock
      PROVE  \E k \in 0 .. file.span : size + BlockSize = k * BlockSize
  BY <1>1, <1>3, BlockBehind DEF AnotherBlock
<1>4. CASE HeaderFound
  <2>1. Finish("header", size, calc) /\ \E k \in 0 .. file.span : size = k * BlockSize
    BY <1>1, <1>4 DEF HeaderFound, InBlocks
  <2> QED
    BY <1>1, <2>1, FinishKeeps
<1>5. CASE NextBlock
  <2>1. /\ AnotherBlock /\ Checked.calc \in Nat
        /\ GoesOn(Checked.calc, IF LosesChain THEN "astray" ELSE check)
    BY <1>1, <1>5, WrongCheck DEF NextBlock
  <2> QED
    BY <2>1, GoesOnKeeps
<1>6. CASE LastBlock
  <2>1. /\ AnotherBlock /\ Checked.calc \in Nat
        /\ Finish("stop", size + BlockSize, Checked.calc)
    BY <1>1, <1>6, WrongCheck DEF LastBlock
  <2> QED
    BY <1>3, <2>1, FinishKeeps
<1>7. CASE MisreadBlock
  <2>1. AnotherBlock /\ Misread # {} /\ Misread \subseteq file.heads
    BY <1>7 DEF MisreadBlock, Misread
  <2>2. FirstOf(Misread) \in Nat
    BY <1>2, <2>1, FirstOfPositions
  <2>3. \/ Finish("stop", size + BlockSize, FirstOf(Misread))
        \/ GoesOn(FirstOf(Misread), "null")
        \/ \E c \in file.strays : GoesOn(c, check) \/ Finish("stop", size + BlockSize, c)
    BY <1>7 DEF MisreadBlock
  <2>4. CASE Finish("stop", size + BlockSize, FirstOf(Misread))
    BY <1>3, <2>1, <2>2, <2>4, FinishKeeps
  <2>5. CASE GoesOn(FirstOf(Misread), "null")
    BY <2>1, <2>2, <2>5, GoesOnKeeps
  <2>6. ASSUME NEW c \in file.strays, GoesOn(c, check) PROVE OuterInv'
    BY <1>2, <2>1, <2>6, GoesOnKeeps
  <2>7. ASSUME NEW c \in file.strays, Finish("stop", size + BlockSize, c) PROVE OuterInv'
    BY <1>2, <1>3, <2>1, <2>7, FinishKeeps
  <2> QED
    BY <2>3, <2>4, <2>5, <2>6, <2>7
<1>8. CASE AstrayBlock
  <2> DEFINE behind == {p \in file.heads : p + RoomAt(file, p) > size + BlockSize}
  <2>1. AnotherBlock
    BY <1>8 DEF AstrayBlock
  <2>2. ASSUME behind # {} PROVE FirstOf(behind) \in Nat
    <3>1. behind \subseteq Nat
      BY <1>2
    <3> QED
      BY <2>2, <3>1, FirstOfPositions
  <2>3. \/ \E c \in {calc} \cup file.strays : GoesOn(c, check)
        \/ behind # {} /\ \E checks \in {"format", "astray"} : GoesOn(FirstOf(behind), checks)
        \/ \E c \in {file.chain} \cup file.marks \cup file.strays :
               Finish("stop", size + BlockSize, c)
    BY <1>8 DEF AstrayBlock
  <2> HIDE DEF behind
  <2>4. ASSUME NEW c \in {calc} \cup file.strays, GoesOn(c, check) PROVE OuterInv'
    BY <1>1, <1>2, <2>1, <2>4, GoesOnKeeps
  <2>5. ASSUME behind # {}, NEW checks, GoesOn(FirstOf(behind), checks) PROVE OuterInv'
    BY <2>1, <2>2, <2>5, GoesOnKeeps
  <2>6. ASSUME NEW c \in {file.chain} \cup file.marks \cup file.strays,
               Finish("stop", size + BlockSize, c)
        PROVE  OuterInv'
    <3>1. c \in Nat
      BY <1>2
    <3> QED
      BY <1>3, <2>1, <2>6, <3>1, FinishKeeps
  <2> QED
    BY <2>3, <2>4, <2>5, <2>6
<1> QED
  BY <1>4, <1>5, <1>6, <1>7, <1>8 DEF Next

-----------------------------------------------------------------------------
(* What the invariant means                                                *)

(* In every state of every run the invariant holds: of a file that         *)
(* data_check reads right, that it is at a chunk the buffer still shows,   *)
(* and has stopped in time.                                                *)
THEOREM FileInvariant == Spec => []FileInv
<1>1. ASSUME FileInv, [Next]_vars
      PROVE  FileInv'
  <2>1. file' = file
    BY <1>1 DEF Next, HeaderFound, NextBlock, LastBlock, MisreadBlock, AstrayBlock, Finish,
                GoesOn, vars
  <2>2. ReadRight' = ReadRight
    BY <2>1, SameReading
  <2>3. ASSUME ReadRight PROVE RightInv'
    <3>1. RightInv
      BY <1>1, <2>3 DEF FileInv
    <3>2. ~MisreadBlock /\ ~AstrayBlock
      BY <3>1, NothingMisread DEF MisreadBlock, AstrayBlock, RightInv
    <3> QED
      BY <1>1, <3>1, <3>2, HeaderFoundKeeps, NextBlockKeeps, LastBlockKeeps, StutterKeeps
         DEF Next
  <2>4. RightInv' => OuterInv'
    BY DEF RightInv, OuterInv
  <2>5. ASSUME ~ReadRight PROVE OuterInv'
    <3>1. OuterInv
      BY <1>1 DEF FileInv
    <3>2. CASE Next
      BY <2>5, <3>1, <3>2, WrongFileKeeps
    <3>3. CASE UNCHANGED vars
      <4>1. /\ file' = file /\ size' = size /\ calc' = calc /\ phase' = phase
            /\ kept' = kept /\ check' = check
        BY <3>3 DEF vars
      <4>2. /\ MinFilesize' = MinFilesize
            /\ Sizes(size, calc)' = Sizes(size', calc')
            /\ Sizes(size', calc') = Sizes(size, calc)
        BY <4>1, SameFile, SameSizes
      <4>3. InBlocks' = InBlocks /\ Finished' = Finished
        BY <4>1, <4>2 DEF InBlocks, Finished
      <4> QED
        BY <3>1, <4>1, <4>3 DEF OuterInv
    <3> QED
      BY <1>1, <3>2, <3>3
  <2> QED
    BY <2>2, <2>3, <2>4, <2>5 DEF FileInv
<1> QED
  BY <1>1, InitFileInv, PTL DEF Spec

(* No data_check loses the chain of a file that it reads right:            *)
(* data_check_avi, data_check_fits, data_check_jpg and the others are      *)
(* called for every block, and the next chunk is then in the buffer or     *)
(* still to come, whatever the size of a block and however the chunks fall *)
(* on them.  The files it reads wrong are told by the file and the size of *)
(* a block: those with an image descriptor of GIF cut by the end of a      *)
(* block that starts in the middle of an image or an extension             *)
(* (data_check_gif2 then takes it for a length), and those with a header   *)
(* of a FITS extension, or lyrics of an MP3 file, cut by the end of a      *)
(* block, or a FITS header that data_check_fits takes for another one.     *)
THEOREM ChainIsNeverLost == Spec => []ChainNeverLost
<1>1. FileInv => ChainNeverLost
  <2> SUFFICES ASSUME FileInv, phase = "carving", DataCheck \in Chained, ReadRight
               PROVE  /\ check = "format"
                      /\ DataCheck = "picture" \/ calc \in Boundaries
                      /\ calc + RoomAt(file, calc) > size
                      /\ calc + BlockSize >= size
    BY DEF ChainNeverLost
  <2>1. RightInv
    BY DEF FileInv
  <2>2. file \in Files /\ check = "format" /\ Carried
    BY <2>1 DEF RightInv
  <2>3. CASE DataCheck \in {"chunks", "hdus"}
    BY <2>2, <2>3 DEF Carried, ChunksCarried
  <2>4. CASE DataCheck = "picture"
    <3>1. RoomAt(file, calc) = Room
      BY <2>2, <2>4, AlikeFacts
    <3> QED
      BY <2>2, <2>4, <3>1 DEF Carried, PictureCarried
  <2> QED
    BY <2>3, <2>4 DEF Chained
<1> QED
  BY <1>1, FileInvariant, PTL

(* data_check returns DC_STOP with the first block that shows the end of a *)
(* file it reads right, so that no block of the file behind it is taken.   *)
THEOREM FilesStopInTime == Spec => []StopsInTime
<1>1. FileInv => StopsInTime
  <2> SUFFICES ASSUME FileInv, ReadRight
               PROVE  /\ DataCheck \notin {"none", "sections"} /\ phase = "carving" =>
                             size < EndShows
                      /\ phase = "stop" => size < EndShows + BlockSize
    BY DEF StopsInTime
  <2>1. RightInv
    BY DEF FileInv
  <2>2. file \in Files /\ calc \in Nat /\ size \in Nat
    BY <2>1, BlocksBefore DEF RightInv
  <2>3. ASSUME DataCheck \notin {"none", "sections"}, phase = "carving"
        PROVE  size < EndShows
    BY <2>1, <2>2, <2>3, EndIsAhead DEF RightInv
  <2>4. ASSUME phase = "stop" PROVE size < EndShows + BlockSize
    BY <2>1, <2>4 DEF RightInv, Stopped
  <2> QED
    BY <2>3, <2>4
<1> QED
  BY <1>1, FileInvariant, PTL

-----------------------------------------------------------------------------
(* How files end                                                           *)

(* A header of the same format does not end a file whose copies are what   *)
(* CopiesTold says: it is where a chunk is expected, or in a segment of a  *)
(* picture, or comes while file_check still rejects what has been written. *)
LEMMA CopiesRefused ==
    ASSUME file \in Files, check = "format", Carried, calc \in Nat, NEW k \in file.copies,
           size = k * BlockSize, size \in Nat, size > 0
    PROVE  Refused
<1> USE DEF Room
<1>1. CopiesTold(file)
  BY FilesAssumption DEF WellFormed
<1>2. /\ BlockSize \in Nat /\ file.size \in Nat /\ Claimed(file) \in Nat
      /\ format.head \in Nat /\ format.tight \in Nat
  BY FileTypes
<1>3. ASSUME BlockSize >= format.need
      PROVE  DataCheck = format.data /\ FileCheck = format.file
  BY <1>3 DEF DataCheck, FileCheck
<1>4. CASE format.again = "ignored" \/ (format.again = "copy" /\ size = format.extra)
  BY <1>4 DEF Refused
<1>5. CASE /\ BlockSize >= format.need
           /\ format.again = "chunk" /\ format.data = "chunks"
           /\ size \in file.heads
           /\ \A h \in file.heads : 0 < h => h >= Claimed(file)
           /\ \A g, h \in file.heads : g < h => g + RoomAt(file, g) =< h
  <2>1. DataCheck \in Chained \cup {"sections"} /\ ChunksCarried
    BY <1>3, <1>5 DEF Chained, Carried
  <2>2. /\ file.heads \subseteq Nat /\ size < file.chain /\ file.chain \in Nat
        /\ RoomAt(file, size) \in Nat /\ RoomAt(file, size) > 0
    <3>1. size \in Boundaries
      BY <1>5 DEF Boundaries
    <3> QED
      BY <1>5, <2>1, <3>1, ChunkFacts, RoomFacts, FileTypes
  <2>3. CASE calc = size
    BY <1>5, <2>3 DEF Refused
  <2>4. CASE calc > size
    <3>1. size + RoomAt(file, size) =< size \/ size < Claimed(file)
      BY <1>5, <2>1, <2>4 DEF ChunksCarried
    <3>2. ~(size + RoomAt(file, size) =< size)
      BY <2>2
    <3>3. size >= Claimed(file)
      BY <1>5
    <3> QED
      BY <1>2, <3>1, <3>2, <3>3
  <2>5. CASE calc < size
    <3>1. calc \in file.heads
      BY <2>1, <2>2, <2>5 DEF ChunksCarried, Boundaries
    <3>2. calc + RoomAt(file, calc) =< size
      BY <1>5, <2>5, <3>1
    <3>3. calc + RoomAt(file, calc) > size /\ RoomAt(file, calc) \in Nat
      BY <2>1, RoomIsLength DEF ChunksCarried
    <3> QED
      BY <1>2, <3>2, <3>3
  <2> QED
    BY <2>3, <2>4, <2>5
<1>6. ASSUME \/ FileCheck = "size"
             \/ FileCheck = "segments" /\ calc \in file.heads,
             size < calc, format.again = "checked"
      PROVE  Refused
  <2>1. Sizes(size, calc) = {0}
    BY <1>6 DEF Sizes, CheckSize, Segments
  <2> QED
    BY <1>6, <2>1 DEF Refused
<1>7. CASE /\ BlockSize >= format.need
           /\ format.again = "checked" /\ format.data = "size" /\ format.file = "size"
           /\ size < file.size
  <2>1. DataCheck = "size" /\ SizeCarried
    BY <1>3, <1>7 DEF Carried
  <2>2. size < calc
    BY <1>2, <1>7, <2>1, SizeFacts DEF SizeCarried
  <2> QED
    BY <1>3, <1>6, <1>7, <2>2
<1>8. CASE /\ BlockSize >= format.need
           /\ format.again = "checked" /\ format.data = "picture"
           /\ \E g, h \in file.heads :
                 /\ g + (format.head + format.tight) =< size /\ size < h
                 /\ \A p \in file.heads : p =< g \/ p >= h
           /\ \A p \in file.heads : p >= Claimed(file)
  <2>1. DataCheck = "picture" /\ PictureCarried
    BY <1>3, <1>8 DEF Carried
  <2>2. FileCheck = "segments"
    BY <2>1, ChainUsed DEF FileChecks, Chained
  <2>3. file.heads \subseteq Nat
    BY FileTypes
  <2>4. PICK g \in file.heads, h \in file.heads :
               /\ g + (format.head + format.tight) =< size /\ size < h
               /\ \A p \in file.heads : p =< g \/ p >= h
    BY <1>8
  <2>5. calc \in file.heads
    <3>1. CASE h < calc
      <4>1. h + (format.head + format.tight) =< size \/ h < Claimed(file)
        BY <2>1, <3>1 DEF PictureCarried
      <4> QED
        BY <1>2, <1>8, <2>3, <2>4, <4>1
    <3>2. CASE ~(h < calc)
      BY <2>1, <2>3, <2>4, <3>2 DEF PictureCarried
    <3> QED
      BY <3>1, <3>2
  <2>6. size < calc
    <3>1. calc + (format.head + format.tight) > size
      BY <2>1 DEF PictureCarried
    <3>2. ~(calc =< g)
      BY <1>2, <2>3, <2>4, <3>1
    <3> QED
      BY <2>3, <2>4, <2>5, <3>2
  <2> QED
    BY <1>6, <1>8, <2>2, <2>5, <2>6
<1> QED
  BY <1>1, <1>4, <1>5, <1>7, <1>8 DEF CopiesTold, format

(* So a file that data_check does not stop ends in front of the next file. *)
LEMMA HeaderIsTheNextFile ==
    ASSUME RightInv, phase = "header"
    PROVE  size = file.span * BlockSize
<1>1. /\ file \in Files /\ calc \in Nat /\ InBlocks /\ Carried /\ EndsHere /\ size \in Nat
      /\ check = "format"
  BY BlocksBefore DEF RightInv
<1>2. SUFFICES ASSUME size > 0, size \div BlockSize \in file.copies, ~Refused PROVE FALSE
  BY <1>1 DEF EndsHere
<1>3. PICK k \in 0 .. file.span : size = k * BlockSize
  BY <1>1 DEF InBlocks
<1>4. BlockSize \in Nat /\ BlockSize > 0 /\ k \in Nat
  BY <1>1, FileTypes
<1>5. size \div BlockSize = k
  BY <1>3, <1>4
<1> QED
  BY <1>1, <1>2, <1>3, <1>5, CopiesRefused

(* What is known where a file ends.                                        *)
LEMMA EndFacts ==
    ASSUME RightInv, phase # "carving"
    PROVE  /\ file \in Files /\ calc \in Nat /\ size \in Nat
           /\ file.span * BlockSize \in Nat /\ BlockSize =< file.span * BlockSize
           /\ size =< file.span * BlockSize
           /\ phase = "header" => Carried /\ size = file.span * BlockSize
           /\ phase # "header" => phase = "stop" /\ Stopped
           /\ Finished /\ Ended
<1>1. /\ file \in Files /\ calc \in Nat /\ size \in Nat /\ size =< file.span * BlockSize
  BY BlocksBefore DEF RightInv
<1>2. file.span * BlockSize \in Nat /\ BlockSize =< file.span * BlockSize
  <2>1. BlockSize \in Nat /\ file.span \in Nat /\ file.span > 0
    BY <1>1, FileTypes
  <2>2. PICK d \in Nat : file.span = d + 1
    <3>1. file.span - 1 \in Nat /\ file.span = (file.span - 1) + 1
      BY <2>1
    <3> QED
      BY <3>1
  <2>3. file.span * BlockSize = d * BlockSize + BlockSize /\ d * BlockSize \in Nat
    BY <2>1, <2>2
  <2> QED
    BY <2>1, <2>3
<1> QED
  BY <1>1, <1>2, HeaderIsTheNextFile DEF RightInv, Ended

(* SearchFooter and WholeChunks find what they look for.                   *)
LEMMA WholeChunksFound ==
    ASSUME file \in Files, NEW n \in Nat, Boundaries \subseteq Nat
    PROVE  /\ WholeChunks(n) \in {0} \cup Boundaries /\ WholeChunks(n) \in Nat
           /\ WholeChunks(n) =< n
           /\ \A p \in Boundaries : p =< n => p =< WholeChunks(n)
<1> DEFINE W == {0} \cup {p \in Boundaries : p =< n}
<1>1. W \subseteq Nat /\ W # {} /\ \A p \in W : p =< n
  <2>1. 0 \in W
    OBVIOUS
  <2>2. \A p \in W : p \in Nat /\ p =< n
    OBVIOUS
  <2> QED
    BY <2>1, <2>2
<1>2. LastOf(W) \in W /\ \A p \in W : p =< LastOf(W)
  BY <1>1, LastOfPositions
<1>3. WholeChunks(n) = LastOf(W)
  BY DEF WholeChunks
<1> QED
  BY <1>1, <1>2, <1>3

LEMMA FooterFound ==
    ASSUME file \in Files, NEW n \in Nat
    PROVE  /\ SearchFooter(n) \in Nat /\ SearchFooter(n) =< n
           /\ \/ n =< format.extra /\ SearchFooter(n) = n
              \/ SearchFooter(n) = 0
              \/ SearchFooter(n) - format.extra \in file.marks
           /\ FooterFile(file) /\ file.size =< n => SearchFooter(n) = file.size
<1> DEFINE found == {m \in file.marks : m > format.head /\ m + format.extra =< n}
<1>1. /\ file.marks \subseteq Nat /\ format.extra \in Nat /\ format.head \in Nat
      /\ file.size \in Nat
  BY FileTypes
<1>2. SearchFooter(n) = IF n =< format.extra THEN n
                        ELSE IF found = {} THEN 0 ELSE LastOf(found) + format.extra
  BY DEF SearchFooter
<1>3. ASSUME found # {}
      PROVE  LastOf(found) \in found /\ \A m \in found : m =< LastOf(found)
  <2>1. found \subseteq Nat /\ \A m \in found : m =< n
    BY <1>1
  <2> QED
    BY <1>3, <2>1, LastOfPositions
<1>4. ASSUME FooterFile(file), file.size =< n
      PROVE  SearchFooter(n) = file.size
  <2> DEFINE end == file.size - format.extra
  <2>1. /\ end \in file.marks /\ end > format.head
        /\ \A m \in file.marks : m =< end
    BY <1>4 DEF FooterFile, format
  <2>2. end \in Nat /\ end + format.extra = file.size
    BY <1>1, <2>1
  <2>3. end \in found
    BY <1>4, <2>1, <2>2
  <2>4. LastOf(found) \in found /\ end =< LastOf(found)
    BY <1>3, <2>3
  <2>5. LastOf(found) \in file.marks
    BY <2>4
  <2>6. LastOf(found) =< end /\ LastOf(found) \in Nat
    BY <1>1, <2>1, <2>5
  <2> HIDE DEF found, end
  <2>7. LastOf(found) = end
    BY <2>2, <2>4, <2>6
  <2>8. ~(n =< format.extra)
    BY <1>1, <1>4, <2>1 DEF end
  <2> QED
    BY <1>2, <2>2, <2>3, <2>7, <2>8
<1>5. CASE n =< format.extra
  BY <1>2, <1>4, <1>5
<1>6. CASE n > format.extra /\ found = {}
  BY <1>1, <1>2, <1>4, <1>6
<1>7. CASE n > format.extra /\ found # {}
  <2>1. SearchFooter(n) = LastOf(found) + format.extra
    BY <1>1, <1>2, <1>7
  <2>2. LastOf(found) \in file.marks /\ LastOf(found) \in Nat /\ LastOf(found) + format.extra =< n
    BY <1>1, <1>3, <1>7
  <2> HIDE DEF found
  <2> QED
    BY <1>1, <1>4, <2>1, <2>2
<1> QED
  BY <1>1, <1>5, <1>6, <1>7

(* A chain of chunks: the file ends with its last byte, or what is lost is *)
(* one of the losses WholeFileKept names; a torn one is rejected or ends   *)
(* with a whole chunk.                                                     *)
LEMMA ChunksEnd ==
    ASSUME RightInv, phase # "carving", DataCheck = "chunks"
    PROVE  WholeFileKept /\ TornFile
<1> DEFINE after == file.span * BlockSize
<1>1. /\ file \in Files /\ calc \in Nat /\ size \in Nat
      /\ after \in Nat /\ BlockSize =< after /\ size =< after
      /\ phase = "header" => ChunksCarried /\ size = after
      /\ phase # "header" => phase = "stop" /\ ChunksStopped
      /\ Finished
  BY EndFacts DEF Stopped, Carried
<1>2. DataCheck \in Chained \cup {"sections"}
  BY DEF Chained
<1>3. /\ ChunkFile(file) /\ FileCheck = format.file /\ format.data = "chunks"
      /\ FileCheck \in {"none", "size", "max_size", "scan", "cutting_scan", "header_scan",
                        "whole_chunks", "trailer"}
  BY <1>1, <1>2, ChainUsed DEF FileChecks
<1>4. /\ BlockSize \in Nat /\ format.head \in Nat /\ format.tight \in Nat /\ format.tail \in Nat
      /\ format.extra \in Nat /\ MinOf(file) \in Nat /\ MinOf(file) =< file.size
      /\ file.size \in Nat /\ file.chain \in Nat
  BY <1>1, FileTypes
<1>5. /\ Boundaries \subseteq Nat /\ file.chain \in Boundaries
      /\ \A p \in Boundaries : p =< file.chain
      /\ \A p \in Boundaries : p \in file.heads \/ p = file.chain
      /\ file.size = file.chain + format.tail
  <2>1. FileCheck # "sections"
    BY <1>3
  <2> QED
    BY <1>1, <1>2, <2>1, ChunkFacts DEF Boundaries
<1>6. /\ format.tail > 0 => FileCheck = "size" /\ ~format.closed
      /\ format.closed => FileCheck \in {"size", "header_scan", "trailer"}
      /\ FileCheck \in {"header_scan", "trailer"} => format.closed
      /\ FileCheck = "header_scan" => format.head =< format.extra
      /\ FileCheck = "whole_chunks" => file.chain > BlockSize
  BY <1>3 DEF ChunkFile, format
<1>7. PICK s \in Sizes(size, calc) : kept = IF s < MinOf(file) THEN 0 ELSE s
  BY <1>1 DEF Finished, MinFilesize
<1>8. /\ Whole <=> file.size =< after
  BY DEF Whole
<1> HIDE DEF after
<1>9. ASSUME phase = "header"
      PROVE  /\ calc \in Boundaries /\ calc + RoomAt(file, calc) > after
             /\ calc >= MinOf(file)
             /\ calc =< file.size /\ size = after
             /\ Whole => calc =< size
  <2>1. calc \in Boundaries /\ calc + RoomAt(file, calc) > size /\ size = after
    BY <1>1, <1>9 DEF ChunksCarried
  <2>2. RoomAt(file, calc) \in Nat
    BY <1>1, RoomIsLength
  <2>3. calc + RoomAt(file, calc) > BlockSize
    BY <1>1, <1>4, <2>1, <2>2
  <2>4. calc >= MinOf(file)
    BY <1>1, <1>2, <2>1, <2>3, RoomFacts
  <2> QED
    BY <1>1, <1>4, <1>5, <1>8, <2>1, <2>4
<1>10. ASSUME phase # "header"
       PROVE  /\ phase = "stop" /\ calc = file.size /\ calc >= MinOf(file)
              /\ format.closed => file.size = file.chain
              /\ ~format.closed => file.size =< size
              /\ ~Whole => format.closed
  BY <1>1, <1>4, <1>5, <1>6, <1>8, <1>10 DEF ChunksStopped
<1> USE DEF ChunksStopped
<1>11. CASE FileCheck \in {"size", "max_size"}
  <2>1. \/ s = calc /\ calc =< size
        \/ s = 0 /\ size < calc /\ FileCheck = "size"
        \/ s = size /\ size =< calc /\ FileCheck = "max_size"
    <3>1. CASE FileCheck = "size"
      <4>1. s = CheckSize(size, calc)
        BY <1>7, <3>1 DEF Sizes
      <4> QED
        BY <1>1, <3>1, <4>1 DEF CheckSize
    <3>2. CASE FileCheck = "max_size"
      <4>1. s = IF size > calc THEN calc ELSE size
        BY <1>7, <3>2 DEF Sizes
      <4> QED
        BY <1>1, <3>2, <4>1
    <3> QED
      BY <1>11, <3>1, <3>2
  <2>2. kept =< size /\ (kept = 0 \/ kept = calc \/ FileCheck = "max_size") /\ kept \in Nat
    BY <1>1, <1>4, <1>7, <2>1
  <2>3. TornFile
    <3>1. ASSUME ~Whole, FileCheck = "size" PROVE calc \in Boundaries
      BY <1>5, <1>9, <1>10, <3>1
    <3> QED
      BY <1>11, <2>2, <3>1 DEF TornFile, EndKnown, Scans
  <2>4. ASSUME Whole
        PROVE  kept = calc \/ (kept = 0 /\ size < calc /\ phase = "stop" /\ FileCheck = "size"
                               /\ format.closed)
    <3>1. CASE phase = "header"
      BY <1>1, <1>4, <1>7, <1>9, <2>1, <2>4, <3>1
    <3>2. CASE phase # "header"
      BY <1>1, <1>4, <1>6, <1>7, <1>10, <2>1, <3>2
    <3> QED
      BY <3>1, <3>2
  <2>5. ASSUME Whole, kept = calc
        PROVE  \/ kept = file.size
               \/ kept \in Hidden
               \/ HiddenTail /\ kept =< file.size
    <3>1. CASE phase = "header"
      <4>1. CASE calc = file.chain
        <5>1. kept + RoomAt(file, kept) > after
          BY <1>9, <2>5, <3>1
        <5> QED
          BY <1>4, <1>5, <2>5, <4>1, <5>1 DEF HiddenTail, after
      <4>2. CASE calc \in file.heads
        BY <1>9, <2>5, <3>1, <4>2 DEF Hidden, after
      <4> QED
        BY <1>5, <1>9, <3>1, <4>1, <4>2
    <3>2. CASE phase # "header"
      BY <1>10, <2>5, <3>2
    <3> QED
      BY <3>1, <3>2
  <2>6. ASSUME Whole PROVE kept =< file.size
    BY <1>4, <1>9, <1>10, <2>4, <2>6
  <2>7. WholeFileKept
    BY <1>4, <2>4, <2>5, <2>6 DEF WholeFileKept, HiddenLastChunk, CutLastChunk
  <2> QED
    BY <2>3, <2>7
<1>12. CASE FileCheck = "none"
  <2>1. s = size /\ ~format.closed /\ ~EndKnown
    BY <1>6, <1>7, <1>12 DEF Sizes, EndKnown, Scans
  <2>2. kept =< size
    BY <1>1, <1>4, <1>7, <2>1
  <2>3. Whole => kept = size /\ file.size =< size
    BY <1>1, <1>4, <1>7, <1>8, <1>9, <1>10, <2>1
  <2> QED
    BY <2>1, <2>2, <2>3 DEF TornFile, WholeFileKept
<1>13. CASE FileCheck \in {"scan", "cutting_scan"}
  <2>1. \/ s = file.size /\ file.size =< size
        \/ (s = 0 \/ s \in Boundaries) /\ s =< size /\ s \in Nat /\ size < file.size
    <3>1. CASE FileCheck = "scan"
      <4>1. s = IF size < file.size THEN 0 ELSE file.size
        BY <1>7, <3>1 DEF Sizes
      <4> QED
        BY <1>1, <1>4, <4>1
    <3>2. CASE FileCheck = "cutting_scan"
      <4>1. s = IF size < file.size THEN WholeChunks(size) ELSE file.size
        BY <1>7, <3>2 DEF Sizes
      <4> QED
        BY <1>1, <1>4, <1>5, <4>1, WholeChunksFound
    <3> QED
      BY <1>13, <3>1, <3>2
  <2>2. kept =< size /\ (kept = 0 \/ kept \in Boundaries \/ (kept = file.size /\ file.size =< size))
    <3>1. kept = 0 \/ kept = s
      BY <1>7
    <3>2. CASE kept = 0
      BY <1>1, <3>2
    <3>3. CASE kept = s
      BY <1>1, <1>4, <2>1, <3>3
    <3> QED
      BY <3>1, <3>2, <3>3
  <2>3. Whole => kept = file.size
    BY <1>1, <1>4, <1>6, <1>7, <1>8, <1>9, <1>10, <1>13, <2>1
  <2>4. TornFile
    BY <1>1, <1>4, <1>8, <2>2 DEF TornFile
  <2>5. WholeFileKept
    BY <1>4, <2>3 DEF WholeFileKept
  <2> QED
    BY <2>4, <2>5
<1>14. CASE FileCheck = "header_scan"
  <2>1. s = IF size < LastOf({calc, file.chain - format.extra + format.head})
            THEN 0 ELSE file.size
    BY <1>7, <1>14 DEF Sizes
  <2>2. file.size = file.chain /\ format.head =< format.extra /\ calc =< file.size
    BY <1>4, <1>5, <1>6, <1>9, <1>10, <1>14
  <2>3. LastOf({calc, file.chain - format.extra + format.head}) =< file.size
    <3> DEFINE e == file.chain - format.extra + format.head
    <3>1. e \in Int /\ e =< file.size /\ calc \in Int
      BY <1>1, <1>4, <2>2
    <3> HIDE DEF e
    <3>2. LastOf({calc, e}) =< file.size
      BY <2>2, <3>1, LaterOne
    <3> QED
      BY <3>2 DEF e
  <2>4. LastOf({calc, file.chain - format.extra + format.head}) \in Int
    <3>1. calc \in Int /\ file.chain - format.extra + format.head \in Int
      BY <1>1, <1>4
    <3> QED
      BY <3>1, LaterOne
  <2>5. kept \in {0, file.size}
    BY <1>4, <1>7, <2>1
  <2>6. Whole => kept = file.size \/ (kept = 0 /\ size < calc /\ phase = "stop")
    <3>1. CASE size < file.size
      BY <1>1, <1>4, <1>8, <1>9, <1>10, <2>5, <3>1
    <3>2. CASE file.size =< size
      BY <1>1, <1>4, <1>7, <2>1, <2>3, <2>4, <3>2
    <3> QED
      BY <1>1, <1>4, <3>1, <3>2
  <2>7. WholeFileKept
    BY <1>4, <1>6, <1>14, <2>5, <2>6 DEF WholeFileKept, CutLastChunk
  <2>8. TornFile
    BY <1>5, <1>14, <2>2, <2>5 DEF TornFile
  <2> QED
    BY <2>7, <2>8
<1>15. CASE FileCheck = "whole_chunks"
  <2>1. s = IF WholeChunks(size) =< BlockSize THEN 0 ELSE WholeChunks(size)
    BY <1>7, <1>15 DEF Sizes
  <2>2. /\ WholeChunks(size) \in {0} \cup Boundaries /\ WholeChunks(size) =< size
        /\ WholeChunks(size) \in Nat
        /\ file.chain =< size => file.chain =< WholeChunks(size)
    BY <1>1, <1>5, WholeChunksFound
  <2>3. file.size = file.chain /\ ~format.closed /\ file.chain > BlockSize
    BY <1>4, <1>5, <1>6, <1>15
  <2>4. kept \in {0} \cup Boundaries /\ kept =< size
    BY <1>1, <1>4, <1>7, <2>1, <2>2
  <2>5. Whole => file.size =< size
    BY <1>4, <1>8, <1>9, <1>10, <2>3
  <2>6. Whole => kept = file.size
    BY <1>1, <1>4, <1>5, <1>7, <2>1, <2>2, <2>3, <2>5
  <2> QED
    BY <1>4, <2>4, <2>6 DEF TornFile, WholeFileKept
<1>16. CASE FileCheck = "trailer"
  <2>1. s = IF calc \in {file.chain} \cup file.marks /\ calc =< size THEN calc ELSE 0
    BY <1>7, <1>16 DEF Sizes
  <2>2. file.size = file.chain /\ format.closed
    BY <1>4, <1>5, <1>6, <1>16
  <2>3. calc \in Boundaries /\ calc =< file.size
    BY <1>5, <1>9, <1>10, <2>2
  <2>4. kept \in {0, calc} /\ kept =< size
    BY <1>1, <1>4, <1>7, <2>1
  <2>5. ASSUME Whole, kept # file.size
        PROVE  HiddenLastChunk \/ CutLastChunk
    <3>1. calc = file.chain /\ calc =< size => kept = file.size
      BY <1>4, <1>7, <2>1, <2>2
    <3>2. CASE phase = "header"
      <4>1. calc \in file.heads /\ calc + RoomAt(file, calc) > after
        BY <1>5, <1>9, <2>5, <3>1, <3>2
      <4>2. calc \in Hidden
        BY <4>1 DEF Hidden, after
      <4> QED
        BY <1>16, <2>4, <4>2 DEF HiddenLastChunk
    <3>3. CASE phase # "header"
      <4>1. calc = file.size /\ kept = 0
        BY <1>10, <2>4, <2>5, <3>3
      <4>2. ~(calc =< size)
        BY <2>2, <2>5, <3>1, <4>1
      <4> QED
        BY <1>1, <2>2, <4>1, <4>2 DEF CutLastChunk
    <3> QED
      BY <3>2, <3>3
  <2>6. kept =< file.size
    BY <1>4, <2>3, <2>4
  <2>7. WholeFileKept
    BY <1>4, <2>5, <2>6 DEF WholeFileKept
  <2>8. TornFile
    BY <2>3, <2>4 DEF TornFile
  <2> QED
    BY <2>7, <2>8
<1> QED
  BY <1>3, <1>11, <1>12, <1>13, <1>14, <1>15, <1>16

(* file_check_size: the file is cut to calculated_file_size, or rejected.  *)
LEMMA SizeChecked ==
    ASSUME RightInv, phase # "carving", FileCheck = "size"
    PROVE  /\ kept = 0 \/ kept = calc
           /\ kept = calc /\ kept # 0 => calc =< size
           /\ calc =< size /\ MinOf(file) =< calc => kept = calc
<1>1. /\ file \in Files /\ calc \in Nat /\ size \in Nat /\ Finished /\ MinOf(file) \in Nat
  BY EndFacts, FileTypes
<1>2. PICK s \in Sizes(size, calc) : kept = IF s < MinOf(file) THEN 0 ELSE s
  BY <1>1 DEF Finished, MinFilesize
<1>3. s = IF size < calc THEN 0 ELSE calc
  BY <1>2 DEF Sizes, CheckSize
<1> QED
  BY <1>1, <1>2, <1>3

(* The header and data units of a FITS file.                               *)
LEMMA HdusEnd ==
    ASSUME RightInv, phase # "carving", DataCheck = "hdus"
    PROVE  WholeFileKept /\ TornFile
<1> DEFINE after == file.span * BlockSize
<1>1. /\ file \in Files /\ calc \in Nat /\ size \in Nat
      /\ after \in Nat /\ BlockSize =< after /\ size =< after
      /\ phase = "header" => ChunksCarried /\ size = after
      /\ phase # "header" => phase = "stop" /\ HdusStopped
      /\ Finished
  BY EndFacts DEF Stopped, Carried
<1>2. DataCheck \in Chained \cup {"sections"}
  BY DEF Chained
<1>3. FileCheck = "size" /\ format.tail = 0
  <2>1. ChunkFile(file) /\ format.data = "hdus" /\ FileCheck \in FileChecks("hdus")
    BY <1>1, <1>2, ChainUsed
  <2>2. ~(format.tail > 0) /\ format.tail \in Nat
    BY <1>1, <2>1, FileTypes DEF ChunkFile, format
  <2> QED
    BY <2>1, <2>2 DEF FileChecks
<1>4. /\ BlockSize \in Nat /\ Room \in Nat /\ format.head \in Nat /\ format.tight \in Nat
      /\ MinOf(file) \in Nat /\ MinOf(file) =< file.size
      /\ file.size \in Nat /\ file.chain \in Nat
  BY <1>1, <1>2, ChunkFacts, FileTypes
<1>5. /\ Boundaries \subseteq Nat
      /\ \A p \in Boundaries : p =< file.chain
      /\ \A p \in Boundaries : p \in file.heads \/ p = file.chain
      /\ \A p \in Boundaries : p + Room > BlockSize => p >= MinOf(file)
      /\ file.size = file.chain
  <2>1. FileCheck # "sections" /\ file.size = file.chain + format.tail
    BY <1>1, <1>2, <1>3, ChunkFacts
  <2>2. ASSUME NEW p \in Boundaries, p + Room > BlockSize PROVE p >= MinOf(file)
    <3>1. RoomAt(file, p) = Room
      BY <1>1, AlikeFacts
    <3> QED
      BY <1>1, <1>2, <2>2, <3>1, RoomFacts
  <2> QED
    BY <1>1, <1>2, <1>3, <1>4, <2>1, <2>2, ChunkFacts DEF Boundaries
<1>6. Whole <=> file.size =< after
  BY DEF Whole
<1> HIDE DEF after
<1>7. /\ kept = 0 \/ kept = calc
      /\ kept = calc /\ kept # 0 => calc =< size
      /\ calc =< size /\ MinOf(file) =< calc => kept = calc
  BY <1>3, SizeChecked
<1>8. /\ calc \in Boundaries /\ (calc = file.chain \/ calc + Room > size)
      /\ phase = "header" => calc + Room > size
      /\ phase # "header" => calc =< size
  <2>1. RoomAt(file, calc) = Room
    BY <1>1, AlikeFacts
  <2> QED
    BY <1>1, <2>1 DEF ChunksCarried, HdusStopped
<1>9. calc =< file.size
  BY <1>5, <1>8
<1>10. calc =< size => MinOf(file) =< calc
  <2>1. CASE calc = file.chain
    BY <1>4, <1>5, <2>1
  <2>2. CASE calc + Room > size
    <3>1. BlockSize =< size
      <4>1. CASE phase = "header"
        BY <1>1, <4>1
      <4>2. CASE phase # "header"
        BY <1>1, <4>2 DEF HdusStopped
      <4> QED
        BY <4>1, <4>2
    <3>2. calc + Room > BlockSize
      BY <1>1, <1>4, <2>2, <3>1
    <3> QED
      BY <1>5, <1>8, <3>2
  <2> QED
    BY <1>8, <2>1, <2>2
<1>11. Whole => kept = calc
  BY <1>1, <1>4, <1>6, <1>7, <1>8, <1>9, <1>10
<1>12. ASSUME Whole, kept # file.size
       PROVE  HiddenExtension
  <2>1. kept \in file.heads /\ kept + Room > size
    BY <1>5, <1>8, <1>11, <1>12
  <2>2. kept + format.head + format.tight > size
    BY <1>1, <1>4, <1>11, <1>12, <2>1 DEF Room
  <2> QED
    BY <2>1, <2>2 DEF HiddenExtension
<1>13. WholeFileKept
  BY <1>4, <1>7, <1>9, <1>11, <1>12 DEF WholeFileKept
<1>14. kept =< size
  BY <1>1, <1>7
<1>15. kept \in {0} \cup Boundaries
  BY <1>7, <1>8
<1> QED
  BY <1>13, <1>14, <1>15 DEF TornFile

(* The segments and the scan of a picture.                                 *)
LEMMA PictureEnds ==
    ASSUME RightInv, phase # "carving", DataCheck = "picture"
    PROVE  WholeFileKept /\ TornFile
<1>1. /\ file \in Files /\ calc \in Nat /\ size \in Nat
      /\ phase = "header" => PictureCarried /\ size = file.span * BlockSize
      /\ phase # "header" => phase = "stop" /\ PictureStopped
  BY EndFacts DEF Stopped, Carried
<1>2. FileCheck = "segments"
  BY <1>1, ChainUsed DEF FileChecks, Chained
<1>3. /\ MinOf(file) \in Nat /\ MinOf(file) =< file.size /\ file.size \in Nat
      /\ file.heads \subseteq Nat
  BY <1>1, FileTypes
<1>4. /\ kept = 0 \/ kept = calc
      /\ kept = calc /\ kept # 0 /\ calc \in file.heads => calc =< size
      /\ calc =< size /\ MinOf(file) =< calc => kept = calc
  <2>1. Finished
    BY EndFacts
  <2>2. PICK s \in Sizes(size, calc) : kept = IF s < MinOf(file) THEN 0 ELSE s
    BY <2>1 DEF Finished, MinFilesize
  <2>3. s = IF size < calc /\ calc \in file.heads THEN 0 ELSE calc
    BY <1>2, <2>2 DEF Sizes, Segments
  <2> QED
    BY <1>1, <1>3, <2>2, <2>3
<1>6. CASE phase = "header"
  <2>1. ~Whole
    BY <1>1, <1>3, <1>6 DEF Whole, PictureCarried
  <2>2. \/ kept =< size /\ (kept = 0 \/ kept \in file.heads \/ kept = size)
        \/ kept = ScanStart
    <3>1. CASE calc \in file.heads
      BY <1>1, <1>3, <1>4, <3>1
    <3>2. CASE calc = size \/ calc = ScanStart
      BY <1>1, <1>4, <3>2
    <3> QED
      BY <1>1, <1>6, <3>1, <3>2 DEF PictureCarried
  <2>3. kept \in {0} \cup Boundaries \/ kept = size \/ kept = ScanStart
    BY <2>2 DEF Boundaries
  <2>4. kept =< size \/ kept = ScanStart
    BY <2>2
  <2> QED
    BY <1>2, <2>1, <2>3, <2>4 DEF TornFile, WholeFileKept
<1>7. CASE phase # "header"
  <2>1. kept = file.size /\ file.size =< size
    BY <1>1, <1>3, <1>4, <1>7 DEF PictureStopped
  <2>2. Whole
    BY <1>1, <1>3, <2>1, EndFacts DEF Whole
  <2> QED
    BY <1>3, <2>1, <2>2 DEF TornFile, WholeFileKept
<1> QED
  BY <1>6, <1>7

(* The sections of a Photoshop file, and of an R3D one.                    *)
LEMMA SectionsEnd ==
    ASSUME RightInv, phase # "carving", DataCheck = "sections"
    PROVE  WholeFileKept /\ TornFile
<1>1. /\ file \in Files /\ calc \in Nat /\ size \in Nat /\ Finished
      /\ SectionsCarried /\ size = file.span * BlockSize
  BY EndFacts DEF Stopped, Carried
<1>2. /\ FileCheck \in {"size", "sections"} /\ ChunkFile(file)
      /\ format.data = "sections" /\ FileCheck = format.file
  BY <1>1, ChainUsed DEF FileChecks
<1>3. /\ MinOf(file) \in Nat /\ MinOf(file) =< file.size /\ file.size \in Nat /\ file.chain \in Nat
      /\ format.tail \in Nat
  BY <1>1, FileTypes
<1>4. /\ Boundaries \subseteq Nat /\ calc \in Boundaries /\ calc =< file.chain
      /\ file.chain =< file.size
      /\ calc \in file.heads \/ calc = file.chain
  BY <1>1, ChunkFacts DEF SectionsCarried, Boundaries
<1>5. CASE FileCheck = "size"
  <2>1. file.size = file.chain
    <3>1. ~(format.tail > 0)
      BY <1>2 DEF ChunkFile, format
    <3>2. file.size = file.chain + format.tail
      BY <1>1, <1>5, ChunkFacts
    <3> QED
      BY <1>3, <3>1, <3>2
  <2>2. \A h \in file.heads : h + Room =< file.chain
    BY <1>2, <1>5 DEF ChunkFile, Room, format
  <2>3. /\ kept = 0 \/ kept = calc
        /\ kept = calc /\ kept # 0 => calc =< size
        /\ calc =< size /\ MinOf(file) =< calc => kept = calc
    BY <1>5, SizeChecked
  <2>4. ASSUME Whole PROVE kept = file.size
    <3>1. file.size =< size
      BY <1>1, <2>4 DEF Whole
    <3>2. calc = file.chain
      <4>1. CASE calc \in file.heads /\ calc + Room > size
        <5>1. calc + Room =< file.chain /\ Room \in Nat
          BY <1>1, <2>2, <4>1, ChunkFacts
        <5> QED
          BY <1>1, <1>3, <2>1, <3>1, <4>1, <5>1
      <4> QED
        BY <1>1, <1>4, <4>1 DEF SectionsCarried
    <3> QED
      BY <1>1, <1>3, <2>1, <2>3, <3>1, <3>2
  <2>5. kept =< size
    BY <1>1, <2>3
  <2>6. kept \in {0} \cup Boundaries
    BY <1>4, <2>3
  <2>7. WholeFileKept
    BY <1>3, <2>4 DEF WholeFileKept
  <2> QED
    BY <2>5, <2>6, <2>7 DEF TornFile
<1>6. CASE FileCheck = "sections"
  <2>1. PICK s \in Sizes(size, calc) : kept = IF s < MinOf(file) THEN 0 ELSE s
    BY <1>1 DEF Finished, MinFilesize
  <2>2. s = IF calc # file.chain /\ size < calc THEN 0 ELSE size
    BY <1>6, <2>1 DEF Sizes
  <2>3. ~EndKnown
    BY <1>6 DEF EndKnown, Scans
  <2>4. kept =< size
    BY <1>1, <1>3, <2>1, <2>2
  <2>5. ASSUME Whole PROVE kept >= file.size
    <3>1. file.size =< size
      BY <1>1, <2>5 DEF Whole
    <3> QED
      BY <1>1, <1>3, <1>4, <2>1, <2>2, <3>1
  <2> QED
    BY <2>3, <2>4, <2>5 DEF TornFile, WholeFileKept
<1> QED
  BY <1>2, <1>5, <1>6

(* The formats whose end data_check looks for.                             *)
LEMMA MarksEnd ==
    ASSUME RightInv, phase # "carving", DataCheck \in {"mark", "unsigned_mark"},
           DataCheck = "mark" \/ Wrap = 0
    PROVE  WholeFileKept /\ TornFile
<1>1. /\ file \in Files /\ calc \in Nat /\ size \in Nat /\ file.span * BlockSize \in Nat
      /\ size =< file.span * BlockSize
      /\ phase = "header" => MarkCarried /\ size = file.span * BlockSize
      /\ phase # "header" => phase = "stop" /\ MarkStopped
  BY EndFacts DEF Stopped, Carried
<1>2. FileCheck = "size"
  BY <1>1, MarkFacts
<1>3. /\ MinOf(file) \in Nat /\ MinOf(file) =< file.size /\ file.size \in Nat
      /\ format.tight \in {0, 1} /\ format.tight \in Nat
  BY <1>1, FileTypes
<1>4. /\ kept = 0 \/ kept = calc
      /\ kept = calc /\ kept # 0 => calc =< size
      /\ calc =< size /\ MinOf(file) =< calc => kept = calc
  BY <1>2, SizeChecked
<1>5. kept =< size
  BY <1>1, <1>4
<1>6. CASE phase = "header"
  <2>1. calc = size /\ size =< file.size
    BY <1>1, <1>3, <1>6 DEF MarkCarried
  <2>2. Whole => size = file.size
    BY <1>1, <1>3, <1>6, <2>1 DEF Whole
  <2>3. Whole => kept = file.size
    BY <1>1, <1>3, <1>4, <2>1, <2>2
  <2>4. kept = 0 \/ kept = size
    BY <1>4, <2>1
  <2>5. WholeFileKept
    BY <1>3, <2>3 DEF WholeFileKept
  <2>6. TornFile
    BY <1>5, <2>4 DEF TornFile
  <2> QED
    BY <2>5, <2>6
<1>7. CASE phase # "header" /\ calc = file.size /\ file.size =< size
  <2>1. Whole /\ kept = file.size
    BY <1>1, <1>3, <1>4, <1>7 DEF Whole
  <2> QED
    BY <1>3, <2>1 DEF TornFile, WholeFileKept
<1>8. CASE calc = 0 /\ 0 \in file.marks /\ DataCheck = "unsigned_mark"
  <2>1. kept = 0
    BY <1>4, <1>8
  <2>2. ForeignMark
    BY <1>8, <2>1 DEF ForeignMark
  <2> QED
    BY <1>3, <1>5, <2>1, <2>2 DEF TornFile, WholeFileKept
<1> QED
  BY <1>1, <1>6, <1>7, <1>8 DEF MarkStopped

(* Text.                                                                   *)
LEMMA TextEnds ==
    ASSUME RightInv, phase # "carving", DataCheck = "text"
    PROVE  WholeFileKept /\ TornFile
<1>1. /\ file \in Files /\ calc \in Nat /\ size \in Nat /\ file.span * BlockSize \in Nat
      /\ size =< file.span * BlockSize /\ Finished
      /\ phase = "header" => TextCarried /\ size = file.span * BlockSize
      /\ phase # "header" => phase = "stop" /\ TextStopped
  BY EndFacts DEF Stopped, Carried
<1>2. /\ FileCheck \in {"size", "footer"} /\ MinOf(file) = 0
      /\ FileCheck = "footer" => FooterFile(file)
  BY <1>1, TextFacts
<1>3. /\ file.size \in Nat /\ BlockSize \in Nat /\ format.back \in Nat
  BY <1>1, FileTypes
<1>4. phase # "header" => Whole
  BY <1>1, <1>3 DEF Whole, TextStopped
<1>5. Whole => file.size =< size
  BY <1>1, <1>3 DEF Whole, TextStopped
<1>6. CASE FileCheck = "size"
  <2>1. /\ kept = 0 \/ kept = calc
        /\ kept = calc /\ kept # 0 => calc =< size
        /\ calc =< size /\ MinOf(file) =< calc => kept = calc
    BY <1>6, SizeChecked
  <2>2. kept =< size
    BY <1>1, <2>1
  <2>3. CASE phase = "header"
    <3>1. calc = size /\ size =< file.size
      BY <1>1, <2>3 DEF TextCarried
    <3>2. Whole => kept = file.size
      BY <1>1, <1>2, <1>3, <1>5, <2>1, <3>1
    <3>3. kept = 0 \/ kept = size
      BY <2>1, <3>1
    <3> QED
      BY <1>3, <2>2, <3>2, <3>3 DEF TornFile, WholeFileKept
  <2>4. CASE phase # "header"
    <3>1. kept = calc /\ calc =< file.size
      BY <1>1, <1>2, <1>3, <2>1, <2>4 DEF TextStopped
    <3>2. kept = file.size \/ ShortText
      BY <1>1, <2>4, <3>1 DEF TextStopped, ShortText
    <3> QED
      BY <1>3, <1>4, <2>4, <3>1, <3>2 DEF TornFile, WholeFileKept
  <2> QED
    BY <2>3, <2>4
<1>7. CASE FileCheck = "footer"
  <2>1. PICK s \in Sizes(size, calc) : kept = IF s < MinOf(file) THEN 0 ELSE s
    BY <1>1 DEF Finished, MinFilesize
  <2>2. s = SearchFooter(size)
    BY <1>7, <2>1 DEF Sizes
  <2>3. /\ SearchFooter(size) \in Nat /\ SearchFooter(size) =< size
        /\ \/ size =< format.extra /\ SearchFooter(size) = size
           \/ SearchFooter(size) = 0
           \/ SearchFooter(size) - format.extra \in file.marks
        /\ file.size =< size => SearchFooter(size) = file.size
    BY <1>1, <1>2, <1>7, FooterFound
  <2>4. kept = SearchFooter(size)
    BY <1>2, <2>1, <2>2, <2>3
  <2>5. Whole => kept = file.size
    BY <1>5, <2>3, <2>4
  <2> QED
    BY <1>3, <1>7, <2>3, <2>4, <2>5 DEF TornFile, WholeFileKept
<1> QED
  BY <1>2, <1>6, <1>7

(* The units of a length: what is left out is less than one, and nothing   *)
(* of a length that is whole units is.                                     *)
LEMMA WholeUnits ==
    ASSUME NEW n \in Nat, NEW u \in Nat, u > 0
    PROVE  /\ n % u \in Nat /\ n % u =< n
           /\ (n \div u) * u \in Nat /\ (n \div u) * u =< n
           /\ \A m \in Nat : m % u = 0 /\ m =< n => /\ n - (n % u) >= m
                                                    /\ (n \div u) * u >= m
<1> DEFINE q == n \div u
<1>1. q \in Nat /\ n % u \in 0 .. (u - 1) /\ n = q * u + (n % u)
  OBVIOUS
<1>2. q * u \in Nat
  BY <1>1
<1>3. ASSUME NEW m \in Nat, m % u = 0, m =< n
      PROVE  q * u >= m
  <2> DEFINE p == m \div u
  <2>1. p \in Nat /\ m = p * u + (m % u)
    OBVIOUS
  <2>2. m = p * u /\ p * u \in Nat
    BY <1>3, <2>1
  <2>3. CASE p =< q
    <3>1. PICK d \in Nat : q = p + d
      <4>1. q - p \in Nat /\ q = p + (q - p)
        BY <1>1, <2>1, <2>3
      <4> QED
        BY <4>1
    <3> HIDE DEF p, q
    <3>2. q * u = p * u + d * u /\ d * u \in Nat
      BY <2>1, <3>1
    <3> QED
      BY <2>2, <3>2
  <2>4. CASE ~(p =< q)
    <3>1. PICK d \in Nat : p = q + 1 + d
      <4>1. p - q - 1 \in Nat /\ p = q + 1 + (p - q - 1)
        BY <1>1, <2>1, <2>4
      <4> QED
        BY <4>1
    <3> HIDE DEF p, q
    <3>2. p * u = q * u + u + d * u /\ d * u \in Nat
      BY <1>1, <3>1
    <3> QED
      BY <1>1, <1>2, <1>3, <2>2, <3>2
  <2> QED
    BY <2>3, <2>4
<1> HIDE DEF q
<1>4. n - (n % u) = q * u
  BY <1>1, <1>2
<1>5. n % u \in Nat /\ n % u =< n /\ q * u =< n
  BY <1>1, <1>2
<1> QED
  BY <1>2, <1>3, <1>4, <1>5 DEF q

(* The size was in the header.                                             *)
LEMMA SizedEnd ==
    ASSUME RightInv, phase # "carving", DataCheck = "size"
    PROVE  WholeFileKept /\ TornFile
<1>1. /\ file \in Files /\ calc \in Nat /\ size \in Nat /\ file.span * BlockSize \in Nat
      /\ size =< file.span * BlockSize /\ Finished
      /\ phase = "header" => SizeCarried /\ size = file.span * BlockSize
      /\ phase # "header" => phase = "stop" /\ SizeStopped
  BY EndFacts DEF Stopped, Carried
<1>2. /\ file.size =< calc /\ FileCheck \in {"size", "max_size"}
      /\ FileCheck = "size" => calc = file.size
  BY <1>1, SizeFacts DEF SizeCarried, SizeStopped
<1>3. MinOf(file) \in Nat /\ MinOf(file) =< file.size /\ file.size \in Nat
  BY <1>1, FileTypes
<1>4. Whole => file.size =< size
  BY <1>1, <1>2, <1>3 DEF Whole, SizeStopped
<1>5. CASE FileCheck = "size"
  <2>1. /\ kept = 0 \/ kept = calc
        /\ kept = calc /\ kept # 0 => calc =< size
        /\ calc =< size /\ MinOf(file) =< calc => kept = calc
    BY <1>5, SizeChecked
  <2>2. kept =< size
    BY <1>1, <2>1
  <2>3. Whole => kept = file.size
    BY <1>1, <1>2, <1>3, <1>4, <1>5, <2>1
  <2>4. ~Whole => kept = 0
    BY <1>1, <1>2, <1>3, <1>5, <2>1, <2>2 DEF Whole
  <2>5. WholeFileKept
    BY <1>3, <2>3 DEF WholeFileKept
  <2> QED
    BY <2>2, <2>4, <2>5 DEF TornFile
<1>6. CASE FileCheck = "max_size"
  <2>1. PICK s \in Sizes(size, calc) : kept = IF s < MinOf(file) THEN 0 ELSE s
    BY <1>1 DEF Finished, MinFilesize
  <2>2. s = IF size > calc THEN calc ELSE size
    BY <1>6, <2>1 DEF Sizes
  <2>3. kept =< size
    BY <1>1, <1>3, <2>1, <2>2
  <2>4. Whole => kept >= file.size
    BY <1>1, <1>2, <1>3, <1>4, <2>1, <2>2
  <2>5. ~EndKnown
    BY <1>6 DEF EndKnown, Scans
  <2> QED
    BY <2>3, <2>4, <2>5 DEF TornFile, WholeFileKept
<1> QED
  BY <1>2, <1>5, <1>6

(* The files of one block.                                                 *)
LEMMA BlocksEnd ==
    ASSUME RightInv, phase # "carving", DataCheck = "first_block"
    PROVE  WholeFileKept /\ TornFile
<1>1. /\ file \in Files /\ calc \in Nat /\ size \in Nat /\ file.span * BlockSize \in Nat
      /\ BlockSize =< file.span * BlockSize /\ Finished
      /\ phase = "header" => size = 0 /\ size = file.span * BlockSize
      /\ phase # "header" => calc = BlockSize /\ size = BlockSize
  BY EndFacts DEF Stopped, Carried
<1>2. file.size = BlockSize /\ FileCheck \in {"none", "size"}
  BY <1>1, BlockFacts
<1>3. /\ MinOf(file) \in Nat /\ MinOf(file) =< file.size /\ file.size \in Nat /\ BlockSize > 0
  BY <1>1, FileTypes
<1>4. calc = file.size /\ size = file.size /\ Whole
  BY <1>1, <1>2, <1>3 DEF Whole
<1>5. PICK s \in Sizes(size, calc) : kept = IF s < MinOf(file) THEN 0 ELSE s
  BY <1>1 DEF Finished, MinFilesize
<1>6. s = file.size
  <2>1. CASE FileCheck = "none"
    BY <1>4, <1>5, <2>1 DEF Sizes
  <2>2. CASE FileCheck = "size"
    <3>1. s = CheckSize(size, calc)
      BY <1>5, <2>2 DEF Sizes
    <3> QED
      BY <1>3, <1>4, <3>1 DEF CheckSize
  <2> QED
    BY <1>2, <2>1, <2>2
<1>7. kept = file.size
  BY <1>3, <1>5, <1>6
<1> QED
  BY <1>3, <1>4, <1>7 DEF TornFile, WholeFileKept

(* Nothing but file_check, or not even that.                               *)
LEMMA PlainEnd ==
    ASSUME RightInv, phase # "carving", DataCheck = "none"
    PROVE  WholeFileKept /\ TornFile
<1>1. /\ file \in Files /\ calc \in Nat /\ size \in Nat /\ Finished
      /\ calc = Claimed(file) /\ size = file.span * BlockSize
  BY EndFacts DEF Stopped, Carried
<1>2. /\ MinOf(file) \in Nat /\ MinOf(file) =< file.size /\ file.size \in Nat
      /\ format.extra \in Nat /\ file.heads \subseteq Nat /\ file.chain \in Nat
  BY <1>1, FileTypes
<1>3. Whole <=> file.size =< size
  BY <1>1 DEF Whole
<1>4. PICK s \in Sizes(size, calc) : kept = IF s < MinOf(file) THEN 0 ELSE s
  BY <1>1 DEF Finished, MinFilesize
<1>5. ASSUME ~EndKnown, s \in Int,
             file.size =< size => s >= file.size \/ (s = 0 /\ NothingBehind),
             s =< size \/ FileCheck = "unchecked_scan"
      PROVE  WholeFileKept /\ TornFile
  <2>1. kept = 0 \/ kept = s
    BY <1>4
  <2>2. kept =< size \/ FileCheck = "unchecked_scan"
    BY <1>1, <1>5, <2>1
  <2>3. Whole => kept >= file.size \/ NothingBehind
    BY <1>2, <1>3, <1>4, <1>5
  <2> QED
    BY <1>5, <2>2, <2>3 DEF WholeFileKept, TornFile
<1>6. CASE FileCheck = "none"
  <2>1. s = size /\ ~EndKnown
    BY <1>4, <1>6 DEF Sizes, EndKnown, Scans
  <2> QED
    BY <1>1, <1>2, <1>5, <2>1
<1>7. ASSUME FileCheck # "none"
      PROVE  /\ FileCheck = format.file
             /\ FileCheck \in {"footer", "min_size", "slack", "modulo", "pages", "packets", "scan",
                               "cutting_scan", "tolerant_scan", "unchecked_scan", "seeking_scan",
                               "lower_scan"}
             /\ PlainFile(file)
  BY <1>1, <1>7, DataUnused DEF FileChecks
<1>8. ASSUME FileCheck # "none"
      PROVE  /\ file.chain = file.size
             /\ FileCheck = "footer" => FooterFile(file)
             /\ FileCheck = "min_size" => calc =< file.size
             /\ FileCheck = "slack" => calc =< file.size /\ file.size =< calc + format.extra
             /\ FileCheck = "modulo" => /\ format.extra > 0
                                        /\ (file.size - MinOf(file)) % format.extra = 0
             /\ FileCheck = "pages" => format.extra > 0 /\ file.size % format.extra = 0
  BY <1>1, <1>7, <1>8 DEF PlainFile, format
<1>9. CASE FileCheck = "footer"
  <2>1. s = SearchFooter(size)
    BY <1>4, <1>9 DEF Sizes
  <2>2. /\ s \in Nat /\ s =< size
        /\ \/ size =< format.extra /\ s = size
           \/ s = 0
           \/ s - format.extra \in file.marks
        /\ file.size =< size => s = file.size
    BY <1>1, <1>8, <1>9, <2>1, FooterFound
  <2>3. kept = 0 \/ kept = s
    BY <1>4
  <2>4. kept =< size
    BY <1>1, <2>2, <2>3
  <2>5. Whole => kept = file.size
    BY <1>2, <1>3, <1>4, <2>2
  <2>6. TornFile
    BY <1>9, <2>2, <2>3, <2>4 DEF TornFile
  <2> QED
    BY <1>2, <2>5, <2>6 DEF WholeFileKept
<1>10. CASE FileCheck \in {"min_size", "slack"}
  <2>1. calc =< file.size /\ ~EndKnown
    BY <1>8, <1>10 DEF EndKnown, Scans
  <2>2. CASE FileCheck = "min_size"
    <3>1. s = IF size < calc THEN 0 ELSE size
      BY <1>4, <2>2 DEF Sizes
    <3> QED
      BY <1>1, <1>2, <1>5, <2>1, <3>1
  <2>3. CASE FileCheck = "slack"
    <3>1. s = IF size < calc THEN 0
              ELSE IF size > calc + format.extra THEN calc + format.extra ELSE size
      BY <1>4, <2>3 DEF Sizes
    <3>2. file.size =< calc + format.extra
      BY <1>8, <2>3
    <3> QED
      BY <1>1, <1>2, <1>5, <2>1, <3>1, <3>2
  <2> QED
    BY <1>10, <2>2, <2>3
<1>11. CASE FileCheck = "modulo"
  <2>1. s = IF size < MinOf(file) THEN 0 ELSE size - ((size - MinOf(file)) % format.extra)
    BY <1>4, <1>11 DEF Sizes, MinFilesize
  <2>2. format.extra > 0 /\ (file.size - MinOf(file)) % format.extra = 0 /\ ~EndKnown
    BY <1>8, <1>11 DEF EndKnown, Scans
  <2>3. CASE size < MinOf(file)
    BY <1>1, <1>2, <1>5, <2>1, <2>2, <2>3
  <2>4. CASE ~(size < MinOf(file))
    <3> DEFINE d == size - MinOf(file)
               w == file.size - MinOf(file)
    <3>1. d \in Nat /\ w \in Nat
      BY <1>1, <1>2, <2>4
    <3>2. d % format.extra \in Nat /\ d % format.extra =< d /\ (w =< d => d - (d % format.extra) >= w)
      BY <1>2, <2>2, <3>1, WholeUnits
    <3>3. s = size - (d % format.extra)
      BY <2>1, <2>4
    <3>4. s \in Int /\ s =< size
      BY <1>1, <3>2, <3>3
    <3>5. file.size =< size => s >= file.size
      <4> SUFFICES ASSUME file.size =< size PROVE s >= file.size
        OBVIOUS
      <4>1. w =< d /\ size = d + MinOf(file) /\ file.size = w + MinOf(file)
        BY <1>1, <1>2
      <4> HIDE DEF d, w
      <4> QED
        BY <1>1, <1>2, <3>1, <3>2, <3>3, <4>1
    <3> QED
      BY <1>5, <2>2, <3>4, <3>5
  <2> QED
    BY <2>3, <2>4
<1>12. CASE FileCheck = "pages"
  <2>1. s = (size \div format.extra) * format.extra
    BY <1>4, <1>12 DEF Sizes
  <2>2. format.extra > 0 /\ file.size % format.extra = 0 /\ ~EndKnown
    BY <1>8, <1>12 DEF EndKnown, Scans
  <2>3. s \in Nat /\ s =< size /\ (file.size =< size => s >= file.size)
    BY <1>1, <1>2, <2>1, <2>2, WholeUnits
  <2> QED
    BY <1>5, <2>2, <2>3
<1>13. CASE FileCheck = "packets"
  <2>1. s = IF size < file.size + format.extra THEN 0 ELSE size
    BY <1>4, <1>13 DEF Sizes
  <2>2. ~EndKnown
    BY <1>13 DEF EndKnown, Scans
  <2>3. CASE size < file.size + format.extra
    <3>1. kept = 0 /\ s = 0
      BY <1>4, <2>1, <2>3
    <3>2. NothingBehind
      BY <1>1, <1>2, <1>13, <2>3, <3>1 DEF NothingBehind
    <3> QED
      BY <1>1, <1>5, <2>2, <3>1, <3>2
  <2>4. CASE ~(size < file.size + format.extra)
    BY <1>1, <1>2, <1>5, <2>1, <2>2, <2>4
  <2> QED
    BY <2>3, <2>4
<1>14. CASE FileCheck = "lower_scan"
  <2>1. s = IF size < file.size THEN 0 ELSE size
    BY <1>4, <1>14 DEF Sizes
  <2>2. ~EndKnown
    BY <1>14 DEF EndKnown, Scans
  <2> QED
    BY <1>1, <1>2, <1>5, <2>1, <2>2
<1>15. CASE FileCheck = "unchecked_scan"
  <2>1. s = file.size /\ ~EndKnown
    BY <1>4, <1>15 DEF Sizes, EndKnown, Scans
  <2> QED
    BY <1>2, <1>5, <1>15, <2>1
<1>16. CASE FileCheck \in {"scan", "cutting_scan", "tolerant_scan", "seeking_scan"}
  <2>1. Boundaries \subseteq Nat /\ file.size \in Boundaries
    BY <1>2, <1>8, <1>16 DEF Boundaries
  <2>2. /\ file.size =< size => s = file.size
        /\ \/ (s = 0 \/ s \in Boundaries) /\ (s =< size \/ FileCheck = "seeking_scan")
           \/ FileCheck = "tolerant_scan" /\ s = size
    <3>1. CASE FileCheck = "scan"
      <4>1. s = IF size < file.size THEN 0 ELSE file.size
        BY <1>4, <3>1 DEF Sizes
      <4> QED
        BY <1>1, <1>2, <2>1, <4>1
    <3>2. CASE FileCheck = "cutting_scan"
      <4>1. s = IF size < file.size THEN WholeChunks(size) ELSE file.size
        BY <1>4, <3>2 DEF Sizes
      <4>2. WholeChunks(size) =< size /\ (WholeChunks(size) = 0 \/ WholeChunks(size) \in Boundaries)
        BY <1>1, <2>1, WholeChunksFound
      <4> QED
        BY <1>1, <1>2, <2>1, <4>1, <4>2
    <3>3. CASE FileCheck = "tolerant_scan"
      <4>1. s \in IF size < file.size THEN {0, size} ELSE {file.size}
        BY <1>4, <3>3 DEF Sizes
      <4>2. IF size < file.size THEN s = 0 \/ s = size ELSE s = file.size
        BY <4>1
      <4> QED
        BY <1>1, <1>2, <2>1, <3>3, <4>2
    <3>4. CASE FileCheck = "seeking_scan"
      <4>1. s \in IF size < file.size THEN {0, file.size} ELSE {file.size}
        BY <1>4, <3>4 DEF Sizes
      <4>2. IF size < file.size THEN s = 0 \/ s = file.size ELSE s = file.size
        BY <4>1
      <4> QED
        BY <1>1, <1>2, <2>1, <3>4, <4>2
    <3> QED
      BY <1>16, <3>1, <3>2, <3>3, <3>4
  <2>3. kept = 0 \/ kept = s
    BY <1>4
  <2>4. Whole => kept = file.size
    BY <1>2, <1>3, <1>4, <2>2
  <2>5. kept =< size \/ FileCheck = "seeking_scan"
    <3>1. CASE kept = 0
      BY <1>1, <3>1
    <3>2. CASE kept = s
      BY <1>1, <2>2, <3>2
    <3> QED
      BY <2>3, <3>1, <3>2
  <2>6. kept \in {0} \cup Boundaries \/ (FileCheck = "tolerant_scan" /\ kept = size)
    BY <2>2, <2>3
  <2>7. TornFile
    BY <2>5, <2>6 DEF TornFile
  <2> QED
    BY <1>2, <2>4, <2>7 DEF WholeFileKept
<1> QED
  BY <1>6, <1>7, <1>9, <1>10, <1>11, <1>12, <1>13, <1>14, <1>15, <1>16

(* size_t is as wide as unsigned int, or no data_check of the files adds a *)
(* difference of two unsigned ints to calculated_file_size.                *)
SumsFit == Wrap = 0 \/ \A f \in Files : f.format.data # "unsigned_mark"

(* A file that data_check has read wrong.                                  *)
LEMMA WrongEnd ==
    ASSUME OuterInv, ~ReadRight, phase # "carving"
    PROVE  WholeFileKept /\ TornFile
<1>1. /\ file \in Files /\ calc \in Nat /\ size \in Nat /\ Finished
  BY BlocksBefore DEF OuterInv
<1>2. /\ MinOf(file) \in Nat /\ file.size \in Nat /\ file.chain \in Nat
      /\ file.heads \subseteq Nat
  BY <1>1, FileTypes
<1>3. PICK s \in Sizes(size, calc) : kept = IF s < MinOf(file) THEN 0 ELSE s
  BY <1>1 DEF Finished, MinFilesize
<1>4. FileCheck \in {"none", "size", "max_size", "scan", "cutting_scan", "header_scan",
                    "whole_chunks", "trailer"}
  <2>1. CASE DataCheck \in {"chunks", "hdus"}
    BY <1>1, <2>1, ChainUsed DEF Chained, FileChecks
  <2> QED
    BY <2>1, WrongFile
<1>5. (s \in Nat /\ s =< size) \/ FileCheck = "header_scan"
  <2>1. CASE FileCheck = "none"
    BY <1>1, <1>3, <2>1 DEF Sizes
  <2>2. CASE FileCheck = "size"
    <3>1. s = IF size < calc THEN 0 ELSE calc
      BY <1>3, <2>2 DEF Sizes, CheckSize
    <3> QED
      BY <1>1, <3>1
  <2>3. CASE FileCheck = "max_size"
    <3>1. s = IF size > calc THEN calc ELSE size
      BY <1>3, <2>3 DEF Sizes
    <3> QED
      BY <1>1, <3>1
  <2>4. WholeChunks(size) \in Nat /\ WholeChunks(size) =< size
    <3>1. Boundaries \subseteq Nat
      BY <1>2 DEF Boundaries
    <3> QED
      BY <1>1, <3>1, WholeChunksFound
  <2>5. CASE FileCheck \in {"scan", "cutting_scan"}
    <3>1. \/ s = 0 \/ s = WholeChunks(size)
          \/ s = file.size /\ ~(size < file.size)
      <4>1. CASE FileCheck = "scan"
        <5>1. s = IF size < file.size THEN 0 ELSE file.size
          BY <1>3, <4>1 DEF Sizes
        <5> QED
          BY <5>1
      <4>2. CASE FileCheck = "cutting_scan"
        <5>1. s = IF size < file.size THEN WholeChunks(size) ELSE file.size
          BY <1>3, <4>2 DEF Sizes
        <5> QED
          BY <5>1
      <4> QED
        BY <2>5, <4>1, <4>2
    <3> QED
      BY <1>1, <1>2, <2>4, <3>1
  <2>6. CASE FileCheck = "whole_chunks"
    <3>1. s = IF WholeChunks(size) =< BlockSize THEN 0 ELSE WholeChunks(size)
      BY <1>3, <2>6 DEF Sizes
    <3> QED
      BY <1>1, <2>4, <3>1
  <2>7. CASE FileCheck = "trailer"
    <3>1. s = IF calc \in {file.chain} \cup file.marks /\ calc =< size THEN calc ELSE 0
      BY <1>3, <2>7 DEF Sizes
    <3> QED
      BY <1>1, <3>1
  <2> QED
    BY <1>4, <2>1, <2>2, <2>3, <2>5, <2>6, <2>7
<1>6. kept =< size \/ FileCheck = "header_scan"
  BY <1>1, <1>2, <1>3, <1>5
<1> QED
  BY <1>6 DEF WholeFileKept, TornFile

LEMMA FilesEnd ==
    ASSUME FileInv, SumsFit
    PROVE  WholeFileKept /\ TornFile
<1>1. CASE phase = "carving"
  BY <1>1 DEF WholeFileKept, TornFile, Ended
<1>2. CASE phase # "carving" /\ ReadRight
  <2>1. file \in Files /\ RightInv
    BY <1>2 DEF FileInv, RightInv
  <2>2. DataCheck = "unsigned_mark" => Wrap = 0
    BY <2>1, DataUsed DEF SumsFit, format
  <2> QED
    BY <1>2, <2>1, <2>2, KindsOfData, ChunksEnd, HdusEnd, PictureEnds, SectionsEnd, MarksEnd,
       TextEnds, SizedEnd, BlocksEnd, PlainEnd
<1>3. CASE phase # "carving" /\ ~ReadRight
  BY <1>3, WrongEnd DEF FileInv
<1> QED
  BY <1>1, <1>2, <1>3

(* A file that lies whole and in one piece on the disk is recovered whole  *)
(* by data_check and file_check of its format, whatever its length and     *)
(* that of a block, but for the losses WholeFileKept names.                *)
THEOREM WholeFilesAreKept == SumsFit => (Spec => []WholeFileKept)
<1>1. SumsFit /\ FileInv => WholeFileKept
  BY FilesEnd
<1>2. SumsFit => []SumsFit
  OBVIOUS
<1> QED
  BY <1>1, <1>2, FileInvariant, PTL

(* A file cut short by another one is rejected or ends with something that *)
(* ends a file of its format, and has no bytes nothing was written to.     *)
THEOREM TornFilesAreCut == SumsFit => (Spec => []TornFile)
<1>1. SumsFit /\ FileInv => TornFile
  BY FilesEnd
<1>2. SumsFit => []SumsFit
  OBVIOUS
<1> QED
  BY <1>1, <1>2, FileInvariant, PTL
=============================================================================
