---------------------------- MODULE FileRecovery ----------------------------
(* One file carved out of a run of blocks: photorec_aux calls the data_check *)
(* of its format on every block, and file_finish_aux the file_check once the *)
(* file ends.  The module takes the formats as a constant; what they are is  *)
(* said in Formats.  Positions are in bytes from the start of the file.      *)
(* Carver models the space the blocks come from and go back to.              *)
EXTENDS Formats

CONSTANTS
    BlockSize,    \* blocksize
    Files,        \* the files that may lie on the disk
    Wrap          \* 2^32 where size_t is wider than unsigned int, else 0

ASSUME BlockSizeAssumption == BlockSize \in Nat \ {0}
ASSUME WrapAssumption == Wrap \in Nat

(* A file: its format, its size, the size its header tells, where its chunks *)
(* start and where the last one ends, where end marks end, after how many    *)
(* blocks another file starts or the media ends, and which of its blocks     *)
(* look like a header of the same format.  Then what matters to formats with *)
(* headers of several lengths: how long the long ones are, which of the      *)
(* chunks start with a header of their own (the others continue the one      *)
(* before), which tell that they are empty, and where the data of the file   *)
(* lead a data_check that takes it for headers.                              *)
FieldsOfFile == {"format", "size", "claimed", "heads", "chain", "marks",
                 "span", "copies", "long", "blocks", "bare", "strays"}

(* What its header check leaves in calculated_file_size and min_filesize *)
Claimed(f) == IF "calc" \in f.format.claim THEN f.claimed + f.format.shift
              ELSE f.format.start
MinOf(f)   == IF "min" \in f.format.claim THEN f.claimed + f.format.min ELSE f.format.min

(* How much of the buffer a chunk at p needs for data_check to go past it *)
RoomAt(f, p) ==
    IF p \in DOMAIN f.long /\ f.format.cut \in {"waits", "loses"} THEN f.long[p]
    ELSE IF p = f.chain /\ f.format.cut = "late" THEN BlockSize
    ELSE f.format.head + f.format.tight

(* What every file has that its format's header check accepts *)
Sound(f) ==
    /\ {f.size, f.span} \subseteq Nat \ {0}
    /\ {Claimed(f), MinOf(f), f.chain, f.format.head, f.format.back, f.format.tail,
        f.format.extra} \subseteq Nat
    /\ f.format.tight \in {0, 1}
    /\ f.heads \cup f.marks \cup f.strays \subseteq Nat
    /\ DOMAIN f.long \cup f.blocks \cup f.bare \subseteq f.heads
    /\ \A h \in DOMAIN f.long : f.long[h] \in Nat
    /\ MinOf(f) =< f.size

(* Its chunks: the first one starts where the header check says, there is    *)
(* room for a header in the buffer, what is not in the first block is as     *)
(* long as the file must be, and behind the chunks comes what the format     *)
(* adds.                                                                     *)
ChunkFile(f) ==
    LET o == f.format
        room == o.head + o.tight IN
    /\ f.heads # {} /\ \A h \in f.heads : h < f.chain
    /\ Claimed(f) \in f.heads \cup {f.chain} \/ o.data = "hdus"
    /\ room > 0
    /\ \A p \in f.heads \cup {f.chain} :
           /\ room =< RoomAt(f, p) /\ RoomAt(f, p) =< BlockSize
           /\ p + RoomAt(f, p) > BlockSize => p >= MinOf(f)
    /\ IF o.file = "sections" THEN f.size >= f.chain
       ELSE f.size = f.chain + o.tail
    /\ o.tail =< room
    /\ o.data \in {"picture", "sections"} => o.cut = "whole"
    /\ o.data = "hdus" => o.cut = "misreads" /\ o.extra > 0
    /\ o.tail > 0 => o.data = "chunks" /\ o.file = "size" /\ ~o.closed
    /\ o.closed => \/ o.data = "sections"
                   \/ o.data = "chunks" /\ o.file \in {"size", "header_scan", "trailer"}
    /\ o.file \in {"header_scan", "trailer"} => o.closed
    /\ o.file = "header_scan" => o.head =< o.extra
    /\ o.file = "whole_chunks" => f.chain > BlockSize
    /\ o.data = "picture" \/ (o.data = "sections" /\ o.file = "size") =>
           \A h \in f.heads : h + room =< f.chain
    /\ o.data = "picture" => Claimed(f) \in f.heads

(* Its last bytes are the end mark, or what comes behind it, and no mark is  *)
(* in the data before; what lies at 0 may belong to the file before it.      *)
MarkFile(f) ==
    LET o == f.format IN
    /\ f.marks \in {{f.size}, {0, f.size}} /\ Claimed(f) = 0
    /\ o.file = "size"
    /\ o.head + o.tight =< o.back + 1
    /\ o.data = "mark" => o.back < o.head
FooterFile(f) ==
    LET end == f.size - f.format.extra IN
    /\ end \in f.marks /\ end > f.format.head
    /\ \A m \in f.marks : m =< end

(* What the checks of a format without a structure take for granted *)
PlainFile(f) ==
    LET o == f.format IN
    /\ f.chain = f.size
    /\ o.file = "footer" => FooterFile(f)
    /\ o.file = "min_size" => Claimed(f) =< f.size
    /\ o.file = "slack" => Claimed(f) =< f.size /\ f.size =< Claimed(f) + o.extra
    /\ o.file = "modulo" => o.extra > 0 /\ (f.size - MinOf(f)) % o.extra = 0
    /\ o.file = "pages" => o.extra > 0 /\ f.size % o.extra = 0

SizedFile(f) == IF f.format.file = "size" THEN Claimed(f) = f.size ELSE Claimed(f) >= f.size
TextFile(f)  == PlainFile(f) /\ f.format.tight = 1 /\ Claimed(f) = 0 /\ MinOf(f) = 0
BlockFile(f) == f.size = BlockSize

(* The checks that go together, and what the files they are for are like *)
DataChecks == {"none", "size", "chunks", "hdus", "picture", "sections", "text", "mark",
               "unsigned_mark", "first_block"}
Consistent(f) ==
    LET o == f.format IN
    CASE o.data \in {"chunks", "hdus", "picture", "sections"} -> ChunkFile(f)
      [] o.data \in {"mark", "unsigned_mark"} -> MarkFile(f)
      [] o.data = "text" -> TextFile(f)
      [] o.data = "size" -> SizedFile(f)
      [] o.data = "first_block" -> BlockFile(f)
      [] o.data = "none" -> PlainFile(f)
FileChecks(data) ==
    CASE data = "chunks" -> {"none", "size", "max_size", "scan", "cutting_scan", "header_scan",
                             "whole_chunks", "trailer"}
      [] data \in {"hdus", "mark", "unsigned_mark"} -> {"size"}
      [] data = "picture" -> {"segments"}
      [] data = "sections" -> {"size", "sections"}
      [] data = "text" -> {"size", "footer"}
      [] data = "size" -> {"size", "max_size"}
      [] data = "first_block" -> {"none", "size"}
      [] data = "none" -> {"none", "footer", "min_size", "slack", "modulo", "pages", "packets",
                           "scan", "cutting_scan", "tolerant_scan", "unchecked_scan",
                           "seeking_scan", "lower_scan"}

(* The blocks that look like a header of the same format: the second copy of *)
(* the header, a chunk that starts with a block, a picture in the segments   *)
(* before the scan, anything at all                                          *)
CopiesTold(f) ==
    LET o == f.format
        room == o.head + o.tight IN
    \/ f.copies = {}
    \/ o.again = "ignored"
    \/ o.again = "copy" /\ \A k \in f.copies : k * BlockSize = o.extra
    \/ /\ BlockSize >= o.need
       /\ \/ /\ o.again = "chunk" /\ o.data = "chunks" /\ o.start = 0
             /\ \A k \in f.copies : k * BlockSize \in f.heads
             /\ \A h \in f.heads : 0 < h => h >= Claimed(f)
             /\ \A g, h \in f.heads : g < h => g + RoomAt(f, g) =< h
          \/ /\ o.again = "checked" /\ o.data = "size" /\ o.file = "size"
             /\ \A k \in f.copies : k * BlockSize < f.size
          \/ /\ o.again = "checked" /\ o.data = "picture"
             /\ \A p \in f.heads : p >= Claimed(f)
             /\ \A k \in f.copies : \E g, h \in f.heads :
                    /\ g + room =< k * BlockSize /\ k * BlockSize < h
                    /\ \A p \in f.heads : p =< g \/ p >= h

WellFormed(f) ==
    /\ Sound(f)
    /\ f.copies \subseteq Nat /\ CopiesTold(f)
    /\ BlockSize >= f.format.need =>
           /\ f.format.data \in DataChecks /\ Consistent(f)
           /\ f.format.file \in FileChecks(f.format.data)

ASSUME FilesAssumption == \A f \in Files : WellFormed(f)

VARIABLES
    file,    \* what lies on the disk
    size,    \* file_size
    calc,    \* calculated_file_size
    check,   \* data_check and file_check: "format", those of the format;
             \* "astray", of which data_check takes other data for headers;
             \* "null", none
    phase,   \* "carving", or how the file ended: "stop", "header"
    kept     \* file_size after file_finish_aux, 0 for a file that is erased

vars == <<file, size, calc, check, phase, kept>>

format == file.format

(* A blocksize that is too small leaves the checks of some formats out *)
DataCheck == IF BlockSize >= format.need /\ check # "null" THEN format.data ELSE "none"
FileCheck == IF BlockSize >= format.need /\ check # "null" THEN format.file ELSE "none"

MinFilesize == MinOf(file)

FirstOf(S) == CHOOSE x \in S : \A y \in S : x =< y
LastOf(S)  == CHOOSE x \in S : \A y \in S : y =< x

(* What data_check leaves: calculated_file_size, and whether the file stops *)
Goes(c)  == [calc |-> c, stop |-> FALSE]
Stops(c) == [calc |-> c, stop |-> TRUE]

SizeCheckLate == IF size >= calc THEN Stops(calc) ELSE Goes(calc)  \* mutant: a block late
SizeCheck == IF size + BlockSize >= calc THEN Stops(calc) ELSE Goes(calc)

(* The buffer holds the block and the one before: from size - BlockSize on.  *)
(* The loop of a chunk format goes on as long as the header at p is in it.   *)
ReadableInBlock(p) == /\ p >= size    \* mutant: only the last block is looked at
                      /\ p + RoomAt(file, p) =< size + BlockSize
Readable(p) == /\ p + BlockSize >= size
               /\ p + RoomAt(file, p) =< size + BlockSize

Boundaries == file.heads \cup {file.chain}
Reached == FirstOf({p \in Boundaries : p >= calc /\ (p = file.chain \/ ~Readable(p))})
ChunkCheck ==
    IF calc \notin Boundaries THEN IF Readable(calc) THEN Stops(calc) ELSE Goes(calc)
    ELSE IF Reached = file.chain /\ format.closed THEN Stops(Reached)
    ELSE IF Readable(Reached) THEN Stops(Reached + format.tail)
    ELSE Goes(Reached)

(* A header that is cut by the end s of the buffer: its first bytes are in it *)
CutAt(h, s) == /\ h \in DOMAIN file.long
               /\ h + format.head + format.tight =< s
               /\ s < h + file.long[h]

(* data_check_gif returns at an image descriptor that is cut; when it has    *)
(* been called by data_check_gif2, for a block in the middle of an image or  *)
(* an extension, this stays the data_check                                   *)
LosesChain == /\ DataCheck = "chunks" /\ format.cut = "loses"
              /\ calc \in file.heads \ file.blocks
              /\ CutAt(Reached, size + BlockSize)

(* A header that data_check_fits takes for a shorter one, because only the   *)
(* card END is in its last unit, or that tells that it has no data           *)
Misled(h) ==
    \/ h \in file.bare
    \/ /\ format.cut = "misreads" /\ h \in DOMAIN file.long
       /\ (file.long[h] - 1) % format.extra = 0

(* The headers the loop comes to that are not read right, or cut             *)
Misread ==
    IF format.cut \in {"misreads", "stops"} /\ DataCheck \in {"hdus", "chunks"}
       /\ calc \in Boundaries
    THEN {h \in file.heads : /\ calc =< h /\ h < Reached
                             /\ (CutAt(h, size + BlockSize) \/ Misled(h))}
    ELSE {}

MarksSeen == {m \in file.marks : /\ m - format.head >= size - format.back
                                 /\ m + format.tight =< size + BlockSize}
MarkCheck ==
    IF MarksSeen = {} THEN Goes(size + BlockSize) ELSE Stops(FirstOf(MarksSeen))

(* A chain of sections with more data behind the last one *)
SectionCheck == IF calc = file.chain THEN Goes(calc) ELSE Goes(Reached)

(* data_check_fits ends the file where no extension follows, and where all   *)
(* that is known of the file has been written                                *)
HduCheck ==
    LET c == IF calc \in Boundaries THEN Reached ELSE calc IN
    IF size + BlockSize >= c THEN Stops(c) ELSE Goes(c)

(* data_check_jpg follows the segments up to the start of the scan, that has *)
(* a header of extra bytes; data_check_jpg2 looks for the end of the scan    *)
ScanStart == LastOf(file.heads) + format.extra
PictureCheck ==
    LET ahead == {p \in file.heads : p >= calc /\ ~Readable(p)} IN
    IF ahead # {} THEN Goes(FirstOf(ahead))
    ELSE IF file.chain =< size + BlockSize THEN Stops(file.chain)
    ELSE Goes(LastOf({ScanStart, size + BlockSize}))

(* The text of this block; what is shorter than back bytes is left out *)
TextCheck ==
    IF file.chain >= size + BlockSize THEN Goes(size + BlockSize)
    ELSE Stops(IF file.chain - size >= format.back THEN file.chain ELSE calc)

(* data_check_axp adds j-buffer_size/2+sizeof(axp_footer): the difference of *)
(* two unsigned int, widened before the length of the footer is added        *)
UnsignedMarkCheck ==
    IF MarksSeen = {} THEN Goes(size + BlockSize)
    ELSE LET m == FirstOf(MarksSeen) IN
         Stops(calc + m - size + IF m - format.head < size THEN Wrap ELSE 0)

(* data_check_pdb adds the index in the buffer of two blocks *)
ZeroCheck ==
    LET zeros == {m \in file.marks : m >= size /\ m < size + BlockSize} IN
    IF zeros = {} THEN Goes(calc + BlockSize)
    ELSE Stops(calc + FirstOf(zeros) - size + BlockSize)

Checked ==
    CASE DataCheck = "none" -> Goes(calc)
      [] DataCheck = "size" -> SizeCheck
      [] DataCheck = "chunks" -> ChunkCheck
      [] DataCheck = "sections" -> SectionCheck
      [] DataCheck = "hdus" -> HduCheck
      [] DataCheck = "picture" -> PictureCheck
      [] DataCheck = "text" -> TextCheck
      [] DataCheck = "mark" -> MarkCheck
      [] DataCheck = "unsigned_mark" -> UnsignedMarkCheck
      [] DataCheck = "zero" -> ZeroCheck
      [] DataCheck = "first_block" -> Stops(BlockSize)

(* What file_check may leave in file_size, of the n bytes written, when      *)
(* calculated_file_size is c                                                 *)
CheckSizeOver(n, c) == IF n =< c THEN 0 ELSE c    \* mutant
CheckSize(n, c) == IF n < c THEN 0 ELSE c
SearchFooterKeep(n) ==    \* mutant: kept without an end mark
    LET found == {m \in file.marks : m + format.extra =< n} IN
    IF n =< format.extra \/ found = {} THEN n ELSE LastOf(found) + format.extra
SearchFooter(n) ==
    LET found == {m \in file.marks : m > format.head /\ m + format.extra =< n} IN
    IF n =< format.extra THEN n
    ELSE IF found = {} THEN 0 ELSE LastOf(found) + format.extra
(* jpg_check_structure follows the segments once more, and finds one that is *)
(* torn; it ends with the header of the scan, torn or not                    *)
Segments(n, c) == IF n < c /\ c \in file.heads THEN 0 ELSE c
WholeChunks(n) == LastOf({0} \cup {p \in Boundaries : p =< n})

Sizes(n, c) ==
    CASE FileCheck = "none" -> {n}
      [] FileCheck = "size" -> {CheckSize(n, c)}
      [] FileCheck = "segments" -> {Segments(n, c)}
      [] FileCheck = "max_size" -> {IF n > c THEN c ELSE n}
      [] FileCheck = "min_size" -> {IF n < c THEN 0 ELSE n}
      [] FileCheck = "slack" -> {IF n < c THEN 0
                                 ELSE IF n > c + format.extra THEN c + format.extra ELSE n}
      [] FileCheck = "footer" -> {SearchFooter(n)}
      [] FileCheck = "scan" -> {IF n < file.size THEN 0 ELSE file.size}
      [] FileCheck = "cutting_scan" -> {IF n < file.size THEN WholeChunks(n) ELSE file.size}
      [] FileCheck = "tolerant_scan" -> IF n < file.size THEN {0, n} ELSE {file.size}
      [] FileCheck = "unchecked_scan" -> {file.size}
      [] FileCheck = "seeking_scan" -> IF n < file.size THEN {0, file.size} ELSE {file.size}
      [] FileCheck = "lower_scan" -> {IF n < file.size THEN 0 ELSE n}
      [] FileCheck = "header_scan" -> {IF n < LastOf({c, file.chain - format.extra + format.head})
                                       THEN 0 ELSE file.size}
      [] FileCheck = "packets" -> {IF n < file.size + format.extra THEN 0 ELSE n}
      [] FileCheck = "whole_chunks" -> {IF WholeChunks(n) =< BlockSize THEN 0 ELSE WholeChunks(n)}
      [] FileCheck = "sections" -> {IF c # file.chain /\ n < c THEN 0 ELSE n}
      [] FileCheck = "trailer" -> {IF c \in {file.chain} \cup file.marks /\ c =< n
                                   THEN c ELSE 0}
      [] FileCheck = "modulo" -> {IF n < MinFilesize THEN 0
                                  ELSE n - ((n - MinFilesize) % format.extra)}
      [] FileCheck = "pages" -> {(n \div format.extra) * format.extra}
      [] FileCheck = "lines" -> {(c \div format.extra) * format.extra}
-----------------------------------------------------------------------------
Init == /\ file \in Files
        /\ size = 0
        /\ calc = Claimed(file)
        /\ check = "format"
        /\ phase = "carving"
        /\ kept = 0

(* file_finish_aux, with paranoid on, for a file of n bytes *)
Finish(how, n, c) ==
    /\ size' = n
    /\ calc' = c
    /\ phase' = how
    /\ \E s \in Sizes(n, c) : kept' = IF s < MinFilesize THEN 0 ELSE s
    /\ UNCHANGED <<file, check>>

(* photorec_check_header: the header in this block is passed over *)
Refused == \/ format.again = "ignored"
           \/ format.again = "copy" /\ size = format.extra
           \/ format.again = "chunk" /\ calc = size
           \/ format.again = "checked" /\ Sizes(size, calc) = {0}

(* Another file starts here, the media ends, or a header of the same format  *)
(* is taken for one                                                          *)
EndsHere == \/ size = file.span * BlockSize
            \/ size > 0 /\ size \div BlockSize \in file.copies /\ ~Refused

HeaderFound == phase = "carving" /\ EndsHere /\ Finish("header", size, calc)

(* A block without a header, in one iteration of photorec_aux *)
AnotherBlock == phase = "carving" /\ ~EndsHere

GoesOn(c, checks) ==
    /\ calc' = c
    /\ check' = checks
    /\ size' = size + BlockSize
    /\ UNCHANGED <<file, phase, kept>>

(* data_check returns DC_CONTINUE *)
NextBlock ==
    /\ AnotherBlock /\ check # "astray" /\ Misread = {}
    /\ ~Checked.stop
    /\ GoesOn(Checked.calc, IF LosesChain THEN "astray" ELSE check)

(* data_check returns DC_STOP *)
LastBlock ==
    /\ AnotherBlock /\ check # "astray" /\ Misread = {}
    /\ Checked.stop
    /\ Finish("stop", size + BlockSize, Checked.calc)

(* data_check_fits adds up the cards it has, and gets to a wrong place: that  *)
(* lies behind the buffer when not all of the cards are in it, and ends the  *)
(* file where it does not.  It gives up the checks where they tell there are *)
(* no data.  data_check_mp3 stops in front of lyrics whose end it lacks.     *)
MisreadBlock ==
    /\ AnotherBlock /\ check = "format" /\ Misread # {}
    /\ LET h == FirstOf(Misread) IN
       \/ DataCheck = "chunks" /\ Finish("stop", size + BlockSize, h)
       \/ DataCheck = "hdus" /\ h \in file.bare /\ GoesOn(h, "null")
       \/ /\ DataCheck = "hdus" /\ h \notin file.bare
          /\ \E c \in file.strays :
                 /\ c > h /\ (CutAt(h, size + BlockSize) => c > size + BlockSize)
                 /\ IF c > size + BlockSize THEN GoesOn(c, check)
                    ELSE Finish("stop", size + BlockSize, c)

(* data_check_gif2 goes on with bytes that are no lengths.  They lead it to  *)
(* some place behind the buffer, or by chance to the chain again, or to what *)
(* looks like the end of the file or like no GIF file at all: file_check_gif *)
(* then looks for an end mark there, after DC_STOP and DC_ERROR alike.       *)
AstrayBlock ==
    /\ AnotherBlock /\ check = "astray"
    /\ LET s == size + BlockSize
           behind == {p \in file.heads : p + RoomAt(file, p) > s} IN
       \/ calc + format.head + format.tight > s /\ GoesOn(calc, check)
       \/ /\ calc + format.head + format.tight =< s
          /\ \/ \E c \in file.strays :
                    c > calc /\ c + format.head + format.tight > s /\ GoesOn(c, check)
             \/ /\ behind # {} /\ FirstOf(behind) > calc
                /\ \E checks \in {"format", "astray"} : GoesOn(FirstOf(behind), checks)
             \/ \E c \in {file.chain} \cup file.marks \cup file.strays :
                    c > calc /\ c =< s /\ Finish("stop", s, c)

Next == HeaderFound \/ NextBlock \/ LastBlock \/ MisreadBlock \/ AstrayBlock

Spec == Init /\ [][Next]_vars
-----------------------------------------------------------------------------

Ended == phase # "carving"

(* All of the file lies in the blocks before the next file *)
Whole == file.size =< file.span * BlockSize

Scans == {"scan", "cutting_scan", "tolerant_scan", "seeking_scan", "header_scan"}
Chained == {"chunks", "hdus", "picture"}

(* The format tells where the file ends *)
EndKnown == \/ FileCheck \in Scans \cup {"footer", "whole_chunks", "trailer", "segments"}
            \/ FileCheck = "size" /\ DataCheck # "none"

(* What has to be in the buffer for the end to show *)
EndShows == IF DataCheck \in {"chunks", "hdus"}
            THEN LastOf({file.chain} \cup
                        {p + RoomAt(file, p) :
                             p \in IF format.closed THEN file.heads ELSE Boundaries})
            ELSE IF DataCheck \in {"mark", "unsigned_mark", "text"} THEN file.size + format.tight
            ELSE IF DataCheck = "size" THEN calc
            ELSE file.size

(* Chunks of which the loop of data_check does not see enough before the     *)
(* last block ends: most loops want one byte more than the header, some read *)
(* more than the shortest chunk has.  They are not seen when another file    *)
(* follows.                                                                  *)
Hidden == {h \in file.heads : h + RoomAt(file, h) > file.span * BlockSize}
HiddenLastChunk == /\ DataCheck = "chunks"
                   /\ \/ kept \in Hidden
                      \/ kept = 0 /\ FileCheck = "trailer" /\ Hidden # {}

(* The last block taken shows enough of the last chunk to stop there, and    *)
(* does not have all of it                                                   *)
CutLastChunk == DataCheck = "chunks" /\ format.closed /\ kept = 0 /\ calc > size

(* What data_check adds behind the last chunk is only added where a header   *)
(* could follow in the last block                                            *)
HiddenTail == /\ format.tail > 0 /\ kept = file.chain
              /\ kept + RoomAt(file, kept) > file.span * BlockSize

(* What has been written ends with a header and data unit, or just behind    *)
HiddenExtension == /\ DataCheck = "hdus" /\ kept \in file.heads
                   /\ kept + format.head + format.tight > size

(* Less than back bytes of text in the last block are not counted *)
ShortText == DataCheck = "text" /\ kept = size - BlockSize /\ file.size - kept < format.back

(* The last bytes before the file are an end mark of the same format *)
ForeignMark == DataCheck = "unsigned_mark" /\ kept = 0 /\ 0 \in file.marks

(* file_check reads more than what comes after the file has *)
NothingBehind == FileCheck = "packets" /\ kept = 0 /\ size - file.size < format.extra

(* Two kinds of files that data_check reads wrong, wherever they lie.  An    *)
(* image descriptor that is cut by the end of a block, when the block starts *)
(* in the middle of an image or an extension: e is the chunk at which the    *)
(* block is entered.                                                         *)
EnteredAt(e, s) ==
    /\ e + RoomAt(file, e) > s
    /\ \A p \in file.heads : Claimed(file) =< p /\ p < e => p + RoomAt(file, p) =< s
LosingFile ==
    /\ format.data = "chunks" /\ format.cut = "loses"
    /\ \E e \in file.heads \ file.blocks, h \in file.heads, k \in 1 .. file.span :
           e =< h /\ EnteredAt(e, (k - 1) * BlockSize) /\ CutAt(h, k * BlockSize)

(* A first header that is not read right; the header of an extension that is *)
(* cut by the end of a block, not read right, or without data; lyrics in an  *)
(* MP3 file that are cut by the end of a block.                              *)
MisreadFile ==
    /\ format.data \in {"chunks", "hdus"} /\ format.cut \in {"misreads", "stops"}
    /\ \/ Claimed(file) \notin Boundaries
       \/ \E h \in file.heads :
              /\ h >= Claimed(file)
              /\ Misled(h) \/ \E k \in 1 .. file.span : CutAt(h, k * BlockSize)

ReadRight == ~LosingFile /\ ~MisreadFile

(* A file that lies whole and contiguous on the disk is recovered whole: no  *)
(* check of its format rejects it, and no byte of its end is cut off,        *)
(* wherever its end, its chunks or its end marks fall in the blocks, but for *)
(* the cases above, which are all there are.  Of a format that tells its     *)
(* end, the file recovered ends exactly there: the rest of its last block    *)
(* and what follows are not part of it.                                      *)
WholeFileKept ==
    Ended /\ Whole /\ ReadRight =>
        /\ \/ kept >= file.size
           \/ HiddenLastChunk \/ CutLastChunk \/ HiddenTail \/ HiddenExtension
           \/ ShortText \/ ForeignMark \/ NothingBehind
        /\ EndKnown => kept =< file.size

(* A torn file of a format that tells its end is rejected, or ends with a    *)
(* whole chunk or with an end mark it has.  Only where data_check knows      *)
(* nothing but the end mark, where less was written than comes behind the    *)
(* mark, and by axx, it is kept as it is, and so is a picture torn in its    *)
(* scan.  It never gets more bytes than have been written, but where         *)
(* file_check seeks behind the end of the file without a look at what is     *)
(* there, or where a picture is torn in the header of its scan.              *)
TornFile ==
    Ended /\ ~Whole =>
        /\ \/ kept =< size
           \/ FileCheck \in {"seeking_scan", "header_scan", "unchecked_scan"}
           \/ FileCheck = "segments" /\ kept = ScanStart
        /\ EndKnown => \/ kept \in {0} \cup Boundaries
                       \/ ~ReadRight
                       \/ DataCheck \in {"mark", "unsigned_mark", "text"} /\ kept = size
                       \/ FileCheck = "segments" /\ kept \in {size, ScanStart}
                       \/ FileCheck = "footer" /\ size =< format.extra /\ kept = size
                       \/ FileCheck = "footer" /\ kept - format.extra \in file.marks
                       \/ FileCheck = "tolerant_scan" /\ kept = size

(* data_check stops the file with the first block that shows its end: it     *)
(* takes no block that may belong to the next file of the search space,      *)
(* unless it has read the file wrong.                                        *)
StopsInTime ==
    ReadRight =>
        /\ DataCheck \notin {"none", "sections"} /\ phase = "carving" => size < EndShows
        /\ phase = "stop" /\ DataCheck # "zero" => size < EndShows + BlockSize

(* The start of the next chunk is never out of reach: it lies in the two     *)
(* blocks of the buffer, or behind them, and data_check is at the start of a *)
(* chunk or in the scan of a picture, so that it does not lose the chain     *)
(* however the chunks fall on the blocks, but in a file that it reads wrong. *)
ChainNeverLost ==
    phase = "carving" /\ DataCheck \in Chained /\ ReadRight =>
        /\ check = "format"
        /\ DataCheck = "picture" \/ calc \in Boundaries
        /\ calc + RoomAt(file, calc) > size
        /\ calc + BlockSize >= size
=============================================================================
