----------------------------- MODULE MCFormats ------------------------------
(* The files TLC carves: for every record of a format a few files whose      *)
(* ends, chunks and end marks fall before, on and behind the ends of the     *)
(* blocks, alone on the disk, followed by another file and torn by one.      *)
EXTENDS FileRecovery, FileList

CONSTANT MaxSpan     \* files of more blocks are only torn ones

Up(n) == ((n + BlockSize - 1) \div BlockSize) * BlockSize
LastOfSet(S) == CHOOSE x \in S : \A y \in S : y =< x
Bases(f) == LastOfSet({1, f.min, f.least, f.head + f.extra + 1, f.start})

(* The sizes a file of format f may have *)
Lengths(f) ==
    IF f.data = "first_block" THEN {BlockSize}
    ELSE IF f.claim = {} /\ f.data = "size" THEN {f.start}
    ELSE IF f.file = "pages" THEN {f.extra, 2 * f.extra}
    ELSE IF f.file = "lines" THEN {f.extra * k : k \in {5, 7, 12}}
    ELSE {n \in {Bases(f), Bases(f) + 1, Up(Bases(f)) - 1, Up(Bases(f)),
                 Up(Bases(f)) + 1, Up(Bases(f)) + 2} : n >= Bases(f)}

(* Chains of one to three chunks, the last of a fixed size in closed formats *)
Shortest(f) == IF f.closed \/ f.extra = 0 \/ f.data = "picture" THEN f.head ELSE f.extra
ChunkLengths(f) ==
    IF f.head = BlockSize THEN {BlockSize}
    ELSE IF f.data = "hdus" THEN {2880, 8 * 2880}
    ELSE {n \in {Shortest(f), BlockSize - f.start, BlockSize - Shortest(f) - f.start,
                 BlockSize - Shortest(f) - f.start - f.tight, BlockSize,
                 BlockSize + 188} : n >= Shortest(f)}
LastLengths(f) == IF f.closed THEN {f.extra}
                  ELSE IF f.data = "picture" THEN {n + f.extra : n \in ChunkLengths(f)}
                  ELSE ChunkLengths(f)
Chain(heads, end, first) == [heads |-> heads, chain |-> end, first |-> first]
Chains(f) ==
    LET s == f.start IN
    UNION {{Chain({s}, s + z, s + z),
            Chain({s, s + a}, s + a + z, s + a),
            Chain({s, s + a, s + a + b}, s + a + b + z, s + a)} :
           a \in ChunkLengths(f), b \in ChunkLengths(f), z \in LastLengths(f)}

(* A file has as much as its format asks for: the size, the number of        *)
(* sections, and a first chunk that is not the last one                      *)
Complete(f, c) == /\ c.chain >= f.min
                  /\ f.file = "sections" => Cardinality(c.heads) = 3
                  /\ f.closed /\ "calc" \in f.claim => Cardinality(c.heads) > 1
                  /\ f.file = "whole_chunks" => c.chain > BlockSize

(* Another file starts behind the last block, one later, two later, or       *)
(* inside the file, which is torn then                                       *)
Spans(n) == {k \in {1, Up(n) \div BlockSize - 1, Up(n) \div BlockSize, Up(n) \div BlockSize + 1,
                    Up(n) \div BlockSize + 2} : k >= 1 /\ k =< MaxSpan}

(* The blocks that may look like a header of the same format *)
Copies(f, n, heads) ==
    {{}} \cup CASE f.again = "ends" -> {}
              [] f.again = "copy" -> {{f.extra \div BlockSize}}
              [] f.again = "ignored" -> {1 .. Up(n) \div BlockSize - 1}
              [] f.data = "picture" ->    \* thumbnails in the segments
                     {{k \in 1 .. Up(n) \div BlockSize - 1 :
                          \E g, h \in heads : g + 10 =< k * BlockSize /\ k * BlockSize < h
                                            /\ heads \cap (g + 1) .. (h - 1) = {}}}
              [] f.again = "checked" /\ f.data = "size" -> {1 .. Up(n) \div BlockSize - 1}
              [] OTHER -> {{p \div BlockSize : p \in {h \in heads : h % BlockSize = 0 /\ h > 0}}}

None == [h \in {} |-> 0]

(* The headers that are longer: 64 bit sizes, the cards of an extension (6 or *)
(* 8 and END, or as many as leave END alone in the next unit), lyrics         *)
Following(c, h) == CHOOSE p \in c.heads \cup {c.chain} :
                       p > h /\ \A q \in c.heads \cup {c.chain} : q =< h \/ p =< q
Longs(f, c) ==
    LET later == {h \in c.heads : h >= c.first} IN
    CASE f.cut = "waits" -> {None, [h \in {g \in c.heads : Following(c, g) >= g + 16} |-> 16]}
      [] f.cut = "stops" -> {None} \cup {[h \in {p} |-> 5100] : p \in later}
      [] f.data = "hdus" -> {[h \in later |-> n] : n \in {481, 641, 36 * 80 + 1}}
      [] OTHER -> {None}

Bares(f, c)  == IF f.data = "hdus" THEN {{}, c.heads \cap {c.first}} ELSE {{}}
Strays(f, c) == IF f.data = "hdus" THEN {{c.first + 2 * 2880, c.first + 2880, c.chain + 2880}}
                ELSE {{}}
Wrong(f, c)  == IF f.data = "hdus" THEN {c.first + 2880} ELSE {}

ChainFiles(f) ==
    UNION {LET n == c.chain + IF f.file = "sections" THEN 100 ELSE f.tail IN
           [format : {f}, size : {n}, claimed : {c.first} \cup Wrong(f, c), heads : {c.heads},
            chain : {c.chain}, marks : {{}}, span : Spans(n),
            copies : Copies(f, n, c.heads), long : Longs(f, c), blocks : {{}},
            bare : Bares(f, c), strays : Strays(f, c)] :
           c \in {d \in Chains(f) : Complete(f, d)}}

Claims(f, n) == CASE f.file = "max_size" -> {n, n + 100}
                  [] f.file = "slack" -> {n, n - 1}
                  [] f.file = "modulo" -> {n % f.extra}
                  [] f.file = "min_size" \/ f.claim = {"min"} -> {n - f.min, 0}
                  [] OTHER -> {n}
OtherFiles(f) ==
    UNION {[format : {f}, size : {n}, claimed : Claims(f, n), heads : {{0}}, chain : {n},
            marks : IF f.file = "footer" THEN {{n - f.extra}, {0, n - f.extra}, {f.head, n - f.extra}}
                    ELSE IF f.head > 0 THEN {{n}, {0, n}}
                    ELSE {{}},
            span : Spans(n), copies : Copies(f, n, {}), long : {None}, blocks : {{}},
            bare : {{}}, strays : {{}}] : n \in Lengths(f)}

(* GIF pictures: an extension up to d, or none, and an image whose descriptor *)
(* lies at d, each with data in parts of up to 256 bytes and an empty one     *)
(* behind them; then the trailer.  The next part of the data, a false trailer *)
(* and a place behind the file are where data_check_gif2 may get to when it   *)
(* has lost its way.                                                          *)
Parts(from, end) == {end} \cup {p \in from .. end : (p - from) % 256 = 0}
GifFile(f, start, d, n) ==
    LET image == d + 11
        end == image + n
        text == IF start = d THEN {} ELSE {start} \cup Parts(start + 2, d - 1) IN
    [format : {f}, size : {end + 2}, claimed : {start},
     heads : {text \cup {d} \cup Parts(image, end) \cup {end + 1}}, chain : {end + 2},
     marks : {{d + 300}}, span : Spans(end + 2), copies : {{}},
     long : {[h \in {d} |-> 21]}, blocks : {{start, d, end + 1}}, bare : {{}},
     strays : {{image + 256, end + 700}}]
GifFiles(f) ==
    UNION {GifFile(f, 13, d, n) : d \in {490, 491, 500, 509, 510, 511, 1002, 1003, 1004, 1021,
                                         1022, 1515},
                                  n \in {3, 20, 300, 500}}
    \cup UNION {GifFile(f, d, d, n) : d \in {13, 781}, n \in {30, 212, 225, 226, 227, 228, 900}}

FilesOf(formats) ==
    UNION {IF f.cut = "loses" THEN GifFiles(f)
           ELSE IF f.data \in Chained \cup {"sections"} THEN ChainFiles(f) ELSE OtherFiles(f) : f \in formats}

(* Formats whose checks do not do what the properties of FileRecovery say,   *)
(* each for a reason of its own: see the README                              *)
Exceptions == UNION {file_ext, file_ttf, file_sp3, file_pdb, file_dxf, file_caf, file_par2}

AllFiles == FilesOf(list_file_enable \ Exceptions)
=============================================================================
