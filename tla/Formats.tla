------------------------------ MODULE Formats ------------------------------
(* What a format's header check hands over to the carving of a file          *)
(* (file_recovery_t, filegen.h): the fields a header_check_* function fills  *)
(* in after reset_file_recovery, and what its own data_check and file_check  *)
(* do.  PlainFormats, SizedFormats, ChunkFormats and MixedFormats give one   *)
(* definition to each file_*.c: the set of the records its header checks may *)
(* leave, named after the source file.  Abstracted:                          *)
(* which bytes a header check compares (a header here is one it accepts),    *)
(* the extension, the date and the name given to the file, fields of a       *)
(* header that no size depends on, and headers of other formats that some    *)
(* checks pass over.                                                         *)
EXTENDS Integers, FiniteSets

(* A record:                                                                 *)
(*  claim  what the size read from the header sets: "calc" is                *)
(*         calculated_file_size, "min" is min_filesize                       *)
(*  least  the smallest size in the header the check accepts                 *)
(*  min    min_filesize, or what is added to the size read from the header   *)
(*  start  calculated_file_size, or where the first chunk starts             *)
(*  shift  how far calculated_file_size is from the size of the file         *)
(*  data   data_check, file  file_check                                      *)
(*  need   the smallest blocksize for which the checks are installed         *)
(*  head   length of a chunk header, or of the end mark                      *)
(*  tight  1 when a chunk header, or an end mark, must end before the end of *)
(*         the buffer, 0 when it may end with it                             *)
(*  back   how far an end mark is searched in the block before, or how much  *)
(*         text a block must start with                                      *)
(*  tail   what data_check adds behind the last chunk                        *)
(*  closed whether the last chunk tells that it is the last                  *)
(*  cut    what data_check does with a chunk header longer than head of which *)
(*         the buffer has the first bytes only                               *)
(*  extra  what the file has behind its end mark, slack, a unit, what is     *)
(*         read behind the file, the header of a scan, or the size of the    *)
(*         shortest chunk, and of the last chunk of a closed format          *)
(*  again  what a header of the same format in the file in progress does     *)
Unknown == [claim |-> {}, least |-> 0, min |-> 0, start |-> 0, shift |-> 0,
            data |-> "none", file |-> "none", need |-> 0, head |-> 0,
            tight |-> 1, back |-> 0, tail |-> 0, closed |-> FALSE,
            cut |-> "whole", extra |-> 0, again |-> "ends"]

(* No size is known: the file goes on until the next header *)
Plain(min) == [Unknown EXCEPT !.min = min]

(* Only a lower bound of the size is read from the header *)
AtLeast(min) == [Unknown EXCEPT !.claim = {"min"}, !.min = min]

(* The size is read from the header: data_check_size and file_check_size *)
Sized(min, least) ==
    [Unknown EXCEPT !.claim = {"calc"}, !.least = least, !.min = min,
                    !.data = "size", !.file = "size"]

(* The size is a constant of the format *)
Fixed(size) ==
    [Unknown EXCEPT !.start = size, !.data = "size", !.file = "size"]

(* The size bounds the file from above only: file_check_size_max *)
AtMost(min, least) == [Sized(min, least) EXCEPT !.file = "max_size"]

(* The size bounds the file from below only: file_check_size_min *)
AtLeastSize(min, least) ==
    [Sized(min, least) EXCEPT !.data = "none", !.file = "min_size"]

(* As before, and at most extra bytes may follow *)
Slack(min, least, extra) ==
    [Sized(min, least) EXCEPT !.data = "none", !.file = "slack", !.extra = extra]

(* data_check follows a chain of chunks whose headers have head bytes and    *)
(* tell where the next one starts.  A blocksize below head leaves the checks *)
(* out.                                                                      *)
Chunks(min, start, head) ==
    [Unknown EXCEPT !.min = min, !.start = start, !.head = head, !.need = head,
                    !.data = "chunks", !.file = "size"]

(* file_check looks backwards for the last end mark *)
Footer(min, head, extra) ==
    [Unknown EXCEPT !.min = min, !.head = head, !.extra = extra, !.file = "footer"]

(* data_check looks for an end mark, from back bytes before the block on *)
Mark(min, head, back) ==
    [Unknown EXCEPT !.min = min, !.head = head, !.back = back,
                    !.data = "mark", !.file = "size"]

(* file_check reads the saved file and follows its structure: a torn file is *)
(* rejected, cut where its structure breaks, or kept as it is                *)
Scanned(min)  == [Unknown EXCEPT !.min = min, !.head = 1, !.file = "scan"]
Cut(min)      == [Scanned(min) EXCEPT !.file = "cutting_scan"]
Tolerant(min) == [Scanned(min) EXCEPT !.file = "tolerant_scan"]

(* file_check only adds up what the structure tells, and seeks: a torn file  *)
(* may get as long as it was                                                 *)
Seeking(min) == [Scanned(min) EXCEPT !.file = "seeking_scan"]

(* file_check finds a lower bound in the saved file *)
Lower(min) == [Scanned(min) EXCEPT !.file = "lower_scan"]

(* A chain whose last chunk has size bytes and tells that it is the last *)
Closed(f, length) == [f EXCEPT !.closed = TRUE, !.extra = length]

(* Chunks of at least size bytes *)
Short(f, length) == [f EXCEPT !.extra = length]

(* Some chunks have longer headers than the others.  When the buffer ends in *)
(* one of them data_check "waits" for the next block, "loses" the chain      *)
(* where it has entered the block in the middle of a chunk, "misreads" the   *)
(* length of the chunk, or "stops".  The chunks may also all be alike, and   *)
(* only what follows the last one be taken too "late" for what it is.        *)
Cutting(f, how) == [f EXCEPT !.cut = how]

(* data_check takes the blocks as long as they are text *)
Text == [Unknown EXCEPT !.data = "text", !.file = "size", !.back = 10]

(* data_check takes the first block and stops *)
OneBlock == [Unknown EXCEPT !.data = "first_block", !.file = "size"]

(* file_check rounds the size down to whole pages *)
Pages(min, page) == [Plain(min) EXCEPT !.file = "pages", !.extra = page]

(* The size of the first chunk is read from the header: for                  *)
(* calculated_file_size, for min_filesize, or for both                       *)
FirstChunk(f, fields) == [f EXCEPT !.claim = fields]

(* What a header of the same format does to the file in progress: "ends" it, *)
(* is "ignored", is ignored where the next "chunk" is expected, or is        *)
(* "checked": ignored as long as file_check rejects what has been written    *)
Ignoring(f) == [f EXCEPT !.again = "ignored"]
AtChunk(f)  == [f EXCEPT !.again = "chunk"]
Checking(f) == [f EXCEPT !.again = "checked"]

(* The checks are installed for every blocksize *)
Unguarded(f) == [f EXCEPT !.need = 0]

(* data_check only stops the file, no size is derived *)
NoFileCheck(f) == [f EXCEPT !.file = "none"]
=============================================================================
