----------------------------- MODULE DiskCache -----------------------------
(***************************************************************************)
(* The cache between the recovery and the disk (hdcache.c): a ring of      *)
(* buffers, read-ahead, and what becomes of read errors.                   *)
(*                                                                         *)
(* Positions and counts are bytes on a small scale, Sector bytes to a      *)
(* sector; -1 is an error as in the code.  What a sector holds is a        *)
(* version number, 0 standing for the zeros file_pread puts where it could *)
(* not read.                                                               *)
(***************************************************************************)
EXTENDS Integers, Sequences, FiniteSets, SequencesExt

CONSTANTS
    Sector,         \* disk->sector_size
    Sectors,        \* sectors of the disk
    Buffers,        \* CACHE_BUFFER_NBR, 16 in the code
    ReadAhead,      \* cache_size_min, 0 for none
    MaxCount,       \* bound: bytes of one request
    MaxWrites,      \* bound: writes
    MaxChanges      \* bound: times the readable sectors change

ASSUME CacheAssumption ==
    /\ Sector \in Nat \ {0} /\ Sectors \in Nat \ {0} /\ Buffers \in Nat \ {0}
    /\ ReadAhead \in Nat /\ ReadAhead % Sector = 0 /\ MaxCount \in Nat
    /\ MaxWrites \in Nat /\ MaxChanges \in Nat

VARIABLES
    content,    \* the disk: the version each sector holds
    bad,        \* the sectors that cannot be read now
    whole,      \* an error fails the whole read (Windows), not its end only
    cache,      \* [bufs, last, errors]: cache[], cache_buffer_nbr,
                \* last_io_error_nbr
    answer,     \* the last cache_pread: [count, offset, ret, data]
    writes, changes

vars == << content, bad, whole, cache, answer, writes, changes >>

DiskSize == Sector * Sectors
Slots == 0..(Buffers - 1)

(* A buffer without valid bytes: the code clears cache_size only, but then *)
(* looks at nothing else of it.                                            *)
NoBuffer == [size |-> 0, offset |-> 0, status |-> 0, data |-> <<>>]
NoAnswer == [count |-> 0, offset |-> 0, ret |-> 0, data |-> <<>>]

(* new_diskcache.                                                          *)
Init ==
    /\ content = [s \in 0..(Sectors - 1) |-> 1]
    /\ bad \in SUBSET (0..(Sectors - 1)) /\ whole \in BOOLEAN
    /\ cache = [bufs |-> [i \in Slots |-> NoBuffer], last |-> 0, errors |-> 0]
    /\ answer = NoAnswer /\ writes = 0 /\ changes = 0

Bytes(offset, count) == offset..(offset + count - 1)
SectorsOf(offset, count) == { b \div Sector : b \in Bytes(offset, count) }

-----------------------------------------------------------------------------
(* The disk below the cache                                                *)

(* file_pread: what was read, then zeros; -1 if that is nothing.           *)
DevicePread(count, offset) ==
    LET failing == { b \in Bytes(offset, count) :
                        b >= DiskSize \/ b \div Sector \in bad }
        got == IF failing = {} THEN count
               ELSE IF whole THEN 0 ELSE Min(failing) - offset
    IN  [ret |-> IF got = 0 THEN -1 ELSE got,
         data |-> [i \in 1..count |->
                      IF i <= got THEN content[(offset + i - 1) \div Sector]
                      ELSE 0]]

-----------------------------------------------------------------------------
(* cache_pread_aux: [cache, ret, data] after a read of count > 0 bytes     *)

Holds(buf, offset) ==
    buf.size > 0 /\ buf.offset <= offset /\ offset < buf.offset + buf.size

(* The newest buffer that holds the offset, as the slots of the ring are   *)
(* looked at from `last` backwards; Buffers if none does.                  *)
Age(c, i) == (c.last + Buffers - i) % Buffers
Hit(c, offset) ==
    LET holding == { i \in Slots : Holds(c.bufs[i], offset) }
    IN  IF holding = {} THEN Buffers
        ELSE CHOOSE i \in holding : \A j \in holding : Age(c, i) <= Age(c, j)

CountNew(count, offset, readAhead) ==
    IF readAhead /\ count < ReadAhead /\ offset + ReadAhead < DiskSize
    THEN ReadAhead ELSE count

(* The next slot of the ring is filled from the disk.  The error count is  *)
(* only compared with 0 and 1, so 2 stands for all that are more.          *)
Fill(c, count, offset, readAhead) ==
    LET countNew == CountNew(count, offset, readAhead)
        slot == (c.last + 1) % Buffers
        read == DevicePread(countNew, offset)
        buf == [size |-> countNew, offset |-> offset, status |-> read.ret,
                data |-> read.data]
    IN  [bufs |-> [c.bufs EXCEPT ![slot] = buf], last |-> slot,
         errors |-> IF read.ret >= count THEN 0 ELSE Min({c.errors + 1, 2})]

GiveUpAtOnce(c) == TRUE     \* mutant: a failed read is never split

(* A failed read is not split if it was a sector or errors follow errors.  *)
GiveUp(c) == c.bufs[c.last].size <= Sector \/ c.errors > 1

(* From buffer i as much of the request as it holds.                       *)
FromBuffer(c, i, count, offset) ==
    LET old == c.bufs[i]
        skip == offset - old.offset
    IN  [cache |-> c, ret |-> Min({old.status - skip, count}),
         data |-> SubSeq(old.data, skip + 1, skip + Min({count, old.size - skip}))]

(* From the buffer that was just filled.                                   *)
FromDisk(c, count) ==
    [cache |-> c, ret |-> Min({c.bufs[c.last].status, count}),
     data |-> SubSeq(c.bufs[c.last].data, 1, count)]

(* A sector without read-ahead.  Requests and buffers are whole sectors,   *)
(* so the buffer that holds its first byte holds it.                       *)
PreadSector(c, count, offset) ==
    LET hit == Hit(c, offset)
    IN  IF hit # Buffers THEN FromBuffer(c, hit, count, offset)
        ELSE FromDisk(Fill(c, count, offset, FALSE), count)

(* The loop over the sectors of the request, with what was read so far; it *)
(* ends at a failure, and the rest of the buffer stays zero.               *)
PreadSectors(c, count, offset) ==
    LET read[k \in 0..count] ==
            LET r == read[k - 1]
                n == Min({Sector, count - r.ret})
                one == PreadSector(r.cache, n, offset + r.ret)
            IN  IF k = 0 THEN [cache |-> c, ret |-> 0, data |-> <<>>]
                ELSE IF Len(r.data) = count THEN r
                ELSE IF one.ret > 0
                THEN [cache |-> one.cache, ret |-> r.ret + n, data |-> r.data \o one.data]
                ELSE [cache |-> one.cache, ret |-> r.ret,
                      data |-> r.data \o [i \in 1..(count - r.ret) |-> 0]]
    IN  read

(* One call, up to the call for what lies behind the buffer.               *)
PreadOnce(c, count, offset, readAhead) ==
    LET hit == Hit(c, offset)
        filled == Fill(c, count, offset, readAhead)
        dropped == [filled EXCEPT !.bufs[filled.last] = NoBuffer]
    IN  IF hit # Buffers THEN FromBuffer(c, hit, count, offset)
        ELSE IF filled.bufs[filled.last].status >= count \/ GiveUp(filled)
        THEN FromDisk(filled, count)
        ELSE PreadSectors(dropped, count, offset)[count]

(* The calls that follow one another, as many as buffers hold a piece.     *)
PreadCalls(c, count, offset, readAhead) ==
    LET read[k \in 0..count] ==
            LET r == read[k - 1]
                one == PreadOnce(r.cache, count - Len(r.data), offset + Len(r.data),
                                 readAhead)
            IN  IF k = 0 THEN [cache |-> c, ret |-> 0, data |-> <<>>]
                ELSE IF Len(r.data) = count THEN r
                ELSE [cache |-> one.cache, ret |-> r.ret + one.ret,
                      data |-> r.data \o one.data]
    IN  read

PreadAux(c, count, offset, readAhead) == PreadCalls(c, count, offset, readAhead)[count]

(* cache_pread: read ahead unless the last read failed.                    *)
Pread(count, offset) ==
    /\ LET r == PreadAux(cache, count, offset, cache.errors = 0)
       IN  /\ cache' = r.cache
           /\ answer' = [count |-> count, offset |-> offset, ret |-> r.ret,
                         data |-> r.data]
    /\ UNCHANGED << content, bad, whole, writes, changes >>

-----------------------------------------------------------------------------
OverlapsStart(buf, count, offset) ==    \* mutant: only what begins in it
    offset <= buf.offset /\ buf.offset <= offset + count - 1

(* A buffer the write touches.                                             *)
Overlaps(buf, count, offset) ==
    /\ offset <= buf.offset + buf.size - 1
    /\ buf.offset <= offset + count - 1

(* cache_pwrite: the buffers the write touches are discarded, then the     *)
(* disk is written.                                                        *)
Pwrite(count, offset) ==
    /\ writes < MaxWrites /\ writes' = writes + 1
    /\ cache' = [cache EXCEPT !.bufs =
                    [i \in Slots |-> IF Overlaps(@[i], count, offset)
                                     THEN NoBuffer ELSE @[i]]]
    /\ content' = [s \in DOMAIN content |->
                      IF s \in SectorsOf(offset, count) THEN content[s] + 1
                      ELSE content[s]]
    /\ answer' = NoAnswer
    /\ UNCHANGED << bad, whole, changes >>

(* A sector fails, or can be read again.                                   *)
MediaChanges(s) ==
    /\ changes < MaxChanges /\ changes' = changes + 1
    /\ bad' = IF s \in bad THEN bad \ {s} ELSE bad \cup {s}
    /\ answer' = NoAnswer
    /\ UNCHANGED << content, whole, cache, writes >>

Requests ==
    { r \in (1..MaxCount) \X (0..(DiskSize - 1)) :
        r[1] % Sector = 0 /\ r[2] % Sector = 0 /\ r[1] + r[2] <= DiskSize }

Next ==
    \/ \E r \in Requests : Pread(r[1], r[2]) \/ Pwrite(r[1], r[2])
    \/ \E s \in DOMAIN content : MediaChanges(s)

Spec == Init /\ [][Next]_vars

-----------------------------------------------------------------------------
(* Properties                                                              *)

(* A read that reports all it was asked for (what every caller tests)      *)
(* returns what the disk holds: nothing older than the last write, no      *)
(* zeros of a sector that failed, whatever buffers it was put together of. *)
ReadsAreFresh ==
    answer.ret = answer.count =>
        answer.data = [i \in 1..answer.count |->
                          content[(answer.offset + i - 1) \div Sector]]

Failed(buf) == buf.size > 0 /\ buf.status < buf.size

HarmlessRead ==
    /\ answer' # NoAnswer
    /\ cache.errors = 0
    /\ SectorsOf(answer'.offset, answer'.count) \cap bad = {}
    /\ \A i \in Slots :
          Failed(cache.bufs[i]) =>
             ~Overlaps(cache.bufs[i], answer'.count, answer'.offset)
    => answer'.ret = answer'.count

(* Reading ahead does no harm: readable sectors are read although a bad    *)
(* one follows, unless an earlier failure is remembered, in the error      *)
(* count or in a buffer for one of these sectors.                          *)
ReadAheadIsHarmless == [][HarmlessRead]_vars
=============================================================================
