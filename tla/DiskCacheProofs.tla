-------------------------- MODULE DiskCacheProofs --------------------------
(***************************************************************************)
(* The cache over the disk: whatever buffers a read is put together of, in *)
(* whatever pieces, and however reads failed before, what it reports as    *)
(* read is what the disk holds.                                            *)
(***************************************************************************)
EXTENDS DiskCache, SequenceTheorems, WellFoundedInduction, TLAPS

-----------------------------------------------------------------------------
(* The invariant                                                           *)

Aligned(x) == x % Sector = 0

Versions == [0..(Sectors - 1) -> Nat]

BufferType == [size : Nat, offset : Nat, status : Int, data : Seq(Nat)]
CacheType == [bufs : [Slots -> BufferType], last : Slots, errors : 0..2]
ReadType == [cache : CacheType, ret : Int, data : Seq(Nat)]

(* The byte at p of the disk is v.                                         *)
IsAt(disk, p, v) == p \div Sector \in DOMAIN disk /\ v = disk[p \div Sector]

(* A buffer is whole sectors; the status is an error or whole sectors, and *)
(* as far as it goes the buffer has what the disk has.                     *)
GoodBuffer(b, disk) ==
    /\ Len(b.data) = b.size /\ Aligned(b.size) /\ Aligned(b.offset)
    /\ b.status = -1 \/ (b.status \in 0..b.size /\ Aligned(b.status))
    /\ \A i \in 1..b.size : i <= b.status => IsAt(disk, b.offset + i - 1, b.data[i])

GoodCache(c, disk) ==
    /\ c \in CacheType
    /\ \A i \in Slots : GoodBuffer(c.bufs[i], disk)

(* A read of up to count bytes: it counts no more than it returns, and if  *)
(* as much then it returns what the disk has.                              *)
PartRead(r, count, offset, disk) ==
    /\ r \in ReadType /\ GoodCache(r.cache, disk)
    /\ Len(r.data) \in 0..count /\ Aligned(Len(r.data)) /\ r.ret <= Len(r.data)
    /\ r.ret = Len(r.data) =>
          \A i \in 1..Len(r.data) : IsAt(disk, offset + i - 1, r.data[i])

GoodRead(r, count, offset, disk) ==
    PartRead(r, count, offset, disk) /\ Len(r.data) > 0

CacheInv ==
    /\ content \in Versions /\ bad \in SUBSET (0..(Sectors - 1))
    /\ whole \in BOOLEAN
    /\ GoodCache(cache, content)
    /\ ReadsAreFresh

-----------------------------------------------------------------------------
(* Sectors                                                                 *)

LEMMA Division ==
    ASSUME NEW x \in Nat
    PROVE  /\ x \div Sector \in Nat /\ x % Sector \in 0..(Sector - 1)
           /\ x = (x \div Sector) * Sector + (x % Sector)
BY CacheAssumption

LEMMA Multiple ==
    ASSUME NEW k \in Nat
    PROVE  k * Sector \in Nat /\ Aligned(k * Sector)
BY CacheAssumption DEF Aligned

LEMMA Within ==
    ASSUME NEW k \in Nat, NEW r \in 0..(Sector - 1)
    PROVE  (k * Sector + r) \div Sector = k
BY CacheAssumption

LEMMA Product ==
    ASSUME NEW p \in Nat, NEW q \in Nat, p < q
    PROVE  p * Sector + Sector <= q * Sector
<1>1. PICK d \in Nat : q = p + 1 + d
  <2>1. q - p - 1 \in Nat /\ q = p + 1 + (q - p - 1)
    OBVIOUS
  <2> QED
    BY <2>1
<1>2. q * Sector = p * Sector + Sector + d * Sector /\ d * Sector \in Nat
  BY <1>1, CacheAssumption
<1>3. p * Sector \in Nat /\ Sector \in Nat
  BY CacheAssumption
<1> QED
  BY <1>2, <1>3

(* A whole number of sectors.                                              *)
LEMMA AlignedIs ==
    ASSUME NEW x \in Nat, Aligned(x)
    PROVE  x \div Sector \in Nat /\ x = (x \div Sector) * Sector
<1>1. x = (x \div Sector) * Sector + (x % Sector) /\ x % Sector = 0 /\ x \div Sector \in Nat
  BY Division DEF Aligned
<1>2. (x \div Sector) * Sector \in Nat
  BY <1>1, Multiple
<1> QED
  BY <1>1, <1>2

LEMMA AlignedSum ==
    ASSUME NEW a \in Nat, NEW b \in Nat, Aligned(a), Aligned(b)
    PROVE  Aligned(a + b)
<1> DEFINE p == a \div Sector
           q == b \div Sector
<1>1. p \in Nat /\ q \in Nat /\ a = p * Sector /\ b = q * Sector
  BY AlignedIs
<1> HIDE DEF p, q
<1>2. a + b = (p + q) * Sector
  BY <1>1, CacheAssumption
<1> QED
  BY <1>1, <1>2, Multiple

LEMMA AlignedDifference ==
    ASSUME NEW a \in Nat, NEW b \in Nat, Aligned(a), Aligned(b), b <= a
    PROVE  Aligned(a - b) /\ (b < a => b + Sector <= a)
<1> DEFINE p == a \div Sector
           q == b \div Sector
<1>1. p \in Nat /\ q \in Nat /\ a = p * Sector /\ b = q * Sector
  BY AlignedIs
<1> HIDE DEF p, q
<1>2. q <= p
  <2> SUFFICES ASSUME p < q PROVE FALSE
    BY <1>1
  <2>1. p * Sector + Sector <= q * Sector
    BY <1>1, Product
  <2> QED
    BY <1>1, <2>1, CacheAssumption
<1>3. p - q \in Nat /\ a - b = (p - q) * Sector
  BY <1>1, <1>2, CacheAssumption
<1>4. Aligned(a - b)
  BY <1>3, Multiple
<1>5. b < a => b + Sector <= a
  <2> SUFFICES ASSUME b < a PROVE b + Sector <= a
    OBVIOUS
  <2>1. q < p
    BY <1>1, <1>2
  <2> QED
    BY <1>1, <2>1, Product
<1> QED
  BY <1>4, <1>5

LEMMA AlignedPositive ==
    ASSUME NEW a \in Nat, Aligned(a), a > 0
    PROVE  a >= Sector
<1>1. Aligned(0)
  BY Multiple, CacheAssumption DEF Aligned
<1> QED
  BY <1>1, AlignedDifference, CacheAssumption

(* Two bytes with the start of a sector between them.                      *)
LEMMA Between ==
    ASSUME NEW a \in Nat, NEW x \in Nat, NEW y \in Nat, Aligned(a), x < a, a <= y
    PROVE  x \div Sector # y \div Sector
<1> DEFINE p == a \div Sector
           q == x \div Sector
           r == x % Sector
           u == y \div Sector
           v == y % Sector
<1>1. /\ p \in Nat /\ a = p * Sector
      /\ q \in Nat /\ r \in 0..(Sector - 1) /\ x = q * Sector + r
      /\ u \in Nat /\ v \in 0..(Sector - 1) /\ y = u * Sector + v
  BY AlignedIs, Division
<1> SUFFICES ASSUME q = u PROVE FALSE
  OBVIOUS
<1> HIDE DEF p, q, r, u, v
<1>2. p * Sector \in Nat /\ q * Sector \in Nat
  BY <1>1, Multiple
<1>3. CASE p <= q
  <2>1. p * Sector <= q * Sector
    <3>1. CASE p = q
      BY <3>1, <1>2
    <3>2. CASE p < q
      BY <3>2, <1>1, <1>2, Product, CacheAssumption
    <3> QED
      BY <3>1, <3>2, <1>1, <1>3
  <2> QED
    BY <2>1, <1>1, <1>2
<1>4. CASE q < p
  <2>1. q * Sector + Sector <= p * Sector
    BY <1>1, <1>4, Product
  <2> QED
    BY <2>1, <1>1, <1>2, CacheAssumption
<1> QED
  BY <1>1, <1>3, <1>4

(* The byte before one that begins no sector is in the same sector.        *)
LEMMA SameSector ==
    ASSUME NEW x \in Nat, ~Aligned(x)
    PROVE  x > 0 /\ (x - 1) \div Sector = x \div Sector
<1> DEFINE q == x \div Sector
           r == x % Sector
<1>1. q \in Nat /\ r \in 1..(Sector - 1) /\ x = q * Sector + r
  BY Division DEF Aligned
<1>2. q * Sector \in Nat
  BY <1>1, Multiple
<1> HIDE DEF q, r
<1>3. r - 1 \in 0..(Sector - 1) /\ x - 1 = q * Sector + (r - 1)
  BY <1>1, <1>2, CacheAssumption
<1>4. (x - 1) \div Sector = q /\ x \div Sector = q
  <2>1. r \in 0..(Sector - 1)
    BY <1>1, CacheAssumption
  <2> QED
    BY <1>1, <1>3, <2>1, Within
<1> QED
  BY <1>1, <1>2, <1>4, CacheAssumption

LEMMA OnDisk ==
    ASSUME NEW x \in Nat, x < DiskSize
    PROVE  x \div Sector \in 0..(Sectors - 1)
<1> DEFINE q == x \div Sector
           r == x % Sector
<1>1. q \in Nat /\ r \in 0..(Sector - 1) /\ x = q * Sector + r
  BY Division
<1>2. q * Sector \in Nat
  BY <1>1, Multiple
<1> HIDE DEF q, r
<1> SUFFICES ASSUME Sectors <= q PROVE FALSE
  BY <1>1, CacheAssumption DEF q
<1>3. Sectors * Sector <= q * Sector
  <2>1. CASE Sectors = q
    BY <2>1, <1>2
  <2>2. CASE Sectors < q
    BY <2>2, <1>1, <1>2, Product, CacheAssumption
  <2> QED
    BY <2>1, <2>2, <1>1, CacheAssumption
<1>4. DiskSize = Sectors * Sector
  BY CacheAssumption DEF DiskSize
<1> QED
  BY <1>1, <1>2, <1>3, <1>4, CacheAssumption

-----------------------------------------------------------------------------
(* The disk below                                                          *)

LEMMA MinOfNumbers ==
    ASSUME NEW I, I \subseteq Nat, I # {}
    PROVE  Min(I) \in I /\ \A j \in I : Min(I) <= j
<1>1. PICK m \in I : \A j \in I : ~(<<j, m>> \in OpToRel(<, Nat))
  BY WFMin, NatLessThanWellFounded
<1>2. \A j \in I : m <= j
  <2> SUFFICES ASSUME NEW j \in I, ~(m <= j) PROVE FALSE
    OBVIOUS
  <2>1. j \in Nat /\ m \in Nat /\ j < m
    OBVIOUS
  <2>2. <<j, m>> \in OpToRel(<, Nat)
    BY <2>1 DEF OpToRel
  <2> QED
    BY <2>2, <1>1
<1> QED
  BY <1>1, <1>2 DEF Min

LEMMA MinOfTwo ==
    ASSUME NEW a \in Int, NEW b \in Int
    PROVE  Min({a, b}) = IF a <= b THEN a ELSE b
BY DEF Min

(* What the sectors of a request are.                                      *)
Readable(count, offset) == SectorsOf(offset, count) \cap bad = {}

(* file_pread reads whole sectors, and all if it can.                      *)
LEMMA DeviceReads ==
    ASSUME content \in Versions, bad \in SUBSET (0..(Sectors - 1)), whole \in BOOLEAN,
           NEW count \in Nat, NEW offset \in Nat, count > 0,
           Aligned(count), Aligned(offset)
    PROVE  LET r == DevicePread(count, offset)
           IN  /\ r.data \in Seq(Nat) /\ Len(r.data) = count
               /\ r.ret = -1 \/ (r.ret \in 0..count /\ Aligned(r.ret))
               /\ \A i \in 1..count : i <= r.ret => IsAt(content, offset + i - 1, r.data[i])
               /\ Readable(count, offset) /\ offset + count <= DiskSize => r.ret = count
<1> DEFINE r == DevicePread(count, offset)
           failing == { b \in Bytes(offset, count) : b >= DiskSize \/ b \div Sector \in bad }
           got == IF failing = {} THEN count
                  ELSE IF whole THEN 0 ELSE Min(failing) - offset
<1>1. r = [ret |-> IF got = 0 THEN -1 ELSE got,
           data |-> [i \in 1..count |->
                      IF i <= got THEN content[(offset + i - 1) \div Sector] ELSE 0]]
  BY DEF DevicePread
<1>2. failing \subseteq Nat /\ \A b \in failing : offset <= b /\ b < offset + count
  BY DEF Bytes
<1>3. failing # {} =>
        Min(failing) \in failing /\ \A j \in failing : Min(failing) <= j
  <2> HIDE DEF failing
  <2> QED
    BY <1>2, MinOfNumbers
<1>4. Aligned(0)
  BY Multiple, CacheAssumption DEF Aligned
<1>5. got \in 0..count /\ Aligned(got)
  <2>1. CASE failing = {}
    BY <2>1
  <2>2. CASE failing # {} /\ whole
    BY <2>2, <1>4
  <2>3. CASE failing # {} /\ ~whole
    <3> DEFINE m == Min(failing)
    <3>1. got = m - offset /\ m \in failing /\ m \in Nat /\ offset <= m /\ m < offset + count
      BY <2>3, <1>2, <1>3
    <3>2. Aligned(m)
      <4> SUFFICES ASSUME ~Aligned(m) PROVE FALSE
        OBVIOUS
      <4>1. m > 0 /\ (m - 1) \div Sector = m \div Sector
        BY <3>1, SameSector
      <4>2. m # offset
        OBVIOUS
      <4>3. m - 1 \in Bytes(offset, count)
        BY <3>1, <4>2 DEF Bytes
      <4>4. m \div Sector \in bad \/ m >= DiskSize
        BY <3>1
      <4>5. m >= DiskSize => m - 1 >= DiskSize
        <5> SUFFICES ASSUME m - 1 < DiskSize, m >= DiskSize PROVE FALSE
          BY <3>1, CacheAssumption DEF DiskSize
        <5>1. m = DiskSize /\ DiskSize = Sectors * Sector
          BY <3>1, CacheAssumption DEF DiskSize
        <5> QED
          BY <5>1, Multiple, CacheAssumption
      <4>6. m - 1 \in failing
        BY <4>1, <4>3, <4>4, <4>5
      <4> HIDE DEF failing
      <4>7. m <= m - 1
        BY <3>1, <4>6, <1>3
      <4> QED
        BY <3>1, <4>7
    <3> HIDE DEF m
    <3>3. Aligned(m - offset)
      BY <3>1, <3>2, AlignedDifference
    <3> QED
      BY <3>1, <3>3
  <2> QED
    BY <2>1, <2>2, <2>3
<1>6. ASSUME NEW i \in 1..count, i <= got
      PROVE  (offset + i - 1) \div Sector \in 0..(Sectors - 1)
  <2>1. offset + i - 1 \in Bytes(offset, count)
    BY DEF Bytes
  <2>2. offset + i - 1 \notin failing
    <3> HIDE DEF failing
    <3> SUFFICES ASSUME offset + i - 1 \in failing PROVE FALSE
      OBVIOUS
    <3>1. got = (IF whole THEN 0 ELSE Min(failing) - offset) /\ Min(failing) \in Nat
      BY <1>2, <1>3
    <3>2. Min(failing) <= offset + i - 1
      BY <1>3
    <3> QED
      BY <3>1, <3>2, <1>6
  <2>3. offset + i - 1 \in Nat /\ offset + i - 1 < DiskSize
    BY <2>1, <2>2, CacheAssumption DEF DiskSize
  <2> QED
    BY <2>3, OnDisk
<1>7. Readable(count, offset) /\ offset + count <= DiskSize => got = count
  <2> SUFFICES ASSUME Readable(count, offset), offset + count <= DiskSize
               PROVE  failing = {}
    OBVIOUS
  <2> SUFFICES ASSUME NEW b \in failing PROVE FALSE
    OBVIOUS
  <2>1. b \in Bytes(offset, count) /\ b < DiskSize
    BY CacheAssumption DEF Bytes, DiskSize
  <2>2. b \div Sector \in SectorsOf(offset, count)
    BY <2>1 DEF SectorsOf
  <2>3. b >= DiskSize \/ b \div Sector \in bad
    OBVIOUS
  <2>4. ~(b >= DiskSize)
    BY <2>1, <1>2, CacheAssumption DEF DiskSize
  <2> QED
    BY <2>2, <2>3, <2>4 DEF Readable
<1> HIDE DEF got
<1>8. \A i \in 1..count : i <= got => content[(offset + i - 1) \div Sector] \in Nat
  BY <1>6 DEF Versions
<1>9. r.data \in Seq(Nat) /\ Len(r.data) = count
  BY <1>1, <1>8
<1>10. \A i \in 1..count : i <= r.ret => IsAt(content, offset + i - 1, r.data[i])
  <2> SUFFICES ASSUME NEW i \in 1..count, i <= r.ret
               PROVE  IsAt(content, offset + i - 1, r.data[i])
    OBVIOUS
  <2>1. got # 0 /\ r.ret = got
    BY <1>1, <1>5
  <2>2. r.data[i] = content[(offset + i - 1) \div Sector]
    BY <1>1, <2>1
  <2>3. DOMAIN content = 0..(Sectors - 1)
    BY DEF Versions
  <2> QED
    BY <2>1, <2>2, <2>3, <1>6 DEF IsAt
<1>11. r.ret = -1 \/ (r.ret \in 0..count /\ Aligned(r.ret))
  BY <1>1, <1>5
<1>12. Readable(count, offset) /\ offset + count <= DiskSize => r.ret = count
  BY <1>1, <1>7
<1> QED
  BY <1>9, <1>10, <1>11, <1>12

-----------------------------------------------------------------------------
(* One piece of a read                                                     *)

(* The buffer that is used holds the byte.                                 *)
LEMMA HitHolds ==
    ASSUME NEW c, GoodCache(c, content), NEW offset \in Nat
    PROVE  Hit(c, offset) # Buffers =>
              Hit(c, offset) \in Slots /\ Holds(c.bufs[Hit(c, offset)], offset)
<1> DEFINE holding == { i \in Slots : Holds(c.bufs[i], offset) }
<1> SUFFICES ASSUME holding # {}
             PROVE  Hit(c, offset) \in holding
  BY DEF Hit
<1> DEFINE ages == { Age(c, i) : i \in holding }
<1>1. ages \subseteq Nat /\ ages # {}
  BY CacheAssumption DEF Age, GoodCache, CacheType, Slots
<1> HIDE DEF ages
<1>2. Min(ages) \in ages /\ \A a \in ages : Min(ages) <= a
  BY <1>1, MinOfNumbers
<1>3. \E i \in holding : \A j \in holding : Age(c, i) <= Age(c, j)
  BY <1>2 DEF ages
<1> HIDE DEF holding
<1>4. (CHOOSE i \in holding : \A j \in holding : Age(c, i) <= Age(c, j)) \in holding
  BY <1>3
<1> QED
  BY <1>4 DEF Hit, holding

(* What a piece of a sequence is.                                          *)
LEMMA PieceIs ==
    ASSUME NEW s \in Seq(Nat), NEW m \in 1..Len(s), NEW n \in (m - 1)..Len(s)
    PROVE  /\ SubSeq(s, m, n) \in Seq(Nat) /\ Len(SubSeq(s, m, n)) = n - m + 1
           /\ \A i \in 1..(n - m + 1) : SubSeq(s, m, n)[i] = s[m + i - 1]
OBVIOUS

(* Buffers and requests are whole sectors, so a buffer that has the first  *)
(* byte of a request has its first sector, and counts a part of its bytes  *)
(* only if they have been read.                                            *)
LEMMA BufferReads ==
    ASSUME NEW c, GoodCache(c, content), NEW h \in Slots,
           NEW count \in Nat, NEW offset \in Nat, count > 0,
           Aligned(count), Aligned(offset), Holds(c.bufs[h], offset)
    PROVE  LET r == FromBuffer(c, h, count, offset)
           IN  /\ GoodRead(r, count, offset, content) /\ r.cache = c
               /\ count = Sector => Len(r.data) = count
               /\ count = Sector /\ r.ret > 0 => r.ret = count
               /\ ~Failed(c.bufs[h]) => r.ret = Len(r.data)
<1> DEFINE r == FromBuffer(c, h, count, offset)
           old == c.bufs[h]
           skip == offset - old.offset
           n == Min({count, old.size - skip})
<1>1. old \in BufferType /\ GoodBuffer(old, content) /\ c \in CacheType
  BY DEF GoodCache, CacheType
<1>2. /\ old.size \in Nat /\ old.offset \in Nat /\ old.status \in Int
      /\ old.data \in Seq(Nat) /\ Len(old.data) = old.size
      /\ Aligned(old.size) /\ Aligned(old.offset)
  BY <1>1 DEF BufferType, GoodBuffer
<1>17. old.status = -1 \/ (old.status \in 0..old.size /\ Aligned(old.status))
  BY <1>1 DEF GoodBuffer
<1>18. \A i \in 1..old.size :
            i <= old.status => IsAt(content, old.offset + i - 1, old.data[i])
  BY <1>1 DEF GoodBuffer
<1> HIDE DEF old
<1>3. skip \in Nat /\ Aligned(skip) /\ skip < old.size
  <2>1. old.offset <= offset /\ offset < old.offset + old.size
    BY DEF Holds, old
  <2>2. Aligned(skip)
    BY <1>2, <2>1, AlignedDifference
  <2> QED
    BY <1>2, <2>1, <2>2
<1> HIDE DEF skip
<1>4. old.size - skip \in Nat /\ Aligned(old.size - skip) /\ old.size - skip > 0
  <2>1. skip <= old.size
    BY <1>2, <1>3
  <2>2. Aligned(old.size - skip)
    BY <1>2, <1>3, <2>1, AlignedDifference
  <2> QED
    BY <1>2, <1>3, <2>2
<1>5. n = IF count <= old.size - skip THEN count ELSE old.size - skip
  BY <1>4, MinOfTwo
<1>6. n \in 1..count /\ n <= old.size - skip /\ Aligned(n)
  BY <1>4, <1>5
<1>7. /\ r.cache = c /\ r.ret = Min({old.status - skip, count})
      /\ r.data = SubSeq(old.data, skip + 1, skip + n)
  BY DEF FromBuffer, old, skip, n
<1>8. r = [cache |-> r.cache, ret |-> r.ret, data |-> r.data]
  BY DEF FromBuffer
<1> HIDE DEF r, n
<1>9. /\ r.data \in Seq(Nat) /\ Len(r.data) = n
      /\ \A i \in 1..n : r.data[i] = old.data[skip + i]
  <2>1. /\ skip + 1 \in 1..Len(old.data)
        /\ skip + n \in ((skip + 1) - 1)..Len(old.data)
    <3>1. skip + 1 <= old.size /\ skip + n <= old.size /\ skip + n \in Nat
      BY <1>2, <1>3, <1>6
    <3> QED
      BY <1>2, <1>3, <1>6, <3>1
  <2>2. /\ SubSeq(old.data, skip + 1, skip + n) \in Seq(Nat)
        /\ Len(SubSeq(old.data, skip + 1, skip + n)) = (skip + n) - (skip + 1) + 1
        /\ \A i \in 1..((skip + n) - (skip + 1) + 1) :
              SubSeq(old.data, skip + 1, skip + n)[i] = old.data[(skip + 1) + i - 1]
    BY <1>2, <2>1, PieceIs
  <2>3. (skip + n) - (skip + 1) + 1 = n
    BY <1>3, <1>6
  <2>4. \A i \in 1..n : (skip + 1) + i - 1 = skip + i
    BY <1>3, <1>6
  <2> QED
    BY <2>2, <2>3, <2>4, <1>7
<1>10. r.ret = (IF old.status - skip <= count THEN old.status - skip ELSE count)
       /\ r.ret \in Int
  <2>1. old.status - skip \in Int /\ count \in Int
    BY <1>2, <1>3
  <2>2. Min({old.status - skip, count})
           = IF old.status - skip <= count THEN old.status - skip ELSE count
    BY <2>1, MinOfTwo
  <2> QED
    BY <1>7, <2>1, <2>2
<1>11. r.ret <= n
  BY <1>2, <1>17, <1>3, <1>4, <1>5, <1>10
<1>12. ASSUME r.ret = n, NEW i \in 1..n
       PROVE  IsAt(content, offset + i - 1, r.data[i])
  <2>1. skip + i \in 1..old.size /\ skip + i <= old.status
    <3>1. skip + i \in 1..old.size
      BY <1>2, <1>3, <1>6
    <3>2. r.ret <= old.status - skip
      BY <1>2, <1>3, <1>10
    <3> QED
      BY <1>2, <1>3, <1>6, <1>12, <3>1, <3>2
  <2>2. IsAt(content, old.offset + (skip + i) - 1, old.data[skip + i])
    BY <1>18, <2>1
  <2>3. old.offset + (skip + i) - 1 = offset + i - 1
    BY <1>2, <1>3 DEF skip
  <2> QED
    BY <1>9, <2>2, <2>3
<1>13. r \in ReadType
  BY <1>1, <1>7, <1>8, <1>9, <1>10 DEF ReadType
<1>14. GoodRead(r, count, offset, content)
  BY <1>6, <1>7, <1>9, <1>11, <1>12, <1>13 DEF GoodRead, PartRead
<1>15. ASSUME count = Sector
       PROVE  n = count /\ (r.ret > 0 => r.ret = count)
  <2>1. old.size - skip >= Sector
    BY <1>4, AlignedPositive
  <2>2. n = count
    BY <1>5, <1>15, <2>1
  <2>3. ASSUME r.ret > 0 PROVE r.ret = count
    <3>1. old.status - skip \in Nat /\ old.status \in Nat /\ Aligned(old.status)
          /\ skip <= old.status /\ old.status - skip > 0
      <4>1. r.ret <= old.status - skip
        BY <1>2, <1>3, <1>10
      <4>2. old.status > 0 /\ skip <= old.status /\ old.status - skip > 0
        BY <1>2, <1>3, <1>10, <2>3, <4>1
      <4> QED
        BY <1>2, <1>17, <1>3, <4>2
    <3>2. Aligned(old.status - skip)
      BY <1>3, <3>1, AlignedDifference
    <3>3. old.status - skip >= Sector
      BY <3>1, <3>2, AlignedPositive
    <3> QED
      BY <1>10, <1>15, <3>1, <3>3
  <2> QED
    BY <2>2, <2>3
<1>16. ~Failed(old) => r.ret = n
  BY <1>2, <1>17, <1>3, <1>4, <1>5, <1>10 DEF Failed
<1> QED
  BY <1>7, <1>9, <1>14, <1>15, <1>16 DEF old, r

(* A slot of the ring is filled: other buffers stay, the new one begins    *)
(* with the request and is at least as long.                               *)
Filled(c, f, count, offset, readAhead) ==
    LET b == f.bufs[f.last]
    IN  /\ GoodCache(f, content) /\ f.last \in Slots
        /\ b.offset = offset /\ b.size \in Nat /\ b.size >= count /\ Aligned(b.size)
        /\ ~readAhead => b.size = count
        /\ f.errors = IF b.status >= count THEN 0 ELSE Min({c.errors + 1, 2})
        /\ Readable(b.size, offset) /\ offset + b.size <= DiskSize => b.status = b.size
        /\ \A i \in Slots : i # f.last => f.bufs[i] = c.bufs[i]

LEMMA FillIs ==
    ASSUME content \in Versions, bad \in SUBSET (0..(Sectors - 1)), whole \in BOOLEAN,
           NEW c, GoodCache(c, content), NEW readAhead \in BOOLEAN,
           NEW count \in Nat, NEW offset \in Nat, count > 0,
           Aligned(count), Aligned(offset)
    PROVE  Filled(c, Fill(c, count, offset, readAhead), count, offset, readAhead)
<1> DEFINE f == Fill(c, count, offset, readAhead)
           n == CountNew(count, offset, readAhead)
           slot == (c.last + 1) % Buffers
           read == DevicePread(n, offset)
           new == [size |-> n, offset |-> offset, status |-> read.ret, data |-> read.data]
<1>1. /\ n \in Nat /\ n >= count /\ Aligned(n) /\ n > 0
      /\ ~readAhead => n = count
  BY CacheAssumption DEF CountNew, Aligned
<1>2. c \in CacheType /\ c.last \in Slots /\ c.errors \in 0..2
      /\ c.bufs \in [Slots -> BufferType] /\ \A i \in Slots : GoodBuffer(c.bufs[i], content)
  BY DEF GoodCache, CacheType
<1>3. slot \in Slots
  <2> DEFINE next == c.last + 1
  <2>1. next \in Nat /\ Buffers \in Nat \ {0}
    BY <1>2, CacheAssumption DEF Slots
  <2> HIDE DEF next
  <2>2. next % Buffers \in 0..(Buffers - 1)
    BY <2>1
  <2> QED
    BY <2>2 DEF Slots, next
<1>4. f = [bufs |-> [c.bufs EXCEPT ![slot] = new], last |-> slot,
           errors |-> IF read.ret >= count THEN 0 ELSE Min({c.errors + 1, 2})]
  BY DEF Fill
<1> HIDE DEF n, slot
<1>5. /\ read.data \in Seq(Nat) /\ Len(read.data) = n
      /\ read.ret = -1 \/ (read.ret \in 0..n /\ Aligned(read.ret))
      /\ \A i \in 1..n : i <= read.ret => IsAt(content, offset + i - 1, read.data[i])
      /\ Readable(n, offset) /\ offset + n <= DiskSize => read.ret = n
  BY <1>1, DeviceReads
<1> HIDE DEF read
<1>6. read.ret \in Int
  BY <1>1, <1>5
<1>7. new \in BufferType /\ GoodBuffer(new, content)
  BY <1>1, <1>5, <1>6 DEF BufferType, GoodBuffer
<1>8. f.errors \in 0..2
  <2>1. c.errors + 1 \in Int /\ 2 \in Int
    BY <1>2
  <2>2. Min({c.errors + 1, 2}) = IF c.errors + 1 <= 2 THEN c.errors + 1 ELSE 2
    BY <2>1, MinOfTwo
  <2> QED
    BY <1>2, <1>4, <2>2
<1>9. f.bufs = [c.bufs EXCEPT ![slot] = new] /\ f.last = slot
  BY <1>4
<1>10. f.bufs[slot] = new /\ \A i \in Slots : i # slot => f.bufs[i] = c.bufs[i]
  BY <1>2, <1>3, <1>9
<1>11. f.bufs \in [Slots -> BufferType]
  BY <1>2, <1>3, <1>7, <1>9
<1>12. GoodCache(f, content)
  <2>1. f \in CacheType
    BY <1>3, <1>4, <1>8, <1>9, <1>11 DEF CacheType
  <2>2. \A i \in Slots : GoodBuffer(f.bufs[i], content)
    BY <1>2, <1>7, <1>10
  <2> QED
    BY <2>1, <2>2 DEF GoodCache
<1>13. f.errors = IF new.status >= count THEN 0 ELSE Min({c.errors + 1, 2})
  BY <1>4
<1>14. new.offset = offset /\ new.size = n /\ new.status = read.ret
  OBVIOUS
<1> HIDE DEF f, new
<1> QED
  BY <1>1, <1>3, <1>5, <1>9, <1>10, <1>12, <1>13, <1>14 DEF f, Filled

(* What is taken of it.                                                    *)
LEMMA DiskReads ==
    ASSUME NEW f, GoodCache(f, content), NEW count \in Nat, NEW offset \in Nat,
           count > 0, Aligned(count),
           f.bufs[f.last].offset = offset, f.bufs[f.last].size >= count
    PROVE  LET r == FromDisk(f, count)
           IN  /\ GoodRead(r, count, offset, content) /\ r.cache = f
               /\ Len(r.data) = count
               /\ r.ret = IF f.bufs[f.last].status <= count THEN f.bufs[f.last].status
                          ELSE count
               /\ count = Sector /\ r.ret > 0 => r.ret = count
<1> DEFINE r == FromDisk(f, count)
           b == f.bufs[f.last]
<1>1. b \in BufferType /\ GoodBuffer(b, content) /\ f \in CacheType
  BY DEF GoodCache, CacheType
<1>2. r = [cache |-> f, ret |-> Min({b.status, count}), data |-> SubSeq(b.data, 1, count)]
  BY DEF FromDisk
<1>3. b.offset = offset /\ b.size >= count
  OBVIOUS
<1> HIDE DEF b
<1>4. b.size \in Nat /\ b.status \in Int /\ b.data \in Seq(Nat) /\ Len(b.data) = b.size
  BY <1>1 DEF BufferType, GoodBuffer
<1>5. b.status = -1 \/ (b.status \in 0..b.size /\ Aligned(b.status))
  BY <1>1 DEF GoodBuffer
<1>6. \A i \in 1..b.size : i <= b.status => IsAt(content, offset + i - 1, b.data[i])
  BY <1>1, <1>3 DEF GoodBuffer
<1>7. r.ret = IF b.status <= count THEN b.status ELSE count
  BY <1>2, <1>4, MinOfTwo
<1>8. /\ r.data \in Seq(Nat) /\ Len(r.data) = count
      /\ \A i \in 1..count : r.data[i] = b.data[i]
  <2>1. 1 \in 1..Len(b.data) /\ count \in (1 - 1)..Len(b.data)
    BY <1>3, <1>4
  <2>2. /\ SubSeq(b.data, 1, count) \in Seq(Nat)
        /\ Len(SubSeq(b.data, 1, count)) = count - 1 + 1
        /\ \A i \in 1..(count - 1 + 1) : SubSeq(b.data, 1, count)[i] = b.data[1 + i - 1]
    BY <1>4, <2>1, PieceIs
  <2> QED
    BY <1>2, <2>2
<1>9. r \in ReadType /\ r.ret <= count /\ r.cache = f
  BY <1>1, <1>2, <1>4, <1>7, <1>8 DEF ReadType
<1>10. ASSUME r.ret = count, NEW i \in 1..count
       PROVE  IsAt(content, offset + i - 1, r.data[i])
  <2>1. i \in 1..b.size /\ i <= b.status
    BY <1>3, <1>4, <1>7, <1>10
  <2> QED
    BY <1>6, <1>8, <2>1
<1>11. GoodRead(r, count, offset, content)
  BY <1>8, <1>9, <1>10 DEF GoodRead, PartRead
<1>12. ASSUME count = Sector, r.ret > 0
       PROVE  r.ret = count
  <2>1. b.status \in Nat /\ Aligned(b.status) /\ b.status > 0
    BY <1>5, <1>7, <1>12
  <2>2. b.status >= Sector
    BY <2>1, AlignedPositive
  <2> QED
    BY <1>4, <1>7, <1>12, <2>2
<1> HIDE DEF r
<1> QED
  BY <1>7, <1>8, <1>9, <1>11, <1>12 DEF b, r

(* A cache that remembers no failure in a request.                         *)
Unhurt(c, count, offset) ==
    \A i \in Slots : Failed(c.bufs[i]) => ~Overlaps(c.bufs[i], count, offset)

(* No buffer of d has failed that c did not have.                          *)
NoNewFailures(c, d) == \A i \in Slots : Failed(d.bufs[i]) => d.bufs[i] = c.bufs[i]

(* A sector, from a buffer or from the disk: all of it or nothing.         *)
LEMMA SectorReads ==
    ASSUME content \in Versions, bad \in SUBSET (0..(Sectors - 1)), whole \in BOOLEAN,
           NEW c, GoodCache(c, content), NEW offset \in Nat, Aligned(offset)
    PROVE  LET r == PreadSector(c, Sector, offset)
           IN  /\ GoodRead(r, Sector, offset, content) /\ Len(r.data) = Sector
               /\ r.ret > 0 => r.ret = Sector
               /\ /\ Unhurt(c, Sector, offset) /\ Readable(Sector, offset)
                  /\ offset + Sector <= DiskSize
                  => r.ret = Sector /\ NoNewFailures(c, r.cache)
<1> DEFINE r == PreadSector(c, Sector, offset)
           hit == Hit(c, offset)
           f == Fill(c, Sector, offset, FALSE)
<1>1. Sector \in Nat /\ Sector > 0 /\ Aligned(Sector)
  BY Multiple, CacheAssumption
<1>2. CASE hit # Buffers
  <2>1. hit \in Slots /\ Holds(c.bufs[hit], offset)
    BY <1>2, HitHolds
  <2>2. r = FromBuffer(c, hit, Sector, offset)
    BY <1>2 DEF PreadSector
  <2> DEFINE q == FromBuffer(c, hit, Sector, offset)
             h == hit
  <2> HIDE DEF hit
  <2>3. /\ GoodRead(q, Sector, offset, content) /\ q.cache = c
        /\ Len(q.data) = Sector
        /\ q.ret > 0 => q.ret = Sector
        /\ ~Failed(c.bufs[hit]) => q.ret = Len(q.data)
    BY <1>1, <2>1, BufferReads
  <2>4. Overlaps(c.bufs[hit], Sector, offset)
    <3>1. c.bufs[hit].size \in Nat /\ c.bufs[hit].offset \in Nat
      BY <2>1 DEF GoodCache, CacheType, BufferType
    <3> QED
      BY <1>1, <2>1, <3>1 DEF Holds, Overlaps
  <2>5. Unhurt(c, Sector, offset) => ~Failed(c.bufs[hit])
    BY <2>1, <2>4 DEF Unhurt
  <2>6. NoNewFailures(c, q.cache)
    BY <2>3 DEF NoNewFailures
  <2> HIDE DEF q
  <2> QED
    BY <2>2, <2>3, <2>5, <2>6 DEF q
<1>3. CASE hit = Buffers
  <2>1. r = FromDisk(f, Sector)
    BY <1>3 DEF PreadSector
  <2> DEFINE q == FromDisk(f, Sector)
             b == f.bufs[f.last]
  <2>2. /\ GoodCache(f, content) /\ f.last \in Slots
        /\ b.offset = offset /\ b.size = Sector
        /\ Readable(b.size, offset) /\ offset + b.size <= DiskSize
              => b.status = b.size
        /\ \A i \in Slots : i # f.last => f.bufs[i] = c.bufs[i]
    <3>1. Filled(c, f, Sector, offset, FALSE)
      BY <1>1, FillIs
    <3> HIDE DEF f
    <3> QED
      BY <3>1 DEF Filled
  <2> HIDE DEF f
  <2>3. /\ GoodRead(q, Sector, offset, content) /\ q.cache = f
        /\ Len(q.data) = Sector
        /\ q.ret = IF b.status <= Sector THEN b.status ELSE Sector
        /\ q.ret > 0 => q.ret = Sector
    BY <1>1, <2>2, DiskReads
  <2>4. ASSUME Readable(Sector, offset), offset + Sector <= DiskSize
        PROVE  q.ret = Sector /\ NoNewFailures(c, q.cache)
    <3>1. b.status = Sector /\ b.size = Sector
      BY <2>2, <2>4
    <3>2. ~Failed(b)
      BY <1>1, <3>1 DEF Failed
    <3>3. NoNewFailures(c, f)
      BY <2>2, <3>2 DEF NoNewFailures
    <3> HIDE DEF q
    <3> QED
      BY <1>1, <2>3, <3>1, <3>3
  <2> HIDE DEF q
  <2> QED
    BY <2>1, <2>3, <2>4 DEF q
<1> QED
  BY <1>2, <1>3

-----------------------------------------------------------------------------
(* The loops                                                               *)

(* A set of numbers with 0, and with the next number of each.              *)
LEMMA CountUp ==
    ASSUME NEW M, 0 \in M, \A m \in Nat : m \in M => m + 1 \in M
    PROVE  Nat \subseteq M
<1> SUFFICES ASSUME ~(Nat \subseteq M) PROVE FALSE
  OBVIOUS
<1> DEFINE I == Nat \ M
           k == Min(I)
<1>1. I \subseteq Nat /\ I # {}
  OBVIOUS
<1>2. k \in I /\ \A j \in I : k <= j
  <2> HIDE DEF I
  <2> QED
    BY <1>1, MinOfNumbers
<1>3. k \in Nat /\ k \notin M /\ k # 0
  BY <1>2
<1> HIDE DEF k
<1>4. k - 1 \in I
  BY <1>3
<1>5. k <= k - 1
  BY <1>2, <1>4
<1> QED
  BY <1>3, <1>5

(* One turn of the loop over the sectors.                                  *)
NextSector(r, count, offset) ==
    LET n == Min({Sector, count - r.ret})
        one == PreadSector(r.cache, n, offset + r.ret)
    IN  IF Len(r.data) = count THEN r
        ELSE IF one.ret > 0
        THEN [cache |-> one.cache, ret |-> r.ret + n, data |-> r.data \o one.data]
        ELSE [cache |-> one.cache, ret |-> r.ret,
              data |-> r.data \o [i \in 1..(count - r.ret) |-> 0]]

(* One more call.                                                          *)
NextCall(r, count, offset, readAhead) ==
    LET one == PreadOnce(r.cache, count - Len(r.data), offset + Len(r.data), readAhead)
    IN  IF Len(r.data) = count THEN r
        ELSE [cache |-> one.cache, ret |-> r.ret + one.ret, data |-> r.data \o one.data]

Nothing(c) == [cache |-> c, ret |-> 0, data |-> <<>>]

(* The recursive functions are what their equations say.                   *)
LEMMA SectorsAre ==
    ASSUME NEW c, NEW count \in Nat, NEW offset
    PROVE  LET g == PreadSectors(c, count, offset)
           IN  /\ g[0] = Nothing(c)
               /\ \A k \in 0..(count - 1) : g[k + 1] = NextSector(g[k], count, offset)
<1> DEFINE P(m, g) == g = [k \in 0..m |->
                             IF k = 0 THEN Nothing(c) ELSE NextSector(g[k - 1], count, offset)]
           M == { m \in Nat : \E g : P(m, g) }
<1>1. 0 \in M
  <2>1. P(0, [k \in 0..0 |-> Nothing(c)])
    OBVIOUS
  <2> HIDE DEF P
  <2> QED
    BY <2>1
<1>2. ASSUME NEW m \in Nat, m \in M PROVE m + 1 \in M
  <2>1. PICK g : P(m, g)
    <3> HIDE DEF P
    <3> QED
      BY <1>2
  <2> DEFINE h == [k \in 0..(m + 1) |-> IF k <= m THEN g[k] ELSE NextSector(g[m], count, offset)]
  <2>2. ASSUME NEW k \in 0..(m + 1)
        PROVE  h[k] = IF k = 0 THEN Nothing(c) ELSE NextSector(h[k - 1], count, offset)
    <3>1. CASE k = 0
      BY <3>1, <2>1
    <3>2. CASE k # 0 /\ k <= m
      <4>1. k \in 0..m /\ k - 1 \in 0..m /\ k - 1 <= m /\ k - 1 \in 0..(m + 1)
        BY <3>2
      <4>2. h[k] = g[k] /\ h[k - 1] = g[k - 1]
        BY <4>1
      <4>3. g[k] = NextSector(g[k - 1], count, offset)
        BY <4>1, <3>2, <2>1
      <4> QED
        BY <4>2, <4>3, <3>2
    <3>3. CASE k = m + 1
      <4>1. h[k - 1] = g[m] /\ k # 0
        BY <3>3
      <4>2. h[k] = NextSector(g[m], count, offset)
        BY <3>3
      <4> QED
        BY <4>1, <4>2
    <3> QED
      BY <3>1, <3>2, <3>3
  <2>3. h = [k \in 0..(m + 1) |-> h[k]]
    OBVIOUS
  <2> HIDE DEF h
  <2>4. P(m + 1, h)
    BY <2>2, <2>3
  <2> HIDE DEF P
  <2>5. m + 1 \in Nat
    OBVIOUS
  <2> QED
    BY <2>4, <2>5
<1>3. count \in M
  <2> HIDE DEF M
  <2> QED
    BY <1>1, <1>2, CountUp
<1>4. \E g : P(count, g)
  <2> HIDE DEF P
  <2> QED
    BY <1>3
<1>5. PreadSectors(c, count, offset) = CHOOSE g : P(count, g)
  BY DEF PreadSectors, NextSector, Nothing
<1> HIDE DEF P
<1>6. P(count, PreadSectors(c, count, offset))
  BY <1>4, <1>5
<1> DEFINE f == PreadSectors(c, count, offset)
<1>7. f = [k \in 0..count |-> IF k = 0 THEN Nothing(c) ELSE NextSector(f[k - 1], count, offset)]
  BY <1>6 DEF P
<1> HIDE DEF f
<1>8. f[0] = Nothing(c)
  BY <1>7
<1>9. ASSUME NEW k \in 0..(count - 1)
      PROVE  f[k + 1] = NextSector(f[k], count, offset)
  <2>1. k + 1 \in 0..count /\ k + 1 # 0 /\ (k + 1) - 1 = k
    OBVIOUS
  <2> QED
    BY <1>7, <2>1
<1> QED
  BY <1>8, <1>9 DEF f

(* What holds of a request holds of its parts.                             *)
LEMMA PartOfRequest ==
    ASSUME NEW c, GoodCache(c, content), NEW count \in Nat, NEW offset \in Nat,
           NEW m \in Nat, NEW o \in Nat, m > 0, offset <= o, o + m <= offset + count
    PROVE  /\ Unhurt(c, count, offset) => Unhurt(c, m, o)
           /\ Readable(count, offset) => Readable(m, o)
           /\ offset + count <= DiskSize => o + m <= DiskSize
<1>1. ASSUME Unhurt(c, count, offset) PROVE Unhurt(c, m, o)
  <2> SUFFICES ASSUME NEW i \in Slots, Failed(c.bufs[i]), Overlaps(c.bufs[i], m, o)
               PROVE  Overlaps(c.bufs[i], count, offset)
    BY <1>1 DEF Unhurt
  <2>1. c.bufs[i].size \in Nat /\ c.bufs[i].offset \in Nat
    BY DEF GoodCache, CacheType, BufferType
  <2> QED
    BY <2>1 DEF Overlaps
<1>2. ASSUME Readable(count, offset) PROVE Readable(m, o)
  <2>1. Bytes(o, m) \subseteq Bytes(offset, count)
    BY DEF Bytes
  <2>2. SectorsOf(o, m) \subseteq SectorsOf(offset, count)
    BY <2>1 DEF SectorsOf
  <2> QED
    BY <1>2, <2>2 DEF Readable
<1>3. offset + count <= DiskSize => o + m <= DiskSize
  BY CacheAssumption DEF DiskSize
<1> QED
  BY <1>1, <1>2, <1>3

(* What was read so far, and one piece more.                               *)
Join(r, one) ==
    [cache |-> one.cache, ret |-> r.ret + one.ret, data |-> r.data \o one.data]

LEMMA Joined ==
    ASSUME NEW count \in Nat, NEW offset \in Nat,
           NEW r, PartRead(r, count, offset, content),
           NEW n \in Nat, n + Len(r.data) <= count,
           NEW at \in Nat, at = offset + Len(r.data),
           NEW one, GoodRead(one, n, at, content)
    PROVE  PartRead(Join(r, one), count, offset, content)
<1> DEFINE q == Join(r, one)
           a == Len(r.data)
           b == Len(one.data)
<1>1. /\ r.data \in Seq(Nat) /\ one.data \in Seq(Nat) /\ r.ret \in Int /\ one.ret \in Int
      /\ one.cache \in CacheType /\ GoodCache(one.cache, content)
      /\ a \in 0..count /\ b \in 1..n /\ Aligned(a) /\ Aligned(b)
      /\ r.ret <= a /\ one.ret <= b
  BY DEF GoodRead, PartRead, ReadType
<1>2. r.ret = a => \A i \in 1..a : IsAt(content, offset + i - 1, r.data[i])
  BY DEF PartRead
<1>3. one.ret = b => \A i \in 1..b : IsAt(content, offset + a + i - 1, one.data[i])
  BY DEF GoodRead, PartRead
<1>4. q.cache = one.cache /\ q.ret = r.ret + one.ret /\ q.data = r.data \o one.data
  BY DEF Join
<1>5. q \in ReadType
  <2>1. q = [cache |-> one.cache, ret |-> r.ret + one.ret, data |-> r.data \o one.data]
    BY DEF Join
  <2>2. r.data \o one.data \in Seq(Nat)
    BY <1>1, ConcatProperties
  <2>3. r.ret + one.ret \in Int
    BY <1>1
  <2> HIDE DEF q
  <2> QED
    BY <1>1, <2>1, <2>2, <2>3 DEF ReadType
<1> HIDE DEF q
<1>6. /\ q.data \in Seq(Nat) /\ Len(q.data) = a + b
      /\ \A i \in 1..(a + b) : q.data[i] = IF i <= a THEN r.data[i] ELSE one.data[i - a]
  <2> DEFINE s == r.data
             u == one.data
  <2>1. s \in Seq(Nat) /\ u \in Seq(Nat) /\ a = Len(s) /\ b = Len(u)
        /\ q.data = s \o u
    BY <1>1, <1>4
  <2> HIDE DEF s, u, a, b
  <2>2. /\ s \o u \in Seq(Nat) /\ Len(s \o u) = Len(s) + Len(u)
        /\ \A i \in 1..(Len(s) + Len(u)) :
              (s \o u)[i] = IF i <= Len(s) THEN s[i] ELSE u[i - Len(s)]
    BY <2>1, ConcatProperties
  <2> QED
    BY <2>1, <2>2 DEF s, u
<1> HIDE DEF a, b
<1>7. Aligned(a + b)
  BY <1>1, AlignedSum
<1>8. a + b \in 0..count /\ q.ret <= a + b
  <2>1. a \in Nat /\ b \in Nat /\ n + a <= count /\ b <= n
    BY <1>1 DEF a
  <2> QED
    BY <1>1, <1>4, <2>1
<1>9. q.ret = a + b => r.ret = a /\ one.ret = b
  BY <1>1, <1>4
<1>10. ASSUME q.ret = a + b, NEW i \in 1..(a + b)
       PROVE  IsAt(content, offset + i - 1, q.data[i])
  <2>1. CASE i <= a
    <3>1. i \in 1..a /\ q.data[i] = r.data[i]
      BY <1>1, <1>6, <2>1
    <3> QED
      BY <1>2, <1>9, <1>10, <3>1
  <2>2. CASE ~(i <= a)
    <3>1. i - a \in 1..b /\ q.data[i] = one.data[i - a]
      <4>1. q.data[i] = one.data[i - a]
        BY <1>6, <2>2
      <4> QED
        BY <1>1, <2>2, <4>1
    <3>2. offset + a + (i - a) - 1 = offset + i - 1
      BY <1>1
    <3>3. IsAt(content, offset + a + (i - a) - 1, one.data[i - a])
      BY <1>3, <1>9, <1>10, <3>1
    <3> QED
      BY <3>1, <3>2, <3>3
  <2> QED
    BY <2>1, <2>2
<1>11. PartRead(q, count, offset, content)
  BY <1>1, <1>4, <1>5, <1>6, <1>7, <1>8, <1>10 DEF PartRead
<1> QED
  BY <1>11 DEF q

LEMMA JoinedLength ==
    ASSUME NEW r, r.data \in Seq(Nat), NEW one, one.data \in Seq(Nat)
    PROVE  Len(Join(r, one).data) = Len(r.data) + Len(one.data)
<1> DEFINE s == r.data
           u == one.data
<1>1. Join(r, one).data = s \o u
  BY DEF Join
<1>2. s \in Seq(Nat) /\ u \in Seq(Nat)
  OBVIOUS
<1> HIDE DEF s, u
<1>3. Len(s \o u) = Len(s) + Len(u)
  BY <1>2, ConcatProperties
<1> QED
  BY <1>1, <1>3 DEF s, u

(* A request no failure stands against: readable, and none remembered.     *)
Sound(c, count, offset) ==
    Unhurt(c, count, offset) /\ Readable(count, offset) /\ offset + count <= DiskSize

LEMMA NothingRead ==
    ASSUME NEW c, GoodCache(c, content), NEW count \in Nat, NEW offset \in Nat
    PROVE  /\ PartRead(Nothing(c), count, offset, content)
           /\ Nothing(c).ret = 0 /\ Len(Nothing(c).data) = 0 /\ Nothing(c).cache = c
<1>1. Aligned(0) /\ Len(<<>>) = 0 /\ <<>> \in Seq(Nat)
  BY Multiple, CacheAssumption DEF Aligned
<1>2. Nothing(c) \in ReadType
  BY <1>1 DEF Nothing, ReadType, GoodCache
<1> QED
  BY <1>1, <1>2 DEF Nothing, PartRead

LEMMA NoNewFailuresAdd ==
    ASSUME NEW c, NEW d, NEW e, NoNewFailures(c, d), NoNewFailures(d, e)
    PROVE  NoNewFailures(c, e)
BY DEF NoNewFailures

LEMMA StillUnhurt ==
    ASSUME NEW c, NEW d, NoNewFailures(c, d), NEW count, NEW offset, Unhurt(c, count, offset)
    PROVE  Unhurt(d, count, offset)
BY DEF NoNewFailures, Unhurt

(* One turn of the loop goes on by a sector, or fills the rest with zeros  *)
(* that are not counted.                                                   *)
LEMMA NextSectorReads ==
    ASSUME content \in Versions, bad \in SUBSET (0..(Sectors - 1)), whole \in BOOLEAN,
           NEW count \in Nat, NEW offset \in Nat, Aligned(count), Aligned(offset),
           NEW r, PartRead(r, count, offset, content), Len(r.data) < count,
           r.ret = Len(r.data)
    PROVE  LET q == NextSector(r, count, offset)
           IN  /\ PartRead(q, count, offset, content)
               /\ \/ Len(q.data) = count
                  \/ q.ret = Len(q.data) /\ Len(q.data) > Len(r.data)
               /\ Sound(r.cache, count, offset) =>
                     q.ret = Len(q.data) /\ NoNewFailures(r.cache, q.cache)
<1> DEFINE a == Len(r.data)
           q == NextSector(r, count, offset)
           one == PreadSector(r.cache, Sector, offset + a)
<1>1. /\ r \in ReadType /\ GoodCache(r.cache, content) /\ a \in Nat /\ Aligned(a)
      /\ a < count /\ r.ret = a /\ r.data \in Seq(Nat)
  BY DEF PartRead, ReadType
<1>2. Sector \in Nat /\ Sector > 0 /\ a + Sector <= count
  BY <1>1, AlignedDifference, CacheAssumption
<1>3. Min({Sector, count - a}) = Sector
  <2>1. count - a \in Int /\ Sector <= count - a
    BY <1>1, <1>2
  <2> QED
    BY <1>2, <2>1, MinOfTwo
<1>4. offset + a \in Nat /\ Aligned(offset + a)
  <2> HIDE DEF a
  <2> QED
    BY <1>1, AlignedSum
<1>5. /\ GoodRead(one, Sector, offset + a, content) /\ Len(one.data) = Sector
      /\ one.ret > 0 => one.ret = Sector
      /\ Sound(r.cache, Sector, offset + a)
            => one.ret = Sector /\ NoNewFailures(r.cache, one.cache)
  BY <1>1, <1>4, SectorReads DEF Sound
<1>6. q = IF one.ret > 0
          THEN [cache |-> one.cache, ret |-> a + Sector, data |-> r.data \o one.data]
          ELSE [cache |-> one.cache, ret |-> a,
                data |-> r.data \o [i \in 1..(count - a) |-> 0]]
  <2>1. Min({Sector, count - r.ret}) = Sector /\ offset + r.ret = offset + a
        /\ Len(r.data) # count
    BY <1>1, <1>3
  <2>2. q = IF one.ret > 0
            THEN [cache |-> one.cache, ret |-> r.ret + Sector, data |-> r.data \o one.data]
            ELSE [cache |-> one.cache, ret |-> r.ret,
                  data |-> r.data \o [i \in 1..(count - r.ret) |-> 0]]
    BY <2>1 DEF NextSector
  <2> HIDE DEF one, q, a
  <2> QED
    BY <1>1, <2>2
<1> HIDE DEF one, q
<1>7. CASE one.ret > 0
  <2> DEFINE p == Join(r, one)
  <2>1. q = p
    BY <1>1, <1>5, <1>6, <1>7 DEF Join
  <2>2. /\ PartRead(p, count, offset, content)
        /\ Len(p.data) = Len(r.data) + Len(one.data)
        /\ p.cache = one.cache /\ p.ret = r.ret + one.ret
    <3>1. Sector + Len(r.data) <= count
      BY <1>1, <1>2
    <3> QED
      <4> DEFINE at == offset + a
      <4>1. at \in Nat /\ at = offset + Len(r.data) /\ GoodRead(one, Sector, at, content)
        BY <1>4, <1>5
      <4>2. Sector \in Nat
        BY <1>2
      <4> HIDE DEF at
      <4> QED
        <5>1. PartRead(p, count, offset, content)
          BY <3>1, <4>1, <4>2, Joined
        <5>2. r.data \in Seq(Nat) /\ one.data \in Seq(Nat)
          BY <4>1 DEF PartRead, GoodRead, ReadType
        <5>3. Len(p.data) = Len(r.data) + Len(one.data)
          BY <5>2, JoinedLength
        <5>4. p.cache = one.cache /\ p.ret = r.ret + one.ret
          BY DEF Join
        <5> QED
          BY <5>1, <5>3, <5>4
  <2>3. p.ret = a + Sector /\ p.cache = one.cache
    BY <1>1, <1>5, <1>7, <2>2
  <2> HIDE DEF p
  <2>4. q.ret = Len(q.data) /\ Len(q.data) > a
    BY <1>1, <1>2, <1>5, <2>1, <2>2, <2>3
  <2>5. Sound(r.cache, count, offset) => Sound(r.cache, Sector, offset + a)
    <3>1. offset <= offset + a /\ (offset + a) + Sector <= offset + count
      BY <1>1, <1>2
    <3>2. GoodCache(r.cache, content) /\ Sector \in Nat
      BY <1>1, <1>2
    <3> DEFINE at == offset + a
    <3>3. at \in Nat /\ Aligned(at) /\ offset <= at /\ at + Sector <= offset + count
      BY <1>4, <3>1
    <3> HIDE DEF at
    <3>4. Sound(r.cache, count, offset) => Sound(r.cache, Sector, at)
      BY <1>2, <3>2, <3>3, PartOfRequest DEF Sound
    <3> QED
      BY <3>4 DEF at
  <2> HIDE DEF a
  <2> QED
    BY <1>5, <2>1, <2>2, <2>3, <2>4, <2>5 DEF q, a
<1>8. CASE ~(one.ret > 0)
  <2> DEFINE z == [i \in 1..(count - a) |-> 0]
  <2>1. z \in Seq(Nat) /\ Len(z) = count - a
    BY <1>1
  <2> HIDE DEF z
  <2>2. q = [cache |-> one.cache, ret |-> a, data |-> r.data \o z]
    BY <1>6, <1>8 DEF z
  <2>3. r.data \o z \in Seq(Nat) /\ Len(r.data \o z) = count
    <3>1. r.data \o z \in Seq(Nat) /\ Len(r.data \o z) = Len(r.data) + Len(z)
      BY <1>1, <2>1, ConcatProperties
    <3> QED
      BY <1>1, <2>1, <3>1
  <2>4. one.cache \in CacheType /\ GoodCache(one.cache, content)
    BY <1>5 DEF GoodRead, PartRead, GoodCache
  <2>5. q \in ReadType /\ q.cache = one.cache /\ q.ret = a /\ Len(q.data) = count
    BY <1>1, <2>2, <2>3, <2>4 DEF ReadType
  <2>6. PartRead(q, count, offset, content)
    BY <1>1, <2>4, <2>5 DEF PartRead
  <2>7. ~Sound(r.cache, count, offset)
    <3>1. offset <= offset + a /\ (offset + a) + Sector <= offset + count
      BY <1>1, <1>2
    <3>2. Sound(r.cache, count, offset) => Sound(r.cache, Sector, offset + a)
      <4>1. GoodCache(r.cache, content) /\ Sector \in Nat
        BY <1>1, <1>2
      <4> DEFINE at == offset + a
      <4>2. at \in Nat /\ Aligned(at) /\ offset <= at /\ at + Sector <= offset + count
        BY <1>4, <3>1
      <4> HIDE DEF at
      <4>3. Sound(r.cache, count, offset) => Sound(r.cache, Sector, at)
        BY <1>2, <4>1, <4>2, PartOfRequest DEF Sound
      <4> QED
        BY <4>3 DEF at
    <3> QED
      BY <1>2, <1>5, <1>8, <3>2
  <2> QED
    BY <2>5, <2>6, <2>7 DEF q
<1> QED
  BY <1>7, <1>8

(* The loop over the sectors fills the request.                            *)
LEMMA SectorsRead ==
    ASSUME content \in Versions, bad \in SUBSET (0..(Sectors - 1)), whole \in BOOLEAN,
           NEW c, GoodCache(c, content), NEW count \in Nat, NEW offset \in Nat,
           count > 0, Aligned(count), Aligned(offset)
    PROVE  LET r == PreadSectors(c, count, offset)[count]
           IN  /\ GoodRead(r, count, offset, content) /\ Len(r.data) = count
               /\ Sound(c, count, offset) => r.ret = count
<1> DEFINE g == PreadSectors(c, count, offset)
           So(k) == /\ PartRead(g[k], count, offset, content)
                    /\ \/ Len(g[k].data) = count
                       \/ g[k].ret = Len(g[k].data) /\ Len(g[k].data) >= k
                    /\ Sound(c, count, offset) =>
                          g[k].ret = Len(g[k].data) /\ NoNewFailures(c, g[k].cache)
           M == { k \in Nat : k <= count => So(k) }
<1>2. /\ g[0] = Nothing(c)
      /\ \A k \in 0..(count - 1) : g[k + 1] = NextSector(g[k], count, offset)
  BY SectorsAre
<1> HIDE DEF g
<1>3. So(0)
  <2>1. NoNewFailures(c, c)
    BY DEF NoNewFailures
  <2>2. /\ PartRead(Nothing(c), count, offset, content)
        /\ Nothing(c).ret = 0 /\ Len(Nothing(c).data) = 0 /\ Nothing(c).cache = c
    BY NothingRead
  <2> QED
    BY <1>2, <2>1, <2>2
<1>4. ASSUME NEW k \in Nat, So(k), k + 1 <= count PROVE So(k + 1)
  <2> DEFINE r == g[k]
             q == g[k + 1]
  <2>1. q = NextSector(r, count, offset)
    BY <1>2, <1>4
  <2>2. PartRead(r, count, offset, content) /\ Len(r.data) \in 0..count
    BY <1>4 DEF PartRead
  <2>3. CASE Len(r.data) = count
    <3>1. q = r
      BY <2>1, <2>3 DEF NextSector
    <3> QED
      BY <1>4, <2>3, <3>1
  <2>4. CASE Len(r.data) # count
    <3>1. r.ret = Len(r.data) /\ Len(r.data) >= k /\ Len(r.data) < count
      BY <1>4, <2>2, <2>4
    <3> HIDE DEF r
    <3> DEFINE p == NextSector(r, count, offset)
    <3>2. /\ PartRead(p, count, offset, content)
          /\ \/ Len(p.data) = count
             \/ p.ret = Len(p.data) /\ Len(p.data) > Len(r.data)
          /\ Sound(r.cache, count, offset) =>
                p.ret = Len(p.data) /\ NoNewFailures(r.cache, p.cache)
      BY <2>2, <3>1, NextSectorReads
    <3>3. q = p
      BY <2>1
    <3> HIDE DEF p, q
    <3>4. Len(q.data) = count \/ (q.ret = Len(q.data) /\ Len(q.data) >= k + 1)
      <4>1. Len(q.data) \in Nat
        BY <3>2, <3>3 DEF PartRead
      <4> QED
        BY <2>2, <3>1, <3>2, <3>3, <4>1
    <3>5. ASSUME Sound(c, count, offset)
          PROVE  q.ret = Len(q.data) /\ NoNewFailures(c, q.cache)
      <4>1. NoNewFailures(c, r.cache)
        BY <1>4, <3>5 DEF r
      <4>2. Sound(r.cache, count, offset)
        BY <3>5, <4>1, StillUnhurt DEF Sound
      <4>3. q.ret = Len(q.data) /\ NoNewFailures(r.cache, q.cache)
        BY <3>2, <3>3, <4>2
      <4> QED
        BY <4>1, <4>3, NoNewFailuresAdd
    <3> QED
      BY <3>2, <3>3, <3>4, <3>5 DEF q
  <2> QED
    BY <2>3, <2>4
<1> HIDE DEF So
<1>5. 0 \in M
  BY <1>3
<1>6. ASSUME NEW k \in Nat, k \in M PROVE k + 1 \in M
  BY <1>4, <1>6
<1> HIDE DEF M
<1>7. count \in M
  BY <1>5, <1>6, CountUp
<1>8. So(count)
  BY <1>7 DEF M
<1>9. Len(g[count].data) \in 0..count
  BY <1>8 DEF So, PartRead
<1> QED
  BY <1>8, <1>9 DEF So, g, GoodRead

(* One call returns a piece of the request, or all of it; the cache is     *)
(* another one only if it was all.                                         *)
LEMMA CallReads ==
    ASSUME content \in Versions, bad \in SUBSET (0..(Sectors - 1)), whole \in BOOLEAN,
           NEW c, GoodCache(c, content), NEW count \in Nat, NEW offset \in Nat,
           NEW readAhead \in BOOLEAN, count > 0, Aligned(count), Aligned(offset)
    PROVE  LET r == PreadOnce(c, count, offset, readAhead)
           IN  /\ GoodRead(r, count, offset, content)
               /\ Len(r.data) = count \/ r.cache = c
               /\ Sound(c, count, offset) /\ c.errors = 0 => r.ret = Len(r.data)
<1> DEFINE r == PreadOnce(c, count, offset, readAhead)
           hit == Hit(c, offset)
           f == Fill(c, count, offset, readAhead)
           b == f.bufs[f.last]
           d == [f EXCEPT !.bufs[f.last] = NoBuffer]
<1>1. CASE hit # Buffers
  <2> DEFINE q == FromBuffer(c, hit, count, offset)
  <2>1. hit \in Slots /\ Holds(c.bufs[hit], offset)
    BY <1>1, HitHolds
  <2>2. r = q
    BY <1>1 DEF PreadOnce
  <2> HIDE DEF hit
  <2>3. /\ GoodRead(q, count, offset, content) /\ q.cache = c
        /\ ~Failed(c.bufs[hit]) => q.ret = Len(q.data)
    BY <2>1, BufferReads
  <2>4. Overlaps(c.bufs[hit], count, offset)
    <3>1. c.bufs[hit].size \in Nat /\ c.bufs[hit].offset \in Nat
      BY <2>1 DEF GoodCache, CacheType, BufferType
    <3> QED
      BY <2>1, <3>1 DEF Holds, Overlaps
  <2>5. Sound(c, count, offset) => ~Failed(c.bufs[hit])
    BY <2>1, <2>4 DEF Unhurt, Sound
  <2> HIDE DEF q
  <2> QED
    BY <2>2, <2>3, <2>5
<1>2. CASE hit = Buffers
  <2>1. /\ GoodCache(f, content) /\ f.last \in Slots
        /\ b.offset = offset /\ b.size \in Nat /\ b.size >= count /\ Aligned(b.size)
        /\ f.errors = IF b.status >= count THEN 0 ELSE Min({c.errors + 1, 2})
        /\ Readable(b.size, offset) /\ offset + b.size <= DiskSize => b.status = b.size
        /\ \A i \in Slots : i # f.last => f.bufs[i] = c.bufs[i]
    <3>1. Filled(c, f, count, offset, readAhead)
      BY FillIs
    <3> HIDE DEF f
    <3> QED
      BY <3>1 DEF Filled
  <2>2. r = IF b.status >= count \/ GiveUp(f) THEN FromDisk(f, count)
            ELSE PreadSectors(d, count, offset)[count]
    BY <1>2 DEF PreadOnce
  <2> HIDE DEF r, f
  <2>3. b.size \in Nat /\ b.status \in Int
    BY <2>1 DEF GoodCache, CacheType, BufferType
  <2>4. CASE b.status >= count \/ GiveUp(f)
    <3> DEFINE q == FromDisk(f, count)
    <3>1. r = q
      BY <2>2, <2>4
    <3>2. /\ GoodRead(q, count, offset, content) /\ Len(q.data) = count
          /\ q.ret = IF b.status <= count THEN b.status ELSE count
      BY <2>1, DiskReads
    <3> HIDE DEF q
    <3>3. ASSUME Sound(c, count, offset), c.errors = 0
          PROVE  b.status >= count
      <4> SUFFICES ASSUME ~(b.status >= count) PROVE FALSE
        OBVIOUS
      <4>1. Min({0 + 1, 2}) = 1
        BY MinOfTwo
      <4>2. f.errors = 1
        BY <2>1, <3>3, <4>1
      <4>3. b.size <= Sector
        BY <2>4, <4>2 DEF GiveUp
      <4>4. b.size = count
        <5>1. count >= Sector
          BY AlignedPositive
        <5> QED
          BY <2>1, <4>3, <5>1, CacheAssumption
      <4>5. b.status = b.size
        BY <2>1, <3>3, <4>4 DEF Sound
      <4> QED
        BY <4>4, <4>5
    <3>4. Sound(c, count, offset) /\ c.errors = 0 => q.ret = count
      BY <2>3, <3>2, <3>3
    <3> QED
      BY <3>1, <3>2, <3>4 DEF r
  <2>5. CASE ~(b.status >= count \/ GiveUp(f))
    <3> DEFINE q == PreadSectors(d, count, offset)[count]
    <3>1. r = q
      BY <2>2, <2>5
    <3>2. GoodCache(d, content)
      <4>1. NoBuffer \in BufferType /\ GoodBuffer(NoBuffer, content) /\ ~Failed(NoBuffer)
        BY Multiple, CacheAssumption DEF NoBuffer, BufferType, GoodBuffer, Aligned, Failed
      <4> QED
        BY <2>1, <4>1 DEF GoodCache, CacheType
    <3> HIDE DEF d
    <3>3. /\ GoodRead(q, count, offset, content) /\ Len(q.data) = count
          /\ Sound(d, count, offset) => q.ret = count
      BY <3>2, SectorsRead
    <3>4. Sound(c, count, offset) => Sound(d, count, offset)
      <4>1. ~Failed(NoBuffer)
        BY DEF NoBuffer, Failed
      <4>2. f \in CacheType
        BY <2>1 DEF GoodCache
      <4>3. \A i \in Slots : d.bufs[i] = IF i = f.last THEN NoBuffer ELSE f.bufs[i]
        BY <2>1, <4>2 DEF d, CacheType
      <4>4. \A i \in Slots : i # f.last => f.bufs[i] = c.bufs[i]
        BY <2>1
      <4>5. NoNewFailures(c, d)
        BY <4>1, <4>3, <4>4 DEF NoNewFailures
      <4> QED
        BY <4>5, StillUnhurt DEF Sound
    <3> HIDE DEF q
    <3> QED
      BY <3>1, <3>3, <3>4 DEF r
  <2> QED
    BY <2>4, <2>5
<1> QED
  BY <1>1, <1>2

LEMMA CallsAre ==
    ASSUME NEW c, NEW count \in Nat, NEW offset, NEW readAhead
    PROVE  LET g == PreadCalls(c, count, offset, readAhead)
           IN  /\ g[0] = Nothing(c)
               /\ \A k \in 0..(count - 1) :
                     g[k + 1] = NextCall(g[k], count, offset, readAhead)
<1> DEFINE P(m, g) == g = [k \in 0..m |->
                             IF k = 0 THEN Nothing(c)
                             ELSE NextCall(g[k - 1], count, offset, readAhead)]
           M == { m \in Nat : \E g : P(m, g) }
<1>1. 0 \in M
  <2>1. P(0, [k \in 0..0 |-> Nothing(c)])
    OBVIOUS
  <2> HIDE DEF P
  <2> QED
    BY <2>1
<1>2. ASSUME NEW m \in Nat, m \in M PROVE m + 1 \in M
  <2>1. PICK g : P(m, g)
    <3> HIDE DEF P
    <3> QED
      BY <1>2
  <2> DEFINE h == [k \in 0..(m + 1) |->
                     IF k <= m THEN g[k] ELSE NextCall(g[m], count, offset, readAhead)]
  <2>2. ASSUME NEW k \in 0..(m + 1)
        PROVE  h[k] = IF k = 0 THEN Nothing(c)
                      ELSE NextCall(h[k - 1], count, offset, readAhead)
    <3>1. CASE k = 0
      BY <3>1, <2>1
    <3>2. CASE k # 0 /\ k <= m
      <4>1. k \in 0..m /\ k - 1 \in 0..m /\ k - 1 <= m /\ k - 1 \in 0..(m + 1)
        BY <3>2
      <4>2. h[k] = g[k] /\ h[k - 1] = g[k - 1]
        BY <4>1
      <4>3. g[k] = NextCall(g[k - 1], count, offset, readAhead)
        BY <4>1, <3>2, <2>1
      <4> QED
        BY <4>2, <4>3, <3>2
    <3>3. CASE k = m + 1
      <4>1. h[k - 1] = g[m] /\ k # 0
        BY <3>3
      <4>2. h[k] = NextCall(g[m], count, offset, readAhead)
        BY <3>3
      <4> QED
        BY <4>1, <4>2
    <3> QED
      BY <3>1, <3>2, <3>3
  <2>3. h = [k \in 0..(m + 1) |-> h[k]]
    OBVIOUS
  <2> HIDE DEF h
  <2>4. P(m + 1, h)
    BY <2>2, <2>3
  <2> HIDE DEF P
  <2>5. m + 1 \in Nat
    OBVIOUS
  <2> QED
    BY <2>4, <2>5
<1>3. count \in M
  <2> HIDE DEF M
  <2> QED
    BY <1>1, <1>2, CountUp
<1>4. \E g : P(count, g)
  <2> HIDE DEF P
  <2> QED
    BY <1>3
<1>5. PreadCalls(c, count, offset, readAhead) = CHOOSE g : P(count, g)
  BY DEF PreadCalls, NextCall, Nothing
<1> HIDE DEF P
<1>6. P(count, PreadCalls(c, count, offset, readAhead))
  BY <1>4, <1>5
<1> DEFINE f == PreadCalls(c, count, offset, readAhead)
<1>7. f = [k \in 0..count |->
             IF k = 0 THEN Nothing(c) ELSE NextCall(f[k - 1], count, offset, readAhead)]
  BY <1>6 DEF P
<1> HIDE DEF f
<1>8. f[0] = Nothing(c)
  BY <1>7
<1>9. ASSUME NEW k \in 0..(count - 1)
      PROVE  f[k + 1] = NextCall(f[k], count, offset, readAhead)
  <2>1. k + 1 \in 0..count /\ k + 1 # 0 /\ (k + 1) - 1 = k
    OBVIOUS
  <2> QED
    BY <1>7, <2>1
<1> QED
  BY <1>8, <1>9 DEF f

(* A whole read: what it reports as read is what the disk holds, and all   *)
(* is read if no failure stands against the request.                       *)
LEMMA RequestReads ==
    ASSUME content \in Versions, bad \in SUBSET (0..(Sectors - 1)), whole \in BOOLEAN,
           NEW c, GoodCache(c, content), NEW count \in Nat, NEW offset \in Nat,
           NEW readAhead \in BOOLEAN, count > 0, Aligned(count), Aligned(offset)
    PROVE  LET r == PreadAux(c, count, offset, readAhead)
           IN  /\ PartRead(r, count, offset, content) /\ Len(r.data) = count
               /\ Sound(c, count, offset) /\ c.errors = 0 => r.ret = count
<1> DEFINE g == PreadCalls(c, count, offset, readAhead)
           So(k) == /\ PartRead(g[k], count, offset, content)
                    /\ \/ Len(g[k].data) = count
                       \/ g[k].cache = c /\ Len(g[k].data) >= k
                    /\ Sound(c, count, offset) /\ c.errors = 0
                          => g[k].ret = Len(g[k].data)
           M == { k \in Nat : k <= count => So(k) }
<1>1. /\ g[0] = Nothing(c)
      /\ \A k \in 0..(count - 1) : g[k + 1] = NextCall(g[k], count, offset, readAhead)
  BY CallsAre
<1> HIDE DEF g
<1>2. So(0)
  <2>1. /\ PartRead(Nothing(c), count, offset, content)
        /\ Nothing(c).ret = 0 /\ Len(Nothing(c).data) = 0 /\ Nothing(c).cache = c
    BY NothingRead
  <2> QED
    BY <1>1, <2>1
<1>3. ASSUME NEW k \in Nat, So(k), k + 1 <= count PROVE So(k + 1)
  <2> DEFINE r == g[k]
             q == g[k + 1]
             a == Len(r.data)
  <2>1. q = NextCall(r, count, offset, readAhead)
    BY <1>1, <1>3
  <2>2. /\ PartRead(r, count, offset, content) /\ Len(r.data) \in 0..count
        /\ Aligned(Len(r.data)) /\ r.ret \in Int
    BY <1>3 DEF PartRead, ReadType
  <2>3. CASE Len(r.data) = count
    <3>1. q = r
      BY <2>1, <2>3 DEF NextCall
    <3> QED
      BY <1>3, <2>3, <3>1
  <2>4. CASE Len(r.data) # count
    <3>1. r.cache = c /\ a >= k /\ a < count
      BY <1>3, <2>2, <2>4
    <3>2. Sound(c, count, offset) /\ c.errors = 0 => r.ret = a
      BY <1>3
    <3> HIDE DEF r
    <3>3. a \in Nat /\ Aligned(a)
      BY <2>2
    <3> DEFINE m == count - a
               o == offset + a
               one == PreadOnce(c, m, o, readAhead)
               p == Join(r, one)
    <3>4. q = p
      BY <2>1, <3>1 DEF NextCall, Join
    <3>5. m \in Nat /\ m > 0 /\ m + a <= count
      BY <3>1, <3>3
    <3>6. o \in Nat /\ Aligned(o) /\ Aligned(m)
      <4> HIDE DEF a
      <4>1. Aligned(o)
        BY <3>3, AlignedSum
      <4>2. a <= count
        BY <3>1, <3>3
      <4> QED
        BY <3>3, <4>1, <4>2, AlignedDifference
    <3>7. Sound(c, count, offset) => Sound(c, m, o)
      <4> HIDE DEF a
      <4>1. offset <= o /\ o + m <= offset + count
        BY <3>1, <3>3
      <4> HIDE DEF m, o
      <4> QED
        BY <3>5, <3>6, <4>1, PartOfRequest DEF Sound
    <3> HIDE DEF m
    <3>8. /\ GoodRead(one, m, o, content)
          /\ Len(one.data) = m \/ one.cache = c
          /\ Sound(c, m, o) /\ c.errors = 0 => one.ret = Len(one.data)
      <4> HIDE DEF o
      <4> QED
        BY <3>5, <3>6, CallReads
    <3> HIDE DEF one
    <3>9. /\ PartRead(p, count, offset, content)
          /\ Len(p.data) = Len(r.data) + Len(one.data)
          /\ p.cache = one.cache /\ p.ret = r.ret + one.ret
      <4>1. /\ GoodRead(one, m, o, content) /\ m + Len(r.data) <= count
            /\ o \in Nat /\ o = offset + Len(r.data)
        BY <3>5, <3>6, <3>8
      <4>2. PartRead(r, count, offset, content) /\ m \in Nat
        BY <2>2, <3>5
      <4> HIDE DEF a, o
      <4> QED
        <5>1. PartRead(p, count, offset, content)
          BY <4>1, <4>2, Joined
        <5>2. r.data \in Seq(Nat) /\ one.data \in Seq(Nat)
          BY <4>1, <4>2 DEF PartRead, GoodRead, ReadType
        <5>3. Len(p.data) = Len(r.data) + Len(one.data)
          BY <5>2, JoinedLength
        <5>4. p.cache = one.cache /\ p.ret = r.ret + one.ret
          BY DEF Join
        <5> QED
          BY <5>1, <5>3, <5>4
    <3> HIDE DEF p
    <3>11. Len(one.data) \in Nat /\ Len(one.data) > 0 /\ one.ret \in Int
      BY <3>5, <3>8 DEF GoodRead, PartRead, ReadType
    <3>12. Len(p.data) = count \/ (p.cache = c /\ Len(p.data) >= k + 1)
      <4> HIDE DEF a
      <4>1. Len(p.data) = a + Len(one.data)
        BY <3>9 DEF a
      <4>2. Len(one.data) = m => Len(p.data) = count
        BY <3>1, <3>3, <4>1 DEF m
      <4>3. Len(p.data) >= k + 1
        BY <3>1, <3>3, <3>11, <4>1
      <4> QED
        BY <3>8, <3>9, <4>2, <4>3
    <3>13. Sound(c, count, offset) /\ c.errors = 0 => p.ret = Len(p.data)
      BY <3>2, <3>7, <3>8, <3>9
    <3> HIDE DEF q
    <3> QED
      BY <3>4, <3>9, <3>12, <3>13 DEF q
  <2> QED
    BY <2>3, <2>4
<1> HIDE DEF So
<1>4. 0 \in M
  BY <1>2
<1>5. ASSUME NEW k \in Nat, k \in M PROVE k + 1 \in M
  BY <1>3, <1>5
<1> HIDE DEF M
<1>6. count \in M
  BY <1>4, <1>5, CountUp
<1>7. So(count)
  BY <1>6 DEF M
<1>8. Len(g[count].data) \in 0..count
  BY <1>7 DEF So, PartRead
<1>9. Len(g[count].data) = count
  BY <1>7, <1>8 DEF So
<1>10. PreadAux(c, count, offset, readAhead) = g[count]
  BY DEF PreadAux, g
<1> QED
  BY <1>7, <1>9, <1>10 DEF So

-----------------------------------------------------------------------------
(* The cache                                                               *)

LEMMA CacheInit == Init => CacheInv
<1> SUFFICES ASSUME Init PROVE CacheInv
  OBVIOUS
<1>1. NoBuffer \in BufferType /\ GoodBuffer(NoBuffer, content)
  BY Multiple, CacheAssumption DEF NoBuffer, BufferType, GoodBuffer, Aligned
<1>2. GoodCache(cache, content)
  <2>1. 0 \in Slots
    BY CacheAssumption DEF Slots
  <2>2. cache = [bufs |-> [i \in Slots |-> NoBuffer], last |-> 0, errors |-> 0]
    BY DEF Init
  <2> QED
    BY <1>1, <2>1, <2>2 DEF GoodCache, CacheType
<1>3. ReadsAreFresh
  BY DEF Init, ReadsAreFresh, NoAnswer
<1> QED
  BY <1>2, <1>3, CacheAssumption DEF Init, CacheInv, Versions

LEMMA NoAnswerIsFresh == answer' = NoAnswer => ReadsAreFresh'
BY DEF ReadsAreFresh, NoAnswer

(* A read gives what the disk holds, or says that it does not.             *)
LEMMA PreadKeeps ==
    ASSUME CacheInv, NEW q \in Requests, Pread(q[1], q[2])
    PROVE  CacheInv'
<1> DEFINE count == q[1]
           offset == q[2]
           r == PreadAux(cache, count, offset, cache.errors = 0)
<1>1. /\ count \in Nat /\ count > 0 /\ Aligned(count)
      /\ offset \in Nat /\ Aligned(offset)
  BY CacheAssumption DEF Requests, Aligned, DiskSize
<1>2. /\ cache' = r.cache
      /\ answer' = [count |-> count, offset |-> offset, ret |-> r.ret, data |-> r.data]
      /\ UNCHANGED << content, bad, whole, writes, changes >>
  BY DEF Pread
<1>3. (cache.errors = 0) \in BOOLEAN
  OBVIOUS
<1> HIDE DEF count, offset
<1>4. PartRead(r, count, offset, content) /\ Len(r.data) = count
  BY <1>1, <1>3, RequestReads DEF CacheInv
<1> HIDE DEF r
<1>5. GoodCache(cache', content')
  BY <1>2, <1>4 DEF PartRead
<1>6. ReadsAreFresh'
  <2> SUFFICES ASSUME r.ret = count
               PROVE  r.data = [i \in 1..count |-> content[(offset + i - 1) \div Sector]]
    BY <1>2 DEF ReadsAreFresh
  <2>1. r.data \in Seq(Nat) /\ \A i \in 1..count : IsAt(content, offset + i - 1, r.data[i])
    BY <1>4 DEF PartRead, ReadType
  <2>2. DOMAIN r.data = 1..count
    BY <1>1, <1>4, <2>1
  <2>3. \A i \in 1..count : r.data[i] = content[(offset + i - 1) \div Sector]
    BY <2>1 DEF IsAt
  <2>4. r.data = [i \in DOMAIN r.data |-> r.data[i]]
    BY <2>1
  <2> QED
    BY <2>2, <2>3, <2>4
<1> QED
  BY <1>2, <1>5, <1>6 DEF CacheInv

(* A write discards every buffer with a byte of a sector it changes.       *)
LEMMA PwriteKeeps ==
    ASSUME CacheInv, NEW q \in Requests, Pwrite(q[1], q[2])
    PROVE  CacheInv'
<1> DEFINE count == q[1]
           offset == q[2]
<1>1. /\ count \in Nat /\ count > 0 /\ Aligned(count)
      /\ offset \in Nat /\ Aligned(offset)
  BY CacheAssumption DEF Requests, Aligned, DiskSize
<1>2. /\ cache' = [cache EXCEPT !.bufs =
                    [i \in Slots |-> IF Overlaps(@[i], count, offset)
                                     THEN NoBuffer ELSE @[i]]]
      /\ content' = [s \in DOMAIN content |->
                      IF s \in SectorsOf(offset, count) THEN content[s] + 1
                      ELSE content[s]]
      /\ answer' = NoAnswer /\ UNCHANGED << bad, whole >>
  BY DEF Pwrite
<1> HIDE DEF count, offset
<1>3. content \in Versions /\ GoodCache(cache, content)
  BY DEF CacheInv
<1>4. content' \in Versions /\ DOMAIN content' = DOMAIN content
  BY <1>2, <1>3 DEF Versions
<1>5. NoBuffer \in BufferType /\ GoodBuffer(NoBuffer, content')
  BY Multiple, CacheAssumption DEF NoBuffer, BufferType, GoodBuffer, Aligned
<1>6. ASSUME NEW i \in Slots
      PROVE  cache'.bufs[i] \in BufferType /\ GoodBuffer(cache'.bufs[i], content')
  <2> DEFINE b == cache.bufs[i]
  <2>1. b \in BufferType /\ GoodBuffer(b, content)
    BY <1>3 DEF GoodCache, CacheType
  <2>2. cache'.bufs[i] = IF Overlaps(b, count, offset) THEN NoBuffer ELSE b
    BY <1>2, <1>3 DEF GoodCache, CacheType
  <2> HIDE DEF b
  <2>3. CASE Overlaps(b, count, offset)
    BY <1>5, <2>2, <2>3
  <2>4. CASE ~Overlaps(b, count, offset)
    <3>1. b.size \in Nat /\ b.offset \in Nat /\ b.status \in Int
      BY <2>1 DEF BufferType
    <3>2. ASSUME NEW j \in 1..b.size, j <= b.status
          PROVE  IsAt(content', b.offset + j - 1, b.data[j])
      <4> DEFINE p == b.offset + j - 1
      <4>1. IsAt(content, p, b.data[j])
        BY <2>1, <3>2 DEF GoodBuffer
      <4>2. p \in Nat /\ (p < offset \/ offset + count <= p)
        BY <1>1, <2>4, <3>1 DEF Overlaps
      <4>3. p \div Sector \notin SectorsOf(offset, count)
        <5> SUFFICES ASSUME NEW x \in Bytes(offset, count), p \div Sector = x \div Sector
                     PROVE  FALSE
          BY DEF SectorsOf
        <5>1. x \in Nat /\ offset <= x /\ x < offset + count
          BY <1>1 DEF Bytes
        <5>2. offset + count \in Nat /\ Aligned(offset + count)
          BY <1>1, AlignedSum
        <5> HIDE DEF p
        <5>3. CASE p < offset
          BY <1>1, <4>2, <5>1, <5>3, Between
        <5>4. CASE offset + count <= p
          <6> DEFINE e == offset + count
          <6>1. e \in Nat /\ Aligned(e) /\ x < e /\ e <= p
            BY <5>1, <5>2, <5>4
          <6> HIDE DEF e
          <6> QED
            BY <4>2, <5>1, <6>1, Between
        <5> QED
          BY <4>2, <5>3, <5>4
      <4> HIDE DEF p
      <4>4. IsAt(content', p, b.data[j])
        BY <1>2, <4>1, <4>3 DEF IsAt
      <4> QED
        BY <4>4 DEF p
    <3>3. GoodBuffer(b, content')
      BY <2>1, <3>2 DEF GoodBuffer
    <3> QED
      BY <2>1, <2>2, <2>4, <3>3
  <2> QED
    BY <2>3, <2>4
<1>7. cache' \in CacheType
  <2> DEFINE bufs == [i \in Slots |-> IF Overlaps(cache.bufs[i], count, offset)
                                      THEN NoBuffer ELSE cache.bufs[i]]
  <2>1. cache \in CacheType
    BY <1>3 DEF GoodCache
  <2>2. bufs \in [Slots -> BufferType]
    BY <1>5, <2>1 DEF CacheType
  <2>3. cache' = [cache EXCEPT !.bufs = bufs]
    BY <1>2
  <2> HIDE DEF bufs
  <2> QED
    BY <2>1, <2>2, <2>3 DEF CacheType
<1>8. GoodCache(cache', content')
  BY <1>6, <1>7 DEF GoodCache
<1> QED
  BY <1>2, <1>4, <1>8, NoAnswerIsFresh DEF CacheInv

LEMMA MediaKeeps ==
    ASSUME CacheInv, NEW s \in DOMAIN content, MediaChanges(s)
    PROVE  CacheInv'
<1>1. content' = content /\ whole' = whole /\ cache' = cache /\ answer' = NoAnswer
      /\ bad' = (IF s \in bad THEN bad \ {s} ELSE bad \cup {s})
  BY DEF MediaChanges
<1>2. s \in 0..(Sectors - 1)
  BY DEF CacheInv, Versions
<1> QED
  BY <1>1, <1>2, NoAnswerIsFresh DEF CacheInv

LEMMA CacheKeeps == CacheInv /\ [Next]_vars => CacheInv'
<1> SUFFICES ASSUME CacheInv, [Next]_vars PROVE CacheInv'
  OBVIOUS
<1>1. CASE \E q \in Requests : Pread(q[1], q[2])
  BY <1>1, PreadKeeps
<1>2. CASE \E q \in Requests : Pwrite(q[1], q[2])
  BY <1>2, PwriteKeeps
<1>3. CASE \E s \in DOMAIN content : MediaChanges(s)
  BY <1>3, MediaKeeps
<1>4. CASE UNCHANGED vars
  BY <1>4 DEF vars, CacheInv, ReadsAreFresh
<1> QED
  BY <1>1, <1>2, <1>3, <1>4 DEF Next

(* No read that reports all it was asked for returns what a write has      *)
(* replaced, or zeros of a sector that failed.                             *)
THEOREM CachedReadsAreFresh == Spec => []ReadsAreFresh
<1>1. Spec => []CacheInv
  BY CacheInit, CacheKeeps, PTL DEF Spec
<1>2. CacheInv => ReadsAreFresh
  BY DEF CacheInv
<1> QED
  BY <1>1, <1>2, PTL

LEMMA HarmlessSteps == CacheInv /\ [Next]_vars => [HarmlessRead]_vars
<1> SUFFICES ASSUME CacheInv, Next PROVE HarmlessRead
  OBVIOUS
<1>1. CASE \E q \in Requests : Pread(q[1], q[2])
  <2> PICK q \in Requests : Pread(q[1], q[2])
    BY <1>1
  <2> DEFINE count == q[1]
             offset == q[2]
             r == PreadAux(cache, count, offset, cache.errors = 0)
  <2>1. /\ count \in Nat /\ count > 0 /\ Aligned(count)
        /\ offset \in Nat /\ Aligned(offset) /\ offset + count <= DiskSize
    BY CacheAssumption DEF Requests, Aligned, DiskSize
  <2>2. answer' = [count |-> count, offset |-> offset, ret |-> r.ret, data |-> r.data]
    BY DEF Pread
  <2>3. (cache.errors = 0) \in BOOLEAN
    OBVIOUS
  <2> HIDE DEF count, offset
  <2>4. Sound(cache, count, offset) /\ cache.errors = 0 => r.ret = count
    BY <2>1, <2>3, RequestReads DEF CacheInv
  <2> HIDE DEF r
  <2> SUFFICES ASSUME cache.errors = 0, Readable(count, offset),
                      Unhurt(cache, count, offset)
               PROVE  r.ret = count
    BY <2>2 DEF HarmlessRead, Readable, Unhurt
  <2> QED
    BY <2>1, <2>4 DEF Sound
<1>2. CASE \E q \in Requests : Pwrite(q[1], q[2])
  BY <1>2 DEF Pwrite, HarmlessRead
<1>3. CASE \E s \in DOMAIN content : MediaChanges(s)
  BY <1>3 DEF MediaChanges, HarmlessRead
<1> QED
  BY <1>1, <1>2, <1>3 DEF Next

(* A read of readable sectors is whole, whatever was read ahead around it, *)
(* unless an earlier failure is remembered.                                *)
THEOREM ReadingAheadIsHarmless == Spec => ReadAheadIsHarmless
<1>1. Spec => []CacheInv
  BY CacheInit, CacheKeeps, PTL DEF Spec
<1> QED
  BY <1>1, HarmlessSteps, PTL DEF Spec, ReadAheadIsHarmless
=============================================================================
