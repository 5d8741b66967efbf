------------------------- MODULE SearchSpaceProofs -------------------------
(***************************************************************************)
(* What the list operations of SearchSpace do to any list: they keep it in *)
(* order, and add or remove exactly the blocks they are meant to.          *)
(***************************************************************************)
EXTENDS SearchSpace, SequenceTheorems, WellFoundedInduction, TLAPS

Lists == Seq(RangeType)

-----------------------------------------------------------------------------
(* Sequences                                                               *)

(* A nonempty set of cells has a first one.                                *)
LEMMA MinOfCells ==
    ASSUME NEW I, I \subseteq Nat, I # {}
    PROVE  Min(I) \in I /\ \A j \in I : Min(I) <= j
<1>1. PICK m \in I : \A j \in I : ~(<<j, m>> \in OpToRel(<, Nat))
  BY WFMin, NatLessThanWellFounded
<1>2. \A j \in I : m <= j
  <2> SUFFICES ASSUME NEW j \in I, ~(m <= j) PROVE FALSE
    OBVIOUS
  <2>1. j \in Nat /\ m \in Nat
    OBVIOUS
  <2>2. j < m
    BY <2>1
  <2>3. <<j, m>> \in OpToRel(<, Nat)
    BY <2>1, <2>2 DEF OpToRel
  <2> QED
    BY <2>3, <1>1
<1> QED
  BY <1>1, <1>2 DEF Min

(* A set of numbers with 0, and with the next number of each.              *)
LEMMA CountUp ==
    ASSUME NEW M, 0 \in M, \A m \in Nat : m \in M => m + 1 \in M
    PROVE  Nat \subseteq M
<1> SUFFICES ASSUME ~(Nat \subseteq M) PROVE FALSE
  OBVIOUS
<1> DEFINE I == Nat \ M
<1>1. I \subseteq Nat /\ I # {}
  OBVIOUS
<1> HIDE DEF I
<1>2. Min(I) \in I /\ \A j \in I : Min(I) <= j
  BY <1>1, MinOfCells
<1> DEFINE k == Min(I)
<1>3. k \in Nat /\ k \notin M /\ k # 0
  BY <1>2 DEF I
<1> HIDE DEF k
<1>4. k - 1 \in Nat /\ (k - 1) + 1 = k
  BY <1>3
<1>5. k - 1 \notin M
  BY <1>3, <1>4
<1>6. k - 1 \in I
  BY <1>4, <1>5 DEF I
<1>7. k <= k - 1
  BY <1>2, <1>6 DEF k
<1> QED
  BY <1>3, <1>7

(* What SequencesExt's InsertAt puts where.                                *)
LEMMA InsertAtCells ==
    ASSUME NEW S, NEW l \in Seq(S), NEW i \in 1..(Len(l) + 1), NEW e \in S
    PROVE  /\ InsertAt(l, i, e) \in Seq(S)
           /\ Len(InsertAt(l, i, e)) = Len(l) + 1
           /\ \A j \in 1..(Len(l) + 1) :
                 InsertAt(l, i, e)[j] = IF j < i THEN l[j]
                                        ELSE IF j = i THEN e ELSE l[j - 1]
<1> DEFINE a == SubSeq(l, 1, i - 1)
           b == <<e>>
           c == SubSeq(l, i, Len(l))
<1>0. Len(l) \in Nat /\ \A j \in 1..Len(l) : l[j] \in S
  BY LenProperties, ElementOfSeq
<1>1. /\ a \in Seq(S) /\ Len(a) = i - 1
      /\ \A j \in 1..(i - 1) : a[j] = l[j]
  <2>1. \A j \in 1..(i - 1) : l[j] \in S
    BY <1>0
  <2> QED
    BY <2>1, <1>0, SubSeqProperties
<1>2. /\ c \in Seq(S) /\ Len(c) = Len(l) - i + 1
      /\ \A j \in 1..(Len(l) - i + 1) : c[j] = l[i + j - 1]
  <2>1. \A j \in i..Len(l) : l[j] \in S
    BY <1>0
  <2> QED
    BY <2>1, <1>0, SubSeqProperties
<1>3. b \in Seq(S) /\ Len(b) = 1 /\ b[1] = e
  OBVIOUS
<1> HIDE DEF a, b, c
<1>4. /\ a \o b \in Seq(S) /\ Len(a \o b) = i
      /\ \A j \in 1..i : (a \o b)[j] = IF j < i THEN l[j] ELSE e
  <2>1. /\ a \o b \in Seq(S) /\ Len(a \o b) = Len(a) + Len(b)
        /\ \A j \in 1..(Len(a) + Len(b)) :
              (a \o b)[j] = IF j <= Len(a) THEN a[j] ELSE b[j - Len(a)]
    BY <1>1, <1>3, ConcatProperties
  <2>2. Len(a) + Len(b) = i
    BY <1>0, <1>1, <1>3
  <2>3. ASSUME NEW j \in 1..i
        PROVE  (a \o b)[j] = IF j < i THEN l[j] ELSE e
    <3>1. CASE j < i
      BY <3>1, <2>1, <2>2, <1>0, <1>1
    <3>2. CASE j = i
      <4>1. (a \o b)[j] = b[j - Len(a)] /\ j - Len(a) = 1
        BY <3>2, <2>1, <2>2, <1>0, <1>1
      <4> QED
        BY <4>1, <3>2, <1>3
    <3>3. Len(l) \in Nat
      BY <1>0
    <3>4. j < i \/ j = i
      BY <3>3
    <3> QED
      BY <3>1, <3>2, <3>4
  <2> QED
    BY <2>1, <2>2, <2>3
<1> DEFINE ab == a \o b
<1> HIDE DEF ab
<1>5. /\ ab \o c \in Seq(S) /\ Len(ab \o c) = Len(l) + 1
      /\ \A j \in 1..(Len(l) + 1) :
            (ab \o c)[j] = IF j <= i THEN ab[j] ELSE c[j - i]
  BY <1>0, <1>2, <1>4, ConcatProperties DEF ab
<1>6. InsertAt(l, i, e) = ab \o c
  BY DEF InsertAt, ab, a, b, c
<1> QED
  BY <1>0, <1>2, <1>4, <1>5, <1>6 DEF ab

(* What SequencesExt's RemoveAt leaves where.                              *)
LEMMA RemoveAtCells ==
    ASSUME NEW S, NEW l \in Seq(S), NEW i \in 1..Len(l)
    PROVE  /\ RemoveAt(l, i) \in Seq(S)
           /\ Len(RemoveAt(l, i)) = Len(l) - 1
           /\ \A j \in 1..(Len(l) - 1) :
                 RemoveAt(l, i)[j] = IF j < i THEN l[j] ELSE l[j + 1]
<1> DEFINE a == SubSeq(l, 1, i - 1)
           c == SubSeq(l, i + 1, Len(l))
<1>0. Len(l) \in Nat /\ \A j \in 1..Len(l) : l[j] \in S
  BY LenProperties, ElementOfSeq
<1>1. /\ a \in Seq(S) /\ Len(a) = i - 1
      /\ \A j \in 1..(i - 1) : a[j] = l[j]
  <2>1. \A j \in 1..(i - 1) : l[j] \in S
    BY <1>0
  <2> QED
    BY <2>1, <1>0, SubSeqProperties
<1>2. /\ c \in Seq(S) /\ Len(c) = Len(l) - i
      /\ \A j \in 1..(Len(l) - i) : c[j] = l[i + j]
  <2>1. \A j \in (i + 1)..Len(l) : l[j] \in S
    BY <1>0
  <2> QED
    BY <2>1, <1>0, SubSeqProperties
<1> HIDE DEF a, c
<1>3. /\ a \o c \in Seq(S) /\ Len(a \o c) = Len(a) + Len(c)
      /\ \A j \in 1..(Len(a) + Len(c)) :
            (a \o c)[j] = IF j <= Len(a) THEN a[j] ELSE c[j - Len(a)]
  BY <1>1, <1>2, ConcatProperties
<1>3a. Len(a) + Len(c) = Len(l) - 1
  BY <1>0, <1>1, <1>2
<1>3b. ASSUME NEW j \in 1..(Len(l) - 1)
       PROVE  (a \o c)[j] = IF j < i THEN l[j] ELSE l[j + 1]
  <2>1. CASE j < i
    BY <2>1, <1>0, <1>1, <1>3, <1>3a
  <2>2. CASE ~(j < i)
    <3>1. (a \o c)[j] = c[j - Len(a)]
      BY <2>2, <1>0, <1>1, <1>3, <1>3a
    <3>2. j - Len(a) \in 1..(Len(l) - i) /\ i + (j - Len(a)) = j + 1
      BY <2>2, <1>0, <1>1
    <3> QED
      BY <3>1, <3>2, <2>2, <1>2
  <2> QED
    BY <2>1, <2>2
<1>4. RemoveAt(l, i) = a \o c
  BY DEF RemoveAt, a, c
<1> QED
  BY <1>3, <1>3a, <1>3b, <1>4

(* Changing one cell changes that cell.                                    *)
LEMMA ExceptCells ==
    ASSUME NEW S, NEW l \in Seq(S), NEW i \in 1..Len(l), NEW e \in S
    PROVE  /\ [l EXCEPT ![i] = e] \in Seq(S)
           /\ Len([l EXCEPT ![i] = e]) = Len(l)
           /\ \A j \in 1..Len(l) :
                 [l EXCEPT ![i] = e][j] = IF j = i THEN e ELSE l[j]
  BY ExceptSeq

-----------------------------------------------------------------------------
(* Lists of ranges, cell by cell                                           *)

(* A block is in a list if it is in the extent of a cell.                  *)
LEMMA BlockInList ==
    ASSUME NEW S, NEW l \in Seq(S), NEW b
    PROVE  b \in BlocksOf(l) <=>
               \E i \in 1..Len(l) : b \in l[i].start .. l[i].end
  BY LenProperties DEF BlocksOf, Extent

(* The cells of a list have numbers for their ends.                        *)
LEMMA CellsOfLists ==
    ASSUME NEW l \in Lists
    PROVE  /\ Len(l) \in Nat /\ DOMAIN l = 1..Len(l)
           /\ \A i \in 1..Len(l) :
                 /\ l[i] \in RangeType
                 /\ l[i].start \in Nat /\ l[i].end \in Nat
                 /\ l[i].stat \in Stats \cup {NoStat}
<1>1. Len(l) \in Nat /\ DOMAIN l = 1..Len(l)
  BY LenProperties DEF Lists
<1>2. \A i \in 1..Len(l) : l[i] \in RangeType
  BY ElementOfSeq DEF Lists
<1> QED
  BY <1>1, <1>2 DEF RangeType

(* Two cells of an ordered list share no block.                            *)
LEMMA CellsApart ==
    ASSUME NEW l \in Lists, Ordered(l),
           NEW i \in 1..Len(l), NEW j \in 1..Len(l), i # j,
           NEW b, b \in l[i].start .. l[i].end
    PROVE  b \notin l[j].start .. l[j].end
<1>1. /\ Len(l) \in Nat /\ DOMAIN l = 1..Len(l)
      /\ l[i].start \in Nat /\ l[i].end \in Nat
      /\ l[j].start \in Nat /\ l[j].end \in Nat
  BY CellsOfLists
<1>2. CASE i < j
  <2>1. l[i].end < l[j].start
    BY <1>1, <1>2 DEF Ordered
  <2> QED
    BY <1>1, <2>1
<1>3. CASE j < i
  <2>1. l[j].end < l[i].start
    BY <1>1, <1>3 DEF Ordered
  <2> QED
    BY <1>1, <2>1
<1> QED
  BY <1>1, <1>2, <1>3

(* Order and blocks after one cell of a list was replaced, given where the *)
(* new cell lies between its neighbours.                                   *)
LEMMA ReplacedCell ==
    ASSUME NEW l \in Lists, Ordered(l),
           NEW t \in 1..Len(l), NEW r \in RangeType, r.start <= r.end,
           \A j \in 1..Len(l) : j < t => l[j].end < r.start,
           \A j \in 1..Len(l) : t < j => r.end < l[j].start
    PROVE  /\ [l EXCEPT ![t] = r] \in Lists
           /\ Len([l EXCEPT ![t] = r]) = Len(l)
           /\ Ordered([l EXCEPT ![t] = r])
           /\ BlocksOf([l EXCEPT ![t] = r]) =
                 (BlocksOf(l) \ Extent(l[t])) \cup Extent(r)
<1> DEFINE m == [l EXCEPT ![t] = r]
<1>1. /\ m \in Lists /\ Len(m) = Len(l)
      /\ \A j \in 1..Len(l) : m[j] = IF j = t THEN r ELSE l[j]
  BY ExceptCells DEF Lists
<1>2. DOMAIN m = 1..Len(l) /\ DOMAIN l = 1..Len(l) /\ Len(l) \in Nat
  BY <1>1, CellsOfLists
<1> HIDE DEF m
<1>3. Ordered(m)
  BY <1>1, <1>2 DEF Ordered
<1>4. ASSUME NEW b
      PROVE  b \in BlocksOf(m) <=>
                 b \in (BlocksOf(l) \ Extent(l[t])) \cup Extent(r)
  <2>1. b \in BlocksOf(m) <=> \E j \in 1..Len(l) : b \in m[j].start .. m[j].end
    BY <1>1, BlockInList DEF Lists
  <2>2. b \in BlocksOf(l) <=> \E j \in 1..Len(l) : b \in l[j].start .. l[j].end
    BY BlockInList DEF Lists
  <2>3. ASSUME NEW j \in 1..Len(l), b \in l[j].start .. l[j].end, j # t
        PROVE  b \notin Extent(l[t])
    BY <2>3, CellsApart DEF Extent
  <2> QED
    BY <2>1, <2>2, <2>3, <1>1 DEF Extent
<1> QED
  BY <1>1, <1>3, <1>4 DEF m

(* The same for a cell put in before cell t, or at the tail.               *)
LEMMA InsertedCell ==
    ASSUME NEW l \in Lists, Ordered(l),
           NEW t \in 1..(Len(l) + 1), NEW r \in RangeType, r.start <= r.end,
           \A j \in 1..Len(l) : j < t => l[j].end < r.start,
           \A j \in 1..Len(l) : t <= j => r.end < l[j].start
    PROVE  /\ InsertAt(l, t, r) \in Lists
           /\ Len(InsertAt(l, t, r)) = Len(l) + 1
           /\ Ordered(InsertAt(l, t, r))
           /\ BlocksOf(InsertAt(l, t, r)) = BlocksOf(l) \cup Extent(r)
<1> DEFINE m == InsertAt(l, t, r)
<1>1. /\ m \in Lists /\ Len(m) = Len(l) + 1
      /\ \A j \in 1..(Len(l) + 1) :
            m[j] = IF j < t THEN l[j] ELSE IF j = t THEN r ELSE l[j - 1]
  BY InsertAtCells DEF Lists
<1>2. /\ DOMAIN m = 1..(Len(l) + 1) /\ DOMAIN l = 1..Len(l)
      /\ Len(l) \in Nat /\ t \in Nat
  BY <1>1, CellsOfLists
<1> HIDE DEF m
<1>3. Ordered(m)
  <2>0. \A j \in 1..Len(l) : l[j].start <= l[j].end
    BY <1>2 DEF Ordered
  <2>1. ASSUME NEW j \in 1..(Len(l) + 1) PROVE m[j].start <= m[j].end
    <3>1. CASE j < t
      BY <3>1, <2>0, <1>1, <1>2
    <3>2. CASE j = t
      BY <3>2, <1>1, <1>2
    <3>3. CASE t < j
      <4>1. j - 1 \in 1..Len(l) /\ m[j] = l[j - 1]
        BY <3>3, <1>1, <1>2
      <4> QED
        BY <4>1, <2>0
    <3> QED
      BY <3>1, <3>2, <3>3, <1>2
  <2>2. ASSUME NEW i \in 1..(Len(l) + 1), NEW j \in 1..(Len(l) + 1), i < j
        PROVE  m[i].end < m[j].start
    <3>1. CASE j < t
      BY <2>2, <3>1, <1>1, <1>2 DEF Ordered
    <3>2. CASE j = t
      BY <2>2, <3>2, <1>1, <1>2
    <3>3. CASE t < j /\ i < t
      BY <2>2, <3>3, <1>1, <1>2 DEF Ordered
    <3>4. CASE t < j /\ i = t
      BY <2>2, <3>4, <1>1, <1>2
    <3>5. CASE t < i
      BY <2>2, <3>5, <1>1, <1>2 DEF Ordered
    <3> QED
      BY <2>2, <3>1, <3>2, <3>3, <3>4, <3>5, <1>2
  <2> QED
    BY <2>1, <2>2, <1>2 DEF Ordered
<1>4. ASSUME NEW b
      PROVE  b \in BlocksOf(m) <=> b \in BlocksOf(l) \cup Extent(r)
  <2>1. b \in BlocksOf(m)
          <=> \E j \in 1..(Len(l) + 1) : b \in m[j].start .. m[j].end
    BY <1>1, BlockInList DEF Lists
  <2>2. b \in BlocksOf(l) <=> \E j \in 1..Len(l) : b \in l[j].start .. l[j].end
    BY BlockInList DEF Lists
  <2>3. m[t] = r
    BY <1>1, <1>2
  <2>4. ASSUME NEW j \in 1..Len(l)
        PROVE  \E k \in 1..(Len(l) + 1) : m[k] = l[j]
    <3>1. CASE j < t
      BY <3>1, <1>1, <1>2
    <3>2. CASE ~(j < t)
      <4>1. j + 1 \in 1..(Len(l) + 1) /\ m[j + 1] = l[j]
        BY <3>2, <1>1, <1>2
      <4> QED
        BY <4>1
    <3> QED
      BY <3>1, <3>2
  <2>5. ASSUME NEW k \in 1..(Len(l) + 1), k # t
        PROVE  \E j \in 1..Len(l) : m[k] = l[j]
    <3>1. CASE k < t
      BY <3>1, <1>1, <1>2
    <3>2. CASE t < k
      <4>1. k - 1 \in 1..Len(l) /\ m[k] = l[k - 1]
        BY <3>2, <1>1, <1>2
      <4> QED
        BY <4>1
    <3> QED
      BY <3>1, <3>2, <2>5, <1>2
  <2> QED
    BY <2>1, <2>2, <2>3, <2>4, <2>5 DEF Extent
<1> QED
  BY <1>1, <1>3, <1>4 DEF m

(* The same after a cell was taken out.                                    *)
LEMMA RemovedCell ==
    ASSUME NEW l \in Lists, Ordered(l), NEW t \in 1..Len(l)
    PROVE  /\ RemoveAt(l, t) \in Lists
           /\ Len(RemoveAt(l, t)) = Len(l) - 1
           /\ Ordered(RemoveAt(l, t))
           /\ BlocksOf(RemoveAt(l, t)) = BlocksOf(l) \ Extent(l[t])
<1> DEFINE m == RemoveAt(l, t)
<1>1. /\ m \in Lists /\ Len(m) = Len(l) - 1
      /\ \A j \in 1..(Len(l) - 1) :
            m[j] = IF j < t THEN l[j] ELSE l[j + 1]
  BY RemoveAtCells DEF Lists
<1>2. /\ DOMAIN m = 1..(Len(l) - 1) /\ DOMAIN l = 1..Len(l)
      /\ Len(l) \in Nat /\ t \in Nat
  BY <1>1, CellsOfLists
<1> HIDE DEF m
<1>3. Ordered(m)
  <2>0. /\ \A j \in 1..Len(l) : l[j].start <= l[j].end
        /\ \A i, j \in 1..Len(l) : i < j => l[i].end < l[j].start
    BY <1>2 DEF Ordered
  <2> DEFINE p(j) == IF j < t THEN j ELSE j + 1
  <2>01. \A j \in 1..(Len(l) - 1) : p(j) \in 1..Len(l) /\ m[j] = l[p(j)]
    BY <1>1, <1>2
  <2>02. \A i, j \in 1..(Len(l) - 1) : i < j => p(i) < p(j)
    BY <1>2
  <2> HIDE DEF p
  <2>1. ASSUME NEW j \in 1..(Len(l) - 1) PROVE m[j].start <= m[j].end
    BY <2>0, <2>01
  <2>2. ASSUME NEW i \in 1..(Len(l) - 1), NEW j \in 1..(Len(l) - 1), i < j
        PROVE  m[i].end < m[j].start
    BY <2>0, <2>01, <2>02, <2>2
  <2> QED
    BY <2>1, <2>2, <1>2 DEF Ordered
<1>4. ASSUME NEW b
      PROVE  b \in BlocksOf(m) <=> b \in BlocksOf(l) \ Extent(l[t])
  <2>1. b \in BlocksOf(m)
          <=> \E j \in 1..(Len(l) - 1) : b \in m[j].start .. m[j].end
    BY <1>1, BlockInList DEF Lists
  <2>2. b \in BlocksOf(l) <=> \E j \in 1..Len(l) : b \in l[j].start .. l[j].end
    BY BlockInList DEF Lists
  <2>3. ASSUME NEW j \in 1..Len(l), j # t
        PROVE  \E k \in 1..(Len(l) - 1) : m[k] = l[j]
    <3>1. CASE j < t
      BY <3>1, <1>1, <1>2
    <3>2. CASE t < j
      <4>1. j - 1 \in 1..(Len(l) - 1) /\ m[j - 1] = l[j]
        BY <3>2, <1>1, <1>2
      <4> QED
        BY <4>1
    <3> QED
      BY <3>1, <3>2, <2>3, <1>2
  <2>4. ASSUME NEW k \in 1..(Len(l) - 1)
        PROVE  \E j \in 1..Len(l) : j # t /\ m[k] = l[j]
    <3>1. CASE k < t
      BY <3>1, <1>1, <1>2
    <3>2. CASE ~(k < t)
      <4>1. k + 1 \in 1..Len(l) /\ k + 1 # t /\ m[k] = l[k + 1]
        BY <3>2, <1>1, <1>2
      <4> QED
        BY <4>1
    <3> QED
      BY <3>1, <3>2
  <2>5. ASSUME NEW j \in 1..Len(l), b \in l[j].start .. l[j].end, j # t
        PROVE  b \notin Extent(l[t])
    BY <2>5, CellsApart DEF Extent
  <2> QED
    BY <2>1, <2>2, <2>3, <2>4, <2>5 DEF Extent
<1> QED
  BY <1>1, <1>3, <1>4 DEF m

-----------------------------------------------------------------------------
(* Giving blocks back                                                      *)

(* A space the functions may be given: a list of ranges in order, and a    *)
(* cursor on a cell of it or on its head.                                  *)
Space(s) ==
    /\ s \in [list : Lists, cur : Nat, offset : Nat]
    /\ s.cur \in 0..Len(s.list)
    /\ Ordered(s.list)

(* The first cell with a property, and no cell before it has it.           *)
LEMMA FirstCell ==
    ASSUME NEW l \in Lists, NEW I, I \subseteq 1..Len(l),
           NEW t, t = IF I # {} THEN Min(I) ELSE 0
    PROVE  /\ t \in 0..Len(l)
           /\ t = 0 => I = {}
           /\ t # 0 => t \in I /\ t \in 1..Len(l)
           /\ \A j \in 1..Len(l) : (t = 0 \/ j < t) => j \notin I
<1>1. Len(l) \in Nat
  BY CellsOfLists
<1>2. CASE I = {}
  BY <1>1, <1>2
<1>3. CASE I # {}
  <2>1. I \subseteq Nat
    BY <1>1
  <2>2. t \in I /\ \A j \in I : t <= j
    BY <2>1, <1>3, MinOfCells
  <2> QED
    BY <1>1, <1>3, <2>1, <2>2
<1> QED
  BY <1>2, <1>3

(* Where PlaceOf puts a range whose blocks the list does not have.         *)
LEMMA PlaceCorrect ==
    ASSUME NEW l \in Lists, Ordered(l), NEW start \in Nat, NEW end \in Nat,
           start <= end, BlocksOf(l) \cap (start .. end) = {}
    PROVE  /\ PlaceOf(l, end) \in 1..(Len(l) + 1)
           /\ \A j \in 1..Len(l) : j < PlaceOf(l, end) => l[j].end < start
           /\ \A j \in 1..Len(l) : PlaceOf(l, end) <= j => end < l[j].start
<1> DEFINE I == { i \in 1..Len(l) : end < l[i].start }
           t == IF I # {} THEN Min(I) ELSE 0
<1>0. PlaceOf(l, end) = IF t = 0 THEN Len(l) + 1 ELSE t
  BY DEF PlaceOf, SelectInSeq
<1>1. /\ t \in 0..Len(l)
      /\ t = 0 => I = {}
      /\ t # 0 => t \in I /\ t \in 1..Len(l)
      /\ \A j \in 1..Len(l) : (t = 0 \/ j < t) => j \notin I
  <2>1. I \subseteq 1..Len(l)
    OBVIOUS
  <2> HIDE DEF I
  <2> QED
    BY <2>1, FirstCell
<1> HIDE DEF t
<1>2. /\ Len(l) \in Nat /\ DOMAIN l = 1..Len(l)
      /\ \A j \in 1..Len(l) : l[j].start \in Nat /\ l[j].end \in Nat
  BY CellsOfLists
<1>3. /\ \A j \in 1..Len(l) : l[j].start <= l[j].end
      /\ \A i, j \in 1..Len(l) : i < j => l[i].end < l[j].start
  BY <1>2 DEF Ordered
<1>4. ASSUME NEW j \in 1..Len(l), ~(end < l[j].start)
      PROVE  l[j].end < start
  <2>1. \A b \in l[j].start .. l[j].end : b \notin start .. end
    BY BlockInList DEF Lists
  <2>2. l[j].start \notin start .. end /\ l[j].end \notin start .. end
    BY <2>1, <1>2, <1>3
  <2>3. ~(l[j].start <= start /\ start <= l[j].end)
    BY <2>1, <1>2
  <2> QED
    BY <2>2, <2>3, <1>2, <1>3, <1>4
<1>5. CASE t = 0
  <2>1. \A j \in 1..Len(l) : ~(end < l[j].start)
    BY <1>1, <1>5
  <2>2. \A j \in 1..Len(l) : l[j].end < start
    BY <1>4, <2>1
  <2> QED
    BY <1>0, <1>2, <1>5, <2>2
<1>6. CASE t # 0
  <2>1. \A j \in 1..Len(l) : t < j => end < l[j].start
    BY <1>1, <1>2, <1>3, <1>6
  <2>2. end < l[t].start /\ t \in 1..Len(l)
    BY <1>1, <1>6
  <2>3. \A j \in 1..Len(l) : j < t => l[j].end < start
    BY <1>1, <1>4
  <2> QED
    BY <1>0, <2>1, <2>2, <2>3, <1>2, <1>6
<1> QED
  BY <1>5, <1>6

(* A range the list does not have lies wholly on one side of each cell.    *)
LEMMA BesideCells ==
    ASSUME NEW l \in Lists, Ordered(l), NEW start \in Nat, NEW end \in Nat,
           start <= end, BlocksOf(l) \cap (start .. end) = {},
           NEW j \in 1..Len(l)
    PROVE  l[j].end < start \/ end < l[j].start
<1>1. /\ l[j].start \in Nat /\ l[j].end \in Nat /\ DOMAIN l = 1..Len(l)
  BY CellsOfLists
<1>2. l[j].start <= l[j].end
  BY <1>1 DEF Ordered
<1>3. \A b \in l[j].start .. l[j].end : b \notin start .. end
  BY BlockInList DEF Lists
<1>4. l[j].start \notin start .. end /\ l[j].end \notin start .. end
  BY <1>1, <1>2, <1>3
<1>5. ~(l[j].start <= start /\ start <= l[j].end)
  BY <1>1, <1>3
<1> QED
  BY <1>1, <1>2, <1>4, <1>5

(* The cursor of n is on the range that of s is on, or on what that range  *)
(* has grown into.                                                         *)
SameRange(s, n) ==
    /\ n.cur = ListHead <=> s.cur = ListHead
    /\ s.cur # ListHead =>
          Extent(s.list[s.cur]) \subseteq Extent(n.list[n.cur])

(* A range put in as a cell of its own.                                    *)
LEMMA InsertedEntry ==
    ASSUME NEW s, Space(s), NEW start \in Nat, NEW end \in Nat, start <= end,
           NEW stat \in Stats \cup {NoStat},
           BlocksOf(s.list) \cap (start .. end) = {}
    PROVE  LET r == [start |-> start, end |-> end, stat |-> stat]
               n == InsertEntry(s, PlaceOf(s.list, end), r)
           IN  /\ Space(n)
               /\ n.offset = s.offset
               /\ BlocksOf(n.list) = BlocksOf(s.list) \cup (start .. end)
               /\ SameRange(s, n)
<1> DEFINE r == [start |-> start, end |-> end, stat |-> stat]
           t == PlaceOf(s.list, end)
           l == s.list
           m == InsertAt(l, t, r)
           n == InsertEntry(s, t, r)
<1>1. /\ l \in Lists /\ Ordered(l) /\ Len(l) \in Nat
      /\ s.cur \in 0..Len(l) /\ s.offset \in Nat
      /\ s \in [list : Lists, cur : Nat, offset : Nat]
  BY CellsOfLists DEF Space
<1>2. r \in RangeType /\ r.start = start /\ r.end = end /\ Extent(r) = start..end
  BY DEF RangeType, Extent
<1>3. /\ t \in 1..(Len(l) + 1)
      /\ \A j \in 1..Len(l) : j < t => l[j].end < start
      /\ \A j \in 1..Len(l) : t <= j => end < l[j].start
  BY <1>1, PlaceCorrect
<1> HIDE DEF r, t, l
<1>4. /\ m \in Lists /\ Len(m) = Len(l) + 1 /\ Ordered(m)
      /\ BlocksOf(m) = BlocksOf(l) \cup (start .. end)
  BY <1>1, <1>2, <1>3, InsertedCell
<1>4a. \A j \in 1..(Len(l) + 1) :
          m[j] = IF j < t THEN l[j] ELSE IF j = t THEN r ELSE l[j - 1]
  BY <1>1, <1>2, <1>3, InsertAtCells DEF Lists
<1> HIDE DEF m
<1>5. n = [s EXCEPT !.list = m, !.cur = IF @ >= t THEN @ + 1 ELSE @]
  BY DEF InsertEntry, m, l
<1> HIDE DEF n
<1> DEFINE c == IF s.cur >= t THEN s.cur + 1 ELSE s.cur
<1>5a. c \in Nat
  BY <1>1, <1>3
<1>5b. n = [s EXCEPT !.list = m, !.cur = c]
  BY <1>5
<1> HIDE DEF c
<1>6. /\ n.list = m /\ n.offset = s.offset /\ n.cur = c
      /\ n \in [list : Lists, cur : Nat, offset : Nat]
  BY <1>1, <1>4, <1>5a, <1>5b
<1>7. n.cur \in 0..(Len(l) + 1)
  BY <1>1, <1>3, <1>6 DEF c
<1>8. Space(n)
  BY <1>4, <1>6, <1>7 DEF Space
<1>9. n.cur = ListHead <=> s.cur = ListHead
  BY <1>1, <1>3, <1>6 DEF c, ListHead
<1>10. s.cur # ListHead => n.list[n.cur] = l[s.cur]
  BY <1>1, <1>3, <1>4a, <1>6 DEF c, ListHead
<1>11. SameRange(s, n)
  BY <1>9, <1>10 DEF SameRange, l
<1> QED
  BY <1>4, <1>6, <1>8, <1>11 DEF n, m, l, r, t

(* s with cell t of its list replaced.                                     *)
WithCell(s, t, r) == [s EXCEPT !.list[t] = r]

(* A range joined to a cell, whose extent grows by it.                     *)
LEMMA JoinedCell ==
    ASSUME NEW s, Space(s), NEW t \in 1..Len(s.list),
           NEW r \in RangeType, r.start <= r.end, NEW B,
           BlocksOf(s.list) \cap B = {},
           Extent(r) = Extent(s.list[t]) \cup B,
           \A j \in 1..Len(s.list) : j < t => s.list[j].end < r.start,
           \A j \in 1..Len(s.list) : t < j => r.end < s.list[j].start
    PROVE  /\ Space(WithCell(s, t, r))
           /\ WithCell(s, t, r).offset = s.offset
           /\ BlocksOf(WithCell(s, t, r).list) = BlocksOf(s.list) \cup B
           /\ SameRange(s, WithCell(s, t, r))
<1> DEFINE l == s.list
           m == [l EXCEPT ![t] = r]
           n == WithCell(s, t, r)
<1>1. /\ l \in Lists /\ Ordered(l) /\ Len(l) \in Nat
      /\ s.cur \in 0..Len(l)
      /\ s \in [list : Lists, cur : Nat, offset : Nat]
  BY CellsOfLists DEF Space
<1>2. /\ m \in Lists /\ Len(m) = Len(l) /\ Ordered(m)
      /\ BlocksOf(m) = (BlocksOf(l) \ Extent(l[t])) \cup Extent(r)
  BY <1>1, ReplacedCell
<1>3. Extent(l[t]) \subseteq BlocksOf(l)
  BY <1>1, CellsOfLists DEF BlocksOf
<1>4. BlocksOf(m) = BlocksOf(l) \cup B
  BY <1>2, <1>3
<1>4a. \A j \in 1..Len(l) : m[j] = IF j = t THEN r ELSE l[j]
  BY <1>1, ExceptCells DEF Lists
<1> HIDE DEF m
<1>5. n = [s EXCEPT !.list = m]
  BY DEF m, WithCell
<1>6. /\ n.list = m /\ n.offset = s.offset /\ n.cur = s.cur
      /\ n \in [list : Lists, cur : Nat, offset : Nat]
  BY <1>1, <1>2, <1>5
<1> HIDE DEF n
<1>7. Space(n)
  BY <1>1, <1>2, <1>6 DEF Space
<1>8. s.cur # ListHead => Extent(l[s.cur]) \subseteq Extent(m[s.cur])
  BY <1>1, <1>4a DEF ListHead
<1>9. SameRange(s, n)
  BY <1>6, <1>8 DEF SameRange
<1> QED
  BY <1>4, <1>6, <1>7, <1>9 DEF n

(* file_block_truncate_aux: blocks that are given back are in the list     *)
(* again and nothing else changes in it, whichever neighbour they join;    *)
(* the list stays in order and the cursor on it.                           *)
THEOREM GiveBackCorrect ==
    ASSUME NEW s, Space(s), NEW start \in Nat, NEW end \in Nat,
           BlocksOf(s.list) \cap (start .. end) = {}
    PROVE  /\ Space(GiveBack(s, start, end))
           /\ GiveBack(s, start, end).offset = s.offset
           /\ BlocksOf(GiveBack(s, start, end).list) =
                 BlocksOf(s.list) \cup (start .. end)
           /\ SameRange(s, GiveBack(s, start, end))
<1> DEFINE l == s.list
           I == { i \in 1..Len(l) :
                    \/ l[i].start = end + 1 /\ l[i].stat = NoStat
                    \/ l[i].end + 1 = start
                    \/ end < l[i].start }
           t == IF I # {} THEN Min(I) ELSE 0
           next == l[t].start = end + 1 /\ l[t].stat = NoStat
           prev == l[t].end + 1 = start
           entry == [start |-> start, end |-> end, stat |-> NoStat]
           forward == [l[t] EXCEPT !.start = start]
           backward == [l[t] EXCEPT !.end = end]
<1>0. GiveBack(s, start, end) =
         IF start > end THEN s
         ELSE IF t # 0 /\ next
              THEN WithCell(s, t, forward)
         ELSE IF t # 0 /\ prev
              THEN WithCell(s, t, backward)
         ELSE InsertEntry(s, PlaceOf(l, end), entry)
  BY DEF GiveBack, Nothing, SelectInSeq, WithCell
<1>1. /\ l \in Lists /\ Ordered(l) /\ Len(l) \in Nat /\ DOMAIN l = 1..Len(l)
      /\ \A j \in 1..Len(l) : /\ l[j] \in RangeType
                              /\ l[j].start \in Nat /\ l[j].end \in Nat
                              /\ l[j].stat \in Stats \cup {NoStat}
  BY CellsOfLists DEF Space
<1>2. /\ t \in 0..Len(l)
      /\ t = 0 => I = {}
      /\ t # 0 => t \in I /\ t \in 1..Len(l)
      /\ \A j \in 1..Len(l) : (t = 0 \/ j < t) => j \notin I
  <2>1. I \subseteq 1..Len(l)
    OBVIOUS
  <2> HIDE DEF I, l
  <2> QED
    BY <2>1, <1>1, FirstCell
<1> HIDE DEF t, forward, backward
<1>3. /\ \A j \in 1..Len(l) : l[j].start <= l[j].end
      /\ \A i, j \in 1..Len(l) : i < j => l[i].end < l[j].start
  BY <1>1 DEF Ordered
<1>4. CASE start > end
  <2>1. start .. end = {}
    BY <1>4
  <2> QED
    BY <1>0, <1>4, <2>1 DEF SameRange
<1>5. CASE start <= end /\ t # 0 /\ next
  <2>1. GiveBack(s, start, end) = WithCell(s, t, forward)
    BY <1>0, <1>5
  <2>2. /\ forward \in RangeType
        /\ forward.start = start /\ forward.end = l[t].end
    BY <1>1, <1>2, <1>5 DEF RangeType, forward
  <2>3. forward.start <= forward.end
    BY <2>2, <1>1, <1>2, <1>3, <1>5
  <2>4. ASSUME NEW j \in 1..Len(l), j < t PROVE l[j].end < forward.start
    <3>1. ~(end < l[j].start)
      BY <2>4, <1>2
    <3> QED
      BY <3>1, <2>2, <1>1, <1>5, BesideCells
  <2>5. \A j \in 1..Len(l) : t < j => forward.end < l[j].start
    BY <2>2, <1>2, <1>3, <1>5
  <2>6. t \in 1..Len(s.list)
    BY <1>2, <1>5
  <2> DEFINE B == start .. end
  <2>7. BlocksOf(s.list) \cap B = {} /\ Extent(forward) = Extent(s.list[t]) \cup B
    BY <2>2, <1>1, <1>2, <1>3, <1>5 DEF Extent
  <2> HIDE DEF B
  <2>8. /\ Space(WithCell(s, t, forward))
        /\ WithCell(s, t, forward).offset = s.offset
        /\ BlocksOf(WithCell(s, t, forward).list) = BlocksOf(s.list) \cup B
        /\ SameRange(s, WithCell(s, t, forward))
    BY <2>2, <2>3, <2>4, <2>5, <2>6, <2>7, JoinedCell
  <2> QED
    BY <2>1, <2>8 DEF B
<1>6. CASE start <= end /\ t # 0 /\ ~next /\ prev
  <2>1. GiveBack(s, start, end) = WithCell(s, t, backward)
    BY <1>0, <1>6
  <2>2. /\ backward \in RangeType
        /\ backward.start = l[t].start /\ backward.end = end
    BY <1>1, <1>2, <1>6 DEF RangeType, backward
  <2>3. backward.start <= backward.end
    BY <2>2, <1>1, <1>2, <1>3, <1>6
  <2>4. \A j \in 1..Len(l) : j < t => l[j].end < backward.start
    BY <2>2, <1>2, <1>3, <1>6
  <2>5. ASSUME NEW j \in 1..Len(l), t < j PROVE backward.end < l[j].start
    <3>1. l[t].end < l[j].start /\ l[j].start <= l[j].end
      BY <2>5, <1>2, <1>3, <1>6
    <3>2. ~(l[j].end < start)
      BY <3>1, <1>1, <1>2, <1>6
    <3> QED
      BY <3>2, <2>2, <1>1, <1>6, BesideCells
  <2>6. t \in 1..Len(s.list)
    BY <1>2, <1>6
  <2> DEFINE B == start .. end
  <2>7. BlocksOf(s.list) \cap B = {} /\ Extent(backward) = Extent(s.list[t]) \cup B
    BY <2>2, <1>1, <1>2, <1>3, <1>6 DEF Extent
  <2> HIDE DEF B
  <2>8. /\ Space(WithCell(s, t, backward))
        /\ WithCell(s, t, backward).offset = s.offset
        /\ BlocksOf(WithCell(s, t, backward).list) = BlocksOf(s.list) \cup B
        /\ SameRange(s, WithCell(s, t, backward))
    BY <2>2, <2>3, <2>4, <2>5, <2>6, <2>7, JoinedCell
  <2> QED
    BY <2>1, <2>8 DEF B
<1>7. CASE start <= end /\ ~(t # 0 /\ next) /\ ~(t # 0 /\ prev)
  <2>1. GiveBack(s, start, end) = InsertEntry(s, PlaceOf(s.list, end), entry)
    BY <1>0, <1>7
  <2>2. NoStat \in Stats \cup {NoStat}
    OBVIOUS
  <2> QED
    BY <2>1, <2>2, <1>7, InsertedEntry
<1>8. start > end \/ start <= end
  OBVIOUS
<1> QED
  BY <1>4, <1>5, <1>6, <1>7, <1>8

(* file_block_truncate_zero_aux does the same, whatever kind of header the *)
(* rejected file had.                                                      *)
THEOREM GiveBackHeaderCorrect ==
    ASSUME NEW s, Space(s), NEW start \in Nat, NEW end \in Nat,
           NEW stat \in Stats \cup {NoStat},
           BlocksOf(s.list) \cap (start .. end) = {}
    PROVE  /\ Space(GiveBackHeader(s, start, end, stat))
           /\ GiveBackHeader(s, start, end, stat).offset = s.offset
           /\ BlocksOf(GiveBackHeader(s, start, end, stat).list) =
                 BlocksOf(s.list) \cup (start .. end)
           /\ SameRange(s, GiveBackHeader(s, start, end, stat))
<1> DEFINE l == s.list
           I == { i \in 1..Len(l) :
                    \/ l[i].start = end + 1 /\ l[i].stat = NoStat
                    \/ end < l[i].start }
           t == IF I # {} THEN Min(I) ELSE 0
           next == l[t].start = end + 1 /\ l[t].stat = NoStat
           entry == [start |-> start, end |-> end, stat |-> stat]
           forward == [l[t] EXCEPT !.start = start, !.stat = stat]
<1>0. GiveBackHeader(s, start, end, stat) =
         IF start > end THEN s
         ELSE IF t # 0 /\ next
              THEN WithCell(s, t, forward)
         ELSE InsertEntry(s, PlaceOf(l, end), entry)
  BY DEF GiveBackHeader, Nothing, SelectInSeq, WithCell
<1>1. /\ l \in Lists /\ Ordered(l) /\ Len(l) \in Nat /\ DOMAIN l = 1..Len(l)
      /\ \A j \in 1..Len(l) : /\ l[j] \in RangeType
                              /\ l[j].start \in Nat /\ l[j].end \in Nat
                              /\ l[j].stat \in Stats \cup {NoStat}
  BY CellsOfLists DEF Space
<1>2. /\ t \in 0..Len(l)
      /\ t = 0 => I = {}
      /\ t # 0 => t \in I /\ t \in 1..Len(l)
      /\ \A j \in 1..Len(l) : (t = 0 \/ j < t) => j \notin I
  <2>1. I \subseteq 1..Len(l)
    OBVIOUS
  <2> HIDE DEF I, l
  <2> QED
    BY <2>1, <1>1, FirstCell
<1> HIDE DEF t, forward
<1>3. /\ \A j \in 1..Len(l) : l[j].start <= l[j].end
      /\ \A i, j \in 1..Len(l) : i < j => l[i].end < l[j].start
  BY <1>1 DEF Ordered
<1>4. CASE start > end
  <2>1. start .. end = {}
    BY <1>4
  <2> QED
    BY <1>0, <1>4, <2>1 DEF SameRange
<1>5. CASE start <= end /\ t # 0 /\ next
  <2>1. GiveBackHeader(s, start, end, stat) =
           WithCell(s, t, forward)
    BY <1>0, <1>5
  <2>2. /\ forward \in RangeType
        /\ forward.start = start /\ forward.end = l[t].end
    BY <1>1, <1>2, <1>5 DEF RangeType, forward
  <2>3. forward.start <= forward.end
    BY <2>2, <1>1, <1>2, <1>3, <1>5
  <2>4. ASSUME NEW j \in 1..Len(l), j < t PROVE l[j].end < forward.start
    <3>1. ~(end < l[j].start)
      BY <2>4, <1>2
    <3> QED
      BY <3>1, <2>2, <1>1, <1>5, BesideCells
  <2>5. \A j \in 1..Len(l) : t < j => forward.end < l[j].start
    BY <2>2, <1>2, <1>3, <1>5
  <2>6. t \in 1..Len(s.list)
    BY <1>2, <1>5
  <2> DEFINE B == start .. end
  <2>7. BlocksOf(s.list) \cap B = {} /\ Extent(forward) = Extent(s.list[t]) \cup B
    BY <2>2, <1>1, <1>2, <1>3, <1>5 DEF Extent
  <2> HIDE DEF B
  <2>8. /\ Space(WithCell(s, t, forward))
        /\ WithCell(s, t, forward).offset = s.offset
        /\ BlocksOf(WithCell(s, t, forward).list) = BlocksOf(s.list) \cup B
        /\ SameRange(s, WithCell(s, t, forward))
    BY <2>2, <2>3, <2>4, <2>5, <2>6, <2>7, JoinedCell
  <2> QED
    BY <2>1, <2>8 DEF B
<1>6. CASE start <= end /\ ~(t # 0 /\ next)
  <2>1. GiveBackHeader(s, start, end, stat) =
           InsertEntry(s, PlaceOf(s.list, end), entry)
    BY <1>0, <1>6
  <2> QED
    BY <2>1, <1>6, InsertedEntry
<1>7. start > end \/ start <= end
  OBVIOUS
<1> QED
  BY <1>4, <1>5, <1>6, <1>7

-----------------------------------------------------------------------------
(* Taking one block out                                                    *)

(* The parts of a space make a space.                                      *)
LEMMA SpaceRecord ==
    ASSUME NEW l \in Lists, Ordered(l), NEW c \in 0..Len(l), NEW o \in Nat
    PROVE  Space([list |-> l, cur |-> c, offset |-> o])
<1>1. Len(l) \in Nat
  BY CellsOfLists
<1> QED
  BY <1>1 DEF Space

(* A range whose first block and kind of header are replaced.              *)
LEMMA RangeFrom ==
    ASSUME NEW r \in RangeType, NEW e \in Nat
    PROVE  [r EXCEPT !.start = e, !.stat = NoStat] =
              [start |-> e, end |-> r.end, stat |-> NoStat]
<1> DEFINE a == [r EXCEPT !.start = e, !.stat = NoStat]
           b == [start |-> e, end |-> r.end, stat |-> NoStat]
<1>1. /\ a \in RangeType
      /\ a.start = e /\ a.end = r.end /\ a.stat = NoStat
  BY DEF RangeType
<1>2. /\ b \in RangeType
      /\ b.start = e /\ b.end = r.end /\ b.stat = NoStat
  BY DEF RangeType
<1> HIDE DEF a, b
<1>3. a = b
  BY <1>1, <1>2 DEF RangeType
<1> QED
  BY <1>3 DEF a, b

(* What is left of an ordered list without the block at o, cell t being    *)
(* the one that holds it: m is one of the four lists the cuts leave.       *)
LEMMA CutList ==
    ASSUME NEW l \in Lists, Ordered(l), NEW t \in 1..Len(l), NEW o \in Nat,
           o \in Extent(l[t]), NEW m,
           BlocksOf(m) = (BlocksOf(l) \ Extent(l[t])) \cup (Extent(l[t]) \ {o})
    PROVE  BlocksOf(m) = BlocksOf(l) \ {o}
<1>1. Extent(l[t]) \subseteq BlocksOf(l)
  BY CellsOfLists DEF BlocksOf
<1> QED
  BY <1>1

(* The position is on a block of the current range.                        *)
OnRange(s) == s.cur # ListHead /\ s.offset \in Extent(s.list[s.cur])

(* The position of n is past the block at that of s: on the block after    *)
(* it, on the next range, or on the list head.                             *)
NextPlace(s, n) ==
    LET r == s.list[s.cur]
    IN  \/ /\ n.cur # ListHead /\ n.offset = s.offset + 1
           /\ n.offset \in Extent(n.list[n.cur])
        \/ /\ s.offset = r.end /\ s.cur = Len(s.list) /\ n.cur = ListHead
        \/ /\ s.offset = r.end /\ s.cur < Len(s.list)
           /\ n.cur # ListHead /\ n.list[n.cur] = s.list[s.cur + 1]
           /\ n.offset = n.list[n.cur].start

(* file_block_remove_from_sp_aux on the cell that holds the block.         *)
LEMMA RemoveFromRangeCorrect ==
    ASSUME NEW s, Space(s), NEW t \in 1..Len(s.list),
           s.list[t].start <= s.offset, s.offset <= s.list[t].end
    PROVE  /\ Space(RemoveFromRange(s, t))
           /\ BlocksOf(RemoveFromRange(s, t).list) =
                 BlocksOf(s.list) \ {s.offset}
           /\ t = s.cur => NextPlace(s, RemoveFromRange(s, t))
<1> DEFINE l == s.list
           o == s.offset
           Goal(n) == /\ Space(n) /\ BlocksOf(n.list) = BlocksOf(l) \ {o}
                      /\ t = s.cur => NextPlace(s, n)
<1>1. /\ l \in Lists /\ Ordered(l) /\ Len(l) \in Nat /\ DOMAIN l = 1..Len(l)
      /\ s.cur \in 0..Len(l) /\ o \in Nat
      /\ s = [list |-> l, cur |-> s.cur, offset |-> o]
      /\ \A j \in 1..Len(l) : /\ l[j] \in RangeType
                              /\ l[j].start \in Nat /\ l[j].end \in Nat
                              /\ l[j].stat \in Stats \cup {NoStat}
  <2>1. s \in [list : Lists, cur : Nat, offset : Nat]
    BY DEF Space
  <2>2. s = [list |-> l, cur |-> s.cur, offset |-> o]
    BY <2>1
  <2> QED
    BY <2>1, <2>2, CellsOfLists DEF Space
<1>2. /\ \A j \in 1..Len(l) : l[j].start <= l[j].end
      /\ \A i, j \in 1..Len(l) : i < j => l[i].end < l[j].start
  BY <1>1 DEF Ordered
<1>3. o \in Extent(l[t])
  BY <1>1 DEF Extent
<1>4. NextEntry(l, t) \in 0..Len(l)
  BY <1>1 DEF NextEntry, ListHead
<1>5. CASE l[t].start = o /\ o + 1 <= l[t].end
  <2> DEFINE r == [start |-> o + 1, end |-> l[t].end, stat |-> NoStat]
             m == [l EXCEPT ![t] = r]
  <2>1. r = [l[t] EXCEPT !.start = o + 1, !.stat = NoStat]
    <3>1. l[t] \in RangeType /\ o + 1 \in Nat
      BY <1>1
    <3> QED
      BY <3>1, RangeFrom, Zenon
  <2>2. /\ r \in RangeType /\ r.start = o + 1 /\ r.end = l[t].end
        /\ r.start <= r.end
    BY <1>1, <1>5 DEF RangeType
  <2>3. Extent(r) = Extent(l[t]) \ {o}
    BY <2>2, <1>1, <1>5 DEF Extent
  <2>4. CutFirst(s, t) = [list |-> m, cur |-> s.cur, offset |-> o + 1]
    <3>1. [l EXCEPT ![t] = [l[t] EXCEPT !.start = o + 1, !.stat = NoStat]] = m
      BY <2>1
    <3>2. CutFirst(s, t) =
             [s EXCEPT !.list = [l EXCEPT ![t] =
                             [l[t] EXCEPT !.start = o + 1, !.stat = NoStat]],
                       !.offset = o + 1]
      BY <1>1 DEF CutFirst, Space
    <3> HIDE DEF m, r
    <3> QED
      BY <3>1, <3>2, <1>1
  <2> HIDE DEF r
  <2>5. /\ m \in Lists /\ Len(m) = Len(l) /\ Ordered(m)
        /\ BlocksOf(m) = (BlocksOf(l) \ Extent(l[t])) \cup Extent(r)
    <3>1. \A j \in 1..Len(l) : j < t => l[j].end < r.start
      BY <2>2, <1>1, <1>2, <1>5
    <3>2. \A j \in 1..Len(l) : t < j => r.end < l[j].start
      BY <2>2, <1>2
    <3> QED
      BY <2>2, <3>1, <3>2, <1>1, ReplacedCell
  <2>5a. \A j \in 1..Len(l) : m[j] = IF j = t THEN r ELSE l[j]
    BY <2>2, <1>1, ExceptCells DEF Lists
  <2> HIDE DEF m
  <2>6. BlocksOf(m) = BlocksOf(l) \ {o}
    BY <2>3, <2>5, <1>1, <1>3, CutList
  <2>7. Space([list |-> m, cur |-> s.cur, offset |-> o + 1])
    BY <2>5, <1>1, SpaceRecord
  <2>7a. t = s.cur => NextPlace(s, CutFirst(s, t))
    <3>1. m[t] = r /\ o + 1 \in Extent(r)
      BY <2>2, <2>5a, <1>1 DEF Extent
    <3> QED
      BY <3>1, <2>4, <1>1 DEF NextPlace, ListHead
  <2>8. Goal(CutFirst(s, t))
    BY <2>4, <2>6, <2>7, <2>7a
  <2> QED
    BY <2>8, <1>5 DEF RemoveFromRange
<1>6. CASE l[t].start = o /\ ~(o + 1 <= l[t].end)
  <2> DEFINE m == RemoveAt(l, t)
             c == IF t = Len(l) THEN ListHead ELSE t
  <2>1. /\ m \in Lists /\ Len(m) = Len(l) - 1 /\ Ordered(m)
        /\ BlocksOf(m) = BlocksOf(l) \ Extent(l[t])
    BY <1>1, RemovedCell
  <2>1a. \A j \in 1..(Len(l) - 1) : m[j] = IF j < t THEN l[j] ELSE l[j + 1]
    BY <1>1, RemoveAtCells DEF Lists
  <2>1b. c = IF t = Len(l) THEN ListHead ELSE t
    OBVIOUS
  <2>2. Extent(l[t]) = {o}
    BY <1>1, <1>2, <1>6 DEF Extent
  <2>3. c \in 0..Len(m)
    BY <2>1, <1>1 DEF ListHead
  <2> HIDE DEF c, m
  <2>4. StartOf(m, c) \in Nat
    BY <2>1, <2>3, CellsOfLists DEF StartOf, ListHead
  <2>5. FreeCell(s, t) = [list |-> m, cur |-> c, offset |-> StartOf(m, c)]
    <3>1. [s EXCEPT !.list = m] = [list |-> m, cur |-> s.cur, offset |-> o]
      BY <1>1
    <3>2. FreeCell(s, t) = MoveTo([list |-> m, cur |-> s.cur, offset |-> o], c)
      BY <3>1 DEF FreeCell, m, c
    <3> QED
      BY <3>2 DEF MoveTo
  <2>6. Space([list |-> m, cur |-> c, offset |-> StartOf(m, c)])
    BY <2>1, <2>3, <2>4, SpaceRecord
  <2>6a. t = s.cur => NextPlace(s, FreeCell(s, t))
    <3>1. o = l[t].end
      BY <1>1, <1>2, <1>6
    <3>2. CASE t = Len(l)
      BY <3>1, <3>2, <2>1b, <2>5 DEF NextPlace
    <3>3. CASE t # Len(l)
      <4>1. c = t /\ t < Len(l) /\ m[t] = l[t + 1] /\ t # ListHead
        BY <3>3, <2>1a, <2>1b, <1>1 DEF ListHead
      <4> QED
        BY <4>1, <3>1, <2>5 DEF NextPlace, StartOf
    <3> QED
      BY <3>2, <3>3
  <2>7. Goal(FreeCell(s, t))
    BY <2>1, <2>2, <2>5, <2>6, <2>6a
  <2> QED
    BY <2>7, <1>6 DEF RemoveFromRange
<1>7. CASE l[t].start # o /\ o = l[t].end
  <2> DEFINE r == [start |-> l[t].start, end |-> o - 1, stat |-> l[t].stat]
             m == [l EXCEPT ![t] = r]
             c == NextEntry(l, t)
  <2>1. r = [l[t] EXCEPT !.end = l[t].end - 1]
    BY <1>1, <1>7 DEF RangeType
  <2>2. /\ r \in RangeType /\ r.start = l[t].start /\ r.end = o - 1
        /\ r.start <= r.end
    BY <1>1, <1>2, <1>7 DEF RangeType
  <2>3. Extent(r) = Extent(l[t]) \ {o}
    BY <2>2, <1>1, <1>7 DEF Extent
  <2> HIDE DEF r, c
  <2>4. /\ m \in Lists /\ Len(m) = Len(l) /\ Ordered(m)
        /\ BlocksOf(m) = (BlocksOf(l) \ Extent(l[t])) \cup Extent(r)
    <3>1. \A j \in 1..Len(l) : j < t => l[j].end < r.start
      BY <2>2, <1>2
    <3>2. \A j \in 1..Len(l) : t < j => r.end < l[j].start
      BY <2>2, <1>1, <1>2, <1>7
    <3> QED
      BY <2>2, <3>1, <3>2, <1>1, ReplacedCell
  <2>4a. \A j \in 1..Len(l) : m[j] = IF j = t THEN r ELSE l[j]
    BY <2>2, <1>1, ExceptCells DEF Lists
  <2>5. StartOf(m, c) \in Nat /\ c \in 0..Len(m)
    BY <2>4, <1>4, CellsOfLists DEF StartOf, ListHead, c
  <2>6. CutLast(s, t) = [list |-> m, cur |-> c, offset |-> StartOf(m, c)]
    <3>0. [s EXCEPT !.list[t].end = @ - 1] = [s EXCEPT !.list = m]
      BY <2>1
    <3>1. [s EXCEPT !.list = m] = [list |-> m, cur |-> s.cur, offset |-> o]
      BY <1>1
    <3>2. CutLast(s, t) = MoveTo([list |-> m, cur |-> s.cur, offset |-> o], c)
      BY <3>0, <3>1 DEF CutLast, c
    <3> HIDE DEF m
    <3> QED
      BY <3>2 DEF MoveTo
  <2> HIDE DEF m
  <2>7. BlocksOf(m) = BlocksOf(l) \ {o}
    BY <2>3, <2>4, <1>1, <1>3, CutList
  <2>8. Space([list |-> m, cur |-> c, offset |-> StartOf(m, c)])
    BY <2>4, <2>5, SpaceRecord
  <2>8a. t = s.cur => NextPlace(s, CutLast(s, t))
    <3>1. CASE t = Len(l)
      BY <3>1, <2>6, <1>7 DEF NextPlace, NextEntry, c
    <3>2. CASE t # Len(l)
      <4>1. /\ c = t + 1 /\ t < Len(l) /\ m[t + 1] = l[t + 1]
            /\ t + 1 # ListHead
        BY <3>2, <2>4a, <1>1 DEF ListHead, NextEntry, c
      <4> QED
        BY <4>1, <2>6, <1>7 DEF NextPlace, StartOf
    <3> QED
      BY <3>1, <3>2
  <2>9. Goal(CutLast(s, t))
    BY <2>6, <2>7, <2>8, <2>8a
  <2> QED
    BY <2>9, <1>7 DEF RemoveFromRange
<1>8. CASE l[t].start # o /\ o # l[t].end
  <2> DEFINE left == [start |-> l[t].start, end |-> o - 1, stat |-> l[t].stat]
             right == [start |-> o + 1, end |-> l[t].end, stat |-> NoStat]
             m == [l EXCEPT ![t] = left]
             k == InsertAt(m, t + 1, right)
  <2>1. left = [l[t] EXCEPT !.end = o - 1]
    BY <1>1 DEF RangeType
  <2>2. right = [l[t] EXCEPT !.start = o + 1, !.stat = NoStat]
    <3>1. l[t] \in RangeType /\ o + 1 \in Nat
      BY <1>1
    <3> QED
      BY <3>1, RangeFrom, Zenon
  <2>3. /\ left \in RangeType /\ left.start = l[t].start /\ left.end = o - 1
        /\ left.start <= left.end
    BY <1>1, <1>8 DEF RangeType
  <2>4. /\ right \in RangeType /\ right.start = o + 1 /\ right.end = l[t].end
        /\ right.start <= right.end
    BY <1>1, <1>8 DEF RangeType
  <2>5. Extent(left) \cup Extent(right) = Extent(l[t]) \ {o}
    BY <2>3, <2>4, <1>1, <1>8 DEF Extent
  <2>6. CutMiddle(s, t) = [list |-> k, cur |-> t + 1, offset |-> o + 1]
    BY <2>1, <2>2 DEF CutMiddle
  <2> HIDE DEF left, right
  <2>7. /\ m \in Lists /\ Len(m) = Len(l) /\ Ordered(m)
        /\ BlocksOf(m) = (BlocksOf(l) \ Extent(l[t])) \cup Extent(left)
    <3>1. \A j \in 1..Len(l) : j < t => l[j].end < left.start
      BY <2>3, <1>2
    <3>2. \A j \in 1..Len(l) : t < j => left.end < l[j].start
      BY <2>3, <1>1, <1>2, <1>8
    <3> QED
      BY <2>3, <3>1, <3>2, <1>1, ReplacedCell
  <2>8. \A j \in 1..Len(l) : m[j] = IF j = t THEN left ELSE l[j]
    BY <2>3, <1>1, ExceptCells DEF Lists
  <2> HIDE DEF m
  <2>9. /\ k \in Lists /\ Len(k) = Len(l) + 1 /\ Ordered(k)
        /\ BlocksOf(k) = BlocksOf(m) \cup Extent(right)
    <3>1. \A j \in 1..Len(m) : j < t + 1 => m[j].end < right.start
      <4> SUFFICES ASSUME NEW j \in 1..Len(m), j < t + 1
                   PROVE  m[j].end < right.start
        OBVIOUS
      <4>1. j \in 1..Len(l) /\ j \in Nat
        BY <2>7
      <4>2. CASE j = t
        BY <4>1, <4>2, <2>3, <2>4, <2>8, <1>1, <1>8
      <4>3. CASE j # t
        <5>1. j < t /\ m[j].end = l[j].end
          BY <4>1, <4>3, <2>8
        <5>2. l[j].end < l[t].start
          BY <4>1, <5>1, <1>2
        <5> QED
          BY <4>1, <5>1, <5>2, <2>4, <1>1, <1>8
      <4> QED
        BY <4>2, <4>3
    <3>2. \A j \in 1..Len(m) : t + 1 <= j => right.end < m[j].start
      BY <2>4, <2>7, <2>8, <1>1, <1>2
    <3>3. t + 1 \in 1..(Len(m) + 1)
      BY <2>7, <1>1
    <3> QED
      BY <2>4, <2>7, <3>1, <3>2, <3>3, InsertedCell
  <2>9a. k[t + 1] = right
    <3>1. t + 1 \in 1..(Len(m) + 1) /\ m \in Seq(RangeType)
      BY <2>7, <1>1 DEF Lists
    <3>2. ASSUME NEW p \in 1..(Len(m) + 1) PROVE InsertAt(m, p, right)[p] = right
      <4>1. \A j \in 1..(Len(m) + 1) :
               InsertAt(m, p, right)[j] =
                  IF j < p THEN m[j] ELSE IF j = p THEN right ELSE m[j - 1]
        BY <3>1, <2>4, InsertAtCells
      <4>2. ~(p < p)
        BY <3>1, <2>7, <1>1
      <4> QED
        BY <4>1, <4>2
    <3> QED
      BY <3>1, <3>2
  <2> HIDE DEF k
  <2>10. BlocksOf(k) = BlocksOf(l) \ {o}
    <3>1. BlocksOf(k) =
             (BlocksOf(l) \ Extent(l[t])) \cup (Extent(l[t]) \ {o})
      BY <2>5, <2>7, <2>9
    <3> QED
      BY <3>1, <1>1, <1>3, CutList
  <2>11. Space([list |-> k, cur |-> t + 1, offset |-> o + 1])
    <3>1. t + 1 \in 0..Len(k) /\ o + 1 \in Nat
      BY <2>9, <1>1
    <3> QED
      BY <2>9, <3>1, SpaceRecord
  <2>11a. NextPlace(s, CutMiddle(s, t))
    <3>1. o + 1 \in Extent(right) /\ t + 1 # ListHead
      BY <2>4, <1>1 DEF Extent, ListHead
    <3> QED
      BY <3>1, <2>6, <2>9a DEF NextPlace
  <2>12. Goal(CutMiddle(s, t))
    BY <2>6, <2>10, <2>11, <2>11a
  <2> QED
    BY <2>12, <1>8 DEF RemoveFromRange
<1> QED
  BY <1>5, <1>6, <1>7, <1>8

(* file_block_remove_from_sp takes exactly the block at the offset out of  *)
(* the list, wherever it lies, and nothing when no range holds it; the     *)
(* list stays in order and the cursor on it.                               *)
THEOREM RemoveBlockCorrect ==
    ASSUME NEW s, Space(s)
    PROVE  /\ Space(RemoveBlock(s))
           /\ BlocksOf(RemoveBlock(s).list) = BlocksOf(s.list) \ {s.offset}
           /\ OnRange(s) => NextPlace(s, RemoveBlock(s))
<1> DEFINE l == s.list
           o == s.offset
           I == { i \in 1..Len(l) : l[i].start <= o /\ o <= l[i].end }
           t == IF I # {} THEN Min(I) ELSE 0
           here == s.cur # ListHead /\ l[s.cur].start <= o /\ o <= l[s.cur].end
           u == IF here THEN s.cur ELSE t
<1>1. RemoveBlock(s) = IF u = 0 THEN s ELSE RemoveFromRange(s, u)
  BY DEF RemoveBlock, SelectInSeq
<1>2. /\ l \in Lists /\ s.cur \in 0..Len(l) /\ o \in Nat /\ Len(l) \in Nat
      /\ \A j \in 1..Len(l) : l[j].start \in Nat /\ l[j].end \in Nat
  BY CellsOfLists DEF Space
<1>3. /\ t \in 0..Len(l)
      /\ t = 0 => I = {}
      /\ t # 0 => t \in I /\ t \in 1..Len(l)
  <2>1. I \subseteq 1..Len(l)
    OBVIOUS
  <2> HIDE DEF I, l
  <2> QED
    BY <2>1, <1>2, FirstCell
<1> HIDE DEF t
<1>4. u # 0 => u \in 1..Len(l) /\ l[u].start <= o /\ o <= l[u].end
  BY <1>2, <1>3 DEF ListHead
<1>5. CASE u = 0
  <2>1. I = {}
    BY <1>3, <1>5 DEF ListHead
  <2>2. o \notin BlocksOf(l)
    <3>1. \A i \in 1..Len(l) : o \notin l[i].start .. l[i].end
      BY <2>1, <1>2
    <3> QED
      BY <3>1, <1>2, BlockInList DEF Lists
  <2>3. ~OnRange(s)
    <3>1. ~here
      BY <1>5 DEF ListHead
    <3> QED
      BY <3>1, <1>2 DEF OnRange, Extent, ListHead
  <2> QED
    BY <2>2, <2>3, <1>1, <1>5
<1>6. CASE u # 0
  <2>1. OnRange(s) => u = s.cur
    BY <1>2 DEF OnRange, Extent, ListHead
  <2> HIDE DEF u
  <2> QED
    BY <2>1, <1>1, <1>4, <1>6, RemoveFromRangeCorrect
<1> QED
  BY <1>5, <1>6

-----------------------------------------------------------------------------
(* The fragments of a file                                                 *)

Fragment == [start : Nat, end : Nat, data : {0, 1}]

(* The fragments of a file share no block and none is empty.               *)
Apart(loc) ==
    /\ \A i \in 1..Len(loc) : loc[i].start <= loc[i].end
    /\ \A i, j \in 1..Len(loc) : i # j => Extent(loc[i]) \cap Extent(loc[j]) = {}

(* The fragments of a list have numbers for their ends.                    *)
LEMMA FragmentCells ==
    ASSUME NEW loc \in Seq(Fragment)
    PROVE  /\ Len(loc) \in Nat /\ DOMAIN loc = 1..Len(loc)
           /\ \A i \in 1..Len(loc) :
                 /\ loc[i] \in Fragment
                 /\ loc[i].start \in Nat /\ loc[i].end \in Nat
                 /\ loc[i].data \in {0, 1}
<1>1. Len(loc) \in Nat /\ DOMAIN loc = 1..Len(loc)
  BY LenProperties
<1>2. \A i \in 1..Len(loc) : loc[i] \in Fragment
  BY ElementOfSeq
<1> QED
  BY <1>1, <1>2 DEF Fragment

(* A block is in a list if it is in the extent of one of its cells.        *)
LEMMA BlockInCells ==
    ASSUME NEW S, NEW l \in Seq(S), NEW b
    PROVE  b \in BlocksOf(l) <=> \E i \in 1..Len(l) : b \in Extent(l[i])
  BY BlockInList DEF Extent

(* No cells, no blocks.                                                    *)
LEMMA NoCellsNoBlocks == BlocksOf(<<>>) = {}
  BY DEF BlocksOf

(* The first fragment and the others.                                      *)
LEMMA FirstAndRest ==
    ASSUME NEW loc \in Seq(Fragment), Apart(loc), loc # <<>>
    PROVE  /\ loc[1] \in Fragment /\ loc[1].start <= loc[1].end
           /\ loc[1].start \in Nat /\ loc[1].end \in Nat
           /\ Tail(loc) \in Seq(Fragment) /\ Apart(Tail(loc))
           /\ BlocksOf(loc) = Extent(loc[1]) \cup BlocksOf(Tail(loc))
           /\ Extent(loc[1]) \cap BlocksOf(Tail(loc)) = {}
<1> DEFINE m == Tail(loc)
<1>1. /\ m \in Seq(Fragment) /\ Len(m) = Len(loc) - 1
      /\ \A i \in 1..Len(m) : m[i] = loc[i + 1]
  BY HeadTailProperties, EmptySeq
<1>2. Len(loc) \in Nat /\ Len(loc) # 0
  BY FragmentCells, EmptySeq
<1>3. 1 \in 1..Len(loc)
  BY <1>2
<1> HIDE DEF m
<1>4. \A i \in 1..Len(m) : i + 1 \in 1..Len(loc) /\ i + 1 # 1
  BY <1>1, <1>2
<1>5. Apart(m)
  <2>1. \A i \in 1..Len(m) : m[i].start <= m[i].end
    BY <1>1, <1>4 DEF Apart
  <2>2. ASSUME NEW i \in 1..Len(m), NEW j \in 1..Len(m), i # j
        PROVE  Extent(m[i]) \cap Extent(m[j]) = {}
    <3>1. i + 1 # j + 1
      BY <2>2, <1>1, <1>2
    <3>2. m[i] = loc[i + 1] /\ m[j] = loc[j + 1]
      BY <1>1
    <3> QED
      BY <3>1, <3>2, <1>4 DEF Apart
  <2> QED
    BY <2>1, <2>2 DEF Apart
<1>6. ASSUME NEW i \in 1..Len(loc), i # 1
      PROVE  \E j \in 1..Len(m) : m[j] = loc[i]
  <2>1. i - 1 \in 1..Len(m) /\ (i - 1) + 1 = i
    BY <1>1, <1>2, <1>6
  <2> QED
    BY <2>1, <1>1
<1>7. ASSUME NEW b
      PROVE  b \in BlocksOf(loc) <=> b \in Extent(loc[1]) \cup BlocksOf(m)
  <2>1. b \in BlocksOf(loc) <=> \E i \in 1..Len(loc) : b \in Extent(loc[i])
    BY BlockInCells
  <2>2. b \in BlocksOf(m) <=> \E i \in 1..Len(m) : b \in Extent(m[i])
    BY <1>1, BlockInCells
  <2> QED
    BY <2>1, <2>2, <1>1, <1>3, <1>4, <1>6
<1>8. ASSUME NEW b \in Extent(loc[1]) PROVE b \notin BlocksOf(m)
  <2>1. \A i \in 1..Len(m) : b \notin Extent(m[i])
    BY <1>1, <1>3, <1>4, <1>8 DEF Apart
  <2> QED
    BY <2>1, <1>1, BlockInCells
<1>9. loc[1] \in Fragment /\ loc[1].start <= loc[1].end
      /\ loc[1].start \in Nat /\ loc[1].end \in Nat
  BY <1>3, FragmentCells DEF Apart
<1> QED
  BY <1>1, <1>5, <1>7, <1>8, <1>9 DEF m

(* A list with one more cell has one more extent.                          *)
LEMMA AppendedCell ==
    ASSUME NEW S, NEW l \in Seq(S), NEW e \in S
    PROVE  /\ Append(l, e) \in Seq(S)
           /\ Len(Append(l, e)) = Len(l) + 1
           /\ \A i \in 1..Len(l) : Append(l, e)[i] = l[i]
           /\ Append(l, e)[Len(l) + 1] = e
           /\ BlocksOf(Append(l, e)) = BlocksOf(l) \cup Extent(e)
<1> DEFINE m == Append(l, e)
<1>1. /\ m \in Seq(S) /\ Len(m) = Len(l) + 1
      /\ \A i \in 1..Len(l) : m[i] = l[i]
      /\ m[Len(l) + 1] = e
  BY AppendProperties
<1>2. Len(l) \in Nat
  BY LenProperties
<1> HIDE DEF m
<1>3. ASSUME NEW b
      PROVE  b \in BlocksOf(m) <=> b \in BlocksOf(l) \cup Extent(e)
  <2>1. b \in BlocksOf(m) <=> \E i \in 1..(Len(l) + 1) : b \in Extent(m[i])
    BY <1>1, BlockInCells
  <2>2. b \in BlocksOf(l) <=> \E i \in 1..Len(l) : b \in Extent(l[i])
    BY BlockInCells
  <2>3. \A i \in 1..(Len(l) + 1) : i \in 1..Len(l) \/ i = Len(l) + 1
    BY <1>2
  <2>4. /\ Len(l) + 1 \in 1..(Len(l) + 1)
        /\ \A i \in 1..Len(l) : i \in 1..(Len(l) + 1)
    BY <1>2
  <2> QED
    BY <2>1, <2>2, <2>3, <2>4, <1>1
<1> QED
  BY <1>1, <1>3 DEF m

(* file_block_append adds a block the file does not have to its fragments. *)
LEMMA AddToFileCorrect ==
    ASSUME NEW loc \in Seq(Fragment), Apart(loc),
           NEW block \in Nat, block \notin BlocksOf(loc), NEW data \in {0, 1}
    PROVE  /\ AddToFile(loc, block, data) \in Seq(Fragment)
           /\ Apart(AddToFile(loc, block, data))
           /\ BlocksOf(AddToFile(loc, block, data)) = BlocksOf(loc) \cup {block}
<1> DEFINE n == Len(loc)
           joins == loc[n].end + 1 = block /\ loc[n].data = data
           e == [start |-> block, end |-> block, data |-> data]
           g == [start |-> loc[n].start, end |-> block, data |-> loc[n].data]
<1>1. /\ n \in Nat
      /\ \A i \in 1..n : /\ loc[i] \in Fragment
                         /\ loc[i].start \in Nat /\ loc[i].end \in Nat
                         /\ loc[i].data \in {0, 1}
  BY FragmentCells
<1>2. /\ \A i \in 1..n : loc[i].start <= loc[i].end
      /\ \A i, j \in 1..n : i # j => Extent(loc[i]) \cap Extent(loc[j]) = {}
      /\ \A i \in 1..n : block \notin Extent(loc[i])
  BY BlockInCells DEF Apart
<1>3. CASE loc # <<>> /\ joins
  <2> DEFINE m == [loc EXCEPT ![n] = g]
  <2>1. n \in 1..n
    BY <1>1, <1>3, EmptySeq
  <2>2. g = [loc[n] EXCEPT !.end = block]
    BY <1>1, <2>1 DEF Fragment
  <2>3. AddToFile(loc, block, data) = m
    <3>1. AddToFile(loc, block, data) = [loc EXCEPT ![n].end = block]
      BY <1>3 DEF AddToFile, Last
    <3>2. [loc EXCEPT ![n].end = block] =
             [loc EXCEPT ![n] = [loc[n] EXCEPT !.end = block]]
      OBVIOUS
    <3> QED
      BY <3>1, <3>2, <2>2
  <2>4. g \in Fragment /\ g.start = loc[n].start /\ g.end = block
    BY <1>1, <2>1 DEF Fragment
  <2> HIDE DEF g
  <2>5. /\ m \in Seq(Fragment) /\ Len(m) = n
        /\ \A i \in 1..n : m[i] = IF i = n THEN g ELSE loc[i]
    BY <2>1, <2>4, ExceptCells
  <2> HIDE DEF m
  <2>6. Extent(g) = Extent(loc[n]) \cup {block} /\ g.start <= g.end
    BY <2>1, <2>4, <1>1, <1>2, <1>3 DEF Extent
  <2>7. \A i \in 1..n : m[i].start <= m[i].end
    BY <2>5, <2>6, <1>2
  <2>8. ASSUME NEW i \in 1..n, NEW j \in 1..n, i # j
        PROVE  Extent(m[i]) \cap Extent(m[j]) = {}
    <3>1. /\ Extent(loc[i]) \cap Extent(loc[j]) = {}
          /\ block \notin Extent(loc[i]) /\ block \notin Extent(loc[j])
      BY <2>8, <1>2
    <3>2. CASE i = n
      BY <3>1, <3>2, <2>5, <2>6, <2>8
    <3>3. CASE j = n
      BY <3>1, <3>3, <2>5, <2>6, <2>8
    <3>4. CASE i # n /\ j # n
      BY <3>1, <3>4, <2>5
    <3> QED
      BY <3>2, <3>3, <3>4
  <2>9. Apart(m)
    BY <2>5, <2>7, <2>8 DEF Apart
  <2>10. ASSUME NEW b
         PROVE  b \in BlocksOf(m) <=> b \in BlocksOf(loc) \cup {block}
    <3>1. b \in BlocksOf(m) <=> \E i \in 1..n : b \in Extent(m[i])
      BY <2>5, BlockInCells
    <3>2. b \in BlocksOf(loc) <=> \E i \in 1..n : b \in Extent(loc[i])
      BY BlockInCells
    <3> QED
      BY <3>1, <3>2, <2>1, <2>5, <2>6
  <2> QED
    BY <2>3, <2>5, <2>9, <2>10
<1>4. CASE ~(loc # <<>> /\ joins)
  <2> DEFINE m == Append(loc, e)
  <2>1. AddToFile(loc, block, data) = m
    BY <1>4 DEF AddToFile, Last
  <2>2. e \in Fragment /\ Extent(e) = {block} /\ e.start <= e.end
    BY DEF Fragment, Extent
  <2> HIDE DEF e
  <2>3. /\ m \in Seq(Fragment) /\ Len(m) = n + 1
        /\ \A i \in 1..n : m[i] = loc[i]
        /\ m[n + 1] = e
        /\ BlocksOf(m) = BlocksOf(loc) \cup {block}
    BY <2>2, AppendedCell
  <2> HIDE DEF m
  <2>4. \A i \in 1..(n + 1) : i \in 1..n \/ i = n + 1
    BY <1>1
  <2>5. \A i \in 1..(n + 1) : m[i].start <= m[i].end
    BY <2>2, <2>3, <2>4, <1>2
  <2>6. ASSUME NEW i \in 1..(n + 1), NEW j \in 1..(n + 1), i # j
        PROVE  Extent(m[i]) \cap Extent(m[j]) = {}
    <3>1. CASE i \in 1..n /\ j \in 1..n
      BY <3>1, <2>3, <2>6, <1>2
    <3>2. CASE i = n + 1 /\ j \in 1..n
      <4>1. block \notin Extent(m[j]) /\ Extent(m[i]) = {block}
        BY <3>2, <2>2, <2>3, <1>2
      <4> QED
        BY <4>1
    <3>3. CASE i \in 1..n /\ j = n + 1
      <4>1. block \notin Extent(m[i]) /\ Extent(m[j]) = {block}
        BY <3>3, <2>2, <2>3, <1>2
      <4> QED
        BY <4>1
    <3> QED
      BY <3>1, <3>2, <3>3, <2>4, <2>6
  <2>7. Apart(m)
    BY <2>3, <2>5, <2>6 DEF Apart
  <2> QED
    BY <2>1, <2>3, <2>7
<1> QED
  BY <1>3, <1>4

-----------------------------------------------------------------------------
(* Walking                                                                 *)

(* A nonempty set of cells has a last one.                                 *)
LEMMA MaxOfCells ==
    ASSUME NEW n \in Nat, NEW I, I \subseteq 0..n, I # {}
    PROVE  Max(I) \in I /\ \A j \in I : Max(I) >= j
<1> DEFINE J == { k \in 0..n : n - k \in I }
<1>1. J \subseteq Nat /\ J # {}
  <2>1. PICK i \in I : TRUE
    OBVIOUS
  <2>2. n - i \in 0..n /\ n - (n - i) = i
    BY <2>1
  <2>3. n - i \in J
    BY <2>1, <2>2
  <2> QED
    BY <2>3
<1>2. Min(J) \in J /\ \A j \in J : Min(J) <= j
  BY <1>1, MinOfCells
<1> DEFINE m == n - Min(J)
<1>3. m \in I /\ m \in 0..n
  BY <1>2
<1>4. ASSUME NEW j \in I PROVE m >= j
  <2>1. j \in 0..n /\ n - j \in 0..n /\ n - (n - j) = j
    OBVIOUS
  <2>2. n - j \in J
    BY <2>1
  <2>3. Min(J) <= n - j /\ Min(J) \in 0..n
    BY <2>2, <1>2
  <2> HIDE DEF J
  <2> QED
    BY <2>1, <2>3
<1> HIDE DEF m
<1> QED
  BY <1>3, <1>4 DEF Max

(* The cell a search from the tail ends at.                                *)
LEMMA LastCell ==
    ASSUME NEW n \in Nat, NEW I, I \subseteq 0..n,
           NEW t, t = IF I # {} THEN Max(I) ELSE 0
    PROVE  t \in 0..n /\ (I # {} => t \in I)
<1>1. CASE I = {}
  BY <1>1
<1>2. CASE I # {}
  <2>1. Max(I) \in I
    BY <1>2, MaxOfCells
  <2>2. t = Max(I)
    BY <1>2
  <2> QED
    BY <2>1, <2>2
<1> QED
  BY <1>1, <1>2

(* s with its position elsewhere.                                          *)
Placed(s, c, o) == [s EXCEPT !.cur = c, !.offset = o]

(* Moving the position keeps a space a space.                              *)
LEMMA Moved ==
    ASSUME NEW s, Space(s), NEW c \in 0..Len(s.list), NEW o \in Nat
    PROVE  /\ Space(Placed(s, c, o))
           /\ Placed(s, c, o).list = s.list
           /\ Placed(s, c, o).offset = o
           /\ Placed(s, c, o).cur = c
<1>1. /\ s \in [list : Lists, cur : Nat, offset : Nat]
      /\ s.list \in Lists /\ Ordered(s.list) /\ Len(s.list) \in Nat
  BY CellsOfLists DEF Space
<1>2. c \in Nat
  BY <1>1
<1> DEFINE n == Placed(s, c, o)
<1>3. /\ n \in [list : Lists, cur : Nat, offset : Nat]
      /\ n.list = s.list /\ n.offset = o /\ n.cur = c
  BY <1>1, <1>2 DEF Placed
<1> HIDE DEF n
<1>4. Space(n)
  BY <1>1, <1>3 DEF Space
<1> QED
  BY <1>3, <1>4 DEF n

(* To the start of a cell, or past the tail.                               *)
LEMMA MovedTo ==
    ASSUME NEW s, Space(s), NEW c \in 0..Len(s.list)
    PROVE  /\ Space(MoveTo(s, c))
           /\ MoveTo(s, c).list = s.list
           /\ MoveTo(s, c).offset = StartOf(s.list, c)
<1>1. s.list \in Lists /\ Len(s.list) \in Nat
  BY CellsOfLists DEF Space
<1>2. StartOf(s.list, c) \in Nat
  BY <1>1, CellsOfLists DEF StartOf, ListHead
<1>3. MoveTo(s, c) = Placed(s, c, StartOf(s.list, c))
  BY DEF MoveTo, Placed
<1> QED
  BY <1>2, <1>3, Moved

(* get_next_sector changes the position only.                              *)
LEMMA GetNextSectorCorrect ==
    ASSUME NEW s, Space(s)
    PROVE  Space(GetNextSector(s)) /\ GetNextSector(s).list = s.list
<1>1. /\ s \in [list : Lists, cur : Nat, offset : Nat]
      /\ s.list \in Lists /\ Ordered(s.list) /\ Len(s.list) \in Nat
      /\ s.cur \in 0..Len(s.list)
  BY CellsOfLists DEF Space
<1>2. CASE s.cur = ListHead
  BY <1>2 DEF GetNextSector
<1>3. CASE s.cur # ListHead /\ s.offset + 1 <= s.list[s.cur].end
  <2> DEFINE n == [s EXCEPT !.offset = @ + 1]
  <2>1. /\ n \in [list : Lists, cur : Nat, offset : Nat]
        /\ n.list = s.list /\ n.cur = s.cur
    BY <1>1
  <2> HIDE DEF n
  <2>2. Space(n)
    BY <2>1, <1>1 DEF Space
  <2>3. GetNextSector(s) = n
    BY <1>3 DEF GetNextSector, n
  <2> QED
    BY <2>1, <2>2, <2>3
<1>4. CASE s.cur # ListHead /\ ~(s.offset + 1 <= s.list[s.cur].end)
  <2>1. NextEntry(s.list, s.cur) \in 0..Len(s.list)
    BY <1>1 DEF NextEntry, ListHead
  <2>2. GetNextSector(s) = MoveTo(s, NextEntry(s.list, s.cur))
    BY <1>4 DEF GetNextSector
  <2> QED
    BY <2>1, <2>2, MovedTo
<1> QED
  BY <1>2, <1>3, <1>4

(* get_prev_file_header finds a cell of the list, if any.                  *)
LEMMA PrevFileHeaderCell ==
    ASSUME NEW s, Space(s)
    PROVE  /\ PrevFileHeader(s) \in 0..Len(s.list)
           /\ PrevFileHeader(s) < Behind(s.list, s.cur)
<1>1. Len(s.list) \in Nat /\ s.cur \in 0..Len(s.list)
  BY CellsOfLists DEF Space
<1> DEFINE from == Behind(s.list, s.cur)
           passed(i) == { j \in 1..Len(s.list) : i < j /\ j < from }
           near == { i \in 1..(from - 1) :
                       /\ from - i <= BackRanges
                       /\ MapThenSumSet(LAMBDA j : Size(s.list[j]), passed(i))
                               < BackBlocks
                       /\ s.list[i].stat # NoStat }
<1>2. from \in 1..(Len(s.list) + 1)
  BY <1>1 DEF Behind, ListHead
<1>3. near \subseteq 1..(from - 1)
  OBVIOUS
<1>4. PrevFileHeader(s) = IF near # {} THEN Max(near) ELSE 0
  BY DEF PrevFileHeader
<1> HIDE DEF near
<1>5. from - 1 \in Nat /\ near \subseteq 0..(from - 1)
  BY <1>1, <1>2, <1>3
<1>6. PrevFileHeader(s) \in 0..(from - 1)
  BY <1>4, <1>5, LastCell
<1> QED
  BY <1>1, <1>2, <1>6

(* Where get_prev_location_smart leaves the position: where it was, on the *)
(* skipped header, at the skipped header but on a range that starts before *)
(* it or before the last file, or at the very first block.                 *)
SmartPlace(s, skipped, start, n) ==
    \/ n = s
    \/ /\ skipped # 0 /\ n.cur \in 1..Len(s.list) /\ n.offset = skipped
       /\ LET r == s.list[n.cur]
          IN  \/ r.start <= skipped /\ skipped <= r.end
              \/ r.start < start
              \/ r.start < skipped
    \/ /\ n.cur = 1 /\ 1 \in 1..Len(s.list)
       /\ n.offset = s.list[1].start /\ skipped # 0

(* get_prev_location_smart changes the position only.                      *)
LEMMA PrevLocationSmartCorrect ==
    ASSUME NEW s, Space(s), NEW skipped \in Nat, NEW start \in Nat
    PROVE  /\ Space(PrevLocationSmart(s, skipped, start))
           /\ PrevLocationSmart(s, skipped, start).list = s.list
           /\ SmartPlace(s, skipped, start, PrevLocationSmart(s, skipped, start))
<1> DEFINE l == s.list
           holds(r) == r.start <= skipped /\ skipped <= r.end
           from == Behind(l, s.cur)
           I == { i \in 1..(from - 1) : holds(l[i]) \/ l[i].start < start }
           first == IF I # {} THEN Max(I) ELSE 0
           again == Behind(l, first)
           J == { i \in 1..(again - 1) : \/ l[i].start < start
                                         \/ l[i].start < skipped }
           second == IF J # {} THEN Max(J) ELSE 0
<1>1. Len(l) \in Nat /\ s.cur \in 0..Len(l)
  BY CellsOfLists DEF Space
<1>2. PrevLocationSmart(s, skipped, start) =
         IF skipped = 0 THEN s
         ELSE IF first # 0 /\ holds(l[first])
              THEN Placed(s, first, skipped)
         ELSE IF second # 0 THEN Placed(s, second, skipped)
         ELSE IF again > 1 THEN MoveTo(s, 1) ELSE s
  BY DEF PrevLocationSmart, SelectLastInSubSeq, Placed
<1>3. first \in 0..Len(l)
  <2>1. from \in 1..(Len(l) + 1) /\ I \subseteq 1..(from - 1)
    BY <1>1 DEF Behind, ListHead
  <2> HIDE DEF I, from, l
  <2>2. I \subseteq 0..Len(l)
    BY <2>1, <1>1
  <2> QED
    BY <2>2, <1>1, LastCell
<1> HIDE DEF first
<1>4. /\ second \in 0..Len(l)
      /\ second # 0 => \/ l[second].start < start
                       \/ l[second].start < skipped
  <2>0. \A i \in J : l[i].start < start \/ l[i].start < skipped
    OBVIOUS
  <2>1. again \in 1..(Len(l) + 1) /\ J \subseteq 1..(again - 1)
    BY <1>1, <1>3 DEF Behind, ListHead
  <2> HIDE DEF J, again, l
  <2>2. J \subseteq 0..Len(l)
    BY <2>1, <1>1
  <2>3. J # {} => second \in J
    BY <2>2, <1>1, LastCell
  <2> QED
    BY <2>0, <2>2, <2>3, <1>1, LastCell
<1> HIDE DEF second
<1>5. again > 1 => 1 \in 1..Len(l)
  BY <1>1, <1>3 DEF Behind, ListHead
<1> HIDE DEF again
<1>6. CASE skipped = 0
  BY <1>2, <1>6 DEF SmartPlace
<1>7. CASE skipped # 0 /\ first # 0 /\ holds(l[first])
  <2>1. first \in 1..Len(l)
    BY <1>1, <1>3, <1>7
  <2> DEFINE n == Placed(s, first, skipped)
  <2>2. Space(n) /\ n.list = l /\ n.cur = first /\ n.offset = skipped
    BY <1>3, Moved
  <2>3. PrevLocationSmart(s, skipped, start) = n
    BY <1>2, <1>7
  <2> HIDE DEF n
  <2> QED
    BY <2>1, <2>2, <2>3, <1>7 DEF SmartPlace
<1>8. CASE skipped # 0 /\ ~(first # 0 /\ holds(l[first])) /\ second # 0
  <2>1. second \in 1..Len(l)
    BY <1>1, <1>4, <1>8
  <2> DEFINE n == Placed(s, second, skipped)
  <2>2. Space(n) /\ n.list = l /\ n.cur = second /\ n.offset = skipped
    BY <1>4, Moved
  <2>3. PrevLocationSmart(s, skipped, start) = n
    BY <1>2, <1>8
  <2> HIDE DEF n, holds
  <2> QED
    BY <2>1, <2>2, <2>3, <1>4, <1>8 DEF SmartPlace
<1>9. CASE skipped # 0 /\ ~(first # 0 /\ holds(l[first])) /\ second = 0
  <2>1. CASE again > 1
    <3> DEFINE n == Placed(s, 1, StartOf(l, 1))
    <3>1. 1 \in 1..Len(l) /\ 1 \in 0..Len(l) /\ StartOf(l, 1) = l[1].start
      BY <2>1, <1>1, <1>5 DEF StartOf, ListHead
    <3>2. StartOf(l, 1) \in Nat
      BY <3>1, CellsOfLists DEF Space
    <3>3. Space(n) /\ n.list = l /\ n.cur = 1 /\ n.offset = l[1].start
      BY <3>1, <3>2, Moved
    <3>4. PrevLocationSmart(s, skipped, start) = n
      BY <1>2, <1>9, <2>1 DEF MoveTo, Placed
    <3> HIDE DEF n, holds
    <3> QED
      BY <3>1, <3>3, <3>4, <1>9 DEF SmartPlace
  <2>2. CASE ~(again > 1)
    BY <2>2, <1>2, <1>9 DEF SmartPlace
  <2> QED
    BY <2>1, <2>2
<1> QED
  BY <1>6, <1>7, <1>8, <1>9

(* forget() drops the first cells and nothing else.                        *)
LEMMA ForgetCorrect ==
    ASSUME NEW s, Space(s)
    PROVE  /\ Space(Forget(s))
           /\ BlocksOf(Forget(s).list) \subseteq BlocksOf(s.list)
           /\ Forget(s).offset = s.offset
           /\ Forget(s).cur = ListHead <=> s.cur = ListHead
           /\ s.cur # ListHead => Forget(s).list[Forget(s).cur] = s.list[s.cur]
<1> DEFINE l == s.list
           d == ForgottenCells(s)
           m == SubSeq(l, d + 1, Len(l))
<1>1. /\ s \in [list : Lists, cur : Nat, offset : Nat]
      /\ l \in Lists /\ Ordered(l) /\ Len(l) \in Nat /\ DOMAIN l = 1..Len(l)
      /\ s.cur \in 0..Len(l)
  BY CellsOfLists DEF Space
<1>2. d \in 0..s.cur /\ d \in 0..Len(l) /\ (d < s.cur \/ s.cur = ListHead)
  BY <1>1, ForgetAssumption DEF ForgottenCells, ListHead
<1> HIDE DEF d
<1>3. /\ m \in Lists /\ Len(m) = Len(l) - d
      /\ \A i \in 1..(Len(l) - d) : m[i] = l[d + i]
  <2>1. \A i \in (d + 1)..Len(l) : l[i] \in RangeType
    BY <1>1, <1>2, CellsOfLists
  <2> HIDE DEF l
  <2>2. Len(l) \in Nat /\ d \in Nat /\ d <= Len(l) /\ d + 1 \in Int /\ Len(l) \in Int
    BY <1>1, <1>2
  <2>3. /\ m \in Seq(RangeType)
        /\ Len(m) = IF d + 1 <= Len(l) THEN Len(l) - (d + 1) + 1 ELSE 0
        /\ \A i \in 1 .. Len(l) - (d + 1) + 1 : m[i] = l[d + 1 + i - 1]
    BY <2>1, <2>2, SubSeqProperties
  <2> HIDE DEF m
  <2>4. Len(m) = Len(l) - d
    BY <2>2, <2>3
  <2>5. \A i \in 1 .. Len(l) - d : m[i] = l[d + i]
    <3> TAKE i \in 1 .. Len(l) - d
    <3>1. i \in 1 .. Len(l) - (d + 1) + 1 /\ d + 1 + i - 1 = d + i
      BY <2>2
    <3> QED
      BY <2>3, <3>1
  <2> QED
    BY <2>3, <2>4, <2>5 DEF Lists
<1> HIDE DEF m
<1>4. \A i \in 1..Len(m) : d + i \in 1..Len(l)
  BY <1>1, <1>2, <1>3
<1>5. Ordered(m)
  <2>1. DOMAIN m = 1..Len(m)
    BY <1>3, CellsOfLists
  <2>2. /\ \A j \in 1..Len(l) : l[j].start <= l[j].end
        /\ \A i, j \in 1..Len(l) : i < j => l[i].end < l[j].start
    BY <1>1 DEF Ordered
  <2>3. \A i, j \in 1..Len(m) : i < j => d + i < d + j
    BY <1>1, <1>2, <1>3
  <2> QED
    BY <2>1, <2>2, <2>3, <1>3, <1>4 DEF Ordered
<1>6. ASSUME NEW b \in BlocksOf(m) PROVE b \in BlocksOf(l)
  <2>1. PICK i \in 1..Len(m) : b \in Extent(m[i])
    BY <1>3, BlockInCells DEF Lists
  <2>2. b \in Extent(l[d + i])
    BY <2>1, <1>3
  <2> QED
    BY <2>2, <1>1, <1>4, BlockInCells DEF Lists
<1>7. s.cur - d \in 0..Len(m) /\ s.offset \in Nat
  BY <1>1, <1>2, <1>3
<1>8. Forget(s) = [list |-> m, cur |-> s.cur - d, offset |-> s.offset]
  <2>1. Forget(s) = [s EXCEPT !.list = m, !.cur = s.cur - d]
    BY DEF Forget, m, d
  <2>2. m \in Lists /\ s.cur - d \in Int
    BY <1>1, <1>2, <1>3
  <2> QED
    BY <2>1, <2>2, <1>1
<1>9. Space([list |-> m, cur |-> s.cur - d, offset |-> s.offset])
  BY <1>3, <1>5, <1>7, SpaceRecord
<1>10. s.cur - d = ListHead <=> s.cur = ListHead
  BY <1>1, <1>2 DEF ListHead
<1>11. s.cur # ListHead => m[s.cur - d] = l[s.cur]
  <2>1. s.cur # ListHead => s.cur - d \in 1..(Len(l) - d) /\ d + (s.cur - d) = s.cur
    BY <1>1, <1>2 DEF ListHead
  <2> QED
    BY <2>1, <1>3
<1> QED
  BY <1>6, <1>8, <1>9, <1>10, <1>11
=============================================================================
