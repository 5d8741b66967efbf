-------------------------- MODULE PreparationProofs -------------------------
(***************************************************************************)
(* The search space before the first pass: what is cut out of it, in the   *)
(* order the code cuts it, is exactly the extent asked for, ranges are     *)
(* rounded to blocks without losing one, and blocks begin where headers    *)
(* were found.                                                             *)
(***************************************************************************)
EXTENDS Preparation, SearchSpaceProofs

-----------------------------------------------------------------------------
(* Removing an extent                                                      *)

Unmarked(l) == \A i \in 1..Len(l) : l[i].stat = NoStat

(* The ranges that begin with a header begin at places of H.               *)
MarkedIn(l, H) == \A i \in 1..Len(l) : l[i].stat # NoStat => l[i].start \in H

(* m is l without the extent.                                              *)
Removed(l, m, start, end) ==
    /\ m \in Lists /\ Ordered(m)
    /\ BlocksOf(m) = BlocksOf(l) \ (start..end)
    /\ Unmarked(l) => Unmarked(m)

(* A range is touched if it has a byte of the extent.                      *)
LEMMA TouchesIs ==
    ASSUME NEW r \in RangeType, r.start <= r.end,
           NEW start \in Nat, NEW end \in Int, start <= end
    PROVE  Touches(r, start, end) <=> r.start <= end /\ start <= r.end
BY DEF Touches, RangeType

(* The first range met that is touched is the last one of the list.        *)
LastTouched(l, start, end) == SelectLastInSeq(l, LAMBDA r : Touches(r, start, end))

LEMMA LastTouchedIs ==
    ASSUME NEW l \in Lists, NEW start, NEW end
    PROVE  LET t == LastTouched(l, start, end)
           IN  /\ t \in 0..Len(l)
               /\ t # 0 => t \in 1..Len(l) /\ Touches(l[t], start, end)
               /\ \A j \in 1..Len(l) : t < j => ~Touches(l[j], start, end)
<1> DEFINE I == { i \in 1..Len(l) : Touches(l[i], start, end) }
           t == LastTouched(l, start, end)
<1>1. t = IF I # {} THEN Max(I) ELSE 0
  BY DEF LastTouched, SelectLastInSeq
<1>2. Len(l) \in Nat /\ I \subseteq 0..Len(l)
  BY CellsOfLists
<1>3. \A i : i \in I <=> i \in 1..Len(l) /\ Touches(l[i], start, end)
  OBVIOUS
<1> HIDE DEF t, I
<1>4. CASE I = {}
  BY <1>1, <1>2, <1>3, <1>4 DEF t
<1>5. CASE I # {}
  <2>1. Max(I) \in I /\ \A j \in I : Max(I) >= j
    BY <1>2, <1>5, MaxOfCells
  <2>2. t = Max(I)
    BY <1>1, <1>5
  <2>3. t \in 1..Len(l) /\ Touches(l[t], start, end)
    BY <1>3, <2>1, <2>2
  <2>4. ASSUME NEW j \in 1..Len(l), t < j, Touches(l[j], start, end) PROVE FALSE
    <3>1. j \in I
      BY <1>3, <2>4
    <3> QED
      BY <1>2, <2>1, <2>2, <2>3, <2>4, <3>1
  <2> QED
    BY <1>2, <2>3, <2>4 DEF t
<1> QED
  BY <1>4, <1>5

(* What the calls within a call leave, up to extents of n bytes; and when  *)
(* the extent begins a range and ends in it.                               *)
Correct(Called, n) ==
    \A l \in Lists, s \in Nat, e \in Int :
        Ordered(l) /\ e - s + 1 <= n => Removed(l, Called[<< l, s, e >>], s, e)

AtOnce(Called) ==
    \A l \in Lists, s \in Nat, e \in Int, t \in Nat :
        /\ Ordered(l) /\ s <= e
        /\ t \in 1..Len(l) /\ l[t].start = s /\ e < l[t].end
        => Removed(l, Called[<< l, s, e >>], s, e)

(* A range is shortened at its start.                                      *)
LEMMA ShortenStart ==
    ASSUME NEW l \in Lists, Ordered(l), NEW t \in 1..Len(l),
           NEW start \in Nat, NEW end \in Int, start <= end,
           l[t].start = start, end < l[t].end
    PROVE  LET m == [l EXCEPT ![t] = [start |-> end + 1, end |-> l[t].end, stat |-> NoStat]]
           IN  Removed(l, m, start, end)
<1> DEFINE r == l[t]
           q == [start |-> end + 1, end |-> r.end, stat |-> NoStat]
           m == [l EXCEPT ![t] = q]
<1>1. /\ Len(l) \in Nat /\ DOMAIN l = 1..Len(l)
      /\ \A i \in 1..Len(l) : l[i] \in RangeType /\ l[i].start \in Nat /\ l[i].end \in Nat
      /\ \A i \in 1..Len(l) : l[i].start <= l[i].end
  BY CellsOfLists DEF Ordered
<1>2. q \in RangeType /\ q.start = end + 1 /\ q.end = r.end /\ q.stat = NoStat
  BY <1>1 DEF RangeType
<1>5. /\ \A j \in 1..Len(l) : j < t => l[j].end < q.start
      /\ \A j \in 1..Len(l) : t < j => q.end < l[j].start
  <2>1. \A j \in 1..Len(l) : (j < t => l[j].end < r.start) /\ (t < j => r.end < l[j].start)
    BY <1>1 DEF Ordered
  <2> HIDE DEF r, q
  <2> QED
    BY <1>1, <1>2, <2>1 DEF r
<1> HIDE DEF q
<1>6. /\ m \in Lists /\ Ordered(m) /\ Len(m) = Len(l)
      /\ BlocksOf(m) = (BlocksOf(l) \ Extent(r)) \cup Extent(q)
  <2>1. q.start <= q.end
    BY <1>1, <1>2
  <2> HIDE DEF r
  <2> QED
    BY <1>2, <1>5, <2>1, ReplacedCell DEF r
<1>7. Extent(r) \subseteq BlocksOf(l)
  BY <1>1 DEF BlocksOf
<1>8. Extent(r) = r.start..r.end /\ Extent(q) = (end + 1)..r.end
  BY <1>2 DEF Extent
<1>9. BlocksOf(m) = BlocksOf(l) \ (start..end)
  <2>1. \A x : x \in Extent(q) <=> x \in Extent(r) /\ x \notin start..end
    BY <1>1, <1>8
  <2>2. \A x : x \in start..end => x \in Extent(r)
    BY <1>1, <1>8
  <2> HIDE DEF m, r
  <2> QED
    BY <1>6, <1>7, <2>1, <2>2
<1>10. Unmarked(l) => Unmarked(m)
  <2>1. \A j \in 1..Len(l) : m[j] = IF j = t THEN q ELSE l[j]
    BY <1>1
  <2> QED
    BY <1>2, <1>6, <2>1 DEF Unmarked
<1> QED
  BY <1>6, <1>9, <1>10 DEF Removed, q

(* A range is shortened at its end.                                        *)
LEMMA ShortenEnd ==
    ASSUME NEW l \in Lists, Ordered(l), NEW t \in 1..Len(l),
           NEW start \in Nat, l[t].start < start, start <= l[t].end
    PROVE  LET m == [l EXCEPT ![t].end = start - 1]
           IN  /\ Removed(l, m, start, l[t].end)
               /\ Len(m) = Len(l)
               /\ m[t].start = l[t].start /\ m[t].end = start - 1 /\ m[t].stat = l[t].stat
               /\ \A j \in 1..Len(l) : j # t => m[j] = l[j]
<1> DEFINE r == l[t]
           q == [start |-> r.start, end |-> start - 1, stat |-> r.stat]
           m == [l EXCEPT ![t] = q]
<1>1. /\ Len(l) \in Nat /\ DOMAIN l = 1..Len(l)
      /\ \A i \in 1..Len(l) : l[i] \in RangeType /\ l[i].start \in Nat /\ l[i].end \in Nat
      /\ \A i \in 1..Len(l) : l[i].start <= l[i].end
  BY CellsOfLists DEF Ordered
<1>2. q \in RangeType /\ q.start = r.start /\ q.end = start - 1 /\ q.stat = r.stat
  BY <1>1 DEF RangeType
<1>4. [l EXCEPT ![t].end = start - 1] = m
  <2>1. [r EXCEPT !.end = start - 1] = q
    BY <1>1 DEF RangeType
  <2> HIDE DEF q
  <2> QED
    BY <2>1
<1>5. /\ \A j \in 1..Len(l) : j < t => l[j].end < q.start
      /\ \A j \in 1..Len(l) : t < j => q.end < l[j].start
  <2>1. \A j \in 1..Len(l) : (j < t => l[j].end < r.start) /\ (t < j => r.end < l[j].start)
    BY <1>1 DEF Ordered
  <2> HIDE DEF r, q
  <2> QED
    BY <1>1, <1>2, <2>1 DEF r
<1> HIDE DEF q
<1>6. /\ m \in Lists /\ Ordered(m) /\ Len(m) = Len(l)
      /\ BlocksOf(m) = (BlocksOf(l) \ Extent(r)) \cup Extent(q)
  <2>1. q.start <= q.end
    BY <1>1, <1>2
  <2>2. q \in RangeType
    BY <1>2
  <2>3. /\ [l EXCEPT ![t] = q] \in Lists /\ Ordered([l EXCEPT ![t] = q])
        /\ Len([l EXCEPT ![t] = q]) = Len(l)
        /\ BlocksOf([l EXCEPT ![t] = q]) = (BlocksOf(l) \ Extent(l[t])) \cup Extent(q)
    <3> HIDE DEF r, m
    <3> QED
      BY <2>2, <1>5, <2>1, ReplacedCell
  <2> QED
    BY <2>3
<1>7. Extent(r) \subseteq BlocksOf(l)
  BY <1>1 DEF BlocksOf
<1>8. Extent(r) = r.start..r.end /\ Extent(q) = r.start..(start - 1)
  BY <1>2 DEF Extent
<1>9. BlocksOf(m) = BlocksOf(l) \ (start..r.end)
  <2>1. \A x : x \in Extent(q) <=> x \in Extent(r) /\ x \notin start..r.end
    BY <1>1, <1>8
  <2>2. \A x : x \in start..r.end => x \in Extent(r)
    BY <1>1, <1>8
  <2> HIDE DEF m, r
  <2> QED
    BY <1>6, <1>7, <2>1, <2>2
<1>11. \A j \in 1..Len(l) : m[j] = IF j = t THEN q ELSE l[j]
  BY <1>1
<1>10. Unmarked(l) => Unmarked(m)
  BY <1>2, <1>6, <1>11 DEF Unmarked
<1> QED
  BY <1>2, <1>4, <1>6, <1>9, <1>10, <1>11 DEF Removed

-----------------------------------------------------------------------------
(* An extent is removed in two parts.                                      *)
LEMMA RemovedTwice ==
    ASSUME NEW l, NEW m, NEW n, NEW a \in Int, NEW b \in Int, NEW c \in Int, NEW d \in Int,
           NEW start \in Int, NEW end \in Int,
           Removed(l, m, a, b), Removed(m, n, c, d),
           (a..b) \cup (c..d) = start..end
    PROVE  Removed(l, n, start, end)
<1>1. /\ n \in Lists /\ Ordered(n)
      /\ Unmarked(l) => Unmarked(n)
  BY DEF Removed
<1>2. BlocksOf(n) = (BlocksOf(l) \ (a..b)) \ (c..d)
  BY DEF Removed
<1>3. BlocksOf(n) = BlocksOf(l) \ ((a..b) \cup (c..d))
  BY <1>2
<1> QED
  BY <1>1, <1>3 DEF Removed

(* There is nothing to remove.                                             *)
LEMMA RemovedNothing ==
    ASSUME NEW l \in Lists, Ordered(l), NEW start \in Int, NEW end \in Int,
           BlocksOf(l) \cap (start..end) = {}
    PROVE  Removed(l, l, start, end)
<1>1. BlocksOf(l) = BlocksOf(l) \ (start..end)
  OBVIOUS
<1> QED
  BY <1>1 DEF Removed

(* A range is removed whole.                                               *)
LEMMA RemovedRange ==
    ASSUME NEW l \in Lists, Ordered(l), NEW t \in 1..Len(l)
    PROVE  Removed(l, RemoveAt(l, t), l[t].start, l[t].end)
<1>1. /\ RemoveAt(l, t) \in Lists
      /\ Len(RemoveAt(l, t)) = Len(l) - 1
      /\ Ordered(RemoveAt(l, t))
      /\ BlocksOf(RemoveAt(l, t)) = BlocksOf(l) \ Extent(l[t])
  BY RemovedCell
<1>2. /\ Len(l) \in Nat
      /\ \A j \in 1..(Len(l) - 1) :
            RemoveAt(l, t)[j] = IF j < t THEN l[j] ELSE l[j + 1]
  BY CellsOfLists, RemoveAtCells DEF Lists
<1>3. ASSUME Unmarked(l), NEW j \in 1..(Len(l) - 1)
      PROVE  RemoveAt(l, t)[j].stat = NoStat
  <2>1. j \in 1..Len(l) /\ j + 1 \in 1..Len(l)
    BY <1>2
  <2> QED
    BY <1>2, <1>3, <2>1 DEF Unmarked
<1>4. Unmarked(l) => Unmarked(RemoveAt(l, t))
  BY <1>1, <1>3 DEF Unmarked
<1> QED
  BY <1>1, <1>4 DEF Removed, Extent

(* A range is split where the extent begins.                               *)
Splits(l, t, start, stat) ==
    /\ l \in Lists /\ Ordered(l) /\ t \in 1..Len(l) /\ start \in Nat
    /\ l[t].start < start /\ start <= l[t].end /\ stat \in Stats \cup {NoStat}

IsSplit(l, m, t, q) ==
    /\ m \in Lists /\ Ordered(m) /\ BlocksOf(m) = BlocksOf(l)
    /\ \A H : MarkedIn(l, H) /\ (q.stat # NoStat => q.start \in H) => MarkedIn(m, H)
    /\ t + 1 \in 1..Len(m) /\ m[t + 1] = q

LEMMA SplitRange ==
    ASSUME NEW l, NEW t, NEW start, NEW stat, Splits(l, t, start, stat)
    PROVE  LET q == [start |-> start, end |-> l[t].end, stat |-> stat]
               m == InsertAt([l EXCEPT ![t].end = start - 1], t + 1, q)
           IN  IsSplit(l, m, t, q)
<1> DEFINE r == l[t]
           k == [l EXCEPT ![t].end = start - 1]
           q == [start |-> start, end |-> r.end, stat |-> stat]
           m == InsertAt(k, t + 1, q)
<1>0. /\ l \in Lists /\ Ordered(l) /\ t \in 1..Len(l) /\ start \in Nat
      /\ l[t].start < start /\ start <= l[t].end /\ stat \in Stats \cup {NoStat}
  BY DEF Splits
<1>1. /\ Len(l) \in Nat /\ t \in Nat /\ t <= Len(l)
      /\ \A i \in 1..Len(l) : l[i] \in RangeType /\ l[i].start \in Nat /\ l[i].end \in Nat
      /\ \A i \in 1..Len(l) : l[i].start <= l[i].end
  BY <1>0, CellsOfLists DEF Ordered
<1>2. /\ Removed(l, k, start, r.end)
      /\ Len(k) = Len(l)
      /\ k[t].start = r.start /\ k[t].end = start - 1 /\ k[t].stat = r.stat
      /\ \A j \in 1..Len(l) : j # t => k[j] = l[j]
  BY <1>0, ShortenEnd
<1>3. /\ k \in Lists /\ Ordered(k)
      /\ BlocksOf(k) = BlocksOf(l) \ (start..r.end)
  BY <1>2 DEF Removed
<1>4. q \in RangeType /\ q.start = start /\ q.end = r.end /\ q.stat = stat
  BY <1>0, <1>1 DEF RangeType
<1>5. \A j \in 1..Len(l) : (j < t => l[j].end < r.start) /\ (t < j => r.end < l[j].start)
  BY <1>0, <1>1 DEF Ordered
<1>11. r.start \in Nat /\ r.end \in Nat /\ r.start < start /\ start <= r.end
  BY <1>0, <1>1
<1> HIDE DEF q, k, r
<1>6. ASSUME NEW j \in 1..Len(k), j < t + 1 PROVE k[j].end < q.start
  <2>1. CASE j = t
    BY <1>0, <1>2, <1>4, <2>1
  <2>2. CASE j # t
    <3>1. j < t /\ j \in 1..Len(l)
      BY <1>1, <1>2, <1>6, <2>2
    <3>2. k[j] = l[j] /\ l[j].end < r.start /\ l[j].end \in Nat
      BY <1>1, <1>2, <1>5, <2>2, <3>1
    <3> QED
      BY <1>0, <1>4, <1>11, <3>2
  <2> QED
    BY <2>1, <2>2
<1>7. ASSUME NEW j \in 1..Len(k), t + 1 <= j PROVE q.end < k[j].start
  <2>1. t < j /\ j # t /\ j \in 1..Len(l)
    BY <1>1, <1>2, <1>7
  <2> QED
    BY <1>2, <1>4, <1>5, <2>1
<1>8. /\ m \in Lists /\ Len(m) = Len(k) + 1 /\ Ordered(m)
      /\ BlocksOf(m) = BlocksOf(k) \cup Extent(q)
  <2>1. t + 1 \in 1..(Len(k) + 1)
    BY <1>1, <1>2
  <2>2. q.start <= q.end
    BY <1>4, <1>11
  <2>3. \A j \in 1..Len(k) : j < t + 1 => k[j].end < q.start
    BY <1>6
  <2>4. \A j \in 1..Len(k) : t + 1 <= j => q.end < k[j].start
    BY <1>7
  <2> DEFINE u == t + 1
  <2> HIDE DEF u
  <2>5. /\ InsertAt(k, u, q) \in Lists
        /\ Len(InsertAt(k, u, q)) = Len(k) + 1
        /\ Ordered(InsertAt(k, u, q))
        /\ BlocksOf(InsertAt(k, u, q)) = BlocksOf(k) \cup Extent(q)
    <3>1. u \in 1..(Len(k) + 1)
      BY <2>1 DEF u
    <3>2. \A j \in 1..Len(k) : j < u => k[j].end < q.start
      BY <2>3 DEF u
    <3>3. \A j \in 1..Len(k) : u <= j => q.end < k[j].start
      BY <2>4 DEF u
    <3> QED
      BY <1>3, <1>4, <2>2, <3>1, <3>2, <3>3, InsertedCell
  <2> QED
    BY <2>5 DEF u
<1>9. BlocksOf(m) = BlocksOf(l)
  <2>1. Extent(q) = start..r.end
    BY <1>4 DEF Extent
  <2>2. \A x : x \in start..r.end => x \in BlocksOf(l)
    <3>1. \A x : x \in start..r.end => x \in r.start..r.end
      BY <1>0, <1>11
    <3>2. DOMAIN l = 1..Len(l)
      BY <1>0, CellsOfLists
    <3> QED
      BY <1>0, <3>1, <3>2 DEF BlocksOf, Extent, r
  <2> HIDE DEF m
  <2> QED
    BY <1>3, <1>8, <2>1, <2>2
<1>10. /\ \A j \in 1..(Len(k) + 1) :
             m[j] = IF j < t + 1 THEN k[j] ELSE IF j = t + 1 THEN q ELSE k[j - 1]
  <2>1. t + 1 \in 1..(Len(k) + 1)
    BY <1>1, <1>2
  <2> DEFINE u == t + 1
  <2> HIDE DEF u
  <2>2. \A j \in 1..(Len(k) + 1) :
           InsertAt(k, u, q)[j] = IF j < u THEN k[j] ELSE IF j = u THEN q ELSE k[j - 1]
    <3>1. u \in 1..(Len(k) + 1) /\ k \in Seq(RangeType) /\ q \in RangeType
      BY <1>3, <1>4, <2>1 DEF u, Lists
    <3> DEFINE S == RangeType
    <3>2. k \in Seq(S) /\ q \in S
      BY <3>1
    <3> HIDE DEF S
    <3> QED
      BY <3>1, <3>2, InsertAtCells
  <2> QED
    BY <2>2 DEF u
<1>12. ASSUME NEW H, MarkedIn(l, H), stat # NoStat => start \in H PROVE MarkedIn(m, H)
  <2>1. \A j \in 1..Len(k) : k[j].stat # NoStat => k[j].start \in H
    BY <1>0, <1>1, <1>2, <1>12 DEF MarkedIn, r
  <2>2. ASSUME NEW j \in 1..(Len(k) + 1), m[j].stat # NoStat PROVE m[j].start \in H
    <3>1. CASE j < t + 1
      <4>1. j \in 1..Len(k)
        BY <1>1, <1>2, <3>1
      <4> QED
        BY <1>10, <2>1, <2>2, <3>1, <4>1
    <3>2. CASE j = t + 1
      BY <1>1, <1>4, <1>10, <1>12, <2>2, <3>2
    <3>3. CASE t + 1 < j
      <4>1. j - 1 \in 1..Len(k) /\ ~(j < t + 1) /\ j # t + 1
        BY <1>1, <1>2, <3>3
      <4> QED
        BY <1>10, <2>1, <2>2, <4>1
    <3> QED
      BY <1>1, <3>1, <3>2, <3>3
  <2> QED
    BY <1>8, <2>2 DEF MarkedIn
<1>13. t + 1 \in 1..Len(m) /\ m[t + 1] = q
  <2>1. t + 1 \in 1..(Len(k) + 1)
    BY <1>1, <1>2
  <2> QED
    BY <1>1, <1>8, <1>10, <2>1
<1> HIDE DEF m
<1>14. IsSplit(l, m, t, q)
  BY <1>4, <1>8, <1>9, <1>12, <1>13 DEF IsSplit
<1> QED
  BY <1>14 DEF m, k, q, r

(* One call: the extent is removed, whatever it sticks out of.             *)
LEMMA UpdateOnce ==
    ASSUME NEW Called, NEW n \in Nat, Correct(Called, n), AtOnce(Called),
           NEW l \in Lists, Ordered(l), NEW start \in Nat, NEW end \in Int,
           end - start <= n
    PROVE  Removed(l, UpdateSearchSpaceAux(Called, l, start, end), start, end)
<1> DEFINE t == LastTouched(l, start, end)
           r == l[t]
           u == UpdateSearchSpaceAux(Called, l, start, end)
<1>1. /\ Len(l) \in Nat
      /\ \A i \in 1..Len(l) : l[i] \in RangeType /\ l[i].start \in Nat /\ l[i].end \in Nat
      /\ \A i \in 1..Len(l) : l[i].start <= l[i].end
  BY CellsOfLists DEF Ordered
<1>2. /\ t \in 0..Len(l)
      /\ t # 0 => t \in 1..Len(l) /\ Touches(l[t], start, end)
      /\ \A j \in 1..Len(l) : t < j => ~Touches(l[j], start, end)
  BY LastTouchedIs
<1>3. u = IF start > end \/ t = 0 THEN l
          ELSE IF r.start = start THEN
              IF end < r.end
              THEN [l EXCEPT ![t] = [start |-> end + 1, end |-> r.end, stat |-> NoStat]]
              ELSE Called[<< RemoveAt(l, t), r.end + 1, end >>]
          ELSE IF r.end = end THEN
              IF r.start < start THEN [l EXCEPT ![t].end = start - 1]
              ELSE Called[<< RemoveAt(l, t), start, r.start - 1 >>]
          ELSE IF start < r.start /\ r.start <= end
          THEN Called[<< Called[<< l, start, r.start - 1 >>], r.start, end >>]
          ELSE IF start <= r.end /\ r.end < end
          THEN Called[<< Called[<< l, start, r.end >>], r.end + 1, end >>]
          ELSE Called[<< InsertAt([l EXCEPT ![t].end = start - 1], t + 1,
                                  [start |-> start, end |-> r.end, stat |-> NoStat]),
                         start, end >>]
  BY DEF UpdateSearchSpaceAux, LastTouched
<1> HIDE DEF t, u
<1>4. CASE start > end
  <2>1. start..end = {}
    BY <1>4
  <2>2. Removed(l, l, start, end)
    BY <2>1, RemovedNothing
  <2> QED
    BY <1>3, <1>4, <2>2 DEF u
<1>5. CASE start <= end /\ t = 0
  <2>1. \A j \in 1..Len(l) : ~Touches(l[j], start, end)
    BY <1>1, <1>2, <1>5
  <2>2. \A j \in 1..Len(l) : ~(l[j].start <= end /\ start <= l[j].end)
    BY <1>1, <1>5, <2>1, TouchesIs
  <2>3. BlocksOf(l) \cap (start..end) = {}
    <3> SUFFICES ASSUME NEW x \in start..end, x \in BlocksOf(l) PROVE FALSE
      OBVIOUS
    <3>1. PICK j \in 1..Len(l) : x \in l[j].start..l[j].end
      BY BlockInList DEF Lists
    <3> QED
      BY <1>1, <2>2, <3>1
  <2>4. Removed(l, l, start, end)
    BY <2>3, RemovedNothing
  <2> QED
    BY <1>3, <1>5, <2>4 DEF u
<1>6. CASE start <= end /\ t # 0
  <2>1. /\ t \in 1..Len(l) /\ r \in RangeType
        /\ r.start \in Nat /\ r.end \in Nat /\ r.start <= r.end
    BY <1>1, <1>2, <1>6
  <2>2. r.start <= end /\ start <= r.end
    BY <1>2, <1>6, <2>1, TouchesIs
  <2>3. CASE r.start = start /\ end < r.end
    <3>1. u = [l EXCEPT ![t] = [start |-> end + 1, end |-> r.end, stat |-> NoStat]]
      BY <1>3, <1>6, <2>3
    <3>2. Removed(l, [l EXCEPT ![t] = [start |-> end + 1, end |-> l[t].end, stat |-> NoStat]], start, end)
      BY <1>6, <2>1, <2>3, ShortenStart
    <3> QED
      BY <3>1, <3>2 DEF u
  <2> DEFINE k == RemoveAt(l, t)
  <2>4. Removed(l, k, r.start, r.end) /\ k \in Lists /\ Ordered(k)
    BY <2>1, RemovedRange DEF Removed
  <2>5. CASE r.start = start /\ ~(end < r.end)
    <3>1. u = Called[<< k, r.end + 1, end >>]
      BY <1>3, <1>6, <2>5
    <3> HIDE DEF k
    <3>2. r.end + 1 \in Nat /\ end - (r.end + 1) + 1 <= n
      BY <2>1, <2>5
    <3> DEFINE a == r.end + 1
    <3>3. a \in Nat /\ end - a + 1 <= n
      BY <3>2
    <3> HIDE DEF a
    <3>4. Removed(k, Called[<< k, a, end >>], a, end)
      BY <2>4, <3>3 DEF Correct
    <3>5. (r.start..r.end) \cup (a..end) = start..end
      BY <2>1, <2>5 DEF a
    <3>7. r.start \in Int /\ r.end \in Int /\ a \in Int
      BY <2>1, <3>3
    <3>8. start \in Int /\ end \in Int
      OBVIOUS
    <3> DEFINE p == Called[<< k, a, end >>]
    <3> HIDE DEF p
    <3>6. Removed(l, Called[<< k, a, end >>], start, end)
      <4>1. Removed(k, p, a, end)
        BY <3>4 DEF p
      <4> HIDE DEF r
      <4>2. Removed(l, p, start, end)
        BY <2>4, <4>1, <3>5, <3>7, <3>8, RemovedTwice
      <4> QED
        BY <4>2 DEF p
    <3> QED
      BY <3>1, <3>6 DEF a, u
  <2>6. CASE r.start # start /\ r.end = end /\ r.start < start
    <3>1. u = [l EXCEPT ![t].end = start - 1]
      BY <1>3, <1>6, <2>6
    <3>2. Removed(l, [l EXCEPT ![t].end = start - 1], start, l[t].end)
      BY <2>1, <2>2, <2>6, ShortenEnd
    <3> QED
      BY <2>6, <3>1, <3>2 DEF u
  <2>7. CASE r.start # start /\ r.end = end /\ ~(r.start < start)
    <3>1. u = Called[<< k, start, r.start - 1 >>]
      BY <1>3, <1>6, <2>7
    <3> HIDE DEF k
    <3> DEFINE a == r.start - 1
    <3>3. a \in Int /\ a - start + 1 <= n
      BY <2>1, <2>2, <2>7
    <3> HIDE DEF a
    <3>4. Removed(k, Called[<< k, start, a >>], start, a)
      BY <2>4, <3>3 DEF Correct
    <3>5. (r.start..r.end) \cup (start..a) = start..end
      BY <2>1, <2>7 DEF a
    <3>6. Removed(l, Called[<< k, start, a >>], start, end)
      <4> HIDE DEF r
      <4> QED
        BY <2>1, <2>4, <3>3, <3>4, <3>5, RemovedTwice, SMTT(30)
    <3> QED
      BY <3>1, <3>6 DEF a, u
  <2>8. CASE r.start # start /\ r.end # end /\ start < r.start
    <3> DEFINE a == r.start - 1
               c == r.start
    <3>3. a \in Int /\ a - start + 1 <= n /\ c \in Nat /\ end - c + 1 <= n
      BY <2>1, <2>2, <2>8, SMTT(30)
    <3>5. (start..a) \cup (c..end) = start..end
      BY <2>1, <2>2, <2>8
    <3>1. u = Called[<< Called[<< l, start, a >>], c, end >>]
      BY <1>3, <1>6, <2>2, <2>8
    <3> HIDE DEF a, c
    <3> DEFINE j == Called[<< l, start, a >>]
    <3>4. Removed(l, j, start, a)
      BY <3>3 DEF Correct
    <3>6. j \in Lists /\ Ordered(j)
      BY <3>4 DEF Removed
    <3> HIDE DEF j
    <3>7. Removed(j, Called[<< j, c, end >>], c, end)
      BY <3>3, <3>6 DEF Correct
    <3>8. Removed(l, Called[<< j, c, end >>], start, end)
      BY <3>3, <3>4, <3>5, <3>7, RemovedTwice
    <3> QED
      BY <3>1, <3>8 DEF j, u
  <2>9. CASE r.start # start /\ r.end # end /\ ~(start < r.start) /\ r.end < end
    <3> DEFINE a == r.end
               c == r.end + 1
    <3>3. a \in Int /\ a - start + 1 <= n /\ c \in Nat /\ end - c + 1 <= n
      BY <2>1, <2>2, <2>9, SMTT(30)
    <3>5. (start..a) \cup (c..end) = start..end
      BY <2>1, <2>2, <2>9
    <3>1. u = Called[<< Called[<< l, start, a >>], c, end >>]
      BY <1>3, <1>6, <2>2, <2>9
    <3> HIDE DEF a, c
    <3> DEFINE j == Called[<< l, start, a >>]
    <3>4. Removed(l, j, start, a)
      BY <3>3 DEF Correct
    <3>6. j \in Lists /\ Ordered(j)
      BY <3>4 DEF Removed
    <3> HIDE DEF j
    <3>7. Removed(j, Called[<< j, c, end >>], c, end)
      BY <3>3, <3>6 DEF Correct
    <3>8. Removed(l, Called[<< j, c, end >>], start, end)
      BY <3>3, <3>4, <3>5, <3>7, RemovedTwice
    <3> QED
      BY <3>1, <3>8 DEF j, u
  <2>10. CASE r.start # start /\ r.end # end /\ ~(start < r.start) /\ ~(r.end < end)
    <3> DEFINE q == [start |-> start, end |-> r.end, stat |-> NoStat]
               j == InsertAt([l EXCEPT ![t].end = start - 1], t + 1, q)
               v == t + 1
    <3>1. u = Called[<< j, start, end >>]
      BY <1>3, <1>6, <2>10
    <3>2. r.start < start
      BY <2>1, <2>10
    <3>3. /\ j \in Lists /\ Ordered(j)
          /\ BlocksOf(j) = BlocksOf(l)
          /\ Unmarked(l) => Unmarked(j)
          /\ v \in 1..Len(j)
          /\ j[v] = q
      <4> DEFINE none == NoStat
                 qq == [start |-> start, end |-> l[t].end, stat |-> none]
                 jj == InsertAt([l EXCEPT ![t].end = start - 1], t + 1, qq)
      <4> HIDE DEF none
      <4>1. none \in Stats \cup {NoStat}
        BY DEF none
      <4>2. t \in 1..Len(l) /\ l[t].start < start /\ start <= l[t].end
        BY <2>1, <2>2, <3>2
      <4>3. IsSplit(l, jj, t, qq)
        <5>1. Splits(l, t, start, none)
          BY <4>1, <4>2 DEF Splits
        <5> QED
          BY <5>1, SplitRange
      <4>6. qq.stat = NoStat
        BY DEF none
      <4>5. jj = j /\ qq = q
        BY DEF none
      <4> HIDE DEF j, jj, q, qq
      <4>4. MarkedIn(l, {}) => MarkedIn(jj, {})
        BY <4>3, <4>6 DEF IsSplit
      <4>7. Unmarked(l) => Unmarked(j)
        BY <4>4, <4>5 DEF MarkedIn, Unmarked
      <4> QED
        BY <4>3, <4>5, <4>7 DEF IsSplit
    <3>4. q.start = start /\ end < q.end
      BY <2>1, <2>2, <2>10
    <3> HIDE DEF j, q, v
    <3>5. v \in Nat
      BY <2>1 DEF v
    <3>6. Removed(j, Called[<< j, start, end >>], start, end)
      BY <1>6, <3>3, <3>4, <3>5 DEF AtOnce
    <3> QED
      BY <3>1, <3>3, <3>6 DEF Removed, u
  <2> QED
    BY <2>1, <2>2, <2>3, <2>5, <2>6, <2>7, <2>8, <2>9, <2>10
<1> QED
  BY <1>2, <1>4, <1>5, <1>6 DEF u

(* An extent in a range that begins with it needs no further call.         *)
LEMMA AtOnceHolds ==
    ASSUME NEW Called,
           NEW l \in Lists, Ordered(l), NEW start \in Nat, NEW end \in Int,
           start <= end, NEW u \in 1..Len(l), l[u].start = start, end < l[u].end
    PROVE  Removed(l, UpdateSearchSpaceAux(Called, l, start, end), start, end)
<1> DEFINE t == LastTouched(l, start, end)
<1>1. /\ Len(l) \in Nat /\ DOMAIN l = 1..Len(l)
      /\ \A i \in 1..Len(l) : l[i] \in RangeType /\ l[i].start \in Nat /\ l[i].end \in Nat
      /\ \A i \in 1..Len(l) : l[i].start <= l[i].end
  BY CellsOfLists DEF Ordered
<1>2. /\ t \in 0..Len(l)
      /\ t # 0 => t \in 1..Len(l) /\ Touches(l[t], start, end)
      /\ \A j \in 1..Len(l) : t < j => ~Touches(l[j], start, end)
  BY LastTouchedIs
<1>3. Touches(l[u], start, end)
  BY DEF Touches
<1>4. t \in 1..Len(l) /\ u <= t
  <2> HIDE DEF t
  <2> QED
    BY <1>1, <1>2, <1>3
<1>5. t = u
  <2>1. l[t].start <= end
    BY <1>1, <1>2, <1>4, TouchesIs
  <2>2. u < t => l[u].end < l[t].start
    BY <1>1, <1>4 DEF Ordered
  <2> HIDE DEF t
  <2> QED
    BY <1>1, <1>4, <2>1, <2>2
<1>6. UpdateSearchSpaceAux(Called, l, start, end)
          = [l EXCEPT ![u] = [start |-> end + 1, end |-> l[u].end, stat |-> NoStat]]
  <2>1. ~(start > end \/ t = 0)
    BY <1>4, <1>5
  <2> QED
    BY <1>5, <2>1 DEF UpdateSearchSpaceAux, LastTouched
<1>7. Removed(l, [l EXCEPT ![u] = [start |-> end + 1, end |-> l[u].end, stat |-> NoStat]], start, end)
  BY ShortenStart
<1> QED
  BY <1>6, <1>7

-----------------------------------------------------------------------------
(* The calls, level by level.                                              *)
LEMMA UpdateCallsAre ==
    ASSUME NEW n \in Nat
    PROVE  /\ UpdateCalls(n)[0] = NoCalls
           /\ \A k \in 1..n : UpdateCalls(n)[k] = CallsOf(UpdateCalls(n)[k - 1])
<1> DEFINE P(m, g) == g = [k \in 0..m |-> IF k = 0 THEN NoCalls ELSE CallsOf(g[k - 1])]
           M == { m \in Nat : \E g : P(m, g) }
<1>1. 0 \in M
  <2>1. P(0, [k \in 0..0 |-> NoCalls])
    OBVIOUS
  <2> HIDE DEF P
  <2> QED
    BY <2>1
<1>2. ASSUME NEW m \in Nat, m \in M PROVE m + 1 \in M
  <2>1. PICK g : P(m, g)
    <3> HIDE DEF P
    <3> QED
      BY <1>2
  <2> DEFINE h == [k \in 0..(m + 1) |-> IF k <= m THEN g[k] ELSE CallsOf(g[m])]
  <2>2. ASSUME NEW k \in 0..(m + 1)
        PROVE  h[k] = IF k = 0 THEN NoCalls ELSE CallsOf(h[k - 1])
    <3>1. CASE k = 0
      BY <3>1, <2>1
    <3>2. CASE k # 0 /\ k <= m
      <4>1. k \in 0..m /\ k - 1 \in 0..m /\ k - 1 <= m /\ k - 1 \in 0..(m + 1)
        BY <3>2
      <4>2. h[k] = g[k] /\ h[k - 1] = g[k - 1]
        BY <4>1
      <4>3. g[k] = CallsOf(g[k - 1])
        BY <4>1, <3>2, <2>1
      <4> QED
        BY <4>2, <4>3, <3>2
    <3>3. CASE k = m + 1
      <4>1. h[k - 1] = g[m] /\ k # 0
        BY <3>3
      <4>2. h[k] = CallsOf(g[m])
        BY <3>3
      <4> QED
        BY <4>1, <4>2
    <3> QED
      BY <3>1, <3>2, <3>3
  <2>3. h = [k \in 0..(m + 1) |-> h[k]]
    OBVIOUS
  <2> HIDE DEF h
  <2>4. P(m + 1, h)
    BY <2>2, <2>3
  <2> HIDE DEF P
  <2>5. m + 1 \in Nat
    OBVIOUS
  <2> QED
    BY <2>4, <2>5
<1>3. n \in M
  <2>1. n \in Nat
    OBVIOUS
  <2> HIDE DEF M
  <2> QED
    BY <1>1, <1>2, <2>1, CountUp
<1>4. \E g : P(n, g)
  <2> HIDE DEF P
  <2> QED
    BY <1>3
<1> DEFINE f == UpdateCalls(n)
<1>5. f = CHOOSE g : P(n, g)
  BY DEF UpdateCalls
<1> HIDE DEF P, f
<1>6. P(n, f)
  BY <1>4, <1>5
<1>7. f = [k \in 0..n |-> IF k = 0 THEN NoCalls ELSE CallsOf(f[k - 1])]
  BY <1>6 DEF P
<1>8. n \in Nat
  OBVIOUS
<1>9. f[0] = NoCalls
  BY <1>7, <1>8
<1>10. ASSUME NEW k \in 1..n
       PROVE  f[k] = CallsOf(f[k - 1])
  <2>1. k \in 0..n /\ k # 0
    BY <1>8
  <2> QED
    BY <1>7, <2>1
<1> QED
  BY <1>9, <1>10 DEF f

(* What a level makes of a call.                                           *)
LEMMA LevelAt ==
    ASSUME NEW l \in Lists, NEW start \in Int, NEW end \in Int, NEW Called
    PROVE  /\ NoCalls[<< l, start, end >>] = l
           /\ CallsOf(Called)[<< l, start, end >>] = UpdateSearchSpaceAux(Called, l, start, end)
<1>1. << l, start, end >> \in Call
  BY DEF Call, Lists
<1> QED
  BY <1>1 DEF NoCalls, CallsOf

(* Each level is right about the extents it is there for.                  *)
LEMMA LevelsCorrect ==
    ASSUME NEW n \in Nat, NEW k \in 1..n
    PROVE  Correct(UpdateCalls(n)[k], k - 1) /\ AtOnce(UpdateCalls(n)[k])
<1> DEFINE f == UpdateCalls(n)
           M == { m \in Nat : m + 1 <= n => Correct(f[m + 1], m) /\ AtOnce(f[m + 1]) }
<1>1. f[0] = NoCalls /\ \A j \in 1..n : f[j] = CallsOf(f[j - 1])
  BY UpdateCallsAre
<1> HIDE DEF f
<1>2. ASSUME NEW j \in 1..n PROVE AtOnce(f[j])
  <2>1. f[j] = CallsOf(f[j - 1])
    BY <1>1
  <2> DEFINE c == f[j - 1]
  <2> HIDE DEF c
  <2>2. SUFFICES ASSUME NEW l \in Lists, NEW s \in Nat, NEW e \in Int, NEW t \in Nat,
                        Ordered(l), s <= e, t \in 1..Len(l), l[t].start = s, e < l[t].end
                 PROVE  Removed(l, CallsOf(c)[<< l, s, e >>], s, e)
    BY <2>1 DEF AtOnce, c
  <2>3. Removed(l, UpdateSearchSpaceAux(c, l, s, e), s, e)
    BY <2>2, AtOnceHolds
  <2> QED
    BY <2>3, LevelAt
<1>3. 0 \in M
  <2>1. SUFFICES ASSUME 1 <= n PROVE Correct(f[1], 0)
    BY <1>2, 0 + 1 = 1
  <2>2. f[1] = CallsOf(f[0])
    BY <1>1, <2>1
  <2> DEFINE c == f[0]
  <2> HIDE DEF c
  <2>3. SUFFICES ASSUME NEW l \in Lists, NEW s \in Nat, NEW e \in Int,
                        Ordered(l), e - s + 1 <= 0
                 PROVE  Removed(l, CallsOf(c)[<< l, s, e >>], s, e)
    BY <2>2 DEF Correct, c
  <2>4. UpdateSearchSpaceAux(c, l, s, e) = l
    BY <2>3 DEF UpdateSearchSpaceAux
  <2>5. s..e = {}
    BY <2>3
  <2>6. Removed(l, l, s, e)
    BY <2>3, <2>5, RemovedNothing
  <2> QED
    BY <2>4, <2>6, LevelAt
<1>4. ASSUME NEW m \in Nat, m \in M PROVE m + 1 \in M
  <2>1. SUFFICES ASSUME (m + 1) + 1 <= n PROVE Correct(f[(m + 1) + 1], m + 1)
    BY <1>2
  <2> DEFINE c == f[m + 1]
  <2>2. Correct(c, m) /\ AtOnce(c)
    BY <1>2, <1>4, <2>1
  <2>3. f[(m + 1) + 1] = CallsOf(c)
    <3>1. (m + 1) + 1 \in 1..n /\ ((m + 1) + 1) - 1 = m + 1
      BY <2>1
    <3> QED
      BY <1>1, <3>1
  <2> HIDE DEF c
  <2>4. SUFFICES ASSUME NEW l \in Lists, NEW s \in Nat, NEW e \in Int,
                        Ordered(l), e - s + 1 <= m + 1
                 PROVE  Removed(l, CallsOf(c)[<< l, s, e >>], s, e)
    BY <2>3 DEF Correct
  <2>5. e - s <= m
    BY <2>4
  <2>6. Removed(l, UpdateSearchSpaceAux(c, l, s, e), s, e)
    BY <2>2, <2>4, <2>5, UpdateOnce
  <2> QED
    BY <2>6, LevelAt
<1>5. Nat \subseteq M
  <2> HIDE DEF M
  <2> QED
    BY <1>3, <1>4, CountUp
<1>6. k - 1 \in Nat /\ (k - 1) + 1 <= n /\ (k - 1) + 1 = k
  OBVIOUS
<1> QED
  BY <1>2, <1>5, <1>6 DEF f

(* del_search_space removes the extent, and nothing else.                  *)
LEMMA RemoveExtentCorrect ==
    ASSUME NEW l \in Lists, Ordered(l), NEW start \in Nat, NEW end \in Int
    PROVE  Removed(l, RemoveExtent(l, start, end), start, end)
<1>1. CASE start > end
  <2>1. start..end = {}
    BY <1>1
  <2>2. RemoveExtent(l, start, end) = l
    BY <1>1 DEF RemoveExtent
  <2> QED
    BY <2>1, <2>2, RemovedNothing
<1>2. CASE start <= end
  <2> DEFINE n == end - start + 2
             c == UpdateCalls(n)[n]
  <2>1. n \in Nat /\ n \in 1..n /\ end - start + 1 <= n - 1
    BY <1>2
  <2>2. RemoveExtent(l, start, end) = c[<< l, start, end >>]
    BY <1>2 DEF RemoveExtent
  <2>3. Correct(c, n - 1)
    <3> HIDE DEF n
    <3> QED
      BY <2>1, LevelsCorrect
  <2> HIDE DEF c, n
  <2> QED
    BY <2>1, <2>2, <2>3 DEF Correct
<1> QED
  BY <1>1, <1>2

-----------------------------------------------------------------------------
(* Rounding to blocks of b bytes, the first of which begins at o           *)

(* Quotient and remainder.                                                *)
LEMMA DivBy ==
    ASSUME NEW x \in Int, NEW b \in Nat \ {0}
    PROVE  /\ x \div b \in Int /\ x % b \in 0..(b - 1)
           /\ x = (x \div b) * b + (x % b)
OBVIOUS

(* The remainder of a number given by quotient and remainder.              *)
LEMMA RemainderIs ==
    ASSUME NEW k \in Int, NEW b \in Nat \ {0}, NEW o \in 0..(b - 1)
    PROVE  (k * b + o) % b = o
OBVIOUS

(* Multiples of b are at least b apart,                                    *)
LEMMA Multiples ==
    ASSUME NEW k \in Int, NEW j \in Int, NEW b \in Nat \ {0}, k * b < j * b
    PROVE  k * b + b <= j * b
OBVIOUS

(* and so are the places where blocks begin.                               *)
LEMMA OnGridApart ==
    ASSUME NEW x \in Int, NEW y \in Int, NEW b \in Nat \ {0},
           x % b = y % b, x < y
    PROVE  x + b <= y
<1> DEFINE k == x \div b
           j == y \div b
           o == x % b
<1>1. k \in Int /\ j \in Int /\ o \in 0..(b - 1) /\ x = k * b + o /\ y = j * b + o
  BY DivBy
<1> HIDE DEF k, j, o
<1> QED
  BY <1>1, Multiples

(* The next block begins b further.                                        *)
LEMMA GridStep ==
    ASSUME NEW x \in Int, NEW b \in Nat \ {0}
    PROVE  (x + b) % b = x % b
<1> DEFINE k == x \div b
           o == x % b
<1>1. k \in Int /\ o \in 0..(b - 1) /\ x = k * b + o
  BY DivBy
<1> HIDE DEF k, o
<1>2. x + b = (k + 1) * b + o
  BY <1>1
<1> DEFINE j == k + 1
<1>3. j \in Int
  BY <1>1
<1> HIDE DEF j
<1>4. (j * b + o) % b = o
  BY <1>1, <1>3, RemainderIs
<1> QED
  BY <1>2, <1>4 DEF j, o

(* What a place is rounded to.                                             *)
LEMMA RoundDownIs ==
    ASSUME NEW x \in Int, NEW b \in Nat \ {0}, NEW o \in 0..(b - 1)
    PROVE  /\ RoundDown(x, b, o) \in Int
           /\ RoundDown(x, b, o) <= x /\ x < RoundDown(x, b, o) + b
           /\ RoundDown(x, b, o) % b = o
<1> DEFINE y == x - o
           k == y \div b
           r == y % b
<1>6. y \in Int
  OBVIOUS
<1>1. k \in Int /\ r \in 0..(b - 1) /\ y = k * b + r
  <2> HIDE DEF y
  <2> QED
    BY <1>6, DivBy
<1>2. RoundDown(x, b, o) = k * b + o
  BY DEF RoundDown
<1>3. x = y + o
  OBVIOUS
<1> HIDE DEF k, r, y
<1>4. (k * b + o) % b = o
  BY <1>1, RemainderIs
<1> DEFINE m == k * b
<1>5. m \in Int
  BY <1>1
<1> HIDE DEF m
<1> QED
  BY <1>1, <1>2, <1>3, <1>4, <1>5 DEF m

(* No other place is between.                                              *)
LEMMA RoundDownOnly ==
    ASSUME NEW x \in Int, NEW b \in Nat \ {0}, NEW o \in 0..(b - 1),
           NEW y \in Int, y % b = o, y <= x, x < y + b
    PROVE  RoundDown(x, b, o) = y
<1> DEFINE z == RoundDown(x, b, o)
<1>1. z \in Int /\ z <= x /\ x < z + b /\ z % b = o
  BY RoundDownIs
<1> HIDE DEF z
<1>2. z < y => z + b <= y
  BY <1>1, OnGridApart
<1>3. y < z => y + b <= z
  BY <1>1, OnGridApart
<1> QED
  BY <1>1, <1>2, <1>3 DEF z

(* The same, upwards.                                                      *)
LEMMA RoundUpIs ==
    ASSUME NEW x \in Int, NEW b \in Nat \ {0}, NEW o \in 0..(b - 1)
    PROVE  /\ RoundUp(x, b, o) \in Int
           /\ x <= RoundUp(x, b, o) /\ RoundUp(x, b, o) < x + b
           /\ RoundUp(x, b, o) % b = o
<1> DEFINE y == x + b - 1
<1>1. y \in Int
  OBVIOUS
<1> HIDE DEF y
<1>2. /\ RoundDown(y, b, o) \in Int
      /\ RoundDown(y, b, o) <= y /\ y < RoundDown(y, b, o) + b
      /\ RoundDown(y, b, o) % b = o
  BY <1>1, RoundDownIs
<1>3. RoundUp(x, b, o) = RoundDown(y, b, o)
  BY DEF RoundUp, y
<1> QED
  BY <1>2, <1>3 DEF y

(* A place where a block begins is rounded to itself.                      *)
LEMMA OnGrid ==
    ASSUME NEW x \in Int, NEW b \in Nat \ {0}, NEW o \in 0..(b - 1)
    PROVE  RoundUp(x, b, o) = x <=> x % b = o
<1> DEFINE z == RoundUp(x, b, o)
<1>1. z \in Int /\ x <= z /\ z < x + b /\ z % b = o
  BY RoundUpIs
<1> HIDE DEF z
<1>2. x % b = o /\ x < z => x + b <= z
  BY <1>1, OnGridApart
<1> QED
  BY <1>1, <1>2 DEF z

(* The block x is in.                                                      *)
Block(x, b, o) == RoundDown(x, b, o) .. (RoundDown(x, b, o) + b - 1)

(* What lies before the first block that begins in a range shares its      *)
(* block with the byte before the range.                                   *)
LEMMA BlockBelow ==
    ASSUME NEW s \in Int, NEW x \in Int, NEW b \in Nat \ {0}, NEW o \in 0..(b - 1),
           s <= x, x < RoundUp(s, b, o)
    PROVE  s - 1 \in Block(x, b, o)
<1> DEFINE z == RoundUp(s, b, o)
           y == RoundDown(x, b, o)
<1>1. z \in Int /\ s <= z /\ z < s + b /\ z % b = o
  BY RoundUpIs
<1>2. y \in Int /\ y <= x /\ x < y + b /\ y % b = o
  BY RoundDownIs
<1>3. x < z
  OBVIOUS
<1> HIDE DEF z, y
<1>4. y + b <= z
  <2>1. y < z /\ y % b = z % b
    BY <1>1, <1>2, <1>3
  <2> QED
    BY <1>1, <1>2, <2>1, OnGridApart
<1>5. s - 1 \in y..(y + b - 1)
  BY <1>1, <1>2, <1>4
<1> QED
  BY <1>5 DEF Block, y

(* What lies after the last block that ends in a range shares its block    *)
(* with the byte after the range.                                          *)
LEMMA BlockAbove ==
    ASSUME NEW e \in Int, NEW x \in Int, NEW b \in Nat \ {0}, NEW o \in 0..(b - 1),
           RoundDown(e, b, o) <= x, x <= e
    PROVE  e \in Block(x, b, o)
<1> DEFINE z == RoundDown(e, b, o)
<1>1. z \in Int /\ z <= e /\ e < z + b /\ z % b = o
  BY RoundDownIs
<1>2. RoundDown(x, b, o) = z
  <2>1. z <= x
    OBVIOUS
  <2> HIDE DEF z
  <2> QED
    BY <1>1, <2>1, RoundDownOnly
<1> HIDE DEF z
<1>3. e \in z..(z + b - 1)
  BY <1>1
<1> QED
  BY <1>2, <1>3 DEF Block

-----------------------------------------------------------------------------
(* update_blocksize: the starts, from the tail on                          *)

(* m is l after the ranges from i on were met: the ranges before i - 1 are *)
(* as they were, and range i - 1 may be longer,                            *)
MetCells(l, m, i) ==
    /\ m \in Lists /\ Ordered(m) /\ i - 1 <= Len(m)
    /\ \A j \in 1..Len(l) : j < i - 1 => m[j] = l[j]
    /\ \A j \in 1..Len(l) : j = i - 1 => m[j].start = l[j].start /\ m[j].stat = l[j].stat

(* the others begin with a block,                                          *)
MetStarts(m, i, b, o) == \A j \in 1..Len(m) : i <= j => m[j].start % b = o

(* no range ends within a block that goes on,                              *)
MetEnds(l, m, i, b, o) ==
    \A j \in 1..Len(m) :
        i - 1 <= j /\ m[j].end + 1 \in BlocksOf(l) => (m[j].end + 1) % b = o

(* what is lost is part of a block that is not free as a whole,            *)
Lost(l, m, b, o) ==
    \A x \in BlocksOf(l) : x \in BlocksOf(m) \/ \E y \in Block(x, b, o) : y \notin BlocksOf(l)

MetBlocks(l, m, b, o) == BlocksOf(m) \subseteq BlocksOf(l) /\ Lost(l, m, b, o)

(* and a range with a header at the beginning of a block is there still.   *)
MarksKept(l, m, b, o) ==
    \A j \in 1..Len(l) :
        l[j].stat # NoStat /\ l[j].start % b = o =>
            \E k \in 1..Len(m) : /\ m[k].start = l[j].start /\ m[k].stat = l[j].stat
                                 /\ l[j].end <= m[k].end

MarksFrom(l, m) ==
    \A k \in 1..Len(m) :
        m[k].stat # NoStat =>
            \E j \in 1..Len(l) : m[k].start = l[j].start /\ m[k].stat = l[j].stat

Met(l, m, i, b, o) ==
    /\ MetCells(l, m, i) /\ MetStarts(m, i, b, o) /\ MetEnds(l, m, i, b, o)
    /\ MetBlocks(l, m, b, o) /\ MarksKept(l, m, b, o) /\ MarksFrom(l, m)

(* r fits in place of range t.                                             *)
Fits(l, t, r) ==
    /\ l \in Lists /\ Ordered(l) /\ t \in 1..Len(l)
    /\ r \in RangeType /\ r.start <= r.end
    /\ \A j \in 1..Len(l) : j < t => l[j].end < r.start
    /\ \A j \in 1..Len(l) : t < j => r.end < l[j].start

LEMMA FittingRange ==
    ASSUME NEW l, NEW t, NEW r, Fits(l, t, r)
    PROVE  /\ [l EXCEPT ![t] = r] \in Lists
           /\ Len([l EXCEPT ![t] = r]) = Len(l)
           /\ Ordered([l EXCEPT ![t] = r])
           /\ \A x : x \in BlocksOf([l EXCEPT ![t] = r]) <=>
                      (x \in BlocksOf(l) /\ x \notin Extent(l[t])) \/ x \in Extent(r)
<1>1. /\ l \in Lists /\ Ordered(l) /\ t \in 1..Len(l)
      /\ r \in RangeType /\ r.start <= r.end
      /\ \A j \in 1..Len(l) : j < t => l[j].end < r.start
      /\ \A j \in 1..Len(l) : t < j => r.end < l[j].start
  BY DEF Fits
<1> DEFINE m == [l EXCEPT ![t] = r]
<1>2. /\ m \in Lists /\ Len(m) = Len(l) /\ Ordered(m)
      /\ BlocksOf(m) = (BlocksOf(l) \ Extent(l[t])) \cup Extent(r)
  BY <1>1, ReplacedCell
<1> HIDE DEF m
<1>3. \A x : x \in BlocksOf(m) <=> (x \in BlocksOf(l) /\ x \notin Extent(l[t])) \/ x \in Extent(r)
  BY <1>2
<1> QED
  BY <1>2, <1>3 DEF m

(* The range met next, and the one before it.                              *)
NextIs(l, m, i) ==
    /\ m \in Lists /\ Ordered(m) /\ i \in 1..Len(m) /\ Len(m) \in Nat
    /\ \A j \in 1..Len(m) : /\ m[j] \in RangeType
                            /\ m[j].start \in Nat /\ m[j].end \in Nat
                            /\ m[j].start <= m[j].end
    /\ \A j, k \in 1..Len(m) : j < k => m[j].end < m[k].start
    /\ \A j \in 1..(i - 1) : m[j] = l[j] /\ j \in 1..Len(m) /\ j \in 1..Len(l)
    /\ m[i].start = l[i].start /\ m[i].stat = l[i].stat

(* as the walk from the tail keeps it.                                      *)
LEMMA NextMet ==
    ASSUME NEW l \in Lists, NEW m, NEW i \in 1..Len(l), MetCells(l, m, i + 1)
    PROVE  NextIs(l, m, i)
<1>1. Len(l) \in Nat
  BY CellsOfLists
<1>2. /\ m \in Lists /\ Ordered(m) /\ (i + 1) - 1 <= Len(m)
      /\ \A j \in 1..Len(l) : j < (i + 1) - 1 => m[j] = l[j]
      /\ \A j \in 1..Len(l) : j = (i + 1) - 1 => m[j].start = l[j].start /\ m[j].stat = l[j].stat
  BY DEF MetCells
<1>3. /\ Len(m) \in Nat /\ DOMAIN m = 1..Len(m)
      /\ \A j \in 1..Len(m) : m[j] \in RangeType /\ m[j].start \in Nat /\ m[j].end \in Nat
  BY <1>2, CellsOfLists
<1>4. /\ \A j \in 1..Len(m) : m[j].start <= m[j].end
      /\ \A j, k \in 1..Len(m) : j < k => m[j].end < m[k].start
  BY <1>2, <1>3 DEF Ordered
<1>5. i \in 1..Len(m)
  BY <1>1, <1>2, <1>3
<1>6. \A j \in 1..(i - 1) : j \in 1..Len(l) /\ j < (i + 1) - 1 /\ j \in 1..Len(m)
  BY <1>1, <1>3, <1>5
<1>7. i = (i + 1) - 1
  OBVIOUS
<1> QED
  BY <1>2, <1>3, <1>4, <1>5, <1>6, <1>7 DEF NextIs

(* What is free just after the range before it is this range.              *)
LEMMA NextAfter ==
    ASSUME NEW l \in Lists, Ordered(l), NEW m, NEW i \in 1..Len(l), MetCells(l, m, i + 1),
           NEW j \in 1..Len(m), j = i - 1, m[j].end + 1 \in BlocksOf(l)
    PROVE  m[j].end + 1 = m[i].start
<1>1. /\ Len(l) \in Nat /\ DOMAIN l = 1..Len(l)
      /\ \A k \in 1..Len(l) : l[k].start \in Nat /\ l[k].end \in Nat
  BY CellsOfLists
<1>2. /\ \A k \in 1..Len(l) : l[k].start <= l[k].end
      /\ \A k, n \in 1..Len(l) : k < n => l[k].end < l[n].start
  BY <1>1 DEF Ordered
<1>n3. NextIs(l, m, i)
  BY NextMet
<1>3. m[j] = l[j] /\ j \in 1..Len(l) /\ m[i].start = l[i].start
  BY <1>n3 DEF NextIs
<1>4. PICK k \in 1..Len(l) : m[j].end + 1 \in l[k].start..l[k].end
  BY BlockInList DEF Lists
<1>5. l[k].start <= l[j].end + 1 /\ l[j].end + 1 <= l[k].end
  BY <1>1, <1>3, <1>4
<1>6. ~(k < j) /\ k # j
  <2>1. k < j => l[k].end < l[j].start
    BY <1>2, <1>3
  <2>2. l[j].start <= l[j].end /\ l[j].start \in Nat /\ l[j].end \in Nat /\ l[k].end \in Nat
    BY <1>1, <1>2, <1>3
  <2> QED
    BY <1>5, <2>1, <2>2, SMTT(30)
<1>7. k >= i
  BY <1>1, <1>6
<1>8. l[i].start <= l[k].start
  <2>1. i = k \/ i < k
    BY <1>1, <1>7
  <2> QED
    BY <1>1, <1>2, <2>1
<1>9. l[j].end < l[i].start
  BY <1>1, <1>2, <1>3
<1> QED
  BY <1>1, <1>3, <1>5, <1>8, <1>9

(* And what is free just before this range is the range before it.         *)
LEMMA NotBefore ==
    ASSUME NEW l \in Lists, Ordered(l), NEW m, NEW i \in 1..Len(l), MetCells(l, m, i + 1),
           \A j \in 1..Len(m) : j = i - 1 => m[j].end + 1 # m[i].start
    PROVE  m[i].start - 1 \notin BlocksOf(l)
<1> SUFFICES ASSUME m[i].start - 1 \in BlocksOf(l) PROVE FALSE
  OBVIOUS
<1>1. /\ Len(l) \in Nat /\ DOMAIN l = 1..Len(l)
      /\ \A k \in 1..Len(l) : l[k].start \in Nat /\ l[k].end \in Nat
  BY CellsOfLists
<1>2. /\ \A k \in 1..Len(l) : l[k].start <= l[k].end
      /\ \A k, n \in 1..Len(l) : k < n => l[k].end < l[n].start
  BY <1>1 DEF Ordered
<1>n3. NextIs(l, m, i)
  BY NextMet
<1>3. m[i].start = l[i].start
  BY <1>n3 DEF NextIs
<1>4. PICK k \in 1..Len(l) : m[i].start - 1 \in l[k].start..l[k].end
  BY BlockInList DEF Lists
<1>5. l[k].start <= l[i].start - 1 /\ l[i].start - 1 <= l[k].end
  BY <1>1, <1>3, <1>4
<1>6. k # i /\ ~(i < k)
  BY <1>1, <1>2, <1>5, SMTT(30)
<1> DEFINE j == i - 1
<1>7. k \in 1..(i - 1) /\ j \in 1..(i - 1)
  BY <1>1, <1>6
<1>n8. NextIs(l, m, i)
  BY <1>7, NextMet
<1>8. /\ m[k] = l[k] /\ k \in 1..Len(m)
      /\ m[j] = l[j] /\ j \in 1..Len(m) /\ j \in 1..Len(l)
  BY <1>7, <1>n8 DEF NextIs
<1>9. l[k].end <= l[j].end
  <2>1. k = j \/ k < j
    BY <1>7
  <2> HIDE DEF j
  <2>2. k < j => l[k].end < l[j].start
    BY <1>2, <1>8
  <2>3. l[j].start <= l[j].end /\ l[j].start \in Nat /\ l[j].end \in Nat /\ l[k].end \in Nat
    BY <1>1, <1>2, <1>8
  <2> QED
    BY <2>1, <2>2, <2>3
<1>10. l[j].end < l[i].start
  <2>1. j < i
    OBVIOUS
  <2> HIDE DEF j
  <2> QED
    BY <1>1, <1>2, <1>8, <2>1
<1>11. m[j].end + 1 = m[i].start
  <2> HIDE DEF j
  <2> QED
    BY <1>1, <1>3, <1>5, <1>8, <1>9, <1>10, SMTT(30)
<1> QED
  BY <1>8, <1>11

(* A range that begins with a block stays.                                 *)
LEMMA StartKept ==
    ASSUME NEW l \in Lists, Ordered(l), NEW b \in Nat \ {0}, NEW o \in 0..(b - 1),
           NEW m, NEW i \in 1..Len(l), Met(l, m, i + 1, b, o), m[i].start % b = o
    PROVE  Met(l, m, i, b, o)
<1>1. MetCells(l, m, i + 1)
  BY DEF Met
<1>n2. NextIs(l, m, i)
  BY <1>1, NextMet
<1>2. /\ m \in Lists /\ Ordered(m) /\ i \in 1..Len(m) /\ Len(m) \in Nat
      /\ \A j \in 1..Len(m) : m[j].start \in Nat /\ m[j].end \in Nat
      /\ \A j \in 1..(i - 1) : m[j] = l[j]
  BY <1>1, <1>n2 DEF NextIs
<1>3. Len(l) \in Nat
  BY CellsOfLists
<1>4. MetCells(l, m, i)
  <2>1. \A j \in 1..Len(l) : j <= i - 1 => j \in 1..(i - 1)
    BY <1>3
  <2>2. i - 1 <= Len(m)
    BY <1>2
  <2>3. \A j \in 1..Len(l) : j < i - 1 => m[j] = l[j]
    BY <1>2, <2>1
  <2>4. \A j \in 1..Len(l) : j = i - 1 => m[j].start = l[j].start /\ m[j].stat = l[j].stat
    BY <1>2, <2>1
  <2> QED
    BY <1>2, <2>2, <2>3, <2>4 DEF MetCells
<1>5. MetStarts(m, i, b, o)
  <2>1. \A j \in 1..Len(m) : i <= j => j = i \/ i + 1 <= j
    BY <1>2
  <2>2. \A j \in 1..Len(m) : i + 1 <= j => m[j].start % b = o
    BY DEF Met, MetStarts
  <2> QED
    BY <2>1, <2>2 DEF MetStarts
<1>6. MetEnds(l, m, i, b, o)
  <2>1. ASSUME NEW j \in 1..Len(m), i - 1 <= j, m[j].end + 1 \in BlocksOf(l)
        PROVE  (m[j].end + 1) % b = o
    <3>1. CASE j = i - 1
      <4>1. m[j].end + 1 = m[i].start
        BY <1>1, <2>1, <3>1, NextAfter
      <4> QED
        BY <4>1
    <3>2. CASE j # i - 1
      <4>1. (i + 1) - 1 <= j
        BY <1>2, <2>1, <3>2
      <4> QED
        BY <2>1, <4>1 DEF Met, MetEnds
    <3> QED
      BY <3>1, <3>2
  <2> QED
    BY <2>1 DEF MetEnds
<1> QED
  BY <1>4, <1>5, <1>6 DEF Met

(* A range in which no block begins but at its last byte is dropped.       *)
LEMMA StartDropped ==
    ASSUME NEW l \in Lists, Ordered(l), NEW b \in Nat \ {0}, NEW o \in 0..(b - 1),
           NEW m, NEW i \in 1..Len(l), Met(l, m, i + 1, b, o), m[i].start % b # o,
           \A j \in 1..Len(m) : j = i - 1 => m[j].end + 1 # m[i].start,
           m[i].end <= RoundUp(m[i].start, b, o)
    PROVE  Met(l, RemoveAt(m, i), i, b, o)
<1> DEFINE n == RemoveAt(m, i)
           s == m[i].start
           e == m[i].end
<1>1. MetCells(l, m, i + 1)
  BY DEF Met
<1>n2. NextIs(l, m, i)
  BY <1>1, NextMet
<1>2. /\ m \in Lists /\ Ordered(m) /\ i \in 1..Len(m) /\ Len(m) \in Nat
      /\ \A j \in 1..Len(m) : m[j].start \in Nat /\ m[j].end \in Nat
      /\ \A j \in 1..(i - 1) : m[j] = l[j]
  BY <1>1, <1>n2 DEF NextIs
<1>3. Len(l) \in Nat
  BY CellsOfLists
<1>4. /\ n \in Lists /\ Ordered(n) /\ Len(n) = Len(m) - 1
      /\ BlocksOf(n) = BlocksOf(m) \ Extent(m[i])
  BY <1>2, RemovedCell
<1>5. \A j \in 1..(Len(m) - 1) : n[j] = IF j < i THEN m[j] ELSE m[j + 1]
  BY <1>2, RemoveAtCells DEF Lists
<1> HIDE DEF n
<1>6. /\ \A j \in 1..Len(n) : j < i => n[j] = m[j] /\ j \in 1..Len(m)
      /\ \A j \in 1..Len(n) : i <= j => n[j] = m[j + 1] /\ j + 1 \in 1..Len(m)
  BY <1>2, <1>4, <1>5
<1>7. MetCells(l, n, i)
  <2>1. \A j \in 1..Len(l) : j <= i - 1 => j \in 1..(i - 1) /\ j \in 1..Len(n) /\ j < i
    BY <1>2, <1>3, <1>4
  <2>2. i - 1 <= Len(n)
    BY <1>2, <1>4
  <2>3. ASSUME NEW j \in 1..Len(l), j <= i - 1 PROVE n[j] = l[j]
    <3>1. j \in 1..(i - 1) /\ j \in 1..Len(n) /\ j < i /\ j # i
      BY <2>1, <2>3
    <3>2. n[j] = m[j]
      BY <1>6, <3>1
    <3>3. m[j] = l[j]
      BY <1>2, <3>1
    <3> QED
      BY <3>2, <3>3
  <2>4. \A j \in 1..Len(l) : j < i - 1 \/ j = i - 1 => j <= i - 1
    OBVIOUS
  <2> QED
    BY <1>4, <2>2, <2>3, <2>4 DEF MetCells
<1>8. MetStarts(n, i, b, o)
  <2>1. ASSUME NEW j \in 1..Len(n), i <= j PROVE n[j].start % b = o
    <3>1. n[j] = m[j + 1] /\ j + 1 \in 1..Len(m) /\ i + 1 <= j + 1
      BY <1>6, <2>1
    <3> QED
      BY <3>1 DEF Met, MetStarts
  <2> QED
    BY <2>1 DEF MetStarts
<1>9. MetEnds(l, n, i, b, o)
  <2>1. ASSUME NEW j \in 1..Len(n), i - 1 <= j, n[j].end + 1 \in BlocksOf(l)
        PROVE  (n[j].end + 1) % b = o
    <3>1. CASE j = i - 1
      <4>1. n[j] = m[j] /\ j \in 1..Len(m)
        BY <1>6, <3>1
      <4>2. m[j].end + 1 = m[i].start
        BY <1>1, <2>1, <3>1, <4>1, NextAfter
      <4> QED
        BY <3>1, <4>1, <4>2
    <3>2. CASE j # i - 1
      <4>1. n[j] = m[j + 1] /\ j + 1 \in 1..Len(m) /\ (i + 1) - 1 <= j + 1
        BY <1>2, <1>6, <2>1, <3>2
      <4> QED
        BY <2>1, <4>1 DEF Met, MetEnds
    <3> QED
      BY <3>1, <3>2
  <2> QED
    BY <2>1 DEF MetEnds
<1>10. MetBlocks(l, n, b, o)
  <2>1. BlocksOf(n) \subseteq BlocksOf(l)
    BY <1>4 DEF Met, MetBlocks
  <2>2. ASSUME NEW x \in BlocksOf(l), x \notin BlocksOf(n)
        PROVE  \E y \in Block(x, b, o) : y \notin BlocksOf(l)
    <3>1. CASE x \notin BlocksOf(m)
      BY <3>1 DEF Met, MetBlocks, Lost
    <3>2. CASE x \in BlocksOf(m)
      <4>1. x \in Extent(m[i])
        BY <1>4, <2>2, <3>2
      <4>2. x \in Int /\ s <= x /\ x <= e /\ s \in Int /\ e \in Int
        BY <1>2, <4>1 DEF Extent
      <4>3. CASE x < RoundUp(s, b, o)
        <5>1. s - 1 \in Block(x, b, o)
          <6> HIDE DEF s
          <6> QED
            BY <4>2, <4>3, BlockBelow
        <5>2. s - 1 \notin BlocksOf(l)
          BY <1>1, NotBefore
        <5> QED
          BY <5>1, <5>2
      <4>4. CASE ~(x < RoundUp(s, b, o))
        <5> DEFINE z == RoundUp(s, b, o)
        <5>1. z \in Int /\ s <= z /\ z < s + b /\ z % b = o /\ (z = s <=> s % b = o)
          <6> HIDE DEF s
          <6>1. z \in Int /\ s <= z /\ z < s + b /\ z % b = o
            BY <4>2, RoundUpIs
          <6>2. z = s <=> s % b = o
            BY <4>2, OnGrid
          <6> QED
            BY <6>1, <6>2
        <5>2. x = z /\ e = z /\ b # 1
          BY <4>2, <4>4, <5>1
        <5> HIDE DEF z
        <5>3. z + 1 \in Block(x, b, o)
          <6>1. RoundDown(x, b, o) = z
            BY <5>1, <5>2, RoundDownOnly
          <6>2. z + 1 \in z..(z + b - 1)
            BY <5>1, <5>2
          <6> QED
            BY <6>1, <6>2 DEF Block
        <5>4. z + 1 \notin BlocksOf(l)
          <6> SUFFICES ASSUME z + 1 \in BlocksOf(l) PROVE FALSE
            OBVIOUS
          <6>1. m[i].end + 1 \in BlocksOf(l)
            BY <5>2
          <6>2. (i + 1) - 1 <= i
            OBVIOUS
          <6>3. (m[i].end + 1) % b = o
            BY <1>2, <6>1, <6>2 DEF Met, MetEnds
          <6>4. (z + 1) % b = z % b
            BY <5>1, <5>2, <6>3
          <6>5. z + b <= z + 1
            BY <5>1, <6>4, OnGridApart, SMTT(30)
          <6> QED
            BY <5>1, <5>2, <6>5
        <5> QED
          BY <5>3, <5>4
      <4> QED
        BY <4>3, <4>4
    <3> QED
      BY <3>1, <3>2
  <2> QED
    BY <2>1, <2>2 DEF MetBlocks, Lost
<1>11. MarksKept(l, n, b, o)
  <2>1. ASSUME NEW j \in 1..Len(l), l[j].stat # NoStat, l[j].start % b = o
        PROVE  \E k \in 1..Len(n) : /\ n[k].start = l[j].start /\ n[k].stat = l[j].stat
                                    /\ l[j].end <= n[k].end
    <3>1. PICK k \in 1..Len(m) : /\ m[k].start = l[j].start /\ m[k].stat = l[j].stat
                                 /\ l[j].end <= m[k].end
      BY <2>1 DEF Met, MarksKept
    <3>2. k # i
      BY <2>1, <3>1
    <3>3. \E u \in 1..Len(n) : n[u] = m[k]
      <4>1. CASE k < i
        <5>1. k \in 1..(Len(m) - 1)
          BY <1>2, <4>1
        <5> QED
          BY <1>4, <1>5, <4>1, <5>1
      <4>2. CASE i < k
        <5>1. k - 1 \in 1..(Len(m) - 1) /\ ~(k - 1 < i) /\ (k - 1) + 1 = k
          BY <1>2, <4>2
        <5>2. n[k - 1] = m[(k - 1) + 1]
          BY <1>5, <5>1
        <5> QED
          BY <1>4, <5>1, <5>2
      <4> QED
        BY <1>2, <3>2, <4>1, <4>2
    <3> QED
      BY <3>1, <3>3
  <2> QED
    BY <2>1 DEF MarksKept
<1>12. MarksFrom(l, n)
  <2>1. \A k \in 1..Len(n) : \E u \in 1..Len(m) : n[k] = m[u]
    BY <1>2, <1>4, <1>5, <1>6
  <2> QED
    BY <2>1, SMTT(30) DEF Met, MarksFrom
<1>13. Met(l, n, i, b, o)
  BY <1>7, <1>8, <1>9, <1>10, <1>11, <1>12 DEF Met
<1> QED
  BY <1>13 DEF n

(* Another range begins with its first block then, or with the rest of one *)
(* that is free to its end.                                                *)
LEMMA StartRounded ==
    ASSUME NEW l \in Lists, Ordered(l), NEW b \in Nat \ {0}, NEW o \in 0..(b - 1),
           NEW m, NEW i \in 1..Len(l), Met(l, m, i + 1, b, o), m[i].start % b # o,
           \A j \in 1..Len(m) : j = i - 1 => m[j].end + 1 # m[i].start,
           RoundUp(m[i].start, b, o) < m[i].end
    PROVE  LET q == [start |-> RoundUp(m[i].start, b, o), end |-> m[i].end, stat |-> NoStat]
           IN  Met(l, [m EXCEPT ![i] = q], i, b, o)
<1> DEFINE s == m[i].start
           e == m[i].end
           z == RoundUp(s, b, o)
           q == [start |-> z, end |-> e, stat |-> NoStat]
           n == [m EXCEPT ![i] = q]
<1>1. MetCells(l, m, i + 1)
  BY DEF Met
<1>n2. NextIs(l, m, i)
  BY <1>1, NextMet
<1>2. /\ m \in Lists /\ Ordered(m) /\ i \in 1..Len(m) /\ Len(m) \in Nat
      /\ \A j \in 1..Len(m) : m[j].start \in Nat /\ m[j].end \in Nat
      /\ \A j, k \in 1..Len(m) : j < k => m[j].end < m[k].start
      /\ \A j \in 1..(i - 1) : m[j] = l[j]
  BY <1>1, <1>n2 DEF NextIs
<1>3. Len(l) \in Nat
  BY CellsOfLists
<1>4. z \in Nat /\ s < z /\ z % b = o /\ z < e
  <2>1. s \in Int /\ s \in Nat
    BY <1>2
  <2>2. z \in Int /\ s <= z /\ z % b = o /\ (z = s <=> s % b = o)
    <3> HIDE DEF s
    <3>1. z \in Int /\ s <= z /\ z % b = o
      BY <2>1, RoundUpIs
    <3>2. z = s <=> s % b = o
      BY <2>1, OnGrid
    <3> QED
      BY <3>1, <3>2
  <2> HIDE DEF z
  <2> QED
    BY <2>1, <2>2 DEF z
<1> HIDE DEF z
<1>5. q \in RangeType /\ q.start = z /\ q.end = e /\ q.stat = NoStat
  BY <1>2, <1>4 DEF RangeType
<1>6. /\ \A j \in 1..Len(m) : j < i => m[j].end < q.start
      /\ \A j \in 1..Len(m) : i < j => q.end < m[j].start
  <2>1. \A j \in 1..Len(m) : (j < i => m[j].end < s) /\ (i < j => e < m[j].start)
    BY <1>2
  <2> HIDE DEF s, e, q
  <2>2. s \in Nat /\ e \in Nat
    BY <1>2 DEF s, e
  <2> QED
    BY <1>2, <1>4, <1>5, <2>1, <2>2, SMTT(30)
<1> HIDE DEF q
<1>7. /\ n \in Lists /\ Ordered(n) /\ Len(n) = Len(m)
      /\ BlocksOf(n) = (BlocksOf(m) \ Extent(m[i])) \cup Extent(q)
  <2>1. q.start <= q.end
    BY <1>2, <1>4, <1>5
  <2>2. q \in RangeType
    BY <1>5
  <2>3. m \in Lists /\ Ordered(m) /\ i \in 1..Len(m)
    BY <1>2
  <2>4. \A j \in 1..Len(m) : j < i => m[j].end < q.start
    BY <1>6
  <2>5. \A j \in 1..Len(m) : i < j => q.end < m[j].start
    BY <1>6
  <2> HIDE DEF s, e, n
  <2>6. Fits(m, i, q)
    BY <2>1, <2>2, <2>3, <2>4, <2>5 DEF Fits
  <2>7. [m EXCEPT ![i] = q] \in Lists /\ Len([m EXCEPT ![i] = q]) = Len(m)
    BY <2>6, FittingRange
  <2>8. Ordered([m EXCEPT ![i] = q])
    BY <2>6, FittingRange
  <2>9. \A x : x \in BlocksOf([m EXCEPT ![i] = q]) <=>
                  (x \in BlocksOf(m) /\ x \notin Extent(m[i])) \/ x \in Extent(q)
    BY <2>6, FittingRange
  <2>10. n \in Lists /\ Ordered(n) /\ Len(n) = Len(m)
    BY <2>7, <2>8 DEF n
  <2>11. \A x : x \in BlocksOf(n) <=>
                  (x \in BlocksOf(m) /\ x \notin Extent(m[i])) \/ x \in Extent(q)
    BY <2>9 DEF n
  <2> QED
    BY <2>10, <2>11
<1>8. \A j \in 1..Len(m) : n[j] = IF j = i THEN q ELSE m[j]
  BY <1>2, <1>5, ExceptCells DEF Lists
<1> HIDE DEF n
<1>9. MetCells(l, n, i)
  <2>1. \A j \in 1..Len(l) : j <= i - 1 => j \in 1..(i - 1) /\ j \in 1..Len(m) /\ j # i
    BY <1>2, <1>3
  <2>2. i - 1 <= Len(n)
    BY <1>2, <1>7
  <2>3. ASSUME NEW j \in 1..Len(l), j <= i - 1 PROVE n[j] = l[j]
    <3>1. j \in 1..(i - 1) /\ j \in 1..Len(m) /\ j < i /\ j # i
      BY <2>1, <2>3
    <3>2. n[j] = m[j]
      BY <1>8, <3>1
    <3>3. m[j] = l[j]
      BY <1>2, <3>1
    <3> QED
      BY <3>2, <3>3
  <2>4. \A j \in 1..Len(l) : j < i - 1 \/ j = i - 1 => j <= i - 1
    OBVIOUS
  <2> QED
    BY <1>7, <2>2, <2>3, <2>4 DEF MetCells
<1>10. MetStarts(n, i, b, o)
  <2>1. ASSUME NEW j \in 1..Len(n), i <= j PROVE n[j].start % b = o
    <3>1. CASE j = i
      BY <1>4, <1>5, <1>7, <1>8, <3>1
    <3>2. CASE j # i
      <4>1. n[j] = m[j] /\ j \in 1..Len(m) /\ i + 1 <= j
        BY <1>7, <1>8, <2>1, <3>2
      <4> QED
        BY <4>1 DEF Met, MetStarts
    <3> QED
      BY <3>1, <3>2
  <2> QED
    BY <2>1 DEF MetStarts
<1>11. MetEnds(l, n, i, b, o)
  <2>1. ASSUME NEW j \in 1..Len(n), i - 1 <= j, n[j].end + 1 \in BlocksOf(l)
        PROVE  (n[j].end + 1) % b = o
    <3>0. n[j].end = m[j].end /\ j \in 1..Len(m)
      BY <1>5, <1>7, <1>8
    <3>1. CASE j = i - 1
      <4>2. m[j].end + 1 = m[i].start
        BY <1>1, <2>1, <3>0, <3>1, NextAfter
      <4> QED
        BY <3>0, <3>1, <4>2
    <3>2. CASE j # i - 1
      <4>1. (i + 1) - 1 <= j
        BY <1>2, <2>1, <3>2
      <4> QED
        BY <2>1, <3>0, <4>1 DEF Met, MetEnds
    <3> QED
      BY <3>1, <3>2
  <2> QED
    BY <2>1 DEF MetEnds
<1>12. MetBlocks(l, n, b, o)
  <2>0. Extent(m[i]) = s..e /\ Extent(q) = z..e /\ s \in Nat /\ e \in Nat
    BY <1>2, <1>5 DEF Extent
  <2>1. BlocksOf(n) \subseteq BlocksOf(l)
    <3>1. Extent(q) \subseteq Extent(m[i])
      <4> HIDE DEF s, e
      <4> QED
        BY <1>4, <2>0
    <3>2. Extent(m[i]) \subseteq BlocksOf(m)
      BY <1>2, CellsOfLists DEF BlocksOf
    <3> QED
      BY <1>7, <3>1, <3>2 DEF Met, MetBlocks
  <2>2. ASSUME NEW x \in BlocksOf(l), x \notin BlocksOf(n)
        PROVE  \E y \in Block(x, b, o) : y \notin BlocksOf(l)
    <3>1. CASE x \notin BlocksOf(m)
      BY <3>1 DEF Met, MetBlocks, Lost
    <3>2. CASE x \in BlocksOf(m)
      <4>1. x \in Extent(m[i]) /\ x \notin Extent(q)
        BY <1>7, <2>2, <3>2
      <4>2. x \in Int /\ s <= x /\ x < z /\ s \in Int
        <5> HIDE DEF s, e
        <5> QED
          BY <1>4, <2>0, <4>1
      <4>3. s - 1 \in Block(x, b, o)
        <5> HIDE DEF s
        <5> QED
          BY <4>2, BlockBelow DEF z
      <4>4. s - 1 \notin BlocksOf(l)
        BY <1>1, NotBefore
      <4> QED
        BY <4>3, <4>4
    <3> QED
      BY <3>1, <3>2
  <2> QED
    BY <2>1, <2>2 DEF MetBlocks, Lost
<1>13. MarksKept(l, n, b, o)
  <2>1. ASSUME NEW j \in 1..Len(l), l[j].stat # NoStat, l[j].start % b = o
        PROVE  \E k \in 1..Len(n) : /\ n[k].start = l[j].start /\ n[k].stat = l[j].stat
                                    /\ l[j].end <= n[k].end
    <3>1. PICK k \in 1..Len(m) : /\ m[k].start = l[j].start /\ m[k].stat = l[j].stat
                                 /\ l[j].end <= m[k].end
      BY <2>1 DEF Met, MarksKept
    <3>2. k # i
      BY <2>1, <3>1
    <3>3. k \in 1..Len(n) /\ n[k] = m[k]
      BY <1>7, <1>8, <3>2
    <3> QED
      BY <3>1, <3>3
  <2> QED
    BY <2>1 DEF MarksKept
<1>14. MarksFrom(l, n)
  <2>1. ASSUME NEW k \in 1..Len(n), n[k].stat # NoStat
        PROVE  \E j \in 1..Len(l) : n[k].start = l[j].start /\ n[k].stat = l[j].stat
    <3>1. k # i
      BY <1>2, <1>5, <1>8, <2>1
    <3>2. n[k] = m[k] /\ k \in 1..Len(m)
      BY <1>7, <1>8, <3>1
    <3> QED
      BY <2>1, <3>2 DEF Met, MarksFrom
  <2> QED
    BY <2>1 DEF MarksFrom
<1>15. Met(l, n, i, b, o)
  BY <1>9, <1>10, <1>11, <1>12, <1>13, <1>14 DEF Met
<1> QED
  BY <1>15 DEF n, q, z

(* A range joined with the one before it.                                  *)
JoinedIs(m, n, i, p) ==
    /\ n \in Lists /\ Ordered(n) /\ Len(n) = Len(m) - 1
    /\ BlocksOf(n) = BlocksOf(m)
    /\ n[p].start = m[p].start /\ n[p].end = m[i].end /\ n[p].stat = m[p].stat
    /\ \A j \in 1..(Len(m) - 1) : j < p => n[j] = m[j]
    /\ \A j \in 1..(Len(m) - 1) : i <= j => n[j] = m[j + 1]

(* one cell less, and not a block more or less.                             *)
LEMMA JoinedRange ==
    ASSUME NEW m \in Lists, Ordered(m), NEW i \in 1..Len(m), NEW p \in 1..Len(m), p = i - 1,
           m[p].end + 1 = m[i].start
    PROVE  JoinedIs(m, RemoveAt([m EXCEPT ![p].end = m[i].end], i), i, p)
<1> DEFINE q == [start |-> m[p].start, end |-> m[i].end, stat |-> m[p].stat]
           a == [m EXCEPT ![p] = q]
           n == RemoveAt(a, i)
           k == RemoveAt(m, i)
           c == [k EXCEPT ![p] = q]
<1>1. /\ Len(m) \in Nat /\ DOMAIN m = 1..Len(m)
      /\ \A j \in 1..Len(m) : m[j] \in RangeType /\ m[j].start \in Nat /\ m[j].end \in Nat
      /\ \A j \in 1..Len(m) : m[j].start <= m[j].end
      /\ \A j, u \in 1..Len(m) : j < u => m[j].end < m[u].start
  BY CellsOfLists DEF Ordered
<1>2. /\ q \in RangeType /\ q.start = m[p].start /\ q.end = m[i].end /\ q.stat = m[p].stat
  BY <1>1 DEF RangeType
<1>3. [m EXCEPT ![p].end = m[i].end] = a
  <2>1. [m[p] EXCEPT !.end = m[i].end] = q
    BY <1>1 DEF RangeType
  <2> HIDE DEF q
  <2> QED
    BY <2>1
<1> HIDE DEF q
<1>4. /\ a \in Lists /\ Len(a) = Len(m)
      /\ \A j \in 1..Len(m) : a[j] = IF j = p THEN q ELSE m[j]
  BY <1>2, ExceptCells DEF Lists
<1> HIDE DEF a
<1>5. /\ n \in Lists /\ Len(n) = Len(m) - 1
      /\ \A j \in 1..(Len(m) - 1) : n[j] = IF j < i THEN a[j] ELSE a[j + 1]
  BY <1>4, RemoveAtCells DEF Lists
<1>6. /\ k \in Lists /\ Len(k) = Len(m) - 1 /\ Ordered(k)
      /\ BlocksOf(k) = BlocksOf(m) \ Extent(m[i])
  BY RemovedCell
<1>7. \A j \in 1..(Len(m) - 1) : k[j] = IF j < i THEN m[j] ELSE m[j + 1]
  BY RemoveAtCells DEF Lists
<1> HIDE DEF n, k
<1>8. p \in 1..(Len(m) - 1) /\ p < i
  BY <1>1
<1>9. /\ n[p] = q
      /\ \A j \in 1..(Len(m) - 1) : j < p => n[j] = m[j]
      /\ \A j \in 1..(Len(m) - 1) : i <= j => n[j] = m[j + 1]
  <2>1. n[p] = q
    BY <1>4, <1>5, <1>8
  <2>2. ASSUME NEW j \in 1..(Len(m) - 1), j < p PROVE n[j] = m[j]
    <3>1. j < i /\ j \in 1..Len(m) /\ j # p
      BY <1>1, <1>8, <2>2
    <3> QED
      BY <1>4, <1>5, <3>1
  <2>3. ASSUME NEW j \in 1..(Len(m) - 1), i <= j PROVE n[j] = m[j + 1]
    <3>1. ~(j < i) /\ j + 1 \in 1..Len(m) /\ j + 1 # p
      BY <1>1, <1>8, <2>3
    <3>2. n[j] = a[j + 1]
      BY <1>5, <3>1
    <3>3. a[j + 1] = m[j + 1]
      BY <1>4, <3>1
    <3> QED
      BY <3>2, <3>3
  <2> QED
    BY <2>1, <2>2, <2>3
<1>10. k[p] = m[p] /\ p \in 1..Len(k)
  BY <1>6, <1>7, <1>8
<1>11. /\ \A j \in 1..Len(k) : j < p => k[j].end < q.start
       /\ \A j \in 1..Len(k) : p < j => q.end < k[j].start
  <2>1. ASSUME NEW j \in 1..Len(k), j < p PROVE k[j].end < q.start
    <3>1. j < i /\ j \in 1..Len(m) /\ j \in 1..(Len(m) - 1)
      BY <1>1, <1>6, <1>8, <2>1
    <3>2. k[j] = m[j]
      BY <1>7, <3>1
    <3> QED
      BY <1>1, <1>2, <2>1, <3>1, <3>2
  <2>2. ASSUME NEW j \in 1..Len(k), p < j PROVE q.end < k[j].start
    <3> DEFINE u == j + 1
    <3>1. ~(j < i) /\ u \in 1..Len(m) /\ i < u /\ j \in 1..(Len(m) - 1)
      BY <1>1, <1>6, <1>8, <2>2
    <3>2. k[j] = m[u]
      BY <1>7, <3>1
    <3> HIDE DEF u
    <3>3. m[i].end < m[u].start
      BY <1>1, <3>1
    <3> QED
      BY <1>2, <3>2, <3>3
  <2> QED
    BY <2>1, <2>2
<1>12. /\ c \in Lists /\ Len(c) = Len(k) /\ Ordered(c)
       /\ BlocksOf(c) = (BlocksOf(k) \ Extent(k[p])) \cup Extent(q)
  <2>1. q.start <= q.end
    <3>1. m[p].end < m[i].start /\ m[i].start <= m[i].end /\ m[p].start <= m[p].end
      BY <1>1, <1>8
    <3> QED
      BY <1>1, <1>2, <3>1
  <2>2. \A j \in 1..Len(k) : j < p => k[j].end < q.start
    BY <1>11
  <2>3. \A j \in 1..Len(k) : p < j => q.end < k[j].start
    BY <1>11
  <2>4. k \in Lists /\ Ordered(k) /\ p \in 1..Len(k) /\ q \in RangeType
    BY <1>2, <1>6, <1>10
  <2>5. Fits(k, p, q)
    BY <2>1, <2>2, <2>3, <2>4 DEF Fits
  <2>6. c \in Lists
    BY <2>5, FittingRange
  <2>7. Len(c) = Len(k)
    BY <2>5, FittingRange
  <2>8. Ordered(c)
    BY <2>5, FittingRange
  <2>9. \A x : x \in BlocksOf(c) <=>
                  (x \in BlocksOf(k) /\ x \notin Extent(k[p])) \/ x \in Extent(q)
    BY <2>5, FittingRange
  <2> QED
    BY <2>6, <2>7, <2>8, <2>9
<1>13. c = n
  <2>1. \A j \in 1..Len(k) : c[j] = IF j = p THEN q ELSE k[j]
    BY <1>2, <1>6, <1>10, ExceptCells DEF Lists
  <2> HIDE DEF c
  <2>2. ASSUME NEW j \in 1..(Len(m) - 1) PROVE c[j] = n[j]
    <3>1. CASE j = p
      BY <1>6, <1>9, <2>1, <3>1
    <3>2. CASE j < p
      <4>1. j < i /\ j # p
        BY <1>8, <3>2
      <4> QED
        BY <1>6, <1>7, <1>9, <2>1, <3>2, <4>1
    <3>3. CASE p < j
      <4>1. ~(j < i) /\ j # p /\ i <= j
        BY <1>8, <3>3
      <4> QED
        BY <1>6, <1>7, <1>9, <2>1, <4>1
    <3> QED
      BY <1>8, <3>1, <3>2, <3>3
  <2>3. c \in Seq(RangeType) /\ n \in Seq(RangeType) /\ Len(c) = Len(n)
    BY <1>5, <1>6, <1>12 DEF Lists
  <2>4. \A j \in 1..Len(c) : c[j] = n[j]
    BY <1>6, <1>12, <2>2
  <2> QED
    BY <2>3, <2>4, SeqEqual
<1> HIDE DEF c
<1>14. BlocksOf(n) = BlocksOf(m)
  <2>1. \A x : x \in Extent(q) <=> x \in Extent(m[p]) \/ x \in Extent(m[i])
    <3>1. /\ m[p].start \in Nat /\ m[p].end \in Nat /\ m[i].end \in Nat
          /\ m[p].start <= m[p].end /\ m[i].start <= m[i].end
      BY <1>1
    <3> QED
      BY <1>2, <3>1 DEF Extent
  <2>2. Extent(m[p]) \subseteq BlocksOf(m) /\ Extent(m[i]) \subseteq BlocksOf(m)
    BY <1>1 DEF BlocksOf
  <2>3. BlocksOf(n) = ((BlocksOf(m) \ Extent(m[i])) \ Extent(m[p])) \cup Extent(q)
    BY <1>6, <1>10, <1>12, <1>13
  <2> QED
    BY <2>1, <2>2, <2>3
<1>15. n \in Lists /\ Ordered(n) /\ Len(n) = Len(m) - 1
  BY <1>5, <1>12, <1>13
<1>16. n[p].start = m[p].start /\ n[p].end = m[i].end /\ n[p].stat = m[p].stat
  BY <1>2, <1>9
<1>17. JoinedIs(m, n, i, p)
  BY <1>9, <1>14, <1>15, <1>16 DEF JoinedIs
<1> QED
  BY <1>3, <1>17 DEF n

(* A range joined with the one before it goes on where that one ended.     *)
LEMMA StartJoined ==
    ASSUME NEW l \in Lists, Ordered(l), NEW b \in Nat \ {0}, NEW o \in 0..(b - 1),
           NEW m, NEW i \in 1..Len(l), Met(l, m, i + 1, b, o), m[i].start % b # o,
           NEW p \in 1..Len(m), p = i - 1, m[p].end + 1 = m[i].start
    PROVE  Met(l, RemoveAt([m EXCEPT ![p].end = m[i].end], i), i, b, o)
<1>1. MetCells(l, m, i + 1)
  BY DEF Met
<1>n2. NextIs(l, m, i)
  BY <1>1, NextMet
<1>2. /\ m \in Lists /\ Ordered(m) /\ i \in 1..Len(m) /\ Len(m) \in Nat
      /\ \A j \in 1..Len(m) : m[j].start \in Nat /\ m[j].end \in Nat
      /\ \A j \in 1..(i - 1) : m[j] = l[j]
  BY <1>1, <1>n2 DEF NextIs
<1>3. Len(l) \in Nat
  BY CellsOfLists
<1> DEFINE n == RemoveAt([m EXCEPT ![p].end = m[i].end], i)
<1>n4. JoinedIs(m, n, i, p)
  BY <1>2, JoinedRange
<1> HIDE DEF n
<1>4. /\ n \in Lists /\ Ordered(n) /\ Len(n) = Len(m) - 1
      /\ BlocksOf(n) = BlocksOf(m)
      /\ n[p].start = m[p].start /\ n[p].end = m[i].end /\ n[p].stat = m[p].stat
      /\ \A j \in 1..(Len(m) - 1) : j < p => n[j] = m[j]
      /\ \A j \in 1..(Len(m) - 1) : i <= j => n[j] = m[j + 1]
  BY <1>n4 DEF JoinedIs
<1>5. p \in 1..Len(n) /\ p < i
  BY <1>2, <1>4
<1>6. m[p].end <= m[i].end
  <2>1. /\ \A j \in 1..Len(m) : m[j].start <= m[j].end
        /\ m[p].end \in Nat /\ m[i].start \in Nat /\ m[i].end \in Nat
    BY <1>2, CellsOfLists DEF Ordered
  <2>2. m[i].start <= m[i].end
    BY <1>2, <2>1
  <2> QED
    BY <2>1, <2>2, SMTT(30)
<1>7. MetCells(l, n, i)
  <2>2. i - 1 <= Len(n)
    BY <1>5
  <2>3. ASSUME NEW j \in 1..Len(l), j < i - 1 PROVE n[j] = l[j]
    <3>1. j \in 1..(i - 1) /\ j \in 1..(Len(m) - 1) /\ j < p
      BY <1>2, <1>4, <1>5, <2>3, SMTT(30)
    <3>2. n[j] = m[j]
      BY <1>4, <3>1
    <3>3. m[j] = l[j]
      BY <1>2, <3>1
    <3> QED
      BY <3>2, <3>3
  <2>4. ASSUME NEW j \in 1..Len(l), j = i - 1 PROVE n[j].start = l[j].start /\ n[j].stat = l[j].stat
    <3>1. j = p /\ j \in 1..(i - 1)
      BY <2>4
    <3>2. m[p] = l[p]
      BY <1>2, <3>1
    <3> QED
      BY <1>4, <3>1, <3>2
  <2> QED
    BY <1>4, <2>2, <2>3, <2>4 DEF MetCells
<1>8. MetStarts(n, i, b, o)
  <2>1. ASSUME NEW j \in 1..Len(n), i <= j PROVE n[j].start % b = o
    <3>1. j \in 1..(Len(m) - 1) /\ j + 1 \in 1..Len(m) /\ i + 1 <= j + 1
      BY <1>2, <1>4, <2>1, SMTT(30)
    <3>2. n[j] = m[j + 1]
      BY <1>4, <2>1, <3>1
    <3> QED
      BY <3>1, <3>2 DEF Met, MetStarts
  <2> QED
    BY <2>1 DEF MetStarts
<1>9. MetEnds(l, n, i, b, o)
  <2>1. ASSUME NEW j \in 1..Len(n), i - 1 <= j, n[j].end + 1 \in BlocksOf(l)
        PROVE  (n[j].end + 1) % b = o
    <3> DEFINE u == j + 1
    <3>1. n[j].end = m[u].end /\ u \in 1..Len(m) /\ (i + 1) - 1 <= u
      <4>1. CASE j = p
        <5>1. u = i
          BY <4>1
        <5> QED
          BY <1>2, <1>4, <4>1, <5>1
      <4>2. CASE j # p
        <5>1. j \in 1..(Len(m) - 1) /\ u \in 1..Len(m) /\ i <= j
          BY <1>2, <1>4, <2>1, <4>2
        <5> QED
          BY <1>4, <5>1
      <4> QED
        BY <4>1, <4>2
    <3> HIDE DEF u
    <3> QED
      BY <2>1, <3>1 DEF Met, MetEnds
  <2> QED
    BY <2>1 DEF MetEnds
<1>10. MetBlocks(l, n, b, o)
  BY <1>4 DEF Met, MetBlocks, Lost
<1>11. MarksKept(l, n, b, o)
  <2>1. ASSUME NEW j \in 1..Len(l), l[j].stat # NoStat, l[j].start % b = o
        PROVE  \E k \in 1..Len(n) : /\ n[k].start = l[j].start /\ n[k].stat = l[j].stat
                                    /\ l[j].end <= n[k].end
    <3>1. PICK k \in 1..Len(m) : /\ m[k].start = l[j].start /\ m[k].stat = l[j].stat
                                 /\ l[j].end <= m[k].end
      BY <2>1 DEF Met, MarksKept
    <3>2. k # i
      BY <2>1, <3>1
    <3>3. CASE k = p
      <4>1. l[j].end \in Nat /\ m[p].end \in Nat /\ m[i].end \in Nat
        BY <1>2, CellsOfLists
      <4>2. n[p].start = l[j].start /\ n[p].stat = l[j].stat /\ l[j].end <= n[p].end
        <5>1. m[p].start = l[j].start /\ m[p].stat = l[j].stat /\ l[j].end <= m[p].end
          BY <3>1, <3>3
        <5> DEFINE c == l[j].end
                   d == m[p].end
                   e == m[i].end
        <5>3. c \in Nat /\ d \in Nat /\ e \in Nat /\ c <= d /\ d <= e
          BY <1>6, <4>1, <5>1
        <5> HIDE DEF c, d, e
        <5>4. c <= e
          BY <5>3
        <5>2. l[j].end <= m[i].end
          BY <5>4 DEF c, e
        <5> QED
          BY <1>4, <5>1, <5>2
      <4> QED
        BY <1>5, <4>2
    <3>4. CASE k < p
      <4>1. k \in 1..(Len(m) - 1)
        BY <1>2, <3>4
      <4> QED
        BY <1>4, <3>1, <3>4, <4>1
    <3>5. CASE i < k
      <4>1. k - 1 \in 1..(Len(m) - 1) /\ i <= k - 1 /\ (k - 1) + 1 = k
        BY <1>2, <3>5
      <4>2. n[k - 1] = m[(k - 1) + 1]
        BY <1>4, <4>1
      <4> QED
        BY <1>4, <3>1, <4>1, <4>2
    <3> QED
      BY <3>2, <3>3, <3>4, <3>5
  <2> QED
    BY <2>1 DEF MarksKept
<1>12. MarksFrom(l, n)
  <2>1. ASSUME NEW k \in 1..Len(n)
        PROVE  \E u \in 1..Len(m) : n[k].start = m[u].start /\ n[k].stat = m[u].stat
    <3>1. CASE k = p
      BY <1>4, <3>1
    <3>2. CASE k < p
      <4>1. k \in 1..(Len(m) - 1) /\ k \in 1..Len(m)
        BY <1>2, <1>4
      <4> QED
        BY <1>4, <3>2, <4>1
    <3>3. CASE p < k
      <4>1. k \in 1..(Len(m) - 1) /\ k + 1 \in 1..Len(m) /\ i <= k
        BY <1>2, <1>4, <3>3, SMTT(30)
      <4>2. n[k] = m[k + 1]
        BY <1>4, <4>1
      <4> QED
        BY <4>1, <4>2
    <3> QED
      BY <3>1, <3>2, <3>3, SMTT(30)
  <2> QED
    BY <2>1 DEF Met, MarksFrom
<1>13. Met(l, n, i, b, o)
  BY <1>7, <1>8, <1>9, <1>10, <1>11, <1>12 DEF Met
<1> QED
  BY <1>13 DEF n

(* One range is met.                                                       *)
LEMMA StartMet ==
    ASSUME NEW l \in Lists, Ordered(l), NEW b \in Nat \ {0}, NEW o \in 0..(b - 1),
           NEW m, NEW i \in 1..Len(l), Met(l, m, i + 1, b, o)
    PROVE  Met(l, AlignStart(m, i, b, o), i, b, o)
<1> DEFINE s == m[i].start
           e == m[i].end
           z == RoundUp(s, b, o)
           joins == i > 1 /\ m[i - 1].end + 1 = s
           q == [start |-> z, end |-> e, stat |-> NoStat]
<1>1. MetCells(l, m, i + 1)
  BY DEF Met
<1>n2. NextIs(l, m, i)
  BY <1>1, NextMet
<1>2. /\ i \in 1..Len(m) /\ Len(m) \in Nat
      /\ \A j \in 1..Len(m) : m[j].start \in Nat /\ m[j].end \in Nat
  BY <1>1, <1>n2 DEF NextIs
<1>3. s \in Int /\ z \in Int /\ e \in Int /\ (z = s <=> s % b = o)
  <2>1. s \in Int /\ e \in Int
    BY <1>2
  <2> HIDE DEF s, e
  <2>2. z \in Int
    BY <2>1, RoundUpIs
  <2>3. z = s <=> s % b = o
    BY <2>1, OnGrid
  <2> QED
    BY <2>1, <2>2, <2>3
<1>4. AlignStart(m, i, b, o) =
          IF s = z THEN m
          ELSE IF joins THEN RemoveAt([m EXCEPT ![i - 1].end = e], i)
          ELSE IF z >= e THEN RemoveAt(m, i) ELSE [m EXCEPT ![i] = q]
  BY DEF AlignStart
<1>5. CASE s = z
  <2>1. s % b = o
    BY <1>3, <1>5
  <2>2. Met(l, m, i, b, o)
    BY <2>1, StartKept
  <2> QED
    BY <1>4, <1>5, <2>2
<1>6. CASE s # z /\ joins
  <2> DEFINE p == i - 1
  <2>1. p \in 1..Len(m) /\ m[p].end + 1 = m[i].start
    BY <1>2, <1>6
  <2>2. s % b # o
    BY <1>3, <1>6
  <2>3. AlignStart(m, i, b, o) = RemoveAt([m EXCEPT ![p].end = m[i].end], i)
    BY <1>4, <1>6
  <2>4. p = i - 1
    OBVIOUS
  <2> HIDE DEF p
  <2>5. Met(l, RemoveAt([m EXCEPT ![p].end = m[i].end], i), i, b, o)
    BY <2>1, <2>2, <2>4, StartJoined
  <2> QED
    BY <2>3, <2>5
<1>7. CASE s # z /\ ~joins
  <2>1. s % b # o
    BY <1>3, <1>7
  <2>2. \A j \in 1..Len(m) : j = i - 1 => m[j].end + 1 # m[i].start
    <3>1. \A j \in 1..Len(m) : j = i - 1 => i > 1 /\ m[j] = m[i - 1]
      BY <1>2
    <3> QED
      BY <1>7, <3>1
  <2>3. CASE z >= e
    <3>1. m[i].end <= RoundUp(m[i].start, b, o)
      <4> HIDE DEF z
      <4>1. e <= z
        BY <1>3, <2>3
      <4> QED
        BY <4>1 DEF z
    <3>2. Met(l, RemoveAt(m, i), i, b, o)
      BY <2>1, <2>2, <3>1, StartDropped
    <3> QED
      BY <1>4, <1>7, <2>3, <3>2
  <2>4. CASE ~(z >= e)
    <3>1. RoundUp(m[i].start, b, o) < m[i].end
      <4> HIDE DEF z
      <4>1. z < e
        BY <1>3, <2>4
      <4> QED
        BY <4>1 DEF z
    <3>2. Met(l, [m EXCEPT ![i] = q], i, b, o)
      BY <2>1, <2>2, <3>1, StartRounded
    <3> QED
      BY <1>4, <1>7, <2>4, <3>2
  <2> QED
    BY <2>3, <2>4
<1> QED
  BY <1>5, <1>6, <1>7

(* update_blocksize meets the ranges from the tail on, for their starts    *)
StartsBy(f, l, b, o) ==
    /\ f[Len(l) + 1] = l /\ f[1] = AlignStarts(l, b, o)
    /\ \A i \in 1..Len(l) : f[i] = AlignStart(f[i + 1], i, b, o)

(* One step for each range, from the list to what it becomes.               *)
LEMMA AlignStartsAre ==
    ASSUME NEW l \in Lists, NEW b, NEW o
    PROVE  \E f : StartsBy(f, l, b, o)
<1> DEFINE n == Len(l)
           At(i, g) == IF i > n THEN l ELSE AlignStart(g[i + 1], i, b, o)
           P(m, g) == g = [i \in (n + 1 - m)..(n + 1) |-> At(i, g)]
           Q(g) == g = [i \in 1..(n + 1) |-> At(i, g)]
           M == { m \in Nat : m <= n => \E g : P(m, g) }
<1>1. n \in Nat
  BY CellsOfLists
<1>2. 0 \in M
  <2> DEFINE g == [i \in (n + 1 - 0)..(n + 1) |-> l]
  <2>1. \A i \in (n + 1 - 0)..(n + 1) : i > n
    BY <1>1
  <2>2. P(0, g)
    BY <2>1
  <2> HIDE DEF P, g
  <2> QED
    BY <2>2
<1>3. ASSUME NEW m \in Nat, m \in M PROVE m + 1 \in M
  <2>1. SUFFICES ASSUME m + 1 <= n PROVE \E g : P(m + 1, g)
    OBVIOUS
  <2>2. PICK g : P(m, g)
    <3> HIDE DEF P
    <3> QED
      BY <1>1, <1>3, <2>1
  <2> DEFINE d == n - m
             h == [i \in d..(n + 1) |-> IF i > d THEN g[i] ELSE AlignStart(g[d + 1], d, b, o)]
  <2>3. d \in Nat /\ d <= n /\ d >= 1 /\ n + 1 - (m + 1) = d /\ n + 1 - m = d + 1
    BY <1>1, <2>1
  <2>4. g = [i \in (d + 1)..(n + 1) |-> At(i, g)]
    BY <2>2, <2>3
  <2> HIDE DEF n, d
  <2>5. ASSUME NEW i \in d..(n + 1) PROVE h[i] = At(i, h)
    <3>1. CASE i > n
      <4>1. i > d /\ i \in (d + 1)..(n + 1)
        BY <1>1, <2>3, <3>1
      <4> QED
        BY <2>4, <3>1, <4>1
    <3>2. CASE i <= n /\ i > d
      <4>1. i \in (d + 1)..(n + 1) /\ i + 1 \in d..(n + 1) /\ i + 1 > d /\ ~(i > n)
        BY <1>1, <2>3, <3>2
      <4>2. h[i] = g[i] /\ h[i + 1] = g[i + 1]
        BY <3>2, <4>1
      <4>3. g[i] = AlignStart(g[i + 1], i, b, o)
        BY <2>4, <4>1
      <4> QED
        BY <4>1, <4>2, <4>3
    <3>3. CASE i = d
      <4>1. d + 1 \in d..(n + 1) /\ d + 1 > d /\ ~(d > n) /\ ~(d > d)
        BY <1>1, <2>3
      <4>2. h[d + 1] = g[d + 1]
        BY <4>1
      <4>3. h[d] = AlignStart(g[d + 1], d, b, o)
        BY <4>1, <3>3
      <4> QED
        BY <3>3, <4>1, <4>2, <4>3
    <3> QED
      BY <1>1, <2>3, <3>1, <3>2, <3>3
  <2>6. h = [i \in d..(n + 1) |-> h[i]]
    OBVIOUS
  <2> HIDE DEF h
  <2>7. h = [i \in d..(n + 1) |-> At(i, h)]
    BY <2>5, <2>6
  <2>8. P(m + 1, h)
    BY <2>3, <2>7
  <2> HIDE DEF P
  <2> QED
    BY <2>8
<1>4. n \in M
  <2> HIDE DEF M
  <2> QED
    BY <1>1, <1>2, <1>3, CountUp
<1>5. \E g : Q(g)
  <2>1. PICK g : P(n, g)
    <3> HIDE DEF P, n
    <3> QED
      BY <1>1, <1>4
  <2>2. n + 1 - n = 1
    BY <1>1
  <2> HIDE DEF n
  <2>3. Q(g)
    BY <2>1, <2>2
  <2> HIDE DEF Q
  <2> QED
    BY <2>3
<1> DEFINE f == CHOOSE g : Q(g)
<1>6. AlignStarts(l, b, o) = f[1]
  BY DEF AlignStarts
<1> HIDE DEF Q, f
<1>7. Q(f)
  BY <1>5 DEF f
<1>8. f = [i \in 1..(n + 1) |-> At(i, f)]
  BY <1>7 DEF Q
<1> HIDE DEF n
<1>9. f[n + 1] = l
  <2>1. n + 1 \in 1..(n + 1) /\ n + 1 > n
    BY <1>1
  <2> QED
    BY <1>8, <2>1
<1>10. ASSUME NEW i \in 1..n PROVE f[i] = AlignStart(f[i + 1], i, b, o)
  <2>1. i \in 1..(n + 1) /\ ~(i > n)
    BY <1>1
  <2> QED
    BY <1>8, <2>1
<1>11. StartsBy(f, l, b, o)
  BY <1>6, <1>9, <1>10 DEF n, StartsBy
<1> QED
  BY <1>11

(* and again for their ends.                                               *)
EndsBy(f, l, b, o) ==
    /\ f[Len(l) + 1] = l /\ f[1] = AlignEnds(l, b, o)
    /\ \A i \in 1..Len(l) : f[i] = AlignEnd(f[i + 1], i, b, o)

(* One step for each range, from the list to what it becomes.               *)
LEMMA AlignEndsAre ==
    ASSUME NEW l \in Lists, NEW b, NEW o
    PROVE  \E f : EndsBy(f, l, b, o)
<1> DEFINE n == Len(l)
           At(i, g) == IF i > n THEN l ELSE AlignEnd(g[i + 1], i, b, o)
           P(m, g) == g = [i \in (n + 1 - m)..(n + 1) |-> At(i, g)]
           Q(g) == g = [i \in 1..(n + 1) |-> At(i, g)]
           M == { m \in Nat : m <= n => \E g : P(m, g) }
<1>1. n \in Nat
  BY CellsOfLists
<1>2. 0 \in M
  <2> DEFINE g == [i \in (n + 1 - 0)..(n + 1) |-> l]
  <2>1. \A i \in (n + 1 - 0)..(n + 1) : i > n
    BY <1>1
  <2>2. P(0, g)
    BY <2>1
  <2> HIDE DEF P, g
  <2> QED
    BY <2>2
<1>3. ASSUME NEW m \in Nat, m \in M PROVE m + 1 \in M
  <2>1. SUFFICES ASSUME m + 1 <= n PROVE \E g : P(m + 1, g)
    OBVIOUS
  <2>2. PICK g : P(m, g)
    <3> HIDE DEF P
    <3> QED
      BY <1>1, <1>3, <2>1
  <2> DEFINE d == n - m
             h == [i \in d..(n + 1) |-> IF i > d THEN g[i] ELSE AlignEnd(g[d + 1], d, b, o)]
  <2>3. d \in Nat /\ d <= n /\ d >= 1 /\ n + 1 - (m + 1) = d /\ n + 1 - m = d + 1
    BY <1>1, <2>1
  <2>4. g = [i \in (d + 1)..(n + 1) |-> At(i, g)]
    BY <2>2, <2>3
  <2> HIDE DEF n, d
  <2>5. ASSUME NEW i \in d..(n + 1) PROVE h[i] = At(i, h)
    <3>1. CASE i > n
      <4>1. i > d /\ i \in (d + 1)..(n + 1)
        BY <1>1, <2>3, <3>1
      <4> QED
        BY <2>4, <3>1, <4>1
    <3>2. CASE i <= n /\ i > d
      <4>1. i \in (d + 1)..(n + 1) /\ i + 1 \in d..(n + 1) /\ i + 1 > d /\ ~(i > n)
        BY <1>1, <2>3, <3>2
      <4>2. h[i] = g[i] /\ h[i + 1] = g[i + 1]
        BY <3>2, <4>1
      <4>3. g[i] = AlignEnd(g[i + 1], i, b, o)
        BY <2>4, <4>1
      <4> QED
        BY <4>1, <4>2, <4>3
    <3>3. CASE i = d
      <4>1. d + 1 \in d..(n + 1) /\ d + 1 > d /\ ~(d > n) /\ ~(d > d)
        BY <1>1, <2>3
      <4>2. h[d + 1] = g[d + 1]
        BY <4>1
      <4>3. h[d] = AlignEnd(g[d + 1], d, b, o)
        BY <4>1, <3>3
      <4> QED
        BY <3>3, <4>1, <4>2, <4>3
    <3> QED
      BY <1>1, <2>3, <3>1, <3>2, <3>3
  <2>6. h = [i \in d..(n + 1) |-> h[i]]
    OBVIOUS
  <2> HIDE DEF h
  <2>7. h = [i \in d..(n + 1) |-> At(i, h)]
    BY <2>5, <2>6
  <2>8. P(m + 1, h)
    BY <2>3, <2>7
  <2> HIDE DEF P
  <2> QED
    BY <2>8
<1>4. n \in M
  <2> HIDE DEF M
  <2> QED
    BY <1>1, <1>2, <1>3, CountUp
<1>5. \E g : Q(g)
  <2>1. PICK g : P(n, g)
    <3> HIDE DEF P, n
    <3> QED
      BY <1>1, <1>4
  <2>2. n + 1 - n = 1
    BY <1>1
  <2> HIDE DEF n
  <2>3. Q(g)
    BY <2>1, <2>2
  <2> HIDE DEF Q
  <2> QED
    BY <2>3
<1> DEFINE f == CHOOSE g : Q(g)
<1>6. AlignEnds(l, b, o) = f[1]
  BY DEF AlignEnds
<1> HIDE DEF Q, f
<1>7. Q(f)
  BY <1>5 DEF f
<1>8. f = [i \in 1..(n + 1) |-> At(i, f)]
  BY <1>7 DEF Q
<1> HIDE DEF n
<1>9. f[n + 1] = l
  <2>1. n + 1 \in 1..(n + 1) /\ n + 1 > n
    BY <1>1
  <2> QED
    BY <1>8, <2>1
<1>10. ASSUME NEW i \in 1..n PROVE f[i] = AlignEnd(f[i + 1], i, b, o)
  <2>1. i \in 1..(n + 1) /\ ~(i > n)
    BY <1>1
  <2> QED
    BY <1>8, <2>1
<1>11. EndsBy(f, l, b, o)
  BY <1>6, <1>9, <1>10 DEF n, EndsBy
<1> QED
  BY <1>11

(* Before the first range is met nothing has changed.                      *)
LEMMA NothingMet ==
    ASSUME NEW l \in Lists, Ordered(l), NEW b \in Nat \ {0}, NEW o \in 0..(b - 1)
    PROVE  Met(l, l, Len(l) + 1, b, o)
<1>1. /\ Len(l) \in Nat /\ DOMAIN l = 1..Len(l)
      /\ \A k \in 1..Len(l) : l[k].start \in Nat /\ l[k].end \in Nat
  BY CellsOfLists
<1>2. /\ \A k \in 1..Len(l) : l[k].start <= l[k].end
      /\ \A k, n \in 1..Len(l) : k < n => l[k].end < l[n].start
  BY <1>1 DEF Ordered
<1>3. MetCells(l, l, Len(l) + 1)
  BY <1>1 DEF MetCells
<1>4. MetStarts(l, Len(l) + 1, b, o)
  BY <1>1 DEF MetStarts
<1>5. MetEnds(l, l, Len(l) + 1, b, o)
  <2>1. ASSUME NEW j \in 1..Len(l), (Len(l) + 1) - 1 <= j, l[j].end + 1 \in BlocksOf(l)
        PROVE  FALSE
    <3>1. PICK k \in 1..Len(l) : l[j].end + 1 \in l[k].start..l[k].end
      BY <2>1, BlockInList DEF Lists
    <3>2. l[j].end + 1 <= l[k].end
      BY <1>1, <3>1
    <3>3. k = j \/ k < j
      BY <1>1, <2>1
    <3>4. k < j => l[k].end < l[j].start
      BY <1>2
    <3>5. l[j].start <= l[j].end /\ l[j].start \in Nat /\ l[j].end \in Nat /\ l[k].end \in Nat
      BY <1>1, <1>2
    <3> QED
      BY <3>2, <3>3, <3>4, <3>5
  <2> QED
    BY <2>1 DEF MetEnds
<1>6. MetBlocks(l, l, b, o)
  BY DEF MetBlocks, Lost
<1>7. MarksKept(l, l, b, o)
  <2>1. \A j \in 1..Len(l) : l[j].end <= l[j].end
    BY <1>1
  <2> QED
    BY <2>1 DEF MarksKept
<1>8. MarksFrom(l, l)
  BY DEF MarksFrom
<1> QED
  BY <1>3, <1>4, <1>5, <1>6, <1>7, <1>8 DEF Met

(* After all were, every range begins with a block.                        *)
LEMMA StartsMet ==
    ASSUME NEW l \in Lists, Ordered(l), NEW b \in Nat \ {0}, NEW o \in 0..(b - 1)
    PROVE  Met(l, AlignStarts(l, b, o), 1, b, o)
<1>0. PICK f : StartsBy(f, l, b, o)
  BY AlignStartsAre
<1>1. /\ f[Len(l) + 1] = l /\ f[1] = AlignStarts(l, b, o)
      /\ \A i \in 1..Len(l) : f[i] = AlignStart(f[i + 1], i, b, o)
  BY <1>0 DEF StartsBy
<1> DEFINE n == Len(l)
           M == { k \in Nat : k <= n => Met(l, f[n + 1 - k], n + 1 - k, b, o) }
<1>2. n \in Nat
  BY CellsOfLists
<1> HIDE DEF n
<1>3. 0 \in M
  <2>1. n + 1 - 0 = Len(l) + 1
    BY <1>2 DEF n
  <2>2. Met(l, l, Len(l) + 1, b, o)
    BY NothingMet
  <2> QED
    BY <1>1, <2>1, <2>2
<1>4. ASSUME NEW k \in Nat, k \in M PROVE k + 1 \in M
  <2> SUFFICES ASSUME k + 1 <= n PROVE Met(l, f[n + 1 - (k + 1)], n + 1 - (k + 1), b, o)
    OBVIOUS
  <2> DEFINE i == n - k
  <2>1. i \in 1..Len(l) /\ n + 1 - (k + 1) = i /\ n + 1 - k = i + 1 /\ k <= n
    BY <1>2 DEF n
  <2>2. Met(l, f[i + 1], i + 1, b, o)
    BY <1>4, <2>1
  <2>3. f[i] = AlignStart(f[i + 1], i, b, o)
    BY <1>1, <2>1
  <2> HIDE DEF i
  <2> DEFINE m == f[i + 1]
  <2>4. Met(l, m, i + 1, b, o)
    BY <2>2
  <2> HIDE DEF m
  <2>5. Met(l, AlignStart(m, i, b, o), i, b, o)
    BY <2>1, <2>4, StartMet
  <2>6. Met(l, f[i], i, b, o)
    BY <2>3, <2>5 DEF m
  <2> QED
    BY <2>1, <2>6
<1>5. n \in M
  <2> HIDE DEF M
  <2> QED
    BY <1>2, <1>3, <1>4, CountUp
<1>6. n + 1 - n = 1
  BY <1>2
<1> QED
  BY <1>1, <1>2, <1>5, <1>6

-----------------------------------------------------------------------------
(* update_blocksize: the ends                                              *)

(* A range that goes on after its last whole block ends where no block     *)
(* goes on.                                                                *)
WholeEnds(l, b, o) ==
    \A j \in 1..Len(l) : l[j].end + 1 \in BlocksOf(l) => (l[j].end + 1) % b = o

(* A range with a header that is at least a block long is there still.     *)
MarksStay(l, m, b) ==
    \A j \in 1..Len(l) :
        l[j].stat # NoStat /\ l[j].start + b - 1 <= l[j].end =>
            \E k \in 1..Len(m) : m[k].start = l[j].start /\ m[k].stat = l[j].stat

(* m is l after the ends of the ranges from i on were met.                 *)
TrimmedCells(l, m, i) ==
    /\ m \in Lists /\ Ordered(m) /\ i - 1 <= Len(m)
    /\ \A j \in 1..Len(l) : j < i => m[j] = l[j]

TrimmedEnds(m, i, b, o) == \A j \in 1..Len(m) : i <= j => (m[j].end + 1) % b = o

TrimmedMarks(l, m, i, b) ==
    /\ b > 1 => MarksStay(l, m, b)
    /\ MarksFrom(l, m)

Trimmed(l, m, i, b, o) ==
    /\ TrimmedCells(l, m, i) /\ MetStarts(m, 1, b, o) /\ TrimmedEnds(m, i, b, o)
    /\ BlocksOf(m) \subseteq BlocksOf(l) /\ (b > 1 => Lost(l, m, b, o))
    /\ TrimmedMarks(l, m, i, b)

(* The end of a range, rounded.                                            *)
LEMMA RoundedEnd ==
    ASSUME NEW l \in Lists, Ordered(l), NEW b \in Nat \ {0}, NEW o \in 0..(b - 1),
           WholeEnds(l, b, o), NEW i \in 1..Len(l), l[i].start % b = o
    PROVE  LET z == RoundDown(l[i].end + 1, b, o)
           IN  /\ z \in Nat /\ l[i].start <= z /\ z <= l[i].end + 1 /\ z % b = o
               /\ l[i].end + 1 < z + b
               /\ l[i].start < z => l[i].start + b <= z
               /\ \A x \in z..l[i].end : \E y \in Block(x, b, o) : y \notin BlocksOf(l)
<1> DEFINE s == l[i].start
           e == l[i].end + 1
           z == RoundDown(e, b, o)
<1>1. s \in Nat /\ e \in Int /\ s < e
  BY CellsOfLists DEF Ordered
<1>2. s % b = o
  OBVIOUS
<1>3. e \in BlocksOf(l) => e % b = o
  BY DEF WholeEnds
<1> HIDE DEF s, e
<1>4. z \in Int /\ z <= e /\ e < z + b /\ z % b = o
  BY <1>1, RoundDownIs
<1> HIDE DEF z
<1>10. s \in Int /\ z \in Int /\ s % b = z % b /\ z % b = s % b
  BY <1>1, <1>2, <1>4
<1>5. s <= z
  <2>1. z < s => z + b <= s
    BY <1>10, OnGridApart
  <2> QED
    BY <1>1, <1>4, <2>1
<1>6. s < z => s + b <= z
  BY <1>10, OnGridApart
<1>7. ASSUME NEW x \in Int, z <= x, x < e
      PROVE  \E y \in Block(x, b, o) : y \notin BlocksOf(l)
  <2>1. e \in Block(x, b, o)
    BY <1>1, <1>4, <1>7, BlockAbove DEF z
  <2>2. e \notin BlocksOf(l)
    <3> SUFFICES ASSUME e \in BlocksOf(l) PROVE FALSE
      OBVIOUS
    <3>1. z % b = e % b /\ z < e
      BY <1>1, <1>3, <1>4, <1>7
    <3>2. z + b <= e
      BY <1>1, <1>4, <3>1, OnGridApart
    <3> QED
      BY <1>1, <1>4, <3>2
  <2> QED
    BY <2>1, <2>2
<1>8. \A x \in z..l[i].end : x \in Int /\ z <= x /\ x < e
  <2>1. l[i].end \in Int /\ e = l[i].end + 1
    BY CellsOfLists DEF e
  <2> QED
    BY <1>4, <2>1
<1>9. \A x \in z..l[i].end : \E y \in Block(x, b, o) : y \notin BlocksOf(l)
  BY <1>7, <1>8
<1> QED
  BY <1>1, <1>4, <1>5, <1>6, <1>9 DEF z, e, s

(* The range met next is as it was.                                        *)
LEMMA NextTrimmed ==
    ASSUME NEW l \in Lists, NEW m, NEW i \in 1..Len(l), TrimmedCells(l, m, i + 1)
    PROVE  /\ m \in Lists /\ Ordered(m) /\ i \in 1..Len(m) /\ Len(m) \in Nat
           /\ \A j \in 1..Len(m) : /\ m[j] \in RangeType
                                   /\ m[j].start \in Nat /\ m[j].end \in Nat
                                   /\ m[j].start <= m[j].end
           /\ \A j, k \in 1..Len(m) : j < k => m[j].end < m[k].start
           /\ m[i] = l[i]
<1>1. Len(l) \in Nat
  BY CellsOfLists
<1>2. /\ m \in Lists /\ Ordered(m) /\ (i + 1) - 1 <= Len(m)
      /\ \A j \in 1..Len(l) : j < i + 1 => m[j] = l[j]
  BY DEF TrimmedCells
<1>3. /\ Len(m) \in Nat /\ DOMAIN m = 1..Len(m)
      /\ \A j \in 1..Len(m) : m[j] \in RangeType /\ m[j].start \in Nat /\ m[j].end \in Nat
  BY <1>2, CellsOfLists
<1>4. /\ \A j \in 1..Len(m) : m[j].start <= m[j].end
      /\ \A j, k \in 1..Len(m) : j < k => m[j].end < m[k].start
  BY <1>2, <1>3 DEF Ordered
<1>5. i \in 1..Len(m) /\ i < i + 1
  BY <1>1, <1>2, <1>3
<1> QED
  BY <1>2, <1>3, <1>4, <1>5

(* A range of which no whole block is left is dropped.                     *)
LEMMA EndDropped ==
    ASSUME NEW l \in Lists, Ordered(l), NEW b \in Nat \ {0}, NEW o \in 0..(b - 1),
           MetStarts(l, 1, b, o), WholeEnds(l, b, o),
           NEW m, NEW i \in 1..Len(l), Trimmed(l, m, i + 1, b, o),
           RoundDown(l[i].end + 1, b, o) - 1 <= l[i].start
    PROVE  Trimmed(l, RemoveAt(m, i), i, b, o)
<1> DEFINE n == RemoveAt(m, i)
           z == RoundDown(l[i].end + 1, b, o)
<1>1. TrimmedCells(l, m, i + 1)
  BY DEF Trimmed
<1>2. /\ m \in Lists /\ Ordered(m) /\ i \in 1..Len(m) /\ Len(m) \in Nat
      /\ \A j \in 1..Len(m) : m[j].start \in Nat /\ m[j].end \in Nat
      /\ m[i] = l[i]
  BY <1>1, NextTrimmed
<1>3. Len(l) \in Nat /\ l[i].start \in Nat /\ l[i].end \in Nat
  BY CellsOfLists
<1>4. /\ n \in Lists /\ Ordered(n) /\ Len(n) = Len(m) - 1
      /\ BlocksOf(n) = BlocksOf(m) \ Extent(m[i])
  BY <1>2, RemovedCell
<1>5. \A j \in 1..(Len(m) - 1) : n[j] = IF j < i THEN m[j] ELSE m[j + 1]
  BY <1>2, RemoveAtCells DEF Lists
<1> HIDE DEF n
<1>6. /\ \A j \in 1..Len(n) : j < i => n[j] = m[j] /\ j \in 1..Len(m)
      /\ \A j \in 1..Len(n) : i <= j => n[j] = m[j + 1] /\ j + 1 \in 1..Len(m)
  BY <1>2, <1>4, <1>5
<1>7. TrimmedCells(l, n, i)
  <2>1. i - 1 <= Len(n)
    BY <1>2, <1>4
  <2>2. ASSUME NEW j \in 1..Len(l), j < i PROVE n[j] = l[j]
    <3>1. j \in 1..Len(n) /\ j < i + 1
      BY <1>2, <1>3, <1>4, <2>2
    <3>2. n[j] = m[j]
      BY <1>6, <2>2, <3>1
    <3>3. m[j] = l[j]
      BY <1>1, <3>1 DEF TrimmedCells
    <3> QED
      BY <3>2, <3>3
  <2> QED
    BY <1>4, <2>1, <2>2 DEF TrimmedCells
<1>8. MetStarts(n, 1, b, o)
  <2>1. ASSUME NEW j \in 1..Len(n) PROVE \E k \in 1..Len(m) : 1 <= k /\ n[j] = m[k]
    <3>1. CASE j < i
      BY <1>6, <3>1
    <3>2. CASE i <= j
      BY <1>6, <3>2
    <3> QED
      BY <3>1, <3>2
  <2>2. \A k \in 1..Len(m) : 1 <= k => m[k].start % b = o
    BY DEF Trimmed, MetStarts
  <2> QED
    BY <2>1, <2>2 DEF MetStarts
<1>9. TrimmedEnds(n, i, b, o)
  <2>1. ASSUME NEW j \in 1..Len(n), i <= j PROVE (n[j].end + 1) % b = o
    <3> DEFINE u == j + 1
    <3>1. n[j] = m[u] /\ u \in 1..Len(m) /\ i + 1 <= u
      BY <1>6, <2>1
    <3> HIDE DEF u
    <3> QED
      BY <3>1 DEF Trimmed, TrimmedEnds
  <2> QED
    BY <2>1 DEF TrimmedEnds
<1>10. BlocksOf(n) \subseteq BlocksOf(l)
  BY <1>4 DEF Trimmed
<1>11. l[i].start % b = o
  BY DEF MetStarts
<1>12. /\ z \in Nat /\ l[i].start <= z /\ z <= l[i].end + 1 /\ l[i].end + 1 < z + b
       /\ l[i].start < z => l[i].start + b <= z
       /\ \A x \in z..l[i].end : \E y \in Block(x, b, o) : y \notin BlocksOf(l)
  BY <1>11, RoundedEnd
<1>20. z - 1 <= l[i].start
  OBVIOUS
<1> HIDE DEF z
<1>13. b > 1 => z = l[i].start
  BY <1>3, <1>12, <1>20
<1>14. b > 1 => Lost(l, n, b, o)
  <2>1. ASSUME b > 1, NEW x \in BlocksOf(l), x \notin BlocksOf(n)
        PROVE  \E y \in Block(x, b, o) : y \notin BlocksOf(l)
    <3>1. CASE x \notin BlocksOf(m)
      BY <2>1, <3>1 DEF Trimmed, Lost
    <3>2. CASE x \in BlocksOf(m)
      <4>1. x \in Extent(l[i])
        BY <1>2, <1>4, <2>1, <3>2
      <4>2. x \in z..l[i].end
        BY <1>3, <1>13, <2>1, <4>1 DEF Extent
      <4> QED
        BY <1>12, <4>2
    <3> QED
      BY <3>1, <3>2
  <2> QED
    BY <2>1 DEF Lost
<1>15. b > 1 => MarksStay(l, n, b)
  <2>1. ASSUME b > 1, NEW j \in 1..Len(l), l[j].stat # NoStat, l[j].start + b - 1 <= l[j].end
        PROVE  \E k \in 1..Len(n) : n[k].start = l[j].start /\ n[k].stat = l[j].stat
    <3>1. PICK k \in 1..Len(m) : m[k].start = l[j].start /\ m[k].stat = l[j].stat
      BY <2>1 DEF Trimmed, TrimmedMarks, MarksStay
    <3>2. j # i
      BY <1>3, <1>12, <1>13, <2>1
    <3>3. k # i
      <4>1. DOMAIN l = 1..Len(l) /\ l[j].start \in Nat /\ l[j].end \in Nat
        BY CellsOfLists
      <4>2. /\ l[j].start <= l[j].end /\ l[i].start <= l[i].end
            /\ j < i => l[j].end < l[i].start
            /\ i < j => l[i].end < l[j].start
        BY <4>1 DEF Ordered
      <4>3. l[i].start # l[j].start
        BY <1>3, <3>2, <4>1, <4>2
      <4> QED
        BY <1>2, <3>1, <4>3
    <3>4. CASE k < i
      <4>1. k \in 1..Len(n)
        BY <1>2, <1>4, <3>4
      <4> QED
        BY <1>6, <3>1, <3>4, <4>1
    <3>5. CASE i < k
      <4>1. k - 1 \in 1..Len(n) /\ i <= k - 1 /\ (k - 1) + 1 = k
        BY <1>2, <1>4, <3>5
      <4>2. n[k - 1] = m[(k - 1) + 1]
        BY <1>6, <4>1
      <4> QED
        BY <3>1, <4>1, <4>2
    <3> QED
      BY <1>2, <3>3, <3>4, <3>5
  <2> QED
    BY <2>1 DEF MarksStay
<1>16. MarksFrom(l, n)
  <2>1. ASSUME NEW j \in 1..Len(n) PROVE \E k \in 1..Len(m) : n[j] = m[k]
    <3>1. CASE j < i
      BY <1>6, <3>1
    <3>2. CASE i <= j
      BY <1>6, <3>2
    <3> QED
      BY <3>1, <3>2
  <2>2. \A k \in 1..Len(m) :
            m[k].stat # NoStat =>
                \E u \in 1..Len(l) : m[k].start = l[u].start /\ m[k].stat = l[u].stat
    BY DEF Trimmed, TrimmedMarks, MarksFrom
  <2>3. ASSUME NEW j \in 1..Len(n), n[j].stat # NoStat
        PROVE  \E u \in 1..Len(l) : n[j].start = l[u].start /\ n[j].stat = l[u].stat
    <3>1. PICK k \in 1..Len(m) : n[j] = m[k]
      BY <2>1
    <3>2. m[k].stat # NoStat
      BY <2>3, <3>1
    <3> QED
      BY <2>2, <3>1, <3>2
  <2> QED
    BY <2>3 DEF MarksFrom
<1>17. Trimmed(l, n, i, b, o)
  BY <1>7, <1>8, <1>9, <1>10, <1>14, <1>15, <1>16 DEF Trimmed, TrimmedMarks
<1> QED
  BY <1>17 DEF n

(* Of another one only whole blocks are left.                              *)
LEMMA EndRounded ==
    ASSUME NEW l \in Lists, Ordered(l), NEW b \in Nat \ {0}, NEW o \in 0..(b - 1),
           MetStarts(l, 1, b, o), WholeEnds(l, b, o),
           NEW m, NEW i \in 1..Len(l), Trimmed(l, m, i + 1, b, o),
           NEW e \in Int, e = RoundDown(l[i].end + 1, b, o) - 1, l[i].start < e
    PROVE  Trimmed(l, [m EXCEPT ![i].end = e], i, b, o)
<1> DEFINE q == [start |-> m[i].start, end |-> e, stat |-> m[i].stat]
           n == [m EXCEPT ![i] = q]
           z == RoundDown(l[i].end + 1, b, o)
<1>1. TrimmedCells(l, m, i + 1)
  BY DEF Trimmed
<1>2. /\ m \in Lists /\ Ordered(m) /\ i \in 1..Len(m) /\ Len(m) \in Nat
      /\ \A j \in 1..Len(m) : m[j] \in RangeType /\ m[j].start \in Nat /\ m[j].end \in Nat
      /\ \A j, k \in 1..Len(m) : j < k => m[j].end < m[k].start
      /\ m[i] = l[i]
  BY <1>1, NextTrimmed
<1>3. Len(l) \in Nat /\ l[i].start \in Nat /\ l[i].end \in Nat
  BY CellsOfLists
<1>11. l[i].start % b = o
  BY DEF MetStarts
<1>12. /\ z \in Nat /\ z <= l[i].end + 1 /\ z % b = o
       /\ \A x \in z..l[i].end : \E y \in Block(x, b, o) : y \notin BlocksOf(l)
  BY <1>11, RoundedEnd
<1>20. e = z - 1
  OBVIOUS
<1> HIDE DEF z
<1>21. e \in Nat /\ e <= l[i].end
  BY <1>3, <1>12, <1>20, SMTT(30)
<1>4. /\ q \in RangeType /\ q.start = m[i].start /\ q.end = e /\ q.stat = m[i].stat
      /\ e \in Nat /\ e <= m[i].end /\ m[i].start < e
  BY <1>2, <1>21 DEF RangeType
<1>5. [m EXCEPT ![i].end = e] = n
  <2>1. [m[i] EXCEPT !.end = e] = q
    BY <1>2, SMTT(30) DEF RangeType
  <2> HIDE DEF q
  <2> QED
    BY <2>1
<1> HIDE DEF q
<1>6. Fits(m, i, q)
  <2>1. \A j \in 1..Len(m) : j < i => m[j].end < q.start
    BY <1>2, <1>4
  <2>2. ASSUME NEW j \in 1..Len(m), i < j PROVE q.end < m[j].start
    <3>1. m[i].end < m[j].start /\ m[i].end \in Nat /\ m[j].start \in Nat
      BY <1>2, <2>2
    <3> QED
      BY <1>4, <3>1, SMTT(30)
  <2>3. q.start <= q.end
    BY <1>2, <1>4
  <2> QED
    BY <1>2, <1>4, <2>1, <2>2, <2>3 DEF Fits
<1>7. /\ n \in Lists /\ Len(n) = Len(m) /\ Ordered(n)
      /\ \A x : x \in BlocksOf(n) <=> (x \in BlocksOf(m) /\ x \notin Extent(m[i])) \/ x \in Extent(q)
  BY <1>6, FittingRange
<1>8. \A j \in 1..Len(m) : n[j] = IF j = i THEN q ELSE m[j]
  BY <1>2, <1>4, ExceptCells DEF Lists
<1> HIDE DEF n
<1>9. TrimmedCells(l, n, i)
  <2>1. i - 1 <= Len(n)
    BY <1>2, <1>7
  <2>2. ASSUME NEW j \in 1..Len(l), j < i PROVE n[j] = l[j]
    <3>1. j \in 1..Len(m) /\ j < i + 1 /\ j # i
      BY <1>2, <1>3, <2>2
    <3>2. n[j] = m[j]
      BY <1>8, <3>1
    <3>3. m[j] = l[j]
      BY <1>1, <3>1 DEF TrimmedCells
    <3> QED
      BY <3>2, <3>3
  <2> QED
    BY <1>7, <2>1, <2>2 DEF TrimmedCells
<1>10. MetStarts(n, 1, b, o)
  <2>1. ASSUME NEW j \in 1..Len(n)
        PROVE  j \in 1..Len(m) /\ 1 <= j /\ n[j].start = m[j].start
    <3>1. j \in 1..Len(m) /\ 1 <= j
      BY <1>7
    <3>2. n[j] = IF j = i THEN q ELSE m[j]
      BY <1>8, <3>1
    <3> QED
      BY <1>4, <3>1, <3>2
  <2>2. \A j \in 1..Len(m) : 1 <= j => m[j].start % b = o
    BY DEF Trimmed, MetStarts
  <2> QED
    BY <2>1, <2>2 DEF MetStarts
<1>13. TrimmedEnds(n, i, b, o)
  <2>1. ASSUME NEW j \in 1..Len(n), i <= j PROVE (n[j].end + 1) % b = o
    <3>1. CASE j = i
      <4>1. n[j].end = e /\ e + 1 = z
        BY <1>4, <1>7, <1>8, <1>12, <1>20, <3>1, SMTT(30)
      <4> QED
        BY <1>12, <4>1
    <3>2. CASE j # i
      <4>1. j \in 1..Len(m) /\ i + 1 <= j /\ n[j] = m[j]
        BY <1>7, <1>8, <2>1, <3>2
      <4> QED
        BY <4>1 DEF Trimmed, TrimmedEnds
    <3> QED
      BY <3>1, <3>2
  <2> QED
    BY <2>1 DEF TrimmedEnds
<1>14. BlocksOf(n) \subseteq BlocksOf(l)
  <2>1. \A x : x \in Extent(q) => x \in Extent(m[i])
    BY <1>2, <1>4 DEF Extent
  <2>2. Extent(m[i]) \subseteq BlocksOf(m)
    BY <1>2, CellsOfLists DEF BlocksOf
  <2>3. BlocksOf(m) \subseteq BlocksOf(l)
    BY DEF Trimmed
  <2> QED
    BY <1>7, <2>1, <2>2, <2>3
<1>15. b > 1 => Lost(l, n, b, o)
  <2>1. ASSUME b > 1, NEW x \in BlocksOf(l), x \notin BlocksOf(n)
        PROVE  \E y \in Block(x, b, o) : y \notin BlocksOf(l)
    <3>1. CASE x \notin BlocksOf(m)
      BY <2>1, <3>1 DEF Trimmed, Lost
    <3>2. CASE x \in BlocksOf(m)
      <4>1. x \in Extent(l[i]) /\ x \notin Extent(q)
        BY <1>2, <1>7, <2>1, <3>2
      <4>2. Extent(q) = l[i].start..e
        BY <1>2, <1>4 DEF Extent
      <4>3. x \in z..l[i].end
        <5>1. x \in l[i].start..l[i].end /\ x \notin l[i].start..e
          BY <4>1, <4>2 DEF Extent
        <5> QED
          BY <1>3, <1>12, <1>20, <1>21, <5>1
      <4> QED
        BY <1>12, <4>3
    <3> QED
      BY <3>1, <3>2
  <2> QED
    BY <2>1 DEF Lost
<1>16. \A j \in 1..Len(m) : j \in 1..Len(n) /\ n[j].start = m[j].start /\ n[j].stat = m[j].stat
  BY <1>4, <1>7, <1>8
<1>17. b > 1 => MarksStay(l, n, b)
  BY <1>16 DEF Trimmed, TrimmedMarks, MarksStay
<1>18. MarksFrom(l, n)
  BY <1>7, <1>16 DEF Trimmed, TrimmedMarks, MarksFrom
<1>19. Trimmed(l, n, i, b, o)
  BY <1>9, <1>10, <1>13, <1>14, <1>15, <1>17, <1>18 DEF Trimmed, TrimmedMarks
<1> QED
  BY <1>5, <1>19

(* One range is met.                                                       *)
LEMMA EndMet ==
    ASSUME NEW l \in Lists, Ordered(l), NEW b \in Nat \ {0}, NEW o \in 0..(b - 1),
           MetStarts(l, 1, b, o), WholeEnds(l, b, o),
           NEW m, NEW i \in 1..Len(l), Trimmed(l, m, i + 1, b, o)
    PROVE  Trimmed(l, AlignEnd(m, i, b, o), i, b, o)
<1> DEFINE e == RoundDown(l[i].end + 1, b, o) - 1
<1>1. m[i] = l[i]
  BY NextTrimmed DEF Trimmed
<1>2. AlignEnd(m, i, b, o) = IF l[i].start >= e THEN RemoveAt(m, i) ELSE [m EXCEPT ![i].end = e]
  BY <1>1 DEF AlignEnd
<1>3. l[i].start \in Nat /\ e \in Int
  <2>1. l[i].start \in Nat /\ l[i].end + 1 \in Int
    BY CellsOfLists
  <2> DEFINE x == l[i].end + 1
  <2>2. x \in Int
    BY <2>1
  <2> HIDE DEF x
  <2>3. RoundDown(x, b, o) \in Int
    BY <2>2, RoundDownIs
  <2> QED
    BY <2>1, <2>3 DEF x
<1>4. CASE l[i].start >= e
  <2>1. RoundDown(l[i].end + 1, b, o) - 1 <= l[i].start
    <3>1. e <= l[i].start
      <4> HIDE DEF e
      <4> QED
        BY <1>3, <1>4
    <3> QED
      BY <3>1
  <2>2. Trimmed(l, RemoveAt(m, i), i, b, o)
    BY <2>1, EndDropped
  <2> QED
    BY <1>2, <1>4, <2>2
<1>5. CASE ~(l[i].start >= e)
  <2>1. e = RoundDown(l[i].end + 1, b, o) - 1
    OBVIOUS
  <2> HIDE DEF e
  <2>2. l[i].start < e
    BY <1>3, <1>5
  <2>3. Trimmed(l, [m EXCEPT ![i].end = e], i, b, o)
    BY <1>3, <2>1, <2>2, EndRounded
  <2> QED
    BY <1>2, <1>5, <2>3
<1> QED
  BY <1>4, <1>5

(* After all were, the ranges are whole blocks.                            *)
LEMMA EndsMet ==
    ASSUME NEW l \in Lists, Ordered(l), NEW b \in Nat \ {0}, NEW o \in 0..(b - 1),
           MetStarts(l, 1, b, o), WholeEnds(l, b, o)
    PROVE  Trimmed(l, AlignEnds(l, b, o), 1, b, o)
<1>0. PICK f : EndsBy(f, l, b, o)
  BY AlignEndsAre
<1>1. /\ f[Len(l) + 1] = l /\ f[1] = AlignEnds(l, b, o)
      /\ \A i \in 1..Len(l) : f[i] = AlignEnd(f[i + 1], i, b, o)
  BY <1>0 DEF EndsBy
<1> DEFINE n == Len(l)
           M == { k \in Nat : k <= n => Trimmed(l, f[n + 1 - k], n + 1 - k, b, o) }
<1>2. n \in Nat
  BY CellsOfLists
<1> HIDE DEF n
<1>3. 0 \in M
  <2>1. n + 1 - 0 = n + 1
    BY <1>2
  <2>2. TrimmedCells(l, l, n + 1)
    BY <1>2 DEF TrimmedCells, n
  <2>3. TrimmedEnds(l, n + 1, b, o)
    BY <1>2 DEF TrimmedEnds, n
  <2>4. Lost(l, l, b, o)
    BY DEF Lost
  <2>5. TrimmedMarks(l, l, n + 1, b)
    BY DEF TrimmedMarks, MarksStay, MarksFrom
  <2>6. Trimmed(l, l, n + 1, b, o)
    BY <2>2, <2>3, <2>4, <2>5 DEF Trimmed
  <2> QED
    BY <1>1, <2>1, <2>6 DEF n
<1>4. ASSUME NEW k \in Nat, k \in M PROVE k + 1 \in M
  <2> SUFFICES ASSUME k + 1 <= n PROVE Trimmed(l, f[n + 1 - (k + 1)], n + 1 - (k + 1), b, o)
    OBVIOUS
  <2> DEFINE i == n - k
  <2>1. i \in 1..Len(l) /\ n + 1 - (k + 1) = i /\ n + 1 - k = i + 1 /\ k <= n
    BY <1>2 DEF n
  <2>2. Trimmed(l, f[i + 1], i + 1, b, o)
    BY <1>4, <2>1
  <2>3. f[i] = AlignEnd(f[i + 1], i, b, o)
    BY <1>1, <2>1
  <2> HIDE DEF i
  <2> DEFINE m == f[i + 1]
  <2>4. Trimmed(l, m, i + 1, b, o)
    BY <2>2
  <2> HIDE DEF m
  <2>5. Trimmed(l, AlignEnd(m, i, b, o), i, b, o)
    BY <2>1, <2>4, EndMet
  <2>6. Trimmed(l, f[i], i, b, o)
    BY <2>3, <2>5 DEF m
  <2> QED
    BY <2>1, <2>6
<1>5. n \in M
  <2> HIDE DEF M
  <2> QED
    BY <1>2, <1>3, <1>4, CountUp
<1>6. n + 1 - n = 1
  BY <1>2
<1> QED
  BY <1>1, <1>2, <1>5, <1>6

-----------------------------------------------------------------------------
(* update_blocksize: the end of the last range, first of all               *)

(* The last range is lengthened to the end of its last block.              *)
LEMMA LastEnd ==
    ASSUME NEW l \in Lists, Ordered(l), l # <<>>, NEW b \in Nat \ {0}, NEW o \in 0..(b - 1)
    PROVE  LET m == AlignLastEnd(l, b, o)
               n == Len(l)
           IN  /\ m \in Lists /\ Ordered(m) /\ Len(m) = n
               /\ n \in 1..n
               /\ \A j \in 1..n : /\ m[j].start = l[j].start /\ m[j].stat = l[j].stat
                                  /\ l[j].end <= m[j].end
               /\ BlocksOf(l) \subseteq BlocksOf(m)
               /\ \A x \in BlocksOf(m) :
                     x \in BlocksOf(l) \/ (l[n].end < x /\ l[n].end \in Block(x, b, o))
<1> DEFINE n == Len(l)
           s == l[n].start
           e == l[n].end
           z == RoundUp(e + 1, b, o)
           q == [start |-> s, end |-> z - 1, stat |-> l[n].stat]
           m == [l EXCEPT ![n] = q]
<1>1. /\ n \in Nat /\ DOMAIN l = 1..n
      /\ \A j \in 1..n : l[j] \in RangeType /\ l[j].start \in Nat /\ l[j].end \in Nat
      /\ \A j \in 1..n : l[j].start <= l[j].end
      /\ \A j, k \in 1..n : j < k => l[j].end < l[k].start
  BY CellsOfLists DEF Ordered
<1>2. n \in 1..n
  <2>1. n # 0
    BY EmptySeq DEF Lists
  <2> QED
    BY <1>1, <2>1
<1>3. s \in Nat /\ e \in Nat /\ s <= e /\ l[n] \in RangeType
  BY <1>1, <1>2
<1>4. z \in Int /\ e + 1 <= z /\ z < e + 1 + b
  <2> DEFINE x == e + 1
  <2>1. x \in Int
    BY <1>3
  <2> HIDE DEF x
  <2>2. RoundUp(x, b, o) \in Int /\ x <= RoundUp(x, b, o) /\ RoundUp(x, b, o) < x + b
    BY <2>1, RoundUpIs
  <2> QED
    BY <2>2 DEF x
<1>5. AlignLastEnd(l, b, o) = m
  <2>1. [l[n] EXCEPT !.end = z - 1] = q
    BY <1>3 DEF RangeType
  <2>2. AlignLastEnd(l, b, o) = [l EXCEPT ![n] = [l[n] EXCEPT !.end = z - 1]]
    BY DEF AlignLastEnd
  <2> HIDE DEF q, n, z
  <2> QED
    BY <2>1, <2>2
<1> HIDE DEF z
<1>6. /\ q \in RangeType /\ q.start = s /\ q.end = z - 1 /\ q.stat = l[n].stat
      /\ q.end \in Nat /\ e <= q.end
  BY <1>3, <1>4 DEF RangeType
<1> HIDE DEF q
<1>7. Fits(l, n, q)
  <2>1. \A j \in 1..Len(l) : j < n => l[j].end < q.start
    BY <1>1, <1>2, <1>6
  <2>2. \A j \in 1..Len(l) : n < j => q.end < l[j].start
    BY <1>1
  <2>3. q.start <= q.end
    BY <1>3, <1>6
  <2> QED
    BY <1>2, <1>6, <2>1, <2>2, <2>3 DEF Fits
<1>8. /\ m \in Lists /\ Len(m) = n /\ Ordered(m)
      /\ \A x : x \in BlocksOf(m) <=> (x \in BlocksOf(l) /\ x \notin Extent(l[n])) \/ x \in Extent(q)
  BY <1>7, FittingRange
<1>9. \A j \in 1..n : m[j] = IF j = n THEN q ELSE l[j]
  BY <1>2, <1>6, ExceptCells DEF Lists
<1> HIDE DEF m
<1>10. \A j \in 1..n : m[j].start = l[j].start /\ m[j].stat = l[j].stat /\ l[j].end <= m[j].end
  <2>1. ASSUME NEW j \in 1..n
        PROVE  m[j].start = l[j].start /\ m[j].stat = l[j].stat /\ l[j].end <= m[j].end
    <3>1. CASE j = n
      BY <1>6, <1>9, <3>1
    <3>2. CASE j # n
      <4>1. m[j] = l[j] /\ l[j].end \in Nat
        BY <1>1, <1>9, <3>2
      <4>2. l[j].end <= l[j].end
        BY <4>1
      <4> QED
        BY <4>1, <4>2
    <3> QED
      BY <3>1, <3>2
  <2> QED
    BY <2>1
<1>11. Extent(l[n]) = s..e /\ Extent(q) = s..(z - 1)
  BY <1>6 DEF Extent
<1>12. BlocksOf(l) \subseteq BlocksOf(m)
  <2>1. \A x : x \in s..e => x \in s..(z - 1)
    <3> HIDE DEF s, e
    <3> QED
      BY <1>3, <1>4
  <2> QED
    BY <1>8, <1>11, <2>1
<1>13. ASSUME NEW x \in BlocksOf(m), x \notin BlocksOf(l)
       PROVE  e < x /\ e \in Block(x, b, o)
  <2>1. Extent(l[n]) \subseteq BlocksOf(l)
    BY <1>1, <1>2 DEF BlocksOf
  <2>2. x \in s..(z - 1) /\ x \notin s..e
    BY <1>8, <1>11, <1>13, <2>1
  <2>3. x \in Int /\ e + 1 <= x /\ x < z
    <3> HIDE DEF s, e
    <3> QED
      BY <1>3, <1>4, <2>2
  <2> DEFINE y == e + 1
  <2>4. y \in Int /\ y <= x /\ x < RoundUp(y, b, o) /\ y - 1 = e
    BY <1>3, <2>3 DEF z
  <2> HIDE DEF y
  <2>5. y - 1 \in Block(x, b, o)
    BY <2>3, <2>4, BlockBelow
  <2> QED
    BY <1>3, <2>3, <2>4, <2>5
<1>14. \A x \in BlocksOf(m) : x \in BlocksOf(l) \/ (e < x /\ e \in Block(x, b, o))
  BY <1>13
<1> QED
  BY <1>2, <1>5, <1>8, <1>10, <1>12, <1>14

-----------------------------------------------------------------------------
(* update_blocksize                                                        *)

WholeBlocks(l, b, o) ==
    \A i \in 1..Len(l) : l[i].start % b = o /\ (l[i].end + 1) % b = o

(* What the walks for the starts and for the ends make of a list.          *)
LEMMA BothMet ==
    ASSUME NEW l \in Lists, Ordered(l), NEW b \in Nat \ {0}, NEW o \in 0..(b - 1)
    PROVE  LET k == AlignStarts(l, b, o)
               m == AlignEnds(k, b, o)
           IN  /\ Met(l, k, 1, b, o)
               /\ k \in Lists /\ Ordered(k)
               /\ Trimmed(k, m, 1, b, o)
<1> DEFINE k == AlignStarts(l, b, o)
<1>1. Met(l, k, 1, b, o)
  BY StartsMet
<1> HIDE DEF k
<1>2. k \in Lists /\ Ordered(k)
  BY <1>1 DEF Met, MetCells
<1>3. MetStarts(k, 1, b, o)
  BY <1>1 DEF Met
<1>4. WholeEnds(k, b, o)
  <2>1. \A j \in 1..Len(k) : 1 - 1 <= j
    BY <1>2, CellsOfLists
  <2>2. BlocksOf(k) \subseteq BlocksOf(l)
    BY <1>1 DEF Met, MetBlocks
  <2> QED
    BY <1>1, <2>1, <2>2 DEF Met, MetEnds, WholeEnds
<1>5. Trimmed(k, AlignEnds(k, b, o), 1, b, o)
  BY <1>2, <1>3, <1>4, EndsMet
<1> QED
  BY <1>1, <1>2, <1>5 DEF k

(* A place in a block shares it.                                           *)
LEMMA SameBlock ==
    ASSUME NEW x \in Int, NEW b \in Nat \ {0}, NEW o \in 0..(b - 1), NEW y \in Block(x, b, o)
    PROVE  y \in Int /\ Block(y, b, o) = Block(x, b, o)
<1> DEFINE z == RoundDown(x, b, o)
<1>1. z \in Int /\ z % b = o
  BY RoundDownIs
<1>2. y \in z..(z + b - 1)
  BY DEF Block
<1> HIDE DEF z
<1>3. y \in Int /\ z <= y /\ y < z + b
  BY <1>1, <1>2
<1>4. RoundDown(y, b, o) = z
  BY <1>1, <1>3, RoundDownOnly
<1> QED
  BY <1>3, <1>4 DEF Block, z

(* The ranges are in order and whole blocks, and no mark is new.           *)
LEMMA InBlocksCorrect ==
    ASSUME NEW l \in Lists, Ordered(l), NEW b \in Nat \ {0}, NEW o \in 0..(b - 1)
    PROVE  LET m == InBlocks(l, b, o)
           IN  /\ m \in Lists /\ Ordered(m)
               /\ WholeBlocks(m, b, o)
               /\ MarksFrom(l, m)
<1> DEFINE j == AlignLastEnd(l, b, o)
           k == AlignStarts(j, b, o)
           m == AlignEnds(k, b, o)
<1>1. m = InBlocks(l, b, o)
  BY DEF InBlocks
<1>2. j \in Lists /\ Ordered(j) /\ MarksFrom(l, j)
  <2>1. CASE l = <<>>
    <3>1. j = l
      BY <2>1 DEF AlignLastEnd
    <3>2. MarksFrom(l, l)
      BY DEF MarksFrom
    <3> QED
      BY <3>1, <3>2
  <2>2. CASE l # <<>>
    <3>1. /\ j \in Lists /\ Ordered(j) /\ Len(j) = Len(l)
          /\ \A i \in 1..Len(l) : j[i].start = l[i].start /\ j[i].stat = l[i].stat
      BY <2>2, LastEnd
    <3> HIDE DEF j
    <3> QED
      BY <3>1 DEF MarksFrom
  <2> QED
    BY <2>1, <2>2
<1> HIDE DEF j
<1>3. Met(j, k, 1, b, o) /\ k \in Lists /\ Ordered(k) /\ Trimmed(k, m, 1, b, o)
  BY <1>2, BothMet
<1> HIDE DEF k, m
<1>4. m \in Lists /\ Ordered(m)
  BY <1>3 DEF Trimmed, TrimmedCells
<1>5. WholeBlocks(m, b, o)
  <2>1. \A i \in 1..Len(m) : 1 <= i
    BY <1>4, CellsOfLists
  <2> QED
    BY <1>3, <2>1 DEF Trimmed, MetStarts, TrimmedEnds, WholeBlocks
<1>6. MarksFrom(l, m)
  <2>1. MarksFrom(j, k) /\ MarksFrom(k, m)
    BY <1>3 DEF Met, Trimmed, TrimmedMarks
  <2>2. ASSUME NEW u \in 1..Len(m), m[u].stat # NoStat
        PROVE  \E i \in 1..Len(l) : m[u].start = l[i].start /\ m[u].stat = l[i].stat
    <3>1. PICK v \in 1..Len(k) : m[u].start = k[v].start /\ m[u].stat = k[v].stat
      BY <2>1, <2>2 DEF MarksFrom
    <3>2. PICK w \in 1..Len(j) : k[v].start = j[w].start /\ k[v].stat = j[w].stat
      BY <2>1, <2>2, <3>1 DEF MarksFrom
    <3>3. PICK i \in 1..Len(l) : j[w].start = l[i].start /\ j[w].stat = l[i].stat
      BY <1>2, <2>2, <3>1, <3>2 DEF MarksFrom
    <3> QED
      BY <3>1, <3>2, <3>3
  <2> QED
    BY <2>2 DEF MarksFrom
<1> QED
  BY <1>1, <1>4, <1>5, <1>6

(* No whole block that was free is lost, nothing is gained but the rest of *)
(* the last block, and headers at the beginning of a whole block stay.     *)
LEMMA InBlocksKeeps ==
    ASSUME NEW l \in Lists, Ordered(l), l # <<>>,
           NEW b \in Nat \ {0}, b > 1, NEW o \in 0..(b - 1)
    PROVE  LET m == InBlocks(l, b, o)
               e == l[Len(l)].end
           IN  /\ \A x \in BlocksOf(l) : Block(x, b, o) \subseteq BlocksOf(l) => x \in BlocksOf(m)
               /\ \A x \in BlocksOf(m) : x \in BlocksOf(l) \/ (e < x /\ e \in Block(x, b, o))
               /\ \A i \in 1..Len(l) :
                     /\ l[i].stat # NoStat /\ l[i].start % b = o
                     /\ l[i].start + b - 1 <= l[i].end
                     => \E u \in 1..Len(m) :
                            m[u].start = l[i].start /\ m[u].stat = l[i].stat
<1> DEFINE j == AlignLastEnd(l, b, o)
           k == AlignStarts(j, b, o)
           m == AlignEnds(k, b, o)
           e == l[Len(l)].end
<1>1. m = InBlocks(l, b, o)
  BY DEF InBlocks
<1>2. /\ j \in Lists /\ Ordered(j) /\ Len(j) = Len(l)
      /\ \A i \in 1..Len(l) : /\ j[i].start = l[i].start /\ j[i].stat = l[i].stat
                              /\ l[i].end <= j[i].end
      /\ BlocksOf(l) \subseteq BlocksOf(j)
      /\ \A x \in BlocksOf(j) : x \in BlocksOf(l) \/ (e < x /\ e \in Block(x, b, o))
  BY LastEnd
<1> HIDE DEF j
<1>3. Met(j, k, 1, b, o) /\ k \in Lists /\ Ordered(k) /\ Trimmed(k, m, 1, b, o)
  BY <1>2, BothMet
<1> HIDE DEF k, m
<1>4. ASSUME NEW x \in BlocksOf(l), Block(x, b, o) \subseteq BlocksOf(l) PROVE x \in BlocksOf(m)
  <2>1. x \in Int
    BY BlockInList, CellsOfLists DEF Lists
  <2>2. Block(x, b, o) \subseteq BlocksOf(j) /\ x \in BlocksOf(j)
    BY <1>2, <1>4
  <2>3. x \in BlocksOf(k)
    BY <1>3, <2>2 DEF Met, MetBlocks, Lost
  <2>4. Block(x, b, o) \subseteq BlocksOf(k)
    <3>1. ASSUME NEW y \in Block(x, b, o) PROVE y \in BlocksOf(k)
      <4>1. Block(y, b, o) = Block(x, b, o)
        BY <2>1, SameBlock
      <4>2. y \in BlocksOf(j) /\ Block(y, b, o) \subseteq BlocksOf(j)
        BY <2>2, <4>1
      <4> QED
        BY <1>3, <4>2 DEF Met, MetBlocks, Lost
    <3> QED
      BY <3>1
  <2> QED
    BY <1>3, <2>3, <2>4 DEF Trimmed, Lost
<1>5. ASSUME NEW x \in BlocksOf(m) PROVE x \in BlocksOf(l) \/ (e < x /\ e \in Block(x, b, o))
  <2>1. x \in BlocksOf(j)
    BY <1>3 DEF Met, MetBlocks, Trimmed
  <2> QED
    BY <1>2, <2>1
<1>6. ASSUME NEW i \in 1..Len(l), l[i].stat # NoStat, l[i].start % b = o,
             l[i].start + b - 1 <= l[i].end
      PROVE  \E u \in 1..Len(m) : m[u].start = l[i].start /\ m[u].stat = l[i].stat
  <2>1. /\ l[i].start \in Nat /\ l[i].end \in Nat /\ j[i].end \in Nat /\ i \in 1..Len(j)
    BY <1>2, CellsOfLists
  <2>2. j[i].start = l[i].start /\ j[i].stat = l[i].stat /\ l[i].end <= j[i].end
    BY <1>2
  <2>3. PICK v \in 1..Len(k) : /\ k[v].start = j[i].start /\ k[v].stat = j[i].stat
                               /\ j[i].end <= k[v].end
    BY <1>3, <1>6, <2>1, <2>2 DEF Met, MarksKept
  <2>4. k[v].end \in Nat
    BY <1>3, CellsOfLists
  <2> DEFINE a == l[i].start
             c == l[i].end
             d == j[i].end
             f == k[v].end
  <2>7. /\ a \in Nat /\ c \in Nat /\ d \in Nat /\ f \in Nat
        /\ a + b - 1 <= c /\ c <= d /\ d <= f
    BY <1>6, <2>1, <2>2, <2>3, <2>4
  <2>8. k[v].start = a
    BY <2>2, <2>3
  <2> HIDE DEF a, c, d, f
  <2>9. a + b - 1 <= f
    BY <2>7
  <2>5. k[v].start + b - 1 <= k[v].end
    BY <2>8, <2>9 DEF f
  <2>6. PICK u \in 1..Len(m) : m[u].start = k[v].start /\ m[u].stat = k[v].stat
    BY <1>3, <1>6, <2>2, <2>3, <2>5 DEF Trimmed, TrimmedMarks, MarksStay
  <2> QED
    BY <2>2, <2>3, <2>6
<1> QED
  BY <1>1, <1>4, <1>5, <1>6

-----------------------------------------------------------------------------
(* Choosing a blocksize                                                    *)

(* The blocksizes find_blocksize comes to.                                 *)
Candidate(b) ==
    b \in Nat /\ Sector <= b /\ b <= MaxBlock /\ MaxBlock % b = 0 /\ b % Sector = 0

(* Half of one is another, until it is a sector.                           *)
LEMMA Halved ==
    ASSUME NEW b, Candidate(b), b > Sector
    PROVE  Candidate(b \div 2) /\ b \div 2 < b
<1>1. b \in Nat /\ Sector \in Nat /\ MaxBlock \in Nat /\ Sector > 1 /\ b <= MaxBlock
      /\ MaxBlock % b = 0 /\ b % Sector = 0 /\ 2 * Sector \in Nat /\ 2 * Sector > 0
  BY SectorAssumption, SizesAssumption DEF Candidate
<1>2. b % (2 * Sector) = 0
  BY <1>1, HalvesAssumption
<1> DEFINE d == 2 * Sector
           k == b \div d
           q == MaxBlock \div b
           h == b \div 2
<1>3. k \in Int /\ b = k * (2 * Sector)
  <2>1. d \in Nat \ {0} /\ b \in Int /\ b % d = 0
    BY <1>1, <1>2
  <2> HIDE DEF d
  <2>2. k \in Int /\ b = k * d + (b % d)
    BY <2>1, DivBy
  <2> HIDE DEF k
  <2>3. k * d \in Int
    BY <2>1, <2>2
  <2>4. b = k * d
    BY <2>1, <2>2, <2>3
  <2> QED
    BY <2>2, <2>4 DEF d
<1>4. q \in Int /\ MaxBlock = q * b
  BY <1>1, DivBy
<1> HIDE DEF k, q
<1>5. k * (2 * Sector) = 2 * (k * Sector) /\ k * Sector \in Int
  BY <1>1, <1>3
<1>6. h = k * Sector /\ b = 2 * h /\ h \in Nat
  BY <1>1, <1>3, <1>5
<1> HIDE DEF h
<1>7. h % Sector = 0
  BY <1>1, <1>3, <1>6, RemainderIs
<1>8. q * b = (2 * q) * h /\ 2 * q \in Int
  BY <1>1, <1>4, <1>6
<1>9. h > 0 /\ h < b
  BY <1>1, <1>6
<1>10. MaxBlock % h = 0
  <2>1. MaxBlock = (2 * q) * h + 0 /\ 0 \in 0..(h - 1) /\ h \in Nat \ {0}
    BY <1>1, <1>4, <1>6, <1>8, <1>9
  <2> DEFINE j == 2 * q
  <2> HIDE DEF j
  <2>2. j \in Int /\ MaxBlock = j * h + 0
    BY <1>8, <2>1 DEF j
  <2>3. (j * h + 0) % h = 0
    BY <2>1, <2>2, RemainderIs
  <2> QED
    BY <2>2, <2>3
<1>11. Sector <= h
  <2>1. 0 * Sector < k * Sector
    BY <1>1, <1>6, <1>9
  <2> QED
    BY <1>1, <1>3, <1>6, <2>1, Multiples
<1> QED
  BY <1>1, <1>6, <1>7, <1>9, <1>10, <1>11 DEF Candidate, h

(* g is a blocksize and where blocks begin, and blocks of a sector begin   *)
(* where sectors do.                                                       *)
BlocksizeOf(g) ==
    /\ g = << g[1], g[2] >> /\ Candidate(g[1]) /\ g[2] \in 0..(g[1] - 1)
    /\ g[1] = Sector => g[2] = 0

(* A range that does not keep find_blocksize from ending.                  *)
FitsRange(r, g) == r.stat # NoStat => r.start % g[1] = g[2]

(* The ranges find_blocksize is given: headers begin at sectors.           *)
HeadersAtSectors(l) ==
    \A i \in 1..Len(l) : l[i].stat # NoStat => l[i].start % Sector = 0

LEMMA FittedOnce ==
    ASSUME NEW r \in RangeType, r.stat # NoStat => r.start % Sector = 0,
           NEW g, BlocksizeOf(g)
    PROVE  /\ BlocksizeOf(Fitted(r, g))
           /\ Fitted(r, g)[1] <= g[1]
           /\ FitsRange(r, g) => Fitted(r, g) = g
           /\ Fitted(r, g)[1] = g[1] => Fitted(r, g) = g /\ FitsRange(r, g)
<1> DEFINE s == r.start
           h == g[1] \div 2
<1>1. s \in Nat /\ g[1] \in Nat /\ Sector \in Nat /\ Sector > 1 /\ Sector <= g[1]
  BY SectorAssumption, SizesAssumption DEF RangeType, BlocksizeOf, Candidate
<1>2. CASE r.stat # NoStat /\ s % g[1] # g[2] /\ g[1] > Sector
  <2>1. Fitted(r, g) = << h, s % h >>
    BY <1>2 DEF Fitted
  <2>2. Candidate(h) /\ h < g[1]
    BY <1>2, Halved DEF BlocksizeOf
  <2>3. h \in Nat /\ Sector <= h
    BY <2>2 DEF Candidate
  <2> HIDE DEF h
  <2>4. s % h \in 0..(h - 1)
    <3>1. s \in Int /\ h \in Nat \ {0}
      BY <1>1, <2>3
    <3> HIDE DEF s
    <3> QED
      BY <3>1, DivBy
  <2>5. h = Sector => s % h = 0
    BY <1>2
  <2>6. BlocksizeOf(<< h, s % h >>)
    BY <2>2, <2>4, <2>5 DEF BlocksizeOf
  <2>7. ~FitsRange(r, g)
    BY <1>2 DEF FitsRange
  <2> QED
    BY <1>1, <2>1, <2>2, <2>3, <2>6, <2>7
<1>3. CASE ~(r.stat # NoStat /\ s % g[1] # g[2] /\ g[1] > Sector)
  <2>1. Fitted(r, g) = g
    BY <1>3 DEF Fitted
  <2>2. FitsRange(r, g)
    <3>1. SUFFICES ASSUME r.stat # NoStat PROVE s % g[1] = g[2]
      BY DEF FitsRange
    <3>2. CASE g[1] > Sector
      BY <1>3, <3>1, <3>2
    <3>3. CASE g[1] = Sector
      BY <3>1, <3>3 DEF BlocksizeOf
    <3> QED
      BY <1>1, <3>2, <3>3
  <2> QED
    BY <1>1, <2>1, <2>2
<1> QED
  BY <1>2, <1>3

(* find_blocksize meets the ranges one after another,                      *)
LEMMA FittedToAllIs ==
    ASSUME NEW l \in Lists, NEW g
    PROVE  \E f : /\ f[0] = g /\ f[Len(l)] = FittedToAll(l, g)
                  /\ \A k \in 1..Len(l) : f[k] = Fitted(l[k], f[k - 1])
<1> DEFINE n == Len(l)
           At(k, u) == IF k = 0 THEN g ELSE Fitted(l[k], u[k - 1])
           P(m, u) == u = [k \in 0..m |-> At(k, u)]
           M == { m \in Nat : \E u : P(m, u) }
<1>1. n \in Nat
  BY CellsOfLists
<1> HIDE DEF n
<1>2. 0 \in M
  <2>1. P(0, [k \in 0..0 |-> g])
    OBVIOUS
  <2> HIDE DEF P
  <2> QED
    BY <2>1
<1>3. ASSUME NEW m \in Nat, m \in M PROVE m + 1 \in M
  <2>1. PICK u : P(m, u)
    <3> HIDE DEF P
    <3> QED
      BY <1>3
  <2> DEFINE h == [k \in 0..(m + 1) |-> IF k <= m THEN u[k] ELSE Fitted(l[(m + 1)], u[m])]
  <2>2. ASSUME NEW k \in 0..(m + 1) PROVE h[k] = At(k, h)
    <3>1. CASE k = 0
      BY <3>1, <2>1
    <3>2. CASE k # 0 /\ k <= m
      <4>1. k \in 0..m /\ k - 1 \in 0..m /\ k - 1 <= m /\ k - 1 \in 0..(m + 1)
        BY <3>2
      <4>2. h[k] = u[k] /\ h[k - 1] = u[k - 1]
        BY <4>1
      <4>3. u[k] = Fitted(l[k], u[k - 1])
        BY <4>1, <3>2, <2>1
      <4> QED
        BY <4>2, <4>3, <3>2
    <3>3. CASE k = m + 1
      <4>1. h[k - 1] = u[m] /\ k # 0
        BY <3>3
      <4>2. h[k] = Fitted(l[k], u[m])
        BY <3>3
      <4> QED
        BY <4>1, <4>2
    <3> QED
      BY <3>1, <3>2, <3>3
  <2>3. h = [k \in 0..(m + 1) |-> h[k]]
    OBVIOUS
  <2> HIDE DEF h
  <2>4. h = [k \in 0..(m + 1) |-> At(k, h)]
    BY <2>2, <2>3
  <2>5. P(m + 1, h)
    BY <2>4
  <2> HIDE DEF P
  <2>6. m + 1 \in Nat
    OBVIOUS
  <2> QED
    BY <2>5, <2>6
<1>4. \E u : P(n, u)
  <2>1. n \in M
    <3> HIDE DEF M
    <3> QED
      BY <1>1, <1>2, <1>3, CountUp
  <2> HIDE DEF P
  <2> QED
    BY <2>1
<1> DEFINE f == CHOOSE u : P(n, u)
<1>5. FittedToAll(l, g) = f[n]
  BY DEF FittedToAll, n
<1> HIDE DEF P, f
<1>6. P(n, f)
  BY <1>4 DEF f
<1>7. f = [k \in 0..n |-> At(k, f)]
  BY <1>6 DEF P
<1>8. f[0] = g
  BY <1>1, <1>7
<1>9. ASSUME NEW k \in 1..n PROVE f[k] = Fitted(l[k], f[k - 1])
  <2>1. k \in 0..n /\ k # 0
    BY <1>1
  <2> QED
    BY <1>7, <2>1
<1> QED
  BY <1>5, <1>8, <1>9 DEF n

(* and again, as often as a blocksize can be halved.                       *)
LEMMA HalveIs ==
    ASSUME NEW l, NEW g
    PROVE  \E f : /\ f[0] = g /\ f[MaxBlock] = Halve(l, g)
                  /\ \A k \in 1..MaxBlock : f[k] = FittedToAll(l, f[k - 1])
<1> DEFINE n == MaxBlock
           At(k, u) == IF k = 0 THEN g ELSE FittedToAll(l, u[k - 1])
           P(m, u) == u = [k \in 0..m |-> At(k, u)]
           M == { m \in Nat : \E u : P(m, u) }
<1>1. n \in Nat
  BY SizesAssumption
<1> HIDE DEF n
<1>2. 0 \in M
  <2>1. P(0, [k \in 0..0 |-> g])
    OBVIOUS
  <2> HIDE DEF P
  <2> QED
    BY <2>1
<1>3. ASSUME NEW m \in Nat, m \in M PROVE m + 1 \in M
  <2>1. PICK u : P(m, u)
    <3> HIDE DEF P
    <3> QED
      BY <1>3
  <2> DEFINE h == [k \in 0..(m + 1) |-> IF k <= m THEN u[k] ELSE FittedToAll(l, u[m])]
  <2>2. ASSUME NEW k \in 0..(m + 1) PROVE h[k] = At(k, h)
    <3>1. CASE k = 0
      BY <3>1, <2>1
    <3>2. CASE k # 0 /\ k <= m
      <4>1. k \in 0..m /\ k - 1 \in 0..m /\ k - 1 <= m /\ k - 1 \in 0..(m + 1)
        BY <3>2
      <4>2. h[k] = u[k] /\ h[k - 1] = u[k - 1]
        BY <4>1
      <4>3. u[k] = FittedToAll(l, u[k - 1])
        BY <4>1, <3>2, <2>1
      <4> QED
        BY <4>2, <4>3, <3>2
    <3>3. CASE k = m + 1
      <4>1. h[k - 1] = u[m] /\ k # 0
        BY <3>3
      <4>2. h[k] = FittedToAll(l, u[m])
        BY <3>3
      <4> QED
        BY <4>1, <4>2
    <3> QED
      BY <3>1, <3>2, <3>3
  <2>3. h = [k \in 0..(m + 1) |-> h[k]]
    OBVIOUS
  <2> HIDE DEF h
  <2>4. h = [k \in 0..(m + 1) |-> At(k, h)]
    BY <2>2, <2>3
  <2>5. P(m + 1, h)
    BY <2>4
  <2> HIDE DEF P
  <2>6. m + 1 \in Nat
    OBVIOUS
  <2> QED
    BY <2>5, <2>6
<1>4. \E u : P(n, u)
  <2>1. n \in M
    <3> HIDE DEF M
    <3> QED
      BY <1>1, <1>2, <1>3, CountUp
  <2> HIDE DEF P
  <2> QED
    BY <2>1
<1> DEFINE f == CHOOSE u : P(n, u)
<1>5. Halve(l, g) = f[n]
  BY DEF Halve, n
<1> HIDE DEF P, f
<1>6. P(n, f)
  BY <1>4 DEF f
<1>7. f = [k \in 0..n |-> At(k, f)]
  BY <1>6 DEF P
<1>8. f[0] = g
  BY <1>1, <1>7
<1>9. ASSUME NEW k \in 1..n PROVE f[k] = FittedToAll(l, f[k - 1])
  <2>1. k \in 0..n /\ k # 0
    BY <1>1
  <2> QED
    BY <1>7, <2>1
<1> QED
  BY <1>5, <1>8, <1>9 DEF n

(* Once round: nothing changes when every range fits, and the blocksize    *)
(* becomes smaller when one does not.                                      *)
AllFit(l, g) == \A i \in 1..Len(l) : FitsRange(l[i], g)

LEMMA FittedRound ==
    ASSUME NEW l \in Lists, HeadersAtSectors(l), NEW g, BlocksizeOf(g)
    PROVE  /\ BlocksizeOf(FittedToAll(l, g))
           /\ FittedToAll(l, g)[1] <= g[1]
           /\ AllFit(l, g) => FittedToAll(l, g) = g
           /\ ~AllFit(l, g) => FittedToAll(l, g)[1] < g[1]
<1> DEFINE n == Len(l)
           Fit(k) == \A i \in 1..k : FitsRange(l[i], g)
           Good(k, x) == /\ BlocksizeOf(x) /\ x[1] <= g[1]
                         /\ Fit(k) => x = g
                         /\ x[1] = g[1] => x = g /\ Fit(k)
<1>1. n \in Nat /\ (\A i \in 1..n : l[i] \in RangeType)
  BY CellsOfLists
<1>2. PICK f : /\ f[0] = g /\ f[n] = FittedToAll(l, g)
               /\ \A k \in 1..n : f[k] = Fitted(l[k], f[k - 1])
  BY FittedToAllIs
<1> HIDE DEF n
<1> DEFINE M == {m \in Nat : m <= n => Good(m, f[m])}
<1>3. g[1] \in Nat
  BY DEF BlocksizeOf, Candidate
<1>4. 0 \in M
  BY <1>2, <1>3
<1>5. ASSUME NEW m \in Nat, m \in M PROVE m + 1 \in M
  <2>1. SUFFICES ASSUME m + 1 <= n PROVE Good(m + 1, f[m + 1])
    OBVIOUS
  <2>2. Good(m, f[m])
    BY <1>1, <1>5, <2>1
  <2>3. m + 1 \in 1..n /\ (m + 1) - 1 = m /\ l[m + 1] \in RangeType
    BY <1>1, <2>1
  <2>4. f[m + 1] = Fitted(l[m + 1], f[m])
    BY <1>2, <2>3
  <2>5. l[m + 1].stat # NoStat => l[m + 1].start % Sector = 0
    BY <2>3 DEF HeadersAtSectors, n
  <2>6. /\ BlocksizeOf(f[m + 1])
        /\ f[m + 1][1] <= f[m][1]
        /\ FitsRange(l[m + 1], f[m]) => f[m + 1] = f[m]
        /\ f[m + 1][1] = f[m][1] => f[m + 1] = f[m] /\ FitsRange(l[m + 1], f[m])
    BY <2>2, <2>3, <2>4, <2>5, FittedOnce
  <2>7. f[m][1] \in Nat /\ f[m + 1][1] \in Nat
    BY <2>2, <2>6 DEF BlocksizeOf, Candidate
  <2>8. Fit(m + 1) <=> Fit(m) /\ FitsRange(l[m + 1], g)
    OBVIOUS
  <2> HIDE DEF Fit
  <2>9. Fit(m + 1) => f[m + 1] = g
    BY <2>2, <2>6, <2>8
  <2>10. ASSUME f[m + 1][1] = g[1] PROVE f[m + 1] = g /\ Fit(m + 1)
    <3>1. f[m][1] = g[1] /\ f[m + 1][1] = f[m][1]
      BY <1>3, <2>2, <2>6, <2>7, <2>10
    <3> QED
      BY <2>2, <2>6, <2>8, <3>1
  <2> QED
    BY <1>3, <2>2, <2>6, <2>7, <2>9, <2>10
<1>6. Good(n, f[n])
  <2>1. n \in M
    <3> HIDE DEF M
    <3> QED
      BY <1>1, <1>4, <1>5, CountUp
  <2> HIDE DEF Good
  <2> QED
    BY <1>1, <2>1
<1>7. FittedToAll(l, g)[1] \in Nat
  BY <1>2, <1>6 DEF BlocksizeOf, Candidate
<1>8. Fit(n) <=> AllFit(l, g)
  BY DEF AllFit, n
<1> HIDE DEF Fit
<1> QED
  BY <1>2, <1>3, <1>6, <1>7, <1>8

(* At last every marked range fits.                                        *)
LEMMA HalveFits ==
    ASSUME NEW l \in Lists, HeadersAtSectors(l), NEW g, BlocksizeOf(g)
    PROVE  BlocksizeOf(Halve(l, g)) /\ AllFit(l, Halve(l, g))
<1> DEFINE n == MaxBlock
           Good(k, x) == BlocksizeOf(x) /\ (AllFit(l, x) \/ x[1] + k <= MaxBlock)
<1>1. n \in Nat /\ Sector \in Nat /\ Sector > 1
  BY SizesAssumption, SectorAssumption
<1>2. PICK f : /\ f[0] = g /\ f[n] = Halve(l, g)
               /\ \A k \in 1..n : f[k] = FittedToAll(l, f[k - 1])
  BY HalveIs
<1> DEFINE M == {m \in Nat : m <= n => Good(m, f[m])}
<1>3. 0 \in M
  <2>1. g[1] \in Nat /\ g[1] <= MaxBlock
    BY DEF BlocksizeOf, Candidate
  <2> QED
    BY <1>1, <1>2, <2>1
<1>4. ASSUME NEW m \in Nat, m \in M PROVE m + 1 \in M
  <2>1. SUFFICES ASSUME m + 1 <= n PROVE Good(m + 1, f[m + 1])
    OBVIOUS
  <2>2. Good(m, f[m])
    BY <1>1, <1>4, <2>1
  <2>3. m + 1 \in 1..n /\ (m + 1) - 1 = m
    BY <1>1, <2>1
  <2>4. f[m + 1] = FittedToAll(l, f[m])
    BY <1>2, <2>3
  <2>5. /\ BlocksizeOf(f[m + 1]) /\ f[m + 1][1] <= f[m][1]
        /\ AllFit(l, f[m]) => f[m + 1] = f[m]
        /\ ~AllFit(l, f[m]) => f[m + 1][1] < f[m][1]
    BY <2>2, <2>4, FittedRound
  <2>6. f[m][1] \in Nat /\ f[m + 1][1] \in Nat
    BY <2>2, <2>5 DEF BlocksizeOf, Candidate
  <2>7. CASE AllFit(l, f[m])
    BY <2>2, <2>5, <2>7
  <2>8. CASE ~AllFit(l, f[m])
    BY <1>1, <2>2, <2>5, <2>6, <2>8
  <2> QED
    BY <2>7, <2>8
<1>5. Good(n, f[n])
  <2>1. n \in M
    <3> HIDE DEF M
    <3> QED
      BY <1>1, <1>3, <1>4, CountUp
  <2> HIDE DEF Good
  <2> QED
    BY <1>1, <2>1
<1>6. Halve(l, g)[1] \in Nat /\ Sector <= Halve(l, g)[1]
  BY <1>2, <1>5 DEF BlocksizeOf, Candidate
<1> QED
  BY <1>1, <1>2, <1>5, <1>6
-----------------------------------------------------------------------------
(* Removing used space                                                     *)

(* What a cluster makes of the walk.                                       *)
IfUsed(acc, p, vol, c) ==
    IF MetAsUsed(vol, c)
    THEN NotFree(acc, ClusterStart(p, vol, c), vol.cluster) ELSE acc

(* The clusters are met one after another.                                 *)
LEMMA WalkedIs ==
    ASSUME NEW l, NEW p, NEW vol, Len(vol.used) \in Nat
    PROVE  /\ Walked(l, p, vol)[0] = NoRun(l)
           /\ \A k \in 1..Len(vol.used) : Walked(l, p, vol)[k] = IfUsed(Walked(l, p, vol)[k - 1], p, vol, k)
<1> DEFINE P(m, g) == g = [k \in 0..m |-> IF k = 0 THEN NoRun(l) ELSE IfUsed(g[k - 1], p, vol, k)]
           M == { m \in Nat : \E g : P(m, g) }
<1>1. 0 \in M
  <2>1. P(0, [k \in 0..0 |-> NoRun(l)])
    OBVIOUS
  <2> HIDE DEF P
  <2> QED
    BY <2>1
<1>2. ASSUME NEW m \in Nat, m \in M PROVE m + 1 \in M
  <2>1. PICK g : P(m, g)
    <3> HIDE DEF P
    <3> QED
      BY <1>2
  <2> DEFINE h == [k \in 0..(m + 1) |-> IF k <= m THEN g[k] ELSE IfUsed(g[m], p, vol, (m + 1))]
  <2>2. ASSUME NEW k \in 0..(m + 1)
        PROVE  h[k] = IF k = 0 THEN NoRun(l) ELSE IfUsed(h[k - 1], p, vol, k)
    <3>1. CASE k = 0
      BY <3>1, <2>1
    <3>2. CASE k # 0 /\ k <= m
      <4>1. k \in 0..m /\ k - 1 \in 0..m /\ k - 1 <= m /\ k - 1 \in 0..(m + 1)
        BY <3>2
      <4>2. h[k] = g[k] /\ h[k - 1] = g[k - 1]
        BY <4>1
      <4>3. g[k] = IfUsed(g[k - 1], p, vol, k)
        BY <4>1, <3>2, <2>1
      <4> QED
        BY <4>2, <4>3, <3>2
    <3>3. CASE k = m + 1
      <4>1. h[k - 1] = g[m] /\ k # 0
        BY <3>3
      <4>2. h[k] = IfUsed(g[m], p, vol, k)
        BY <3>3
      <4> QED
        BY <4>1, <4>2
    <3> QED
      BY <3>1, <3>2, <3>3
  <2>3. h = [k \in 0..(m + 1) |-> h[k]]
    OBVIOUS
  <2> HIDE DEF h
  <2>4. P(m + 1, h)
    BY <2>2, <2>3
  <2> HIDE DEF P
  <2>5. m + 1 \in Nat
    OBVIOUS
  <2> QED
    BY <2>4, <2>5
<1>3. Len(vol.used) \in M
  <2>1. Len(vol.used) \in Nat
    OBVIOUS
  <2> HIDE DEF M
  <2> QED
    BY <1>1, <1>2, <2>1, CountUp
<1>4. \E g : P(Len(vol.used), g)
  <2> HIDE DEF P
  <2> QED
    BY <1>3
<1> DEFINE f == Walked(l, p, vol)
<1>5. f = CHOOSE g : P(Len(vol.used), g)
  BY DEF Walked, IfUsed
<1> HIDE DEF P, f
<1>6. P(Len(vol.used), f)
  BY <1>4, <1>5
<1>7. f = [k \in 0..Len(vol.used) |-> IF k = 0 THEN NoRun(l) ELSE IfUsed(f[k - 1], p, vol, k)]
  BY <1>6 DEF P
<1>8. Len(vol.used) \in Nat
  OBVIOUS
<1>9. f[0] = NoRun(l)
  BY <1>7, <1>8
<1>10. ASSUME NEW k \in 1..Len(vol.used)
       PROVE  f[k] = IfUsed(f[k - 1], p, vol, k)
  <2>1. k \in 0..Len(vol.used) /\ k # 0
    BY <1>8
  <2> QED
    BY <1>7, <2>1
<1> QED
  BY <1>9, <1>10 DEF f

(* The partition is p, its clusters begin at no byte 1 of the disk.        *)
Readable(p, vol) ==
    /\ FileSystem(vol) /\ p.start \in Nat /\ p.start + vol.data # 1

LEMMA ReadableFields ==
    ASSUME NEW p, NEW vol, Readable(p, vol)
    PROVE  /\ vol.cluster \in Nat /\ vol.cluster > 1 /\ vol.data \in Nat
           /\ Len(vol.used) \in Nat /\ DOMAIN vol.used = 1..Len(vol.used)
           /\ vol.unread \subseteq Nat /\ vol.kind \in {"fat", "exfat", "ntfs", "ext2"}
           /\ \A c \in 1..Len(vol.used) : vol.used[c] \in BOOLEAN
           /\ vol.opened \in BOOLEAN
BY DEF Readable, FileSystem

(* Clusters follow one another, none of them from byte 1.                  *)
LEMMA NextCluster ==
    ASSUME NEW p, NEW vol, Readable(p, vol), NEW c \in Nat, c > 0
    PROVE  /\ ClusterStart(p, vol, c) \in Nat /\ ClusterStart(p, vol, c) # 1
           /\ ClusterStart(p, vol, c + 1) = ClusterStart(p, vol, c) + vol.cluster
<1> DEFINE b == vol.cluster
           s == p.start + vol.data
           k == c - 1
<1>1. b \in Nat /\ b > 1 /\ s \in Nat /\ s # 1 /\ k \in Nat
  BY ReadableFields DEF Readable
<1>2. ClusterStart(p, vol, c) = s + k * b /\ ClusterStart(p, vol, c + 1) = s + (k + 1) * b
  <2>1. (c + 1) - 1 = k + 1
    OBVIOUS
  <2> QED
    BY <2>1 DEF ClusterStart
<1> HIDE DEF b, s, k
<1>3. k * b \in Nat /\ (k + 1) * b = k * b + b
  BY <1>1
<1>4. k # 0 => k * b >= b
  <2>1. ASSUME k # 0 PROVE 0 * b < k * b
    <3>1. 1 <= k
      BY <1>1, <2>1
    <3>2. 1 * b <= k * b
      BY <1>1, <3>1
    <3> QED
      BY <1>1, <3>2
  <2> QED
    BY <1>1, <1>3, <2>1, Multiples
<1>5. k = 0 => k * b = 0
  BY <1>1
<1>6. s + k * b \in Nat /\ s + k * b # 1
  BY <1>1, <1>3, <1>4, <1>5
<1> QED
  BY <1>1, <1>2, <1>3, <1>6 DEF b

(* Byte x lies in one of the first c clusters, which is met as used.       *)
InUse(p, vol, c, x) ==
    \E k \in 1..c : MetAsUsed(vol, k) /\ x \in Cluster(p, vol, k)

(* The run of used clusters that waits.                                    *)
Run(acc) == IF acc.start = acc.end THEN {} ELSE acc.start .. acc.end

(* After c clusters, what was used has left, but for the run that waits.   *)
WalkedSoFar(l, p, vol, acc, c) ==
    /\ acc \in [list : Lists, start : Nat, end : Nat] /\ Ordered(acc.list)
    /\ Unmarked(l) => Unmarked(acc.list)
    /\ \A x \in Run(acc) : InUse(p, vol, c, x)
    /\ BlocksOf(acc.list) \subseteq BlocksOf(l)
    /\ \A x \in BlocksOf(l) : x \in BlocksOf(acc.list) \/ InUse(p, vol, c, x)
    /\ \A x \in BlocksOf(acc.list) : x \in Run(acc) \/ ~InUse(p, vol, c, x)
    /\ acc.start = acc.end => acc.end = 0
    /\ acc.start # acc.end =>
          acc.start < acc.end /\ acc.end < ClusterStart(p, vol, c + 1)

(* The space without the bytes U tells.                                    *)
LEMMA RunEnds ==
    ASSUME NEW l \in Lists, NEW p, NEW vol, NEW acc, NEW c, WalkedSoFar(l, p, vol, acc, c)
    PROVE  /\ EndRun(acc) \in Lists /\ Ordered(EndRun(acc))
           /\ Unmarked(l) => Unmarked(EndRun(acc))
           /\ \A x : x \in BlocksOf(EndRun(acc)) <=>
                     x \in BlocksOf(l) /\ ~InUse(p, vol, c, x)
<1>1. acc.list \in Lists /\ Ordered(acc.list) /\ acc.start \in Nat /\ acc.end \in Nat
  BY DEF WalkedSoFar
<1>2. CASE acc.start = acc.end
  <2>1. EndRun(acc) = acc.list /\ Run(acc) = {}
    BY <1>2 DEF EndRun, Run
  <2> QED
    BY <1>1, <2>1 DEF WalkedSoFar
<1>3. CASE acc.start # acc.end
  <2>1. EndRun(acc) = RemoveExtent(acc.list, acc.start, acc.end)
        /\ Run(acc) = acc.start .. acc.end
    BY <1>3 DEF EndRun, Run
  <2>2. Removed(acc.list, EndRun(acc), acc.start, acc.end)
    <3>1. acc.end \in Int
      BY <1>1
    <3> QED
      BY <1>1, <2>1, <3>1, RemoveExtentCorrect
  <2>3. /\ EndRun(acc) \in Lists /\ Ordered(EndRun(acc))
        /\ BlocksOf(EndRun(acc)) = BlocksOf(acc.list) \ Run(acc)
        /\ Unmarked(acc.list) => Unmarked(EndRun(acc))
    BY <2>1, <2>2 DEF Removed
  <2> QED
    BY <2>3 DEF WalkedSoFar
<1> QED
  BY <1>2, <1>3

(* One more cluster.                                                       *)
LEMMA WalkedOn ==
    ASSUME NEW l \in Lists, NEW p, NEW vol, Readable(p, vol),
           NEW acc, NEW c \in Nat, c < Len(vol.used), WalkedSoFar(l, p, vol, acc, c)
    PROVE  WalkedSoFar(l, p, vol, IfUsed(acc, p, vol, c + 1), c + 1)
<1> DEFINE d == c + 1
           at == ClusterStart(p, vol, d)
           size == vol.cluster
           Now == IfUsed(acc, p, vol, d)
           Cl == Cluster(p, vol, d)
<1> SUFFICES WalkedSoFar(l, p, vol, Now, d)
  OBVIOUS
<1>1. /\ at \in Nat /\ at # 1 /\ size \in Nat /\ size > 1
      /\ ClusterStart(p, vol, d + 1) = at + size /\ d \in Nat
      /\ Cl = at .. (at + size - 1)
  <2>1. d \in Nat /\ d > 0
    OBVIOUS
  <2> HIDE DEF d
  <2>2. /\ ClusterStart(p, vol, d) \in Nat /\ ClusterStart(p, vol, d) # 1
        /\ ClusterStart(p, vol, d + 1) = ClusterStart(p, vol, d) + vol.cluster
    BY <2>1, NextCluster
  <2> QED
    BY <2>1, <2>2, ReadableFields DEF Cluster
<1>2. acc \in [list : Lists, start : Nat, end : Nat] /\ acc.start \in Nat /\ acc.end \in Nat
      /\ acc.list \in Lists
  BY DEF WalkedSoFar
<1>3. \A x : InUse(p, vol, d, x) <=>
             InUse(p, vol, c, x) \/ (MetAsUsed(vol, d) /\ x \in Cl)
  <2>1. \A k : k \in 1..d <=> k \in 1..c \/ k = d
    OBVIOUS
  <2> HIDE DEF d
  <2> QED
    BY <2>1 DEF InUse
<1> HIDE DEF at, size, Cl
<1>4. CASE ~MetAsUsed(vol, d)
  <2>1. Now = acc
    BY <1>4 DEF IfUsed
  <2>2. \A x : InUse(p, vol, d, x) <=> InUse(p, vol, c, x)
    BY <1>3, <1>4
  <2>3. acc.start # acc.end => acc.end < ClusterStart(p, vol, d + 1)
    BY <1>1, <1>2 DEF WalkedSoFar, at
  <2> HIDE DEF d
  <2> QED
    BY <2>1, <2>2, <2>3 DEF WalkedSoFar
<1>5. CASE MetAsUsed(vol, d)
  <2>1. Now = NotFree(acc, at, size)
    BY <1>5 DEF IfUsed, at, size
  <2>2. \A x : InUse(p, vol, d, x) <=> InUse(p, vol, c, x) \/ x \in Cl
    BY <1>3, <1>5
  <2>3. CASE acc.end + 1 = at
    <3>1. Now = [acc EXCEPT !.end = acc.end + size]
      BY <2>1, <2>3 DEF NotFree
    <3>2. acc.start # acc.end /\ acc.start < acc.end
      BY <1>1, <1>2, <2>3 DEF WalkedSoFar
    <3>3. /\ Now \in [list : Lists, start : Nat, end : Nat]
          /\ Now.list = acc.list /\ Now.start = acc.start /\ Now.end = acc.end + size
      BY <1>1, <1>2, <3>1
    <3>4. Now.start < Now.end /\ Now.start # Now.end /\ Now.end < at + size
      BY <1>1, <1>2, <2>3, <3>2, <3>3
    <3>5. \A x : x \in Run(Now) <=> x \in Run(acc) \/ x \in Cl
      <4>1. Run(Now) = acc.start .. (acc.end + size) /\ Run(acc) = acc.start .. acc.end
        BY <3>2, <3>3, <3>4 DEF Run
      <4> QED
        BY <1>1, <1>2, <2>3, <3>2, <4>1 DEF Cl
    <3> HIDE DEF Now, d
    <3> QED
      BY <1>1, <2>2, <3>3, <3>4, <3>5 DEF WalkedSoFar
  <2>4. CASE acc.end + 1 # at
    <3>1. Now = [list |-> EndRun(acc), start |-> at, end |-> at + size - 1]
      BY <2>1, <2>4 DEF NotFree
    <3>2. /\ EndRun(acc) \in Lists /\ Ordered(EndRun(acc))
          /\ Unmarked(l) => Unmarked(EndRun(acc))
          /\ \A x : x \in BlocksOf(EndRun(acc)) <=>
                     x \in BlocksOf(l) /\ ~InUse(p, vol, c, x)
      BY RunEnds
    <3>3. /\ Now \in [list : Lists, start : Nat, end : Nat]
          /\ Now.list = EndRun(acc) /\ Now.start = at /\ Now.end = at + size - 1
      BY <1>1, <3>1, <3>2
    <3>4. Now.start < Now.end /\ Now.start # Now.end /\ Now.end < at + size
      BY <1>1, <3>3
    <3>5. Run(Now) = Cl
      BY <1>1, <3>3, <3>4 DEF Run, Cl
    <3> HIDE DEF Now, d
    <3> QED
      BY <1>1, <2>2, <3>2, <3>3, <3>4, <3>5 DEF WalkedSoFar
  <2> QED
    BY <2>3, <2>4
<1> QED
  BY <1>4, <1>5

LEMMA WalkedCorrect ==
    ASSUME NEW l \in Lists, Ordered(l), NEW p, NEW vol, Readable(p, vol),
           NEW c \in 0..Len(vol.used)
    PROVE  WalkedSoFar(l, p, vol, Walked(l, p, vol)[c], c)
<1> DEFINE n == Len(vol.used)
           W == Walked(l, p, vol)
           M == {m \in Nat : m <= n => WalkedSoFar(l, p, vol, W[m], m)}
<1>1. n \in Nat
  BY ReadableFields
<1>2. W[0] = NoRun(l) /\ \A k \in 1..n : W[k] = IfUsed(W[k - 1], p, vol, k)
  BY <1>1, WalkedIs
<1> HIDE DEF W
<1>3. 0 \in M
  <2>1. W[0] = [list |-> l, start |-> 0, end |-> 0]
    BY <1>2 DEF NoRun
  <2>2. Run(W[0]) = {}
    BY <2>1 DEF Run
  <2>3. \A x : ~InUse(p, vol, 0, x)
    BY DEF InUse
  <2> QED
    BY <2>1, <2>2, <2>3 DEF WalkedSoFar
<1>4. ASSUME NEW m \in Nat, m \in M PROVE m + 1 \in M
  <2>1. SUFFICES ASSUME m + 1 <= n PROVE WalkedSoFar(l, p, vol, W[m + 1], m + 1)
    OBVIOUS
  <2>2. WalkedSoFar(l, p, vol, W[m], m) /\ m < n
    BY <1>1, <1>4, <2>1
  <2>3. m + 1 \in 1..n /\ (m + 1) - 1 = m
    BY <1>1, <2>1
  <2>4. W[m + 1] = IfUsed(W[m], p, vol, m + 1)
    BY <1>2, <2>3
  <2> QED
    BY <2>2, <2>4, WalkedOn
<1>5. c \in M
  <2>1. c \in Nat
    BY <1>1
  <2> HIDE DEF M
  <2> QED
    BY <1>3, <1>4, <2>1, CountUp
<1> QED
  BY <1>1, <1>5 DEF W
(* What remove_used_space may take out of the space: what lies before the  *)
(* clusters of a FAT, and the used clusters that are known.                *)
TablesOf(p, vol) == IF vol.kind = "fat" THEN p.start .. (p.start + vol.data - 1) ELSE {}

(* m is l without bytes in use; `all`: without every one of them.          *)
FreeOf(l, m, p, vol, all) ==
    /\ m \in Lists /\ Ordered(m) /\ (Unmarked(l) => Unmarked(m))
    /\ BlocksOf(m) \subseteq BlocksOf(l)
    /\ \A x \in BlocksOf(l) :
          x \in BlocksOf(m) \/ x \in TablesOf(p, vol) \/ InUse(p, vol, Len(vol.used), x)
    /\ all => \A x \in BlocksOf(m) :
                 x \notin TablesOf(p, vol) /\ ~InUse(p, vol, Len(vol.used), x)

LEMMA NothingFreed ==
    ASSUME NEW l \in Lists, Ordered(l), NEW p, NEW vol
    PROVE  FreeOf(l, l, p, vol, FALSE)
BY DEF FreeOf

(* The whole walk.                                                         *)
LEMMA AllFreed ==
    ASSUME NEW l \in Lists, Ordered(l), NEW p, NEW vol, Readable(p, vol)
    PROVE  LET m == EndRun(Walked(l, p, vol)[Len(vol.used)])
           IN  /\ m \in Lists /\ Ordered(m) /\ (Unmarked(l) => Unmarked(m))
               /\ \A x : x \in BlocksOf(m) <=>
                         x \in BlocksOf(l) /\ ~InUse(p, vol, Len(vol.used), x)
<1> DEFINE n == Len(vol.used)
           acc == Walked(l, p, vol)[n]
<1>1. n \in 0..n
  BY ReadableFields
<1>2. WalkedSoFar(l, p, vol, acc, n)
  BY <1>1, WalkedCorrect
<1> HIDE DEF acc
<1>3. /\ EndRun(acc) \in Lists /\ Ordered(EndRun(acc))
      /\ Unmarked(l) => Unmarked(EndRun(acc))
      /\ \A x : x \in BlocksOf(EndRun(acc)) <=> x \in BlocksOf(l) /\ ~InUse(p, vol, n, x)
  BY <1>2, RunEnds
<1> QED
  BY <1>3 DEF acc

LEMMA FatFreed ==
    ASSUME NEW l \in Lists, Ordered(l), NEW p, NEW vol, Readable(p, vol), vol.kind = "fat",
           vol.opened
    PROVE  LET free == fat_remove_used_space(l, p, vol)
           IN  FreeOf(l, free.list, p, vol, TRUE) /\ free.blocksize = vol.cluster
<1> DEFINE k == WithoutTables(l, p, vol)
           m == EndRun(Walked(k, p, vol)[Len(vol.used)])
           n == Len(vol.used)
<1>1. p.start \in Nat /\ p.start + vol.data - 1 \in Int
  BY ReadableFields DEF Readable
<1>2. Removed(l, k, p.start, p.start + vol.data - 1)
  BY <1>1, RemoveExtentCorrect DEF WithoutTables
<1>3. k \in Lists /\ Ordered(k) /\ (Unmarked(l) => Unmarked(k))
      /\ BlocksOf(k) = BlocksOf(l) \ TablesOf(p, vol)
  BY <1>2 DEF Removed, TablesOf
<1>4. fat_remove_used_space(l, p, vol) = [blocksize |-> vol.cluster, list |-> m]
  BY DEF fat_remove_used_space, Freed
<1> HIDE DEF k
<1>5. /\ m \in Lists /\ Ordered(m) /\ (Unmarked(k) => Unmarked(m))
      /\ \A x : x \in BlocksOf(m) <=> x \in BlocksOf(k) /\ ~InUse(p, vol, n, x)
  BY <1>3, AllFreed
<1> HIDE DEF m
<1>6. FreeOf(l, m, p, vol, TRUE)
  BY <1>3, <1>5 DEF FreeOf
<1>7. fat_remove_used_space(l, p, vol).list = m
      /\ fat_remove_used_space(l, p, vol).blocksize = vol.cluster
  BY <1>4
<1> QED
  BY <1>6, <1>7

(* exfat and ext2 walk over the whole table or leave everything.           *)
LEMMA WholeTableFreed ==
    ASSUME NEW l \in Lists, Ordered(l), NEW p, NEW vol, Readable(p, vol), vol.kind # "fat"
    PROVE  FreeOf(l, EndRun(Walked(l, p, vol)[Len(vol.used)]), p, vol, TRUE)
<1> DEFINE m == EndRun(Walked(l, p, vol)[Len(vol.used)])
           n == Len(vol.used)
<1>1. /\ m \in Lists /\ Ordered(m) /\ (Unmarked(l) => Unmarked(m))
      /\ \A x : x \in BlocksOf(m) <=> x \in BlocksOf(l) /\ ~InUse(p, vol, n, x)
  BY AllFreed
<1>2. TablesOf(p, vol) = {}
  BY DEF TablesOf
<1> HIDE DEF m
<1>3. FreeOf(l, m, p, vol, TRUE)
  BY <1>1, <1>2 DEF FreeOf
<1> QED
  BY <1>3 DEF m

(* ntfs leaves out what lies behind the first cluster it cannot read of.   *)
LEMMA FirstUnreadIs ==
    ASSUME NEW p, NEW vol, Readable(p, vol)
    PROVE  /\ FirstUnread(vol) - 1 \in 0..Len(vol.used) /\ FirstUnread(vol) \in Nat
           /\ vol.unread = {} => FirstUnread(vol) = Len(vol.used) + 1
<1> DEFINE n == Len(vol.used)
           lost == {c \in DOMAIN vol.used : Unread(vol, c)}
<1>1. n \in Nat /\ DOMAIN vol.used = 1..n
  BY ReadableFields
<1>2. FirstUnread(vol) = IF lost = {} THEN n + 1 ELSE Min(lost)
  BY DEF FirstUnread
<1>3. lost \subseteq 1..n /\ lost \subseteq Nat
  BY <1>1
<1>4. vol.unread = {} => lost = {}
  BY DEF Unread
<1> HIDE DEF n, lost
<1> SUFFICES /\ FirstUnread(vol) - 1 \in 0..n /\ FirstUnread(vol) \in Nat
             /\ vol.unread = {} => FirstUnread(vol) = n + 1
  BY DEF n
<1>5. CASE lost = {}
  BY <1>1, <1>2, <1>5
<1>6. CASE lost # {}
  <2>1. Min(lost) \in lost
    BY <1>3, <1>6, MinOfCells
  <2>2. Min(lost) \in 1..n /\ FirstUnread(vol) = Min(lost)
    BY <1>2, <1>3, <1>6, <2>1
  <2>3. FirstUnread(vol) - 1 \in 0..n /\ FirstUnread(vol) \in Nat
    BY <1>1, <2>2
  <2> QED
    BY <1>4, <1>6, <2>3
<1> QED
  BY <1>5, <1>6

LEMMA ReadUpTo ==
    ASSUME NEW l \in Lists, Ordered(l), NEW p, NEW vol, Readable(p, vol),
           NEW c \in 0..Len(vol.used)
    PROVE  FreeOf(l, Walked(l, p, vol)[c].list, p, vol, FALSE)
<1> DEFINE acc == Walked(l, p, vol)[c]
           n == Len(vol.used)
<1>1. WalkedSoFar(l, p, vol, acc, c)
  BY WalkedCorrect
<1> HIDE DEF acc
<1>2. \A x : InUse(p, vol, c, x) => InUse(p, vol, n, x)
  <2>1. n \in Nat /\ 1..c \subseteq 1..n
    BY ReadableFields
  <2> HIDE DEF n
  <2> QED
    BY <2>1 DEF InUse
<1>3. FreeOf(l, acc.list, p, vol, FALSE)
  BY <1>1, <1>2 DEF WalkedSoFar, FreeOf
<1> QED
  BY <1>3 DEF acc

(* Everything in use leaves when the table can be read, and when only FAT  *)
(* or exFAT cannot tell of some clusters, everything known to be in use.   *)
Complete(vol) == vol.opened /\ (vol.kind \in {"fat", "exfat"} \/ vol.unread = {})

LEMMA RemoveUsedCorrect ==
    ASSUME NEW l \in Lists, Ordered(l), NEW p, NEW vol, Readable(p, vol)
    PROVE  LET free == RemoveUsedSpace(l, p, vol)
           IN  /\ FreeOf(l, free.list, p, vol, Complete(vol))
               /\ free.blocksize \in {0, vol.cluster}
<1> DEFINE free == RemoveUsedSpace(l, p, vol)
           n == Len(vol.used)
           W == Walked(l, p, vol)
<1> SUFFICES /\ FreeOf(l, free.list, p, vol, Complete(vol))
             /\ free.blocksize \in {0, vol.cluster}
  OBVIOUS
<1>1. vol.kind \in {"fat", "exfat", "ntfs", "ext2"} /\ vol.opened \in BOOLEAN
  BY ReadableFields
<1>2. CASE free = NothingKnown(l) /\ ~Complete(vol)
  <2>1. free.list = l /\ free.blocksize = 0
    BY <1>2 DEF NothingKnown
  <2>2. FreeOf(l, l, p, vol, FALSE)
    BY NothingFreed
  <2>3. FreeOf(l, l, p, vol, Complete(vol))
    BY <1>2, <2>2 DEF FreeOf
  <2> QED
    BY <2>1, <2>3
<1>3. CASE vol.kind = "fat" /\ vol.opened
  <2>1. free = fat_remove_used_space(l, p, vol)
    BY <1>3 DEF RemoveUsedSpace
  <2>2. FreeOf(l, free.list, p, vol, TRUE) /\ free.blocksize = vol.cluster
    BY <1>3, <2>1, FatFreed
  <2> HIDE DEF free
  <2>3. FreeOf(l, free.list, p, vol, Complete(vol))
    BY <2>2 DEF FreeOf
  <2> QED
    BY <2>2, <2>3
<1>4. CASE vol.kind # "fat" /\ free = Freed(vol, EndRun(W[n]))
  <2>1. free.list = EndRun(W[n]) /\ free.blocksize = vol.cluster
    BY <1>4 DEF Freed
  <2>2. FreeOf(l, EndRun(W[n]), p, vol, TRUE)
    BY <1>4, WholeTableFreed
  <2> HIDE DEF free, W
  <2>3. FreeOf(l, free.list, p, vol, TRUE)
    BY <2>1, <2>2
  <2>4. FreeOf(l, free.list, p, vol, Complete(vol))
    BY <2>3 DEF FreeOf
  <2> QED
    BY <2>1, <2>4
<1>5. CASE vol.kind = "fat" /\ ~vol.opened
  <2>1. free = NothingKnown(l) /\ ~Complete(vol)
    BY <1>5 DEF RemoveUsedSpace, fat_remove_used_space, Complete
  <2> QED
    BY <1>2, <2>1
<1>6. CASE vol.kind = "exfat"
  <2>1. free = exfat_remove_used_space(l, p, vol)
    BY <1>6 DEF RemoveUsedSpace
  <2>2. CASE vol.opened
    BY <1>4, <1>6, <2>1, <2>2 DEF exfat_remove_used_space
  <2>3. CASE ~vol.opened
    BY <1>2, <2>1, <2>3 DEF exfat_remove_used_space, Complete
  <2> QED
    BY <2>2, <2>3
<1>7. CASE vol.kind = "ext2"
  <2>1. free = ext2_remove_used_space(l, p, vol)
    BY <1>7 DEF RemoveUsedSpace
  <2>2. CASE vol.opened /\ vol.unread = {}
    BY <1>4, <1>7, <2>1, <2>2 DEF ext2_remove_used_space
  <2>3. CASE ~(vol.opened /\ vol.unread = {})
    <3>1. ~Complete(vol)
      BY <1>7, <2>3 DEF Complete
    <3>2. free = NothingKnown(l)
      BY <2>1, <2>3 DEF ext2_remove_used_space
    <3> QED
      BY <1>2, <3>1, <3>2
  <2> QED
    BY <2>2, <2>3
<1>8. CASE vol.kind = "ntfs"
  <2>1. free = ntfs_remove_used_space(l, p, vol)
    BY <1>8 DEF RemoveUsedSpace
  <2> DEFINE missing == FirstUnread(vol)
  <2>2. missing - 1 \in 0..n /\ missing \in Nat /\ (vol.unread = {} => missing = n + 1) /\ n \in Nat
    BY FirstUnreadIs, ReadableFields
  <2>3. free = IF ~vol.opened THEN NothingKnown(l)
               ELSE IF missing <= n THEN NothingKnown(W[missing - 1].list)
               ELSE Freed(vol, EndRun(W[n]))
    BY <2>1 DEF ntfs_remove_used_space
  <2>4. CASE ~vol.opened
    BY <1>2, <2>3, <2>4 DEF Complete
  <2>5. CASE vol.opened /\ missing <= n
    <3>1. free.list = W[missing - 1].list /\ free.blocksize = 0
      BY <2>3, <2>5 DEF NothingKnown
    <3>2. FreeOf(l, W[missing - 1].list, p, vol, FALSE)
      BY <2>2, ReadUpTo
    <3> HIDE DEF free, W
    <3>3. ~Complete(vol)
      BY <1>8, <2>2, <2>5 DEF Complete
    <3>4. FreeOf(l, free.list, p, vol, FALSE)
      BY <3>1, <3>2
    <3>5. FreeOf(l, free.list, p, vol, Complete(vol))
      BY <3>3, <3>4 DEF FreeOf
    <3> QED
      BY <3>1, <3>5
  <2>6. CASE vol.opened /\ ~(missing <= n)
    BY <1>4, <1>8, <2>3, <2>6
  <2> QED
    BY <2>4, <2>5, <2>6
<1> QED
  BY <1>1, <1>3, <1>5, <1>6, <1>7, <1>8
-----------------------------------------------------------------------------
(* Meeting headers                                                         *)

(* The walk is at place `at` of the range in cell i.                       *)
Holds(l, i, at) == i \in 1..Len(l) /\ at \in Extent(l[i])

(* A header found cuts no more than the range it lies in, and the cell     *)
(* file_found goes on from begins with it.                                 *)
LEMMA FoundMarks ==
    ASSUME NEW l \in Lists, Ordered(l), NEW i, NEW at, Holds(l, i, at),
           NEW kind \in Stats, NEW H, MarkedIn(l, H), at \in H
    PROVE  LET m == FileFound(l, i, at, kind)
               j == IF l[i].start = at THEN i ELSE i + 1
           IN  /\ m \in Lists /\ Ordered(m) /\ BlocksOf(m) = BlocksOf(l)
               /\ Holds(m, j, at) /\ MarkedIn(m, H)
<1> DEFINE r == l[i]
           m == FileFound(l, i, at, kind)
<1>1. /\ Len(l) \in Nat /\ DOMAIN l = 1..Len(l) /\ i \in 1..Len(l)
      /\ r \in RangeType /\ r.start \in Nat /\ r.end \in Nat /\ r.stat \in Stats \cup {NoStat}
      /\ r.start <= at /\ at <= r.end /\ at \in Nat
      /\ \A k \in 1..Len(l) : l[k] \in RangeType
  <2>1. Len(l) \in Nat /\ DOMAIN l = 1..Len(l) /\ i \in 1..Len(l)
        /\ \A k \in 1..Len(l) : l[k] \in RangeType
    BY CellsOfLists DEF Holds
  <2>2. r \in RangeType /\ r.start \in Nat /\ r.end \in Nat /\ r.stat \in Stats \cup {NoStat}
    BY <2>1 DEF RangeType
  <2> QED
    BY <2>1, <2>2 DEF Holds, Extent
<1>2. CASE r.start = at
  <2> DEFINE q == [start |-> r.start, end |-> r.end, stat |-> kind]
             n == [l EXCEPT ![i] = q]
  <2>1. m = n
    <3>1. [r EXCEPT !.stat = kind] = q
      BY <1>1 DEF RangeType
    <3>2. m = [l EXCEPT ![i] = [r EXCEPT !.stat = kind]]
      BY <1>2 DEF FileFound
    <3> HIDE DEF q, m
    <3> QED
      BY <3>1, <3>2
  <2>2. q \in RangeType /\ q.start = r.start /\ q.end = r.end /\ q.stat = kind
    BY <1>1 DEF RangeType
  <2>3. \A j \in 1..Len(l) : (j < i => l[j].end < q.start) /\ (i < j => q.end < l[j].start)
    BY <1>1, <2>2 DEF Ordered
  <2> HIDE DEF q
  <2>4. Fits(l, i, q)
    BY <1>1, <2>2, <2>3 DEF Fits
  <2>5. /\ n \in Lists /\ Len(n) = Len(l) /\ Ordered(n)
        /\ \A x : x \in BlocksOf(n) <=>
                      (x \in BlocksOf(l) /\ x \notin Extent(l[i])) \/ x \in Extent(q)
    BY <2>4, FittingRange
  <2>6. \A k \in 1..Len(l) : n[k] = IF k = i THEN q ELSE l[k]
    BY <1>1
  <2>7. Extent(q) = Extent(l[i]) /\ Extent(l[i]) \subseteq BlocksOf(l)
    BY <1>1, <2>2 DEF Extent, BlocksOf
  <2> HIDE DEF n
  <2>8. BlocksOf(n) = BlocksOf(l)
    BY <2>5, <2>7
  <2>9. Holds(n, i, at)
    BY <1>1, <2>5, <2>6, <2>7 DEF Holds
  <2>10. MarkedIn(n, H)
    BY <1>1, <1>2, <2>2, <2>5, <2>6 DEF MarkedIn
  <2> HIDE DEF m
  <2>11. /\ m \in Lists /\ Ordered(m) /\ BlocksOf(m) = BlocksOf(l)
         /\ Holds(m, i, at) /\ MarkedIn(m, H)
    BY <2>1, <2>5, <2>8, <2>9, <2>10
  <2> QED
    BY <1>2, <2>11 DEF m, r
<1>3. CASE r.start # at
  <2> DEFINE q == [start |-> at, end |-> l[i].end, stat |-> kind]
             n == InsertAt([l EXCEPT ![i].end = at - 1], i + 1, q)
  <2>1. r.start < at
    BY <1>1, <1>3
  <2>2. m = n
    BY <1>1, <1>3, <2>1 DEF FileFound
  <2>3. Splits(l, i, at, kind)
    BY <1>1, <2>1 DEF Splits
  <2>4. IsSplit(l, n, i, q)
    BY <2>3, SplitRange
  <2>5. q.start = at /\ q.end = r.end /\ q.stat = kind
    OBVIOUS
  <2> HIDE DEF n, q
  <2>6. /\ n \in Lists /\ Ordered(n) /\ BlocksOf(n) = BlocksOf(l) /\ MarkedIn(n, H)
        /\ i + 1 \in 1..Len(n) /\ n[i + 1] = q
    BY <2>4, <2>5 DEF IsSplit
  <2>7. Holds(n, i + 1, at)
    BY <1>1, <2>5, <2>6 DEF Holds, Extent
  <2> HIDE DEF m
  <2>8. /\ m \in Lists /\ Ordered(m) /\ BlocksOf(m) = BlocksOf(l)
        /\ Holds(m, i + 1, at) /\ MarkedIn(m, H)
    BY <2>2, <2>6, <2>7
  <2> QED
    BY <1>3, <2>8 DEF m, r
<1> QED
  BY <1>2, <1>3

(* The cursor is the list head, or on the range that holds its offset.     *)
CursorOn(l, i, at) == at \in Nat /\ (i # ListHead => Holds(l, i, at))

LEMMA FirstOfRange ==
    ASSUME NEW l \in Lists, Ordered(l), NEW i \in 0..Len(l)
    PROVE  CursorOn(l, i, StartOf(l, i))
<1>1. CASE i = 0
  BY <1>1 DEF CursorOn, StartOf, ListHead
<1>2. CASE i # 0
  <2>1. Len(l) \in Nat /\ i \in 1..Len(l) /\ l[i].start \in Nat /\ l[i].end \in Nat
        /\ l[i].start <= l[i].end
    BY <1>2, CellsOfLists DEF Ordered
  <2> QED
    BY <1>2, <2>1 DEF CursorOn, StartOf, ListHead, Holds, Extent
<1> QED
  BY <1>1, <1>2

LEMMA NextStays ==
    ASSUME NEW l \in Lists, Ordered(l), NEW i, NEW at \in Nat, Holds(l, i, at)
    PROVE  LET next == NextSector(l, i, at) IN CursorOn(l, next[1], next[2])
<1>1. /\ Len(l) \in Nat /\ i \in 1..Len(l) /\ l[i].start \in Nat /\ l[i].end \in Nat
      /\ l[i].start <= at /\ at <= l[i].end /\ Sector \in Nat
  BY CellsOfLists, SectorAssumption DEF Holds, Extent
<1>2. CASE at + Sector <= l[i].end
  <2>1. NextSector(l, i, at) = << i, at + Sector >>
    BY <1>2 DEF NextSector
  <2>2. CursorOn(l, i, at + Sector)
    BY <1>1, <1>2 DEF CursorOn, Holds, Extent
  <2> QED
    BY <2>1, <2>2
<1>3. CASE ~(at + Sector <= l[i].end)
  <2> DEFINE j == NextEntry(l, i)
  <2>1. NextSector(l, i, at) = << j, StartOf(l, j) >>
    BY <1>3 DEF NextSector
  <2>2. j \in 0..Len(l)
    BY <1>1 DEF NextEntry, ListHead
  <2> HIDE DEF j
  <2>3. CursorOn(l, j, StartOf(l, j))
    BY <2>2, FirstOfRange
  <2> QED
    BY <2>1, <2>3
<1> QED
  BY <1>2, <1>3

-----------------------------------------------------------------------------
(* Choosing a space                                                        *)

WholeRange(p) == p \in RangeType /\ p.start <= p.end /\ p.stat = NoStat

LEMMA PartitionIs ==
    ASSUME NEW start \in PartStarts, NEW size \in PartSizes
    PROVE  WholeRange(WholePartition(start, size))
           /\ WholePartition(start, size).start = start
<1> DEFINE a == start + size - 1
           b == DiskSize - 1
           e == Min({a, b})
<1>1. a \in Nat /\ b \in Nat /\ start \in Nat /\ start <= a /\ start <= b
  BY SizesAssumption
<1> HIDE DEF a, b
<1>2. e \in {a, b}
  <2>1. {a, b} \subseteq Nat /\ {a, b} # {}
    BY <1>1
  <2> QED
    BY <2>1, MinOfCells
<1>3. WholePartition(start, size) = [start |-> start, stat |-> NoStat, end |-> e]
  BY DEF WholePartition, a, b
<1> HIDE DEF e
<1> QED
  BY <1>1, <1>2, <1>3 DEF WholeRange, RangeType

LEMMA OneRange ==
    ASSUME NEW p, WholeRange(p)
    PROVE  << p >> \in Lists /\ Ordered(<< p >>) /\ Unmarked(<< p >>)
<1>1. << p >> \in Seq(RangeType) /\ Len(<< p >>) = 1 /\ << p >>[1] = p
  BY DEF WholeRange
<1> DEFINE l == << p >>
<1> HIDE DEF l
<1>2. l \in Seq(RangeType) /\ Len(l) = 1 /\ l[1] = p /\ DOMAIN l = 1..1
  BY <1>1 DEF l
<1>3. l \in Lists /\ Ordered(l) /\ Unmarked(l)
  BY <1>2 DEF WholeRange, Lists, Ordered, Unmarked
<1> QED
  BY <1>3 DEF l

(* Groups follow one another.                                              *)
ExtGroups(e) ==
    /\ e.block \in Nat /\ e.block > 1
    /\ e.blocks \in Nat \ {0} /\ e.inodes \in Nat \ {0}

LEMMA GroupIs ==
    ASSUME NEW e, ExtGroups(e), NEW g \in Nat
    PROVE  WholeRange(GroupExtent(e, g))
<1> DEFINE b == GroupBytes(e)
           o == BeforeGroups(e)
<1>1. b \in Nat /\ b > 0
  BY DEF ExtGroups, GroupBytes
<1>2. o \in Nat
  BY SectorAssumption DEF BeforeGroups
<1>3. GroupExtent(e, g) = [start |-> g * b + o, stat |-> NoStat, end |-> g * b + b - 1 + o]
  BY DEF GroupExtent
<1> HIDE DEF b, o
<1>4. g * b \in Nat
  BY <1>1
<1> DEFINE x == g * b
<1> HIDE DEF x
<1>5. x \in Nat /\ GroupExtent(e, g) = [start |-> x + o, stat |-> NoStat, end |-> x + b - 1 + o]
  BY <1>3, <1>4 DEF x
<1> QED
  BY <1>1, <1>2, <1>5 DEF WholeRange, RangeType

LEMMA GroupsFollow ==
    ASSUME NEW e, ExtGroups(e), NEW g \in Nat, NEW h \in Nat, g < h
    PROVE  GroupExtent(e, g).end < GroupExtent(e, h).start
<1> DEFINE b == GroupBytes(e)
           o == BeforeGroups(e)
<1>1. b \in Nat \ {0}
  BY DEF ExtGroups, GroupBytes
<1>2. o \in Nat
  BY SectorAssumption DEF BeforeGroups
<1>3. GroupExtent(e, g).end = g * b + b - 1 + o /\ GroupExtent(e, h).start = h * b + o
  BY DEF GroupExtent
<1> HIDE DEF b, o
<1>4. g * b + b <= h * b
  <2>1. h = g + (h - g) /\ h - g \in Nat /\ h - g >= 1
    OBVIOUS
  <2>2. g * b < h * b
    <3>1. h * b = g * b + (h - g) * b /\ g * b \in Int /\ (h - g) * b \in Int
      BY <1>1, <2>1
    <3>2. (h - g) * b >= 1 * b
      BY <1>1, <2>1
    <3> QED
      BY <1>1, <3>1, <3>2
  <2> QED
    BY <1>1, <2>2, Multiples
<1>5. g * b \in Int /\ h * b \in Int
  BY <1>1
<1> QED
  BY <1>1, <1>2, <1>3, <1>4, <1>5

(* The ranges of groups are in order when no group is named twice.         *)
GroupsIn(e, l, s) ==
    /\ \A i \in DOMAIN s : s[i] \in Nat
    /\ \A i, j \in DOMAIN s : i < j => s[i] <= s[j]
    /\ l = [i \in DOMAIN s |-> GroupExtent(e, s[i])]

LEMMA GroupsOrdered ==
    ASSUME NEW e, ExtGroups(e), NEW n \in Nat, NEW s, DOMAIN s = 1..n,
           NEW l, GroupsIn(e, l, s),
           \A i, j \in DOMAIN l : i # j => Extent(l[i]) \cap Extent(l[j]) = {}
    PROVE  l \in Lists /\ Ordered(l) /\ Unmarked(l)
<1>1. /\ DOMAIN l = 1..n
      /\ \A i \in 1..n : s[i] \in Nat /\ l[i] = GroupExtent(e, s[i])
      /\ \A i, j \in 1..n : i < j => s[i] <= s[j]
  BY DEF GroupsIn
<1>2. \A i \in 1..n : WholeRange(l[i])
  BY <1>1, GroupIs
<1>3. l \in Seq(RangeType) /\ Len(l) = n
  <2>1. l = [i \in 1..n |-> l[i]]
    BY <1>1 DEF GroupsIn
  <2>2. \A i \in 1..n : l[i] \in RangeType
    BY <1>2 DEF WholeRange
  <2>3. l \in [1..n -> RangeType]
    BY <2>1, <2>2
  <2> QED
    BY <2>3
<1>4. ASSUME NEW i \in 1..n, NEW j \in 1..n, i < j PROVE l[i].end < l[j].start
  <2>1. s[i] \in Nat /\ s[j] \in Nat /\ s[i] <= s[j]
    BY <1>1, <1>4
  <2>2. s[i] # s[j]
    <3>1. SUFFICES ASSUME s[i] = s[j] PROVE FALSE
      OBVIOUS
    <3>2. l[i] = l[j]
      BY <1>1, <3>1
    <3>3. l[i].start \in Extent(l[i])
      BY <1>2 DEF WholeRange, Extent, RangeType
    <3>4. Extent(l[i]) \cap Extent(l[j]) = {}
      BY <1>1, <1>4
    <3> QED
      BY <3>2, <3>3, <3>4
  <2>3. s[i] < s[j]
    BY <2>1, <2>2
  <2> QED
    BY <1>1, <2>1, <2>3, GroupsFollow
<1>5. Ordered(l)
  BY <1>1, <1>2, <1>4 DEF Ordered, WholeRange
<1> QED
  BY <1>2, <1>3, <1>5 DEF Lists, Unmarked, WholeRange
LEMMA DivGrows ==
    ASSUME NEW a \in Nat, NEW b \in Nat, a <= b, NEW d \in Nat \ {0}
    PROVE  a \div d \in Nat /\ a \div d <= b \div d
<1> DEFINE q == a \div d
           r == b \div d
<1>1. /\ q \in Int /\ a % d \in 0..(d - 1) /\ a = q * d + (a % d)
      /\ r \in Int /\ b % d \in 0..(d - 1) /\ b = r * d + (b % d)
  BY DivBy
<1> DEFINE x == a % d
           y == b % d
<1> HIDE DEF q, r, x, y
<1>2. q \in Int /\ x \in 0..(d - 1) /\ a = q * d + x /\ r \in Int /\ y \in 0..(d - 1) /\ b = r * d + y
  BY <1>1 DEF x, y
<1>3. q * d \in Int /\ r * d \in Int
  BY <1>2
<1>4. q <= r
  <2>1. SUFFICES ASSUME r < q PROVE FALSE
    BY <1>2
  <2>2. r * d < q * d
    <3>1. q * d = r * d + (q - r) * d /\ (q - r) * d \in Int /\ q - r >= 1
      BY <1>2, <2>1
    <3>2. (q - r) * d >= 1 * d
      BY <1>2, <3>1
    <3> QED
      BY <1>3, <3>1, <3>2
  <2>3. r * d + d <= q * d
    BY <1>2, <2>2, Multiples
  <2> QED
    BY <1>2, <1>3, <2>3
<1>5. q \in Nat
  <2>1. SUFFICES ASSUME q < 0 PROVE FALSE
    BY <1>2
  <2>2. q * d < 0 * d
    <3>1. q <= 0 - 1
      BY <1>2, <2>1
    <3>2. q * d <= (0 - 1) * d
      BY <1>2, <3>1
    <3> QED
      BY <1>2, <3>2
  <2>3. q * d + d <= 0 * d
    BY <1>2, <2>2, Multiples
  <2> QED
    BY <1>2, <1>3, <2>3
<1> QED
  BY <1>4, <1>5 DEF q, r

(* What the user may name: numbers in increasing order.                    *)
LEMMA NamedNumbers ==
    ASSUME NEW S, S \subseteq Nat, NEW n \in Nat, NEW s \in SortedUniq(S, n)
    PROVE  \E k \in Nat : /\ DOMAIN s = 1..k
                          /\ \A i \in 1..k : s[i] \in Nat
                          /\ \A i, j \in 1..k : i < j => s[i] < s[j]
<1>1. PICK k \in 1..n : s \in [1..k -> S] /\ Increasing(s)
  BY DEF SortedUniq
<1>2. DOMAIN s = 1..k /\ k \in Nat
  BY <1>1
<1>3. \A i \in 1..k : s[i] \in Nat
  BY <1>1
<1>4. \A i, j \in 1..k : i < j => s[i] < s[j]
  BY <1>1, <1>2 DEF Increasing
<1> QED
  BY <1>2, <1>3, <1>4

LEMMA GroupsChosen ==
    ASSUME NEW e, ExtGroups(e), NEW S, S \subseteq Nat, NEW n \in Nat,
           NEW s \in SortedUniq(S, n), NEW l, l \in {ext2_fix_group(e, s), ext2_fix_inode(e, s)},
           \A i, j \in DOMAIN l : i # j => Extent(l[i]) \cap Extent(l[j]) = {}
    PROVE  l \in Lists /\ Ordered(l) /\ Unmarked(l)
<1>1. PICK k \in Nat : /\ DOMAIN s = 1..k
                       /\ \A i \in 1..k : s[i] \in Nat
                       /\ \A i, j \in 1..k : i < j => s[i] < s[j]
  BY NamedNumbers
<1>2. CASE l = ext2_fix_group(e, s)
  <2>1. l = [i \in DOMAIN s |-> GroupExtent(e, s[i])]
    BY <1>2 DEF ext2_fix_group
  <2>2. GroupsIn(e, l, s)
    BY <1>1, <2>1 DEF GroupsIn
  <2> QED
    BY <1>1, <2>2, GroupsOrdered
<1>3. CASE l = ext2_fix_inode(e, s)
  <2> DEFINE t == [i \in DOMAIN s |-> GroupOf(e, s[i])]
  <2>1. l = [i \in DOMAIN s |-> GroupExtent(e, GroupOf(e, s[i]))]
    BY <1>3 DEF ext2_fix_inode
  <2>2. DOMAIN t = 1..k /\ \A i \in 1..k : t[i] = GroupOf(e, s[i])
    BY <1>1
  <2>3. ASSUME NEW i \in 1..k, NEW j \in 1..k, i <= j PROVE t[i] \in Nat /\ t[i] <= t[j]
    <3>1. s[i] \in Nat /\ s[j] \in Nat /\ s[i] <= s[j]
      <4>1. CASE i = j
        BY <1>1, <4>1
      <4>2. CASE i < j
        BY <1>1, <4>2
      <4> QED
        BY <2>3, <4>1, <4>2
    <3>2. t[i] = s[i] \div e.inodes /\ t[j] = s[j] \div e.inodes
      BY <2>2 DEF GroupOf
    <3>3. e.inodes \in Nat \ {0}
      BY DEF ExtGroups
    <3> HIDE DEF t
    <3> DEFINE a == s[i]
               b == s[j]
               d == e.inodes
    <3> HIDE DEF a, b, d
    <3>4. a \in Nat /\ b \in Nat /\ a <= b /\ d \in Nat \ {0}
      BY <3>1, <3>3 DEF a, b, d
    <3>5. a \div d \in Nat /\ a \div d <= b \div d
      BY <3>4, DivGrows
    <3> QED
      BY <3>2, <3>5 DEF a, b, d
  <2>4. l = [i \in DOMAIN t |-> GroupExtent(e, t[i])]
    BY <1>1, <2>1, <2>2
  <2> HIDE DEF t
  <2>5. /\ \A i \in DOMAIN t : t[i] \in Nat
        /\ \A i, j \in DOMAIN t : i < j => t[i] <= t[j]
    BY <2>2, <2>3
  <2>6. GroupsIn(e, l, t)
    BY <2>4, <2>5 DEF GroupsIn
  <2> QED
    BY <2>2, <2>6, GroupsOrdered
<1> QED
  BY <1>2, <1>3
-----------------------------------------------------------------------------
(* The invariant of the specification, when no group is chosen twice        *)

MarksAt(l, b, o) ==
    \A i \in 1..Len(l) : l[i].stat # NoStat => l[i].start % b = o % b

PartitionInv == \E start \in PartStarts, size \in PartSizes : partition = WholePartition(start, size)

ListInv ==
    /\ list \in Lists /\ Ordered(list) /\ MarkedIn(list, headers)
    /\ headers \subseteq Sectors
    /\ phase \in {"menu", "chosen", "ready"} => Unmarked(list)

ChosenInv == phase \in {"menu", "chosen"} => chosen = list /\ fs = NoFileSystem

(* What has left the space photorec() got since it was chosen.              *)
SpaceInv ==
    /\ phase # "done" =>
          IF fs = NoFileSystem THEN BlocksOf(list) = BlocksOf(chosen)
          ELSE Readable(partition, fs) /\ FreeOf(chosen, list, partition, fs, Complete(fs))
    /\ phase # "ready" => fs = NoFileSystem

CursorInv == phase = "walk" => CursorOn(list, cur, offset)

BlocksizeInv ==
    /\ blocksize \in Nat /\ startOffset \in Nat
    /\ 1 \notin UserBlocksizes => blocksize # 1
    /\ phase \in {"align", "done"} => blocksize > 0 /\ MarksAt(list, blocksize, startOffset)

RoundedInv ==
    phase = "done" =>
        /\ before \in Lists /\ Ordered(before) /\ MarksAt(before, blocksize, startOffset)
        /\ list = InBlocks(before, blocksize, startOffset % blocksize)

PInv ==
    /\ PartitionInv /\ ListInv /\ ChosenInv /\ SpaceInv
    /\ CursorInv /\ BlocksizeInv /\ RoundedInv

LEMMA InitPrepared == Init => PInv
<1> SUFFICES ASSUME Init PROVE PInv
  OBVIOUS
<1>1. /\ list = <<>> /\ chosen = list /\ fs = NoFileSystem /\ phase = "menu"
      /\ blocksize = 0 /\ startOffset = 0 /\ PartitionInv /\ headers \subseteq Sectors
  BY DEF Init, PartitionInv
<1>2. list \in Lists /\ Len(list) = 0 /\ DOMAIN list = 1..0
  BY <1>1 DEF Lists
<1>3. Ordered(list) /\ MarkedIn(list, headers) /\ Unmarked(list)
  BY <1>2 DEF Ordered, MarkedIn, Unmarked
<1> QED
  BY <1>1, <1>2, <1>3
     DEF PInv, ListInv, ChosenInv, SpaceInv, CursorInv, BlocksizeInv, RoundedInv

(* A space is chosen.                                                      *)
LEMMA ChosenKeeps ==
    ASSUME PInv, NEW l, NEW b, Choose(l, b), l \in Lists, Ordered(l), Unmarked(l),
           phase = "menu", b \in Nat, b # 1
    PROVE  PInv'
<1>1. /\ list' = l /\ chosen' = l /\ blocksize' = b /\ phase' = "chosen"
      /\ headers' = headers /\ partition' = partition /\ fs' = fs /\ startOffset' = startOffset
  BY DEF Choose
<1>2. fs = NoFileSystem
  BY DEF PInv, ChosenInv
<1>3. MarkedIn(list', headers')
  BY <1>1 DEF MarkedIn, Unmarked
<1>4. ListInv'
  BY <1>1, <1>3 DEF PInv, ListInv, Sectors
<1>5. PartitionInv'
  BY <1>1 DEF PInv, PartitionInv
<1>6. ChosenInv' /\ SpaceInv' /\ CursorInv' /\ RoundedInv'
  BY <1>1, <1>2 DEF ChosenInv, SpaceInv, CursorInv, RoundedInv
<1>7. BlocksizeInv'
  BY <1>1 DEF PInv, BlocksizeInv
<1> QED
  BY <1>4, <1>5, <1>6, <1>7 DEF PInv

LEMMA ChooseWholeKeeps ==
    ASSUME PInv, ChooseWhole
    PROVE  PInv'
<1>1. WholeRange(partition)
  BY PartitionIs DEF PInv, PartitionInv
<1>2. << partition >> \in Lists /\ Ordered(<< partition >>) /\ Unmarked(<< partition >>)
  BY <1>1, OneRange
<1> DEFINE l == << partition >>
<1> HIDE DEF l
<1>3. Choose(l, 0) /\ phase = "menu"
  BY DEF ChooseWhole, l
<1>4. l \in Lists /\ Ordered(l) /\ Unmarked(l)
  BY <1>2 DEF l
<1>5. 0 \in Nat /\ 0 # 1
  OBVIOUS
<1> QED
  BY <1>3, <1>4, <1>5, ChosenKeeps

(* Groups of an ext2 file system, none of them twice.                      *)
LEMMA GroupsKeep ==
    ASSUME PInv, phase = "menu", NEW e \in Ext2s, NEW S, S \subseteq Nat, NEW n \in Nat,
           NEW s \in SortedUniq(S, n), NEW l, l \in {ext2_fix_group(e, s), ext2_fix_inode(e, s)},
           Choose(l, e.block), GroupsApart'
    PROVE  PInv'
<1>1. ExtGroups(e) /\ e.block \in Nat /\ e.block # 1
  BY Ext2Assumption DEF ExtGroups
<1>2. chosen' = l /\ phase' = "chosen"
  BY DEF Choose
<1>3. \A i, j \in DOMAIN l : i # j => Extent(l[i]) \cap Extent(l[j]) = {}
  BY <1>2 DEF GroupsApart, SameGroup
<1>4. l \in Lists /\ Ordered(l) /\ Unmarked(l)
  BY <1>1, <1>3, GroupsChosen
<1> DEFINE b == e.block
<1> HIDE DEF b
<1>5. Choose(l, b) /\ b \in Nat /\ b # 1
  BY <1>1 DEF b
<1> QED
  BY <1>4, <1>5, ChosenKeeps

LEMMA NGroupsIs ==
    ASSUME NEW e \in Ext2s
    PROVE  NGroups(e, DiskSize) \in Nat /\ e.inodes \in Nat
<1>1. GroupBytes(e) \in Nat \ {0} /\ DiskSize \in Nat /\ 0 \in Nat /\ 0 <= DiskSize
  BY Ext2Assumption, SizesAssumption DEF GroupBytes
<1>2. 0 \div GroupBytes(e) \in Nat /\ 0 \div GroupBytes(e) <= DiskSize \div GroupBytes(e)
  BY <1>1, DivGrows
<1>3. DiskSize \div GroupBytes(e) \in Nat
  BY <1>1, DivGrows
<1> QED
  BY <1>3, Ext2Assumption DEF NGroups

LEMMA ChooseGroupsKeeps ==
    ASSUME PInv, ChooseGroups, GroupsApart'
    PROVE  PInv'
<1>0. PICK e \in Ext2s :
          \E s \in SortedUniq(0..(NGroups(e, DiskSize) - 1), NGroups(e, DiskSize)) :
             Choose(ext2_fix_group(e, s), e.block)
  BY DEF ChooseGroups
<1>1. PICK s \in SortedUniq(0..(NGroups(e, DiskSize) - 1), NGroups(e, DiskSize)) :
          Choose(ext2_fix_group(e, s), e.block)
  BY <1>0
<1> DEFINE l == ext2_fix_group(e, s)
           n == NGroups(e, DiskSize)
           S == 0..(n - 1)
<1>2. n \in Nat
  BY NGroupsIs
<1>3. phase = "menu" /\ s \in SortedUniq(S, n) /\ Choose(l, e.block)
      /\ l \in {ext2_fix_group(e, s), ext2_fix_inode(e, s)}
  BY <1>1 DEF ChooseGroups
<1> HIDE DEF l, n
<1>4. S \subseteq Nat
  BY <1>2
<1> HIDE DEF S
<1> QED
  BY <1>2, <1>3, <1>4, GroupsKeep

LEMMA ChooseInodesKeeps ==
    ASSUME PInv, ChooseInodes, GroupsApart'
    PROVE  PInv'
<1>0. PICK e \in Ext2s :
          \E s \in SortedUniq(1..(NGroups(e, DiskSize) * e.inodes), MaxInodes) :
             Choose(ext2_fix_inode(e, s), e.block)
  BY DEF ChooseInodes
<1>1. PICK s \in SortedUniq(1..(NGroups(e, DiskSize) * e.inodes), MaxInodes) :
          Choose(ext2_fix_inode(e, s), e.block)
  BY <1>0
<1> DEFINE l == ext2_fix_inode(e, s)
           k == NGroups(e, DiskSize) * e.inodes
           S == 1..k
           n == MaxInodes
<1>2. n \in Nat
  BY SizesAssumption
<1>3. phase = "menu" /\ s \in SortedUniq(S, n) /\ Choose(l, e.block)
      /\ l \in {ext2_fix_group(e, s), ext2_fix_inode(e, s)}
  BY <1>1 DEF ChooseInodes
<1>5. k \in Nat
  BY NGroupsIs
<1> HIDE DEF l, k, n
<1>4. S \subseteq Nat
  BY <1>5
<1> HIDE DEF S
<1> QED
  BY <1>2, <1>3, <1>4, GroupsKeep

(* Blocksizes are no single byte.                                          *)
LEMMA ReadyKeeps ==
    ASSUME PInv, NEW l, NEW b, Ready(l, b), l \in Lists, Ordered(l), Unmarked(l),
           b \in Nat, 1 \notin UserBlocksizes => b # 1,
           IF fs' = NoFileSystem THEN BlocksOf(l) = BlocksOf(chosen)
           ELSE Readable(partition, fs') /\ FreeOf(chosen, l, partition, fs', Complete(fs'))
    PROVE  PInv'
<1>1. /\ list' = l /\ chosen' = chosen /\ phase' = "ready" /\ blocksize' \in {b} \cup UserBlocksizes
      /\ headers' = headers /\ partition' = partition /\ startOffset' = startOffset
  BY DEF Ready
<1>2. blocksize' \in Nat /\ (1 \notin UserBlocksizes => blocksize' # 1)
  BY <1>1, SizesAssumption
<1>3. MarkedIn(list', headers')
  BY <1>1 DEF MarkedIn, Unmarked
<1>4. ListInv'
  BY <1>1, <1>3 DEF PInv, ListInv, Sectors
<1>5. PartitionInv'
  BY <1>1 DEF PInv, PartitionInv
<1>6. SpaceInv'
  BY <1>1 DEF SpaceInv
<1>7. ChosenInv' /\ CursorInv' /\ RoundedInv'
  BY <1>1 DEF ChosenInv, CursorInv, RoundedInv
<1>8. BlocksizeInv'
  BY <1>1, <1>2 DEF PInv, BlocksizeInv
<1> QED
  BY <1>4, <1>5, <1>6, <1>7, <1>8 DEF PInv

LEMMA KeepSpaceKeeps ==
    ASSUME PInv, KeepSpace
    PROVE  PInv'
<1>1. phase = "chosen" /\ Ready(list, blocksize) /\ fs' = fs
  BY DEF KeepSpace
<1>2. /\ list \in Lists /\ Ordered(list) /\ Unmarked(list) /\ blocksize \in Nat
      /\ 1 \notin UserBlocksizes => blocksize # 1
      /\ chosen = list /\ fs = NoFileSystem
  BY <1>1 DEF PInv, ListInv, ChosenInv, BlocksizeInv
<1>3. IF fs' = NoFileSystem THEN BlocksOf(list) = BlocksOf(chosen)
      ELSE Readable(partition, fs') /\ FreeOf(chosen, list, partition, fs', Complete(fs'))
  BY <1>1, <1>2
<1> QED
  BY <1>1, <1>2, <1>3, ReadyKeeps

LEMMA RemoveUsedKeeps ==
    ASSUME PInv, RemoveUsed
    PROVE  PInv'
<1>1. PICK f \in FileSystems(partition) :
          LET free == RemoveUsedSpace(list, partition, f)
          IN  Ready(free.list, free.blocksize) /\ fs' = f
  BY DEF RemoveUsed
<1>2. phase = "chosen"
  BY DEF RemoveUsed
<1>3. /\ list \in Lists /\ Ordered(list) /\ Unmarked(list) /\ chosen = list
  BY <1>2 DEF PInv, ListInv, ChosenInv
<1>4. Readable(partition, f)
  <2>1. PICK start \in PartStarts, size \in PartSizes : partition = WholePartition(start, size)
    BY DEF PInv, PartitionInv
  <2>2. FileSystem(f) /\ start + f.data # 1
    BY <1>1, <2>1, FileSystemsAssumption
  <2>3. partition.start = start /\ start \in Nat
    BY <2>1, PartitionIs, SizesAssumption
  <2> QED
    BY <2>2, <2>3 DEF Readable
<1> DEFINE free == RemoveUsedSpace(list, partition, f)
           l == free.list
           b == free.blocksize
<1>5. FreeOf(list, l, partition, f, Complete(f)) /\ b \in {0, f.cluster}
  BY <1>3, <1>4, RemoveUsedCorrect
<1>6. Ready(l, b) /\ fs' = f
  BY <1>1
<1> HIDE DEF free, l, b
<1>7. l \in Lists /\ Ordered(l) /\ Unmarked(l)
  BY <1>3, <1>5 DEF FreeOf
<1>8. b \in Nat /\ b # 1
  BY <1>4, <1>5, ReadableFields
<1>9. f # NoFileSystem
  <2>1. f.kind \in {"fat", "exfat", "ntfs", "ext2"}
    BY <1>4, ReadableFields
  <2>2. NoFileSystem.kind = "none"
    BY DEF NoFileSystem
  <2> QED
    BY <2>1, <2>2
<1>10. IF fs' = NoFileSystem THEN BlocksOf(l) = BlocksOf(chosen)
       ELSE Readable(partition, fs') /\ FreeOf(chosen, l, partition, fs', Complete(fs'))
  BY <1>3, <1>4, <1>5, <1>6, <1>9
<1> QED
  BY <1>6, <1>7, <1>8, <1>10, ReadyKeeps
(* photorec() is called; ranges are not marked yet.                        *)
LEMMA BlocksizeKnownKeeps ==
    ASSUME PInv, BlocksizeKnown
    PROVE  PInv'
<1>1. /\ phase = "ready" /\ blocksize > 0 /\ phase' = "align"
      /\ chosen' = list /\ fs' = NoFileSystem /\ partition' = partition
      /\ list' = list /\ headers' = headers /\ blocksize' = blocksize
      /\ startOffset' = IF list = <<>> THEN 0 ELSE list[1].start % blocksize
  BY DEF BlocksizeKnown, GhostsRestart
<1>2. /\ list \in Lists /\ Unmarked(list) /\ blocksize \in Nat
      /\ 1 \notin UserBlocksizes => blocksize # 1
  BY <1>1 DEF PInv, ListInv, BlocksizeInv
<1>3. startOffset' \in Nat
  <2>1. CASE list = <<>>
    BY <1>1, <2>1
  <2>2. CASE list # <<>>
    <3>1. Len(list) \in Nat /\ Len(list) # 0
      BY <1>2, <2>2 DEF Lists
    <3>2. list[1].start \in Nat /\ blocksize \in Nat \ {0}
      BY <1>1, <1>2, <3>1, CellsOfLists
    <3> DEFINE x == list[1].start
    <3> HIDE DEF x
    <3>3. x \in Int /\ blocksize \in Nat \ {0}
      BY <3>2 DEF x
    <3>4. x % blocksize \in 0..(blocksize - 1)
      BY <3>3, DivBy
    <3> QED
      BY <1>1, <2>2, <3>3, <3>4 DEF x
  <2> QED
    BY <2>1, <2>2
<1>4. MarksAt(list', blocksize', startOffset')
  BY <1>1, <1>2 DEF MarksAt, Unmarked
<1>5. BlocksizeInv'
  BY <1>1, <1>2, <1>3, <1>4 DEF BlocksizeInv
<1>6. ListInv' /\ PartitionInv'
  BY <1>1 DEF PInv, ListInv, PartitionInv, Sectors
<1>7. ChosenInv' /\ SpaceInv' /\ CursorInv' /\ RoundedInv'
  BY <1>1 DEF ChosenInv, SpaceInv, CursorInv, RoundedInv
<1> QED
  BY <1>5, <1>6, <1>7 DEF PInv

LEMMA StartWalkKeeps ==
    ASSUME PInv, StartWalk
    PROVE  PInv'
<1>1. /\ phase' = "walk"
      /\ chosen' = list /\ fs' = NoFileSystem /\ partition' = partition
      /\ list' = list /\ headers' = headers /\ blocksize' = Sector
      /\ startOffset' = startOffset
      /\ cur' = NextEntry(list, ListHead) /\ offset' = StartOf(list, cur')
  BY DEF StartWalk, GhostsRestart
<1>2. list \in Lists /\ Ordered(list)
  BY DEF PInv, ListInv
<1>3. CursorInv'
  <2>1. cur' \in 0..Len(list)
    <3>1. Len(list) \in Nat
      BY <1>2, CellsOfLists
    <3> QED
      BY <1>1, <3>1 DEF NextEntry, ListHead
  <2> DEFINE c == cur'
  <2> HIDE DEF c
  <2>2. CursorOn(list, c, StartOf(list, c))
    BY <1>2, <2>1, FirstOfRange DEF c
  <2> QED
    BY <1>1, <2>2 DEF CursorInv, c
<1>4. BlocksizeInv'
  BY <1>1, SectorAssumption, SizesAssumption DEF PInv, BlocksizeInv
<1>5. ListInv' /\ PartitionInv'
  BY <1>1 DEF PInv, ListInv, PartitionInv, Sectors
<1>6. ChosenInv' /\ SpaceInv' /\ RoundedInv'
  BY <1>1 DEF ChosenInv, SpaceInv, RoundedInv
<1> QED
  BY <1>3, <1>4, <1>5, <1>6 DEF PInv

(* The walk goes on from a cell that holds the offset.                     *)
LEMMA WalkGoesOn ==
    ASSUME PInv, Walking, NEW i, WalkOn(i), NEW l, list' = l,
           l \in Lists, Ordered(l), BlocksOf(l) = BlocksOf(list), MarkedIn(l, headers),
           Holds(l, i, offset)
    PROVE  PInv'
<1>1. /\ phase = "walk" /\ phase' = phase /\ headers' = headers /\ blocksize' = blocksize
      /\ startOffset' = startOffset /\ partition' = partition /\ chosen' = chosen
      /\ fs' = fs /\ cur # ListHead
  BY DEF Walking, ghosts
<1>2. CursorOn(list, cur, offset) /\ offset \in Nat
  BY <1>1 DEF PInv, CursorInv, CursorOn
<1>3. CursorOn(l, cur', offset')
  <2> DEFINE next == NextSector(l, i, offset)
  <2>1. CursorOn(l, next[1], next[2])
    BY <1>2, NextStays
  <2>2. CursorOn(l, ListHead, offset)
    BY <1>2 DEF CursorOn
  <2>3. \/ cur' = ListHead /\ offset' = offset
        \/ cur' = next[1] /\ offset' = next[2]
    BY DEF WalkOn
  <2> QED
    BY <2>1, <2>2, <2>3
<1>4. ListInv'
  BY <1>1 DEF PInv, ListInv, Sectors
<1>5. PartitionInv' /\ BlocksizeInv'
  BY <1>1 DEF PInv, PartitionInv, BlocksizeInv
<1>6. SpaceInv'
  BY <1>1 DEF PInv, SpaceInv
<1>7. ChosenInv' /\ CursorInv' /\ RoundedInv'
  BY <1>1, <1>3 DEF ChosenInv, CursorInv, RoundedInv
<1> QED
  BY <1>4, <1>5, <1>6, <1>7 DEF PInv

LEMMA MarkHeaderKeeps ==
    ASSUME PInv, NEW kind \in Stats, MarkHeader(kind)
    PROVE  PInv'
<1>1. /\ Walking /\ offset \in headers /\ list' = FileFound(list, cur, offset, kind)
      /\ WalkOn(IF list[cur].start = offset THEN cur ELSE cur + 1)
  BY DEF MarkHeader
<1>2. /\ list \in Lists /\ Ordered(list) /\ MarkedIn(list, headers)
      /\ Holds(list, cur, offset)
  BY <1>1 DEF PInv, ListInv, CursorInv, CursorOn, Walking
<1> DEFINE l == FileFound(list, cur, offset, kind)
           i == IF list[cur].start = offset THEN cur ELSE cur + 1
<1>3. /\ l \in Lists /\ Ordered(l) /\ BlocksOf(l) = BlocksOf(list)
      /\ Holds(l, i, offset) /\ MarkedIn(l, headers)
  BY <1>1, <1>2, FoundMarks
<1>4. list' = l /\ WalkOn(i) /\ Walking
  BY <1>1
<1> HIDE DEF l, i
<1> QED
  BY <1>3, <1>4, WalkGoesOn

LEMMA PassSectorKeeps ==
    ASSUME PInv, PassSector
    PROVE  PInv'
<1>1. Walking /\ list' = list /\ WalkOn(cur)
  BY DEF PassSector
<1>2. /\ list \in Lists /\ Ordered(list) /\ MarkedIn(list, headers)
      /\ Holds(list, cur, offset)
  BY <1>1 DEF PInv, ListInv, CursorInv, CursorOn, Walking
<1> QED
  BY <1>1, <1>2, WalkGoesOn

(* A stop and the end of the walk.                                         *)
LEMMA OtherPhaseKeeps ==
    ASSUME PInv, RequestStop \/ EndWalk
    PROVE  PInv'
<1>1. /\ phase = "walk" /\ phase' \in {"walk", "choose"}
      /\ list' = list /\ headers' = headers /\ cur' = cur /\ offset' = offset
      /\ blocksize' = blocksize /\ startOffset' = startOffset
      /\ partition' = partition /\ chosen' = chosen /\ fs' = fs
  BY DEF RequestStop, EndWalk, ghosts
<1>2. ListInv' /\ PartitionInv' /\ BlocksizeInv' /\ SpaceInv'
  BY <1>1 DEF PInv, ListInv, PartitionInv, BlocksizeInv, SpaceInv, Sectors
<1>3. ChosenInv' /\ CursorInv' /\ RoundedInv'
  BY <1>1 DEF PInv, ChosenInv, CursorInv, RoundedInv
<1> QED
  BY <1>2, <1>3 DEF PInv

LEMMA ChooseBlocksizeKeeps ==
    ASSUME PInv, ChooseBlocksize
    PROVE  PInv'
<1>1. /\ phase = "choose" /\ phase' = "align"
      /\ list' = list /\ headers' = headers
      /\ partition' = partition /\ chosen' = chosen /\ fs' = fs
  BY DEF ChooseBlocksize, ghosts
<1>2. list \in Lists /\ Ordered(list) /\ MarkedIn(list, headers) /\ headers \subseteq Sectors
  BY DEF PInv, ListInv
<1>3. Sector \in Nat /\ Sector > 1 /\ MaxBlock \in Nat /\ MaxBlock > Sector
  BY SectorAssumption, SizesAssumption
<1>4. /\ blocksize' \in Nat /\ blocksize' > 1 /\ startOffset' \in Nat
      /\ MarksAt(list, blocksize', startOffset')
  <2>1. CASE list = <<>>
    <3>1. blocksize' = Sector /\ startOffset' = 0
      BY <2>1 DEF ChooseBlocksize
    <3>2. Len(list) = 0
      BY <2>1
    <3> QED
      BY <1>3, <3>1, <3>2 DEF MarksAt
  <2>2. CASE list # <<>>
    <3> DEFINE x == list[1].start
               g == << MaxBlock, x % MaxBlock >>
               h == Halve(list, g)
    <3>1. x \in Int /\ MaxBlock \in Nat \ {0}
      <4>1. Len(list) \in Nat /\ Len(list) # 0
        BY <1>2, <2>2 DEF Lists
      <4> QED
        BY <1>2, <1>3, <4>1, CellsOfLists
    <3> HIDE DEF x
    <3>2. x % MaxBlock \in 0..(MaxBlock - 1)
      BY <3>1, DivBy
    <3>3. Candidate(MaxBlock)
      BY <1>3, HalvesAssumption DEF Candidate
    <3>4. BlocksizeOf(g)
      BY <1>3, <3>2, <3>3 DEF BlocksizeOf
    <3>5. HeadersAtSectors(list)
      BY <1>2 DEF HeadersAtSectors, MarkedIn, Sectors
    <3>6. blocksize' = h[1] /\ startOffset' = h[2]
      BY <2>2 DEF ChooseBlocksize, x
    <3> HIDE DEF g
    <3>7. BlocksizeOf(h) /\ AllFit(list, h)
      BY <1>2, <3>4, <3>5, HalveFits
    <3> HIDE DEF h
    <3> DEFINE b == h[1]
               o == h[2]
    <3>8. b \in Nat /\ b > 1 /\ o \in 0..(b - 1)
      BY <1>3, <3>7 DEF BlocksizeOf, Candidate
    <3> HIDE DEF b, o
    <3>9. o % b = o /\ o \in Nat
      BY <3>8
    <3>10. MarksAt(list, b, o)
      BY <3>7, <3>9 DEF MarksAt, AllFit, FitsRange, b, o
    <3>11. blocksize' = b /\ startOffset' = o
      BY <3>6 DEF b, o
    <3> QED
      BY <3>8, <3>9, <3>10, <3>11
  <2> QED
    BY <2>1, <2>2
<1>5. BlocksizeInv'
  BY <1>1, <1>4 DEF BlocksizeInv
<1>6. ListInv' /\ PartitionInv' /\ SpaceInv'
  BY <1>1 DEF PInv, ListInv, PartitionInv, SpaceInv, Sectors
<1>7. ChosenInv' /\ CursorInv' /\ RoundedInv'
  BY <1>1 DEF ChosenInv, CursorInv, RoundedInv
<1> QED
  BY <1>5, <1>6, <1>7 DEF PInv

LEMMA UpdateBlocksizeKeeps ==
    ASSUME PInv, UpdateBlocksize
    PROVE  PInv'
<1> DEFINE b == blocksize
           o == startOffset % blocksize
           m == InBlocks(list, b, o)
<1>1. /\ phase = "align" /\ phase' = "done" /\ list' = m /\ before' = list
      /\ headers' = headers /\ blocksize' = blocksize /\ startOffset' = startOffset
      /\ partition' = partition /\ chosen' = chosen /\ fs' = fs
  BY DEF UpdateBlocksize, ghosts
<1>2. /\ list \in Lists /\ Ordered(list) /\ MarkedIn(list, headers)
      /\ b \in Nat \ {0} /\ startOffset \in Int /\ MarksAt(list, blocksize, startOffset)
  BY <1>1 DEF PInv, ListInv, BlocksizeInv
<1>3. o \in 0..(b - 1)
  BY <1>2, DivBy
<1> DEFINE k == o
<1> HIDE DEF k
<1>4. /\ InBlocks(list, b, k) \in Lists /\ Ordered(InBlocks(list, b, k))
      /\ MarksFrom(list, InBlocks(list, b, k))
  <2>1. k \in 0..(b - 1)
    BY <1>3 DEF k
  <2> QED
    BY <1>2, <2>1, InBlocksCorrect
<1>5. m \in Lists /\ Ordered(m) /\ MarksFrom(list, m)
  BY <1>4 DEF k
<1> HIDE DEF m
<1>6. MarkedIn(m, headers) /\ MarksAt(m, blocksize, startOffset)
  BY <1>2, <1>5 DEF MarksFrom, MarkedIn, MarksAt
<1>7. ListInv' /\ BlocksizeInv'
  BY <1>1, <1>5, <1>6 DEF PInv, ListInv, BlocksizeInv, Sectors
<1>8. RoundedInv'
  BY <1>1, <1>2 DEF RoundedInv, m
<1>9. PartitionInv' /\ ChosenInv' /\ SpaceInv' /\ CursorInv'
  BY <1>1 DEF PInv, PartitionInv, ChosenInv, SpaceInv, CursorInv
<1> QED
  BY <1>7, <1>8, <1>9 DEF PInv

LEMMA NothingKeeps ==
    ASSUME PInv, UNCHANGED vars
    PROVE  PInv'
BY DEF PInv, PartitionInv, ListInv, ChosenInv, SpaceInv, CursorInv, BlocksizeInv, RoundedInv,
       vars, ghosts, Sectors

(* PInv holds as long as no group is chosen twice.                         *)
THEOREM PreparationInvariant == Spec /\ []GroupsApart => []PInv
<1>1. Init => PInv
  BY InitPrepared
<1>2. PInv /\ [Next]_vars /\ GroupsApart' => PInv'
  <2> SUFFICES ASSUME PInv, [Next]_vars, GroupsApart' PROVE PInv'
    OBVIOUS
  <2>1. CASE ChooseWhole
    BY <2>1, ChooseWholeKeeps
  <2>2. CASE ChooseGroups
    BY <2>2, ChooseGroupsKeeps
  <2>3. CASE ChooseInodes
    BY <2>3, ChooseInodesKeeps
  <2>4. CASE KeepSpace
    BY <2>4, KeepSpaceKeeps
  <2>5. CASE RemoveUsed
    BY <2>5, RemoveUsedKeeps
  <2>6. CASE BlocksizeKnown
    BY <2>6, BlocksizeKnownKeeps
  <2>7. CASE StartWalk
    BY <2>7, StartWalkKeeps
  <2>8. CASE RequestStop \/ EndWalk
    BY <2>8, OtherPhaseKeeps
  <2>9. ASSUME NEW kind \in Stats, MarkHeader(kind) PROVE PInv'
    BY <2>9, MarkHeaderKeeps
  <2>10. CASE PassSector
    BY <2>10, PassSectorKeeps
  <2>11. CASE ChooseBlocksize
    BY <2>11, ChooseBlocksizeKeeps
  <2>12. CASE UpdateBlocksize
    BY <2>12, UpdateBlocksizeKeeps
  <2>13. CASE UNCHANGED vars
    BY <2>13, NothingKeeps
  <2> QED
    BY <2>1, <2>2, <2>3, <2>4, <2>5, <2>6, <2>7, <2>8, <2>9, <2>10, <2>11, <2>12, <2>13
       DEF Next
<1> QED
  BY <1>1, <1>2, PTL DEF Spec

-----------------------------------------------------------------------------
(* The properties                                                          *)

(* The bytes met as used are among the clusters in use and those in doubt,  *)
(* and all known to be in use are met.                                      *)
LEMMA KnownBytes ==
    ASSUME Readable(partition, fs)
    PROVE  /\ \A x : InUse(partition, fs, Len(fs.used), x) => x \in Bytes(UsedClusters \cup Doubtful)
           /\ \A x : x \in Bytes(KnownUsed) => InUse(partition, fs, Len(fs.used), x)
           /\ Doubtful = {} => Bytes(KnownUsed) = Bytes(UsedClusters)
           /\ Doubtful = {} => Bytes(UsedClusters \cup Doubtful) = Bytes(UsedClusters)
           /\ TablesOf(partition, fs) = Tables
<1>1. DOMAIN fs.used = 1..Len(fs.used)
  BY ReadableFields
<1>2. \A c \in 1..Len(fs.used) : MetAsUsed(fs, c) => c \in UsedClusters \cup Doubtful
  BY <1>1 DEF MetAsUsed, UsedClusters, Doubtful
<1>3. \A c \in KnownUsed : c \in 1..Len(fs.used) /\ MetAsUsed(fs, c)
  BY <1>1 DEF KnownUsed, UsedClusters, Doubtful, MetAsUsed
<1>4. Doubtful = {} => KnownUsed = UsedClusters /\ UsedClusters \cup Doubtful = UsedClusters
  BY DEF KnownUsed
<1>5. \A C, x : x \in Bytes(C) <=> \E c \in C : x \in Cluster(partition, fs, c)
  BY DEF Bytes
<1>6. \A x : InUse(partition, fs, Len(fs.used), x) => x \in Bytes(UsedClusters \cup Doubtful)
  BY <1>2, <1>5 DEF InUse
<1>7. \A x : x \in Bytes(KnownUsed) => InUse(partition, fs, Len(fs.used), x)
  BY <1>3, <1>5 DEF InUse
<1>8. Doubtful = {} => /\ Bytes(KnownUsed) = Bytes(UsedClusters)
                       /\ Bytes(UsedClusters \cup Doubtful) = Bytes(UsedClusters)
  BY <1>4
<1>9. TablesOf(partition, fs) = Tables
  BY DEF TablesOf, Tables
<1> QED
  BY <1>6, <1>7, <1>8, <1>9

LEMMA InvariantFreesUsed == PInv => OnlyUsedLeaves
<1> DEFINE gone == BlocksOf(chosen) \ BlocksOf(list)
           known == BlocksOf(chosen) \cap (Tables \cup Bytes(KnownUsed))
           used == BlocksOf(chosen) \cap (Tables \cup Bytes(UsedClusters))
<1> SUFFICES ASSUME PInv, phase \in {"ready", "walk", "choose", "align"}
             PROVE  /\ Ordered(list)
                    /\ BlocksOf(list) \subseteq BlocksOf(chosen)
                    /\ fs.kind = "none" => gone = {}
                    /\ fs.kind # "none" =>
                         /\ gone \subseteq Tables \cup Bytes(UsedClusters \cup Doubtful)
                         /\ fs.opened /\ (fs.kind \in {"fat", "exfat"} \/ fs.unread = {}) =>
                                known \subseteq gone
                         /\ fs.opened /\ fs.unread = {} /\ Doubtful = {} => gone = used
  BY DEF OnlyUsedLeaves
<1>1. Ordered(list)
  BY DEF PInv, ListInv
<1>2. CASE fs = NoFileSystem
  <2>1. BlocksOf(list) = BlocksOf(chosen) /\ fs.kind = "none"
    BY <1>2 DEF PInv, SpaceInv, NoFileSystem
  <2> QED
    BY <1>1, <2>1
<1>3. CASE fs # NoFileSystem
  <2>1. Readable(partition, fs) /\ FreeOf(chosen, list, partition, fs, Complete(fs))
    BY <1>3 DEF PInv, SpaceInv
  <2>2. fs.kind # "none"
    BY <2>1, ReadableFields
  <2>3. BlocksOf(list) \subseteq BlocksOf(chosen)
    BY <2>1 DEF FreeOf
  <2>4. \A x \in BlocksOf(chosen) :
           x \in BlocksOf(list) \/ x \in Tables \/ x \in Bytes(UsedClusters \cup Doubtful)
    BY <2>1, KnownBytes DEF FreeOf
  <2>5. Complete(fs) => \A x \in BlocksOf(list) : x \notin Tables /\ x \notin Bytes(KnownUsed)
    BY <2>1, KnownBytes DEF FreeOf
  <2>6. gone \subseteq Tables \cup Bytes(UsedClusters \cup Doubtful)
    BY <2>4
  <2>7. Complete(fs) => known \subseteq gone
    BY <2>5
  <2>8. fs.opened /\ (fs.kind \in {"fat", "exfat"} \/ fs.unread = {}) => Complete(fs)
    BY DEF Complete
  <2>9. Doubtful = {} => /\ Bytes(KnownUsed) = Bytes(UsedClusters)
                         /\ Bytes(UsedClusters \cup Doubtful) = Bytes(UsedClusters)
    BY <2>1, KnownBytes
  <2>10. Complete(fs) /\ Doubtful = {} => gone = used
    BY <2>6, <2>7, <2>9
  <2> HIDE DEF gone, known, used
  <2> QED
    BY <1>1, <2>2, <2>3, <2>6, <2>7, <2>8, <2>10
<1> QED
  BY <1>2, <1>3

(* What leaves the space before photorec() carves is in use, or its state  *)
(* was not read from the place it lies at; and all that is known to be in  *)
(* use leaves.                                                             *)
THEOREM OnlyUsedSpaceLeaves == Spec /\ []GroupsApart => []OnlyUsedLeaves
BY PreparationInvariant, InvariantFreesUsed, PTL

LEMMA InvariantInBlocks == PInv => PreparedInBlocks
<1> SUFFICES ASSUME PInv PROVE PreparedInBlocks
  OBVIOUS
<1> DEFINE b == blocksize
           o == startOffset % b
<1>1. list \in Lists /\ Ordered(list) /\ DOMAIN list = 1..Len(list)
  BY CellsOfLists DEF PInv, ListInv
<1>2. ASSUME NEW i \in DOMAIN list, list[i].stat # NoStat
      PROVE  /\ list[i].start \in headers
             /\ phase \in {"align", "done"} => list[i].start % b = o
  BY <1>1, <1>2 DEF PInv, ListInv, MarkedIn, BlocksizeInv, MarksAt
<1>3. ASSUME phase = "done", NEW x \in Starts \cup Ends PROVE x % b = o
  <2>1. /\ before \in Lists /\ Ordered(before) /\ list = InBlocks(before, b, o)
        /\ b \in Nat \ {0} /\ startOffset \in Int
    BY <1>3 DEF PInv, RoundedInv, BlocksizeInv
  <2>2. o \in 0..(b - 1)
    BY <2>1, DivBy
  <2> DEFINE k == o
  <2> HIDE DEF k
  <2>3. WholeBlocks(InBlocks(before, b, k), b, k)
    <3>1. k \in 0..(b - 1)
      BY <2>2 DEF k
    <3> QED
      BY <2>1, <3>1, InBlocksCorrect
  <2>4. WholeBlocks(list, b, o)
    BY <2>1, <2>3 DEF k
  <2>5. PICK i \in 1..Len(list) : x = list[i].start \/ x = list[i].end + 1
    BY <1>1, <1>3 DEF Starts, Ends
  <2> QED
    BY <2>4, <2>5 DEF WholeBlocks
<1> QED
  BY <1>1, <1>2, <1>3 DEF PreparedInBlocks

(* Carving begins with whole blocks, and they begin where headers are.     *)
THEOREM PreparedSpaceInBlocks == Spec /\ []GroupsApart => []PreparedInBlocks
BY PreparationInvariant, InvariantInBlocks, PTL

LEMMA InvariantKeepsBlocks ==
    ASSUME 1 \notin UserBlocksizes
    PROVE  PInv => RoundingKeepsBlocks
<1> DEFINE b == blocksize
           o == startOffset % b
           block(x) == RoundDown(x, b, o) .. (RoundDown(x, b, o) + b - 1)
           lastEnd == Last(before).end
           free == BlocksOf(before)
           now == BlocksOf(list)
<1> SUFFICES ASSUME PInv, phase = "done", before # <<>>
             PROVE  /\ \A x \in free : block(x) \subseteq free => x \in now
                    /\ \A x \in now \ free : lastEnd < x /\ lastEnd \in block(x)
                    /\ \A i \in DOMAIN before :
                          /\ before[i].stat # NoStat
                          /\ before[i].start + b - 1 <= before[i].end
                          => \E j \in DOMAIN list :
                                 /\ list[j].start = before[i].start
                                 /\ list[j].stat = before[i].stat
  BY DEF RoundingKeepsBlocks
<1>1. /\ before \in Lists /\ Ordered(before) /\ list = InBlocks(before, b, o)
      /\ MarksAt(before, b, startOffset) /\ list \in Lists
      /\ b \in Nat \ {0} /\ b > 1 /\ startOffset \in Int
  BY DEF PInv, RoundedInv, BlocksizeInv, ListInv
<1>2. o \in 0..(b - 1)
  BY <1>1, DivBy
<1>3. DOMAIN before = 1..Len(before) /\ DOMAIN list = 1..Len(list)
  BY <1>1, CellsOfLists
<1>4. lastEnd = before[Len(before)].end
  BY DEF Last
<1> DEFINE k == o
<1> HIDE DEF k
<1>5. k \in 0..(b - 1)
  BY <1>2 DEF k
<1> DEFINE m == InBlocks(before, b, k)
           e == before[Len(before)].end
<1>6. /\ \A x \in BlocksOf(before) : Block(x, b, k) \subseteq BlocksOf(before) => x \in BlocksOf(m)
      /\ \A x \in BlocksOf(m) : x \in BlocksOf(before) \/ (e < x /\ e \in Block(x, b, k))
      /\ \A i \in 1..Len(before) :
            /\ before[i].stat # NoStat /\ before[i].start % b = k
            /\ before[i].start + b - 1 <= before[i].end
            => \E u \in 1..Len(m) :
                   m[u].start = before[i].start /\ m[u].stat = before[i].stat
  BY <1>1, <1>5, InBlocksKeeps, SMTT(30)
<1>7. m = list
  BY <1>1 DEF k
<1>8. \A x : block(x) = Block(x, b, k)
  BY DEF Block, k
<1>9. \A i \in 1..Len(before) : before[i].stat # NoStat => before[i].start % b = k
  BY <1>1 DEF MarksAt, k
<1> HIDE DEF m, e, k, block, lastEnd, o
<1>10. e = lastEnd
  BY <1>4 DEF e
<1>11. \A x \in free : block(x) \subseteq free => x \in now
  BY <1>6, <1>7, <1>8
<1>12. \A x \in now \ free : lastEnd < x /\ lastEnd \in block(x)
  BY <1>6, <1>7, <1>8, <1>10
<1>13. \A i \in DOMAIN before :
          /\ before[i].stat # NoStat
          /\ before[i].start + b - 1 <= before[i].end
          => \E j \in DOMAIN list :
                 /\ list[j].start = before[i].start
                 /\ list[j].stat = before[i].stat
  BY <1>3, <1>6, <1>7, <1>9
<1> QED
  BY <1>11, <1>12, <1>13

(* Rounding loses no whole block, whatever the blocksize unless it is one  *)
(* byte.                                                                   *)
THEOREM RoundingLosesNoBlock ==
    ASSUME 1 \notin UserBlocksizes
    PROVE  Spec /\ []GroupsApart => []RoundingKeepsBlocks
<1>1. PInv => RoundingKeepsBlocks
  BY InvariantKeepsBlocks
<1> QED
  BY <1>1, PreparationInvariant, PTL
=============================================================================
