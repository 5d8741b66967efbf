--------------------------- MODULE AdvancedProofs ---------------------------
(***************************************************************************)
(* Proofs about the listing and copying of the files of a partition        *)
(* (DirTree), and about the menu that starts it (Advanced): inode_known is *)
(* the path of the walk whatever the directories and the user do, and a    *)
(* file counted as copied is whole when its clusters can be known.         *)
(***************************************************************************)
EXTENDS Advanced, SequenceTheorems, WellFoundedInduction, TLAPS

Walks == {"log", "copy", "select"}

-----------------------------------------------------------------------------
(* Sequences                                                                *)

(* A sequence is one over its own elements.                                 *)
LEMMA OwnElements ==
    ASSUME NEW S, NEW s \in Seq(S)
    PROVE  s \in Seq(Range(s))
<1>1. \A i \in 1..Len(s) : s[i] \in Range(s)
  BY DEF Range
<1>. QED
  BY <1>1

(* Append, as it is used for the stack and for inode_known                  *)
LEMMA AppendOwn ==
    ASSUME NEW s, s \in Seq(Range(s)), NEW x
    PROVE  /\ Append(s, x) \in Seq(Range(Append(s, x)))
           /\ Len(Append(s, x)) = Len(s) + 1
           /\ Append(s, x)[Len(s) + 1] = x
           /\ \A i \in 1..Len(s) : Append(s, x)[i] = s[i]
<1>. DEFINE S == Range(s) \cup {x}
<1>1. s \in Seq(S) /\ x \in S
  <2>1. \A i \in 1..Len(s) : s[i] \in S
    BY DEF Range
  <2>. QED
    BY <2>1
<1>2. Append(s, x) \in Seq(S)
  BY <1>1
<1>3. Append(s, x) \in Seq(Range(Append(s, x)))
  BY <1>2, OwnElements
<1>. QED
  BY <1>1, <1>3

(* The beginning of a sequence                                              *)
LEMMA Prefix ==
    ASSUME NEW S, NEW s \in Seq(S), NEW n \in 0..Len(s)
    PROVE  /\ SubSeq(s, 1, n) \in Seq(S)
           /\ Len(SubSeq(s, 1, n)) = n
           /\ \A i \in 1..n : SubSeq(s, 1, n)[i] = s[i]
<1>1. Len(s) \in Nat /\ \A i \in 1..n : s[i] \in S
  OBVIOUS
<1>. QED
  BY <1>1, SubSeqProperties

(* All but the last, as it is used for the stack and for inode_known        *)
LEMMA FrontOwn ==
    ASSUME NEW s, s \in Seq(Range(s)), s # <<>>
    PROVE  /\ Front(s) \in Seq(Range(Front(s)))
           /\ Len(Front(s)) = Len(s) - 1
           /\ \A i \in 1..(Len(s) - 1) : Front(s)[i] = s[i]
<1>. DEFINE S == Range(s)
            n == Len(s) - 1
<1>1. s \in Seq(S) /\ n \in 0..Len(s)
  BY EmptySeq
<1>. HIDE DEF S
<1>2. /\ SubSeq(s, 1, n) \in Seq(S)
      /\ Len(SubSeq(s, 1, n)) = n
      /\ \A i \in 1..n : SubSeq(s, 1, n)[i] = s[i]
  BY <1>1, Prefix
<1>3. Front(s) \in Seq(S)
  BY <1>2 DEF Front
<1>. QED
  BY <1>2, <1>3, OwnElements DEF Front

-----------------------------------------------------------------------------
(* The path of the walk                                                     *)

(* What the stack and inode_known are at every step: a frame of the walk    *)
(* for every directory known, in the same order, and in front of them the   *)
(* loop over a selection.                                                   *)
StackInv ==
    /\ stack \in Seq(Range(stack)) /\ known \in Seq(Range(known))
    /\ \A i \in 1..Len(stack) : {"ino", "pos"} \subseteq DOMAIN stack[i]
    /\ \A i, j \in 1..Len(known) : known[i] = known[j] => i = j
    /\ phase \in {"log", "copy"} =>
          /\ Len(stack) = Len(known) /\ Len(stack) > 0
          /\ \A i \in 1..Len(known) : known[i] = stack[i].ino
    /\ phase = "select" =>
          /\ Len(stack) = Len(known) + 1
          /\ \A i \in 1..Len(known) : known[i] = stack[i + 1].ino
    /\ phase \notin Walks => stack = <<>> /\ known = <<>>

(* A stop is asked for in a selection only.                                 *)
CopyInv ==
    copy # NoCopy =>
        /\ phase \in {"copy", "select"}
        /\ {"path", "stop"} \subseteq DOMAIN copy
        /\ copy.path \in DOMAIN local
        /\ copy.stop \in BOOLEAN /\ (copy.stop => phase = "select")

PathInv == StackInv /\ CopyInv

LEMMA RangeNext == Range(stack)' = Range(stack') /\ Range(known)' = Range(known')
BY DEF Range

(* When the walk goes to the next entry the directories stay what they are. *)
LEMMA MovedKeeps ==
    ASSUME StackInv, stack # <<>>
    PROVE  /\ Moved \in Seq(Range(Moved)) /\ Len(Moved) = Len(stack)
           /\ \A i \in 1..Len(stack) :
                 Moved[i].ino = stack[i].ino /\ {"ino", "pos"} \subseteq DOMAIN Moved[i]
<1>1. stack \in Seq(Range(stack)) /\ Len(stack) \in Nat \ {0} /\ DOMAIN stack = 1..Len(stack)
  BY EmptySeq, LenProperties DEF StackInv
<1>2. DOMAIN Moved = 1..Len(stack)
  BY <1>1 DEF Moved
<1>3. \A i \in 1..Len(stack) :
          Moved[i].ino = stack[i].ino /\ {"ino", "pos"} \subseteq DOMAIN Moved[i]
  <2>. SUFFICES ASSUME NEW i \in 1..Len(stack)
                PROVE  Moved[i].ino = stack[i].ino /\ {"ino", "pos"} \subseteq DOMAIN Moved[i]
    OBVIOUS
  <2>1. {"ino", "pos"} \subseteq DOMAIN stack[i]
    BY DEF StackInv
  <2>2. Moved[i] = IF i = Len(stack) THEN [stack[i] EXCEPT !.pos = @ + 1] ELSE stack[i]
    BY <1>1 DEF Moved
  <2>. QED
    BY <2>1, <2>2
<1>4. Moved \in Seq(Range(Moved)) /\ Len(Moved) = Len(stack)
  <2>1. Moved = [i \in 1..Len(stack) |-> Moved[i]]
    BY <1>2 DEF Moved
  <2>2. \A i \in 1..Len(stack) : Moved[i] \in Range(Moved)
    BY <1>2 DEF Range
  <2>. DEFINE f == [i \in 1..Len(stack) |-> Moved[i]]
  <2>3. f \in Seq(Range(Moved)) /\ Len(f) = Len(stack)
    BY <1>1, <2>2, IsASeq
  <2>. QED
    BY <2>1, <2>3
<1>. QED
  BY <1>3, <1>4

(* The walk begins: a whole partition, or what was selected.                *)
LEMMA BeginKeeps == PathInv /\ Begin => PathInv'
<1>. SUFFICES ASSUME PathInv, Begin PROVE PathInv'
  OBVIOUS
<1>. DEFINE f == Frame(RootInode(reader), <<>>)
<1>1. stack' = << f >> /\ known' = << f.ino >> /\ phase' \in {"log", "copy"}
  BY DEF Begin, Frame
<1>2. {"ino", "pos"} \subseteq DOMAIN f
  BY DEF Frame
<1>3. copy' = NoCopy
  BY DEF Begin, PathInv, CopyInv
<1>. HIDE DEF f
<1>4. << f >> \in Seq({f}) /\ << f.ino >> \in Seq({f.ino})
  OBVIOUS
<1>5. << f >> \in Seq(Range(<< f >>)) /\ << f.ino >> \in Seq(Range(<< f.ino >>))
  BY <1>4, OwnElements
<1>6. StackInv'
  BY <1>1, <1>2, <1>5 DEF StackInv, Walks
<1>. QED
  BY <1>3, <1>6 DEF PathInv, CopyInv

LEMMA SelectKeeps ==
    ASSUME PathInv, phase = "browse", NEW places, Select(places)
    PROVE  PathInv'
<1>. DEFINE f == Chosen(places)
<1>1. stack' = << f >> /\ known' = <<>> /\ phase' = "select"
  BY DEF Select, PathInv, StackInv, Walks
<1>2. {"ino", "pos"} \subseteq DOMAIN f
  BY DEF Chosen
<1>3. copy' = NoCopy
  BY DEF Select, PathInv, CopyInv
<1>. HIDE DEF f
<1>4. << f >> \in Seq({f}) /\ <<>> \in Seq({f})
  OBVIOUS
<1>5. << f >> \in Seq(Range(<< f >>)) /\ <<>> \in Seq(Range(<<>>))
  BY <1>4, OwnElements
<1>6. StackInv'
  BY <1>1, <1>2, <1>5 DEF StackInv, Walks
<1>. QED
  BY <1>3, <1>6 DEF PathInv, CopyInv

(* A subdirectory becomes the end of both, and it was not known before.     *)
LEMMA EnterDirectoryKeeps == PathInv /\ EnterDirectory => PathInv'
<1>. SUFFICES ASSUME PathInv, EnterDirectory PROVE PathInv'
  OBVIOUS
<1>. DEFINE f == Frame(Current.ino, PathHere)
<1>1. /\ stack # <<>> /\ phase \in Walks /\ copy = NoCopy
      /\ stack' = Append(Moved, f) /\ known' = Append(known, f.ino)
      /\ phase' = phase /\ copy' = copy
      /\ Selecting \/ f.ino \notin Range(known)
      /\ {"ino", "pos"} \subseteq DOMAIN f
  BY DEF EnterDirectory, At, Walking, Walks, Frame, is_inode_valid
<1>. HIDE DEF f
<1>2. /\ Moved \in Seq(Range(Moved)) /\ Len(Moved) = Len(stack) /\ Len(stack) \in Nat
      /\ \A i \in 1..Len(stack) :
            Moved[i].ino = stack[i].ino /\ {"ino", "pos"} \subseteq DOMAIN Moved[i]
      /\ known \in Seq(Range(known)) /\ Len(known) \in Nat
  BY <1>1, MovedKeeps, LenProperties DEF PathInv, StackInv
<1>3. /\ stack' \in Seq(Range(stack')) /\ Len(stack') = Len(stack) + 1
      /\ stack'[Len(stack) + 1] = f
      /\ \A i \in 1..Len(stack) : stack'[i] = Moved[i]
  BY <1>1, <1>2, AppendOwn
<1>4. /\ known' \in Seq(Range(known')) /\ Len(known') = Len(known) + 1
      /\ known'[Len(known) + 1] = f.ino
      /\ \A i \in 1..Len(known) : known'[i] = known[i]
  BY <1>1, <1>2, AppendOwn
<1>5. \A i \in 1..Len(stack') : {"ino", "pos"} \subseteq DOMAIN stack'[i]
  BY <1>1, <1>2, <1>3
<1>6. \A i, j \in 1..Len(known') : known'[i] = known'[j] => i = j
  <2>1. \A i \in 1..Len(known) : known[i] # f.ino
    <3>1. CASE Selecting
      BY <3>1, <1>2 DEF Selecting, PathInv, StackInv
    <3>2. CASE f.ino \notin Range(known)
      BY <3>2, <1>2 DEF Range
    <3>. QED
      BY <1>1, <3>1, <3>2
  <2>. QED
    BY <1>2, <1>4, <2>1 DEF PathInv, StackInv
<1>7. phase \in {"log", "copy"} =>
          /\ Len(stack') = Len(known') /\ Len(stack') > 0
          /\ \A i \in 1..Len(known') : known'[i] = stack'[i].ino
  <2>. SUFFICES ASSUME phase \in {"log", "copy"}
                PROVE  /\ Len(stack') = Len(known') /\ Len(stack') > 0
                       /\ \A i \in 1..Len(known') : known'[i] = stack'[i].ino
    OBVIOUS
  <2>1. Len(stack) = Len(known) /\ \A i \in 1..Len(known) : known[i] = stack[i].ino
    BY DEF PathInv, StackInv
  <2>. QED
    BY <1>2, <1>3, <1>4, <2>1
<1>8. phase = "select" =>
          /\ Len(stack') = Len(known') + 1
          /\ \A i \in 1..Len(known') : known'[i] = stack'[i + 1].ino
  <2>. SUFFICES ASSUME phase = "select"
                PROVE  /\ Len(stack') = Len(known') + 1
                       /\ \A i \in 1..Len(known') : known'[i] = stack'[i + 1].ino
    OBVIOUS
  <2>1. Len(stack) = Len(known) + 1 /\ \A i \in 1..Len(known) : known[i] = stack[i + 1].ino
    BY DEF PathInv, StackInv
  <2>2. known'[Len(known) + 1] = stack'[Len(stack) + 1].ino
    BY <1>3, <1>4
  <2>3. \A i \in 1..Len(known) : known'[i] = stack'[i + 1].ino
    BY <1>2, <1>3, <1>4, <2>1
  <2>4. Len(stack') = Len(known') + 1 /\ Len(stack) = Len(known) + 1
    BY <1>2, <1>3, <1>4, <2>1
  <2>. QED
    BY <1>2, <1>4, <2>2, <2>3, <2>4
<1>9. StackInv'
  BY <1>1, <1>3, <1>4, <1>5, <1>6, <1>7, <1>8, RangeNext DEF StackInv
<1>. QED
  BY <1>1, <1>9 DEF PathInv, CopyInv

(* Going on in the same directory                                           *)
LEMMA MoveKeeps ==
    ASSUME StackInv, stack # <<>>, phase' = phase, known' = known, stack' = Moved
    PROVE  StackInv'
<1>1. /\ Moved \in Seq(Range(Moved)) /\ Len(Moved) = Len(stack) /\ Len(stack) \in Nat
      /\ \A i \in 1..Len(stack) :
            Moved[i].ino = stack[i].ino /\ {"ino", "pos"} \subseteq DOMAIN Moved[i]
  BY MovedKeeps, LenProperties DEF StackInv
<1>2. stack' \in Seq(Range(stack')) /\ known' \in Seq(Range(known'))
  BY <1>1 DEF StackInv
<1>3. phase \in Walks
  BY DEF StackInv
<1>4. Len(known) \in Nat
  BY LenProperties DEF StackInv
<1>5. phase \in {"log", "copy"} => \A i \in 1..Len(known) : known[i] = Moved[i].ino
  BY <1>1 DEF StackInv
<1>6. phase = "select" => \A i \in 1..Len(known) : known[i] = Moved[i + 1].ino
  BY <1>1, <1>4 DEF StackInv
<1>. QED
  BY <1>1, <1>2, <1>3, <1>5, <1>6, RangeNext DEF StackInv

LEMMA SkipEntryKeeps == PathInv /\ SkipEntry => PathInv'
BY MoveKeeps DEF SkipEntry, At, Walking, PathInv, CopyInv

LEMMA CannotCreateKeeps == PathInv /\ CannotCreate => PathInv'
BY MoveKeeps DEF CannotCreate, At, Walking, PathInv, CopyInv

(* The end of both goes when a directory is left.                           *)
LEMMA LeaveDirectoryKeeps == PathInv /\ LeaveDirectory => PathInv'
<1>. SUFFICES ASSUME PathInv, LeaveDirectory PROVE PathInv'
  OBVIOUS
<1>1. /\ stack # <<>> /\ phase \in Walks /\ copy = NoCopy /\ copy' = copy
      /\ stack' = Front(stack)
      /\ known' = IF Selecting THEN known ELSE Front(known)
      /\ phase' = IF Len(stack) = 1 THEN AfterWalk ELSE phase
  BY DEF LeaveDirectory, Walking, Walks
<1>2. stack \in Seq(Range(stack)) /\ known \in Seq(Range(known))
      /\ Len(stack) \in Nat \ {0} /\ Len(known) \in Nat
  BY <1>1, EmptySeq, LenProperties DEF PathInv, StackInv
<1>3. /\ stack' \in Seq(Range(stack')) /\ Len(stack') = Len(stack) - 1
      /\ \A i \in 1..(Len(stack) - 1) : stack'[i] = stack[i]
  BY <1>1, <1>2, FrontOwn
<1>4. \A i \in 1..Len(stack') : {"ino", "pos"} \subseteq DOMAIN stack'[i]
  BY <1>2, <1>3 DEF PathInv, StackInv
<1>5. CASE Selecting
  <2>1. known = <<>> /\ Len(stack) = 1 /\ phase = "select"
    BY <1>2, <1>5, EmptySeq DEF Selecting, PathInv, StackInv
  <2>2. phase' = "browse" /\ known' = <<>> /\ stack' = <<>>
    BY <1>1, <1>3, <1>5, <2>1, EmptySeq DEF AfterWalk
  <2>3. StackInv'
    BY <1>2, <1>3, <2>1, <2>2, RangeNext DEF StackInv, Walks
  <2>. QED
    BY <1>1, <2>3 DEF PathInv, CopyInv
<1>6. CASE ~Selecting
  <2>1. Len(known) > 0
    <3>1. CASE phase = "select"
      <4>1. Len(stack) # 1 /\ Len(stack) = Len(known) + 1
        BY <1>6, <3>1 DEF Selecting, PathInv, StackInv
      <4>. QED
        BY <1>2, <4>1
    <3>2. CASE phase \in {"log", "copy"}
      BY <3>2 DEF PathInv, StackInv
    <3>. QED
      BY <1>1, <3>1, <3>2 DEF Walks
  <2>2. /\ known' \in Seq(Range(known')) /\ Len(known') = Len(known) - 1
        /\ \A i \in 1..(Len(known) - 1) : known'[i] = known[i]
    <3>1. known # <<>>
      BY <2>1
    <3>. QED
      BY <1>1, <1>2, <1>6, <3>1, FrontOwn
  <2>3. \A i, j \in 1..Len(known') : known'[i] = known'[j] => i = j
    BY <1>2, <2>2 DEF PathInv, StackInv
  <2>4. CASE Len(stack) = 1
    <3>1. phase' \notin Walks
      BY <1>1, <2>4 DEF AfterWalk, Walks
    <3>2. phase \in {"log", "copy"} /\ Len(known) = 1
      BY <1>1, <1>6, <2>4 DEF Selecting, PathInv, StackInv, Walks
    <3>3. known' = <<>> /\ stack' = <<>>
      BY <1>3, <2>2, <2>4, <3>2, EmptySeq
    <3>. QED
      BY <1>1, <1>3, <1>4, <2>2, <2>3, <3>1, <3>3, RangeNext DEF PathInv, StackInv, CopyInv, Walks
  <2>5. CASE Len(stack) # 1
    <3>1. phase' = phase
      BY <1>1, <2>5
    <3>2. phase \in {"log", "copy"} =>
              /\ Len(stack') = Len(known') /\ Len(stack') > 0
              /\ \A i \in 1..Len(known') : known'[i] = stack'[i].ino
      BY <1>2, <1>3, <2>2, <2>5 DEF PathInv, StackInv
    <3>3. phase = "select" =>
              /\ Len(stack') = Len(known') + 1
              /\ \A i \in 1..Len(known') : known'[i] = stack'[i + 1].ino
      <4>. SUFFICES ASSUME phase = "select"
                    PROVE  /\ Len(stack') = Len(known') + 1
                           /\ \A i \in 1..Len(known') : known'[i] = stack'[i + 1].ino
        OBVIOUS
      <4>1. Len(stack) = Len(known) + 1 /\ \A i \in 1..Len(known) : known[i] = stack[i + 1].ino
        BY DEF PathInv, StackInv
      <4>. QED
        BY <1>2, <1>3, <2>2, <2>5, <4>1
    <3>. QED
      BY <1>1, <1>3, <1>4, <2>2, <2>3, <3>1, <3>2, <3>3, RangeNext DEF PathInv, StackInv, CopyInv
  <2>. QED
    BY <2>4, <2>5
<1>. QED
  BY <1>5, <1>6

(* A file begins to be copied.                                              *)
LEMMA StartFileKeeps == PathInv /\ StartFile => PathInv'
<1>. SUFFICES ASSUME PathInv, StartFile PROVE PathInv'
  OBVIOUS
<1>1. StackInv'
  BY RangeNext DEF StartFile, PathInv, StackInv
<1>2. phase' = phase /\ phase \in {"copy", "select"}
  BY DEF StartFile, At, Walking
<1>3. PICK stop \in IF phase = "select" /\ ~Selecting THEN BOOLEAN ELSE {FALSE} :
          copy' = [path |-> PathHere, cluster |-> Current.ino, left |-> Current.size,
                   first |-> Current.ino, method |-> "follow", buffer |-> 0, at |-> 1,
                   error |-> FALSE, stop |-> stop]
  BY DEF StartFile
<1>4. /\ {"path", "stop"} \subseteq DOMAIN copy' /\ copy'.path = PathHere
      /\ copy'.stop \in BOOLEAN /\ (copy'.stop => phase = "select")
  BY <1>3
<1>5. PathHere \in DOMAIN local'
  BY DEF StartFile
<1>. QED
  BY <1>1, <1>2, <1>4, <1>5 DEF PathInv, CopyInv

(* The end of a copy: a stop takes all of the tree off both at once.        *)
LEMMA FinishKeeps ==
    ASSUME PathInv, Copying, NEW good, Finish(good)
    PROVE  PathInv'
<1>1. /\ copy' = NoCopy /\ phase \in {"copy", "select"}
      /\ copy.stop \in BOOLEAN /\ (copy.stop => phase = "select")
  BY DEF Finish, PathInv, CopyInv, Copying
<1>2. Len(stack) \in Nat \ {0} /\ Len(known) \in Nat /\ stack # <<>>
  BY <1>1, LenProperties, EmptySeq DEF PathInv, StackInv
<1>3. CASE copy.stop
  <2>1. stack' = <<>> /\ known' = Unwound /\ phase' = "browse"
    BY <1>3 DEF Finish
  <2>2. Len(stack) = Len(known) + 1
    BY <1>1, <1>3 DEF PathInv, StackInv
  <2>3. Unwound = <<>>
    <3>1. Len(known) - (Len(stack) - 1) = 0
      BY <1>2, <2>2
    <3>. QED
      BY <3>1, SubSeqEmpty DEF Unwound
  <2>4. <<>> \in Seq({}) /\ <<>> \in Seq(Range(<<>>))
    BY EmptySeq
  <2>5. StackInv'
    BY <2>1, <2>3, <2>4 DEF StackInv, Walks
  <2>. QED
    BY <1>1, <2>5 DEF PathInv, CopyInv
<1>4. CASE ~copy.stop
  BY <1>1, <1>2, <1>4, MoveKeeps DEF Finish, PathInv, CopyInv
<1>. QED
  BY <1>1, <1>3, <1>4

(* A block goes to the file, the next one is looked for.                    *)
LEMMA GoOnKeeps ==
    ASSUME PathInv, Copying, phase' = phase, stack' = stack, known' = known,
           DOMAIN local' = DOMAIN local,
           {"path", "stop"} \subseteq DOMAIN copy',
           copy'.path = copy.path, copy'.stop = copy.stop
    PROVE  PathInv'
<1>1. StackInv'
  BY RangeNext DEF PathInv, StackInv
<1>. QED
  BY <1>1 DEF PathInv, CopyInv, Copying

LEMMA WriteKeeps ==
    ASSUME NEW data, Write(data)
    PROVE  DOMAIN local' = DOMAIN local /\ phase' = phase /\ stack' = stack /\ known' = known
BY DEF Write

LEMMA CopyClusterKeeps == PathInv /\ CopyCluster => PathInv'
<1>. SUFFICES ASSUME PathInv, CopyCluster PROVE PathInv'
  OBVIOUS
<1>1. CASE room = 0
  BY <1>1, FinishKeeps DEF CopyCluster
<1>2. CASE room # 0
  <2>. DEFINE b == BufferRead
              to == IF copy.left > 1 THEN NextCluster ELSE copy.cluster
              method == IF copy.left > 1 THEN Method ELSE copy.method
  <2>1. /\ Write(b) /\ Copying
        /\ copy' = [copy EXCEPT !.buffer = b, !.left = @ - 1, !.cluster = to,
                                !.method = method]
    BY <1>2 DEF CopyCluster
  <2>. HIDE DEF b, to, method
  <2>2. {"path", "stop"} \subseteq DOMAIN copy
    BY <2>1 DEF PathInv, CopyInv, Copying
  <2>3. {"path", "stop"} \subseteq DOMAIN copy' /\ copy'.path = copy.path /\ copy'.stop = copy.stop
    BY <2>1, <2>2
  <2>. QED
    BY <2>1, <2>3, WriteKeeps, GoOnKeeps
<1>. QED
  BY <1>1, <1>2

LEMMA CopyReturnsKeeps == PathInv /\ CopyReturns => PathInv'
BY FinishKeeps DEF CopyReturns

LEMMA CopyNtfsKeeps == PathInv /\ CopyNtfs => PathInv'
<1>. SUFFICES ASSUME PathInv, CopyNtfs PROVE PathInv'
  OBVIOUS
<1>1. CASE Finish(TRUE)
  BY <1>1, FinishKeeps DEF CopyNtfs
<1>2. CASE Write(Blocks[copy.at]) /\ copy' = [copy EXCEPT !.at = @ + 1]
  <2>1. {"path", "stop"} \subseteq DOMAIN copy /\ Copying
    BY DEF PathInv, CopyInv, Copying, CopyNtfs
  <2>2. {"path", "stop"} \subseteq DOMAIN copy' /\ copy'.path = copy.path /\ copy'.stop = copy.stop
    BY <1>2, <2>1
  <2>. QED
    BY <1>2, <2>1, <2>2, WriteKeeps, GoOnKeeps
<1>. QED
  BY <1>1, <1>2 DEF CopyNtfs

LEMMA CopyExt2Keeps == PathInv /\ CopyExt2 => PathInv'
<1>. SUFFICES ASSUME PathInv, CopyExt2 PROVE PathInv'
  OBVIOUS
<1>1. \A good : Finish(good) => PathInv'
  BY FinishKeeps DEF CopyExt2
<1>2. {"path", "stop"} \subseteq DOMAIN copy /\ Copying
  BY DEF PathInv, CopyInv, Copying, CopyExt2
<1>3. CASE Write(Blocks[copy.at]) /\ copy' = [copy EXCEPT !.at = @ + 1]
  <2>1. {"path", "stop"} \subseteq DOMAIN copy' /\ copy'.path = copy.path /\ copy'.stop = copy.stop
    BY <1>2, <1>3
  <2>. QED
    BY <1>2, <1>3, <2>1, WriteKeeps, GoOnKeeps
<1>4. CASE /\ copy' = [copy EXCEPT !.at = @ + 1, !.error = TRUE]
           /\ UNCHANGED << phase, stack, known, local, room, copyOk, copyBad, marks >>
  <2>1. {"path", "stop"} \subseteq DOMAIN copy' /\ copy'.path = copy.path /\ copy'.stop = copy.stop
    BY <1>2, <1>4
  <2>. QED
    BY <1>2, <1>4, <2>1, GoOnKeeps
<1>. QED
  BY <1>1, <1>3, <1>4 DEF CopyExt2

(* What leaves the walk alone: the screen, and what precedes a walk.        *)
LEMMA AsideKeeps ==
    ASSUME PathInv, UNCHANGED walk, phase' = phase \/ (phase' \notin Walks /\ phase \notin Walks)
    PROVE  PathInv'
<1>1. StackInv'
  BY RangeNext DEF PathInv, StackInv, walk, Walks
<1>2. CopyInv'
  BY DEF PathInv, CopyInv, walk, Walks
<1>. QED
  BY <1>1, <1>2 DEF PathInv

LEMMA OpenKeeps == PathInv /\ Open => PathInv'
<1>. SUFFICES ASSUME PathInv, Open PROVE PathInv'
  OBVIOUS
<1>1. phase = "start" /\ UNCHANGED walk
  BY DEF Open
<1>2. phase' \in {"closed", "browse", "to log", "to copy"}
  BY DEF Open
<1>. QED
  BY <1>1, <1>2, AsideKeeps DEF Walks

LEMMA ScreenKeeps ==
    PathInv /\ (MoveCursor \/ MarkOne \/ MarkAll \/ MarkMatching \/ ToggleDeleted \/ Back
                \/ Quit \/ Change) => PathInv'
<1>. SUFFICES ASSUME PathInv, MoveCursor \/ MarkOne \/ MarkAll \/ MarkMatching
                              \/ ToggleDeleted \/ Back \/ Quit \/ Change
              PROVE  PathInv'
  OBVIOUS
<1>1. UNCHANGED walk
  BY DEF MoveCursor, MarkOne, MarkAll, MarkMatching, ToggleDeleted, Back, Quit, Change, Stay
<1>2. phase' = phase \/ (phase = "browse" /\ phase' = "closed")
  BY DEF MoveCursor, MarkOne, MarkAll, MarkMatching, ToggleDeleted, Back, Quit, Change, Stay, Key
<1>. QED
  BY <1>1, <1>2, AsideKeeps DEF Walks

LEMMA CopyKeyKeeps == PathInv /\ (CopyCurrent \/ CopySelection) => PathInv'
BY SelectKeeps DEF CopyCurrent, CopySelection, Key

(* Every step keeps it.                                                     *)
LEMMA PathStep == PathInv /\ [Next]_vars => PathInv'
<1>. SUFFICES ASSUME PathInv, [Next]_vars PROVE PathInv'
  OBVIOUS
<1>1. CASE UNCHANGED vars
  BY <1>1, AsideKeeps DEF vars
<1>2. CASE Next
  BY <1>2, OpenKeeps, BeginKeeps, EnterDirectoryKeeps, SkipEntryKeeps, LeaveDirectoryKeeps,
     StartFileKeeps, CannotCreateKeeps, CopyClusterKeeps, CopyReturnsKeeps, CopyNtfsKeeps,
     CopyExt2Keeps, ScreenKeeps, CopyKeyKeeps DEF Next
<1>. QED
  BY <1>1, <1>2

LEMMA PathInit == Init => PathInv
BY EmptySeq DEF Init, PathInv, StackInv, CopyInv, Walks

(* The invariant says what is promised of inode_known.                      *)
LEMMA PathSuffices == PathInv => KnownIsThePath
<1>. SUFFICES ASSUME PathInv PROVE KnownIsThePath
  OBVIOUS
<1>1. /\ stack \in Seq(Range(stack)) /\ known \in Seq(Range(known))
      /\ Len(stack) \in Nat /\ Len(known) \in Nat
      /\ known = [i \in 1..Len(known) |-> known[i]]
  BY LenProperties DEF PathInv, StackInv
<1>2. IsInjective(known)
  BY <1>1 DEF PathInv, StackInv, IsInjective
<1>3. CASE phase = "select"
  <2>1. /\ stack # <<>> /\ Len(stack) = Len(known) + 1
        /\ \A i \in 1..Len(known) : known[i] = stack[i + 1].ino
    BY <1>1, <1>3, EmptySeq DEF PathInv, StackInv
  <2>2. /\ Tail(stack) \in Seq(Range(stack)) /\ Len(Tail(stack)) = Len(known)
        /\ \A i \in 1..Len(known) : Tail(stack)[i] = stack[i + 1]
    BY <1>1, <2>1, HeadTailProperties
  <2>3. DOMAIN Tail(stack) = 1..Len(known)
    BY <1>1, <2>2, LenProperties
  <2>. QED
    BY <1>1, <1>2, <1>3, <2>1, <2>2, <2>3 DEF KnownIsThePath
<1>4. CASE phase \in {"log", "copy"}
  BY <1>1, <1>2, <1>4 DEF KnownIsThePath, PathInv, StackInv
<1>5. CASE phase \notin Walks
  BY <1>1, <1>2, <1>5 DEF KnownIsThePath, PathInv, StackInv, Walks
<1>. QED
  BY <1>3, <1>4, <1>5 DEF Walks

(* However the tree loops, wherever it is damaged and whenever the user     *)
(* stops a copy, inode_known is exactly the directories from the root to    *)
(* the one that is walked, each once, and nothing of it is left behind.     *)
THEOREM WalkKnowsItsPath == Spec => []KnownIsThePath
<1>1. Spec => []PathInv
  BY PathInit, PathStep, PTL DEF Spec
<1>. QED
  BY <1>1, PathSuffices, PTL

-----------------------------------------------------------------------------
(* What is copied                                                           *)

(* The reader of a FAT is the one of its file system.                       *)
LEMMA ReaderIs ==
    ASSUME NEW v, dir_partition_init(v) \in Chained
    PROVE  dir_partition_init(v) \in {"exfat", v.upart}
BY DEF dir_partition_init, ByPartition, Initialised, Chained, Fat

(* How far fat_copy is with the clusters of a file: what it wrote are the   *)
(* first ones, it knows the next, and it follows the links or, where a      *)
(* deleted file has none, takes the free clusters.                          *)
Unlinked(f) ==
    /\ get_next_cluster(vol, f.clusters[1]) = 0
    /\ TakenAsFree(f)
    /\ Range(f.clusters) \subseteq FreeClusters

ChainCopy(f, written) ==
    LET c == f.clusters
        n == Len(c) - copy.left
    IN  /\ copy.left \in 0..Len(c)
        /\ written = SubSeq(c, 1, n)
        /\ copy.left > 0 => copy.cluster = c[n + 1]
        /\ n = 0 => copy.method = "follow"
        /\ n > 0 /\ copy.left > 0 =>
              \/ copy.method = "follow" /\ Linked(c)
              \/ copy.method = "free" /\ Unlinked(f)

(* ntfs_copy and ext2_copy: the blocks in front of copy.at are written,     *)
(* unless one could not be.                                                 *)
BlockCopy(f, written) ==
    /\ copy.at \in 1..(Len(f.clusters) + 1)
    /\ ~copy.error => written = SubSeq(f.clusters, 1, copy.at - 1)

FieldsOfCopy == {"path", "cluster", "left", "first", "method", "at", "error"}
FieldsOfFile == {"entry", "written", "state"}

BeingCopied ==
    copy # NoCopy =>
        /\ FieldsOfCopy \subseteq DOMAIN copy /\ copy.path \in DOMAIN local
        /\ copy.error \in BOOLEAN /\ (copy.error => reader # "ntfs")
        /\ copy.first = local[copy.path].entry.ino
        /\ local[copy.path].state = "open"
        /\ \A f \in FilesOf(local[copy.path].entry) : Recoverable(f) =>
              /\ reader \in Chained => ChainCopy(f, local[copy.path].written)
              /\ reader \in {"ntfs", "ext2"} => BlockCopy(f, local[copy.path].written)

DataInv ==
    /\ Described(vol)
    /\ IF phase = "start" THEN DOMAIN local = {} /\ copy = NoCopy
       ELSE reader = dir_partition_init(vol)
    /\ room \in Nat
    /\ \A p \in DOMAIN local : FieldsOfFile \subseteq DOMAIN local[p]
    /\ BeingCopied
    /\ CopiedFileIsWhole

(* A nonempty set of clusters has a first one.                              *)
LEMMA MinOfClusters ==
    ASSUME NEW I, I \subseteq Nat, I # {}
    PROVE  Min(I) \in I /\ \A j \in I : Min(I) <= j
<1>1. PICK m \in I : \A j \in I : ~(<<j, m>> \in OpToRel(<, Nat))
  BY WFMin, NatLessThanWellFounded
<1>2. \A j \in I : m <= j
  <2> SUFFICES ASSUME NEW j \in I, ~(m <= j) PROVE FALSE
    OBVIOUS
  <2>1. j \in Nat /\ m \in Nat /\ j < m
    OBVIOUS
  <2>2. <<j, m>> \in OpToRel(<, Nat)
    BY <2>1 DEF OpToRel
  <2> QED
    BY <2>2, <1>1
<1> QED
  BY <1>1, <1>2 DEF Min

(* Where the loop of fat_copy over what is in use ends                      *)
LEMMA NextFreeIs ==
    ASSUME NEW v, v.last \in Nat, NEW c \in Nat, NEW x \in (c + 1)..v.last,
           get_next_cluster(v, x) = 0,
           \A y \in (c + 1)..(x - 1) : y < LastLinked(v) /\ get_next_cluster(v, y) # 0
    PROVE  NextFree(v, c) = x
<1>. DEFINE unused(y) == y >= LastLinked(v) \/ get_next_cluster(v, y) = 0
            P(y) == unused(y) /\ \A z \in (c + 1)..(y - 1) : ~unused(z)
            I == (c + 1)..(c + v.last + 2)
<1>1. LastLinked(v) \in Int
  BY DEF LastLinked
<1>2. x \in I
  OBVIOUS
<1>3. P(x)
  BY <1>1
<1>4. \A y \in I : P(y) => y = x
  <2>. SUFFICES ASSUME NEW y \in I, P(y), y # x PROVE FALSE
    OBVIOUS
  <2>1. y \in Int /\ x \in Int
    OBVIOUS
  <2>2. CASE y < x
    <3>1. y \in (c + 1)..(x - 1)
      BY <2>1, <2>2
    <3>. QED
      BY <3>1, <1>3
  <2>3. CASE x < y
    <3>1. x \in (c + 1)..(y - 1)
      BY <2>1, <2>3
    <3>. QED
      BY <3>1, <1>3
  <2>. QED
    BY <2>1, <2>2, <2>3
<1>5. (CHOOSE y \in I : P(y)) = x
  <2>. HIDE DEF P, I
  <2>. QED
    BY <1>2, <1>3, <1>4
<1>6. NextFree(v, c) = CHOOSE y \in I : P(y)
  BY DEF NextFree
<1>. QED
  BY <1>5, <1>6

(* Every cluster of a file that can be known is read.                       *)
LEMMA InReach ==
    ASSUME DataInv, phase # "start", reader \in Chained,
           NEW f \in vol.files, Recoverable(f), NEW i \in 1..Len(f.clusters)
    PROVE  /\ f.clusters[i] \in Nat /\ f.clusters[i] \in 2..vol.last
           /\ f.clusters[i] \in 2..LastLinked(vol) /\ Readable(vol, f.clusters[i])
<1>1. f.clusters \in Seq(2..vol.last) /\ vol.last \in Nat
  BY DEF DataInv, Described
<1>2. f.clusters[i] \in 2..vol.last /\ f.clusters[i] \in Range(f.clusters)
  BY <1>1 DEF Range
<1>3. f.clusters[i] \notin vol.bad /\ ~LastOfExfat(f.clusters)
  BY <1>2 DEF Recoverable
<1>4. reader \in {"exfat", vol.upart}
  BY ReaderIs DEF DataInv
<1>5. CASE vol.upart = "exfat"
  <2>1. f.clusters[i] # vol.last
    BY <1>2, <1>3, <1>4, <1>5 DEF LastOfExfat
  <2>. QED
    BY <1>1, <1>2, <1>3, <1>5, <2>1 DEF LastLinked, Readable
<1>6. CASE vol.upart # "exfat"
  BY <1>1, <1>2, <1>3, <1>6 DEF LastLinked, Readable
<1>. QED
  BY <1>5, <1>6

(* The free cluster that is taken is the next one of the file.              *)
LEMMA FreeIsNext ==
    ASSUME DataInv, phase # "start", reader \in Chained,
           NEW f \in vol.files, Recoverable(f), Unlinked(f),
           NEW i \in 1..(Len(f.clusters) - 1)
    PROVE  NextFree(vol, f.clusters[i]) = f.clusters[i + 1]
<1>. DEFINE c == f.clusters[i]
            x == f.clusters[i + 1]
            S == {y \in FreeClusters : y > c} \cup {vol.last + 1}
<1>0. f.clusters \in Seq(2..vol.last) /\ vol.last \in Nat /\ Len(f.clusters) \in Nat
  BY LenProperties DEF DataInv, Described
<1>1. i \in 1..Len(f.clusters) /\ i + 1 \in 1..Len(f.clusters)
  BY <1>0
<1>2. c \in Nat /\ x \in Nat /\ x \in 2..vol.last /\ x \in 2..LastLinked(vol)
  BY <1>1, InReach
<1>3. x = Min(S)
  BY DEF Unlinked, TakenAsFree
<1>4. S \subseteq Nat /\ S # {}
  BY <1>0 DEF FreeClusters
<1>2a. c >= 2
  BY <1>1, InReach
<1>. HIDE DEF c, x
<1>5. x \in S /\ \A j \in S : x <= j
  <2>. HIDE DEF S
  <2>. QED
    BY <1>3, <1>4, MinOfClusters
<1>6. x > c /\ get_next_cluster(vol, x) = 0
  BY <1>0, <1>2, <1>5 DEF FreeClusters
<1>7. LastLinked(vol) \in Int
  BY <1>0 DEF LastLinked
<1>8. \A y \in (c + 1)..(x - 1) : y < LastLinked(vol) /\ get_next_cluster(vol, y) # 0
  <2>. SUFFICES ASSUME NEW y \in (c + 1)..(x - 1)
                PROVE  y < LastLinked(vol) /\ get_next_cluster(vol, y) # 0
    OBVIOUS
  <2>2. y \in 2..vol.last /\ y > c /\ y < x /\ y < LastLinked(vol)
    BY <1>0, <1>2, <1>2a, <1>7
  <2>3. y \notin S
    BY <1>2, <1>5, <2>2
  <2>. QED
    BY <2>2, <2>3 DEF FreeClusters
<1>9. x \in (c + 1)..vol.last
  BY <1>2, <1>6
<1>. QED
  BY <1>0, <1>2, <1>6, <1>8, <1>9, NextFreeIs DEF c, x

(* What can be known of a file is not more when there is less room.         *)
LEMMA KnownLater ==
    ASSUME NEW f, vol' = vol, reader' = reader,
           room \in Nat, room' \in Nat, room' <= room, Recoverable(f)'
    PROVE  Recoverable(f)
<1>1. Linked(f.clusters)' <=> Linked(f.clusters)
  BY DEF Linked
<1>2. FreeClusters' = FreeClusters
  BY DEF FreeClusters
<1>3. TakenAsFree(f)' <=> TakenAsFree(f)
  BY <1>2 DEF TakenAsFree
<1>4. LastOfExfat(f.clusters)' <=> LastOfExfat(f.clusters)
  BY DEF LastOfExfat, Range
<1>5. Range(f.clusters)' = Range(f.clusters)
  BY DEF Range
<1>. QED
  BY <1>1, <1>2, <1>3, <1>4, <1>5 DEF Recoverable

(* What a step leaves of the files that are written                         *)
LEMMA OthersStay ==
    ASSUME DataInv, vol' = vol, reader' = reader, room' \in Nat, room' <= room,
           NEW p \in DOMAIN local', p \in DOMAIN local,
           local'[p].state = local[p].state, local'[p].entry = local[p].entry,
           local'[p].written = local[p].written, local'[p].state = "ok",
           NEW f \in FilesOf(local[p].entry), Recoverable(f)'
    PROVE  local'[p].written = f.clusters
<1>1. Recoverable(f)
  BY KnownLater DEF DataInv
<1>. QED
  BY <1>1 DEF DataInv, CopiedFileIsWhole

LEMMA SameLinks ==
    ASSUME NEW f, vol' = vol
    PROVE  (Linked(f.clusters)' <=> Linked(f.clusters)) /\ (Unlinked(f)' <=> Unlinked(f))
<1>1. Linked(f.clusters)' <=> Linked(f.clusters)
  BY DEF Linked
<1>2. FreeClusters' = FreeClusters
  BY DEF FreeClusters
<1>3. TakenAsFree(f)' <=> TakenAsFree(f)
  BY <1>2 DEF TakenAsFree
<1>4. Range(f.clusters)' = Range(f.clusters)
  BY DEF Range
<1>. QED
  BY <1>1, <1>2, <1>3, <1>4 DEF Unlinked

(* A step keeps the files that were written, but for those it ends.         *)
LEMMA DataNext ==
    ASSUME DataInv, vol' = vol, reader' = reader, phase # "start", phase' # "start",
           room' \in Nat, room' <= room,
           \A p \in DOMAIN local' : FieldsOfFile \subseteq DOMAIN local'[p],
           \A p \in DOMAIN local' : local'[p].state = "ok" =>
              \/ p \in DOMAIN local /\ local'[p] = local[p]
              \/ \A f \in vol.files : f.entry = local'[p].entry /\ Recoverable(f)'
                                          => local'[p].written = f.clusters,
           BeingCopied'
    PROVE  DataInv'
<1>1. Described(vol)'
  BY DEF DataInv, Described
<1>2. CopiedFileIsWhole'
  <2>. SUFFICES ASSUME NEW p \in DOMAIN local', local'[p].state = "ok",
                       NEW f \in vol.files, f.entry = local'[p].entry, Recoverable(f)'
                PROVE  local'[p].written = f.clusters
    BY DEF CopiedFileIsWhole, FilesOf
  <2>1. CASE p \in DOMAIN local /\ local'[p] = local[p]
    BY <2>1, OthersStay DEF FilesOf
  <2>. QED
    BY <2>1
<1>. QED
  BY <1>1, <1>2 DEF DataInv

(* The steps that neither read nor write a file                             *)
LEMMA DataAside ==
    ASSUME DataInv, UNCHANGED << vol, reader, room, local, copy >>,
           phase # "start", phase' # "start"
    PROVE  DataInv'
<1>1. room' \in Nat /\ room' <= room
  BY DEF DataInv
<1>2. BeingCopied'
  <2>. SUFFICES ASSUME copy # NoCopy,
                       NEW f \in vol.files, f.entry = local[copy.path].entry, Recoverable(f)'
                PROVE  /\ (reader \in Chained => ChainCopy(f, local[copy.path].written))'
                       /\ (reader \in {"ntfs", "ext2"} => BlockCopy(f, local[copy.path].written))'
    BY DEF DataInv, BeingCopied, FilesOf
  <2>1. Recoverable(f)
    BY <1>1, KnownLater DEF DataInv
  <2>2. /\ reader \in Chained => ChainCopy(f, local[copy.path].written)
        /\ reader \in {"ntfs", "ext2"} => BlockCopy(f, local[copy.path].written)
    BY <2>1 DEF DataInv, BeingCopied, FilesOf
  <2>3. reader \in Chained => ChainCopy(f, local[copy.path].written)'
    BY <2>2, SameLinks DEF ChainCopy
  <2>4. reader \in {"ntfs", "ext2"} => BlockCopy(f, local[copy.path].written)'
    BY <2>2 DEF BlockCopy
  <2>. QED
    BY <2>3, <2>4
<1>3. \A p \in DOMAIN local' : FieldsOfFile \subseteq DOMAIN local'[p]
  BY DEF DataInv
<1>. QED
  BY <1>1, <1>2, <1>3, DataNext

(* A file begins to be copied with nothing written.                         *)
LEMMA StartFileData == DataInv /\ StartFile => DataInv'
<1>. SUFFICES ASSUME DataInv, StartFile PROVE DataInv'
  OBVIOUS
<1>1. /\ phase # "start" /\ phase' # "start" /\ UNCHANGED << vol, reader, room >>
      /\ room' \in Nat /\ room' <= room
  BY DEF StartFile, At, Walking, Unchanged, DataInv
<1>. DEFINE path == PathHere
            e == Current
            new == [entry |-> e, written |-> <<>>, state |-> "open"]
<1>2. local' = [p \in DOMAIN local \cup {path} |-> IF p = path THEN new ELSE local[p]]
  BY DEF StartFile
<1>3. PICK stop :
          copy' = [path |-> path, cluster |-> e.ino, left |-> e.size,
                   first |-> e.ino, method |-> "follow", buffer |-> 0, at |-> 1,
                   error |-> FALSE, stop |-> stop]
  BY DEF StartFile
<1>. HIDE DEF path, e
<1>4. /\ FieldsOfCopy \subseteq DOMAIN copy' /\ copy'.path = path /\ copy'.error = FALSE
      /\ copy'.first = e.ino /\ copy'.cluster = e.ino /\ copy'.left = e.size
      /\ copy'.method = "follow" /\ copy'.at = 1
  BY <1>3 DEF FieldsOfCopy
<1>5. path \in DOMAIN local' /\ local'[path] = new
  BY <1>2
<1>6. \A p \in DOMAIN local' : FieldsOfFile \subseteq DOMAIN local'[p]
  BY <1>2 DEF DataInv, FieldsOfFile
<1>7. \A p \in DOMAIN local' : local'[p].state = "ok" => p \in DOMAIN local /\ local'[p] = local[p]
  BY <1>2
<1>8. BeingCopied'
  <2>a. /\ local'[copy'.path].entry = e /\ local'[copy'.path].state = "open"
        /\ copy'.path \in DOMAIN local'
    BY <1>4, <1>5
  <2>b. FilesOf(local[copy.path].entry)' = {f \in vol.files : f.entry = e}
    BY <1>1, <2>a DEF FilesOf
  <2>. SUFFICES ASSUME NEW f \in vol.files, f.entry = e, Recoverable(f)'
                PROVE  /\ (reader \in Chained => ChainCopy(f, local[copy.path].written))'
                       /\ (reader \in {"ntfs", "ext2"} => BlockCopy(f, local[copy.path].written))'
    BY <1>4, <2>a, <2>b DEF BeingCopied
  <2>1. f.clusters \in Seq(2..vol.last) /\ Len(f.clusters) \in Nat /\ e.size = Len(f.clusters)
    BY LenProperties DEF DataInv, Described
  <2>2. SubSeq(f.clusters, 1, 0) = <<>>
    BY SubSeqEmpty
  <2>3. local'[copy'.path].written = <<>>
    BY <1>4, <1>5
  <2>4. reader \in Chained => ChainCopy(f, local[copy.path].written)'
    <3>. SUFFICES ASSUME reader \in Chained PROVE ChainCopy(f, local[copy.path].written)'
      OBVIOUS
    <3>1. f.clusters # <<>> => e.ino = f.clusters[1]
      BY <1>1 DEF DataInv, Described
    <3>2. Len(f.clusters) - copy'.left = 0
      BY <1>4, <2>1
    <3>3. copy'.left > 0 => copy'.cluster = f.clusters[0 + 1]
      BY <1>4, <2>1, <3>1
    <3>. QED
      BY <1>4, <2>1, <2>2, <2>3, <3>2, <3>3 DEF ChainCopy
  <2>5. reader \in {"ntfs", "ext2"} => BlockCopy(f, local[copy.path].written)'
    BY <1>4, <2>1, <2>2, <2>3 DEF BlockCopy
  <2>. QED
    BY <1>1, <2>4, <2>5
<1>. QED
  BY <1>1, <1>6, <1>7, <1>8, DataNext

(* A copy ends: what is counted as copied was written to its last cluster.  *)
LEMMA FinishData ==
    ASSUME DataInv, Copying, NEW good \in BOOLEAN, Finish(good),
           UNCHANGED << vol, reader >>, phase # "start", phase' # "start",
           good => \A f \in FilesOf(local[copy.path].entry) :
                       Recoverable(f) => local[copy.path].written = f.clusters
    PROVE  DataInv'
<1>1. /\ room' = room /\ room' \in Nat /\ room' <= room
      /\ local' = [local EXCEPT ![copy.path].state = IF good THEN "ok" ELSE "bad"]
      /\ copy' = NoCopy
  BY DEF Finish, DataInv
<1>2. copy.path \in DOMAIN local /\ FieldsOfFile \subseteq DOMAIN local[copy.path]
  BY DEF DataInv, BeingCopied, Copying
<1>3. DOMAIN local' = DOMAIN local
  BY <1>1
<1>4. /\ local'[copy.path].written = local[copy.path].written
      /\ local'[copy.path].entry = local[copy.path].entry
      /\ local'[copy.path].state = IF good THEN "ok" ELSE "bad"
      /\ FieldsOfFile \subseteq DOMAIN local'[copy.path]
      /\ \A p \in DOMAIN local : p # copy.path => local'[p] = local[p]
  BY <1>1, <1>2 DEF FieldsOfFile
<1>5. \A p \in DOMAIN local' : FieldsOfFile \subseteq DOMAIN local'[p]
  BY <1>3, <1>4 DEF DataInv
<1>6. \A p \in DOMAIN local' : local'[p].state = "ok" =>
          \/ p \in DOMAIN local /\ local'[p] = local[p]
          \/ \A f \in vol.files : f.entry = local'[p].entry /\ Recoverable(f)'
                                      => local'[p].written = f.clusters
  <2>. SUFFICES ASSUME NEW p \in DOMAIN local', p = copy.path, local'[p].state = "ok",
                       NEW f \in vol.files, f.entry = local'[p].entry, Recoverable(f)'
                PROVE  local'[p].written = f.clusters
    BY <1>3, <1>4
  <2>1. good /\ Recoverable(f)
    BY <1>1, <1>4, KnownLater DEF DataInv
  <2>. QED
    BY <1>4, <2>1 DEF FilesOf
<1>7. BeingCopied'
  BY <1>1 DEF BeingCopied
<1>. QED
  BY <1>1, <1>5, <1>6, <1>7, DataNext

(* A block goes to the file.                                                *)
LEMMA WriteFacts ==
    ASSUME DataInv, Copying, room # 0, NEW data, Write(data)
    PROVE  /\ room' \in Nat /\ room' <= room
           /\ DOMAIN local' = DOMAIN local
           /\ local'[copy.path].written = Append(local[copy.path].written, data)
           /\ local'[copy.path].entry = local[copy.path].entry
           /\ local'[copy.path].state = "open"
           /\ FieldsOfFile \subseteq DOMAIN local'[copy.path]
           /\ \A p \in DOMAIN local : p # copy.path => local'[p] = local[p]
<1>1. /\ local' = [local EXCEPT ![copy.path].written = Append(@, data)]
      /\ room' = room - 1 /\ room \in Nat
  BY DEF Write, DataInv
<1>2. /\ copy.path \in DOMAIN local /\ FieldsOfFile \subseteq DOMAIN local[copy.path]
      /\ local[copy.path].state = "open"
  BY DEF DataInv, BeingCopied, Copying
<1>3. DOMAIN local' = DOMAIN local /\ \A p \in DOMAIN local : p # copy.path => local'[p] = local[p]
  BY <1>1
<1>4. local'[copy.path] = [local[copy.path] EXCEPT !.written = Append(@, data)]
  BY <1>1, <1>2
<1>5. /\ local'[copy.path].written = Append(local[copy.path].written, data)
      /\ local'[copy.path].entry = local[copy.path].entry
      /\ local'[copy.path].state = "open"
      /\ FieldsOfFile \subseteq DOMAIN local'[copy.path]
  BY <1>2, <1>4 DEF FieldsOfFile
<1>. QED
  BY <1>1, <1>3, <1>5

LEMMA WriteData ==
    ASSUME DataInv, Copying, room # 0, NEW data, Write(data),
           UNCHANGED << vol, reader >>, phase # "start", phase' # "start",
           FieldsOfCopy \subseteq DOMAIN copy', copy'.path = copy.path,
           copy'.first = copy.first, copy'.error = copy.error,
           \A f \in vol.files : f.entry = local[copy.path].entry /\ Recoverable(f) =>
              /\ reader \in Chained => ChainCopy(f, local[copy.path].written)'
              /\ reader \in {"ntfs", "ext2"} => BlockCopy(f, local[copy.path].written)'
    PROVE  DataInv'
<1>1. /\ room' \in Nat /\ room' <= room
      /\ DOMAIN local' = DOMAIN local
      /\ local'[copy.path].entry = local[copy.path].entry
      /\ local'[copy.path].state = "open"
      /\ FieldsOfFile \subseteq DOMAIN local'[copy.path]
      /\ \A p \in DOMAIN local : p # copy.path => local'[p] = local[p]
  BY WriteFacts
<1>2. \A p \in DOMAIN local' : FieldsOfFile \subseteq DOMAIN local'[p]
  BY <1>1 DEF DataInv
<1>3. \A p \in DOMAIN local' : local'[p].state = "ok" => p \in DOMAIN local /\ local'[p] = local[p]
  BY <1>1
<1>4. BeingCopied'
  <2>1. copy.path \in DOMAIN local /\ copy.first = local[copy.path].entry.ino
    BY DEF DataInv, BeingCopied, Copying
  <2>2. FilesOf(local[copy.path].entry)' = {f \in vol.files : f.entry = local[copy.path].entry}
    BY <1>1 DEF FilesOf
  <2>3. ASSUME NEW f \in vol.files, f.entry = local[copy.path].entry, Recoverable(f)'
        PROVE  /\ (reader \in Chained => ChainCopy(f, local[copy.path].written))'
               /\ (reader \in {"ntfs", "ext2"} => BlockCopy(f, local[copy.path].written))'
    <3>1. Recoverable(f)
      BY <1>1, <2>3, KnownLater DEF DataInv
    <3>. QED
      BY <2>3, <3>1
  <2>5. copy'.error \in BOOLEAN /\ (copy'.error => reader' # "ntfs")
    BY DEF DataInv, BeingCopied, Copying
  <2>4. /\ FieldsOfCopy \subseteq DOMAIN copy' /\ copy'.path \in DOMAIN local'
        /\ copy'.first = local'[copy'.path].entry.ino
        /\ local'[copy'.path].state = "open"
    BY <1>1, <2>1
  <2>. QED
    BY <2>2, <2>3, <2>4, <2>5 DEF BeingCopied
<1>. QED
  BY <1>1, <1>2, <1>3, <1>4, DataNext

(* One more element of a beginning                                          *)
LEMMA PrefixGrows ==
    ASSUME NEW S, NEW c \in Seq(S), NEW n \in Nat, n < Len(c)
    PROVE  Append(SubSeq(c, 1, n), c[n + 1]) = SubSeq(c, 1, n + 1)
<1>1. Len(c) \in Nat /\ n \in 0..Len(c) /\ n + 1 \in 0..Len(c) /\ n + 1 \in 1..Len(c)
  BY LenProperties
<1>. DEFINE a == SubSeq(c, 1, n)
            b == SubSeq(c, 1, n + 1)
<1>2. /\ a \in Seq(S) /\ Len(a) = n /\ \A i \in 1..n : a[i] = c[i]
  BY <1>1, Prefix
<1>3. /\ b \in Seq(S) /\ Len(b) = n + 1 /\ \A i \in 1..(n + 1) : b[i] = c[i]
  BY <1>1, Prefix
<1>4. c[n + 1] \in S
  BY <1>1, ElementOfSeq
<1>. HIDE DEF a, b
<1>5. /\ Append(a, c[n + 1]) \in Seq(S) /\ Len(Append(a, c[n + 1])) = n + 1
      /\ \A i \in 1..n : Append(a, c[n + 1])[i] = a[i]
      /\ Append(a, c[n + 1])[n + 1] = c[n + 1]
  BY <1>2, <1>4, AppendProperties
<1>6. \A i \in 1..(n + 1) : Append(a, c[n + 1])[i] = b[i]
  BY <1>2, <1>3, <1>5
<1>7. Append(a, c[n + 1]) = b
  BY <1>3, <1>5, <1>6, SeqEqual
<1>. QED
  BY <1>7 DEF a, b

(* fat_copy and exfat_copy                                                  *)
LEMMA CopyClusterData == DataInv /\ CopyCluster => DataInv'
<1>. SUFFICES ASSUME DataInv, CopyCluster PROVE DataInv'
  OBVIOUS
<1>1. /\ Copying /\ reader \in Chained /\ UNCHANGED << vol, reader >>
      /\ FieldsOfCopy \subseteq DOMAIN copy /\ copy.error \in BOOLEAN
      /\ phase # "start"
  BY DEF CopyCluster, Aside, Unchanged, DataInv, BeingCopied, Copying
<1>2. CASE room = 0
  <2>1. Finish(FALSE)
    BY <1>2 DEF CopyCluster
  <2>2. phase' # "start"
    BY <1>1, <2>1 DEF Finish
  <2>. QED
    BY <1>1, <2>1, <2>2, FinishData
<1>3. CASE room # 0
  <2>. DEFINE b == BufferRead
              to == IF copy.left > 1 THEN NextCluster ELSE copy.cluster
              method == IF copy.left > 1 THEN Method ELSE copy.method
  <2>1. /\ Write(b) /\ phase' = phase
        /\ copy' = [copy EXCEPT !.buffer = b, !.left = @ - 1, !.cluster = to,
                                !.method = method]
    BY <1>3 DEF CopyCluster, Write
  <2>. HIDE DEF b, to, method
  <2>2. /\ FieldsOfCopy \subseteq DOMAIN copy' /\ copy'.path = copy.path
        /\ copy'.first = copy.first /\ copy'.error = copy.error /\ copy'.left = copy.left - 1
        /\ copy'.cluster = to /\ copy'.method = method
    BY <1>1, <2>1 DEF FieldsOfCopy
  <2>3. ASSUME NEW f \in vol.files, f.entry = local[copy.path].entry, Recoverable(f)
        PROVE  ChainCopy(f, local[copy.path].written)'
    <3>. DEFINE c == f.clusters
                n == Len(c) - copy.left
                w == local[copy.path].written
    <3>1. /\ copy.left \in 0..Len(c) /\ w = SubSeq(c, 1, n)
          /\ copy.left > 0 => copy.cluster = c[n + 1]
          /\ n = 0 => copy.method = "follow"
          /\ n > 0 /\ copy.left > 0 =>
                \/ copy.method = "follow" /\ Linked(c)
                \/ copy.method = "free" /\ Unlinked(f)
      BY <1>1, <2>3 DEF DataInv, BeingCopied, Copying, FilesOf, ChainCopy
    <3>2. c \in Seq(2..vol.last) /\ Len(c) \in Nat
      BY LenProperties DEF DataInv, Described
    <3>3. copy.left > 0
      BY DEF CopyCluster
    <3>4. n \in 0..(Len(c) - 1) /\ n + 1 \in 1..Len(c) /\ copy.left \in Nat \ {0} /\ n \in Nat
      <4>1. copy.left \in 1..Len(c) /\ copy.left \in Nat
        BY <3>1, <3>2, <3>3
      <4>. QED
        BY <3>2, <4>1
    <3>5. copy.cluster = c[n + 1] /\ Readable(vol, copy.cluster)
      BY <1>1, <2>3, <3>1, <3>3, <3>4, InReach
    <3>6. b = c[n + 1]
      BY <3>5 DEF b, BufferRead
    <3>7. Append(w, b) = SubSeq(c, 1, n + 1)
      <4>. HIDE DEF c, n, w
      <4>. QED
        BY <3>1, <3>2, <3>4, <3>6, PrefixGrows
    <3>8. local'[copy.path].written = SubSeq(c, 1, n + 1)
      BY <1>1, <1>3, <2>1, <3>7, WriteFacts
    <3>9. /\ copy'.left \in 0..Len(c) /\ Len(c) - copy'.left = n + 1
      BY <2>2, <3>2, <3>4
    <3>10. ASSUME copy'.left > 0
           PROVE  /\ copy'.cluster = c[(n + 1) + 1]
                  /\ \/ copy'.method = "follow" /\ Linked(c)
                     \/ copy'.method = "free" /\ Unlinked(f)
      <4>. DEFINE i == n + 1
                  onward == get_next_cluster(vol, copy.cluster)
      <4>1. copy.left > 1 /\ i \in 1..(Len(c) - 1) /\ i + 1 \in 1..Len(c) /\ i \in 1..Len(c)
        BY <2>2, <3>2, <3>4, <3>10
      <4>2. copy'.cluster = NextCluster /\ copy'.method = Method
        BY <2>2, <4>1 DEF to, method
      <4>3. ASSUME Linked(c), copy.method = "follow"
            PROVE  copy'.cluster = c[i + 1] /\ copy'.method = "follow"
        <5>1. onward = c[i + 1]
          BY <3>5, <4>1, <4>3 DEF Linked
        <5>2. IsLink(vol, onward)
          BY <1>1, <2>3, <4>1, <5>1, InReach DEF IsLink
        <5>3. Method = "follow"
          BY <4>3, <5>2 DEF Method
        <5>. QED
          BY <4>2, <5>1, <5>3 DEF NextCluster
      <4>4. ASSUME Unlinked(f), Method = "free"
            PROVE  copy'.cluster = c[i + 1] /\ copy'.method = "free"
        <5>1. NextFree(vol, c[i]) = c[i + 1]
          BY <1>1, <2>3, <4>1, <4>4, FreeIsNext
        <5>. QED
          BY <3>5, <4>2, <4>4, <5>1 DEF NextCluster
      <4>5. CASE n = 0
        <5>1. c # <<>> /\ Len(c) > 1
          BY <3>2, <4>1
        <5>2. copy.method = "follow" /\ copy.cluster = c[1] /\ copy.first = c[1]
          <6>1. copy.first = f.entry.ino
            BY <1>1, <2>3 DEF DataInv, BeingCopied, Copying
          <6>2. f.entry.ino = c[1]
            BY <1>1, <5>1 DEF DataInv, Described
          <6>3. n + 1 = 1
            BY <4>5
          <6>4. copy.cluster = c[n + 1] /\ copy.method = "follow"
            BY <3>1, <3>5, <4>5
          <6>. HIDE DEF n
          <6>. QED
            BY <6>1, <6>2, <6>3, <6>4
        <5>3. CASE Linked(c)
          BY <4>3, <5>2, <5>3
        <5>4. CASE ~Linked(c)
          <6>1. Unlinked(f)
            <7>1. /\ get_next_cluster(vol, f.clusters[1]) = 0
                  /\ TakenAsFree(f)
                  /\ Len(f.clusters) > 1 => Range(f.clusters) \subseteq FreeClusters
              BY <1>1, <2>3, <5>1, <5>4 DEF Recoverable
            <7>. QED
              BY <5>1, <7>1 DEF Unlinked
          <6>2. onward = 0 /\ ~IsLink(vol, onward)
            BY <5>2, <6>1 DEF Unlinked, IsLink
          <6>3. Method = "free"
            BY <5>2, <6>2 DEF Method
          <6>. QED
            BY <4>4, <6>1, <6>3
        <5>. QED
          BY <5>3, <5>4
      <4>6. CASE n > 0
        <5>1. \/ copy.method = "follow" /\ Linked(c)
              \/ copy.method = "free" /\ Unlinked(f)
          BY <3>1, <3>3, <4>6
        <5>2. copy.method = "free" => Method = "free"
          BY DEF Method
        <5>. QED
          BY <4>3, <4>4, <5>1, <5>2
      <4>. QED
        BY <3>4, <4>5, <4>6
    <3>11. (Linked(f.clusters)' <=> Linked(f.clusters)) /\ (Unlinked(f)' <=> Unlinked(f))
      BY <1>1, SameLinks
    <3>. QED
      <4>1. local'[copy'.path].written = SubSeq(c, 1, Len(c) - copy'.left)
        BY <2>2, <3>8, <3>9
      <4>2. Len(c) - copy'.left # 0 /\ (Len(c) - copy'.left) + 1 = (n + 1) + 1
        BY <3>4, <3>9
      <4>3. copy'.left > 0 =>
                /\ copy'.cluster = c[(Len(c) - copy'.left) + 1]
                /\ \/ copy'.method = "follow" /\ Linked(c)'
                   \/ copy'.method = "free" /\ Unlinked(f)'
        BY <3>10, <3>11, <4>2
      <4>. QED
        BY <3>9, <4>1, <4>2, <4>3 DEF ChainCopy
  <2>4. reader \notin {"ntfs", "ext2"}
    BY <1>1 DEF Chained, Fat
  <2>. QED
    BY <1>1, <1>3, <2>1, <2>2, <2>3, <2>4, WriteData
<1>. QED
  BY <1>2, <1>3

LEMMA CopyReturnsData == DataInv /\ CopyReturns => DataInv'
<1>. SUFFICES ASSUME DataInv, CopyReturns PROVE DataInv'
  OBVIOUS
<1>1. /\ Copying /\ reader \in Chained /\ UNCHANGED << vol, reader >>
      /\ phase # "start" /\ phase' # "start" /\ Finish(TRUE)
  BY DEF CopyReturns, Aside, Unchanged, DataInv, Copying, Finish
<1>2. ASSUME NEW f \in FilesOf(local[copy.path].entry), Recoverable(f)
      PROVE  local[copy.path].written = f.clusters
  <2>. DEFINE c == f.clusters
              n == Len(c) - copy.left
              w == local[copy.path].written
  <2>1. /\ copy.left \in 0..Len(c) /\ w = SubSeq(c, 1, n)
        /\ copy.left > 0 => copy.cluster = c[n + 1]
    BY <1>1, <1>2 DEF DataInv, BeingCopied, Copying, ChainCopy
  <2>2. c \in Seq(2..vol.last) /\ Len(c) \in Nat /\ f \in vol.files
    BY LenProperties DEF DataInv, Described, FilesOf
  <2>3. copy.left = 0
    <3>. SUFFICES ASSUME copy.left # 0 PROVE FALSE
      OBVIOUS
    <3>1. copy.left \in 1..Len(c) /\ copy.left \in Nat
      BY <2>1, <2>2
    <3>2. n + 1 \in 1..Len(c)
      BY <2>2, <3>1
    <3>3. copy.cluster = c[n + 1] /\ copy.cluster \in 2..LastLinked(vol)
      BY <1>1, <1>2, <2>1, <2>2, <3>1, <3>2, InReach
    <3>. QED
      BY <3>1, <3>3 DEF CopyReturns, InVolume
  <2>4. w = SubSeq(c, 1, Len(c))
    BY <2>1, <2>2, <2>3
  <2>. QED
    BY <2>2, <2>4, SubSeqFull
<1>. QED
  BY <1>1, <1>2, FinishData

(* Where the blocks of a file end                                           *)
LEMMA BlocksOf ==
    ASSUME DataInv, phase # "start", reader \in {"ntfs", "ext2"}, Copying,
           NEW f \in vol.files, f.entry = local[copy.path].entry, Recoverable(f)
    PROVE  /\ Blocks = f.clusters /\ f.clusters \in Seq(2..vol.last)
           /\ Len(f.clusters) \in Nat
           /\ copy.at \in 1..(Len(f.clusters) + 1)
           /\ ~copy.error => local[copy.path].written = SubSeq(f.clusters, 1, copy.at - 1)
           /\ \A i \in 1..Len(f.clusters) : Readable(vol, f.clusters[i])
<1>1. reader \notin Chained
  BY DEF Chained, Fat
<1>2. /\ f.clusters \in Seq(2..vol.last) /\ vol.blocks[f.entry.ino] = f.clusters
      /\ copy.first = f.entry.ino
  BY <1>1 DEF DataInv, Described, BeingCopied, Copying
<1>3. Blocks = f.clusters
  BY <1>2 DEF Blocks
<1>4. BlockCopy(f, local[copy.path].written)
  BY DEF DataInv, BeingCopied, Copying, FilesOf
<1>5. \A i \in 1..Len(f.clusters) : Readable(vol, f.clusters[i])
  <2>1. Range(f.clusters) \cap vol.bad = {}
    BY DEF Recoverable
  <2>. SUFFICES ASSUME NEW i \in 1..Len(f.clusters) PROVE Readable(vol, f.clusters[i])
    OBVIOUS
  <2>2. f.clusters[i] \in 2..vol.last
    BY <1>2, ElementOfSeq
  <2>3. f.clusters[i] \in Range(f.clusters)
    BY <1>2 DEF Range
  <2>. QED
    BY <2>1, <2>2, <2>3 DEF Readable
<1>. QED
  <2>. Len(f.clusters) \in Nat
    BY <1>2, LenProperties
  <2>. QED
    BY <1>2, <1>3, <1>4, <1>5 DEF BlockCopy

(* One more block of a library's file                                       *)
LEMMA NextBlockData ==
    ASSUME DataInv, phase # "start", reader \in {"ntfs", "ext2"}, Copying,
           UNCHANGED << vol, reader >>, room # 0, ~(copy.at > Len(Blocks)),
           Write(Blocks[copy.at]), copy' = [copy EXCEPT !.at = @ + 1]
    PROVE  DataInv'
<1>1. FieldsOfCopy \subseteq DOMAIN copy /\ copy.error \in BOOLEAN
  BY DEF DataInv, BeingCopied, Copying
<1>2. /\ FieldsOfCopy \subseteq DOMAIN copy' /\ copy'.path = copy.path
      /\ copy'.first = copy.first /\ copy'.error = copy.error /\ copy'.at = copy.at + 1
  BY <1>1 DEF FieldsOfCopy
<1>3. phase' # "start"
  BY DEF Write
<1>4. ASSUME NEW f \in vol.files, f.entry = local[copy.path].entry, Recoverable(f)
      PROVE  BlockCopy(f, local[copy.path].written)'
  <2>. DEFINE c == f.clusters
              n == copy.at - 1
              w == local[copy.path].written
  <2>1. /\ Blocks = c /\ c \in Seq(2..vol.last) /\ Len(c) \in Nat
        /\ copy.at \in 1..(Len(c) + 1) /\ (~copy.error => w = SubSeq(c, 1, n))
    BY <1>4, BlocksOf
  <2>2. copy.at \in 1..Len(c) /\ copy.at \in Nat /\ n \in Nat /\ n < Len(c) /\ n + 1 = copy.at
    BY <2>1
  <2>3. local'[copy.path].written = Append(w, c[copy.at])
    BY <2>1, WriteFacts
  <2>4. ~copy.error => local'[copy.path].written = SubSeq(c, 1, copy.at)
    <3>. HIDE DEF c, n, w
    <3>. QED
      BY <2>1, <2>2, <2>3, PrefixGrows
  <2>5. copy'.at \in 1..(Len(c) + 1) /\ copy'.at - 1 = copy.at
    BY <1>2, <2>1, <2>2
  <2>. QED
    BY <1>2, <2>4, <2>5 DEF BlockCopy
<1>5. reader \notin Chained
  BY DEF Chained, Fat
<1>. QED
  BY <1>1, <1>2, <1>3, <1>4, <1>5, WriteData

LEMMA CopyNtfsData == DataInv /\ CopyNtfs => DataInv'
<1>. SUFFICES ASSUME DataInv, CopyNtfs PROVE DataInv'
  OBVIOUS
<1>1. /\ Copying /\ reader = "ntfs" /\ UNCHANGED << vol, reader >> /\ phase # "start"
  BY DEF CopyNtfs, Aside, Unchanged, DataInv, Copying
<1>2. CASE copy.at > Len(Blocks) \/ room = 0 \/ ~Readable(vol, Blocks[copy.at])
  <2>1. Finish(TRUE)
    BY <1>2 DEF CopyNtfs
  <2>2. phase' # "start"
    BY <1>1, <2>1 DEF Finish
  <2>3. ASSUME NEW f \in FilesOf(local[copy.path].entry), Recoverable(f)
        PROVE  local[copy.path].written = f.clusters
    <3>. DEFINE c == f.clusters
    <3>1. /\ Blocks = c /\ c \in Seq(2..vol.last) /\ Len(c) \in Nat
          /\ copy.at \in 1..(Len(c) + 1)
          /\ (~copy.error => local[copy.path].written = SubSeq(c, 1, copy.at - 1))
          /\ \A i \in 1..Len(c) : Readable(vol, c[i])
      BY <1>1, <2>3, BlocksOf DEF FilesOf
    <3>2. room # 0
      BY <1>1, <2>3 DEF Recoverable, DataInv
    <3>3. copy.at = Len(c) + 1
      BY <1>2, <3>1, <3>2
    <3>4. ~copy.error
      BY <1>1 DEF DataInv, BeingCopied, Copying
    <3>5. local[copy.path].written = SubSeq(c, 1, Len(c))
      BY <3>1, <3>3, <3>4
    <3>. QED
      BY <3>1, <3>5, SubSeqFull
  <2>. QED
    BY <1>1, <2>1, <2>2, <2>3, FinishData
<1>3. CASE ~(copy.at > Len(Blocks) \/ room = 0 \/ ~Readable(vol, Blocks[copy.at]))
  BY <1>1, <1>3, NextBlockData DEF CopyNtfs
<1>. QED
  BY <1>2, <1>3

LEMMA CopyExt2Data == DataInv /\ CopyExt2 => DataInv'
<1>. SUFFICES ASSUME DataInv, CopyExt2 PROVE DataInv'
  OBVIOUS
<1>1. /\ Copying /\ reader = "ext2" /\ UNCHANGED << vol, reader >> /\ phase # "start"
      /\ FieldsOfCopy \subseteq DOMAIN copy /\ copy.error \in BOOLEAN
  BY DEF CopyExt2, Aside, Unchanged, DataInv, BeingCopied, Copying
<1>2. CASE copy.at > Len(Blocks)
  <2>1. Finish(~copy.error)
    BY <1>2 DEF CopyExt2
  <2>2. phase' # "start"
    BY <1>1, <2>1 DEF Finish
  <2>3. ASSUME ~copy.error, NEW f \in FilesOf(local[copy.path].entry), Recoverable(f)
        PROVE  local[copy.path].written = f.clusters
    <3>. DEFINE c == f.clusters
    <3>1. /\ Blocks = c /\ c \in Seq(2..vol.last) /\ Len(c) \in Nat
          /\ copy.at \in 1..(Len(c) + 1)
          /\ local[copy.path].written = SubSeq(c, 1, copy.at - 1)
      BY <1>1, <2>3, BlocksOf DEF FilesOf
    <3>2. copy.at = Len(c) + 1 /\ copy.at - 1 = Len(c)
      BY <1>2, <3>1
    <3>3. local[copy.path].written = SubSeq(c, 1, Len(c))
      BY <3>1, <3>2
    <3>. QED
      BY <3>1, <3>3, SubSeqFull
  <2>. QED
    BY <1>1, <2>1, <2>2, <2>3, FinishData
<1>3. CASE ~(copy.at > Len(Blocks)) /\ ~Readable(vol, Blocks[copy.at])
  <2>1. Finish(FALSE)
    BY <1>3 DEF CopyExt2
  <2>2. phase' # "start"
    BY <1>1, <2>1 DEF Finish
  <2>. QED
    BY <1>1, <2>1, <2>2, FinishData
<1>4. CASE ~(copy.at > Len(Blocks)) /\ Readable(vol, Blocks[copy.at]) /\ room = 0
  <2>1. /\ copy' = [copy EXCEPT !.at = @ + 1, !.error = TRUE]
        /\ UNCHANGED << phase, local, room >>
    BY <1>4 DEF CopyExt2
  <2>2. /\ FieldsOfCopy \subseteq DOMAIN copy' /\ copy'.path = copy.path
        /\ copy'.first = copy.first /\ copy'.error = TRUE /\ copy'.at = copy.at + 1
    BY <1>1, <2>1 DEF FieldsOfCopy
  <2>3. room' \in Nat /\ room' <= room
    BY <2>1 DEF DataInv
  <2>4. ASSUME NEW f \in vol.files, f.entry = local[copy.path].entry, Recoverable(f)'
        PROVE  BlockCopy(f, local[copy.path].written)'
    <3>1. Recoverable(f)
      BY <1>1, <2>3, <2>4, KnownLater DEF DataInv
    <3>2. Blocks = f.clusters /\ copy.at \in 1..(Len(f.clusters) + 1) /\ Len(f.clusters) \in Nat
      BY <1>1, <2>4, <3>1, BlocksOf
    <3>3. copy'.at \in 1..(Len(f.clusters) + 1)
      BY <1>4, <2>2, <3>2
    <3>. QED
      BY <2>2, <3>3 DEF BlockCopy
  <2>5. reader \notin Chained
    BY <1>1 DEF Chained, Fat
  <2>6. BeingCopied'
    <3>1. FilesOf(local[copy.path].entry)' = {f \in vol.files : f.entry = local[copy.path].entry}
      BY <1>1, <2>1, <2>2 DEF FilesOf
    <3>2. /\ copy'.path \in DOMAIN local' /\ local'[copy'.path].state = "open"
          /\ copy'.first = local'[copy'.path].entry.ino
      BY <1>1, <2>1, <2>2 DEF DataInv, BeingCopied, Copying
    <3>. QED
      BY <1>1, <2>2, <2>4, <2>5, <3>1, <3>2 DEF BeingCopied
  <2>7. \A p \in DOMAIN local' : FieldsOfFile \subseteq DOMAIN local'[p]
    BY <2>1 DEF DataInv
  <2>. QED
    BY <1>1, <2>1, <2>3, <2>6, <2>7, DataNext
<1>5. CASE ~(copy.at > Len(Blocks)) /\ Readable(vol, Blocks[copy.at]) /\ room # 0
  BY <1>1, <1>5, NextBlockData DEF CopyExt2
<1>. QED
  BY <1>2, <1>3, <1>4, <1>5

LEMMA OpenData == DataInv /\ Open => DataInv'
<1>. SUFFICES ASSUME DataInv, Open PROVE DataInv'
  OBVIOUS
<1>1. /\ phase = "start" /\ reader' = dir_partition_init(vol)
      /\ UNCHANGED << vol, copy, local, room >>
  BY DEF Open, walk
<1>2. DOMAIN local' = {} /\ copy' = NoCopy
  BY <1>1 DEF DataInv
<1>3. phase' # "start"
  BY DEF Open
<1>4. Described(vol)' /\ reader' = dir_partition_init(vol)'
  BY <1>1 DEF DataInv, Described, dir_partition_init, ByPartition, Initialised
<1>. QED
  BY <1>1, <1>2, <1>3, <1>4 DEF DataInv, BeingCopied, CopiedFileIsWhole

(* The steps of the walk and of the screen that copy nothing                *)
LEMMA OtherData ==
    DataInv /\ (\/ Begin \/ EnterDirectory \/ SkipEntry \/ LeaveDirectory \/ CannotCreate
                \/ MoveCursor \/ MarkOne \/ MarkAll \/ MarkMatching \/ ToggleDeleted
                \/ Back \/ Quit \/ Change \/ CopyCurrent \/ CopySelection) => DataInv'
<1>. SUFFICES ASSUME DataInv,
                     \/ Begin \/ EnterDirectory \/ SkipEntry \/ LeaveDirectory \/ CannotCreate
                     \/ MoveCursor \/ MarkOne \/ MarkAll \/ MarkMatching \/ ToggleDeleted
                     \/ Back \/ Quit \/ Change \/ CopyCurrent \/ CopySelection
              PROVE  DataInv'
  OBVIOUS
<1>1. CASE Begin \/ EnterDirectory \/ SkipEntry \/ CannotCreate
  <2>1. UNCHANGED << vol, reader, room, local, copy >> /\ phase # "start"
    BY <1>1 DEF Begin, EnterDirectory, SkipEntry, CannotCreate, Unchanged, At, Walking
  <2>2. phase' # "start"
    BY <1>1, <2>1 DEF Begin, EnterDirectory, SkipEntry, CannotCreate
  <2>. QED
    BY <2>1, <2>2, DataAside
<1>2. CASE LeaveDirectory
  <2>1. UNCHANGED << vol, reader, room, local, copy >> /\ phase \in Walks
    BY <1>2 DEF LeaveDirectory, Unchanged, Walking, Walks
  <2>2. phase' # "start"
    BY <1>2, <2>1 DEF LeaveDirectory, AfterWalk, Walks
  <2>. QED
    BY <2>1, <2>2, DataAside DEF Walks
<1>3. CASE MoveCursor \/ MarkOne \/ MarkAll \/ MarkMatching \/ ToggleDeleted \/ Back \/ Quit \/ Change
  <2>1. UNCHANGED << vol, reader, room, local, copy >> /\ phase = "browse"
    BY <1>3 DEF MoveCursor, MarkOne, MarkAll, MarkMatching, ToggleDeleted, Back, Quit, Change,
                Stay, Key, walk
  <2>2. phase' # "start"
    BY <1>3, <2>1 DEF MoveCursor, MarkOne, MarkAll, MarkMatching, ToggleDeleted, Back, Quit,
                      Change, Stay
  <2>. QED
    BY <2>1, <2>2, DataAside
<1>4. CASE CopyCurrent \/ CopySelection
  <2>1. /\ UNCHANGED << vol, reader, room, local, copy >> /\ phase = "browse"
        /\ phase' = "select"
    BY <1>4 DEF CopyCurrent, CopySelection, Key, Select
  <2>. QED
    BY <2>1, DataAside
<1>. QED
  BY <1>1, <1>2, <1>3, <1>4

LEMMA DataStep == DataInv /\ [Next]_vars => DataInv'
<1>. SUFFICES ASSUME DataInv, [Next]_vars PROVE DataInv'
  OBVIOUS
<1>1. CASE UNCHANGED vars
  <2>1. /\ UNCHANGED << vol, reader, room, local, copy >> /\ phase' = phase
    BY <1>1 DEF vars, walk
  <2>2. CASE phase # "start"
    BY <2>1, <2>2, DataAside
  <2>3. CASE phase = "start"
    <3>1. DOMAIN local' = {} /\ copy' = NoCopy /\ Described(vol)'
      BY <2>1, <2>3 DEF DataInv, Described
    <3>. QED
      BY <2>1, <2>3, <3>1 DEF DataInv, BeingCopied, CopiedFileIsWhole
  <2>. QED
    BY <2>2, <2>3
<1>2. CASE Next
  BY <1>2, OpenData, StartFileData, CopyClusterData, CopyReturnsData, CopyNtfsData,
     CopyExt2Data, OtherData DEF Next
<1>. QED
  BY <1>1, <1>2

LEMMA DataInit == Init => DataInv
<1>. SUFFICES ASSUME Init PROVE DataInv
  OBVIOUS
<1>1. Described(vol)
  BY VolumesAssumption DEF Init
<1>2. DOMAIN local = {} /\ copy = NoCopy /\ phase = "start" /\ room \in Nat
  BY LimitsAssumption DEF Init
<1>. QED
  BY <1>1, <1>2 DEF DataInv, BeingCopied, CopiedFileIsWhole

(* Whatever the volume, however much of it cannot be read, whatever the     *)
(* user asks for and wherever the destination is full: a file that is       *)
(* counted as copied has all of its clusters, in order, if they can be      *)
(* known.                                                                   *)
THEOREM CopiesAreWhole == Spec => []CopiedFileIsWhole
<1>1. Spec => []DataInv
  BY DataInit, DataStep, PTL DEF Spec
<1>2. DataInv => CopiedFileIsWhole
  BY DEF DataInv
<1>. QED
  BY <1>1, <1>2, PTL

-----------------------------------------------------------------------------
(* The menu                                                                 *)

(* Whatever is chosen in the menu, what it does with the listing is what    *)
(* DirTree allows.                                                          *)
THEOREM MenuListsFiles == AdvSpec => Spec
<1>1. AdvInit => Init
  BY DEF AdvInit
<1>2. [AdvNext]_<< tool, vars, undelete >> => [Next]_vars
  BY DEF AdvNext, DirStep, NtfsStep, adv_menu_list_selected, adv_menu_undelete_selected, Next
<1>. QED
  BY <1>1, <1>2, PTL DEF AdvSpec, Spec

(* So both hold of the menu as well.                                        *)
THEOREM MenuKnowsItsPath == AdvSpec => []KnownIsThePath
BY MenuListsFiles, WalkKnowsItsPath, PTL

THEOREM MenuCopiesAreWhole == AdvSpec => []CopiedFileIsWhole
BY MenuListsFiles, CopiesAreWhole, PTL
=============================================================================
