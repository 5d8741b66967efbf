--------------------------- MODULE PhotoRecProofs ---------------------------
(***************************************************************************)
(* What holds of every run of PhotoRec, for any number of calls, stops and *)
(* kills: the types, what isFinish means, what the session file says when  *)
(* a run is over, that the passes follow the plan, and that a stop is      *)
(* noticed.                                                                *)
(***************************************************************************)
EXTENDS PhotoRec, TLAPS

(* The actions and the operators they are made of.                         *)
Statuses == Passes \cup {"QUIT"}
Results == {"OK", "STOP", "EACCES", "ENOSPC"}

-----------------------------------------------------------------------------
(* Type correctness                                                        *)

(* The pass after any pass is a pass, or QUIT: status_inc has no other     *)
(* answer.                                                                 *)
LEMMA StatusIncType ==
    ASSUME NEW s \in Passes
    PROVE  StatusInc(s) \in Statuses
  BY DEF Statuses, Passes, Carving, BruteForcing, StatusInc, AfterCarving,
         SaveEverything

(* session_save leaves a session file that is whole, broken or absent.     *)
LEMMA SessionSaveType ==
    ASSUME session \in Sessions, status \in Statuses,
           NEW o \in BOOLEAN, SessionSave(o)
    PROVE  session' \in Sessions /\ saved' \in BOOLEAN
<1>1. ASSUME status # "QUIT" PROVE SessionOf(status, o) \in Sessions
  <2>1. (o /\ status # "FIND_OFFSET") \in BOOLEAN
    OBVIOUS
  <2>2. status \in Passes
    BY <1>1 DEF Statuses
  <2> QED
    BY <2>1, <2>2 DEF SessionOf, Sessions
<1>2. BrokenFile \in Sessions
  BY DEF Sessions
<1> QED
  BY <1>1, <1>2 DEF SessionSave

(* A condition is one of those startRevocer can be called with.            *)
LEMMA DefaultsType == Defaults \in Conditions
  BY DEF Defaults, Conditions, Passes, Carving, BruteForcing

(* Every reachable state has the types of the C variables.                 *)
THEOREM TypeCorrect == Spec => []TypeOK
<1>1. Init => TypeOK
  <2> SUFFICES ASSUME Init PROVE TypeOK
    OBVIOUS
  <2>1. ran \in Seq(PassRecords) /\ asked \in Int
    BY DEF Init
  <2>2. session \in Sessions
    BY DEF Init, Sessions
  <2>3. runs \in 0..MaxRuns /\ kills \in 0..MaxKills
    BY BoundsAssumption DEF Init
  <2>4. /\ worker = "idle" /\ stop \in BOOLEAN /\ isFinish \in BOOLEAN
        /\ condition \in Conditions /\ status = "QUIT"
        /\ offset \in BOOLEAN /\ remaining \in BOOLEAN
        /\ indStop = "OK" /\ saved \in BOOLEAN
    BY DefaultsType DEF Init
  <2> QED
    BY <2>1, <2>2, <2>3, <2>4 DEF TypeOK
<1>2. TypeOK /\ [Next]_vars => TypeOK'
  <2> SUFFICES ASSUME TypeOK, [Next]_vars PROVE TypeOK'
    OBVIOUS
  <2> USE DEF TypeOK
  <2>1. CASE CallStart
    BY <2>1, BoundsAssumption DEF CallStart
  <2>2. CASE StopRecover
    BY <2>2 DEF StopRecover
  <2>3. CASE Enter
    BY <2>3 DEF Enter
  <2>4. CASE ResetStop
    <3>1. ran' \in Seq(PassRecords) /\ asked' \in Int
      BY <2>4 DEF ResetStop
    <3> QED
      BY <2>4, <3>1 DEF ResetStop
  <2>5. ASSUME LocalsGone
        PROVE  /\ condition' \in Conditions /\ status' = "QUIT"
               /\ offset' \in BOOLEAN /\ saved' \in BOOLEAN
               /\ indStop' = "OK" /\ ran' \in Seq(PassRecords)
               /\ asked' \in Int
    <3>1. ran' \in Seq(PassRecords) /\ asked' \in Int
      BY <2>5 DEF LocalsGone
    <3>2. condition' \in Conditions
      BY <2>5, DefaultsType DEF LocalsGone
    <3> QED
      BY <2>5, <3>1, <3>2 DEF LocalsGone
  <2>5a. CASE OpenFails
    BY <2>5, <2>5a DEF OpenFails
  <2>6. CASE NothingToDo
    BY <2>6 DEF NothingToDo
  <2>7. CASE StartPhotorec
    <3>1. condition.first \in Passes
      BY DEF Conditions
    <3>2. condition.first # "QUIT"
      BY <3>1 DEF Passes, Carving, BruteForcing
    <3> QED
      BY <2>7, <3>1, <3>2 DEF StartPhotorec
  <2>8. ASSUME NEW s \in Results, PassEnds(s)
        PROVE  /\ ran' \in Seq(PassRecords) /\ remaining' \in BOOLEAN
               /\ worker' = "save" /\ status \in Passes
    <3>1. status \in Passes
      BY <2>8 DEF PassEnds
    <3>2. [status |-> status, result |-> s] \in PassRecords
      BY <3>1 DEF PassRecords, Results
    <3>3. ran' \in Seq(PassRecords)
      BY <2>8, <3>2 DEF PassEnds
    <3> QED
      BY <2>8, <3>1, <3>3 DEF PassEnds
  <2>9. CASE Unformat
    <3>1. PassEnds("OK")
      BY <2>9 DEF Unformat
    <3> QED
      BY <2>8, <2>9, <3>1 DEF Unformat, PassEnds, Results
  <2>10. CASE FindOffset
    <3>1. PassEnds("OK")
      BY <2>10 DEF FindOffset
    <3> QED
      BY <2>8, <2>10, <3>1 DEF FindOffset, PassEnds, Results
  <2>11. ASSUME NEW s \in Results, BruteForce(s) PROVE TypeOK'
    BY <2>8, <2>11 DEF BruteForce, PassEnds, Results
  <2>12. ASSUME NEW s \in Results, Carve(s) PROVE TypeOK'
    <3>1. offset' \in BOOLEAN
      BY <2>12 DEF Carve
    <3> QED
      BY <2>8, <2>12, <3>1 DEF Carve, PassEnds, Results
  <2>13. CASE Checkpoint
    BY <2>13, SessionSaveType DEF Checkpoint, Statuses
  <2>14. CASE SaveAfterPass
    BY <2>14, SessionSaveType DEF SaveAfterPass, Statuses
  <2>15. CASE GiveUp
    BY <2>15 DEF GiveUp, Proceed
  <2>16. CASE Stopped
    BY <2>16, SessionSaveType DEF Stopped, Proceed, Statuses
  <2>17. CASE NextPass
    <3>1. StatusInc(status) \in Statuses
      BY <2>17, StatusIncType DEF NextPass
    <3>2. session' \in Sessions
      BY <2>17 DEF NextPass, Sessions
    <3> QED
      BY <2>17, <3>1, <3>2 DEF NextPass, Proceed, Statuses
  <2>18. CASE Finish
    BY <2>5, <2>18 DEF Finish
  <2>19. CASE Kill
    <3>1. kills' \in 0..MaxKills
      BY <2>19, BoundsAssumption DEF Kill
    <3>2. session' \in Sessions
      BY <2>19 DEF Kill, Sessions
    <3> QED
      BY <2>5, <2>19, <3>1, <3>2 DEF Kill
  <2>20. CASE UNCHANGED vars
    BY <2>20 DEF vars
  <2> QED
    BY <2>1, <2>2, <2>3, <2>4, <2>5a, <2>6, <2>7, <2>9, <2>10, <2>11, <2>12,
       <2>13, <2>14, <2>15, <2>16, <2>17, <2>18, <2>19, <2>20
       DEF Next, Starting, Working, Results
<1> QED
  BY <1>1, <1>2, PTL DEF Spec

-----------------------------------------------------------------------------
(* isFinish                                                                *)

(* isFinish = 1 means that no pass runs and the search space is freed: the *)
(* thread sets it last and takes it back first.                            *)
THEOREM FinishedMeansIdle == Spec => []FinishedIsIdle
<1>1. Init => FinishedIsIdle
  BY DEF Init, FinishedIsIdle
<1>2. TypeOK /\ FinishedIsIdle /\ [Next]_vars => FinishedIsIdle'
  <2> SUFFICES ASSUME TypeOK, FinishedIsIdle, [Next]_vars
               PROVE  FinishedIsIdle'
    OBVIOUS
  <2> USE DEF FinishedIsIdle
  <2>1. CASE Starting
    BY <2>1 DEF Starting, Enter, ResetStop, OpenFails, NothingToDo,
                StartPhotorec
  <2>2. ASSUME NEW s, PassEnds(s) PROVE FinishedIsIdle'
    BY <2>2 DEF PassEnds
  <2>3. CASE Working
    BY <2>2, <2>3 DEF Working, Unformat, FindOffset, BruteForce, Carve,
                      SaveAfterPass, GiveUp, Stopped, NextPass, Finish
  <2>4. CASE Checkpoint \/ CallStart \/ StopRecover \/ Kill
    BY <2>4 DEF Checkpoint, CallStart, StopRecover, Kill
  <2>5. CASE UNCHANGED vars
    BY <2>5 DEF vars
  <2> QED
    BY <2>1, <2>3, <2>4, <2>5 DEF Next
<1> QED
  BY <1>1, <1>2, TypeCorrect, PTL DEF Spec

-----------------------------------------------------------------------------
(* The session file                                                        *)

(* The inductive invariant: what is known between the end of a pass and    *)
(* the end of the run.  FIND_OFFSET never fails, so the one status whose   *)
(* session has no offset is never the one that failed.                     *)
PassIsRecorded ==
    worker \in {"save", "decide"} =>
        /\ ran # <<>>
        /\ Last(ran) = [status |-> status, result |-> indStop]

FailureIsResumable ==
    worker \in {"save", "decide"} /\ indStop # "OK" =>
        /\ status # "FIND_OFFSET"
        /\ status \in Carving /\ indStop # "STOP" => offset

DecideIsSaved ==
    worker = "decide" /\ saved => session = SessionOf(status, offset)

OpeningIsFresh == worker = "opening" => ran = <<>>

OffsetAtEnd ==
    /\ Ended /\ Last(ran).status \in Carving
    /\ Last(ran).result \in {"EACCES", "ENOSPC"}
    => offset

SessionInv ==
    /\ PassIsRecorded /\ FailureIsResumable /\ DecideIsSaved
    /\ OpeningIsFresh /\ OffsetAtEnd /\ SessionMatchesRun

(* session_save writes the status and the offset it is given.              *)
LEMMA SavedSession ==
    ASSUME NEW o, SessionSave(o), status # "QUIT", saved'
    PROVE  session' = SessionOf(status, o)
  BY DEF SessionSave

(* A saved session of a pass other than FIND_OFFSET keeps the offset.      *)
LEMMA SessionKeepsOffset ==
    ASSUME NEW s, NEW o \in BOOLEAN, s # "FIND_OFFSET"
    PROVE  SessionOf(s, o) = [state |-> "saved", status |-> s, offset |-> o]
<1>1. (o /\ s # "FIND_OFFSET") = o
  OBVIOUS
<1> QED
  BY <1>1 DEF SessionOf

(* The last element of a sequence that has just grown.                     *)
LEMMA LastAppended ==
    ASSUME NEW S, NEW q \in Seq(S), NEW e \in S
    PROVE  Append(q, e) # <<>> /\ Last(Append(q, e)) = e
  BY DEF Last

(* What a step that leaves the pass, its result and the session alone does *)
(* to the invariant: nothing.                                              *)
LEMMA SessionInvFrame ==
    ASSUME SessionInv,
           UNCHANGED << worker, status, indStop, offset, saved, session, ran >>
    PROVE  SessionInv'
  BY DEF SessionInv, PassIsRecorded, FailureIsResumable, DecideIsSaved,
         OpeningIsFresh, OffsetAtEnd, SessionMatchesRun, Ended, Failed, Last,
         SessionOf

(* Away from the end of a pass and from the end of a run the invariant     *)
(* says nothing.                                                           *)
LEMMA SessionInvElsewhere ==
    ASSUME worker' \notin {"save", "decide"},
           worker' = "opening" => ran' = <<>>,
           worker' = "finish" => ran' = <<>>
    PROVE  SessionInv'
  BY DEF SessionInv, PassIsRecorded, FailureIsResumable, DecideIsSaved,
         OpeningIsFresh, OffsetAtEnd, SessionMatchesRun, Ended

(* The end of a pass.                                                      *)
LEMMA SessionInvPassEnds ==
    ASSUME TypeOK, NEW s \in Results, PassEnds(s),
           s # "OK" => status # "FIND_OFFSET",
           s \notin {"OK", "STOP"} /\ status \in Carving => offset'
    PROVE  SessionInv'
<1>1. status \in Passes /\ ran \in Seq(PassRecords)
  BY DEF PassEnds, TypeOK
<1>2. [status |-> status, result |-> s] \in PassRecords
  BY <1>1 DEF PassRecords, Results
<1>3. ran' # <<>> /\ Last(ran') = [status |-> status', result |-> indStop']
  BY <1>1, <1>2, LastAppended DEF PassEnds
<1>4. PassIsRecorded'
  BY <1>3 DEF PassIsRecorded
<1>5. FailureIsResumable'
  BY DEF FailureIsResumable, PassEnds
<1>6. worker' = "save"
  BY DEF PassEnds
<1> QED
  BY <1>4, <1>5, <1>6 DEF SessionInv, DecideIsSaved, OpeningIsFresh,
                          OffsetAtEnd, SessionMatchesRun, Ended

(* The end of a run that failed.                                           *)
LEMMA SessionInvFailed ==
    ASSUME TypeOK, SessionInv, worker = "decide", indStop # "OK",
           worker' = "finish", UNCHANGED << ran, offset >>,
           saved' => session' = SessionOf(status, offset)
    PROVE  SessionInv'
<1>1. /\ ran' # <<>> /\ Last(ran') = [status |-> status, result |-> indStop]
      /\ status # "FIND_OFFSET"
      /\ status \in Carving /\ indStop # "STOP" => offset'
  BY DEF SessionInv, PassIsRecorded, FailureIsResumable, Last
<1>2. SessionOf(status, offset) = [state |-> "saved", status |-> status,
                                   offset |-> offset']
  BY <1>1, SessionKeepsOffset DEF TypeOK
<1>3. SessionMatchesRun'
  BY <1>1, <1>2 DEF SessionMatchesRun, Failed
<1>4. OffsetAtEnd'
  BY <1>1 DEF OffsetAtEnd
<1> QED
  BY <1>3, <1>4 DEF SessionInv, PassIsRecorded, FailureIsResumable,
                    DecideIsSaved, OpeningIsFresh

(* The inductive invariant of photorec() and session_save.                 *)
THEOREM SessionInvariant == Spec => []SessionInv
<1>1. Init => SessionInv
  BY DEF Init, SessionInv, PassIsRecorded, FailureIsResumable, DecideIsSaved,
         OpeningIsFresh, OffsetAtEnd, SessionMatchesRun, Ended
<1>2. TypeOK /\ SessionInv /\ [Next]_vars => SessionInv'
  <2> SUFFICES ASSUME TypeOK, SessionInv, [Next]_vars PROVE SessionInv'
    OBVIOUS
  <2>1. CASE Starting
    <3>1. CASE NothingToDo
      BY <3>1, SessionInvElsewhere DEF NothingToDo, SessionInv, OpeningIsFresh
    <3>2. CASE Enter \/ ResetStop \/ OpenFails \/ StartPhotorec
      BY <3>2, SessionInvElsewhere DEF Enter, ResetStop, OpenFails,
                                       StartPhotorec
    <3> QED
      BY <2>1, <3>1, <3>2 DEF Starting
  <2>2. CASE Unformat \/ FindOffset
    <3>1. PassEnds("OK")
      BY <2>2 DEF Unformat, FindOffset
    <3> QED
      BY <3>1, SessionInvPassEnds DEF Results
  <2>3. ASSUME NEW s \in Results, BruteForce(s) PROVE SessionInv'
    <3>1. PassEnds(s) /\ status # "FIND_OFFSET" /\ status \notin Carving
      BY <2>3 DEF BruteForce, BruteForcing, Carving
    <3> QED
      BY <3>1, SessionInvPassEnds
  <2>4. ASSUME NEW s \in Results, Carve(s) PROVE SessionInv'
    <3>1. PassEnds(s) /\ status # "FIND_OFFSET"
      BY <2>4 DEF Carve, Carving
    <3>2. s \notin {"OK", "STOP"} => offset'
      BY <2>4 DEF Carve, Results
    <3> QED
      BY <3>1, <3>2, SessionInvPassEnds
  <2>5. CASE SaveAfterPass
    <3>1. worker = "save" /\ worker' = "decide" /\ status # "QUIT"
      BY <2>5 DEF SaveAfterPass, TypeOK
    <3>2. saved' => session' = SessionOf(status, offset)
      BY <2>5, <3>1, SavedSession DEF SaveAfterPass
    <3>3. DecideIsSaved'
      BY <2>5, <3>2 DEF SaveAfterPass, DecideIsSaved, SessionOf
    <3>4. PassIsRecorded' /\ FailureIsResumable'
      BY <2>5, <3>1 DEF SaveAfterPass, SessionInv, PassIsRecorded,
                        FailureIsResumable, Last
    <3> QED
      BY <3>1, <3>3, <3>4 DEF SessionInv, OpeningIsFresh, OffsetAtEnd,
                              SessionMatchesRun, Ended
  <2>6. CASE GiveUp
    BY <2>6, SessionInvFailed DEF GiveUp, Proceed, SessionInv, DecideIsSaved
  <2>7. CASE Stopped
    <3>1. worker = "decide" /\ status # "QUIT"
      BY <2>7 DEF Stopped, TypeOK
    <3>2. saved' => session' = SessionOf(status, offset)
      BY <2>7, <3>1, SavedSession DEF Stopped
    <3> QED
      BY <2>7, <3>2, SessionInvFailed DEF Stopped, Proceed
  <2>8. CASE NextPass
    <3>1. CASE StatusInc(status) = "QUIT"
      <4>1. /\ worker' = "finish" /\ session' = NoFile
            /\ ran' # <<>> /\ Last(ran').result = "OK"
        BY <2>8, <3>1 DEF NextPass, Proceed, SessionInv, PassIsRecorded, Last
      <4> QED
        BY <4>1 DEF SessionInv, PassIsRecorded, FailureIsResumable,
                    DecideIsSaved, OpeningIsFresh, OffsetAtEnd,
                    SessionMatchesRun, Failed
    <3>2. CASE StatusInc(status) # "QUIT"
      BY <2>8, <3>2, SessionInvElsewhere DEF NextPass, Proceed
    <3> QED
      BY <3>1, <3>2
  <2>9. CASE Finish \/ Checkpoint \/ CallStart \/ Kill
    BY <2>9, SessionInvElsewhere DEF Finish, Checkpoint, CallStart, Kill
  <2>10. CASE StopRecover \/ UNCHANGED vars
    BY <2>10, SessionInvFrame DEF StopRecover, vars
  <2> QED
    BY <2>1, <2>2, <2>3, <2>4, <2>5, <2>6, <2>7, <2>8, <2>9, <2>10
       DEF Next, Working, Results
<1> QED
  BY <1>1, <1>2, TypeCorrect, PTL DEF Spec

(* When photorec() is over, RecoveRx.ses is gone after a run that ended    *)
(* well; after any other, if it could be saved, it holds the pass that     *)
(* failed and how far it had come.                                         *)
THEOREM SessionCorrect == Spec => []SessionMatchesRun
<1>1. SessionInv => SessionMatchesRun
  BY DEF SessionInv
<1> QED
  BY <1>1, SessionInvariant, PTL

(* A carving pass that gave up because a file could not be created or      *)
(* written leaves a session that names the place to go on from.            *)
THEOREM ErrorIsResumable == Spec => []ErrorKeepsOffset
<1>1. SessionInv => ErrorKeepsOffset
  BY DEF SessionInv, OffsetAtEnd, SessionMatchesRun, ErrorKeepsOffset, Ended,
         Failed
<1> QED
  BY <1>1, SessionInvariant, PTL

-----------------------------------------------------------------------------
(* The plan                                                                *)

(* The passes of t follow each other as status_inc leads from one to the   *)
(* next, and the last of them is the last there is.                        *)
After(t) == IF t = <<>> THEN "QUIT" ELSE t[1]

Chained(t) ==
    /\ t \in Seq(Passes)
    /\ \A i \in 1..Len(t) :
          StatusInc(t[i]) = IF i = Len(t) THEN "QUIT" ELSE t[i + 1]

(* A pass in front of the passes that follow it.                           *)
LEMMA ChainedCons ==
    ASSUME NEW t, Chained(t), NEW x \in Passes, StatusInc(x) = After(t)
    PROVE  /\ Chained(<< x >> \o t)
           /\ << x >> \o t # <<>> /\ (<< x >> \o t)[1] = x
<1> DEFINE u == << x >> \o t
<1>1. t \in Seq(Passes) /\ u \in Seq(Passes)
  BY DEF Chained
<1>2. /\ Len(u) = Len(t) + 1 /\ u[1] = x
      /\ \A i \in 1..Len(t) : u[i + 1] = t[i]
  BY <1>1
<1>3. u # <<>>
  BY <1>1, <1>2
<1>4. ASSUME NEW i \in 1..Len(u)
      PROVE  StatusInc(u[i]) = IF i = Len(u) THEN "QUIT" ELSE u[i + 1]
  <2>1. CASE i = 1
    <3>1. t = <<>> <=> Len(t) = 0
      BY <1>1
    <3>2. StatusInc(u[i]) = After(t)
      BY <1>2, <2>1
    <3>3. CASE t = <<>>
      BY <1>2, <2>1, <3>1, <3>2, <3>3 DEF After
    <3>4. CASE t # <<>>
      <4>1. Len(t) \in Nat /\ Len(t) > 0
        BY <1>1, <3>1, <3>4
      <4>2. u[1 + 1] = t[1]
        BY <1>2, <4>1
      <4>3. i # Len(u)
        BY <1>2, <2>1, <4>1
      <4> QED
        BY <2>1, <3>2, <3>4, <4>2, <4>3 DEF After
    <3> QED
      BY <3>3, <3>4
  <2>2. CASE i # 1
    <3> DEFINE j == i - 1
    <3>1. j \in 1..Len(t) /\ i = j + 1 /\ (i = Len(u) <=> j = Len(t))
      BY <1>1, <1>2, <2>2
    <3>2. u[i] = t[j]
      BY <1>2, <3>1
    <3>3. StatusInc(t[j]) = IF j = Len(t) THEN "QUIT" ELSE t[j + 1]
      BY <3>1 DEF Chained
    <3>4. j # Len(t) => u[i + 1] = t[j + 1]
      <4>1. j # Len(t) => j + 1 \in 1..Len(t)
        BY <1>1, <3>1
      <4> QED
        BY <1>2, <3>1, <4>1
    <3> QED
      BY <3>1, <3>2, <3>3, <3>4
  <2> QED
    BY <2>1, <2>2
<1> QED
  BY <1>1, <1>2, <1>3, <1>4 DEF Chained

(* Where a condition begins on its ladder.                                 *)
LEMMA FirstRungFound ==
    ASSUME NEW c \in Conditions
    PROVE  FirstRung(c) \in 1..5 /\ Ladder(c)[FirstRung(c)] = c.first
<1>1. c.first \in Passes
  BY DEF Conditions
<1>2. \E i \in 1..5 : Ladder(c)[i] = c.first
  <2>1. CASE c.first = "UNFORMAT"
    <3>1. Ladder(c)[1] = c.first
      BY <2>1 DEF Ladder
    <3> QED
      BY <3>1
  <2>2. CASE c.first = "FIND_OFFSET"
    <3>1. Ladder(c)[2] = c.first
      BY <2>2 DEF Ladder
    <3> QED
      BY <3>1
  <2>3. CASE c.first \in {"EXT2_ON", "EXT2_OFF"}
    <3>1. Ladder(c)[3] = c.first
      BY <2>3 DEF Ladder
    <3> QED
      BY <3>1
  <2>4. CASE c.first \in {"EXT2_ON_BF", "EXT2_OFF_BF"}
    <3>1. Ladder(c)[4] = c.first
      BY <2>4 DEF Ladder
    <3> QED
      BY <3>1
  <2>5. CASE c.first \in {"EXT2_ON_SAVE_EVERYTHING", "EXT2_OFF_SAVE_EVERYTHING"}
    <3>1. Ladder(c)[5] = c.first
      BY <2>5 DEF Ladder
    <3> QED
      BY <3>1
  <2> QED
    BY <1>1, <2>1, <2>2, <2>3, <2>4, <2>5 DEF Passes, Carving, BruteForcing
<1> QED
  BY <1>2 DEF FirstRung

(* status_inc climbs the ladder: the rung after a rung that is wanted.     *)
LEMMA NextRung ==
    ASSUME condition \in Conditions
    PROVE  /\ \A i \in 1..5 : Ladder(condition)[i] \in Passes
           /\ StatusInc(Ladder(condition)[1]) = Ladder(condition)[2]
           /\ Wanted(condition, 2) =>
                 StatusInc(Ladder(condition)[2]) = Ladder(condition)[3]
           /\ StatusInc(Ladder(condition)[3]) =
                 IF condition.paranoid = 2 THEN Ladder(condition)[4]
                 ELSE IF condition.paranoid = 1 /\ condition.keepCorrupted
                 THEN Ladder(condition)[5] ELSE "QUIT"
           /\ StatusInc(Ladder(condition)[4]) =
                 IF condition.keepCorrupted THEN Ladder(condition)[5]
                 ELSE "QUIT"
           /\ StatusInc(Ladder(condition)[5]) = "QUIT"
<1> DEFINE c == condition
<1>1. /\ c.paranoid \in 0..2 /\ c.keepCorrupted \in BOOLEAN
      /\ c.ext2 \in BOOLEAN /\ c.first \in Passes
  BY DEF Conditions
<1>2. Wanted(c, 2) => c.first \in {"UNFORMAT", "FIND_OFFSET"}
  <2> SUFFICES ASSUME Wanted(c, 2)
               PROVE  c.first \in {"UNFORMAT", "FIND_OFFSET"}
    OBVIOUS
  <2>1. FirstRung(c) \in {1, 2} /\ Ladder(c)[FirstRung(c)] = c.first
    BY FirstRungFound DEF Wanted
  <2> QED
    BY <2>1 DEF Ladder
<1>3. CASE Ladder(c) = << "UNFORMAT", "FIND_OFFSET", "EXT2_ON", "EXT2_ON_BF",
                          "EXT2_ON_SAVE_EVERYTHING" >>
  <2>1. c.first \in {"UNFORMAT", "FIND_OFFSET"} => c.ext2
    BY <1>3 DEF Ladder
  <2> QED
    BY <1>1, <1>2, <1>3, <2>1 DEF StatusInc, AfterCarving, SaveEverything,
       Passes, Carving, BruteForcing
<1>4. CASE Ladder(c) = << "UNFORMAT", "FIND_OFFSET", "EXT2_OFF",
                          "EXT2_OFF_BF", "EXT2_OFF_SAVE_EVERYTHING" >>
  <2>1. c.first \in {"UNFORMAT", "FIND_OFFSET"} => ~c.ext2
    BY <1>4 DEF Ladder
  <2> QED
    BY <1>1, <1>2, <1>4, <2>1 DEF StatusInc, AfterCarving, SaveEverything,
       Passes, Carving, BruteForcing
<1> QED
  BY <1>3, <1>4 DEF Ladder

(* A rung before the passes that follow it.                                *)
LEMMA RungChained ==
    ASSUME condition \in Conditions, NEW i \in 1..5, NEW t, Chained(t),
           Wanted(condition, i) =>
              StatusInc(Ladder(condition)[i]) = After(t)
    PROVE  /\ Chained(Rung(condition, i) \o t)
           /\ After(Rung(condition, i) \o t) =
                 IF Wanted(condition, i) THEN Ladder(condition)[i]
                 ELSE After(t)
<1>1. CASE Wanted(condition, i)
  <2>1. Rung(condition, i) = << Ladder(condition)[i] >>
    BY <1>1 DEF Rung
  <2>2. Ladder(condition)[i] \in Passes
    BY NextRung
  <2> QED
    BY <1>1, <2>1, <2>2, ChainedCons DEF After
<1>2. CASE ~Wanted(condition, i)
  <2>1. Rung(condition, i) = <<>> /\ t \in Seq(Passes)
    BY <1>2 DEF Rung, Chained
  <2>2. <<>> \o t = t
    BY <2>1
  <2> QED
    BY <1>2, <2>1, <2>2
<1> QED
  BY <1>1, <1>2

(* A plan is what status_inc does from the first pass on: it begins with   *)
(* the pass asked for, and ends where status_inc ends.                     *)
LEMMA PlanIsChained ==
    ASSUME condition \in Conditions
    PROVE  /\ Chained(Plan(condition))
           /\ Plan(condition) # <<>>
           /\ Plan(condition)[1] = condition.first
<1> DEFINE c == condition
           f == FirstRung(c)
           none == <<>>
           r5 == Rung(c, 5) \o none
           r4 == Rung(c, 4) \o r5
           r3 == Rung(c, 3) \o r4
           r2 == Rung(c, 2) \o r3
           r1 == Rung(c, 1) \o r2
<1>1. /\ c.paranoid \in 0..2 /\ c.keepCorrupted \in BOOLEAN
      /\ f \in 1..5 /\ Ladder(c)[f] = c.first
  BY FirstRungFound DEF Conditions
<1>2. /\ Wanted(c, 1) <=> f = 1
      /\ Wanted(c, 2) <=> f =< 2
      /\ Wanted(c, 3) <=> f =< 3
      /\ Wanted(c, 4) <=> f = 4 \/ (f < 4 /\ c.paranoid = 2)
      /\ Wanted(c, 5) <=> \/ f = 5
                          \/ c.keepCorrupted /\ (c.paranoid > 0 \/ f = 4)
  BY <1>1 DEF Wanted
<1>3. Chained(none) /\ After(none) = "QUIT"
  BY DEF Chained, After
<1> HIDE DEF none
<1>4. /\ Chained(r5)
      /\ After(r5) = IF Wanted(c, 5) THEN Ladder(c)[5] ELSE "QUIT"
  <2>1. Wanted(c, 5) => StatusInc(Ladder(c)[5]) = After(none)
    BY <1>3, NextRung
  <2> QED
    BY <1>3, <2>1, RungChained
<1> HIDE DEF r5
<1>5. /\ Chained(r4)
      /\ After(r4) = IF Wanted(c, 4) THEN Ladder(c)[4] ELSE After(r5)
  <2>1. Wanted(c, 4) => StatusInc(Ladder(c)[4]) = After(r5)
    BY <1>1, <1>2, <1>4, NextRung
  <2> QED
    BY <1>4, <2>1, RungChained
<1> HIDE DEF r4
<1>6. /\ Chained(r3)
      /\ After(r3) = IF Wanted(c, 3) THEN Ladder(c)[3] ELSE After(r4)
  <2>1. Wanted(c, 3) => StatusInc(Ladder(c)[3]) = After(r4)
    BY <1>1, <1>2, <1>4, <1>5, NextRung
  <2> QED
    BY <1>5, <2>1, RungChained
<1> HIDE DEF r3
<1>7. /\ Chained(r2)
      /\ After(r2) = IF Wanted(c, 2) THEN Ladder(c)[2] ELSE After(r3)
  <2>1. Wanted(c, 2) => StatusInc(Ladder(c)[2]) = After(r3)
    BY <1>1, <1>2, <1>6, NextRung
  <2> QED
    BY <1>6, <2>1, RungChained
<1> HIDE DEF r2
<1>8. /\ Chained(r1)
      /\ After(r1) = IF Wanted(c, 1) THEN Ladder(c)[1] ELSE After(r2)
  <2>1. Wanted(c, 1) => StatusInc(Ladder(c)[1]) = After(r2)
    BY <1>1, <1>2, <1>7, NextRung
  <2> QED
    BY <1>7, <2>1, RungChained
<1>9. Plan(c) = r1
  <2>1. Rung(c, 5) \o none = Rung(c, 5)
    BY DEF Rung, none
  <2> QED
    BY <2>1 DEF Plan, none, r2, r3, r4, r5
<1> HIDE DEF r1
<1>10. After(r1) = c.first
  BY <1>1, <1>2, <1>4, <1>5, <1>6, <1>7, <1>8
<1>11. c.first # "QUIT"
  BY DEF Conditions, Passes, Carving, BruteForcing
<1> QED
  BY <1>8, <1>9, <1>10, <1>11 DEF After

(* The inductive invariant: the passes that have ended are the first ones  *)
(* of the plan, the one that runs is the next, and only the last may have  *)
(* failed.                                                                 *)
Busy == {"pass", "save", "decide", "finish"}

Unbegun == worker \notin Busy => ran = <<>>

OnPlan ==
    worker \in Busy =>
        /\ Len(ran) =< Len(Plan(condition))
        /\ \A i \in 1..Len(ran) : ran[i].status = Plan(condition)[i]

NextOnPlan ==
    worker = "pass" =>
        /\ Len(ran) < Len(Plan(condition))
        /\ status = Plan(condition)[Len(ran) + 1]
        /\ \A i \in 1..Len(ran) : ran[i].result = "OK"

LastMayFail == \A i \in 1..Len(ran) : i < Len(ran) => ran[i].result = "OK"

WholePlan == Ended => (Failed \/ Len(ran) = Len(Plan(condition)))

PlanInv == Unbegun /\ OnPlan /\ NextOnPlan /\ LastMayFail /\ WholePlan

(* After a stop the thread sees the flag, and no carving pass that ends    *)
(* well leaves anything to carve.                                          *)
StopIsSet == asked >= 0 /\ worker \in Busy \cup {"opening"} => stop

CarvedToTheEnd ==
    asked >= 0 =>
        \A i \in 1..Len(ran) :
           /\ i > asked /\ ran[i].status \in Carving /\ ran[i].result = "OK"
           => ~remaining

StopInv == StopIsSet /\ CarvedToTheEnd

(* The passes that have ended and the one that ends now.                   *)
LEMMA PassAppended ==
    ASSUME TypeOK, NEW s \in Results, PassEnds(s)
    PROVE  /\ ran' \in Seq(PassRecords) /\ Len(ran) \in Nat
           /\ Len(ran') = Len(ran) + 1
           /\ \A i \in 1..Len(ran) : ran'[i] = ran[i]
           /\ ran'[Len(ran')].status = status
           /\ ran'[Len(ran')].result = s
<1> DEFINE e == [status |-> status, result |-> s]
<1>1. ran \in Seq(PassRecords) /\ status \in Passes
  BY DEF PassEnds, TypeOK
<1>2. e \in PassRecords /\ e.status = status /\ e.result = s
  BY <1>1 DEF PassRecords, Results
<1>3. ran' = Append(ran, e)
  BY DEF PassEnds
<1> HIDE DEF e
<1> QED
  BY <1>1, <1>2, <1>3

(* What is neither the beginning nor the end of a pass or of a run does    *)
(* not change where the run is in its plan.                                *)
LEMMA PlanFrame ==
    ASSUME PlanInv, UNCHANGED << worker, condition, status, ran >>
    PROVE  PlanInv'
  BY DEF PlanInv, Unbegun, OnPlan, NextOnPlan, LastMayFail, WholePlan, Ended,
         Failed, Last

(* Before a run begins and after it has ended nothing is recorded.         *)
LEMMA PlanNoPass ==
    ASSUME worker' \notin Busy, ran' = <<>>
    PROVE  PlanInv'
<1>1. Len(ran') = 0
  OBVIOUS
<1>2. worker' # "pass" /\ worker' # "finish"
  BY DEF Busy
<1> QED
  BY <1>1, <1>2 DEF PlanInv, Unbegun, OnPlan, NextOnPlan, LastMayFail,
                    WholePlan, Ended

(* A pass ends, well or not: it was the next of the plan.                  *)
LEMMA PlanPassEnds ==
    ASSUME TypeOK, PlanInv, NEW s \in Results, PassEnds(s)
    PROVE  PlanInv'
<1>1. /\ worker = "pass" /\ worker' = "save" /\ condition' = condition
  BY DEF PassEnds
<1>2. /\ Len(ran) \in Nat /\ Len(ran') = Len(ran) + 1
      /\ \A i \in 1..Len(ran) : ran'[i] = ran[i]
      /\ ran'[Len(ran')].status = status
  BY PassAppended
<1>3. /\ Len(ran) < Len(Plan(condition))
      /\ status = Plan(condition)[Len(ran) + 1]
      /\ \A i \in 1..Len(ran) : /\ ran[i].result = "OK"
                                /\ ran[i].status = Plan(condition)[i]
  BY <1>1 DEF PlanInv, NextOnPlan, OnPlan, Busy
<1>4. Len(Plan(condition)) \in Nat
  BY PlanIsChained DEF TypeOK, Chained
<1>5. Plan(condition') = Plan(condition)
  BY <1>1
<1>6. OnPlan'
  BY <1>2, <1>3, <1>4, <1>5 DEF OnPlan
<1>7. LastMayFail'
  BY <1>2, <1>3 DEF LastMayFail
<1>8. Unbegun' /\ NextOnPlan' /\ WholePlan'
  BY <1>1 DEF Unbegun, NextOnPlan, WholePlan, Ended, Busy
<1> QED
  BY <1>6, <1>7, <1>8 DEF PlanInv

(* A run keeps to its plan.                                                *)
LEMMA PlanInvariant == Spec => []PlanInv
<1>1. Init => PlanInv
  BY PlanNoPass DEF Init, PlanInv, Unbegun, OnPlan, NextOnPlan, LastMayFail,
                    WholePlan, Ended, Busy
<1>2. TypeOK /\ SessionInv /\ PlanInv /\ [Next]_vars => PlanInv'
  <2> SUFFICES ASSUME TypeOK, SessionInv, PlanInv, [Next]_vars
               PROVE  PlanInv'
    OBVIOUS
  <2>1. CASE CallStart \/ Enter
    <3>1. worker \notin Busy /\ worker' \notin Busy /\ ran' = ran
      BY <2>1 DEF CallStart, Enter, Busy
    <3> QED
      BY <3>1, PlanNoPass DEF PlanInv, Unbegun
  <2>2. CASE ResetStop \/ OpenFails \/ Finish \/ Kill
    <3>1. worker' \notin Busy /\ ran' = <<>>
      BY <2>2 DEF ResetStop, OpenFails, Finish, Kill, LocalsGone, Busy
    <3> QED
      BY <3>1, PlanNoPass
  <2>3. CASE NothingToDo
    <3>1. worker' = "finish" /\ ran' = <<>>
      BY <2>3 DEF NothingToDo, PlanInv, Unbegun, Busy
    <3>2. Len(ran') = 0 /\ condition \in Conditions /\ condition' = condition
      BY <2>3, <3>1 DEF NothingToDo, TypeOK
    <3>3. Len(Plan(condition)) \in Nat
      BY <3>2, PlanIsChained DEF Chained
    <3> QED
      BY <3>1, <3>2, <3>3 DEF PlanInv, Unbegun, OnPlan, NextOnPlan,
                              LastMayFail, WholePlan, Ended, Busy
  <2>4. CASE StartPhotorec
    <3>1. worker' = "pass" /\ ran' = <<>> /\ status' = condition.first
      BY <2>4 DEF StartPhotorec, PlanInv, Unbegun, Busy
    <3>2. Len(ran') = 0 /\ condition \in Conditions /\ condition' = condition
      BY <2>4, <3>1 DEF StartPhotorec, TypeOK
    <3>3. /\ Len(Plan(condition)) \in Nat /\ Len(Plan(condition)) > 0
          /\ Plan(condition)[1] = condition.first
      <4>1. /\ Plan(condition) \in Seq(Passes) /\ Plan(condition) # <<>>
            /\ Plan(condition)[1] = condition.first
        BY <3>2, PlanIsChained DEF Chained
      <4> QED
        BY <4>1
    <3> QED
      BY <3>1, <3>2, <3>3 DEF PlanInv, Unbegun, OnPlan, NextOnPlan,
                              LastMayFail, WholePlan, Ended, Busy
  <2>5. CASE Unformat \/ FindOffset
    BY <2>5, PlanPassEnds DEF Unformat, FindOffset, Results
  <2>6. ASSUME NEW s \in Results, BruteForce(s) \/ Carve(s) PROVE PlanInv'
    BY <2>6, PlanPassEnds DEF BruteForce, Carve
  <2>7. CASE SaveAfterPass
    <3>1. /\ worker = "save" /\ worker' = "decide"
          /\ UNCHANGED << ran, condition >>
      BY <2>7 DEF SaveAfterPass
    <3> QED
      BY <3>1 DEF PlanInv, Unbegun, OnPlan, NextOnPlan, LastMayFail,
                  WholePlan, Ended, Busy
  <2>8. CASE GiveUp \/ Stopped
    <3>1. /\ worker = "decide" /\ worker' = "finish" /\ indStop # "OK"
          /\ UNCHANGED << ran, condition >>
      BY <2>8 DEF GiveUp, Stopped, Proceed
    <3>2. Last(ran) = [status |-> status, result |-> indStop]
      BY <3>1 DEF SessionInv, PassIsRecorded
    <3>3. WholePlan'
      BY <3>1, <3>2 DEF WholePlan, Failed, Last
    <3> QED
      BY <3>1, <3>3 DEF PlanInv, Unbegun, OnPlan, NextOnPlan, LastMayFail,
                        Busy
  <2>9. CASE NextPass
    <3> DEFINE plan == Plan(condition)
               n == Len(ran)
    <3>1. /\ worker = "decide" /\ indStop = "OK"
          /\ UNCHANGED << ran, condition >>
          /\ status' = StatusInc(status)
          /\ worker' = IF StatusInc(status) = "QUIT" THEN "finish" ELSE "pass"
      BY <2>9 DEF NextPass, Proceed
    <3>2. /\ ran \in Seq(PassRecords) /\ ran # <<>> /\ n \in 1..Len(plan)
          /\ ran[n].status = status /\ ran[n].result = "OK"
      <4>1. /\ ran \in Seq(PassRecords) /\ ran # <<>>
            /\ Last(ran) = [status |-> status, result |-> indStop]
        BY <3>1 DEF TypeOK, SessionInv, PassIsRecorded
      <4>2. n \in Nat \ {0} /\ n =< Len(plan)
        BY <3>1, <4>1 DEF PlanInv, OnPlan, Busy
      <4>3. Len(plan) \in Nat
        BY PlanIsChained DEF TypeOK, Chained
      <4> QED
        BY <3>1, <4>1, <4>2, <4>3 DEF Last
    <3>3. /\ \A i \in 1..n : ran[i].status = plan[i]
          /\ \A i \in 1..n : ran[i].result = "OK"
      BY <3>1, <3>2 DEF PlanInv, OnPlan, LastMayFail, Busy
    <3>4. StatusInc(status) = IF n = Len(plan) THEN "QUIT" ELSE plan[n + 1]
      <4>1. status = plan[n] /\ n \in 1..Len(plan)
        BY <3>2, <3>3
      <4> QED
        BY <4>1, PlanIsChained DEF TypeOK, Chained
    <3>5. \A i \in 1..Len(plan) : plan[i] # "QUIT"
      <4>1. plan \in Seq(Passes) /\ "QUIT" \notin Passes
        BY PlanIsChained DEF TypeOK, Chained, Passes, Carving, BruteForcing
      <4> QED
        BY <4>1
    <3>6. Len(plan) \in Nat
      BY PlanIsChained DEF TypeOK, Chained
    <3> HIDE DEF plan
    <3>7. CASE n = Len(plan)
      <4>1. worker' = "finish"
        BY <3>1, <3>4, <3>7
      <4> QED
        BY <3>1, <3>2, <3>3, <3>7, <4>1
           DEF plan, PlanInv, Unbegun, OnPlan, NextOnPlan, LastMayFail,
               WholePlan, Busy
    <3>8. CASE n # Len(plan)
      <4>1. n < Len(plan) /\ n + 1 \in 1..Len(plan)
        BY <3>2, <3>6, <3>8
      <4>2. worker' = "pass" /\ status' = plan[n + 1]
        BY <3>1, <3>4, <3>5, <3>8, <4>1
      <4> QED
        BY <3>1, <3>2, <3>3, <4>1, <4>2
           DEF plan, PlanInv, Unbegun, OnPlan, NextOnPlan, LastMayFail,
               WholePlan, Ended, Busy
    <3> QED
      BY <3>7, <3>8
  <2>10. CASE Checkpoint \/ StopRecover \/ UNCHANGED vars
    BY <2>10, PlanFrame DEF Checkpoint, StopRecover, vars
  <2> QED
    BY <2>1, <2>2, <2>3, <2>4, <2>5, <2>6, <2>7, <2>8, <2>9, <2>10
       DEF Next, Starting, Working, Results
<1> QED
  BY <1>1, <1>2, TypeCorrect, SessionInvariant, PTL DEF Spec

(* The passes of a run are a prefix of those its condition asks for, in    *)
(* their order, all but the last well ended; a run that did not fail has   *)
(* done them all.                                                          *)
THEOREM RunFollowsPlan == Spec => []PassesFollowPlan
<1>1. TypeOK /\ PlanInv => PassesFollowPlan
  <2> SUFFICES ASSUME TypeOK, PlanInv PROVE PassesFollowPlan
    OBVIOUS
  <2> DEFINE done == [i \in DOMAIN ran |-> ran[i].status]
             plan == Plan(condition)
  <2>1. /\ ran \in Seq(PassRecords) /\ plan \in Seq(Passes)
    BY PlanIsChained DEF TypeOK, Chained
  <2>2. done \in Seq(Passes) /\ Len(done) = Len(ran)
    <3>1. /\ DOMAIN ran = 1..Len(ran) /\ Len(ran) \in Nat
          /\ \A i \in 1..Len(ran) : ran[i].status \in Passes
      <4>1. /\ DOMAIN ran = 1..Len(ran) /\ Len(ran) \in Nat
            /\ \A i \in 1..Len(ran) : ran[i] \in PassRecords
        BY <2>1
      <4> QED
        BY <4>1 DEF PassRecords
    <3>2. done = [i \in 1..Len(ran) |-> ran[i].status]
      BY <3>1
    <3>3. done \in [1..Len(ran) -> Passes]
      BY <3>1, <3>2
    <3> HIDE DEF done
    <3>4. done \in Seq(Passes)
      BY <3>1, <3>3
    <3> QED
      BY <3>1, <3>3, <3>4
  <2>3. ASSUME worker \in Busy PROVE IsPrefix(done, plan)
    <3>1. /\ Len(ran) =< Len(plan)
          /\ \A i \in 1..Len(ran) : done[i] = plan[i]
      BY <2>1, <2>3 DEF PlanInv, OnPlan
    <3> HIDE DEF done, plan
    <3>2. SubSeq(done, 1, Len(done)) = SubSeq(plan, 1, Len(done))
      BY <2>1, <2>2, <3>1
    <3> QED
      BY <2>2, <3>1, <3>2 DEF IsPrefix
  <2> QED
    BY <2>1, <2>3 DEF PlanInv, LastMayFail, WholePlan, PassesFollowPlan, Busy
<1> QED
  BY <1>1, PlanInvariant, TypeCorrect, PTL

-----------------------------------------------------------------------------
(* The stop                                                                *)

(* A pass ends after a stop: a carving pass that ends well has nothing     *)
(* left to carve.                                                          *)
LEMMA StopPassEnds ==
    ASSUME TypeOK, StopInv, NEW s \in Results, PassEnds(s),
           status \in Carving /\ s = "OK" => ~(stop /\ remaining)
    PROVE  StopInv'
<1>1. /\ worker = "pass" /\ remaining' \in {FALSE, remaining}
      /\ UNCHANGED << stop, asked >>
  BY DEF PassEnds
<1>2. /\ Len(ran) \in Nat /\ Len(ran') = Len(ran) + 1
      /\ \A i \in 1..Len(ran) : ran'[i] = ran[i]
      /\ ran'[Len(ran')].status = status /\ ran'[Len(ran')].result = s
  BY PassAppended
<1>3. asked >= 0 => stop
  BY <1>1 DEF StopInv, StopIsSet, Busy
<1>4. ASSUME asked >= 0, NEW i \in 1..Len(ran'), i > asked,
             ran'[i].status \in Carving, ran'[i].result = "OK"
      PROVE  ~remaining'
  <2>1. CASE i = Len(ran')
    BY <1>1, <1>2, <1>3, <1>4, <2>1
  <2>2. CASE i # Len(ran')
    <3>1. i \in 1..Len(ran) /\ ran'[i] = ran[i]
      BY <1>2, <2>2
    <3>2. ~remaining
      BY <1>4, <3>1 DEF StopInv, CarvedToTheEnd
    <3> QED
      BY <1>1, <3>2
  <2> QED
    BY <2>1, <2>2
<1> QED
  BY <1>1, <1>3, <1>4 DEF StopInv, StopIsSet, CarvedToTheEnd

(* From the stop on no carving pass ends as if it were complete.           *)
LEMMA StopInvariant == Spec => []StopInv
<1>1. Init => StopInv
  BY DEF Init, StopInv, StopIsSet, CarvedToTheEnd
<1>2. TypeOK /\ PlanInv /\ StopInv /\ [Next]_vars => StopInv'
  <2> SUFFICES ASSUME TypeOK, PlanInv, StopInv, [Next]_vars
               PROVE  StopInv'
    OBVIOUS
  <2>1. CASE CallStart \/ Enter
    <3>1. /\ worker' \notin Busy \cup {"opening"}
          /\ UNCHANGED << asked, ran, remaining >>
      BY <2>1 DEF CallStart, Enter, Busy
    <3> QED
      BY <3>1 DEF StopInv, StopIsSet, CarvedToTheEnd
  <2>2. CASE ResetStop \/ OpenFails \/ Finish \/ Kill
    <3>1. asked' = -1
      BY <2>2 DEF ResetStop, OpenFails, Finish, Kill, LocalsGone
    <3> QED
      BY <3>1 DEF StopInv, StopIsSet, CarvedToTheEnd
  <2>3. CASE NothingToDo
    BY <2>3 DEF NothingToDo, StopInv, StopIsSet, CarvedToTheEnd, Busy
  <2>4. CASE StartPhotorec
    <3>1. Len(ran') = 0
      BY <2>4 DEF StartPhotorec, PlanInv, Unbegun, Busy
    <3> QED
      BY <2>4, <3>1 DEF StartPhotorec, StopInv, StopIsSet, CarvedToTheEnd,
                        Busy
  <2>5. CASE Unformat \/ FindOffset
    BY <2>5, StopPassEnds DEF Unformat, FindOffset, Results, Carving
  <2>6. ASSUME NEW s \in Results, BruteForce(s) PROVE StopInv'
    BY <2>6, StopPassEnds DEF BruteForce, BruteForcing, Carving
  <2>7. ASSUME NEW s \in Results, Carve(s) PROVE StopInv'
    BY <2>7, StopPassEnds DEF Carve
  <2>8. CASE SaveAfterPass \/ GiveUp \/ Stopped \/ NextPass
    <3>1. /\ worker \in Busy
          /\ UNCHANGED << stop, asked, ran, remaining >>
      BY <2>8 DEF SaveAfterPass, GiveUp, Stopped, NextPass, Busy
    <3> QED
      BY <3>1 DEF StopInv, StopIsSet, CarvedToTheEnd
  <2>9. CASE StopRecover
    <3>1. stop' = TRUE /\ ran' = ran /\ asked' = Len(ran)
      BY <2>9 DEF StopRecover
    <3>2. Len(ran) \in Nat
      BY DEF TypeOK
    <3>3. \A i \in 1..Len(ran') : ~(i > asked')
      BY <3>1, <3>2
    <3>4. CarvedToTheEnd'
      BY <3>3 DEF CarvedToTheEnd
    <3>5. StopIsSet'
      BY <3>1 DEF StopIsSet
    <3> QED
      BY <3>4, <3>5 DEF StopInv
  <2>10. CASE Checkpoint \/ UNCHANGED vars
    <3>1. UNCHANGED << worker, stop, asked, ran, remaining >>
      BY <2>10 DEF Checkpoint, vars
    <3> QED
      BY <3>1 DEF StopInv, StopIsSet, CarvedToTheEnd
  <2> QED
    BY <2>1, <2>2, <2>3, <2>4, <2>5, <2>6, <2>7, <2>8, <2>9, <2>10
       DEF Next, Starting, Working, Results
<1> QED
  BY <1>1, <1>2, TypeCorrect, PlanInvariant, PTL DEF Spec

(* A stop that comes while there are blocks left and a carving pass ahead  *)
(* ends the run as one that failed, and its session stays: stopRecover is  *)
(* noticed, whichever pass it meets.                                       *)
THEOREM StopEndsTheRun == Spec => []StopIsNoticed
<1>1. TypeOK /\ SessionInv /\ PlanInv /\ StopInv => StopIsNoticed
  <2> SUFFICES ASSUME TypeOK, SessionInv, PlanInv, StopInv,
                      Ended, asked >= 0, remaining,
                      NEW i \in DOMAIN Plan(condition), i > asked,
                      Plan(condition)[i] \in Carving
               PROVE  Failed /\ (saved => session # NoFile)
    BY DEF StopIsNoticed
  <2>1. Failed
    <3> SUFFICES ASSUME ~Failed PROVE FALSE
      OBVIOUS
    <3>1. /\ worker \in Busy /\ Len(ran) = Len(Plan(condition))
          /\ ran \in Seq(PassRecords) /\ ran # <<>>
      BY DEF PlanInv, WholePlan, Ended, Busy, TypeOK
    <3>2. i \in 1..Len(ran) /\ ran[i].status = Plan(condition)[i]
      <4>1. Plan(condition) \in Seq(Passes)
        BY PlanIsChained DEF TypeOK, Chained
      <4> QED
        BY <3>1, <4>1 DEF PlanInv, OnPlan
    <3>3. ran[i].result = "OK"
      BY <3>1, <3>2 DEF PlanInv, LastMayFail, Failed, Last
    <3> QED
      BY <3>2, <3>3 DEF StopInv, CarvedToTheEnd
  <2>2. saved => session # NoFile
    BY <2>1 DEF SessionInv, SessionMatchesRun, NoFile
  <2> QED
    BY <2>1, <2>2
<1> QED
  BY <1>1, TypeCorrect, SessionInvariant, PlanInvariant, StopInvariant, PTL

=============================================================================
