------------------------------ MODULE PhotoRec ------------------------------
(***************************************************************************)
(* One recovery, seen from outside the passes: the exported functions of   *)
(* photodll.cpp, which a user interface calls from its own thread, and     *)
(* photorec() of phrecn.c, which runs the passes one after the other and   *)
(* keeps the session file RecoveRx.ses.                                    *)
(*                                                                         *)
(* A pass is one step with every result the code can give it: Carver is    *)
(* the detailed model of photorec_aux.  The search space is abstracted to  *)
(* `remaining`, whether it has a range left, and params->offset to whether *)
(* it is set.                                                              *)
(***************************************************************************)
EXTENDS Integers, Sequences, FiniteSets, SequencesExt

CONSTANTS
    MaxRuns,        \* bound: calls of startRevocer
    MaxKills        \* bound: times the process is killed

ASSUME BoundsAssumption == MaxRuns \in Nat \ {0} /\ MaxKills \in Nat

Carving == {"EXT2_ON", "EXT2_OFF", "EXT2_ON_SAVE_EVERYTHING",
            "EXT2_OFF_SAVE_EVERYTHING"}
BruteForcing == {"EXT2_ON_BF", "EXT2_OFF_BF"}
Passes == Carving \cup BruteForcing \cup {"UNFORMAT", "FIND_OFFSET"}

(* What the condition string of startRevocer decides: the options and the  *)
(* pass to start with.                                                     *)
Conditions == [paranoid : 0..2, keepCorrupted : BOOLEAN, ext2 : BOOLEAN,
               first : Passes]

Defaults == [paranoid |-> 1, keepCorrupted |-> FALSE, ext2 |-> FALSE,
             first |-> "FIND_OFFSET"]

NoFile == [state |-> "none"]
BrokenFile == [state |-> "broken"]

VARIABLES
    runs, kills,
    worker,     \* where the thread that runs startRevocer is
    stop,       \* mStopRecovrey
    isFinish,
    condition,
    status,     \* params->status
    offset,     \* params->offset # -1
    remaining,  \* the search space is not empty
    indStop,    \* ind_stop
    session,    \* RecoveRx.ses
    saved,      \* the last session_save returned 0
    ran,        \* ghost: the passes of this run and how each ended
    asked       \* ghost: the passes that had ended when stop was set, or -1

vars == << runs, kills, worker, stop, isFinish, condition, status, offset,
           remaining, indStop, session, saved, ran, asked >>

Init ==
    /\ runs = 0 /\ kills = 0 /\ worker = "idle"
    /\ stop = FALSE /\ isFinish = FALSE
    /\ condition = Defaults
    /\ status = "QUIT" /\ offset = FALSE /\ remaining = FALSE
    /\ indStop = "OK" /\ session = NoFile /\ saved = TRUE
    /\ ran = <<>> /\ asked = -1

-----------------------------------------------------------------------------
(* The user interface                                                      *)

CallStart ==
    /\ worker = "idle" /\ runs < MaxRuns
    /\ worker' = "called" /\ runs' = runs + 1
    /\ condition' \in Conditions
    /\ UNCHANGED << kills, stop, isFinish, status, offset, remaining, indStop,
                    session, saved, ran, asked >>

StopRecover ==
    /\ ~stop
    /\ stop' = TRUE /\ asked' = Len(ran)
    /\ UNCHANGED << runs, kills, worker, isFinish, condition, status, offset,
                    remaining, indStop, session, saved, ran >>

-----------------------------------------------------------------------------
(* startRevocer up to the call of photorec                                 *)

(* Mutant of Enter: the result of the last run stays on show.              *)
EnterFinished ==
    /\ worker = "called"
    /\ worker' = "entered"
    /\ UNCHANGED << runs, kills, stop, isFinish, condition, status, offset,
                    remaining, indStop, session, saved, ran, asked >>

(* isFinish=0, the first thing the thread does ...                         *)
Enter ==
    /\ worker = "called"
    /\ worker' = "entered" /\ isFinish' = FALSE
    /\ UNCHANGED << runs, kills, stop, condition, status, offset, remaining,
                    indStop, session, saved, ran, asked >>

(* ... and later mStopRecovrey=0, whatever stopRecover has written there.  *)
ResetStop ==
    /\ worker = "entered"
    /\ worker' = "opening" /\ stop' = FALSE
    /\ ran' = <<>> /\ asked' = -1
    /\ UNCHANGED << runs, kills, isFinish, condition, status, offset,
                    remaining, indStop, session, saved >>

(* The locals of startRevocer and photorec() are gone.                     *)
LocalsGone ==
    /\ condition' = Defaults /\ status' = "QUIT" /\ offset' = FALSE
    /\ indStop' = "OK" /\ saved' = TRUE /\ ran' = <<>> /\ asked' = -1

(* "Unable to open file or device": return 1, isFinish stays 0.            *)
OpenFails ==
    /\ worker = "opening"
    /\ worker' = "idle" /\ LocalsGone
    /\ UNCHANGED << runs, kills, stop, isFinish, remaining, session >>

(* "Syntax error in command line", or the disk is not found: photorec is   *)
(* not called.                                                             *)
NothingToDo ==
    /\ worker = "opening"
    /\ worker' = "finish"
    /\ UNCHANGED << runs, kills, stop, isFinish, condition, status, offset,
                    remaining, indStop, session, saved, ran, asked >>

(* params_reset and the status= of the command.                            *)
StartPhotorec ==
    /\ worker = "opening"
    /\ worker' = "pass"
    /\ status' = condition.first /\ offset' = FALSE
    /\ remaining' \in BOOLEAN
    /\ indStop' = "OK"
    /\ UNCHANGED << runs, kills, stop, isFinish, condition, session, saved,
                    ran, asked >>

-----------------------------------------------------------------------------
(* The loop of photorec()                                                  *)

(* The pass ends with pstatus_t s.  It may empty the search space and      *)
(* never fills an empty one.                                               *)
PassEnds(s) ==
    /\ worker = "pass" /\ worker' = "save"
    /\ indStop' = s
    /\ ran' = Append(ran, [status |-> status, result |-> s])
    /\ remaining' \in {FALSE, remaining}
    /\ UNCHANGED << runs, kills, stop, isFinish, condition, status, session,
                    saved, asked >>

(* fat_unformat never looks at the stop flag.                              *)
Unformat == status = "UNFORMAT" /\ PassEnds("OK") /\ UNCHANGED offset

(* photorec_find_blocksize returns PSTATUS_OK even when stop ended it.     *)
FindOffset == status = "FIND_OFFSET" /\ PassEnds("OK") /\ UNCHANGED offset

(* photorec_bf never looks at the stop flag.                               *)
BruteForce(s) ==
    /\ status \in BruteForcing
    /\ s # "OK" => remaining
    /\ PassEnds(s) /\ UNCHANGED offset

(* Mutants of Carve: the resume offset is not set on an error; the stop    *)
(* flag is not looked at.                                                  *)
CarveNoOffset(s) ==
    /\ status \in Carving
    /\ s = "STOP" => stop
    /\ s = "OK" => ~(stop /\ remaining)
    /\ s # "OK" => remaining
    /\ PassEnds(s)
    /\ s # "OK" => remaining'
    /\ offset' \in {offset, offset \/ remaining}

CarveOn(s) ==
    /\ status \in Carving /\ s # "STOP"
    /\ s # "OK" => remaining
    /\ PassEnds(s)
    /\ s # "OK" => remaining'
    /\ offset' \in (IF s \in {"EACCES", "ENOSPC"} THEN {TRUE}
                    ELSE {offset, offset \/ remaining})

(* photorec_aux looks at the stop flag while there is something left to    *)
(* carve: a stop that comes after its last look is one that comes after    *)
(* this step.  The progress line sets params->offset, and so does an       *)
(* aborted file; a stop alone does not.                                    *)
Carve(s) ==
    /\ status \in Carving
    /\ s = "STOP" => stop
    /\ s = "OK" => ~(stop /\ remaining)
    /\ s # "OK" => remaining
    /\ PassEnds(s)
    /\ s # "OK" => remaining'
    /\ offset' \in (IF s \in {"EACCES", "ENOSPC"} THEN {TRUE}
                    ELSE {offset, offset \/ remaining})

SessionOf(s, o) == [state |-> "saved", status |-> s,
                    offset |-> o /\ s # "FIND_OFFSET"]

(* session_save with params->offset = o: nothing when the recovery is      *)
(* over; fopen(..., "wb") may fail, and once it has emptied the file any   *)
(* part of the writing may, the reserved megabyte at its end included.     *)
SessionSave(o) ==
    \/ status = "QUIT" /\ saved' = TRUE /\ UNCHANGED session
    \/ status # "QUIT" /\ saved' = TRUE /\ session' = SessionOf(status, o)
    \/ /\ status # "QUIT" /\ saved' = FALSE
       /\ session' \in {session, BrokenFile, SessionOf(status, o)}

(* The progress line and regular_session_save, every few minutes of a      *)
(* carving pass.                                                           *)
Checkpoint ==
    /\ worker = "pass" /\ status \in Carving /\ remaining
    /\ offset' = TRUE
    /\ SessionSave(TRUE)
    /\ UNCHANGED << runs, kills, worker, stop, isFinish, condition, status,
                    remaining, indStop, ran, asked >>

SaveAfterPass ==
    /\ worker = "save" /\ worker' = "decide"
    /\ SessionSave(offset)
    /\ UNCHANGED << runs, kills, stop, isFinish, condition, status, offset,
                    remaining, indStop, ran, asked >>

(* Leave the loop, or begin the next pass.                                 *)
Proceed(s) ==
    /\ status' = s
    /\ worker' = IF s = "QUIT" THEN "finish" ELSE "pass"

(* Mutant of GiveUp: the pass is tried again.                              *)
TryAgain ==
    /\ worker = "decide" /\ indStop \in {"ENOSPC", "EACCES"}
    /\ Proceed(status)
    /\ ran' = Front(ran)
    /\ UNCHANGED << runs, kills, stop, isFinish, condition, offset, remaining,
                    indStop, session, saved, asked >>

(* PSTATUS_ENOSPC, PSTATUS_EACCES: no user to ask.                         *)
GiveUp ==
    /\ worker = "decide" /\ indStop \in {"ENOSPC", "EACCES"}
    /\ Proceed("QUIT")
    /\ UNCHANGED << runs, kills, stop, isFinish, condition, offset, remaining,
                    indStop, session, saved, ran, asked >>

(* PSTATUS_STOP: the session is saved once more.                           *)
Stopped ==
    /\ worker = "decide" /\ indStop = "STOP"
    /\ SessionSave(offset)
    /\ Proceed("QUIT")
    /\ UNCHANGED << runs, kills, stop, isFinish, condition, offset, remaining,
                    indStop, ran, asked >>

(* status_inc: the pass after s.                                           *)
SaveEverything(mode) ==
    IF condition.keepCorrupted
    THEN IF mode = "ON" THEN "EXT2_ON_SAVE_EVERYTHING"
                        ELSE "EXT2_OFF_SAVE_EVERYTHING"
    ELSE "QUIT"

AfterCarving(mode) ==
    CASE condition.paranoid > 1 -> IF mode = "ON" THEN "EXT2_ON_BF"
                                                  ELSE "EXT2_OFF_BF"
      [] condition.paranoid = 1 -> SaveEverything(mode)
      [] OTHER -> "QUIT"

StatusIncNoExt2(s) ==       \* mutant: mode_ext2 is forgotten
    CASE s = "UNFORMAT" -> "FIND_OFFSET"
      [] s = "FIND_OFFSET" -> "EXT2_OFF"
      [] s = "EXT2_ON" -> AfterCarving("ON")
      [] s = "EXT2_OFF" -> AfterCarving("OFF")
      [] s = "EXT2_ON_BF" -> SaveEverything("ON")
      [] s = "EXT2_OFF_BF" -> SaveEverything("OFF")
      [] OTHER -> "QUIT"

StatusInc(s) ==
    CASE s = "UNFORMAT" -> "FIND_OFFSET"
      [] s = "FIND_OFFSET" -> IF condition.ext2 THEN "EXT2_ON" ELSE "EXT2_OFF"
      [] s = "EXT2_ON" -> AfterCarving("ON")
      [] s = "EXT2_OFF" -> AfterCarving("OFF")
      [] s = "EXT2_ON_BF" -> SaveEverything("ON")
      [] s = "EXT2_OFF_BF" -> SaveEverything("OFF")
      [] OTHER -> "QUIT"

(* Mutant of NextPass: the session of a finished run stays.                *)
NextPassKeepsSession ==
    /\ worker = "decide" /\ indStop = "OK"
    /\ offset' = FALSE
    /\ Proceed(StatusInc(status))
    /\ UNCHANGED << runs, kills, stop, isFinish, condition, remaining, indStop,
                    session, saved, ran, asked >>

(* PSTATUS_OK: on to the next pass; after the last the session is removed. *)
NextPass ==
    /\ worker = "decide" /\ indStop = "OK"
    /\ offset' = FALSE
    /\ Proceed(StatusInc(status))
    /\ session' = IF StatusInc(status) = "QUIT" THEN NoFile ELSE session
    /\ UNCHANGED << runs, kills, stop, isFinish, condition, remaining, indStop,
                    saved, ran, asked >>

(* free_search_space, and startRevocer returns 0.                          *)
Finish ==
    /\ worker = "finish"
    /\ worker' = "idle" /\ isFinish' = TRUE /\ remaining' = FALSE
    /\ LocalsGone
    /\ UNCHANGED << runs, kills, stop, session >>

-----------------------------------------------------------------------------
(* Where session_save may be under way.                                    *)
Saving ==
    \/ worker = "save"
    \/ worker = "decide" /\ indStop = "STOP"
    \/ worker = "pass" /\ status \in Carving /\ remaining

(* The process ends: only the session file survives, or half of it.        *)
Kill ==
    /\ kills < MaxKills /\ kills' = kills + 1
    /\ worker' = "idle" /\ stop' = FALSE /\ isFinish' = FALSE
    /\ remaining' = FALSE /\ LocalsGone
    /\ \/ UNCHANGED session
       \/ Saving /\ session' = BrokenFile
    /\ UNCHANGED runs

Starting == Enter \/ ResetStop \/ OpenFails \/ NothingToDo \/ StartPhotorec

Working ==
    \/ Unformat \/ FindOffset
    \/ \E s \in {"OK", "EACCES", "ENOSPC"} : BruteForce(s)
    \/ \E s \in {"OK", "STOP", "EACCES", "ENOSPC"} : Carve(s)
    \/ SaveAfterPass \/ GiveUp \/ Stopped \/ NextPass \/ Finish

Next == Starting \/ Working \/ Checkpoint \/ CallStart \/ StopRecover \/ Kill

Spec == Init /\ [][Next]_vars

(* The thread of startRevocer keeps running, and no pass lasts for ever.   *)
FairSpec == Spec /\ WF_vars(Starting \/ Working)

-----------------------------------------------------------------------------
(* Properties                                                              *)

PassRecords == [status : Passes, result : {"OK", "STOP", "EACCES", "ENOSPC"}]

Sessions == {NoFile, BrokenFile} \cup
            [state : {"saved"}, status : Passes, offset : BOOLEAN]

(* The variables keep the types of the C variables they stand for, and the *)
(* loop of photorec() never runs a pass STATUS_QUIT.                       *)
TypeOK ==
    /\ runs \in 0..MaxRuns /\ kills \in 0..MaxKills
    /\ worker \in {"idle", "called", "entered", "opening", "pass", "save",
                   "decide", "finish"}
    /\ stop \in BOOLEAN /\ isFinish \in BOOLEAN
    /\ condition \in Conditions /\ status \in Passes \cup {"QUIT"}
    /\ worker \in {"pass", "save", "decide"} => status # "QUIT"
    /\ offset \in BOOLEAN /\ remaining \in BOOLEAN
    /\ indStop \in {"OK", "STOP", "EACCES", "ENOSPC"}
    /\ session \in Sessions /\ saved \in BOOLEAN
    /\ ran \in Seq(PassRecords) /\ asked \in Int

(* isFinish = 1 tells the user interface that no pass is running and that  *)
(* the search space has been freed; only the next run takes it back.       *)
FinishedIsIdle ==
    isFinish => worker \in {"idle", "called"} /\ ~remaining

(* The passes a condition asks for, in order: every pass there is, from    *)
(* the first one on, that is the first one or is wanted by an option.      *)
Ladder(c) ==
    IF \/ c.first \in {"EXT2_ON", "EXT2_ON_BF", "EXT2_ON_SAVE_EVERYTHING"}
       \/ /\ c.ext2
          /\ c.first \notin {"EXT2_OFF", "EXT2_OFF_BF",
                             "EXT2_OFF_SAVE_EVERYTHING"}
    THEN << "UNFORMAT", "FIND_OFFSET", "EXT2_ON", "EXT2_ON_BF",
            "EXT2_ON_SAVE_EVERYTHING" >>
    ELSE << "UNFORMAT", "FIND_OFFSET", "EXT2_OFF", "EXT2_OFF_BF",
            "EXT2_OFF_SAVE_EVERYTHING" >>

FirstRung(c) == CHOOSE i \in 1..5 : Ladder(c)[i] = c.first

Wanted(c, i) ==
    /\ i >= FirstRung(c)
    /\ \/ i \in {FirstRung(c), 2, 3}
       \/ i = 4 /\ c.paranoid = 2
       \/ i = 5 /\ c.keepCorrupted /\ (c.paranoid > 0 \/ FirstRung(c) = 4)

Rung(c, i) == IF Wanted(c, i) THEN << Ladder(c)[i] >> ELSE <<>>

Plan(c) ==
    Rung(c, 1) \o (Rung(c, 2) \o (Rung(c, 3) \o (Rung(c, 4) \o Rung(c, 5))))

Ended == worker = "finish" /\ ran # <<>>
Failed == Last(ran).result # "OK"

(* A run works through its plan pass by pass and stops at the first that   *)
(* fails: nothing is left out and nothing is done twice.                   *)
PassesFollowPlan ==
    /\ worker \in {"pass", "save", "decide", "finish"} =>
           IsPrefix([i \in DOMAIN ran |-> ran[i].status], Plan(condition))
    /\ \A i \in DOMAIN ran : i < Len(ran) => ran[i].result = "OK"
    /\ Ended => (Failed \/ Len(ran) = Len(Plan(condition)))

(* RecoveRx.ses when photorec returns: nothing after a run that ended      *)
(* well, otherwise the pass that failed and how far it had come, however   *)
(* often it was saved (if it could be saved).                              *)
SessionMatchesRun ==
    Ended => IF Failed
             THEN saved => session = [state |-> "saved",
                                      status |-> Last(ran).status,
                                      offset |-> offset]
             ELSE session = NoFile

(* A recovery that gave up on an error can be resumed at the very file it  *)
(* failed on.                                                              *)
ErrorKeepsOffset ==
    /\ Ended /\ saved
    /\ Last(ran).status \in Carving
    /\ Last(ran).result \in {"EACCES", "ENOSPC"}
    => session.offset

(* Once the user has asked for a stop, a run with blocks left to carve and *)
(* a carving pass ahead never ends as a complete one, and its session      *)
(* stays.                                                                  *)
StopIsNoticed ==
    /\ Ended /\ asked >= 0 /\ remaining
    /\ \E i \in DOMAIN Plan(condition) :
           i > asked /\ Plan(condition)[i] \in Carving
    => Failed /\ (saved => session # NoFile)

(* Every run comes to its end, and then the thread is gone.                *)
RunEnds == worker # "idle" ~> worker = "idle"
=============================================================================
