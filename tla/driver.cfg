CONSTANTS
    MaxRuns = 2
    MaxKills = 1
SPECIFICATION FairSpec
INVARIANTS FinishedIsIdle PassesFollowPlan SessionMatchesRun ErrorKeepsOffset StopIsNoticed
PROPERTIES RunEnds
CHECK_DEADLOCK FALSE
