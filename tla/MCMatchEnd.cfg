SPECIFICATION FairSpec
CONSTANTS
  PlayerNum = 3
  GameMode = "SOLO"
  Leavers = {0, 1}
  Silent = {2}
  Prompt = FALSE
INVARIANTS TypeOK ClosedByTheLast CleanedUpLast WinnerHasWon
PROPERTY OverDrains
CHECK_DEADLOCK FALSE
