SPECIFICATION FairSpec
CONSTANTS
  PlayerNum = 4
  GameMode = "TEAM"
  Leavers = {1}
  Silent = {3}
  Prompt = TRUE
PROPERTY MatchRemoved
CHECK_DEADLOCK FALSE
