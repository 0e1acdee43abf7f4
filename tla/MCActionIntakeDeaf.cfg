SPECIFICATION IntakeSpec
CONSTANTS
  ServerLimit = 4095
  ClientLimit = 8192
  Player = {0}
  BombSenders = {}
  Starts = {0}
  Delay = 0
  Faults = FALSE
  MaxSent = 5000
  MaxPool = 1
PROPERTY LatestRequestTaken
CHECK_DEADLOCK FALSE
