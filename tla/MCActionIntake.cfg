SPECIFICATION IntakeSpec
CONSTANTS
  ServerLimit = 5
  ClientLimit = 12
  Player = {0, 1}
  BombSenders = {1}
  Starts = {0}
  Delay = 1
  Faults = TRUE
  MaxSent = 3
  MaxPool = 3
INVARIANT TypeOK
PROPERTIES MovesGoForward FreshRequestTaken
CHECK_DEADLOCK FALSE
