SPECIFICATION FairSpec
CONSTANTS
  NULL = NULL
  Width = 1
  Height = 2
  StartWidth = 2
  StartHeight = 2
  Tiles = {0, 3}
  NbLimit = 2
  MaxChanges = 2
  MaxFlight = 2
  MaxTrouble = 1
  MaxLines = 1
INVARIANTS ShownIsPast 
PROPERTY CaughtUp
