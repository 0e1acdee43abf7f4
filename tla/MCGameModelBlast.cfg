SPECIFICATION FairSpec
CONSTANTS
  Width = 3
  Height = 5
  BombLifetime = 1
  GameMode = "TEAM"
  Batches <- MCOneWay
  MaxBombs = 2
  Movers = {0}
INVARIANT LoopsAgree
PROPERTY BombsExplode
