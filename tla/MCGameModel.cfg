SPECIFICATION Spec
CONSTANTS
  Width = 3
  Height = 3
  BombLifetime = 1
  GameMode = "SOLO"
  Batches <- MCBatches
  MaxBombs = 2
  Movers = {0, 1}
INVARIANTS TypeOK BombTracking NoGhostTile LivingOnBoard PillarsStand
PROPERTY RefinesRules

