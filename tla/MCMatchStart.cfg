SPECIFICATION FairSpec
CONSTANTS
  PlayerNum = 4
  Leavers = {1}
INVARIANTS TypeOK JoinsCounted BarrierOpens StartsWithEveryone
PROPERTY MatchStartsUnlessStuck
CHECK_DEADLOCK FALSE
