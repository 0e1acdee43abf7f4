SPECIFICATION FairSpec
CONSTANTS
  Game = {1, 2, 3, 4, 5}
  NULL = NULL
  InitCapacity = 2
  GROWTH_FACTOR = 2
  PLAYER_NUM = 2
  Client = {c1, c2, c3, c4}
  PollSize = 3
  LISTEN = LISTEN
  JUNK = JUNK
INVARIANTS TypeOK SeatsRight WaitingPolled ServedOneByOne OwnGames
PROPERTIES RefinesPool EveryoneSeated
CHECK_DEADLOCK FALSE
