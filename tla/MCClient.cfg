SPECIFICATION FairSpec
CONSTANTS
  TEXT_SIZE = 2
  MAX_CHAT_HISTORY_LEN = 2
  MaxChat = 1
INVARIANT HistoryIsRecent
PROPERTIES EndsWithServer QuitEnds
CHECK_DEADLOCK FALSE
