SPECIFICATION FairSpec
CONSTANTS
  NULL = NULL
  Seats <- MCSeats
  Texts <- MCTexts
  Junk = {0, 56, 104, 120}
  Parts = {1}
  MaxSaid = 2
  MaxTold = 1
INVARIANTS TypeOK ChatsInOrder SeatAgreed WinnerIsTrue
PROPERTY EndHeard
CHECK_DEADLOCK FALSE
