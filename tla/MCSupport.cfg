CONSTANTS
  u1 = u1
  Users <- MCUsers
  Categories <- MCOneCategory
  DailyLimit = 2
  Day = 3
  DueHigh = 1
  DueNormal = 2
  StaleAfter = 0
  TokenTTL = 1
  SampleLimit = 2
  MaxDelay = 1
  MaxTime = 1
  MaxTickets = 2
  MaxMessages = 3
  MaxTokens = 1
  MaxSessions = 2
SPECIFICATION Spec
INVARIANTS
  TypeOK
  SerialOneOpen
  WaitingIsUnanswered
  SerialTokenAnswersOnce
CHECK_DEADLOCK FALSE
