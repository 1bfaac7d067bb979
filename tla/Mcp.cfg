SPECIFICATION FairSpec
CONSTANTS
  Menu <- MCMenu
  MaxMessages = 3
INVARIANT AnsweredAsAsked
PROPERTY EveryRequestIsAnswered
CHECK_DEADLOCK FALSE
