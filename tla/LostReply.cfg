SPECIFICATION Spec
CONSTANTS
  Sizes = {1, 2, 4, 8, 18}
  MaxTurns = 1
  MaxTexts = 2
  MaxCalls = 1
  MaxUnflushed = 2
  MaxFaults = 0
  MaxKills = 0
INVARIANT
  NoReplyLost
CHECK_DEADLOCK FALSE
