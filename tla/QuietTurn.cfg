\* One turn of one message at most, and nothing fails.
CONSTANTS
  MaxTurns = 1
  MaxMessages <- MCMaxMessages
  MaxFaults = 0
SPECIFICATION FairSpec
CHECK_DEADLOCK FALSE
INVARIANTS QuietTurnSurvived
