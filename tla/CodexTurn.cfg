\* Two turns of up to two messages, with one failing request: the second turn
\* is asked for while the first, given up by StartTurn, may still be running.
CONSTANTS
  MaxTurns = 2
  MaxMessages <- MCMaxMessages
  MaxFaults = 1
SPECIFICATION FairSpec
CHECK_DEADLOCK FALSE
INVARIANTS TypeOK SendsOnce WaitedTurnIsActive AnswersWithLastWord
PROPERTIES TakesItsOwnResult WaitEnds
