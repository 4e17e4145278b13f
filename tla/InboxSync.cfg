\* Three items in pages of at most two, two failing calls and one kill: a read
\* over two pages with a failure in either, and a retry that is itself cut off.
CONSTANTS
  NumItems = 3
  PageSize = 2
  Sdk = "codex"
  DirectItems = {}
  EmptyItems = {}
  PostsFinal = TRUE
  MaxFaults = 2
  MaxCrashes = 1
SPECIFICATION FairSpec
INVARIANTS TypeOK AcksInOrder NoTurnAfterAck NoAnswerLost NothingForgotten
PROPERTIES KeepsPromise EveryItemAcked
