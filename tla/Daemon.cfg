\* Two items in pages of one, and one each of a failing call, a broken or refused
\* stream and a hibernation, in any order.
CONSTANTS
  NumItems = 2
  PageSize = 1
  Sdk = "agn"
  DirectItems = {}
  EmptyItems = {}
  PostsFinal = FALSE
  MaxFaults = 1
  MaxCrashes = 0
  Announced <- MCAnnounced
  MaxBreaks = 1
  MaxSleeps = 1
SPECIFICATION Spec
INVARIANTS TypeOK NothingStranded NeverFrozenMidTurn
