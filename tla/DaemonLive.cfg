\* One item; a kill, a broken stream and a hibernation at any
\* point of its life.
CONSTANTS
  NumItems = 1
  PageSize = 1
  Sdk = "agn"
  DirectItems = {}
  EmptyItems = {}
  PostsFinal = FALSE
  MaxFaults = 0
  MaxCrashes = 1
  Announced <- MCAnnounced
  MaxBreaks = 1
  MaxSleeps = 1
SPECIFICATION FairSpec
PROPERTIES HeardItemsAcked
