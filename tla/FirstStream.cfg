\* One item, and nothing fails, breaks, dies or sleeps.
CONSTANTS
  NumItems = 1
  PageSize = 1
  Sdk = "agn"
  DirectItems = {}
  EmptyItems = {}
  PostsFinal = FALSE
  MaxFaults = 0
  MaxCrashes = 0
  Announced <- MCAnnounced
  MaxBreaks = 0
  MaxSleeps = 0
SPECIFICATION Spec
INVARIANTS InitialReadCovers
