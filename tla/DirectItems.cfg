\* One item, sent to the instance directly, and calls that all succeed.
CONSTANTS
  NumItems = 1
  PageSize = 1
  Sdk = "claude"
  DirectItems = {1}
  EmptyItems = {}
  PostsFinal = TRUE
  MaxFaults = 0
  MaxCrashes = 0
SPECIFICATION FairSpec
PROPERTIES EveryItemAcked
