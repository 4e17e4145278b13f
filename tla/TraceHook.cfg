SPECIFICATION Spec
CONSTANTS
  Sizes = {1, 2, 4, 8, 18}
  MaxTurns = 2
  MaxTexts = 2
  MaxCalls = 2
  MaxUnflushed = 2
  MaxFaults = 1
  MaxKills = 1
INVARIANTS
  TypeOK
  ParsedAsWritten
  RecordedWhole
PROPERTIES
  RowsOnlyGrow
  SidecarMadeWhole
CHECK_DEADLOCK FALSE
