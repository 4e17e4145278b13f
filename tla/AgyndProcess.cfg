CONSTANTS
  Environments <- MCEnvironments
  Scripts <- MCScripts
  Replies <- MCReplies
  ConnectTries = 3
  MaxFaults = 3
  MaxStarts = 3
  Clients = {"events", "agn"}
  Script <- MCScript
  Conversations = {"x", "y"}
  Anonymous = "-"
  MaxBatch = 2
  MaxTroubles = 1
SPECIFICATION Spec
INVARIANTS
  TypeOK
  NothingLeft
  PreparedBeforeServing
  CredentialStands
  ProxyOutlivesCLI
  CallsKeepTheirPlace
  RowsAreComplete
PROPERTY StopsWhenTold
CHECK_DEADLOCK FALSE
