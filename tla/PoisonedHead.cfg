\* A spot whose headers the server refuses to send.
SPECIFICATION FairSpec
CONSTANTS
  alice = alice
  bob = bob
  NoSpotter = NoSpotter
  Spotter <- MCSpotter
  NumArticles = 5
  DisposeMaxAge = 1
  MaxPosted = 2
  VerifySignatures = FALSE
  Groups <- MixedGroups
  InitialLast = 5
  ExpireTo = 1
  EmptyIsError = FALSE
  MaxNetFaults = 0
  MaxDBFaults = 0
  Unreadable = {1}
  MaxFailures = 2
  ChunkSize = 2
  SyncLookback = 5
  BackfillEnabled = FALSE
  Modes = {"mark"}
  RetentionDays = 0
  InitialTime = 2
  Blacklist = {}
  Upgraded = FALSE
  MaxTime = 2
  MaxRestarts = 0
PROPERTIES
  ForwardCatchesUp
CHECK_DEADLOCK FALSE
