\* One failing database call.
SPECIFICATION Spec
CONSTANTS
  alice = alice
  bob = bob
  NoSpotter = NoSpotter
  Spotter <- MCSpotter
  NumArticles = 5
  DisposeMaxAge = 1
  MaxPosted = 2
  VerifySignatures = FALSE
  Groups <- MixedGroups
  InitialLast = 3
  ExpireTo = 2
  EmptyIsError = FALSE
  MaxNetFaults = 0
  MaxDBFaults = 1
  Unreadable = {}
  MaxFailures = 2
  ChunkSize = 2
  SyncLookback = 2
  BackfillEnabled = FALSE
  Modes = {"off", "mark"}
  RetentionDays = 0
  InitialTime = 2
  Blacklist = {}
  Upgraded = FALSE
  MaxTime = 2
  MaxRestarts = 1
INVARIANTS
  NoGap
CHECK_DEADLOCK FALSE
