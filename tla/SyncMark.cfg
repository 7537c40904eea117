\* A fresh install whose moderation mode may change between off and mark.
\* The workers wait when there is nothing new, so the model may stop.
SPECIFICATION Spec
CONSTANTS
  alice = alice
  bob = bob
  NoSpotter = NoSpotter
  Spotter <- MCSpotter
  NumArticles = 5
  DisposeMaxAge = 1
  MaxPosted = 2
  VerifySignatures = FALSE
  Groups <- MixedGroups
  InitialLast = 3
  ExpireTo = 4
  EmptyIsError = FALSE
  MaxNetFaults = 2
  MaxDBFaults = 0
  Unreadable = {}
  MaxFailures = 2
  ChunkSize = 2
  SyncLookback = 2
  BackfillEnabled = FALSE
  Modes = {"off", "mark"}
  RetentionDays = 0
  InitialTime = 2
  Blacklist = {}
  Upgraded = FALSE
  MaxTime = 2
  MaxRestarts = 2
INVARIANTS
  TypeOK
  NoGap
  SweptMeansWithdrawn
  WithdrawnStaysOut
CHECK_DEADLOCK FALSE
