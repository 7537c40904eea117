\* A database of an earlier release with the backfill running.
SPECIFICATION FairSpec
CONSTANTS
  alice = alice
  bob = bob
  NoSpotter = NoSpotter
  Spotter <- MCSpotter
  NumArticles = 5
  DisposeMaxAge = 1
  MaxPosted = 2
  VerifySignatures = FALSE
  Groups <- MixedGroups
  InitialLast = 4
  ExpireTo = 2
  EmptyIsError = FALSE
  MaxNetFaults = 1
  MaxDBFaults = 0
  Unreadable = {}
  MaxFailures = 2
  ChunkSize = 2
  SyncLookback = 2
  BackfillEnabled = TRUE
  Modes = {"mark"}
  RetentionDays = 0
  InitialTime = 2
  Blacklist = {}
  Upgraded = TRUE
  MaxTime = 2
  MaxRestarts = 1
INVARIANTS
  NoGap
  SweptMeansWithdrawn
  BackfillDoneMeansReached
PROPERTIES
  KeepsPromise
  WatermarksMonotone
  BackfillEnds
  ForwardCatchesUp
  EventuallyWithdrawn
CHECK_DEADLOCK FALSE
