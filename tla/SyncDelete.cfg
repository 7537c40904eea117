\* Delete mode, strict signatures, retention and the blacklist, and a server that
\* refuses empty ranges, with an NNTP and a database failure and a restart.
SPECIFICATION Spec
CONSTANTS
  alice = alice
  bob = bob
  NoSpotter = NoSpotter
  Spotter <- MCSpotter
  NumArticles = 5
  DisposeMaxAge = 1
  MaxPosted = 2
  VerifySignatures = TRUE
  Groups <- DeleteGroups
  InitialLast = 4
  ExpireTo = 1
  EmptyIsError = TRUE
  MaxNetFaults = 1
  MaxDBFaults = 1
  Unreadable = {}
  MaxFailures = 2
  ChunkSize = 2
  SyncLookback = 3
  BackfillEnabled = FALSE
  Modes = {"off", "delete"}
  RetentionDays = 2
  InitialTime = 2
  Blacklist <- MCBlacklist
  Upgraded = FALSE
  MaxTime = 5
  MaxRestarts = 1
INVARIANTS
  OnlyEntitledWithdrawals
  SweptMeansWithdrawn
  DeletedStaysOut
PROPERTIES
  PrunedIsExpired
CHECK_DEADLOCK FALSE
