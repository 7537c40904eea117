\* Databases of every earlier release, and a new one, under three starts.
\* A stopped process may stay down.
SPECIFICATION Spec
CONSTANTS
  NumArticles = 5
  Libraries <- MCLibraries
  OldTime = 3
  Now = 5
  SyncLookback = 3
  PageSize = 2
  KindSets <- MCKindSets
  CatSets <- MCCatSets
  EnvKey = EnvKey
  NoKey = NoKey
  InitialLast = {2, 4}
  MaxStarts = 3
INVARIANTS
  TypeOK
  RowsAsIfParsedNow
  NothingStranded
  AdultOnlyOnItsTab
  FoundWhereAdvertised
  PagesCoverListing
PROPERTIES
  KeyStable
CHECK_DEADLOCK FALSE
