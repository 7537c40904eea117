\* Three callers share two connections; a caller that waits may be cancelled.
SPECIFICATION FairSpec
CONSTANTS
  NoClient = NoClient
  Caller = {c1, c2, c3}
  Client = {k1, k2, k3}
  MaxConns = 2
INVARIANTS
  TypeOK
  Ceiling
  UpstreamBound
  Exclusive
  NoDirtyReuse
PROPERTIES
  Served
