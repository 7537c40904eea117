\* Two requests at a time from a client or through a proxy, every limit small.
SPECIFICATION FairSpec
CONSTANTS
  c1 = c1
  proxy = proxy
  Client = {c1, proxy}
  Trusted = {proxy}
  NoClient = NoClient
  Request = {r1, r2}
  ForwardedFor <- MCForwardedFor
  Token = {t1}
  TTL = 1
  LockTicks = 2
  MaxFails = 2
  Cost = 2
  Rate = 1
  Burst = 3
  IdleTicks = 3
  MaxBuckets = 0
INVARIANTS
  TypeOK
  WithinRate
  FailuresKept
  FewLateGuesses
PROPERTIES
  NothingLiftedEarly
  LockExpires
