----------------------------- MODULE RateLimiter -----------------------------
(***************************************************************************)
(* The per-client token bucket of internal/api/middleware.go.  Time goes   *)
(* in ticks and tokens in units: a request costs Cost units and a tick     *)
(* adds Rate of them, so that Rate/Cost stands for any rational rps.  A    *)
(* bucket's `last' is kept as its age in ticks, which stops counting at    *)
(* AgeCap: from there on the bucket is full and due for removal.           *)
(***************************************************************************)
EXTENDS Clients, FiniteSets

CONSTANTS
  Cost,        \* units of one request
  Rate,        \* units a bucket gains per tick (rps)
  Burst,       \* units of a full bucket (burst)
  IdleTicks,   \* the five minutes after which cleanup drops a bucket
  MaxBuckets   \* the 50000 above which a new client gets no bucket

AgeCap == IdleTicks + 1

\* newRateLimiter replaces rps <= 0 and burst <= 0 by its defaults.  A bucket left alone
\* for five minutes is full again: the defaults, 5 rps and 30, need six seconds for that.
ASSUME RateAssumption ==
  /\ Cost \in Nat \ {0} /\ Rate \in Nat \ {0}
  /\ Burst \in Nat /\ Burst >= Cost
  /\ IdleTicks \in Nat /\ Rate * IdleTicks >= Burst
  /\ MaxBuckets \in Nat

VARIABLES
  bucketed,   \* the clients with an entry in `buckets'
  tokens,     \* bucket.tokens (0 without an entry)
  age         \* the time since bucket.last (0 without an entry)

limiter == <<bucketed, tokens, age>>

LimiterTypeOK ==
  /\ bucketed \subseteq Client
  /\ tokens \in [Client -> 0 .. Burst]
  /\ age \in [Client -> 0 .. AgeCap]

LimiterInit ==
  /\ bucketed = {}
  /\ tokens = [k \in Client |-> 0]
  /\ age = [k \in Client |-> 0]

Least(a, b) == IF a < b THEN a ELSE b

\* The refill of `allow', which forgets what exceeds the burst.
Refilled(k) == Least(Burst, tokens[k] + Rate * age[k])

\* The map is full: a client without a bucket is let through unmetered.
FailsOpen(k) == k \notin bucketed /\ Cardinality(bucketed) > MaxBuckets

\* `allow' returns true on a new bucket, or on one with a whole token left.
Allows(k) == k \in bucketed => Refilled(k) >= Cost

\* Fault: a refused request does not move `last' but is credited all the same.
TakeTwice(k) ==
  /\ ~FailsOpen(k)
  /\ bucketed' = bucketed \cup {k}
  /\ tokens' = [tokens EXCEPT ![k] =
       LET have == IF k \in bucketed THEN Refilled(k) ELSE Burst
       IN  IF have >= Cost THEN have - Cost ELSE have]
  /\ UNCHANGED age

\* `allow' with a bucket, old or new: refill, remember the time, take a token if there is one.
Take(k) ==
  /\ ~FailsOpen(k)
  /\ bucketed' = bucketed \cup {k}
  /\ tokens' = [tokens EXCEPT ![k] =
       LET have == IF k \in bucketed THEN Refilled(k) ELSE Burst
       IN  IF have >= Cost THEN have - Cost ELSE have]
  /\ age' = [age EXCEPT ![k] = 0]

\* rateLimiter.cleanup: forget the buckets nobody used for five minutes.
CleanBuckets ==
  LET gone == {k \in bucketed : age[k] > IdleTicks}
  IN  /\ bucketed' = bucketed \ gone
      /\ tokens' = [k \in Client |-> IF k \in gone THEN 0 ELSE tokens[k]]
      /\ age' = [k \in Client |-> IF k \in gone THEN 0 ELSE age[k]]

LimiterTick ==
  /\ age' = [k \in Client |-> IF k \in bucketed THEN Least(AgeCap, age[k] + 1) ELSE 0]
  /\ UNCHANGED <<bucketed, tokens>>
=============================================================================
