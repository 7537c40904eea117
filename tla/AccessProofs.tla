---------------------------- MODULE AccessProofs ----------------------------
(***************************************************************************)
(* Proofs about Access: for any clients, proxies and number of concurrent  *)
(* requests, any rate, burst, lockout and session length.                  *)
(***************************************************************************)
EXTENDS Access, NaturalsInduction, WellFoundedInduction, FiniteSetTheorems, TLAPS

-----------------------------------------------------------------------------
(* Facts about the data.                                                   *)

\* A non-empty set of positions of a sequence has a last one.
LEMMA LastPosition ==
  ASSUME NEW n \in Nat, NEW S \in SUBSET (1 .. n), S # {}
  PROVE  \E i \in S : \A j \in S : j <= i
<1> DEFINE T == {n - i : i \in S}
           R == OpToRel(<, Nat)
<1>1. T \subseteq Nat /\ T # {}
  <2>1. \A i \in S : n - i \in Nat
    OBVIOUS
  <2>2. PICK i \in S : TRUE
    OBVIOUS
  <2>3. n - i \in T
    BY <2>2
  <2> QED
    BY <2>1, <2>3
<1>2. IsWellFoundedOn(R, Nat)
  BY NatLessThanWellFounded
<1>3. PICK x \in T : \A y \in T : ~ (<<y, x>> \in R)
  <2> HIDE DEF R, T
  <2> QED
    BY <1>1, <1>2, WFMin
<1>4. \A y \in T : ~ (y < x)
  BY <1>1, <1>3 DEF OpToRel
<1>5. PICK i \in S : x = n - i
  BY <1>3
<1>6. ASSUME NEW j \in S PROVE j <= i
  <2>1. ~ (n - j < n - i)
    BY <1>4, <1>5
  <2> QED
    BY <2>1
<1> QED
  BY <1>6

\* realIP always names an address.
LEMMA ResolvesToClient ==
  ASSUME NEW peer \in Client, NEW realIp \in Client \cup {NoClient},
         NEW forwarded \in ForwardedFor
  PROVE  ResolveClientIP(peer, realIp, forwarded) \in Client
<1> DEFINE outside == {i \in DOMAIN forwarded : forwarded[i] \in Client \ Trusted}
           chosen == CHOOSE i \in outside : \A j \in outside : j <= i
<1>1. forwarded \in Seq(Client \cup {NoClient})
  BY AccessAssumption
<1>2. outside \in SUBSET (1 .. Len(forwarded)) /\ Len(forwarded) \in Nat
  BY <1>1
<1>3. outside # {} => chosen \in outside
  <2> HIDE DEF outside
  <2> QED
    BY <1>2, LastPosition
<1>4. CASE outside = {}
  BY <1>4 DEF ResolveClientIP
<1>5. CASE outside # {}
  <2>1. forwarded[chosen] \in Client
    BY <1>3, <1>5
  <2> QED
    BY <2>1, <1>5 DEF ResolveClientIP
<1> QED
  BY <1>4, <1>5

\* The numeric constants.
LEMMA Numbers ==
  /\ Cost \in Nat /\ Cost > 0 /\ Rate \in Nat /\ Rate > 0
  /\ Burst \in Nat /\ Burst >= Cost
  /\ IdleTicks \in Nat /\ AgeCap = IdleTicks + 1 /\ Rate * IdleTicks >= Burst
  /\ TTL \in Nat /\ TTL > 0 /\ LockTicks \in Nat /\ LockTicks > 0
  /\ MaxFails \in Nat /\ MaxFails > 0
BY RateAssumption, SessionsAssumption DEF AgeCap

\* How a product with the rate grows with the age.
LEMMA RateTimes ==
  ASSUME NEW a \in Nat
  PROVE  /\ Rate * a \in Nat
         /\ Rate * 0 = 0
         /\ Rate * (a + 1) = Rate * a + Rate
         /\ a >= IdleTicks => Rate * a >= Burst
<1>1. Rate * a \in Nat /\ Rate * 0 = 0 /\ Rate * (a + 1) = Rate * a + Rate
  BY Numbers
<1>2. ASSUME a >= IdleTicks PROVE Rate * a >= Burst
  <2>1. PICK d \in Nat : a = IdleTicks + d
    <3>1. a - IdleTicks \in Nat /\ a = IdleTicks + (a - IdleTicks)
      BY <1>2, Numbers
    <3> QED
      BY <3>1
  <2>2. Rate * a = Rate * IdleTicks + Rate * d /\ Rate * d \in Nat /\ Rate * IdleTicks \in Nat
    BY <2>1, Numbers
  <2> QED
    BY <2>2, Numbers
<1> QED
  BY <1>1, <1>2

-----------------------------------------------------------------------------
(* Types.                                                                  *)

Labels == {"idle", "routed", "compare", "wrong", "right", "create"}

\* A refilled bucket holds at most the burst.
LEMMA RefilledType ==
  ASSUME TypeOK, NEW k \in Client
  PROVE  Refilled(k) \in 0 .. Burst
<1>1. tokens[k] \in Nat /\ age[k] \in Nat
  BY Numbers DEF TypeOK, LimiterTypeOK
<1>2. Rate * age[k] \in Nat
  BY <1>1, RateTimes
<1> QED
  BY <1>1, <1>2, Numbers DEF Refilled, Least

\* The steps of the limiter keep its types.
LEMMA LimiterTypes ==
  ASSUME TypeOK
  PROVE  /\ \A k \in Client : Take(k) => LimiterTypeOK'
         /\ CleanBuckets => LimiterTypeOK'
         /\ LimiterTick => LimiterTypeOK'
         /\ UNCHANGED limiter => LimiterTypeOK'
<1>1. ASSUME NEW k \in Client, Take(k) PROVE LimiterTypeOK'
  <2>1. Refilled(k) \in 0 .. Burst
    BY RefilledType
  <2>2. tokens' \in [Client -> 0 .. Burst]
    BY <1>1, <2>1, Numbers DEF Take, TypeOK, LimiterTypeOK
  <2>3. age' \in [Client -> 0 .. AgeCap] /\ bucketed' \subseteq Client
    BY <1>1, Numbers DEF Take, TypeOK, LimiterTypeOK
  <2> QED
    BY <2>2, <2>3 DEF LimiterTypeOK
<1>2. CleanBuckets => LimiterTypeOK'
  BY Numbers DEF CleanBuckets, TypeOK, LimiterTypeOK
<1>3. LimiterTick => LimiterTypeOK'
  BY Numbers DEF LimiterTick, Least, TypeOK, LimiterTypeOK
<1>4. UNCHANGED limiter => LimiterTypeOK'
  BY DEF limiter, TypeOK, LimiterTypeOK
<1> QED
  BY <1>1, <1>2, <1>3, <1>4

\* The critical sections of the session store keep its types.
LEMMA StoreTypes ==
  ASSUME TypeOK
  PROVE  /\ \A t \in Token : Create(t) \/ Delete(t) => SessionsTypeOK'
         /\ \A k \in Client : RecordFailure(k) \/ RecordSuccess(k) => SessionsTypeOK'
         /\ PeriodicCleanup => SessionsTypeOK'
         /\ SessionsTick => SessionsTypeOK'
         /\ UNCHANGED store => SessionsTypeOK'
<1>1. \A t \in Token : Create(t) \/ Delete(t) => SessionsTypeOK'
  BY Numbers DEF Create, Delete, Absent, TypeOK, SessionsTypeOK
<1>2. \A k \in Client : RecordFailure(k) => SessionsTypeOK'
  BY Numbers DEF RecordFailure, TypeOK, SessionsTypeOK
<1>3. \A k \in Client : RecordSuccess(k) => SessionsTypeOK'
  BY Numbers DEF RecordSuccess, TypeOK, SessionsTypeOK
<1>4. PeriodicCleanup => SessionsTypeOK'
  BY Numbers DEF PeriodicCleanup, Absent, TypeOK, SessionsTypeOK
<1>5. SessionsTick => SessionsTypeOK'
  BY Numbers DEF SessionsTick, Absent, TypeOK, SessionsTypeOK
<1>6. UNCHANGED store => SessionsTypeOK'
  BY DEF store, TypeOK, SessionsTypeOK
<1> QED
  BY <1>1, <1>2, <1>3, <1>4, <1>5, <1>6

\* Every step keeps the types.
LEMMA TypeNext ==
  ASSUME TypeOK, [Next]_vars
  PROVE  TypeOK'
<1>1. \A r \in Request, l \in Labels : Goto(r, l) => pc' \in [Request -> Labels]
  BY DEF Goto, TypeOK, Labels
<1>2. UNCHANGED client => client' \in [Request -> Client]
  BY DEF TypeOK
<1>3. ASSUME NEW r \in Request, Arrive(r) PROVE TypeOK'
  <2>1. PICK k \in Client :
          /\ client' = [client EXCEPT ![r] = k]
          /\ \/ Goto(r, "routed") /\ UNCHANGED limiter
             \/ Take(k) /\ Goto(r, IF Allows(k) THEN "routed" ELSE "idle")
          /\ UNCHANGED store
    BY <1>3, ResolvesToClient DEF Arrive
  <2>2. LimiterTypeOK' /\ SessionsTypeOK'
    BY <2>1, LimiterTypes, StoreTypes
  <2>3. pc' \in [Request -> Labels]
    BY <2>1, <1>1 DEF Labels
  <2>4. client' \in [Request -> Client]
    BY <2>1 DEF TypeOK
  <2> QED
    BY <2>2, <2>3, <2>4 DEF TypeOK, Labels
<1>4. ASSUME NEW r \in Request, OtherEndpoint(r) \/ CheckLock(r) \/ Compare(r)
      PROVE  TypeOK'
  <2>1. UNCHANGED <<limiter, store, client>> /\ \E l \in Labels : Goto(r, l)
    BY <1>4 DEF OtherEndpoint, CheckLock, Compare, Labels
  <2>2. LimiterTypeOK' /\ SessionsTypeOK' /\ pc' \in [Request -> Labels]
    BY <2>1, <1>1, LimiterTypes, StoreTypes
  <2> QED
    BY <2>1, <2>2, <1>2 DEF TypeOK, Labels
<1>5. ASSUME NEW r \in Request,
             AuthLogout(r) \/ LoginFails(r) \/ LoginSucceeds(r) \/ OpenSession(r)
      PROVE  TypeOK'
  <2>1. UNCHANGED <<limiter, client>> /\ \E l \in Labels : Goto(r, l)
    BY <1>5 DEF AuthLogout, LoginFails, LoginSucceeds, OpenSession, Labels
  <2>2. client[r] \in Client
    BY DEF TypeOK
  <2>3. \/ \E t \in Token : Create(t) \/ Delete(t)
        \/ RecordFailure(client[r]) \/ RecordSuccess(client[r])
    BY <1>5 DEF AuthLogout, LoginFails, LoginSucceeds, OpenSession
  <2>4. LimiterTypeOK' /\ SessionsTypeOK' /\ pc' \in [Request -> Labels]
    BY <2>1, <2>2, <2>3, <1>1, LimiterTypes, StoreTypes
  <2> QED
    BY <2>1, <2>4, <1>2 DEF TypeOK, Labels
<1>6. ASSUME Cleanup \/ Tick \/ UNCHANGED vars PROVE TypeOK'
  <2>1. LimiterTypeOK' /\ SessionsTypeOK'
    BY <1>6, LimiterTypes, StoreTypes DEF Cleanup, Tick, vars
  <2>2. UNCHANGED <<pc, client>>
    BY <1>6 DEF Cleanup, Tick, vars
  <2> QED
    BY <2>1, <2>2 DEF TypeOK
<1> QED
  BY <1>3, <1>4, <1>5, <1>6 DEF Next

\* An empty limiter and an empty store are well-typed.
LEMMA TypeInit == Init => TypeOK
BY Numbers DEF Init, LimiterInit, SessionsInit, Absent, TypeOK, LimiterTypeOK, SessionsTypeOK

\* Buckets, counters and locks stay in range: no bucket overflows or goes below zero and
\* the failure counter never reaches the limit unnoticed.
THEOREM TypeCorrect == Spec => []TypeOK
<1>1. TypeOK /\ [Next]_vars => TypeOK'
  BY TypeNext
<1> QED
  BY <1>1, TypeInit, PTL DEF Spec

-----------------------------------------------------------------------------
(* The rate.  WithinRate is not inductive: it holds because the history    *)
(* bucket and the limiter's agree, and one the limiter has dropped is full.*)

Metered ==
  /\ credit \in [Client -> Int]
  /\ \A k \in Client : credit[k] = IF k \in bucketed THEN Refilled(k) ELSE Burst

\* A request with a bucket.
LEMMA TakeMetered ==
  ASSUME TypeOK, Metered, NEW k \in Client, Take(k),
         credit' = [credit EXCEPT ![k] = IF Allows(k) THEN @ - Cost ELSE @]
  PROVE  Metered'
<1>1. credit' \in [Client -> Int]
  BY Numbers DEF Metered
<1>2. ASSUME NEW j \in Client, j # k
      PROVE  credit'[j] = IF j \in bucketed' THEN Refilled(j)' ELSE Burst
  BY <1>2 DEF Metered, Take, Refilled, TypeOK, LimiterTypeOK
<1>3. credit'[k] = Refilled(k)'
  <2> DEFINE have == IF k \in bucketed THEN Refilled(k) ELSE Burst
  <2>1. have \in 0 .. Burst /\ credit[k] = have
    BY RefilledType, Numbers DEF Metered
  <2>2. Allows(k) <=> have >= Cost
    BY Numbers DEF Allows
  <2>3. tokens'[k] = IF have >= Cost THEN have - Cost ELSE have
    BY DEF Take, TypeOK, LimiterTypeOK
  <2>4. age'[k] = 0 /\ Rate * 0 = 0
    BY RateTimes DEF Take, TypeOK, LimiterTypeOK
  <2>5. tokens'[k] \in 0 .. Burst
    BY <2>1, <2>3, Numbers
  <2>6. Refilled(k)' = tokens'[k]
    BY <2>4, <2>5, Numbers DEF Refilled, Least
  <2>7. credit'[k] = IF Allows(k) THEN have - Cost ELSE have
    BY <2>1 DEF Metered
  <2> QED
    BY <2>2, <2>3, <2>6, <2>7
<1>4. k \in bucketed'
  BY DEF Take
<1> QED
  BY <1>1, <1>2, <1>3, <1>4 DEF Metered

\* A bucket old enough to be dropped is full.
LEMMA CleanMetered ==
  ASSUME TypeOK, Metered, CleanBuckets, UNCHANGED credit
  PROVE  Metered'
<1>1. ASSUME NEW j \in Client
      PROVE  credit'[j] = IF j \in bucketed' THEN Refilled(j)' ELSE Burst
  <2>1. CASE j \in bucketed /\ age[j] > IdleTicks
    <3>1. tokens[j] \in 0 .. Burst /\ age[j] \in Nat
      BY Numbers DEF TypeOK, LimiterTypeOK
    <3>2. Rate * age[j] \in Nat /\ Rate * age[j] >= Burst
      BY <2>1, <3>1, RateTimes, Numbers
    <3>3. Refilled(j) = Burst
      <4>1. Burst \in Nat
        BY Numbers
      <4>2. tokens[j] + Rate * age[j] >= Burst
        <5> DEFINE gain == Rate * age[j]
        <5>1. gain \in Nat /\ gain >= Burst
          BY <3>2
        <5> HIDE DEF gain
        <5>2. tokens[j] + gain >= Burst
          BY <3>1, <4>1, <5>1
        <5> QED
          BY <5>2 DEF gain
      <4> QED
        BY <3>1, <3>2, <4>1, <4>2 DEF Refilled, Least
    <3>4. j \notin bucketed'
      BY <2>1 DEF CleanBuckets
    <3> QED
      BY <2>1, <3>3, <3>4 DEF Metered
  <2>2. CASE ~ (j \in bucketed /\ age[j] > IdleTicks)
    <3>1. /\ j \in bucketed' <=> j \in bucketed
          /\ tokens'[j] = tokens[j] /\ age'[j] = age[j]
      BY <2>2 DEF CleanBuckets
    <3> QED
      BY <3>1 DEF Metered, Refilled
  <2> QED
    BY <2>1, <2>2
<1> QED
  BY <1>1 DEF Metered

\* A tick fills both buckets alike; where the age stops counting they are full.
LEMMA TickMetered ==
  ASSUME TypeOK, Metered, LimiterTick,
         credit' = [k \in Client |-> Least(Burst, credit[k] + Rate)]
  PROVE  Metered'
<1>1. ASSUME NEW j \in Client
      PROVE  /\ credit'[j] \in Int
             /\ credit'[j] = IF j \in bucketed' THEN Refilled(j)' ELSE Burst
  <2>1. credit[j] \in Int /\ credit'[j] = Least(Burst, credit[j] + Rate)
    BY DEF Metered
  <2>2. CASE j \notin bucketed
    <3>1. credit[j] = Burst /\ j \notin bucketed'
      BY <2>2 DEF Metered, LimiterTick
    <3> QED
      BY <2>1, <3>1, Numbers DEF Least
  <2>3. CASE j \in bucketed
    <3>1. tokens[j] \in 0 .. Burst /\ age[j] \in 0 .. AgeCap
      BY DEF TypeOK, LimiterTypeOK
    <3>2. /\ j \in bucketed' /\ tokens'[j] = tokens[j]
          /\ age'[j] = Least(AgeCap, age[j] + 1)
      BY <2>3 DEF LimiterTick
    <3>3. /\ Rate * age[j] \in Nat /\ Rate * (age[j] + 1) = Rate * age[j] + Rate
          /\ age[j] >= IdleTicks => Rate * age[j] >= Burst
      BY <3>1, RateTimes, Numbers
    <3>4. credit[j] = Least(Burst, tokens[j] + Rate * age[j])
      BY <2>3 DEF Metered, Refilled
    <3>5. Refilled(j)' = Least(Burst, tokens[j] + Rate * age'[j])
      BY <3>2 DEF Refilled
    <3>6. CASE age[j] < AgeCap
      <4>1. age'[j] = age[j] + 1
        BY <3>1, <3>2, <3>6, Numbers DEF Least
      <4>2. Rate * age'[j] = Rate * age[j] + Rate
        BY <4>1, <3>3
      <4> QED
        BY <2>1, <3>1, <3>2, <3>3, <3>4, <3>5, <4>2, Numbers DEF Least
    <3>7. CASE age[j] = AgeCap
      <4>1. age'[j] = age[j] /\ Rate * age[j] >= Burst
        BY <3>1, <3>2, <3>3, <3>7, Numbers DEF Least
      <4> QED
        BY <2>1, <3>1, <3>2, <3>3, <3>4, <3>5, <4>1, Numbers DEF Least
    <3> QED
      BY <3>1, <3>6, <3>7, Numbers
  <2> QED
    BY <2>2, <2>3
<1> QED
  BY <1>1 DEF Metered

\* Metered is inductive, relative to the types.
LEMMA MeteredNext ==
  ASSUME TypeOK, Metered, [Next]_vars
  PROVE  Metered'
<1>1. UNCHANGED <<limiter, credit>> => Metered'
  BY DEF Metered, Refilled, limiter
<1>2. ASSUME NEW r \in Request, Arrive(r) PROVE Metered'
  <2>1. PICK k \in Client :
          \/ UNCHANGED <<limiter, credit>>
          \/ Take(k) /\ credit' = [credit EXCEPT ![k] = IF Allows(k) THEN @ - Cost ELSE @]
    BY <1>2, ResolvesToClient DEF Arrive
  <2> QED
    BY <1>1, <2>1, TakeMetered
<1>3. ASSUME NEW r \in Request,
             \/ OtherEndpoint(r) \/ AuthLogout(r) \/ CheckLock(r) \/ Compare(r)
             \/ LoginFails(r) \/ LoginSucceeds(r) \/ OpenSession(r)
      PROVE  Metered'
  <2>1. UNCHANGED <<limiter, credit>>
    BY <1>3 DEF OtherEndpoint, AuthLogout, CheckLock, Compare, LoginFails, LoginSucceeds,
                OpenSession, history
  <2> QED
    BY <1>1, <2>1
<1>4. CASE Cleanup
  BY <1>1, <1>4, CleanMetered DEF Cleanup, history
<1>5. CASE Tick
  BY <1>5, TickMetered DEF Tick
<1>6. CASE UNCHANGED vars
  BY <1>1, <1>6 DEF vars, history
<1> QED
  BY <1>2, <1>3, <1>4, <1>5, <1>6 DEF Next

\* Over any period a client gets at most the burst and what the rate adds: for every rate
\* and burst that five minutes are enough to fill, cleanup gives no extra tokens away.
THEOREM RateKept == Spec => []WithinRate
<1>1. Init => Metered
  BY Numbers DEF Init, LimiterInit, Metered
<1>2. TypeOK /\ Metered /\ [Next]_vars => Metered'
  BY MeteredNext
<1>3. TypeOK /\ Metered => WithinRate
  <2> SUFFICES ASSUME TypeOK, Metered, NEW k \in Client PROVE credit[k] >= 0
    BY DEF WithinRate
  <2>1. Refilled(k) \in 0 .. Burst /\ Burst \in Nat
    BY RefilledType, Numbers
  <2> QED
    BY <2>1 DEF Metered
<1> QED
  BY <1>1, <1>2, <1>3, TypeCorrect, PTL DEF Spec

-----------------------------------------------------------------------------
(* The lockout's counter.                                                  *)

\* The history has the type of the counter.
Counted == streak \in [Client -> Int] /\ FailuresKept

\* Every step moves the counter and the history alike.
LEMMA CountedNext ==
  ASSUME TypeOK, Counted, [Next]_vars
  PROVE  Counted'
<1>1. UNCHANGED <<failures, streak>> => Counted'
  BY DEF Counted, FailuresKept
<1>2. ASSUME NEW r \in Request, LoginFails(r) PROVE Counted'
  BY <1>2, Numbers DEF LoginFails, RecordFailure, Counted, FailuresKept, TypeOK, SessionsTypeOK
<1>3. ASSUME NEW r \in Request, LoginSucceeds(r) PROVE Counted'
  BY <1>3 DEF LoginSucceeds, RecordSuccess, Counted, FailuresKept, TypeOK, SessionsTypeOK
<1>4. ASSUME NEW r \in Request,
             \/ Arrive(r) \/ OtherEndpoint(r) \/ AuthLogout(r) \/ CheckLock(r)
             \/ Compare(r) \/ OpenSession(r)
      PROVE  Counted'
  <2>1. UNCHANGED <<failures, streak>>
    BY <1>4 DEF Arrive, OtherEndpoint, AuthLogout, CheckLock, Compare, OpenSession,
                Create, Delete, history, store
  <2> QED
    BY <1>1, <2>1
<1>5. CASE Cleanup \/ Tick \/ UNCHANGED vars
  <2>1. UNCHANGED <<failures, streak>>
    BY <1>5 DEF Cleanup, Tick, vars, PeriodicCleanup, SessionsTick, history, store
  <2> QED
    BY <1>1, <2>1
<1> QED
  BY <1>2, <1>3, <1>4, <1>5 DEF Next

\* No recorded failure is forgotten before a success or a lockout, by cleanup or otherwise.
THEOREM LockoutCounts == Spec => []FailuresKept
<1>1. Init => Counted
  BY DEF Init, SessionsInit, Counted, FailuresKept
<1>2. TypeOK /\ Counted /\ [Next]_vars => Counted'
  BY CountedNext
<1>3. Counted => FailuresKept
  BY DEF Counted
<1> QED
  BY <1>1, <1>2, <1>3, TypeCorrect, PTL DEF Spec

-----------------------------------------------------------------------------
(* Guesses during a lockout.                                               *)

\* The requests of k that have passed the lockout check and not compared a password yet.
Comparing(k) == {r \in Request : client[r] = k /\ pc[r] = "compare"}

\* What a lockout has admitted and may still admit.  The request whose failure began it is
\* in neither part, hence the strict bound.
Guessed ==
  /\ late \in [Client -> Nat]
  /\ \A k \in Client : lock[k] > 0 =>
       k \in tracked /\ late[k] + Cardinality(Comparing(k)) < Cardinality(Request)

\* How the number of those requests changes with the set.
LEMMA ComparingSize ==
  ASSUME NEW S \in SUBSET Request
  PROVE  /\ Cardinality(S) \in Nat /\ Cardinality(Request) \in Nat
         /\ \A T \in SUBSET S : Cardinality(T) \in Nat /\ Cardinality(T) <= Cardinality(S)
         /\ \A r \in S : Cardinality(S \ {r}) = Cardinality(S) - 1
         /\ \A r \in Request : r \notin S => Cardinality(S) < Cardinality(Request)
<1>1. IsFiniteSet(Request) /\ IsFiniteSet(S)
  BY AccessAssumption, FS_Subset
<1>2. Cardinality(S) \in Nat /\ Cardinality(Request) \in Nat
  BY <1>1, FS_CardinalityType
<1>3. ASSUME NEW T \in SUBSET S PROVE Cardinality(T) \in Nat /\ Cardinality(T) <= Cardinality(S)
  BY <1>1, FS_Subset, FS_CardinalityType
<1>4. ASSUME NEW r \in S PROVE Cardinality(S \ {r}) = Cardinality(S) - 1
  BY <1>1, FS_RemoveElement
<1>5. ASSUME NEW r \in Request, r \notin S PROVE Cardinality(S) < Cardinality(Request)
  <2>1. Cardinality(S) <= Cardinality(Request) /\ Cardinality(S) # Cardinality(Request)
    BY <1>1, <1>5, FS_Subset
  <2> QED
    BY <1>2, <2>1
<1> QED
  BY <1>2, <1>3, <1>4, <1>5

\* A step that neither locks an address nor lets another of its requests past the check.
LEMMA GuessedKept ==
  ASSUME Guessed, NEW k \in Client, late'[k] = late[k], lock'[k] > 0,
         lock[k] > 0, k \in tracked => k \in tracked', Comparing(k)' \subseteq Comparing(k)
  PROVE  k \in tracked' /\ late'[k] + Cardinality(Comparing(k)') < Cardinality(Request)
<1>1. k \in tracked /\ late[k] + Cardinality(Comparing(k)) < Cardinality(Request)
  BY DEF Guessed
<1>2. late[k] \in Nat
  BY DEF Guessed
<1>3. Comparing(k) \in SUBSET Request /\ Comparing(k)' \in SUBSET Comparing(k)
  BY DEF Comparing
<1>4. /\ Cardinality(Comparing(k)) \in Nat /\ Cardinality(Request) \in Nat
      /\ Cardinality(Comparing(k)') \in Nat
      /\ Cardinality(Comparing(k)') <= Cardinality(Comparing(k))
  BY <1>3, ComparingSize
<1> QED
  BY <1>1, <1>2, <1>4

\* Every step keeps it.
LEMMA GuessedNext ==
  ASSUME TypeOK, Counted, Guessed, [Next]_vars
  PROVE  Guessed'
<1>1. /\ pc \in [Request -> Labels] /\ client \in [Request -> Client]
      /\ lock \in [Client -> 0 .. LockTicks] /\ late \in [Client -> Nat]
      /\ failures \in [Client -> 0 .. MaxFails - 1] /\ tracked \subseteq Client
  BY DEF TypeOK, SessionsTypeOK, Labels, Guessed
<1> DEFINE Held(k) ==
             lock'[k] > 0 =>
               k \in tracked' /\ late'[k] + Cardinality(Comparing(k)') < Cardinality(Request)
<1>2. ASSUME late' \in [Client -> Nat], \A k \in Client : Held(k) PROVE Guessed'
  BY <1>2 DEF Guessed
<1>3. ASSUME UNCHANGED <<tracked, lock, late>>, \A k \in Client : Comparing(k)' \subseteq Comparing(k)
      PROVE  Guessed'
  BY <1>1, <1>2, <1>3, GuessedKept
<1>4. ASSUME NEW r \in Request, NEW l, l # "compare", Goto(r, l), NEW k \in Client,
             UNCHANGED client \/ pc[r] # "compare",
             \A q \in Request \ {r} : client'[q] = client[q]
      PROVE  Comparing(k)' \subseteq Comparing(k)
  BY <1>1, <1>4 DEF Goto, Comparing
<1>5. ASSUME NEW r \in Request,
             Arrive(r) \/ OtherEndpoint(r) \/ AuthLogout(r) \/ OpenSession(r)
      PROVE  Guessed'
  <2>1. /\ \E l : l # "compare" /\ Goto(r, l)
        /\ pc[r] # "compare" /\ UNCHANGED <<tracked, lock, late>>
        /\ \A q \in Request \ {r} : client'[q] = client[q]
    BY <1>1, <1>5 DEF Arrive, OtherEndpoint, AuthLogout, OpenSession, Create, Delete, store,
                      history
  <2> QED
    BY <1>3, <1>4, <2>1
<1>6. ASSUME NEW r \in Request, CheckLock(r) PROVE Guessed'
  <2>1. UNCHANGED <<tracked, lock, late, client>>
    BY <1>6 DEF CheckLock, store, history
  <2>2. ASSUME NEW k \in Client, lock'[k] > 0 PROVE Comparing(k)' \subseteq Comparing(k)
    <3>1. Locked(k)
      BY <2>1, <2>2 DEF Guessed, Locked
    <3>2. client[r] = k => Goto(r, "idle")
      BY <1>6, <3>1 DEF CheckLock
    <3>3. CASE client[r] = k
      BY <1>4, <2>1, <3>2, <3>3
    <3>4. CASE client[r] # k
      BY <1>1, <1>6, <2>1, <3>4 DEF CheckLock, Goto, Comparing
    <3> QED
      BY <3>3, <3>4
  <2>3. ASSUME NEW k \in Client PROVE Held(k)
    BY <2>1, <2>2, GuessedKept
  <2> QED
    BY <1>1, <1>2, <2>1, <2>3
<1>7. ASSUME NEW r \in Request, Compare(r) PROVE Guessed'
  <2>1. /\ pc[r] = "compare" /\ UNCHANGED <<tracked, lock, client>> /\ client[r] \in Client
        /\ \E l : l # "compare" /\ Goto(r, l)
    BY <1>1, <1>7 DEF Compare, store
  <2>2. \A k \in Client : Comparing(k)' \subseteq Comparing(k)
    BY <1>4, <2>1
  <2>3. /\ late' \in [Client -> Nat]
        /\ \A k \in Client \ {client[r]} : late'[k] = late[k]
        /\ late'[client[r]] \in {late[client[r]], late[client[r]] + 1}
    BY <1>1, <1>7, <2>1 DEF Compare
  <2>4. ASSUME NEW k \in Client PROVE Held(k)
    <3>1. CASE k # client[r]
      BY <2>1, <2>2, <2>3, <3>1, GuessedKept
    <3>2. CASE k = client[r]
      <4> SUFFICES ASSUME lock'[k] > 0
                   PROVE  k \in tracked' /\ late'[k] + Cardinality(Comparing(k)') < Cardinality(Request)
        OBVIOUS
      <4>1. k \in tracked /\ late[k] + Cardinality(Comparing(k)) < Cardinality(Request)
        BY <2>1 DEF Guessed
      <4>2. r \in Comparing(k) /\ Comparing(k)' = Comparing(k) \ {r}
        BY <1>1, <2>1, <3>2 DEF Goto, Comparing
      <4>3. Comparing(k) \in SUBSET Request
        BY DEF Comparing
      <4>4. /\ Cardinality(Comparing(k)') = Cardinality(Comparing(k)) - 1
            /\ Cardinality(Comparing(k)) \in Nat /\ Cardinality(Request) \in Nat
        BY <4>2, <4>3, ComparingSize
      <4>5. late[k] \in Nat /\ (late'[k] = late[k] \/ late'[k] = late[k] + 1)
        BY <1>1, <2>3, <3>2
      <4> QED
        BY <2>1, <4>1, <4>4, <4>5
    <3> QED
      BY <3>1, <3>2
  <2> QED
    BY <1>2, <2>3, <2>4
<1>8. ASSUME NEW r \in Request, LoginFails(r) PROVE Guessed'
  <2> DEFINE c == client[r]
  <2>1. /\ pc[r] = "wrong" /\ Goto(r, "idle") /\ UNCHANGED client /\ c \in Client
        /\ tracked' = tracked \cup {c}
    BY <1>1, <1>8 DEF LoginFails, RecordFailure
  <2>2. \A k \in Client : Comparing(k)' \subseteq Comparing(k)
    BY <1>4, <2>1
  <2>3. streak[c] = failures[c]
    BY <2>1 DEF Counted, FailuresKept
  <2>4. /\ late' \in [Client -> Nat]
        /\ \A k \in Client \ {c} : late'[k] = late[k] /\ lock'[k] = lock[k]
        /\ \/ late'[c] = 0
           \/ late'[c] = late[c] /\ lock'[c] = lock[c]
    BY <1>1, <1>8, <2>1, <2>3 DEF LoginFails, RecordFailure
  <2>5. ASSUME NEW k \in Client PROVE Held(k)
    <3>1. CASE late'[k] = late[k] /\ lock'[k] = lock[k]
      BY <2>1, <2>2, <3>1, GuessedKept
    <3>2. CASE k = c /\ late'[c] = 0
      <4>1. r \notin Comparing(k)' /\ Comparing(k)' \in SUBSET Request
        BY <1>1, <2>1 DEF Goto, Comparing
      <4>2. Cardinality(Comparing(k)') < Cardinality(Request) /\ Cardinality(Comparing(k)') \in Nat
        BY <4>1, ComparingSize
      <4> QED
        BY <2>1, <3>2, <4>2
    <3> QED
      BY <2>4, <3>1, <3>2
  <2> QED
    BY <1>2, <2>4, <2>5
<1>9. ASSUME NEW r \in Request, LoginSucceeds(r) PROVE Guessed'
  <2> DEFINE c == client[r]
  <2>1. /\ pc[r] = "right" /\ Goto(r, "create") /\ UNCHANGED client /\ c \in Client
        /\ tracked' = tracked \ {c} /\ lock' = [lock EXCEPT ![c] = 0]
        /\ late' = [late EXCEPT ![c] = 0]
    BY <1>1, <1>9 DEF LoginSucceeds, RecordSuccess
  <2>2. \A k \in Client : Comparing(k)' \subseteq Comparing(k)
    BY <1>4, <2>1
  <2>3. ASSUME NEW k \in Client PROVE Held(k)
    <3>1. CASE k = c
      BY <1>1, <2>1, <3>1
    <3>2. CASE k # c
      BY <1>1, <2>1, <2>2, <3>2, GuessedKept
    <3> QED
      BY <3>1, <3>2
  <2> QED
    BY <1>1, <1>2, <2>1, <2>3
<1>10. CASE Cleanup
  <2>1. UNCHANGED <<lock, late, pc, client>>
    BY <1>10 DEF Cleanup, PeriodicCleanup, store, history
  <2>2. \A k \in tracked : lock[k] > 0 => k \in tracked'
    BY <1>10 DEF Cleanup, PeriodicCleanup, store
  <2>3. ASSUME NEW k \in Client PROVE Held(k)
    BY <2>1, <2>2, GuessedKept DEF Comparing
  <2> QED
    BY <1>1, <1>2, <2>1, <2>3
<1>11. CASE Tick
  <2>1. UNCHANGED <<tracked, late, pc, client>> /\ \A k \in Client : lock'[k] > 0 => lock[k] > 0
    BY <1>1, <1>11 DEF Tick, SessionsTick
  <2>2. ASSUME NEW k \in Client PROVE Held(k)
    BY <2>1, GuessedKept DEF Comparing
  <2> QED
    BY <1>1, <1>2, <2>1, <2>2
<1>12. CASE UNCHANGED vars
  BY <1>3, <1>12 DEF vars, store, history, Comparing
<1> QED
  BY <1>5, <1>6, <1>7, <1>8, <1>9, <1>10, <1>11, <1>12 DEF Next

\* For any number of concurrent requests: although authLogin compares the password after it
\* has given up the store's mutex, a lockout admits fewer guesses than run at once.
THEOREM LateGuessesAreFew == Spec => []FewLateGuesses
<1> DEFINE Inv == TypeOK /\ Counted /\ Guessed
<1>1. Init => Inv
  BY TypeInit DEF Init, SessionsInit, Counted, FailuresKept, Guessed
<1>2. Inv /\ [Next]_vars => Inv'
  BY TypeNext, CountedNext, GuessedNext
<1>3. Inv => FewLateGuesses
  <2> SUFFICES ASSUME Inv, NEW k \in Client, Locked(k) PROVE late[k] < Cardinality(Request)
    BY DEF FewLateGuesses
  <2>1. late[k] + Cardinality(Comparing(k)) < Cardinality(Request) /\ late[k] \in Nat
    BY DEF Guessed, Locked
  <2>2. Comparing(k) \in SUBSET Request
    BY DEF Comparing
  <2>3. Cardinality(Comparing(k)) \in Nat /\ Cardinality(Request) \in Nat
    BY <2>2, ComparingSize
  <2> QED
    BY <2>1, <2>3
<1> QED
  BY <1>1, <1>2, <1>3, PTL DEF Spec

-----------------------------------------------------------------------------
(* What may end a session or a lockout.                                    *)

\* No cleanup, failed login or new session ends a session or lifts a lockout: only time,
\* the logout and the right password of the same client do.
THEOREM OnlyTimeOrOwner == Spec => NothingLiftedEarly
<1>1. ASSUME TypeOK, [Next]_vars, NEW t \in Token, Valid(t), ~Tick,
             ~ \E r \in Request : AuthLogout(r)
      PROVE  Valid(t)'
  <2>1. session \in [Token -> Absent .. TTL]
    BY <1>1 DEF TypeOK, SessionsTypeOK
  <2>2. CASE UNCHANGED session
    BY <1>1, <2>2 DEF Valid
  <2>3. ASSUME NEW r \in Request, OpenSession(r) PROVE Valid(t)'
    BY <1>1, <2>1, <2>3 DEF OpenSession, Create, Valid, Absent
  <2>4. CASE PeriodicCleanup
    BY <1>1, <2>4 DEF PeriodicCleanup, Valid
  <2>5. ASSUME NEW r \in Request,
               \/ Arrive(r) \/ OtherEndpoint(r) \/ CheckLock(r) \/ Compare(r)
               \/ LoginFails(r) \/ LoginSucceeds(r)
        PROVE  UNCHANGED session
    BY <2>5 DEF Arrive, OtherEndpoint, CheckLock, Compare, LoginFails, LoginSucceeds,
                RecordFailure, RecordSuccess, store
  <2> QED
    BY <1>1, <2>2, <2>3, <2>4, <2>5 DEF Next, Cleanup, vars, store
<1>2. ASSUME TypeOK, [Next]_vars, NEW k \in Client, Locked(k), ~Tick,
             ~ \E r \in Request : client[r] = k /\ LoginSucceeds(r)
      PROVE  Locked(k)'
  <2>1. /\ lock \in [Client -> 0 .. LockTicks] /\ tracked \subseteq Client
        /\ client \in [Request -> Client]
    BY <1>2 DEF TypeOK, SessionsTypeOK
  <2>2. CASE UNCHANGED <<tracked, lock>>
    BY <1>2, <2>2 DEF Locked
  <2>3. ASSUME NEW r \in Request, LoginFails(r) PROVE Locked(k)'
    <3>1. client[r] \in Client
      BY <2>1
    <3> QED
      BY <1>2, <2>1, <2>3, <3>1, Numbers DEF LoginFails, RecordFailure, Locked
  <2>4. ASSUME NEW r \in Request, LoginSucceeds(r) PROVE Locked(k)'
    <3>1. client[r] # k
      BY <1>2, <2>4
    <3> QED
      BY <1>2, <2>1, <2>4, <3>1 DEF LoginSucceeds, RecordSuccess, Locked
  <2>5. CASE PeriodicCleanup
    BY <1>2, <2>5 DEF PeriodicCleanup, Locked
  <2>6. ASSUME NEW r \in Request,
               \/ Arrive(r) \/ OtherEndpoint(r) \/ AuthLogout(r) \/ CheckLock(r) \/ Compare(r)
               \/ OpenSession(r)
        PROVE  UNCHANGED <<tracked, lock>>
    BY <2>6 DEF Arrive, OtherEndpoint, AuthLogout, CheckLock, Compare, OpenSession, Create,
                Delete, store
  <2> QED
    BY <1>2, <2>2, <2>3, <2>4, <2>5, <2>6 DEF Next, Cleanup, vars, store
<1>3. TypeOK /\ [Next]_vars =>
        [/\ \A t \in Token :
              Valid(t) => Valid(t)' \/ Tick \/ \E r \in Request : AuthLogout(r)
         /\ \A k \in Client :
              Locked(k) => \/ Locked(k)'
                           \/ Tick
                           \/ \E r \in Request : client[r] = k /\ LoginSucceeds(r)]_vars
  BY <1>1, <1>2
<1> QED
  BY <1>3, TypeCorrect, PTL DEF Spec, NothingLiftedEarly
=============================================================================
