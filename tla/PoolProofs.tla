----------------------------- MODULE PoolProofs -----------------------------
(***************************************************************************)
(* Proofs about Pool, for every finite set of callers, every set of        *)
(* connections and every MaxConns >= 1.                                    *)
(*                                                                         *)
(* The ceiling is not inductive by itself: a dial is only allowed because  *)
(* the caller saw an empty idle list while holding one of MaxConns tokens, *)
(* so the token count has to be tied to the callers first (Tokens).        *)
(***************************************************************************)
EXTENDS Pool, FiniteSetTheorems, TLAPS

\* The semaphore counts exactly the callers between acquire and release.
Tokens == sem = Cardinality(Holding)

\* A caller has a connection in hand exactly at these places, and only there can its
\* lease be marked broken.
Hands ==
  /\ \A c \in Caller : held[c] # NoClient <=> pc[c] \in {"discarding", "leased", "dropping"}
  /\ \A c \in broken : pc[c] \in {"leased", "dropping"}

Shape == Hands /\ Exclusive /\ NoDirtyReuse

Counts == IsFiniteSet(idle) /\ Tokens /\ Ceiling

\* The inductive invariant.
PoolInv == TypeOK /\ Shape /\ Counts

\* The two sets of callers that the counting is about are finite, and every caller
\* with a connection holds a token.
LEMMA CallerSetsFinite ==
  /\ IsFiniteSet(Holding) /\ Cardinality(Holding) \in Nat
  /\ IsFiniteSet(Connected) /\ Cardinality(Connected) \in Nat
  /\ Cardinality(Connected) <= Cardinality(Holding)
<1>1. Holding \in SUBSET Caller /\ Connected \in SUBSET Caller
  BY DEF Holding, Connected
<1>2. IsFiniteSet(Holding) /\ IsFiniteSet(Connected)
  BY <1>1, PoolAssumption, FS_Subset
<1>3. Connected \in SUBSET Holding
  BY DEF Holding, Connected
<1> QED
  BY <1>2, <1>3, FS_Subset, FS_CardinalityType

\* How a step of one caller changes the two sets.
LEMMA CallerSetsStep ==
  ASSUME TypeOK, NEW c \in Caller, NEW l \in Labels, Goto(c, l)
  PROVE  /\ Holding' = IF l \in {"out", "waiting"} THEN Holding \ {c} ELSE Holding \cup {c}
         /\ Connected' = IF l \in {"discarding", "dialing", "leased", "dropping"}
                         THEN Connected \cup {c} ELSE Connected \ {c}
         /\ c \in Holding <=> pc[c] \notin {"out", "waiting"}
         /\ c \in Connected <=> pc[c] \in {"discarding", "dialing", "leased", "dropping"}
BY DEF TypeOK, Goto, Holding, Connected

\* The same in numbers.
LEMMA CallerCountsStep ==
  ASSUME TypeOK, NEW c \in Caller, NEW l \in Labels, Goto(c, l)
  PROVE  /\ Cardinality(Holding') =
              Cardinality(Holding)
              + (IF l \in {"out", "waiting"} THEN 0 ELSE 1)
              - (IF pc[c] \in {"out", "waiting"} THEN 0 ELSE 1)
         /\ Cardinality(Connected') =
              Cardinality(Connected)
              + (IF l \in {"discarding", "dialing", "leased", "dropping"} THEN 1 ELSE 0)
              - (IF pc[c] \in {"discarding", "dialing", "leased", "dropping"} THEN 1 ELSE 0)
<1>1. /\ IsFiniteSet(Holding) /\ Cardinality(Holding) \in Nat
      /\ IsFiniteSet(Connected) /\ Cardinality(Connected) \in Nat
  BY CallerSetsFinite
<1>2. /\ Cardinality(Holding \cup {c}) =
           IF c \in Holding THEN Cardinality(Holding) ELSE Cardinality(Holding) + 1
      /\ Cardinality(Holding \ {c}) =
           IF c \in Holding THEN Cardinality(Holding) - 1 ELSE Cardinality(Holding)
  BY <1>1, FS_AddElement, FS_RemoveElement
<1>3. /\ Cardinality(Connected \cup {c}) =
           IF c \in Connected THEN Cardinality(Connected) ELSE Cardinality(Connected) + 1
      /\ Cardinality(Connected \ {c}) =
           IF c \in Connected THEN Cardinality(Connected) - 1 ELSE Cardinality(Connected)
  BY <1>1, FS_AddElement, FS_RemoveElement
<1>4. /\ Holding' = IF l \in {"out", "waiting"} THEN Holding \ {c} ELSE Holding \cup {c}
      /\ Connected' = IF l \in {"discarding", "dialing", "leased", "dropping"}
                      THEN Connected \cup {c} ELSE Connected \ {c}
      /\ c \in Holding <=> pc[c] \notin {"out", "waiting"}
      /\ c \in Connected <=> pc[c] \in {"discarding", "dialing", "leased", "dropping"}
  BY CallerSetsStep
<1> QED
  BY <1>1, <1>2, <1>3, <1>4

\* Steps that move no caller keep the two sets.
LEMMA CallerSetsKept ==
  ASSUME pc' = pc
  PROVE  Holding' = Holding /\ Connected' = Connected
BY DEF Holding, Connected

\* A caller past the semaphore accounts for a token, so <-p.sem never blocks.
LEMMA TokenHeld ==
  ASSUME Tokens, NEW c \in Caller, pc[c] \notin {"out", "waiting"}
  PROVE  sem >= 1
<1>1. c \in Holding
  BY DEF Holding
<1>2. Cardinality(Holding) \in Nat /\ Cardinality(Holding) - 1 \in Nat
  <2>1. IsFiniteSet(Holding) /\ Cardinality(Holding) \in Nat
    BY CallerSetsFinite
  <2>2. IsFiniteSet(Holding \ {c}) /\ Cardinality(Holding \ {c}) = Cardinality(Holding) - 1
    BY <1>1, <2>1, FS_RemoveElement
  <2> QED
    BY <2>1, <2>2, FS_CardinalityType
<1> QED
  BY <1>2 DEF Tokens

\* The initial state: no token, no connection.
LEMMA PoolInit == Init => PoolInv
<1> SUFFICES ASSUME Init PROVE PoolInv
  OBVIOUS
<1>1. TypeOK
  <2>1. pc \in [Caller -> Labels] /\ held \in [Caller -> Client \cup {NoClient}]
    BY DEF Init, Labels
  <2>2. sem \in 0 .. MaxConns
    BY PoolAssumption DEF Init
  <2>3. down \in BOOLEAN
    BY Zenon DEF Init
  <2> QED
    BY <2>1, <2>2, <2>3 DEF Init, TypeOK
<1>2. Shape
  BY DEF Init, Shape, Hands, Exclusive, NoDirtyReuse
<1>3. Holding = {} /\ Connected = {}
  BY DEF Init, Holding, Connected
<1>4. Counts
  BY <1>3, FS_EmptySet, PoolAssumption DEF Init, Counts, Tokens, Ceiling
<1> QED
  BY <1>1, <1>2, <1>4 DEF PoolInv

\* Types are preserved; that sem stays in 0..MaxConns needs the token count.
LEMMA TypeNext ==
  ASSUME PoolInv, [Next]_vars
  PROVE  TypeOK'
<1> USE DEF PoolInv, TypeOK, Labels
<1>1. ASSUME NEW c \in Caller, Call(c) PROVE TypeOK'
  BY <1>1 DEF Call, Goto
<1>2. ASSUME NEW c \in Caller, Acquire(c) PROVE TypeOK'
  BY <1>2, PoolAssumption DEF Acquire, Goto
<1>3. ASSUME NEW c \in Caller, GiveUp(c) PROVE TypeOK'
  BY <1>3 DEF GiveUp, Goto
<1>4. ASSUME NEW c \in Caller, Reuse(c) PROVE TypeOK'
  BY <1>4 DEF Reuse, Goto, Hold
<1>5. ASSUME NEW c \in Caller, Discard(c) PROVE TypeOK'
  BY <1>5 DEF Discard, Goto, Hold
<1>6. ASSUME NEW c \in Caller, FindNone(c) PROVE TypeOK'
  BY <1>6 DEF FindNone, Goto
<1>7. ASSUME NEW c \in Caller, Dial(c) PROVE TypeOK'
  BY <1>7 DEF Dial, Goto, Hold, InUse
<1>8. ASSUME NEW c \in Caller, DialFails(c) PROVE TypeOK'
  BY <1>8, TokenHeld, PoolAssumption DEF DialFails, Goto, Counts
<1>9. ASSUME NEW c \in Caller, CommandFails(c) PROVE TypeOK'
  BY <1>9 DEF CommandFails, Shape, Hands
<1>10. ASSUME NEW c \in Caller, ReleaseIdle(c) PROVE TypeOK'
  BY <1>10 DEF ReleaseIdle, Goto, Hold, Shape, Hands
<1>11. ASSUME NEW c \in Caller, ReleaseBroken(c) PROVE TypeOK'
  BY <1>11 DEF ReleaseBroken, Goto
<1>12. ASSUME NEW c \in Caller, CloseBroken(c) PROVE TypeOK'
  BY <1>12 DEF CloseBroken, Goto, Hold
<1>13. ASSUME NEW c \in Caller, GiveBack(c) PROVE TypeOK'
  BY <1>13, TokenHeld, PoolAssumption DEF GiveBack, Goto, Counts
<1>14. ASSUME NEW c \in Caller, CancelContext(c) PROVE TypeOK'
  BY <1>14 DEF CancelContext
<1>15. CASE Age
  BY <1>15 DEF Age
<1>16. CASE Reap
  BY <1>16 DEF Reap
<1>17. CASE CloseAll
  BY <1>17 DEF CloseAll
<1>18. CASE CloseOne
  BY <1>18 DEF CloseOne
<1>19. CASE UNCHANGED vars
  BY <1>19 DEF vars
<1> QED
  BY <1>1, <1>2, <1>3, <1>4, <1>5, <1>6, <1>7, <1>8, <1>9, <1>10,
     <1>11, <1>12, <1>13, <1>14, <1>15, <1>16, <1>17, <1>18, <1>19
     DEF Next, GetStep, DialStep, LeaseStep

\* Nobody gets a connection that another has, or a dirty one.
LEMMA ShapeNext ==
  ASSUME PoolInv, [Next]_vars
  PROVE  Shape'
<1> USE DEF PoolInv, TypeOK, Shape, Hands, Exclusive, NoDirtyReuse
<1>1. ASSUME NEW c \in Caller, Call(c) PROVE Shape'
  BY <1>1 DEF Call, Goto
<1>2. ASSUME NEW c \in Caller, Acquire(c) PROVE Shape'
  BY <1>2 DEF Acquire, Goto
<1>3. ASSUME NEW c \in Caller, GiveUp(c) PROVE Shape'
  BY <1>3 DEF GiveUp, Goto
<1>4. ASSUME NEW c \in Caller, Reuse(c) PROVE Shape'
  BY <1>4, PoolAssumption DEF Reuse, Goto, Hold
<1>5. ASSUME NEW c \in Caller, Discard(c) PROVE Shape'
  BY <1>5, PoolAssumption DEF Discard, Goto, Hold
<1>6. ASSUME NEW c \in Caller, FindNone(c) PROVE Shape'
  BY <1>6 DEF FindNone, Goto
<1>7. ASSUME NEW c \in Caller, Dial(c) PROVE Shape'
  BY <1>7, PoolAssumption DEF Dial, Goto, Hold, InUse
<1>8. ASSUME NEW c \in Caller, DialFails(c) PROVE Shape'
  BY <1>8 DEF DialFails, Goto
<1>9. ASSUME NEW c \in Caller, CommandFails(c) PROVE Shape'
  BY <1>9, PoolAssumption DEF CommandFails
<1>10. ASSUME NEW c \in Caller, ReleaseIdle(c) PROVE Shape'
  BY <1>10, PoolAssumption DEF ReleaseIdle, Goto, Hold
<1>11. ASSUME NEW c \in Caller, ReleaseBroken(c) PROVE Shape'
  BY <1>11 DEF ReleaseBroken, Goto
<1>12. ASSUME NEW c \in Caller, CloseBroken(c) PROVE Shape'
  BY <1>12, PoolAssumption DEF CloseBroken, Goto, Hold
<1>13. ASSUME NEW c \in Caller, GiveBack(c) PROVE Shape'
  BY <1>13 DEF GiveBack, Goto
<1>14. ASSUME NEW c \in Caller, CancelContext(c) PROVE Shape'
  BY <1>14 DEF CancelContext
<1>15. CASE Age
  BY <1>15 DEF Age
<1>16. CASE Reap
  BY <1>16, PoolAssumption DEF Reap
<1>17. CASE CloseAll
  BY <1>17, PoolAssumption DEF CloseAll
<1>18. CASE CloseOne
  BY <1>18 DEF CloseOne
<1>19. CASE UNCHANGED vars
  BY <1>19 DEF vars
<1> QED
  BY <1>1, <1>2, <1>3, <1>4, <1>5, <1>6, <1>7, <1>8, <1>9, <1>10,
     <1>11, <1>12, <1>13, <1>14, <1>15, <1>16, <1>17, <1>18, <1>19
     DEF Next, GetStep, DialStep, LeaseStep

\* Every step keeps the token count and the ceiling.  Only FindNone could break the
\* ceiling: its caller saw an empty list while holding one of the tokens.
LEMMA CountsNext ==
  ASSUME PoolInv, [Next]_vars
  PROVE  Counts'
<1> USE DEF PoolInv, TypeOK, Counts, Tokens, Ceiling
<1>1. ASSUME NEW c \in Caller, Call(c) PROVE Counts'
  <2>1. /\ Cardinality(Holding') = Cardinality(Holding)
        /\ Cardinality(Connected') = Cardinality(Connected)
    <3>1. Goto(c, "waiting") /\ "waiting" \in Labels /\ pc[c] = "out"
      BY <1>1 DEF Call, Labels
    <3> QED
      BY <3>1, CallerCountsStep, CallerSetsFinite
  <2> QED
    BY <1>1, <2>1, CallerSetsFinite, FS_CardinalityType, PoolAssumption DEF Call
<1>2. ASSUME NEW c \in Caller, Acquire(c) PROVE Counts'
  <2>1. /\ Cardinality(Holding') = Cardinality(Holding) + 1
        /\ Cardinality(Connected') = Cardinality(Connected)
    <3>1. Goto(c, "checking") /\ "checking" \in Labels /\ pc[c] = "waiting"
      BY <1>2 DEF Acquire, Labels
    <3> QED
      BY <3>1, CallerCountsStep, CallerSetsFinite
  <2> QED
    BY <1>2, <2>1, CallerSetsFinite, FS_CardinalityType, PoolAssumption DEF Acquire
<1>3. ASSUME NEW c \in Caller, GiveUp(c) PROVE Counts'
  <2>1. /\ Cardinality(Holding') = Cardinality(Holding)
        /\ Cardinality(Connected') = Cardinality(Connected)
    <3>1. Goto(c, "out") /\ "out" \in Labels /\ pc[c] = "waiting"
      BY <1>3 DEF GiveUp, Labels
    <3> QED
      BY <3>1, CallerCountsStep, CallerSetsFinite
  <2> QED
    BY <1>3, <2>1, CallerSetsFinite, FS_CardinalityType, PoolAssumption DEF GiveUp
<1>4. ASSUME NEW c \in Caller, Reuse(c) PROVE Counts'
  <2>1. PICK k \in idle : /\ idle' = idle \ {k}
                        /\ Goto(c, IF k \in stale THEN "discarding" ELSE "leased")
    BY <1>4 DEF Reuse
  <2>2. /\ Cardinality(Holding') = Cardinality(Holding)
        /\ Cardinality(Connected') = Cardinality(Connected) + 1
    <3>1. PICK l \in Labels : l \in {"discarding", "leased"} /\ Goto(c, l)
      BY <2>1 DEF Labels
    <3>2. pc[c] = "checking"
      BY <1>4 DEF Reuse
    <3> QED
      BY <3>1, <3>2, CallerCountsStep, CallerSetsFinite
  <2>3. /\ IsFiniteSet(idle')
        /\ Cardinality(idle) \in Nat
        /\ Cardinality(idle') = Cardinality(idle) - 1
    BY <2>1, FS_RemoveElement, FS_CardinalityType
  <2> QED
    BY <1>4, <2>2, <2>3, CallerSetsFinite, PoolAssumption DEF Reuse
<1>5. ASSUME NEW c \in Caller, Discard(c) PROVE Counts'
  <2>1. /\ Cardinality(Holding') = Cardinality(Holding)
        /\ Cardinality(Connected') = Cardinality(Connected) - 1
    <3>1. Goto(c, "checking") /\ "checking" \in Labels /\ pc[c] = "discarding"
      BY <1>5 DEF Discard, Labels
    <3> QED
      BY <3>1, CallerCountsStep, CallerSetsFinite
  <2> QED
    BY <1>5, <2>1, CallerSetsFinite, FS_CardinalityType, PoolAssumption DEF Discard
<1>6. ASSUME NEW c \in Caller, FindNone(c) PROVE Counts'
  <2>1. /\ Cardinality(Holding') = Cardinality(Holding)
        /\ Cardinality(Connected') = Cardinality(Connected) + 1
    <3>1. Goto(c, "dialing") /\ "dialing" \in Labels /\ pc[c] = "checking"
      BY <1>6 DEF FindNone, Labels
    <3> QED
      BY <3>1, CallerCountsStep, CallerSetsFinite
  <2>2. Cardinality(Connected) + 1 <= Cardinality(Holding)
    <3>1. Connected \cup {c} \in SUBSET Holding /\ c \notin Connected
      BY <1>6 DEF FindNone, Holding, Connected
    <3>2. Cardinality(Connected \cup {c}) = Cardinality(Connected) + 1
      BY <3>1, CallerSetsFinite, FS_AddElement
    <3> QED
      BY <3>1, <3>2, CallerSetsFinite, FS_Subset
  <2>3. Cardinality(idle) = 0 /\ idle' = idle
    BY <1>6, FS_EmptySet DEF FindNone
  <2> QED
    BY <1>6, <2>1, <2>2, <2>3, CallerSetsFinite, PoolAssumption DEF FindNone, TypeOK
<1>7. ASSUME NEW c \in Caller, Dial(c) PROVE Counts'
  <2>1. /\ Cardinality(Holding') = Cardinality(Holding)
        /\ Cardinality(Connected') = Cardinality(Connected)
    <3>1. Goto(c, "leased") /\ "leased" \in Labels /\ pc[c] = "dialing"
      BY <1>7 DEF Dial, Labels
    <3> QED
      BY <3>1, CallerCountsStep, CallerSetsFinite
  <2> QED
    BY <1>7, <2>1, CallerSetsFinite, FS_CardinalityType, PoolAssumption DEF Dial
<1>8. ASSUME NEW c \in Caller, DialFails(c) PROVE Counts'
  <2>1. /\ Cardinality(Holding') = Cardinality(Holding) - 1
        /\ Cardinality(Connected') = Cardinality(Connected) - 1
    <3>1. Goto(c, "out") /\ "out" \in Labels /\ pc[c] = "dialing"
      BY <1>8 DEF DialFails, Labels
    <3> QED
      BY <3>1, CallerCountsStep, CallerSetsFinite
  <2> QED
    BY <1>8, <2>1, CallerSetsFinite, FS_CardinalityType, PoolAssumption DEF DialFails
<1>9. ASSUME NEW c \in Caller, CommandFails(c) PROVE Counts'
  BY <1>9, CallerSetsKept DEF CommandFails
<1>10. ASSUME NEW c \in Caller, ReleaseIdle(c) PROVE Counts'
  <2>1. /\ Cardinality(Holding') = Cardinality(Holding)
        /\ Cardinality(Connected') = Cardinality(Connected) - 1
    <3>1. Goto(c, "returning") /\ "returning" \in Labels /\ pc[c] = "leased"
      BY <1>10 DEF ReleaseIdle, Labels
    <3> QED
      BY <3>1, CallerCountsStep, CallerSetsFinite
  <2>2. /\ IsFiniteSet(idle')
        /\ Cardinality(idle) \in Nat /\ Cardinality(idle') \in Nat
        /\ Cardinality(idle') <= Cardinality(idle) + 1
    <3>1. IsFiniteSet(idle) /\ idle' = idle \cup {held[c]}
      BY <1>10 DEF ReleaseIdle
    <3>2. Cardinality(idle) \in Nat
      BY <3>1, FS_CardinalityType
    <3>3. /\ IsFiniteSet(idle \cup {held[c]})
          /\ Cardinality(idle \cup {held[c]}) =
               IF held[c] \in idle THEN Cardinality(idle) ELSE Cardinality(idle) + 1
      BY <3>1, FS_AddElement
    <3> QED
      BY <3>1, <3>2, <3>3
  <2> QED
    BY <1>10, <2>1, <2>2, CallerSetsFinite, PoolAssumption DEF ReleaseIdle
<1>11. ASSUME NEW c \in Caller, ReleaseBroken(c) PROVE Counts'
  <2>1. /\ Cardinality(Holding') = Cardinality(Holding)
        /\ Cardinality(Connected') = Cardinality(Connected)
    <3>1. Goto(c, "dropping") /\ "dropping" \in Labels /\ pc[c] = "leased"
      BY <1>11 DEF ReleaseBroken, Labels
    <3> QED
      BY <3>1, CallerCountsStep, CallerSetsFinite
  <2> QED
    BY <1>11, <2>1, CallerSetsFinite, FS_CardinalityType, PoolAssumption DEF ReleaseBroken
<1>12. ASSUME NEW c \in Caller, CloseBroken(c) PROVE Counts'
  <2>1. /\ Cardinality(Holding') = Cardinality(Holding)
        /\ Cardinality(Connected') = Cardinality(Connected) - 1
    <3>1. Goto(c, "returning") /\ "returning" \in Labels /\ pc[c] = "dropping"
      BY <1>12 DEF CloseBroken, Labels
    <3> QED
      BY <3>1, CallerCountsStep, CallerSetsFinite
  <2> QED
    BY <1>12, <2>1, CallerSetsFinite, FS_CardinalityType, PoolAssumption DEF CloseBroken
<1>13. ASSUME NEW c \in Caller, GiveBack(c) PROVE Counts'
  <2>1. /\ Cardinality(Holding') = Cardinality(Holding) - 1
        /\ Cardinality(Connected') = Cardinality(Connected)
    <3>1. Goto(c, "out") /\ "out" \in Labels /\ pc[c] = "returning"
      BY <1>13 DEF GiveBack, Labels
    <3> QED
      BY <3>1, CallerCountsStep, CallerSetsFinite
  <2> QED
    BY <1>13, <2>1, CallerSetsFinite, FS_CardinalityType, PoolAssumption DEF GiveBack
<1>14. ASSUME NEW c \in Caller, CancelContext(c) PROVE Counts'
  BY <1>14, CallerSetsKept DEF CancelContext
<1>15. CASE Age
  BY <1>15, CallerSetsKept DEF Age
<1>16. CASE Reap
  <2>1. idle' \in SUBSET idle
    BY <1>16 DEF Reap
  <2>2. /\ IsFiniteSet(idle') /\ Cardinality(idle') <= Cardinality(idle)
        /\ Cardinality(idle) \in Nat /\ Cardinality(idle') \in Nat
    BY <2>1, FS_Subset, FS_CardinalityType
  <2> QED
    BY <1>16, <2>2, CallerSetsKept, CallerSetsFinite, PoolAssumption DEF Reap
<1>17. CASE CloseAll
  <2>1. idle' \in SUBSET idle
    BY <1>17 DEF CloseAll
  <2>2. /\ IsFiniteSet(idle') /\ Cardinality(idle') <= Cardinality(idle)
        /\ Cardinality(idle) \in Nat /\ Cardinality(idle') \in Nat
    BY <2>1, FS_Subset, FS_CardinalityType
  <2> QED
    BY <1>17, <2>2, CallerSetsKept, CallerSetsFinite, PoolAssumption DEF CloseAll
<1>18. CASE CloseOne
  BY <1>18, CallerSetsKept DEF CloseOne
<1>19. CASE UNCHANGED vars
  BY <1>19, CallerSetsKept DEF vars
<1> QED
  BY <1>1, <1>2, <1>3, <1>4, <1>5, <1>6, <1>7, <1>8, <1>9, <1>10,
     <1>11, <1>12, <1>13, <1>14, <1>15, <1>16, <1>17, <1>18, <1>19
     DEF Next, GetStep, DialStep, LeaseStep

\* The invariant is inductive, hence holds for ever.
LEMMA PoolInvariance == Spec => []PoolInv
<1>1. PoolInv /\ [Next]_vars => PoolInv'
  BY TypeNext, ShapeNext, CountsNext DEF PoolInv
<1> QED
  BY PoolInit, <1>1, PTL DEF Spec

\* Type correctness: in particular the semaphore count stays within 0..MaxConns.
THEOREM TypeCorrect == Spec => []TypeOK
BY PoolInvariance, PTL DEF PoolInv

\* NNTP_MAX_CONNS is a ceiling on the leases, dials and idle connections of Get,
\* Release, Reap and Close, for any number of callers.
THEOREM PoolCeiling == Spec => []Ceiling
BY PoolInvariance, PTL DEF PoolInv, Counts

\* A connection is in one hand at a time: one lease, the idle list or the reaper.
THEOREM PoolExclusive == Spec => []Exclusive
BY PoolInvariance, PTL DEF PoolInv, Shape

\* Get never hands out a connection on which a command failed (MarkBroken, Release).
THEOREM PoolNoDirtyReuse == Spec => []NoDirtyReuse
BY PoolInvariance, PTL DEF PoolInv, Shape

\* Before shutdown only one batch of Reap is being closed, and it was idle as a whole.
OneBatch == ~down => IsFiniteSet(closing) /\ Cardinality(closing) <= MaxConns

\* OneBatch is inductive relative to PoolInv: only Reap fills the batch while the pool is
\* up, and only when it is empty.
LEMMA OneBatchNext == PoolInv /\ OneBatch /\ [Next]_vars => OneBatch'
<1> SUFFICES ASSUME PoolInv, OneBatch, [Next]_vars, ~down'
             PROVE  (IsFiniteSet(closing) /\ Cardinality(closing) <= MaxConns)'
  BY DEF OneBatch
<1>1. CASE Reap
  <2>1. /\ closing' \subseteq idle /\ IsFiniteSet(idle)
        /\ Cardinality(idle) <= MaxConns - Cardinality(Connected)
    BY <1>1, CallerSetsFinite, FS_CardinalityType, PoolAssumption
    DEF Reap, PoolInv, TypeOK, Counts, Ceiling
  <2>2. IsFiniteSet(closing') /\ Cardinality(closing') <= Cardinality(idle)
    BY <2>1, FS_Subset
  <2> QED
    BY <2>1, <2>2, CallerSetsFinite, FS_CardinalityType, PoolAssumption
<1>2. CASE CloseOne
  <2>1. ~down
    BY <1>2 DEF CloseOne
  <2>2. closing' \subseteq closing /\ IsFiniteSet(closing) /\ Cardinality(closing) <= MaxConns
    BY <1>2, <2>1 DEF CloseOne, OneBatch
  <2>3. IsFiniteSet(closing') /\ Cardinality(closing') <= Cardinality(closing)
    BY <2>2, FS_Subset
  <2> QED
    BY <2>2, <2>3, FS_CardinalityType, PoolAssumption
<1>3. CASE UNCHANGED <<closing, down>>
  BY <1>3 DEF OneBatch
<1>4. CASE CloseAll
  BY <1>4 DEF CloseAll
<1>5. ASSUME NEW c \in Caller,
             \/ Call(c) \/ GetStep(c) \/ DialStep(c)
             \/ LeaseStep(c) \/ CommandFails(c) \/ CancelContext(c)
      PROVE  UNCHANGED <<closing, down>>
  BY <1>5 DEF Call, GetStep, DialStep, LeaseStep, CommandFails, CancelContext, Acquire, GiveUp,
    Reuse, Discard, FindNone, Dial, DialFails, ReleaseIdle, ReleaseBroken, CloseBroken, GiveBack
<1> QED
  BY <1>1, <1>2, <1>3, <1>4, <1>5 DEF Next, vars, Age

\* Until shutdown the provider never sees more than twice MaxConns connections, those
\* that Reap is still closing included.
THEOREM PoolUpstreamBound == Spec => []UpstreamBound
<1>1. Init => OneBatch
  BY FS_EmptySet, PoolAssumption DEF Init, OneBatch
<1>2. PoolInv /\ OneBatch => UpstreamBound
  <2> SUFFICES ASSUME PoolInv, OneBatch, ~down
               PROVE  Cardinality(idle) + Cardinality(Connected) + Cardinality(closing) <= 2 * MaxConns
    BY DEF UpstreamBound
  <2>1. /\ Cardinality(idle) \in Nat /\ Cardinality(Connected) \in Nat
        /\ Cardinality(closing) \in Nat
    BY CallerSetsFinite, FS_CardinalityType DEF PoolInv, Counts, OneBatch
  <2>2. Cardinality(idle) + Cardinality(Connected) <= MaxConns /\ Cardinality(closing) <= MaxConns
    BY DEF PoolInv, Counts, Ceiling, OneBatch
  <2> QED
    BY <2>1, <2>2, PoolAssumption
<1> QED
  BY <1>1, <1>2, OneBatchNext, PoolInvariance, PTL DEF Spec
=============================================================================
