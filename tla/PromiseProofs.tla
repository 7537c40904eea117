---------------------------- MODULE PromiseProofs ----------------------------
(***************************************************************************)
(* Proof that the workers of Sync, in mark mode and without retention,     *)
(* implement the promise of Index: every step of a worker, of the API, of  *)
(* the provider or of a restart is a step of Index or changes nothing it   *)
(* sees.                                                                   *)
(***************************************************************************)
EXTENDS SyncProofs

\* Every row is of an acceptable article the group has offered.
RowsOffered == spots \subseteq {n \in 1 .. last : Accepted(group[n])}

\* What the refinement rests on.
Faithful == Sourced /\ RingHides /\ MarkOnly /\ RowsOffered

-----------------------------------------------------------------------------
(* The kinds of steps, as Index sees them.                                 *)

\* A step that leaves the group, the rows, the flags and the withdrawals alone.
LEMMA UnseenStep ==
  ASSUME UNCHANGED <<group, last, spots, moderated, withdrawn>>
  PROVE  UNCHANGED Promise!vars
<1>1. UNCHANGED Visible
  BY DEF Visible
<1>2. UNCHANGED {n \in 1 .. last : Accepted(group[n])}
  OBVIOUS
<1>3. UNCHANGED {t \in Num : Entitled(t)}
  BY DEF Entitled, Entitles
<1> QED
  BY <1>1, <1>2, <1>3 DEF Promise!vars

\* The provider posts articles; what was offered or entitled remains so.
LEMMA ProviderPosts ==
  ASSUME TypeOK, TypeOK', Provider
  PROVE  Promise!Post
<1>1. group' = group /\ last' >= last /\ UNCHANGED <<spots, moderated, withdrawn>>
  BY SpotnetAssumption DEF Provider, Arrive, Expire, storeVars, tables, TypeOK, UsenetTypeOK
<1>2. last \in Nat /\ last' \in Nat
  BY SpotnetAssumption DEF TypeOK, UsenetTypeOK
<1>3. {n \in 1 .. last : Accepted(group[n])} \subseteq {n \in 1 .. last' : Accepted(group'[n])}
  BY <1>1, <1>2
<1>4. {t \in Num : Entitled(t)} \subseteq {t \in Num : Entitled(t)}'
  BY <1>1, EntitledKept
<1>5. UNCHANGED <<Visible, withdrawn>>
  BY <1>1 DEF Visible
<1> QED
  BY <1>3, <1>4, <1>5 DEF Promise!Post

\* Inserting what an overview offers publishes it, unless the ring keeps it out.
LEMMA InsertPublishes ==
  ASSUME RingHides, UNCHANGED <<group, last, withdrawn>>,
         NEW ids, ids \subseteq {n \in 1 .. last : Accepted(group[n])}, InsertSpots(ids)
  PROVE  Promise!Publish
<1>1. Visible \subseteq Visible' /\ Visible' \ Visible \subseteq ids \ ring
  BY DEF InsertSpots, Visible
<1>2. withdrawn \subseteq ring
  BY DEF RingHides
<1>3. UNCHANGED {n \in 1 .. last : Accepted(group[n])} /\ UNCHANGED {t \in Num : Entitled(t)}
  BY DEF Entitled, Entitles
<1>4. Visible' \ Visible \subseteq {n \in 1 .. last : Accepted(group[n])} \ withdrawn
  BY <1>1, <1>2
<1> QED
  BY <1>1, <1>3, <1>4 DEF Promise!Publish

\* Removing rows is a purge, where purging is configured.
LEMMA DeletePurges ==
  ASSUME UNCHANGED <<group, last, withdrawn>>, Blacklist # {} \/ RetentionDays > 0,
         NEW ids, DeleteRows(ids)
  PROVE  Promise!Purge
<1>1. Visible' \subseteq Visible
  BY DEF DeleteRows, Visible
<1>2. UNCHANGED {n \in 1 .. last : Accepted(group[n])} /\ UNCHANGED {t \in Num : Entitled(t)}
  BY DEF Entitled, Entitles
<1> QED
  BY <1>1, <1>2 DEF Promise!Purge

\* Marking what applyModeration queued withdraws it, and nothing else disappears.
LEMMA MarkWithdraws ==
  ASSUME TypeOK, Faithful, UNCHANGED usenet, NEW w \in Moderating, ApplyMark(w)
  PROVE  Promise!Withdraw
<1> DEFINE T == job[w].targets
<1>1. T \subseteq Num /\ \A t \in T : Entitled(t)
  BY DEF Faithful, Sourced, TargetsEntitled, TypeOK, Worker, Job
<1>2. withdrawn' = withdrawn \cup T /\ MarkModerated(T, now)
  BY DEF ApplyMark
<1>3. withdrawn \cap Visible = {}
  BY DEF Faithful, RingHides
<1>4. Visible' = Visible \ (withdrawn \cup T)
  BY <1>2, <1>3 DEF MarkModerated, Visible
<1>5. UNCHANGED {n \in 1 .. last : Accepted(group[n])} /\ UNCHANGED {t \in Num : Entitled(t)}
  BY DEF Entitled, Entitles, usenet
<1>6. T \subseteq {t \in Num : Entitled(t)}
  BY <1>1
<1> QED
  BY <1>2, <1>4, <1>5, <1>6 DEF Promise!Withdraw

-----------------------------------------------------------------------------
(* Every step.                                                             *)

\* What the forward sync and the backfill insert was offered.
LEMMA InsertedOffered ==
  ASSUME TypeOK, NEW from, NEW to
  PROVE  {n \in Overview(from, to) : Accepted(group[n])}
           \subseteq {n \in 1 .. last : Accepted(group[n])}
BY OverviewPosted, SpotnetAssumption DEF Num, TypeOK, UsenetTypeOK

\* Each step outside applyModeration, as a step of Index, with what it does to the rows.
LEMMA OtherKeepsPromise ==
  ASSUME RetentionDays = 0, TypeOK, TypeOK', Faithful, [Next]_vars,
         ~Moderate("forward"), ~Moderate("sweep")
  PROVE  /\ [Promise!Next]_(Promise!vars)
         /\ \/ spots' \subseteq spots
            \/ \E from, to : spots' \subseteq
                 spots \cup {n \in Overview(from, to) : Accepted(group[n])}
<1>1. ASSUME UNCHANGED <<group, last, spots, moderated, withdrawn>>
      PROVE  [Promise!Next]_(Promise!vars) /\ spots' \subseteq spots
  BY <1>1, UnseenStep
<1>2. ASSUME NEW from, NEW to, UNCHANGED <<usenet, withdrawn>>,
             \/ InsertSpots({n \in Overview(from, to) : Accepted(group[n])})
             \/ UNCHANGED tables
      PROVE  /\ [Promise!Next]_(Promise!vars)
             /\ spots' \subseteq spots \cup {n \in Overview(from, to) : Accepted(group[n])}
  <2>1. CASE UNCHANGED tables
    BY <1>1, <1>2, <2>1 DEF usenet, tables
  <2>2. CASE InsertSpots({n \in Overview(from, to) : Accepted(group[n])})
    <3>1. Promise!Publish
      BY <1>2, <2>2, InsertPublishes, InsertedOffered DEF Faithful, usenet
    <3> QED
      BY <2>2, <3>1 DEF InsertSpots, Promise!Next
  <2> QED
    BY <1>2, <2>1, <2>2
<1>3. CASE ReadChunk
  <2>1. /\ UNCHANGED <<usenet, withdrawn>>
        /\ \/ InsertSpots({n \in Overview(job["forward"].from, ChunkTo) : Accepted(group[n])})
           \/ UNCHANGED tables
    BY <1>3 DEF ReadChunk, context
  <2> QED
    BY <1>2, <2>1
<1>4. CASE BackfillChunk
  <2>1. /\ UNCHANGED <<usenet, withdrawn>>
        /\ \/ InsertSpots({n \in Overview(BackfillFrom, backfillArticle - 1) : Accepted(group[n])})
           \/ UNCHANGED tables
    BY <1>4 DEF BackfillChunk, context
  <2> QED
    BY <1>2, <2>1
<1>5. CASE BeginPass \/ ReadChunkFails \/ Checkpoint
  BY <1>1, <1>5 DEF BeginPass, ReadChunkFails, Checkpoint, context, usenet, storeVars, tables
<1>6. CASE BackfillDone \/ BackfillFails \/ BackfillCheckpoint
  BY <1>1, <1>6 DEF BackfillDone, BackfillFails, BackfillCheckpoint, context, usenet, storeVars,
                    tables
<1>7. CASE SweepDone \/ SweepChunk \/ SweepFails \/ SweepCheckpoint
  BY <1>1, <1>7 DEF SweepDone, SweepChunk, SweepFails, SweepCheckpoint, context, usenet,
                    storeVars, tables
<1>8. CASE Maintain
  <2>1. PurgeBlacklist \/ MaintainFails
    BY <1>8 DEF Maintain, ApplyRetention, PruneRing, Faithful, MarkOnly, Worker
  <2>2. CASE MaintainFails
    BY <1>1, <2>2 DEF MaintainFails, maintained, usenet, tables
  <2>3. CASE PurgeBlacklist
    <3>1. /\ Blacklist # {} \/ RetentionDays > 0
          /\ DeleteRows({n \in spots : owner[n] \in Blacklist})
          /\ UNCHANGED <<group, last, withdrawn>>
      BY <2>3 DEF PurgeBlacklist, maintained, usenet
    <3>2. Promise!Purge
      BY <3>1, DeletePurges
    <3> QED
      BY <3>1, <3>2 DEF DeleteRows, Promise!Next
  <2> QED
    BY <2>1, <2>2, <2>3
<1>9. ASSUME NEW n \in Num, Enrich(n)
      PROVE  [Promise!Next]_(Promise!vars) /\ spots' \subseteq spots
  BY <1>1, <1>9 DEF Enrich, SetSpotOwner, context, usenet
<1>10. CASE Tick \/ Restart \/ UNCHANGED vars
  BY <1>1, <1>10 DEF Tick, Restart, vars, usenet, storeVars, tables
<1>11. CASE Provider
  <2>1. spots' = spots
    BY <1>11 DEF Provider, storeVars, tables
  <2> QED
    BY <1>11, <2>1, ProviderPosts DEF Promise!Next
<1> QED
  BY <1>3, <1>4, <1>5, <1>6, <1>7, <1>8, <1>9, <1>10, <1>11
     DEF Next, Forward, Backfill, Sweep

\* applyModeration in mark mode: its database call is a withdrawal, the rest is not seen.
LEMMA ModerationKeepsPromise ==
  ASSUME TypeOK, Faithful, NEW w \in Moderating, Moderate(w)
  PROVE  [Promise!Next]_(Promise!vars) /\ spots' = spots
<1>1. UNCHANGED <<usenet, group, last>>
  BY DEF Moderate, usenet
<1>2. ASSUME UNCHANGED withdrawn, UNCHANGED tables \/ \E n, k : SetSpotOwner(n, k)
      PROVE  [Promise!Next]_(Promise!vars) /\ spots' = spots
  <2>1. UNCHANGED <<spots, moderated>>
    BY <1>2 DEF tables, SetSpotOwner
  <2> QED
    BY <1>1, <1>2, <2>1, UnseenStep
<1>3. ASSUME NEW c \in job[w].cmds,
             Judge(w, c) \/ LookupOwner(w, c) \/ LookupFails(w, c) \/ TargetReadFails(w, c)
      PROVE  [Promise!Next]_(Promise!vars) /\ spots' = spots
  <2>1. UNCHANGED withdrawn /\ (UNCHANGED tables \/ \E n, k : SetSpotOwner(n, k))
    BY <1>3 DEF Judge, LookupOwner, LookupFails, TargetReadFails
  <2> QED
    BY <1>2, <2>1
<1>4. CASE NothingToApply(w) \/ ApplyFails(w)
  BY <1>2, <1>4 DEF NothingToApply, ApplyFails
<1>5. CASE ApplyMark(w)
  <2>1. Promise!Withdraw
    BY <1>1, <1>5, MarkWithdraws
  <2> QED
    BY <1>5, <2>1 DEF Promise!Next, ApplyMark, MarkModerated
<1>6. ~ApplyDelete(w) /\ ~RecordDeleted(w)
  BY DEF ApplyDelete, RecordDeleted, Faithful, MarkOnly, Worker
<1> QED
  BY <1>3, <1>4, <1>5, <1>6 DEF Moderate, ApplyModeration

\* Rows stay among what was offered.
LEMMA RowsOfferedNext ==
  ASSUME TypeOK, TypeOK', RowsOffered, [Next]_vars,
         \/ spots' \subseteq spots
         \/ \E from, to : spots' \subseteq
              spots \cup {n \in Overview(from, to) : Accepted(group[n])}
  PROVE  RowsOffered'
<1>1. group' = group /\ last' >= last
  BY GroupGrows
<1>2. last \in Nat /\ last' \in Nat
  BY SpotnetAssumption DEF TypeOK, UsenetTypeOK
<1>3. {n \in 1 .. last : Accepted(group[n])} \subseteq {n \in 1 .. last' : Accepted(group'[n])}
  BY <1>1, <1>2
<1>4. spots' \subseteq {n \in 1 .. last : Accepted(group[n])}
  BY InsertedOffered DEF RowsOffered
<1> QED
  BY <1>3, <1>4 DEF RowsOffered

\* The forward sync, the backfill, the sweep, the blacklist, the API and restarts together
\* implement Index in mark mode without retention: a spot is listed only if the group
\* offered it and it was not withdrawn before, it disappears only by an entitled withdrawal
\* or the blacklist, and a withdrawn one never returns.
THEOREM SyncImplementsIndex ==
  ASSUME "delete" \notin Modes, RetentionDays = 0
  PROVE  Spec => KeepsPromise
<1>1. Init => Faithful /\ Promise!Init
  <2> SUFFICES ASSUME Init PROVE Faithful /\ Promise!Init
    OBVIOUS
  <2>1. RingHides /\ MarkOnly /\ withdrawn = {} /\ moderated = {}
    <3>1. \A w \in Worker : StartPC(mode)[w] \in {"wait", "chunk", "disabled"}
      BY DEF StartPC
    <3> QED
      BY <3>1 DEF Init, InitialStore, RingHides, MarkOnly
  <2>2. RowsOffered
    <3>1. last = InitialLast /\ InitialLast \in Nat
      BY UsenetAssumption, SpotnetAssumption DEF Init, UsenetInit
    <3>2. CASE Upgraded
      BY <3>1, <3>2 DEF Init, InitialStore, RowsOffered
    <3>3. CASE ~Upgraded
      BY <3>3 DEF Init, InitialStore, RowsOffered
    <3> QED
      BY <3>2, <3>3
  <2>3. Promise!Init
    BY <2>1, <2>2 DEF Promise!Init, RowsOffered, Visible
  <2> QED
    BY <2>1, <2>2, <2>3, SourcedInit DEF Faithful
<1>2. ASSUME TypeOK, TypeOK', Faithful, [Next]_vars
      PROVE  Faithful' /\ [Promise!Next]_(Promise!vars)
  <2>1. Sourced' /\ RingHides' /\ MarkOnly'
    BY <1>2, SourcedNext, RingHidesNext DEF Faithful
  <2>2. /\ [Promise!Next]_(Promise!vars)
        /\ \/ spots' \subseteq spots
           \/ \E from, to : spots' \subseteq
                spots \cup {n \in Overview(from, to) : Accepted(group[n])}
    <3>1. CASE Moderate("forward") \/ Moderate("sweep")
      BY <1>2, <3>1, ModerationKeepsPromise DEF Moderating
    <3>2. CASE ~Moderate("forward") /\ ~Moderate("sweep")
      BY <1>2, <3>2, OtherKeepsPromise
    <3> QED
      BY <3>1, <3>2
  <2>3. RowsOffered'
    BY <1>2, <2>2, RowsOfferedNext DEF Faithful
  <2> QED
    BY <2>1, <2>2, <2>3 DEF Faithful
<1>3. TypeOK /\ Faithful /\ [Next]_vars => (TypeOK /\ Faithful)' /\ [Promise!Next]_(Promise!vars)
  BY <1>2, TypeNext
<1> QED
  BY TypeInit, <1>1, <1>3, PTL DEF Spec, KeepsPromise, Promise!Spec
=============================================================================
