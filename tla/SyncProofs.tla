----------------------------- MODULE SyncProofs -----------------------------
(***************************************************************************)
(* Proofs about Sync, for every newsgroup, chunk size, number of articles, *)
(* number of failures and number of restarts.                              *)
(***************************************************************************)
EXTENDS Sync, WellFoundedInduction, TLAPS

-----------------------------------------------------------------------------
(* The operators that choose an extreme element, and the clamps.           *)

\* A non-empty set of natural numbers has a least element.
LEMMA LeastElement ==
  ASSUME NEW S \in SUBSET Nat, S # {}
  PROVE  \E x \in S : \A y \in S : x <= y
<1> DEFINE R == OpToRel(<, Nat)
<1>1. IsWellFoundedOn(R, Nat)
  BY NatLessThanWellFounded
<1>2. PICK x \in S : \A y \in S : ~ (<<y, x>> \in R)
  <2> HIDE DEF R
  <2> QED
    BY <1>1, WFMin
<1>3. ASSUME NEW y \in S PROVE x <= y
  <2>1. <<y, x>> \in Nat \X Nat /\ ~ (<<y, x>> \in R)
    BY <1>2, <1>3
  <2>2. ~ (y < x)
    BY <2>1 DEF OpToRel
  <2> QED
    BY <2>2, <1>3
<1> QED
  BY <1>2, <1>3

\* MinOf returns an element of its argument that is below all others.
LEMMA MinOfIsLeast ==
  ASSUME NEW S \in SUBSET Nat, S # {}
  PROVE  MinOf(S) \in S /\ \A y \in S : MinOf(S) <= y
BY LeastElement DEF MinOf

\* MaxOf returns an element of its argument that is above all others.
LEMMA MaxOfIsGreatest ==
  ASSUME NEW N \in Nat, NEW S \in SUBSET (0 .. N), S # {}
  PROVE  MaxOf(S) \in S /\ \A y \in S : MaxOf(S) >= y
<1> DEFINE T == {N - y : y \in S}
<1>1. T \in SUBSET Nat /\ T # {}
  <2>1. PICK y \in S : TRUE
    OBVIOUS
  <2>2. N - y \in T
    OBVIOUS
  <2> QED
    BY <2>2
<1>2. PICK z \in T : \A u \in T : z <= u
  BY <1>1, LeastElement
<1>3. PICK x \in S : z = N - x
  BY <1>2
<1>4. \A y \in S : x >= y
  BY <1>2, <1>3
<1> QED
  BY <1>3, <1>4 DEF MaxOf

-----------------------------------------------------------------------------
(* Types.                                                                  *)

TablesOK ==
  /\ spots \subseteq Num
  /\ moderated \subseteq spots
  /\ owner \in [Num -> Key]
  /\ ring \subseteq Num
  /\ stamp \in [Num -> Nat]
  /\ indexed \subseteq Num

MarksOK ==
  /\ lastArticle \in 0 .. NumArticles
  /\ backfillArticle \in 0 .. NumArticles
  /\ sweepArticle \in 0 .. NumArticles

LocalsOK ==
  /\ pc \in [Worker -> Labels]
  /\ job \in [Worker -> Job]
  /\ failures \in Nat

FaultsOK == netFaults \in Nat /\ dbFaults \in Nat

RestOK ==
  /\ mode \in {"off", "mark", "delete"}
  /\ now \in Nat
  /\ withdrawn \subseteq Num
  /\ cutoff \in Nat
  /\ restarts \in Nat
  /\ syncStart \in Nat

\* The type invariant, by groups of variables that the operators change together.
LEMMA TypeParts ==
  TypeOK <=> UsenetTypeOK /\ TablesOK /\ MarksOK /\ LocalsOK /\ FaultsOK /\ RestOK
BY DEF TypeOK, StoreTypeOK, TablesOK, MarksOK, LocalsOK, FaultsOK, RestOK

\* The same of the next state.
LEMMA TypePartsPrime ==
  TypeOK' <=> UsenetTypeOK' /\ TablesOK' /\ MarksOK' /\ LocalsOK' /\ FaultsOK' /\ RestOK'
BY DEF TypeOK, StoreTypeOK, TablesOK, MarksOK, LocalsOK, FaultsOK, RestOK

\* Steps that leave a group of variables alone keep its type.
LEMMA TypesKept ==
  /\ UsenetTypeOK /\ UNCHANGED usenet => UsenetTypeOK'
  /\ TablesOK /\ UNCHANGED tables => TablesOK'
  /\ MarksOK /\ UNCHANGED syncState => MarksOK'
  /\ LocalsOK /\ UNCHANGED <<pc, job, failures>> => LocalsOK'
  /\ FaultsOK /\ UNCHANGED faults => FaultsOK'
BY DEF UsenetTypeOK, usenet, TablesOK, tables, MarksOK, syncState, LocalsOK, FaultsOK, faults

\* Every database call keeps the types of the tables.
LEMMA TableOperations ==
  ASSUME TablesOK
  PROVE  /\ \A ids \in SUBSET Num : InsertSpots(ids) => TablesOK'
         /\ \A ids \in SUBSET Num, t \in Nat : MarkModerated(ids, t) => TablesOK'
         /\ \A ids \in SUBSET Num : DeleteRows(ids) => TablesOK'
         /\ \A n \in Num, k \in Key : SetSpotOwner(n, k) => TablesOK'
         /\ \A t \in Nat : PruneModeratedRing(t) => TablesOK'
<1> USE DEF TablesOK
<1>1. \A ids \in SUBSET Num : InsertSpots(ids) => TablesOK'
  BY DEF InsertSpots, Key
<1>2. \A ids \in SUBSET Num, t \in Nat : MarkModerated(ids, t) => TablesOK'
  BY DEF MarkModerated
<1>3. \A ids \in SUBSET Num : DeleteRows(ids) => TablesOK'
  BY DEF DeleteRows, Key
<1>4. \A n \in Num, k \in Key : SetSpotOwner(n, k) => TablesOK'
  BY DEF SetSpotOwner
<1>5. \A t \in Nat : PruneModeratedRing(t) => TablesOK'
  BY DEF PruneModeratedRing
<1> QED
  BY <1>1, <1>2, <1>3, <1>4, <1>5

\* The injected failures are counted.
LEMMA FaultOperations ==
  ASSUME FaultsOK, NetFault \/ DBFault
  PROVE  FaultsOK'
BY DEF FaultsOK, NetFault, DBFault

\* What a worker does to its locals.
LEMMA LocalOperations ==
  ASSUME LocalsOK
  PROVE  /\ \A w \in Moderating : Abandon(w) => LocalsOK'
         /\ \A w \in Moderating : Return(w) => LocalsOK'
         /\ \A w \in Worker, l \in Labels, j \in Job :
              Goto(w, l) /\ SetJob(w, j) /\ UNCHANGED failures => LocalsOK'
         /\ \A w \in Worker, l \in Labels :
              Goto(w, l) /\ UNCHANGED <<job, failures>> => LocalsOK'
<1> USE DEF LocalsOK, Goto, SetJob, Worker, Moderating
<1>1. NoJob \in Job
  BY SpotnetAssumption DEF NoJob, Job
<1>2. ASSUME NEW w \in Moderating, Abandon(w) PROVE LocalsOK'
  BY <1>1, <1>2 DEF Abandon, Labels
<1>3. ASSUME NEW w \in Moderating, Return(w) PROVE LocalsOK'
  <2>1. [job[w] EXCEPT !.targets = {}] \in Job
    BY DEF Job
  <2> QED
    BY <1>2, <1>3, <2>1 DEF Return, Labels
<1>4. ASSUME NEW w \in Worker, NEW l \in Labels, NEW j \in Job,
             Goto(w, l), SetJob(w, j), UNCHANGED failures
      PROVE  LocalsOK'
  BY <1>4
<1>5. ASSUME NEW w \in Worker, NEW l \in Labels, Goto(w, l), UNCHANGED <<job, failures>>
      PROVE  LocalsOK'
  BY <1>5
<1> QED
  BY <1>2, <1>3, <1>4, <1>5
\* applyModeration keeps the types of everything it touches.
LEMMA ModerationTypes ==
  ASSUME TypeOK, NEW w \in Moderating, ApplyModeration(w)
  PROVE  TablesOK' /\ LocalsOK' /\ FaultsOK' /\ withdrawn' \subseteq Num
<1> DEFINE Goal == TablesOK' /\ LocalsOK' /\ FaultsOK' /\ withdrawn' \subseteq Num
<1>1. TablesOK /\ LocalsOK /\ FaultsOK /\ UsenetTypeOK /\ now \in Nat /\ withdrawn \subseteq Num
  BY TypeParts DEF RestOK
<1>2. /\ w \in Worker /\ job[w] \in Job
      /\ job[w].cmds \subseteq Num /\ job[w].targets \subseteq Num
  BY <1>1 DEF LocalsOK, Job, Worker
<1>3. ASSUME NEW c \in job[w].cmds
      PROVE  /\ group[c] \in Article /\ group[c].target \in Num /\ group[c].key \in Key
             /\ ParseDispose(group[c]).target = group[c].target
  BY <1>1, <1>2, <1>3 DEF UsenetTypeOK, Article, ParseDispose
<1>4. ASSUME NEW c \in job[w].cmds, NEW accept, NEW err \in BOOLEAN, Settle(w, c, accept, err)
      PROVE  LocalsOK'
  <2> DEFINE j == [job[w] EXCEPT !.cmds = @ \ {c},
                                 !.targets = IF accept THEN @ \cup {group[c].target} ELSE @,
                                 !.lookupErr = @ \/ err]
  <2>1. j.lookupErr \in BOOLEAN
    BY <1>2, <1>4 DEF Job
  <2>2. j \in Job
    BY <1>2, <1>3, <2>1 DEF Job
  <2>3. job' = [job EXCEPT ![w] = j] /\ pc' = pc /\ failures' = failures
    BY <1>4 DEF Settle, SetJob
  <2> HIDE DEF j
  <2> QED
    BY <1>1, <1>2, <2>2, <2>3 DEF LocalsOK
<1>5. ASSUME NEW c \in job[w].cmds, Judge(w, c) PROVE Goal
  <2>1. LocalsOK'
    BY <1>4, <1>5 DEF Judge
  <2> QED
    BY <1>1, <1>5, <2>1, TypesKept DEF Judge
<1>6. ASSUME NEW c \in job[w].cmds, LookupOwner(w, c) PROVE Goal
  <2>1. LocalsOK'
    BY <1>4, <1>6 DEF LookupOwner
  <2>2. TablesOK'
    <3>1. UNCHANGED tables \/ SetSpotOwner(group[c].target, UserKey(group[c].target))
      BY <1>3, <1>6 DEF LookupOwner
    <3>2. UserKey(group[c].target) \in Key
      BY <1>1, <1>3 DEF UserKey, UsenetTypeOK, Article
    <3> QED
      BY <1>1, <1>3, <3>1, <3>2, TypesKept, TableOperations
  <2> QED
    BY <1>1, <1>6, <2>1, <2>2, TypesKept DEF LookupOwner
<1>7. ASSUME NEW c \in job[w].cmds, LookupFails(w, c) PROVE Goal
  <2>1. LocalsOK'
    BY <1>4, <1>7 DEF LookupFails
  <2>2. FaultsOK'
    BY <1>1, <1>7, FaultOperations, TypesKept DEF LookupFails
  <2> QED
    BY <1>1, <1>7, <2>1, <2>2, TypesKept DEF LookupFails
<1>8. ASSUME NEW c \in job[w].cmds, TargetReadFails(w, c) PROVE Goal
  BY <1>1, <1>8, FaultOperations, LocalOperations, TypesKept DEF TargetReadFails
<1>9. CASE NothingToApply(w)
  BY <1>1, <1>9, LocalOperations, TypesKept DEF NothingToApply
<1>10. CASE ApplyMark(w)
  BY <1>1, <1>2, <1>10, TableOperations, LocalOperations, TypesKept DEF ApplyMark
<1>11. CASE ApplyDelete(w)
  <2>1. LocalsOK'
    BY <1>1, <1>2, <1>11, LocalOperations DEF ApplyDelete, Labels
  <2> QED
    BY <1>1, <1>2, <1>11, <2>1, TableOperations, TypesKept
       DEF ApplyDelete, DeleteSpotsByMessageID
<1>12. CASE RecordDeleted(w)
  BY <1>1, <1>2, <1>12, TableOperations, LocalOperations, TypesKept DEF RecordDeleted
<1>13. CASE ApplyFails(w)
  BY <1>1, <1>13, FaultOperations, LocalOperations, TypesKept DEF ApplyFails
<1> QED
  BY <1>5, <1>6, <1>7, <1>8, <1>9, <1>10, <1>11, <1>12, <1>13 DEF ApplyModeration
\* The article numbers of an overview, and the range the sweep reads next.
LEMMA OverviewNumbers ==
  ASSUME NEW from, NEW to
  PROVE  /\ Overview(from, to) \in SUBSET Num
         /\ Overview(from, to) # {} => MaxOf(Overview(from, to)) \in Num
<1>1. Overview(from, to) \in SUBSET Num
  BY DEF Overview
<1>2. Num \in SUBSET (0 .. NumArticles) /\ NumArticles \in Nat
  BY SpotnetAssumption DEF Num
<1>3. ASSUME Overview(from, to) # {} PROVE MaxOf(Overview(from, to)) \in Num
  <2> DEFINE S == Overview(from, to)
  <2>1. S \in SUBSET (0 .. NumArticles) /\ S # {}
    BY <1>1, <1>2, <1>3
  <2> HIDE DEF S
  <2>2. MaxOf(S) \in S
    BY <1>2, <2>1, MaxOfIsGreatest
  <2> QED
    BY <1>1, <2>2 DEF S
<1> QED
  BY <1>1, <1>3

\* The position of the sweep is an article number or 0.
LEMMA SweepPosition ==
  ASSUME TablesOK, MarksOK
  PROVE  SweepPos \in 0 .. NumArticles
<1>1. CASE sweepArticle = 0 /\ spots # {}
  <2>1. spots \in SUBSET Nat
    BY SpotnetAssumption DEF TablesOK, Num
  <2>2. MinOf(spots) \in spots
    BY <1>1, <2>1, MinOfIsLeast
  <2>3. MinOf(spots) \in 1 .. NumArticles
    BY <2>2 DEF TablesOK, Num
  <2>4. MinOf(spots) - 1 \in 0 .. NumArticles
    BY <2>3, SpotnetAssumption
  <2> QED
    BY <1>1, <2>4 DEF SweepPos
<1> QED
  BY <1>1 DEF SweepPos, MarksOK

\* The forward sync's own steps keep the types.
LEMMA ForwardTypes ==
  ASSUME TypeOK, Forward
  PROVE  TypeOK'
<1>1. UsenetTypeOK /\ TablesOK /\ MarksOK /\ LocalsOK /\ FaultsOK /\ RestOK
  BY TypeParts
<1>2. /\ "forward" \in Worker /\ "forward" \in Moderating
      /\ job["forward"] \in Job /\ NoJob \in Job
      /\ {"wait", "chunk", "checkpoint", "moderate"} \subseteq Labels
  BY <1>1, SpotnetAssumption DEF LocalsOK, Worker, Moderating, NoJob, Job, Labels
<1>3. CASE BeginPass
  <2> DEFINE from == IF lastArticle = 0
                     THEN AtLeast(IF last > SyncLookback THEN last - SyncLookback ELSE 0, first)
                     ELSE lastArticle + 1
  <2>1. from \in 0 .. NumArticles /\ last \in 0 .. NumArticles
    BY <1>1, <1>3, SpotnetAssumption, SyncAssumption
       DEF BeginPass, AtLeast, UsenetTypeOK, MarksOK
  <2>2. /\ Goto("forward", "chunk")
        /\ SetJob("forward", [NoJob EXCEPT !.from = from, !.bound = last])
        /\ syncStart' = IF lastArticle = 0 THEN from ELSE syncStart
        /\ UNCHANGED <<context, storeVars, failures, faults>>
    BY <1>3 DEF BeginPass
  <2> HIDE DEF from
  <2>3. [NoJob EXCEPT !.from = from, !.bound = last] \in Job
    BY <1>2, <2>1 DEF Job
  <2>4. LocalsOK'
    BY <1>1, <1>2, <2>2, <2>3, LocalOperations
  <2>5. RestOK'
    BY <1>1, <2>1, <2>2, SpotnetAssumption DEF RestOK, context
  <2> QED
    BY <1>1, <2>2, <2>4, <2>5, TypesKept, TypePartsPrime DEF context, storeVars
<1>4. CASE ReadChunk
  <2> DEFINE batch == Overview(job["forward"].from, ChunkTo)
             num == IF batch = {} THEN 0 ELSE MaxOf(batch)
  <2>1. /\ Disposes(batch) \in SUBSET Num
        /\ num \in 0 .. NumArticles
        /\ {n \in batch : Accepted(group[n])} \in SUBSET Num
    BY OverviewNumbers, SpotnetAssumption DEF Disposes, Num
  <2>2. ChunkTo \in 0 .. NumArticles
    BY <1>1, <1>2, <1>4, SyncAssumption, SpotnetAssumption DEF ChunkTo, AtMost, Job, ReadChunk
  <2>3. /\ \/ InsertSpots({n \in batch : Accepted(group[n])}) /\ UNCHANGED faults
           \/ DBFault /\ UNCHANGED tables
        /\ SetJob("forward", [job["forward"] EXCEPT !.upto = ChunkTo,
                               !.lastNum = num, !.cmds = Disposes(batch)])
        /\ Goto("forward", IF Disposes(batch) = {} THEN "checkpoint" ELSE "moderate")
        /\ UNCHANGED <<context, syncState, failures, syncStart>>
    BY <1>4 DEF ReadChunk
  <2> HIDE DEF batch, num
  <2>4. [job["forward"] EXCEPT !.upto = ChunkTo, !.lastNum = num, !.cmds = Disposes(batch)]
          \in Job
    BY <1>2, <2>1, <2>2 DEF Job
  <2>5. LocalsOK'
    BY <1>1, <1>2, <2>3, <2>4, LocalOperations
  <2>6. TablesOK' /\ FaultsOK'
    BY <1>1, <2>1, <2>3, TableOperations, FaultOperations, TypesKept
  <2>7. RestOK'
    BY <1>1, <2>3 DEF RestOK, context
  <2> QED
    BY <1>1, <2>3, <2>5, <2>6, <2>7, TypesKept, TypePartsPrime DEF context
<1>5. CASE ReadChunkFails
  <2>1. LocalsOK' /\ FaultsOK'
    BY <1>1, <1>2, <1>5, LocalOperations, FaultOperations, TypesKept DEF ReadChunkFails
  <2>2. RestOK'
    BY <1>1, <1>5 DEF RestOK, ReadChunkFails, context
  <2> QED
    BY <1>1, <1>5, <2>1, <2>2, TypesKept, TypePartsPrime DEF ReadChunkFails, context, storeVars
<1>6. CASE Moderate("forward")
  <2>1. TablesOK' /\ LocalsOK' /\ FaultsOK' /\ withdrawn' \subseteq Num
    BY <1>2, <1>6, ModerationTypes DEF Moderate
  <2>2. RestOK'
    BY <1>1, <1>6, <2>1 DEF RestOK, Moderate
  <2> QED
    BY <1>1, <1>6, <2>1, <2>2, TypesKept, TypePartsPrime DEF Moderate
<1>7. CASE Checkpoint
  <2> DEFINE j == job["forward"]
             next == j.from + ChunkSize
  <2>1. ASSUME next <= j.bound PROVE [NoJob EXCEPT !.from = next, !.bound = j.bound] \in Job
    <3>1. next \in 0 .. NumArticles /\ j.bound \in 0 .. NumArticles
      BY <1>2, <2>1, SyncAssumption, SpotnetAssumption DEF Job
    <3> QED
      BY <1>2, <3>1 DEF Job
  <2>2. LocalsOK'
    BY <1>1, <1>2, <1>7, <2>1, LocalOperations DEF Checkpoint
  <2>3. MarksOK'
    BY <1>1, <1>2, <1>7 DEF Checkpoint, MarksOK, SetSyncState, syncState, Job
  <2>4. FaultsOK'
    BY <1>1, <1>7, FaultOperations, TypesKept DEF Checkpoint
  <2>5. RestOK'
    BY <1>1, <1>7 DEF RestOK, Checkpoint, context
  <2> QED
    BY <1>1, <1>7, <2>2, <2>3, <2>4, <2>5, TypesKept, TypePartsPrime DEF Checkpoint, context
<1> QED
  BY <1>3, <1>4, <1>5, <1>6, <1>7 DEF Forward

\* The backfill keeps the types.
LEMMA BackfillTypes ==
  ASSUME TypeOK, Backfill
  PROVE  TypeOK'
<1>1. UsenetTypeOK /\ TablesOK /\ MarksOK /\ LocalsOK /\ FaultsOK /\ RestOK
  BY TypeParts
<1>2. /\ "backfill" \in Worker /\ job["backfill"] \in Job /\ NoJob \in Job
      /\ {"chunk", "checkpoint", "done", "failed"} \subseteq Labels
  BY <1>1, SpotnetAssumption DEF LocalsOK, Worker, NoJob, Job, Labels
<1>3. CASE BackfillDone
  <2>1. LocalsOK'
    BY <1>1, <1>2, <1>3, LocalOperations DEF BackfillDone
  <2>2. RestOK'
    BY <1>1, <1>3 DEF RestOK, BackfillDone, context
  <2> QED
    BY <1>1, <1>3, <2>1, <2>2, TypesKept, TypePartsPrime DEF BackfillDone, context, storeVars
<1>4. CASE BackfillChunk
  <2> DEFINE batch == Overview(BackfillFrom, backfillArticle - 1)
             new == {n \in batch : Accepted(group[n])}
  <2>1. new \in SUBSET Num
    BY OverviewNumbers
  <2>2. BackfillFrom \in 0 .. NumArticles /\ first \in 0 .. NumArticles
    BY <1>1, <1>4, SpotnetAssumption, SyncAssumption
       DEF BackfillChunk, BackfillFrom, AtLeast, UsenetTypeOK, MarksOK
  <2>3. /\ \/ InsertSpots(new) /\ UNCHANGED faults
           \/ DBFault /\ UNCHANGED tables
        /\ Goto("backfill", "checkpoint")
        /\ SetJob("backfill", [NoJob EXCEPT !.from = BackfillFrom, !.bound = first])
        /\ UNCHANGED <<context, syncState, failures, syncStart>>
    BY <1>4 DEF BackfillChunk
  <2> HIDE DEF new
  <2>4. [NoJob EXCEPT !.from = BackfillFrom, !.bound = first] \in Job
    BY <1>2, <2>2 DEF Job
  <2>5. LocalsOK'
    BY <1>1, <1>2, <2>3, <2>4, LocalOperations
  <2>6. TablesOK' /\ FaultsOK'
    BY <1>1, <2>1, <2>3, TableOperations, FaultOperations, TypesKept
  <2>7. RestOK'
    BY <1>1, <2>3 DEF RestOK, context
  <2> QED
    BY <1>1, <2>3, <2>5, <2>6, <2>7, TypesKept, TypePartsPrime DEF context
<1>5. CASE BackfillFails
  <2>1. LocalsOK' /\ FaultsOK'
    BY <1>1, <1>2, <1>5, LocalOperations, FaultOperations, TypesKept DEF BackfillFails
  <2>2. RestOK'
    BY <1>1, <1>5 DEF RestOK, BackfillFails, context
  <2> QED
    BY <1>1, <1>5, <2>1, <2>2, TypesKept, TypePartsPrime DEF BackfillFails, context, storeVars
<1>6. CASE BackfillCheckpoint
  <2>1. LocalsOK'
    BY <1>1, <1>2, <1>6, LocalOperations DEF BackfillCheckpoint
  <2>2. MarksOK'
    BY <1>1, <1>2, <1>6 DEF BackfillCheckpoint, MarksOK, SetBackfillState, Job
  <2>3. RestOK'
    BY <1>1, <1>6 DEF RestOK, BackfillCheckpoint, context
  <2> QED
    BY <1>1, <1>6, <2>1, <2>2, <2>3, TypesKept, TypePartsPrime DEF BackfillCheckpoint, context
<1> QED
  BY <1>3, <1>4, <1>5, <1>6 DEF Backfill

\* The sweep keeps the types.
LEMMA SweepTypes ==
  ASSUME TypeOK, Sweep
  PROVE  TypeOK'
<1>1. UsenetTypeOK /\ TablesOK /\ MarksOK /\ LocalsOK /\ FaultsOK /\ RestOK
  BY TypeParts
<1>2. /\ "sweep" \in Worker /\ "sweep" \in Moderating
      /\ job["sweep"] \in Job /\ NoJob \in Job
      /\ {"chunk", "checkpoint", "moderate", "done"} \subseteq Labels
  BY <1>1, SpotnetAssumption DEF LocalsOK, Worker, Moderating, NoJob, Job, Labels
<1>3. CASE SweepDone
  <2>1. LocalsOK'
    BY <1>1, <1>2, <1>3 DEF SweepDone, LocalsOK, Goto
  <2>2. RestOK'
    BY <1>1, <1>3 DEF RestOK, SweepDone, context
  <2> QED
    BY <1>1, <1>3, <2>1, <2>2, TypesKept, TypePartsPrime DEF SweepDone, context, storeVars
<1>4. CASE SweepChunk
  <2> DEFINE cmds == {n \in Overview(SweepPos + 1, SweepTo) : group[n].kind = "dispose"}
  <2>1. cmds \in SUBSET Num
    BY OverviewNumbers
  <2>2. SweepPos + 1 \in 0 .. NumArticles /\ lastArticle \in 0 .. NumArticles
    BY <1>1, <1>4, SweepPosition, SpotnetAssumption DEF SweepChunk, NothingToSweep, MarksOK
  <2>3. SweepTo \in 0 .. NumArticles
    BY <2>2, SweepPosition, <1>1, SpotnetAssumption, SyncAssumption DEF SweepTo, AtMost
  <2>4. /\ Goto("sweep", "moderate")
        /\ SetJob("sweep", [NoJob EXCEPT !.from = SweepPos + 1, !.upto = SweepTo,
                                         !.bound = lastArticle, !.cmds = cmds])
        /\ UNCHANGED <<context, storeVars, failures, faults, syncStart>>
    BY <1>4 DEF SweepChunk
  <2> HIDE DEF cmds
  <2>5. [NoJob EXCEPT !.from = SweepPos + 1, !.upto = SweepTo,
                      !.bound = lastArticle, !.cmds = cmds] \in Job
    BY <1>2, <2>1, <2>2, <2>3 DEF Job
  <2>6. LocalsOK'
    BY <1>1, <1>2, <2>4, <2>5, LocalOperations
  <2>7. RestOK'
    BY <1>1, <2>4 DEF RestOK, context
  <2> QED
    BY <1>1, <2>4, <2>6, <2>7, TypesKept, TypePartsPrime DEF context, storeVars
<1>5. CASE SweepFails
  <2>1. LocalsOK' /\ FaultsOK'
    BY <1>1, <1>2, <1>5, LocalOperations, FaultOperations, TypesKept DEF SweepFails
  <2>2. RestOK'
    BY <1>1, <1>5 DEF RestOK, SweepFails, context
  <2> QED
    BY <1>1, <1>5, <2>1, <2>2, TypesKept, TypePartsPrime DEF SweepFails, context, storeVars
<1>6. CASE Moderate("sweep")
  <2>1. TablesOK' /\ LocalsOK' /\ FaultsOK' /\ withdrawn' \subseteq Num
    BY <1>2, <1>6, ModerationTypes DEF Moderate
  <2>2. RestOK'
    BY <1>1, <1>6, <2>1 DEF RestOK, Moderate
  <2> QED
    BY <1>1, <1>6, <2>1, <2>2, TypesKept, TypePartsPrime DEF Moderate
<1>7. CASE SweepCheckpoint
  <2>1. LocalsOK'
    BY <1>1, <1>2, <1>7 DEF SweepCheckpoint, LocalsOK, Goto, SetJob
  <2>2. MarksOK'
    BY <1>1, <1>2, <1>7 DEF SweepCheckpoint, MarksOK, SetDisposeSweepState, Job
  <2>3. RestOK'
    BY <1>1, <1>7 DEF RestOK, SweepCheckpoint, context
  <2> QED
    BY <1>1, <1>7, <2>1, <2>2, <2>3, TypesKept, TypePartsPrime DEF SweepCheckpoint, context
<1> QED
  BY <1>3, <1>4, <1>5, <1>6, <1>7 DEF Sweep

\* Maintenance keeps the types.
LEMMA MaintainTypes ==
  ASSUME TypeOK, Maintain
  PROVE  TypeOK'
<1>1. UsenetTypeOK /\ TablesOK /\ MarksOK /\ LocalsOK /\ FaultsOK /\ RestOK
  BY TypeParts
<1>2. ASSUME NEW l \in Labels, Goto("maintenance", l), UNCHANGED <<job, failures>>
      PROVE  LocalsOK'
  BY <1>1, <1>2, LocalOperations DEF Worker
<1>3. {"wait", "retain", "prune"} \subseteq Labels
  BY DEF Labels
<1>4. ASSUME UNCHANGED maintained, TablesOK', LocalsOK', FaultsOK', cutoff' \in Nat
      PROVE  TypeOK'
  <2>1. RestOK'
    BY <1>1, <1>4 DEF RestOK, maintained
  <2> QED
    BY <1>1, <1>4, <2>1, TypesKept, TypePartsPrime DEF maintained
<1>5. CASE PurgeBlacklist
  <2>1. {n \in spots : owner[n] \in Blacklist} \in SUBSET Num
    BY <1>1 DEF TablesOK
  <2>2. TablesOK'
    BY <1>1, <1>5, <2>1, TableOperations DEF PurgeBlacklist
  <2>3. LocalsOK'
    BY <1>2, <1>3, <1>5 DEF PurgeBlacklist, AfterPurge, maintained
  <2> QED
    BY <1>1, <1>4, <1>5, <2>2, <2>3, TypesKept DEF PurgeBlacklist, RestOK
<1>6. CASE ApplyRetention
  <2>1. \A limit : {n \in spots : Posted(n) < limit} \in SUBSET Num
    BY <1>1 DEF TablesOK
  <2>2. TablesOK'
    BY <1>1, <1>6, <2>1, TableOperations DEF ApplyRetention
  <2>3. LocalsOK'
    BY <1>2, <1>3, <1>6 DEF ApplyRetention, maintained
  <2>4. cutoff' \in Nat
    BY <1>1, <1>6, SyncAssumption DEF ApplyRetention, RestOK
  <2> QED
    BY <1>1, <1>4, <1>6, <2>2, <2>3, <2>4, TypesKept DEF ApplyRetention
<1>7. CASE PruneRing
  <2>1. TablesOK'
    BY <1>1, <1>7, TableOperations DEF PruneRing, RestOK
  <2>2. LocalsOK'
    BY <1>2, <1>3, <1>7 DEF PruneRing, maintained
  <2> QED
    BY <1>1, <1>4, <1>7, <2>1, <2>2, TypesKept DEF PruneRing
<1>8. CASE MaintainFails
  <2>1. LocalsOK'
    BY <1>2, <1>3, <1>8 DEF MaintainFails, AfterPurge, maintained
  <2> QED
    BY <1>1, <1>4, <1>8, <2>1, TypesKept, FaultOperations DEF MaintainFails
<1> QED
  BY <1>5, <1>6, <1>7, <1>8 DEF Maintain
\* Where the workers are after a start.
LEMMA StartTypes ==
  ASSUME NEW m
  PROVE  StartPC(m) \in [Worker -> Labels] /\ [w \in Worker |-> NoJob] \in [Worker -> Job]
<1>1. \A w \in Worker : StartPC(m)[w] \in Labels
  BY DEF StartPC, Labels, Worker
<1>2. NoJob \in Job
  BY SpotnetAssumption DEF NoJob, Job
<1> QED
  BY <1>1, <1>2 DEF StartPC

\* An empty database and one of an earlier release are well-typed.
LEMMA TypeInit == Init => TypeOK
<1> SUFFICES ASSUME Init PROVE TypeOK
  OBVIOUS
<1>1. UsenetTypeOK
  BY UsenetAssumption, SpotnetAssumption DEF Init, UsenetInit, UsenetTypeOK
<1>2. TablesOK /\ MarksOK /\ syncStart \in Nat
  <2>1. /\ moderated = {} /\ ring = {} /\ sweepArticle = 0 /\ indexed = spots
        /\ owner \in [Num -> Key] /\ stamp \in [Num -> Nat]
    BY DEF Init, InitialStore, Key
  <2>2. /\ spots \subseteq Num
        /\ lastArticle \in 0 .. NumArticles /\ backfillArticle \in 0 .. NumArticles
        /\ syncStart \in Nat
    <3>1. CASE Upgraded
      <4>1. PICK lo, hi \in 1 .. InitialLast :
                   /\ spots = {n \in lo .. hi : Accepted(group[n])}
                   /\ spots # {}
                   /\ lastArticle = hi
                   /\ backfillArticle = MinOf(spots)
                   /\ syncStart = lo
        BY <3>1 DEF Init, InitialStore
      <4>2. InitialLast \in 0 .. NumArticles /\ NumArticles \in Nat
        BY UsenetAssumption, SpotnetAssumption
      <4>3. spots \in SUBSET (1 .. NumArticles)
        BY <4>1, <4>2
      <4>4. MinOf(spots) \in spots
        BY <4>1, <4>3, MinOfIsLeast
      <4> QED
        BY <4>1, <4>2, <4>3, <4>4 DEF Num
    <3>2. CASE ~Upgraded
      BY <3>2, SpotnetAssumption DEF Init, InitialStore
    <3> QED
      BY <3>1, <3>2
  <2> QED
    BY <2>1, <2>2, SpotnetAssumption DEF TablesOK, MarksOK
<1>3. LocalsOK /\ FaultsOK
  BY StartTypes DEF Init, LocalsOK, FaultsOK
<1>4. RestOK
  BY <1>2, SyncAssumption DEF Init, RestOK
<1> QED
  BY <1>1, <1>2, <1>3, <1>4, TypeParts

\* Every step keeps the types.
LEMMA TypeNext ==
  ASSUME TypeOK, [Next]_vars
  PROVE  TypeOK'
<1>1. UsenetTypeOK /\ TablesOK /\ MarksOK /\ LocalsOK /\ FaultsOK /\ RestOK
  BY TypeParts
<1>2. ASSUME NEW n \in Num, Enrich(n) PROVE TypeOK'
  <2>1. UserKey(n) \in Key
    BY <1>1 DEF UserKey, UsenetTypeOK, Article
  <2>2. TablesOK'
    BY <1>1, <1>2, <2>1, TableOperations DEF Enrich
  <2>3. RestOK'
    BY <1>1, <1>2 DEF RestOK, Enrich, context
  <2> QED
    BY <1>1, <1>2, <2>2, <2>3, TypesKept, TypePartsPrime DEF Enrich, context, local
<1>3. CASE Tick
  <2>1. RestOK'
    BY <1>1, <1>3 DEF RestOK, Tick
  <2> QED
    BY <1>1, <1>3, <2>1, TypesKept, TypePartsPrime DEF Tick, storeVars, local
<1>4. CASE Provider
  <2>1. UsenetTypeOK'
    BY <1>1, <1>4, SpotnetAssumption, UsenetAssumption
       DEF Provider, Arrive, Expire, UsenetTypeOK
  <2>2. RestOK'
    BY <1>1, <1>4 DEF RestOK, Provider
  <2> QED
    BY <1>1, <1>4, <2>1, <2>2, TypesKept, TypePartsPrime DEF Provider, storeVars, local
<1>5. CASE Restart
  <2>1. LocalsOK'
    BY <1>5, StartTypes DEF Restart, LocalsOK
  <2>2. RestOK'
    BY <1>1, <1>5, SyncAssumption DEF RestOK, Restart
  <2> QED
    BY <1>1, <1>5, <2>1, <2>2, TypesKept, TypePartsPrime DEF Restart, storeVars
<1>6. CASE UNCHANGED vars
  <2>1. RestOK'
    BY <1>1, <1>6 DEF RestOK, vars
  <2> QED
    BY <1>1, <1>6, <2>1, TypesKept, TypePartsPrime DEF vars, storeVars
<1> QED
  BY <1>2, <1>3, <1>4, <1>5, <1>6, ForwardTypes, BackfillTypes, SweepTypes, MaintainTypes
     DEF Next

\* Type correctness of the four workers, the database and the provider together: article
\* numbers computed by the chunking of syncGroup, backfillChunk and sweepChunk stay in
\* range, and a row is moderated only while it is a row.
THEOREM TypeCorrect == Spec => []TypeOK
BY TypeInit, TypeNext, PTL DEF Spec
-----------------------------------------------------------------------------
(* Only the entitled withdraw.                                             *)
(*                                                                         *)
(* OnlyEntitledWithdrawals is not inductive: what ends in the ring was     *)
(* queued steps before, on the word of a withdrawal read steps before that *)
(* and of a spotter id that another worker may have stored meanwhile.      *)

\* A stored spotter id is the key the spot was posted with.
OwnersTrue == \A n \in Num : owner[n] \in {NoSpotter, group[n].key}

\* What a worker still has to consider are withdrawals that were posted.
CmdsPosted ==
  \A w \in Moderating : \A c \in job[w].cmds : c <= last /\ group[c].kind = "dispose"

\* What a worker has queued may be withdrawn.
TargetsEntitled == \A w \in Moderating : \A t \in job[w].targets : Entitled(t)

Sourced == OwnersTrue /\ CmdsPosted /\ TargetsEntitled /\ OnlyEntitledWithdrawals

\* ValidateDispose, given the true owner or none, accepts only entitled withdrawals.
LEMMA ValidateSound ==
  ASSUME TypeOK, NEW c \in Num, c <= last, group[c].kind = "dispose",
         NEW k \in {NoSpotter, group[group[c].target].key},
         ValidateDispose(ParseDispose(group[c]), k, Posted(group[c].target))
  PROVE  Entitled(group[c].target)
<1> DEFINE a == group[c]
           t == group[c].target
<1>1. a \in Article /\ t \in Num /\ group[t] \in Article
  BY DEF TypeOK, UsenetTypeOK, Article
<1>2. a.posted \in Nat /\ group[t].posted \in Nat /\ DisposeMaxAge \in Nat
  BY <1>1, SpotnetAssumption DEF Article
<1>3. /\ a.keyId = 2 /\ a.sigOK
      /\ \/ a.key = NoSpotter
         \/ /\ a.key = k /\ k # NoSpotter
            /\ a.posted >= Posted(t) /\ a.posted - Posted(t) <= DisposeMaxAge
  BY <1>1 DEF ValidateDispose, ParseDispose, WithinDisposeWindow, Article
<1>4. Entitles(c, t)
  BY <1>2, <1>3 DEF Entitles, Posted
<1> QED
  BY <1>4 DEF Entitled

\* Nobody loses the right to withdraw: articles keep their content and `last' grows.
LEMMA EntitledKept ==
  ASSUME TypeOK, TypeOK', group' = group, last' >= last
  PROVE  \A t : Entitled(t) => Entitled(t)'
<1>1. last \in Nat /\ last' \in Nat /\ \A c \in Num : c \in Nat
  BY SpotnetAssumption DEF TypeOK, UsenetTypeOK, Num
<1>2. ASSUME NEW t, NEW c \in Num, c <= last, Entitles(c, t)
      PROVE  c <= last' /\ Entitles(c, t)'
  BY <1>1, <1>2 DEF Entitles
<1> QED
  BY <1>2 DEF Entitled

\* What a step has to respect to preserve Sourced.
LEMMA SourcedStep ==
  ASSUME TypeOK, TypeOK', Sourced, group' = group, last' >= last,
         \A n \in Num : owner'[n] \in {NoSpotter, owner[n], group[n].key},
         \A w \in Moderating : \A c \in job'[w].cmds :
            c \in job[w].cmds \/ (c <= last /\ group[c].kind = "dispose"),
         \A w \in Moderating : \A t \in job'[w].targets : t \in job[w].targets \/ Entitled(t),
         \A t \in ring' \cup moderated' \cup withdrawn' :
            \/ t \in ring \cup moderated \cup withdrawn
            \/ \E w \in Moderating : t \in job[w].targets
  PROVE  Sourced'
<1>1. OwnersTrue'
  BY DEF Sourced, OwnersTrue
<1>2. CmdsPosted'
  <2>1. last \in Nat /\ last' \in Nat /\ Num \subseteq Nat
    BY SpotnetAssumption DEF TypeOK, UsenetTypeOK, Num
  <2>2. \A w \in Moderating : job'[w] \in Job
    BY DEF TypeOK, Worker
  <2>3. ASSUME NEW w \in Moderating, NEW c \in job'[w].cmds
        PROVE  c <= last' /\ group'[c].kind = "dispose"
    <3>1. c \in Nat
      BY <2>1, <2>2, <2>3 DEF Job
    <3>2. c <= last /\ group[c].kind = "dispose"
      BY <2>3 DEF Sourced, CmdsPosted
    <3> QED
      BY <2>1, <3>1, <3>2
  <2> QED
    BY <2>3 DEF CmdsPosted
<1>3. \A t : Entitled(t) => Entitled(t)'
  BY EntitledKept
<1>4. TargetsEntitled'
  BY <1>3 DEF Sourced, TargetsEntitled
<1>5. OnlyEntitledWithdrawals'
  BY <1>3 DEF Sourced, TargetsEntitled, OnlyEntitledWithdrawals
<1> QED
  BY <1>1, <1>2, <1>4, <1>5 DEF Sourced

\* Inserting, deleting and pruning withdraw nothing and forge no owner.
LEMMA RowEffects ==
  ASSUME TablesOK,
         \/ UNCHANGED tables
         \/ \E ids : InsertSpots(ids) \/ DeleteRows(ids)
         \/ \E t : PruneModeratedRing(t)
  PROVE  /\ \A n \in Num : owner'[n] \in {NoSpotter, owner[n]}
         /\ ring' \subseteq ring /\ moderated' \subseteq moderated
<1> USE DEF TablesOK
<1>1. CASE UNCHANGED tables
  BY <1>1 DEF tables
<1>2. ASSUME NEW ids, InsertSpots(ids)
      PROVE  /\ \A n \in Num : owner'[n] \in {NoSpotter, owner[n]}
             /\ ring' \subseteq ring /\ moderated' \subseteq moderated
  BY <1>2 DEF InsertSpots
<1>3. ASSUME NEW ids, DeleteRows(ids)
      PROVE  /\ \A n \in Num : owner'[n] \in {NoSpotter, owner[n]}
             /\ ring' \subseteq ring /\ moderated' \subseteq moderated
  BY <1>3 DEF DeleteRows
<1>4. ASSUME NEW t, PruneModeratedRing(t)
      PROVE  /\ \A n \in Num : owner'[n] \in {NoSpotter, owner[n]}
             /\ ring' \subseteq ring /\ moderated' \subseteq moderated
  BY <1>4 DEF PruneModeratedRing
<1> QED
  BY <1>1, <1>2, <1>3, <1>4

\* MarkModerated withdraws what it is told to and nothing else.
LEMMA MarkEffects ==
  ASSUME NEW ids, NEW t, MarkModerated(ids, t)
  PROVE  /\ owner' = owner
         /\ ring' \subseteq ring \cup ids /\ moderated' \subseteq moderated \cup ids
BY DEF MarkModerated

\* SetSpotOwner changes one owner, to the id it is given.
LEMMA OwnerEffects ==
  ASSUME TablesOK, NEW n, NEW k, SetSpotOwner(n, k)
  PROVE  /\ \A m \in Num : owner'[m] = owner[m] \/ (m = n /\ owner'[m] = k)
         /\ ring' = ring /\ moderated' = moderated
BY DEF SetSpotOwner, TablesOK

\* applyModeration, run by worker w.
LEMMA ModerationSourced ==
  ASSUME TypeOK, TypeOK', Sourced, NEW w \in Moderating, Moderate(w)
  PROVE  Sourced'
<1>1. TablesOK /\ LocalsOK /\ w \in Worker /\ \A v \in Moderating : v \in Worker
  BY TypeParts DEF Worker
<1>2. group' = group /\ last' = last /\ last \in Nat
  BY SpotnetAssumption DEF Moderate, usenet, TypeOK, UsenetTypeOK
<1>3. /\ job[w].cmds \subseteq Num
      /\ \A c \in job[w].cmds : c <= last /\ group[c].kind = "dispose"
      /\ \A n \in Num : owner[n] \in {NoSpotter, group[n].key} /\ group[n].target \in Num
  BY <1>1 DEF Sourced, CmdsPosted, OwnersTrue, LocalsOK, Job, TypeOK, UsenetTypeOK, Article
<1> DEFINE OwnerStep == \A n \in Num : owner'[n] \in {NoSpotter, owner[n], group[n].key}
           Queue == \A v \in Moderating :
                      /\ job'[v].cmds \subseteq job[v].cmds
                      /\ \A t \in job'[v].targets : t \in job[v].targets \/ Entitled(t)
           Out == ring' \cup moderated' \cup withdrawn'
                    \subseteq ring \cup moderated \cup withdrawn \cup job[w].targets
<1>4. ASSUME NEW c \in job[w].cmds, NEW accept, NEW err, Settle(w, c, accept, err),
             accept => Entitled(group[c].target)
      PROVE  Queue
  BY <1>1, <1>4 DEF Settle, SetJob, LocalsOK, Job
<1>5. ASSUME Abandon(w) \/ Return(w) \/ UNCHANGED job PROVE Queue
  BY <1>1, <1>5 DEF Abandon, Return, SetJob, NoJob, LocalsOK, Job
<1>6. ASSUME NEW c \in job[w].cmds, Judge(w, c) PROVE OwnerStep /\ Queue /\ Out
  <2> DEFINE t == group[c].target
             accept == /\ Eligible(w, ParseDispose(group[c]))
                       /\ ValidateDispose(ParseDispose(group[c]), owner[t], Posted(t))
  <2>1. Settle(w, c, accept, FALSE) /\ UNCHANGED tables /\ withdrawn' = withdrawn
    BY <1>6 DEF Judge, ParseDispose
  <2>2. accept => Entitled(t)
    BY <1>3, ValidateSound
  <2>3. Queue
    BY <1>4, <2>1, <2>2
  <2> QED
    BY <2>1, <2>3 DEF tables
<1>7. ASSUME NEW c \in job[w].cmds, LookupOwner(w, c) PROVE OwnerStep /\ Queue /\ Out
  <2> DEFINE t == group[c].target
             key == IF OnServer(t) THEN UserKey(t) ELSE NoSpotter
             accept == ValidateDispose(ParseDispose(group[c]), key, Posted(t))
  <2>1. /\ Settle(w, c, accept, FALSE) /\ withdrawn' = withdrawn
        /\ UNCHANGED tables \/ SetSpotOwner(t, key)
    BY <1>7 DEF LookupOwner, ParseDispose
  <2>2. key \in {NoSpotter, group[t].key}
    BY DEF UserKey
  <2>3. accept => Entitled(t)
    BY <1>3, <2>2, ValidateSound
  <2>4. Queue
    BY <1>4, <2>1, <2>3
  <2>5. OwnerStep /\ ring' = ring /\ moderated' = moderated
    <3>1. CASE UNCHANGED tables
      BY <3>1 DEF tables
    <3>2. CASE SetSpotOwner(t, key)
      BY <1>1, <2>2, <3>2, OwnerEffects
    <3> QED
      BY <2>1, <3>1, <3>2
  <2> QED
    BY <2>1, <2>4, <2>5
<1>8. ASSUME NEW c \in job[w].cmds, LookupFails(w, c) PROVE OwnerStep /\ Queue /\ Out
  <2>1. Settle(w, c, FALSE, TRUE) /\ UNCHANGED tables /\ withdrawn' = withdrawn
    BY <1>8 DEF LookupFails
  <2>2. Queue
    BY <1>4, <2>1
  <2> QED
    BY <2>1, <2>2 DEF tables
<1>9. ASSUME NEW c \in job[w].cmds, TargetReadFails(w, c) PROVE OwnerStep /\ Queue /\ Out
  <2>1. Queue
    BY <1>5, <1>9 DEF TargetReadFails
  <2> HIDE DEF Queue
  <2> QED
    BY <1>9, <2>1 DEF TargetReadFails, tables
<1>10. ASSUME NothingToApply(w) PROVE OwnerStep /\ Queue /\ Out
  <2>1. Queue
    BY <1>5, <1>10 DEF NothingToApply
  <2> HIDE DEF Queue
  <2> QED
    BY <1>10, <2>1 DEF NothingToApply, tables
<1>11. ASSUME ApplyMark(w) PROVE OwnerStep /\ Queue /\ Out
  <2>1. Queue
    BY <1>5, <1>11 DEF ApplyMark
  <2> HIDE DEF Queue
  <2> QED
    BY <1>11, <2>1, MarkEffects DEF ApplyMark
<1>12. ASSUME ApplyDelete(w) PROVE OwnerStep /\ Queue /\ Out
  <2>1. Queue
    BY <1>5, <1>12 DEF ApplyDelete
  <2>2. /\ \A n \in Num : owner'[n] \in {NoSpotter, owner[n]}
        /\ ring' \subseteq ring /\ moderated' \subseteq moderated
    <3>1. \E ids : DeleteRows(ids)
      BY <1>12 DEF ApplyDelete, DeleteSpotsByMessageID
    <3> QED
      BY <1>1, <3>1, RowEffects
  <2> HIDE DEF Queue
  <2> QED
    BY <1>12, <2>1, <2>2 DEF ApplyDelete
<1>13. ASSUME RecordDeleted(w) PROVE OwnerStep /\ Queue /\ Out
  <2>1. Queue
    BY <1>5, <1>13 DEF RecordDeleted
  <2> HIDE DEF Queue
  <2> QED
    BY <1>13, <2>1, MarkEffects DEF RecordDeleted
<1>14. ASSUME ApplyFails(w) PROVE OwnerStep /\ Queue /\ Out
  <2>1. Queue
    BY <1>5, <1>14 DEF ApplyFails
  <2> HIDE DEF Queue
  <2> QED
    BY <1>14, <2>1 DEF ApplyFails, tables
<1>15. OwnerStep /\ Queue /\ Out
  <2> HIDE DEF OwnerStep, Queue, Out
  <2> QED
    BY <1>6, <1>7, <1>8, <1>9, <1>10, <1>11, <1>12, <1>13, <1>14 DEF Moderate, ApplyModeration
<1>16. /\ \A v \in Moderating : \A c \in job'[v].cmds :
            c \in job[v].cmds \/ (c <= last /\ group[c].kind = "dispose")
       /\ \A v \in Moderating : \A t \in job'[v].targets : t \in job[v].targets \/ Entitled(t)
  BY <1>15
<1>17. \A t \in ring' \cup moderated' \cup withdrawn' :
          \/ t \in ring \cup moderated \cup withdrawn
          \/ \E v \in Moderating : t \in job[v].targets
  BY <1>15
<1>18. group' = group /\ last' >= last
  BY <1>2
<1>19. OwnerStep
  BY <1>15
<1> QED
  BY <1>16, <1>17, <1>18, <1>19, SourcedStep
\* The steps outside applyModeration withdraw nothing, and put only posted withdrawals
\* in a worker's hands.
LEMMA OtherSourced ==
  ASSUME TypeOK, TypeOK', Sourced,
         group' = group, last' >= last, withdrawn' = withdrawn,
         \/ UNCHANGED tables
         \/ \E ids : InsertSpots(ids) \/ DeleteRows(ids)
         \/ \E t : PruneModeratedRing(t)
         \/ \E n \in Num : SetSpotOwner(n, UserKey(n)),
         \A w \in Moderating :
            /\ job'[w].targets \subseteq job[w].targets
            /\ \A c \in job'[w].cmds :
                 c \in job[w].cmds \/ (c <= last /\ group[c].kind = "dispose")
  PROVE  Sourced'
<1>1. TablesOK
  BY TypeParts
<1>2. /\ \A n \in Num : owner'[n] \in {NoSpotter, owner[n], group[n].key}
      /\ ring' \subseteq ring /\ moderated' \subseteq moderated
  <2>1. ASSUME NEW n \in Num, SetSpotOwner(n, UserKey(n))
        PROVE  /\ \A m \in Num : owner'[m] \in {NoSpotter, owner[m], group[m].key}
               /\ ring' \subseteq ring /\ moderated' \subseteq moderated
    BY <1>1, <2>1, OwnerEffects DEF UserKey
  <2>2. CASE \/ UNCHANGED tables
             \/ \E ids : InsertSpots(ids) \/ DeleteRows(ids)
             \/ \E t : PruneModeratedRing(t)
    BY <1>1, <2>2, RowEffects
  <2> QED
    BY <2>1, <2>2
<1>3. \A t \in ring' \cup moderated' \cup withdrawn' : t \in ring \cup moderated \cup withdrawn
  BY <1>2
<1>4. \A w \in Moderating : \A t \in job'[w].targets : t \in job[w].targets
  OBVIOUS
<1> QED
  BY <1>2, <1>3, <1>4, SourcedStep

\* Every article of an overview has been posted.
LEMMA OverviewPosted ==
  ASSUME TypeOK, NEW from, NEW to, NEW c \in Overview(from, to)
  PROVE  c \in Num /\ c <= last
BY SpotnetAssumption DEF Overview, OnServer, TypeOK, UsenetTypeOK, Num

\* The group never grows downwards, and only the provider touches it.
LEMMA GroupGrows ==
  ASSUME TypeOK, [Next]_vars
  PROVE  group' = group /\ first' >= first /\ last' >= last
<1>1. first \in Nat /\ last \in Nat
  BY SpotnetAssumption DEF TypeOK, UsenetTypeOK
<1>2. CASE Provider
  BY <1>1, <1>2 DEF Provider, Arrive, Expire
<1>3. CASE ~Provider
  <2>1. UNCHANGED usenet
    <3>1. CASE Forward
      BY <3>1 DEF Forward, BeginPass, ReadChunk, ReadChunkFails, Checkpoint, Moderate, context
    <3>2. CASE Backfill
      BY <3>2 DEF Backfill, BackfillDone, BackfillChunk, BackfillFails, BackfillCheckpoint, context
    <3>3. CASE Sweep
      BY <3>3 DEF Sweep, SweepDone, SweepChunk, SweepFails, SweepCheckpoint, Moderate, context
    <3>4. CASE Maintain \/ Tick \/ Restart \/ UNCHANGED vars \/ \E n \in Num : Enrich(n)
      BY <3>4 DEF Maintain, PurgeBlacklist, ApplyRetention, PruneRing, MaintainFails, maintained,
                  Tick, Restart, Enrich, context, vars
    <3> QED
      BY <1>3, <3>1, <3>2, <3>3, <3>4 DEF Next
  <2> QED
    BY <1>1, <2>1 DEF usenet
<1> QED
  BY <1>2, <1>3

\* Outside applyModeration nothing is withdrawn or queued, a step is at most one call on
\* the tables, and what it puts in a worker's hands are posted withdrawals.
LEMMA OutsideModeration ==
  ASSUME TypeOK, [Next]_vars, ~Moderate("forward"), ~Moderate("sweep")
  PROVE  /\ withdrawn' = withdrawn
         /\ \/ UNCHANGED tables
            \/ \E ids : InsertSpots(ids) \/ DeleteRows(ids)
            \/ \E t : PruneModeratedRing(t)
            \/ \E n \in Num : SetSpotOwner(n, UserKey(n))
         /\ \A w \in Moderating :
              /\ job'[w].targets \subseteq job[w].targets
              /\ \A c \in job'[w].cmds :
                   c \in job[w].cmds \/ (c <= last /\ group[c].kind = "dispose")
<1>1. job \in [Worker -> Job] /\ \A w \in Moderating : w \in Worker /\ job[w] \in Job
  BY DEF TypeOK, Worker
<1> DEFINE JobStep == \A w \in Moderating :
             /\ job'[w].targets \subseteq job[w].targets
             /\ \A c \in job'[w].cmds :
                  c \in job[w].cmds \/ (c <= last /\ group[c].kind = "dispose")
           TableCall == \/ UNCHANGED tables
                        \/ \E ids : InsertSpots(ids) \/ DeleteRows(ids)
                        \/ \E t : PruneModeratedRing(t)
                        \/ \E n \in Num : SetSpotOwner(n, UserKey(n))
           Goal == withdrawn' = withdrawn /\ TableCall /\ JobStep
<1> SUFFICES Goal
  OBVIOUS
<1>2. \A v \in Worker : SetJob(v, NoJob) => JobStep
  BY <1>1 DEF SetJob, NoJob
<1>3. UNCHANGED job => JobStep
  OBVIOUS
<1>4. \A v \in Worker : \A x, y : SetJob(v, [NoJob EXCEPT !.from = x, !.bound = y]) => JobStep
  BY <1>1 DEF SetJob, NoJob
<1>5. CASE BeginPass
  <2>1. \E x, y : SetJob("forward", [NoJob EXCEPT !.from = x, !.bound = y])
    BY <1>5, ZenonT(60) DEF BeginPass
  <2>2. JobStep
    BY <1>4, <2>1 DEF Worker, Moderating
  <2>3. UNCHANGED <<tables, withdrawn>>
    BY <1>5 DEF BeginPass, context, storeVars
  <2> QED
    BY <2>2, <2>3
<1>6. CASE ReadChunk
  <2> DEFINE batch == Overview(job["forward"].from, ChunkTo)
  <2>1. \A c \in Disposes(batch) : c <= last /\ group[c].kind = "dispose"
    BY OverviewPosted DEF Disposes
  <2>2. job'["forward"].cmds = Disposes(batch) /\ job'["forward"].targets = job["forward"].targets
    BY <1>1, <1>6 DEF ReadChunk, SetJob, Job, Moderating
  <2>3. \A w \in Worker \ {"forward"} : job'[w] = job[w]
    BY <1>1, <1>6 DEF ReadChunk, SetJob
  <2>4. JobStep
    BY <1>1, <2>1, <2>2, <2>3
  <2>5. /\ withdrawn' = withdrawn
        /\ UNCHANGED tables \/ \E ids : InsertSpots(ids)
    BY <1>6 DEF ReadChunk, context
  <2> QED
    BY <2>4, <2>5
<1>7. CASE ReadChunkFails \/ SweepFails
  <2>1. JobStep
    BY <1>2, <1>7 DEF ReadChunkFails, SweepFails, Abandon, Worker, Moderating
  <2>2. ReadChunkFails => UNCHANGED <<tables, withdrawn>>
    BY DEF ReadChunkFails, context, storeVars
  <2>3. SweepFails => UNCHANGED <<tables, withdrawn>>
    BY SMTT(60) DEF SweepFails, context, storeVars
  <2> QED
    BY <1>7, <2>1, <2>2, <2>3
<1>8. CASE Checkpoint
  <2>1. JobStep
    BY <1>2, <1>4, <1>8 DEF Checkpoint, Worker, Moderating
  <2>2. UNCHANGED <<tables, withdrawn>>
    BY <1>8 DEF Checkpoint, context
  <2> QED
    BY <2>1, <2>2
<1>9. CASE Backfill
  <2>1. JobStep
    BY <1>2, <1>3, <1>4, <1>9
       DEF Backfill, BackfillDone, BackfillChunk, BackfillFails, BackfillCheckpoint, Worker
  <2>2. /\ withdrawn' = withdrawn
        /\ UNCHANGED tables \/ \E ids : InsertSpots(ids)
    BY <1>9 DEF Backfill, BackfillDone, BackfillChunk, BackfillFails, BackfillCheckpoint,
                 context, storeVars
  <2> QED
    BY <2>1, <2>2
<1>10. CASE SweepDone \/ SweepCheckpoint
  <2>1. JobStep
    BY <1>2, <1>3, <1>10 DEF SweepDone, SweepCheckpoint, Worker, Moderating
  <2>2. UNCHANGED <<tables, withdrawn>>
    BY <1>10 DEF SweepDone, SweepCheckpoint, context, storeVars
  <2> QED
    BY <2>1, <2>2
<1>11. CASE SweepChunk
  <2> DEFINE cmds == {n \in Overview(SweepPos + 1, SweepTo) : group[n].kind = "dispose"}
  <2>1. \A c \in cmds : c <= last /\ group[c].kind = "dispose"
    BY OverviewPosted
  <2>2. job'["sweep"].cmds = cmds /\ job'["sweep"].targets = {}
    BY <1>1, <1>11 DEF SweepChunk, SetJob, NoJob, Moderating
  <2>3. \A w \in Worker \ {"sweep"} : job'[w] = job[w]
    BY <1>1, <1>11 DEF SweepChunk, SetJob
  <2> HIDE DEF cmds
  <2>4. JobStep
    BY <1>1, <2>1, <2>2, <2>3
  <2>5. UNCHANGED <<tables, withdrawn>>
    BY <1>11 DEF SweepChunk, context, storeVars
  <2> QED
    BY <2>4, <2>5
<1>12. CASE Maintain
  <2>1. UNCHANGED <<job, withdrawn>>
    BY <1>12 DEF Maintain, PurgeBlacklist, ApplyRetention, PruneRing, MaintainFails, maintained
  <2>2. \/ UNCHANGED tables
        \/ \E ids : InsertSpots(ids) \/ DeleteRows(ids)
        \/ \E t : PruneModeratedRing(t)
    BY <1>12 DEF Maintain, PurgeBlacklist, ApplyRetention, PruneRing, MaintainFails
  <2> QED
    BY <2>1, <2>2
<1>13. ASSUME NEW n \in Num, Enrich(n) PROVE Goal
  <2>1. UNCHANGED <<job, withdrawn>> /\ SetSpotOwner(n, UserKey(n))
    BY <1>13 DEF Enrich, context, local
  <2> QED
    BY <2>1
<1>14. CASE Tick \/ Provider \/ UNCHANGED vars
  BY <1>14 DEF Tick, Provider, vars, storeVars, local
<1>15. CASE Restart
  <2>1. JobStep
    BY <1>1, <1>15 DEF Restart, NoJob
  <2>2. UNCHANGED <<tables, withdrawn>>
    BY <1>15 DEF Restart, storeVars
  <2> QED
    BY <2>1, <2>2
<1> QED
  BY <1>5, <1>6, <1>7, <1>8, <1>9, <1>10, <1>11, <1>12, <1>13, <1>14, <1>15
     DEF Next, Forward, Sweep

\* Sourced is inductive, relative to the types.
LEMMA SourcedNext ==
  ASSUME TypeOK, TypeOK', Sourced, [Next]_vars
  PROVE  Sourced'
<1>1. CASE Moderate("forward") \/ Moderate("sweep")
  BY <1>1, ModerationSourced DEF Moderating
<1>2. CASE ~Moderate("forward") /\ ~Moderate("sweep")
  BY <1>2, GroupGrows, OutsideModeration, OtherSourced
<1> QED
  BY <1>1, <1>2

\* Nothing is withdrawn at the start.
LEMMA SourcedInit == Init => Sourced
<1> SUFFICES ASSUME Init PROVE Sourced
  OBVIOUS
<1>1. OwnersTrue
  BY DEF Init, InitialStore, OwnersTrue
<1>2. CmdsPosted /\ TargetsEntitled
  BY DEF Init, CmdsPosted, TargetsEntitled, NoJob, Worker
<1>3. OnlyEntitledWithdrawals
  BY DEF Init, InitialStore, OnlyEntitledWithdrawals
<1> QED
  BY <1>1, <1>2, <1>3 DEF Sourced

\* No spot is ever hidden, deleted or kept out except on a withdrawal that the network
\* moderator or the spot's own poster signed, whatever the interleaving of the sync, the
\* sweep, the enrichment and maintenance, and whatever calls fail or starts follow.
THEOREM EntitledOnly == Spec => []OnlyEntitledWithdrawals
<1>1. TypeOK /\ Sourced /\ [Next]_vars => (TypeOK /\ Sourced)'
  BY TypeNext, SourcedNext
<1>2. Sourced => OnlyEntitledWithdrawals
  BY DEF Sourced
<1> QED
  BY TypeInit, SourcedInit, <1>1, <1>2, PTL DEF Spec
-----------------------------------------------------------------------------
(* A hidden spot stays hidden.                                             *)

\* The ring remembers every withdrawal, and nothing in the ring is listed.
RingHides == withdrawn \subseteq ring /\ ring \cap Visible = {}

\* Without delete mode and retention nobody removes a row before recording it in the
\* ring, and nobody prunes the ring.
MarkOnly ==
  /\ mode # "delete"
  /\ \A w \in Worker : pc[w] \notin {"ring", "retain", "prune"}

\* The database calls of mark mode keep what is in the ring out of the listings.
LEMMA RingHidesTables ==
  ASSUME RingHides, withdrawn' = withdrawn,
         \/ UNCHANGED tables
         \/ \E ids : InsertSpots(ids) \/ DeleteRows(ids)
         \/ \E n, k : SetSpotOwner(n, k)
  PROVE  RingHides'
<1> USE DEF RingHides, Visible
<1>1. CASE UNCHANGED tables
  BY <1>1 DEF tables
<1>2. ASSUME NEW ids, InsertSpots(ids) PROVE RingHides'
  BY <1>2 DEF InsertSpots
<1>3. ASSUME NEW ids, DeleteRows(ids) PROVE RingHides'
  BY <1>3 DEF DeleteRows
<1>4. ASSUME NEW n, NEW k, SetSpotOwner(n, k) PROVE RingHides'
  BY <1>4 DEF SetSpotOwner
<1> QED
  BY <1>1, <1>2, <1>3, <1>4

\* applyModeration in mark mode.
LEMMA MarkHides ==
  ASSUME RingHides, MarkOnly, TypeOK, NEW w \in Moderating, Moderate(w)
  PROVE  RingHides' /\ MarkOnly'
<1>1. w \in Worker /\ pc \in [Worker -> Labels] /\ mode' = mode
  BY DEF TypeOK, Moderate, Worker
<1>2. ASSUME Abandon(w) \/ Return(w) \/ UNCHANGED pc PROVE MarkOnly'
  BY <1>1, <1>2 DEF Abandon, Return, Goto, MarkOnly
<1>3. ASSUME NEW c \in job[w].cmds, Judge(w, c) PROVE RingHides' /\ MarkOnly'
  BY <1>2, <1>3, RingHidesTables DEF Judge, Settle
<1>4. ASSUME NEW c \in job[w].cmds, LookupOwner(w, c) PROVE RingHides' /\ MarkOnly'
  <2>1. MarkOnly'
    BY <1>2, <1>4 DEF LookupOwner, Settle
  <2>2. withdrawn' = withdrawn /\ (UNCHANGED tables \/ \E n, k : SetSpotOwner(n, k))
    BY <1>4 DEF LookupOwner
  <2> QED
    BY <2>1, <2>2, RingHidesTables
<1>5. ASSUME NEW c \in job[w].cmds, LookupFails(w, c) \/ TargetReadFails(w, c)
      PROVE  RingHides' /\ MarkOnly'
  BY <1>2, <1>5, RingHidesTables DEF LookupFails, TargetReadFails, Settle
<1>6. ASSUME NothingToApply(w) \/ ApplyFails(w) PROVE RingHides' /\ MarkOnly'
  BY <1>2, <1>6, RingHidesTables DEF NothingToApply, ApplyFails
<1>7. ASSUME ApplyMark(w) PROVE RingHides' /\ MarkOnly'
  <2>1. MarkOnly'
    BY <1>2, <1>7 DEF ApplyMark
  <2>2. RingHides'
    BY <1>7 DEF ApplyMark, MarkModerated, RingHides, Visible
  <2> QED
    BY <2>1, <2>2
<1>8. ~ApplyDelete(w) /\ ~RecordDeleted(w)
  BY <1>1 DEF ApplyDelete, RecordDeleted, MarkOnly
<1> QED
  BY <1>3, <1>4, <1>5, <1>6, <1>7, <1>8 DEF Moderate, ApplyModeration

\* Every step keeps the ring effective.
LEMMA RingHidesNext ==
  ASSUME "delete" \notin Modes, RetentionDays = 0, TypeOK, RingHides, MarkOnly, [Next]_vars
  PROVE  RingHides' /\ MarkOnly'
<1>1. pc \in [Worker -> Labels]
  BY DEF TypeOK
<1>2. ASSUME NEW w \in Worker, NEW l \in {"wait", "chunk", "moderate", "checkpoint", "done", "failed"},
             Goto(w, l), mode' = mode
      PROVE  MarkOnly'
  BY <1>1, <1>2 DEF Goto, MarkOnly
<1>3. CASE BeginPass \/ ReadChunk \/ ReadChunkFails \/ Checkpoint
  <2>1. mode' = mode /\ withdrawn' = withdrawn
    BY <1>3 DEF BeginPass, ReadChunk, ReadChunkFails, Checkpoint, context
  <2>2. \E l \in {"wait", "chunk", "moderate", "checkpoint", "done", "failed"} : Goto("forward", l)
    BY <1>3 DEF BeginPass, ReadChunk, ReadChunkFails, Checkpoint, Abandon
  <2>3. UNCHANGED tables \/ \E ids : InsertSpots(ids)
    BY <1>3 DEF BeginPass, ReadChunk, ReadChunkFails, Checkpoint, storeVars
  <2> QED
    BY <1>2, <2>1, <2>2, <2>3, RingHidesTables DEF Worker, Moderating
<1>4. CASE Backfill
  <2>1. mode' = mode /\ withdrawn' = withdrawn
    BY <1>4 DEF Backfill, BackfillDone, BackfillChunk, BackfillFails, BackfillCheckpoint, context
  <2>2. \E l \in {"wait", "chunk", "moderate", "checkpoint", "done", "failed"} : Goto("backfill", l)
    BY <1>4 DEF Backfill, BackfillDone, BackfillChunk, BackfillFails, BackfillCheckpoint
  <2>3. UNCHANGED tables \/ \E ids : InsertSpots(ids)
    BY <1>4 DEF Backfill, BackfillDone, BackfillChunk, BackfillFails, BackfillCheckpoint, storeVars
  <2> QED
    BY <1>2, <2>1, <2>2, <2>3, RingHidesTables DEF Worker
<1>5. CASE SweepDone \/ SweepChunk \/ SweepFails \/ SweepCheckpoint
  <2>1. mode' = mode /\ withdrawn' = withdrawn /\ UNCHANGED tables
    BY <1>5 DEF SweepDone, SweepChunk, SweepFails, SweepCheckpoint, context, storeVars
  <2>2. \E l \in {"wait", "chunk", "moderate", "checkpoint", "done", "failed"} : Goto("sweep", l)
    BY <1>5 DEF SweepDone, SweepChunk, SweepFails, SweepCheckpoint, Abandon
  <2> QED
    BY <1>2, <2>1, <2>2, RingHidesTables DEF Worker, Moderating
<1>6. CASE Maintain
  <2>1. PurgeBlacklist \/ MaintainFails
    BY <1>6 DEF Maintain, ApplyRetention, PruneRing, MarkOnly, Worker
  <2>2. mode' = mode /\ withdrawn' = withdrawn
    BY <2>1 DEF PurgeBlacklist, MaintainFails, maintained
  <2>3. Goto("maintenance", "wait")
    BY <2>1 DEF PurgeBlacklist, MaintainFails, AfterPurge
  <2>4. UNCHANGED tables \/ \E ids : DeleteRows(ids)
    BY <2>1 DEF PurgeBlacklist, MaintainFails
  <2> QED
    BY <1>2, <2>2, <2>3, <2>4, RingHidesTables DEF Worker
<1>7. ASSUME NEW n \in Num, Enrich(n) PROVE RingHides' /\ MarkOnly'
  <2>1. UNCHANGED <<mode, withdrawn, pc>> /\ SetSpotOwner(n, UserKey(n))
    BY <1>7 DEF Enrich, context, local
  <2> QED
    BY <2>1, RingHidesTables DEF MarkOnly
<1>8. CASE Tick \/ Provider \/ UNCHANGED vars
  <2>1. UNCHANGED <<mode, withdrawn, pc, tables>>
    BY <1>8 DEF Tick, Provider, vars, storeVars, local
  <2> QED
    BY <2>1, RingHidesTables DEF MarkOnly
<1>9. CASE Restart
  <2>1. \A w \in Worker : StartPC(mode')[w] \in {"wait", "chunk", "disabled"}
    BY DEF StartPC
  <2>2. mode' # "delete" /\ pc' = StartPC(mode') /\ UNCHANGED <<withdrawn, tables>>
    BY <1>9 DEF Restart, storeVars
  <2> QED
    BY <2>1, <2>2, RingHidesTables DEF MarkOnly
<1>10. CASE Moderate("forward") \/ Moderate("sweep")
  BY <1>10, MarkHides DEF Moderating
<1> QED
  BY <1>3, <1>4, <1>5, <1>6, <1>7, <1>8, <1>9, <1>10 DEF Next, Forward, Sweep

\* In mark mode, with no retention, a withdrawn spot is never listed again: neither the
\* re-reading of a chunk, the backfill, a restart in off mode nor the blacklist brings it
\* back.  (In delete mode it can: a stop between the two calls of applyModeration.)
THEOREM MarkedStaysOut ==
  ASSUME "delete" \notin Modes, RetentionDays = 0
  PROVE  Spec => []WithdrawnStaysOut
<1>1. Init => RingHides /\ MarkOnly
  <2> SUFFICES ASSUME Init PROVE RingHides /\ MarkOnly
    OBVIOUS
  <2>1. \A w \in Worker : StartPC(mode)[w] \in {"wait", "chunk", "disabled"}
    BY DEF StartPC
  <2> QED
    BY <2>1 DEF Init, InitialStore, RingHides, MarkOnly
<1>2. TypeOK /\ RingHides /\ MarkOnly /\ [Next]_vars => (TypeOK /\ RingHides /\ MarkOnly)'
  BY TypeNext, RingHidesNext
<1>3. RingHides => WithdrawnStaysOut
  BY DEF RingHides, WithdrawnStaysOut
<1> QED
  BY TypeInit, <1>1, <1>2, <1>3, PTL DEF Spec
-----------------------------------------------------------------------------
(* What has had a row.                                                     *)

\* Whatever the ring or a worker's queue names has had a row.
Recorded ==
  /\ spots \cup ring \subseteq indexed
  /\ \A w \in Moderating : job[w].targets \subseteq indexed

\* What applyModeration queues had a row, and its database calls record nothing new.
LEMMA ModerationRecorded ==
  ASSUME TypeOK, Recorded, NEW w \in Moderating, Moderate(w)
  PROVE  Recorded' /\ indexed' = indexed
<1>1. /\ w \in Worker /\ job \in [Worker -> Job] /\ job[w] \in Job /\ group \in [Num -> Article]
      /\ moderated \subseteq spots /\ Moderating \subseteq Worker
  BY DEF TypeOK, StoreTypeOK, UsenetTypeOK, Worker
<1> DEFINE QueueOK == \A v \in Moderating : job'[v].targets \subseteq indexed
           TablesKept == spots' \subseteq spots /\ ring' \subseteq indexed /\ indexed' = indexed
<1>2. ASSUME Abandon(w) \/ Return(w) PROVE QueueOK
  <2>1. NoJob.targets = {} /\ [job[w] EXCEPT !.targets = {}].targets = {}
    BY <1>1 DEF NoJob, Job
  <2>2. job' = [job EXCEPT ![w] = NoJob] \/ job' = [job EXCEPT ![w] = [job[w] EXCEPT !.targets = {}]]
    BY <1>2 DEF Abandon, Return, SetJob
  <2> QED
    BY <1>1, <2>1, <2>2 DEF Recorded
<1>3. ASSUME NEW c, NEW accept, NEW err, Settle(w, c, accept, err),
             accept => group[c].target \in spots
      PROVE  QueueOK
  <2> DEFINE j == [job[w] EXCEPT !.cmds = @ \ {c},
                                 !.targets = IF accept THEN @ \cup {group[c].target} ELSE @,
                                 !.lookupErr = @ \/ err]
  <2>1. j.targets \subseteq indexed
    BY <1>1, <1>3 DEF Recorded, Job
  <2>2. job' = [job EXCEPT ![w] = j]
    BY <1>3 DEF Settle, SetJob
  <2> HIDE DEF j
  <2> QED
    BY <1>1, <2>1, <2>2 DEF Recorded
<1>4. ASSUME UNCHANGED tables \/ \E n, k : SetSpotOwner(n, k) PROVE TablesKept
  BY <1>4 DEF tables, SetSpotOwner, Recorded
<1>5. \A c : ParseDispose(group[c]).target = group[c].target
  BY DEF ParseDispose
<1>6. ASSUME NEW c \in job[w].cmds, Judge(w, c) PROVE QueueOK /\ TablesKept
  <2> DEFINE cmd == ParseDispose(group[c])
             accept == /\ Eligible(w, cmd)
                       /\ ValidateDispose(cmd, owner[cmd.target], Posted(cmd.target))
  <2>1. Settle(w, c, accept, FALSE) /\ UNCHANGED tables
    BY <1>6 DEF Judge
  <2>2. accept => group[c].target \in spots
    BY <1>5 DEF Eligible
  <2> HIDE DEF accept
  <2> QED
    BY <1>3, <1>4, <2>1, <2>2
<1>7. ASSUME NEW c \in job[w].cmds, LookupOwner(w, c) PROVE QueueOK /\ TablesKept
  <2>1. group[c].target \in spots
    BY <1>5, <1>7 DEF LookupOwner, NeedsLookup, Eligible
  <2>2. \E accept : Settle(w, c, accept, FALSE)
    BY <1>7 DEF LookupOwner
  <2>3. UNCHANGED tables \/ \E n, k : SetSpotOwner(n, k)
    BY <1>7 DEF LookupOwner
  <2> QED
    BY <1>3, <1>4, <2>1, <2>2, <2>3
<1>8. ASSUME NEW c \in job[w].cmds, LookupFails(w, c) PROVE QueueOK /\ TablesKept
  <2>1. Settle(w, c, FALSE, TRUE) /\ UNCHANGED tables
    BY <1>8 DEF LookupFails
  <2> QED
    BY <1>3, <1>4, <2>1
<1>9. ASSUME NEW c \in job[w].cmds, TargetReadFails(w, c) PROVE QueueOK /\ TablesKept
  BY <1>2, <1>4, <1>9 DEF TargetReadFails
<1>10. ASSUME NothingToApply(w) \/ ApplyFails(w) PROVE QueueOK /\ TablesKept
  BY <1>2, <1>4, <1>10 DEF NothingToApply, ApplyFails
<1>11. ASSUME ApplyMark(w) \/ RecordDeleted(w) PROVE QueueOK /\ TablesKept
  <2>1. QueueOK
    BY <1>2, <1>11 DEF ApplyMark, RecordDeleted
  <2>2. MarkModerated(job[w].targets, now)
    BY <1>11 DEF ApplyMark, RecordDeleted
  <2> QED
    BY <2>1, <2>2 DEF MarkModerated, Recorded
<1>12. ASSUME ApplyDelete(w) PROVE QueueOK /\ TablesKept
  BY <1>12 DEF ApplyDelete, DeleteSpotsByMessageID, DeleteRows, Recorded
<1>13. QueueOK /\ TablesKept
  BY <1>6, <1>7, <1>8, <1>9, <1>10, <1>11, <1>12 DEF Moderate, ApplyModeration
<1> QED
  BY <1>13 DEF Recorded

\* What the ring or a queue names has had a row, and no row is forgotten by `indexed'.
LEMMA RecordedNext ==
  ASSUME TypeOK, Recorded, [Next]_vars
  PROVE  Recorded' /\ indexed \subseteq indexed'
<1>1. CASE Moderate("forward") \/ Moderate("sweep")
  BY <1>1, ModerationRecorded DEF Moderating
<1>2. CASE ~Moderate("forward") /\ ~Moderate("sweep")
  <2>1. /\ \/ UNCHANGED tables
           \/ \E ids : InsertSpots(ids) \/ DeleteRows(ids)
           \/ \E t : PruneModeratedRing(t)
           \/ \E n \in Num : SetSpotOwner(n, UserKey(n))
        /\ \A w \in Moderating : job'[w].targets \subseteq job[w].targets
    BY <1>2, OutsideModeration
  <2>2. (spots \cup ring)' \subseteq indexed' /\ indexed \subseteq indexed'
    <3>1. CASE UNCHANGED tables
      BY <3>1 DEF Recorded, tables
    <3>2. ASSUME NEW ids, InsertSpots(ids) \/ DeleteRows(ids)
          PROVE  (spots \cup ring)' \subseteq indexed' /\ indexed \subseteq indexed'
      BY <3>2 DEF Recorded, InsertSpots, DeleteRows
    <3>3. ASSUME NEW t, PruneModeratedRing(t)
          PROVE  (spots \cup ring)' \subseteq indexed' /\ indexed \subseteq indexed'
      BY <3>3 DEF Recorded, PruneModeratedRing
    <3>4. ASSUME NEW n \in Num, SetSpotOwner(n, UserKey(n))
          PROVE  (spots \cup ring)' \subseteq indexed' /\ indexed \subseteq indexed'
      BY <3>4 DEF Recorded, SetSpotOwner
    <3> QED
      BY <2>1, <3>1, <3>2, <3>3, <3>4
  <2> QED
    BY <2>1, <2>2 DEF Recorded
<1> QED
  BY <1>1, <1>2

-----------------------------------------------------------------------------
(* What the pruning of the ring may forget.                                *)

\* No row is dated after the clock: plausibleSpotTime has ParseFromOverview refuse the
\* articles that are, but for its allowance for clock skew.
NoneAhead == \A n \in indexed : Posted(n) <= now

\* No entry of the ring is older than its spot, and maintenance prunes only where
\* retention is configured, by a cutoff that many days back.
Dated ==
  /\ \A t \in ring : stamp[t] >= Posted(t)
  /\ pc["maintenance"] = "retain" => RetentionDays > 0
  /\ cutoff = 0 \/ (RetentionDays > 0 /\ cutoff + RetentionDays <= now)

\* Only the pruning takes entries out of the ring, and a new entry is stamped with the
\* time of the withdrawal of a spot that had a row by then.
LEMMA RingGrows ==
  ASSUME TypeOK, Recorded, [Next]_vars, ~PruneRing
  PROVE  /\ ring \subseteq ring'
         /\ \A t \in ring' :
              (t \in ring /\ stamp'[t] = stamp[t]) \/ (t \in indexed /\ stamp'[t] = now)
<1>1. TablesOK /\ LocalsOK
  BY TypeParts
<1> DEFINE Goal == /\ ring \subseteq ring'
                   /\ \A t \in ring' :
                        (t \in ring /\ stamp'[t] = stamp[t]) \/ (t \in indexed /\ stamp'[t] = now)
<1>2. ASSUME UNCHANGED <<ring, stamp>> PROVE Goal
  BY <1>2
<1>3. ASSUME \/ UNCHANGED tables
             \/ \E ids : InsertSpots(ids) \/ DeleteRows(ids)
             \/ \E n, k : SetSpotOwner(n, k)
      PROVE  Goal
  BY <1>2, <1>3 DEF tables, InsertSpots, DeleteRows, SetSpotOwner
<1>4. ASSUME NEW ids \in SUBSET Num, ids \subseteq indexed, MarkModerated(ids, now) PROVE Goal
  BY <1>1, <1>4 DEF MarkModerated, TablesOK
<1> HIDE DEF Goal
<1>5. ASSUME NEW w \in Moderating, Moderate(w) PROVE Goal
  <2>1. job[w].targets \in SUBSET Num /\ job[w].targets \subseteq indexed
    BY <1>1 DEF LocalsOK, Job, Worker, Recorded
  <2>2. ASSUME NEW c \in job[w].cmds,
               Judge(w, c) \/ LookupOwner(w, c) \/ LookupFails(w, c) \/ TargetReadFails(w, c)
        PROVE  Goal
    <3>1. UNCHANGED tables \/ \E n, k : SetSpotOwner(n, k)
      BY <2>2 DEF Judge, LookupOwner, LookupFails, TargetReadFails
    <3> QED
      BY <1>3, <3>1
  <2>3. CASE NothingToApply(w) \/ ApplyFails(w) \/ ApplyDelete(w)
    BY <1>3, <2>3 DEF NothingToApply, ApplyFails, ApplyDelete, DeleteSpotsByMessageID
  <2>4. CASE ApplyMark(w) \/ RecordDeleted(w)
    BY <1>4, <2>1, <2>4 DEF ApplyMark, RecordDeleted
  <2> QED
    BY <1>5, <2>2, <2>3, <2>4 DEF Moderate, ApplyModeration
<1>6. CASE BeginPass \/ ReadChunk \/ ReadChunkFails \/ Checkpoint
  <2>1. UNCHANGED tables \/ \E ids : InsertSpots(ids)
    BY <1>6 DEF BeginPass, ReadChunk, ReadChunkFails, Checkpoint, storeVars
  <2> QED
    BY <1>3, <2>1 DEF Goal
<1>7. CASE Backfill
  <2>1. UNCHANGED tables \/ \E ids : InsertSpots(ids)
    BY <1>7 DEF Backfill, BackfillDone, BackfillChunk, BackfillFails, BackfillCheckpoint, storeVars
  <2> QED
    BY <1>3, <2>1 DEF Goal
<1>8. CASE SweepDone \/ SweepChunk \/ SweepFails \/ SweepCheckpoint
  BY <1>3, <1>8 DEF SweepDone, SweepChunk, SweepFails, SweepCheckpoint, storeVars, Goal
<1>9. CASE Maintain
  <2>1. UNCHANGED tables \/ \E ids : DeleteRows(ids)
    BY <1>9 DEF Maintain, PurgeBlacklist, ApplyRetention, MaintainFails
  <2> QED
    BY <1>3, <2>1 DEF Goal
<1>10. CASE Tick \/ Provider \/ Restart \/ UNCHANGED vars \/ \E n \in Num : Enrich(n)
  <2>1. UNCHANGED tables \/ \E n, k : SetSpotOwner(n, k)
    BY <1>10 DEF Tick, Provider, Restart, Enrich, vars, storeVars
  <2> QED
    BY <1>3, <2>1 DEF Goal
<1> QED
  BY <1>5, <1>6, <1>7, <1>8, <1>9, <1>10 DEF Next, Forward, Sweep, Goal, Moderating

\* Only maintenance moves itself and its cutoff, except that a restart resets both; only the
\* clock moves the clock.
LEMMA MaintenanceAlone ==
  ASSUME TypeOK, [Next]_vars, ~Maintain
  PROVE  /\ cutoff' \in {cutoff, 0} /\ now' >= now
         /\ pc'["maintenance"] \in {pc["maintenance"], "wait"}
<1>1. pc \in [Worker -> Labels] /\ "maintenance" \in Worker /\ now \in Nat
  BY DEF TypeOK, Worker
<1>2. CASE BeginPass \/ ReadChunk \/ ReadChunkFails \/ Checkpoint
  <2>1. UNCHANGED <<cutoff, now>> /\ \E l : Goto("forward", l)
    BY <1>2 DEF BeginPass, ReadChunk, ReadChunkFails, Checkpoint, Abandon, context
  <2> QED
    BY <1>1, <2>1 DEF Goto
<1>3. CASE Backfill
  <2>1. UNCHANGED <<cutoff, now>> /\ \E l : Goto("backfill", l)
    BY <1>3 DEF Backfill, BackfillDone, BackfillChunk, BackfillFails, BackfillCheckpoint, context
  <2> QED
    BY <1>1, <2>1 DEF Goto
<1>4. CASE SweepDone \/ SweepChunk \/ SweepFails \/ SweepCheckpoint
  <2>1. UNCHANGED <<cutoff, now>> /\ \E l : Goto("sweep", l)
    BY <1>4 DEF SweepDone, SweepChunk, SweepFails, SweepCheckpoint, Abandon, context
  <2> QED
    BY <1>1, <2>1 DEF Goto
<1>5. ASSUME NEW w \in Moderating, Moderate(w)
      PROVE  UNCHANGED <<cutoff, now>> /\ pc'["maintenance"] = pc["maintenance"]
  <2>1. pc' = pc \/ \E l : Goto(w, l)
    <3>1. ASSUME NEW c \in job[w].cmds,
                 Judge(w, c) \/ LookupOwner(w, c) \/ LookupFails(w, c) \/ TargetReadFails(w, c)
          PROVE  pc' = pc \/ \E l : Goto(w, l)
      BY <3>1 DEF Judge, LookupOwner, LookupFails, TargetReadFails, Settle, Abandon
    <3>2. CASE NothingToApply(w) \/ ApplyMark(w) \/ RecordDeleted(w)
      BY <3>2 DEF NothingToApply, ApplyMark, RecordDeleted, Return, Abandon
    <3>3. CASE ApplyDelete(w) \/ ApplyFails(w)
      BY <3>3 DEF ApplyDelete, ApplyFails, Abandon
    <3> QED
      BY <1>5, <3>1, <3>2, <3>3 DEF Moderate, ApplyModeration
  <2> QED
    BY <1>1, <1>5, <2>1 DEF Goto, Moderate, Moderating
<1>6. CASE Tick \/ Provider \/ UNCHANGED vars \/ \E n \in Num : Enrich(n)
  <2>1. UNCHANGED <<cutoff, pc>> /\ now' >= now
    BY <1>1, <1>6 DEF Tick, Provider, Enrich, context, local, vars
  <2> QED
    BY <2>1
<1>7. CASE Restart
  BY <1>1, <1>7 DEF Restart, StartPC, Worker, Moderating
<1> QED
  BY <1>1, <1>2, <1>3, <1>4, <1>5, <1>6, <1>7 DEF Next, Forward, Sweep, Moderating

\* The dates stay in order.
LEMMA DatedNext ==
  ASSUME TypeOK, TypeOK', Recorded, Dated, NoneAhead, [Next]_vars
  PROVE  Dated'
<1>1. /\ now \in Nat /\ now' \in Nat /\ cutoff \in Nat /\ RetentionDays \in Nat
      /\ stamp \in [Num -> Nat] /\ ring \subseteq Num
      /\ stamp' \in [Num -> Nat] /\ ring' \subseteq Num
      /\ pc \in [Worker -> Labels] /\ "maintenance" \in Worker
  BY SyncAssumption DEF TypeOK, StoreTypeOK, Worker
<1>2. group' = group
  BY GroupGrows
<1> DEFINE Kept == \A t \in ring' : stamp'[t] >= Posted(t)'
<1>3. ASSUME \A t \in ring' :
               (t \in ring /\ stamp'[t] = stamp[t]) \/ (t \in indexed /\ stamp'[t] = now)
      PROVE  Kept
  <2>1. ASSUME NEW t \in ring' PROVE group[t].posted \in Nat
    BY <1>1, SpotnetAssumption DEF TypeOK, UsenetTypeOK, Article
  <2> QED
    BY <1>1, <1>2, <1>3, <2>1 DEF Dated, NoneAhead, Posted
<1>4. ~PruneRing => Kept
  BY <1>3, RingGrows
<1> HIDE DEF Kept
<1>5. ASSUME Kept, pc'["maintenance"] = "retain" => RetentionDays > 0,
             cutoff' = 0 \/ (RetentionDays > 0 /\ cutoff' + RetentionDays <= now')
      PROVE  Dated'
  BY <1>5 DEF Dated, Kept
<1>6. CASE ~Maintain
  <2>1. /\ cutoff' \in {cutoff, 0} /\ now' >= now
        /\ pc'["maintenance"] \in {pc["maintenance"], "wait"}
    BY <1>6, MaintenanceAlone
  <2>2. cutoff' = 0 \/ (RetentionDays > 0 /\ cutoff' + RetentionDays <= now')
    <3>1. CASE cutoff' = cutoff
      <4>1. cutoff = 0 \/ (RetentionDays > 0 /\ cutoff + RetentionDays <= now)
        BY DEF Dated
      <4> QED
        BY <1>1, <2>1, <3>1, <4>1
    <3> QED
      BY <2>1, <3>1
  <2>3. pc'["maintenance"] = "retain" => RetentionDays > 0
    BY <2>1 DEF Dated
  <2> QED
    BY <1>4, <1>5, <1>6, <2>2, <2>3 DEF Maintain
<1>7. CASE PurgeBlacklist \/ MaintainFails
  <2>1. ~PruneRing \/ UNCHANGED <<ring, stamp>>
    BY <1>7 DEF PurgeBlacklist, MaintainFails, PruneRing, tables
  <2>2. Kept
    BY <1>3, <1>4, <2>1
  <2>3. /\ now' = now /\ cutoff' \in {cutoff, 0}
        /\ pc'["maintenance"] = "retain" => RetentionDays > 0
    BY <1>1, <1>7 DEF PurgeBlacklist, MaintainFails, AfterPurge, Goto, maintained
  <2> QED
    BY <1>1, <1>5, <2>2, <2>3 DEF Dated
<1>8. CASE ApplyRetention
  <2>1. /\ now' = now /\ pc["maintenance"] = "retain" /\ pc'["maintenance"] = "prune"
        /\ cutoff' = IF now > RetentionDays THEN now - RetentionDays ELSE 0
        /\ UNCHANGED <<ring, stamp>>
    BY <1>1, <1>8 DEF ApplyRetention, Goto, maintained, DeleteRows
  <2>2. cutoff' = 0 \/ (RetentionDays > 0 /\ cutoff' + RetentionDays <= now')
    BY <1>1, <2>1 DEF Dated
  <2> QED
    BY <1>3, <1>5, <2>1, <2>2
<1>9. CASE PruneRing
  <2>1. /\ now' = now /\ pc'["maintenance"] = "wait" /\ cutoff' = 0
        /\ PruneModeratedRing(cutoff)
    BY <1>1, <1>9 DEF PruneRing, Goto, maintained
  <2>2. \A t \in ring' : t \in ring /\ stamp'[t] = stamp[t]
    BY <1>1, <2>1 DEF PruneModeratedRing
  <2> QED
    BY <1>3, <1>5, <2>1, <2>2
<1> QED
  BY <1>6, <1>7, <1>8, <1>9 DEF Maintain

\* What leaves the ring is a spot that retention removes anyway.
LEMMA LeavesExpired ==
  ASSUME TypeOK, Recorded, Dated, [Next]_vars, NEW t \in ring \ ring'
  PROVE  Expired(t)
<1>1. PruneRing
  BY RingGrows
<1>2. stamp[t] < cutoff
  BY <1>1 DEF PruneRing, PruneModeratedRing
<1>3. /\ stamp[t] \in Nat /\ cutoff \in Nat /\ now \in Nat /\ RetentionDays \in Nat
      /\ group[t].posted \in 0 .. MaxPosted
  BY SyncAssumption DEF TypeOK, StoreTypeOK, UsenetTypeOK, Article
<1>4. stamp[t] >= Posted(t) /\ RetentionDays > 0 /\ cutoff + RetentionDays <= now
  BY <1>2, <1>3 DEF Dated
<1> QED
  BY <1>2, <1>3, <1>4, SpotnetAssumption DEF Expired, Posted

LEMMA DatedInit == Init => Recorded /\ Dated
  BY DEF Init, InitialStore, StartPC, Worker, Moderating, NoJob, Recorded, Dated

\* Pruning the ring never opens the way back for a spot that retention would keep, at
\* whatever point of a pass the clock moves on, a call fails or the process restarts.
THEOREM PrunesOnlyExpired == Spec /\ []NoneAhead => PrunedIsExpired
<1> DEFINE Inv == TypeOK /\ Recorded /\ Dated
<1>1. Inv /\ NoneAhead /\ [Next]_vars => Inv'
  BY TypeNext, RecordedNext, DatedNext
<1>2. Inv /\ [Next]_vars => [\A t \in ring \ ring' : Expired(t)]_vars
  BY LeavesExpired
<1> QED
  BY TypeInit, DatedInit, <1>1, <1>2, PTL DEF Spec, PrunedIsExpired

-----------------------------------------------------------------------------
(* A deleted spot stays out.                                               *)

\* Between the deletion and the ring entry somebody still has the spot in hand.
Awaited(t) == \E w \in Moderating : pc[w] = "ring" /\ t \in job[w].targets

\* As long as nothing stopped or failed, every withdrawal is remembered: by the ring, by
\* the worker about to enter it there, or by nobody once the spot is too old to matter.
Accounted ==
  restarts = 0 /\ dbFaults = 0 =>
    \A t \in withdrawn : t \in ring \/ Expired(t) \/ Awaited(t)

\* In every mode what is in the ring is not listed.
RingEffective == ring \cap Visible = {}

\* The effect of applyModeration's steps on the tables, its own place and what it withdrew.
LEMMA ModerationEffects ==
  ASSUME TypeOK, NEW w \in Moderating, Moderate(w)
  PROVE  /\ \/ UNCHANGED tables
            \/ \E n, k : SetSpotOwner(n, k)
            \/ DeleteRows(job[w].targets) \/ MarkModerated(job[w].targets, now)
         /\ \A v \in Worker \ {w} : pc'[v] = pc[v] /\ job'[v] = job[v]
         /\ \A t \in withdrawn' \ withdrawn :
              t \in ring' \/ (pc'[w] = "ring" /\ t \in job'[w].targets)
         /\ pc[w] = "ring" => dbFaults' # dbFaults \/ job[w].targets \subseteq ring'
<1>1. pc \in [Worker -> Labels] /\ job \in [Worker -> Job] /\ w \in Worker /\ dbFaults \in Nat
  BY DEF TypeOK, Worker
<1> DEFINE Calls == \/ UNCHANGED tables
                    \/ \E n, k : SetSpotOwner(n, k)
                    \/ DeleteRows(job[w].targets) \/ MarkModerated(job[w].targets, now)
           Moves == (pc' = pc \/ \E l : Goto(w, l)) /\ (job' = job \/ \E j : SetJob(w, j))
           Takes == \A t \in withdrawn' \ withdrawn :
                      t \in ring' \/ (pc'[w] = "ring" /\ t \in job'[w].targets)
           Enters == pc[w] = "ring" => dbFaults' # dbFaults \/ job[w].targets \subseteq ring'
<1>2. Moves => \A v \in Worker \ {w} : pc'[v] = pc[v] /\ job'[v] = job[v]
  BY <1>1 DEF Goto, SetJob
<1>3. ASSUME NEW c \in job[w].cmds, Judge(w, c) \/ LookupOwner(w, c) \/ LookupFails(w, c)
      PROVE  Calls /\ Moves /\ Takes /\ Enters
  <2>1. Calls
    BY <1>3 DEF Judge, LookupOwner, LookupFails
  <2>2. Moves /\ withdrawn' = withdrawn
    BY <1>3 DEF Judge, LookupOwner, LookupFails, Settle
  <2>3. pc[w] = "moderate"
    BY <1>3 DEF Judge, LookupOwner, LookupFails, InHand
  <2> QED
    BY <2>1, <2>2, <2>3
<1>4. ASSUME NEW c \in job[w].cmds, TargetReadFails(w, c) PROVE Calls /\ Moves /\ Takes /\ Enters
  BY <1>4 DEF TargetReadFails, InHand, Abandon
<1>5. ASSUME NothingToApply(w) PROVE Calls /\ Moves /\ Takes /\ Enters
  BY <1>5 DEF NothingToApply, LoopEnded, Return, Abandon
<1>6. ASSUME ApplyFails(w) PROVE Calls /\ Moves /\ Takes /\ Enters
  <2>1. dbFaults' # dbFaults
    BY <1>1, <1>6 DEF ApplyFails, DBFault
  <2> QED
    BY <1>6, <2>1 DEF ApplyFails, Abandon
<1>7. ASSUME ApplyMark(w) \/ RecordDeleted(w) PROVE Calls /\ Moves /\ Takes /\ Enters
  <2>1. MarkModerated(job[w].targets, now) /\ Moves
    BY <1>7 DEF ApplyMark, RecordDeleted, Return, Abandon
  <2>2. job[w].targets \subseteq ring'
    BY <2>1 DEF MarkModerated
  <2>3. withdrawn' \subseteq withdrawn \cup job[w].targets
    BY <1>7 DEF ApplyMark, RecordDeleted
  <2> QED
    BY <2>1, <2>2, <2>3
<1>8. ASSUME ApplyDelete(w) PROVE Calls /\ Moves /\ Takes /\ Enters
  <2>1. /\ DeleteRows(job[w].targets) /\ Moves /\ pc[w] = "moderate" /\ job' = job
        /\ withdrawn' = withdrawn \cup job[w].targets
    BY <1>8 DEF ApplyDelete, DeleteSpotsByMessageID, LoopEnded
  <2>2. pc'[w] = "ring"
    BY <1>1, <1>8 DEF ApplyDelete, Goto
  <2> QED
    BY <2>1, <2>2
<1> HIDE DEF Calls, Moves, Takes, Enters
<1>9. Calls /\ Moves /\ Takes /\ Enters
  BY <1>3, <1>4, <1>5, <1>6, <1>7, <1>8 DEF Moderate, ApplyModeration
<1> QED
  BY <1>2, <1>9 DEF Calls, Takes, Enters

\* Whoever has deleted and not yet entered the ring is left there by everyone else.
LEMMA AwaitedKept ==
  ASSUME TypeOK, [Next]_vars, ~Restart, NEW w \in Moderating, ~Moderate(w), pc[w] = "ring"
  PROVE  pc'[w] = "ring" /\ job'[w] = job[w]
<1>1. pc \in [Worker -> Labels] /\ job \in [Worker -> Job] /\ w \in Worker
  BY DEF TypeOK, Worker
<1>2. ASSUME NEW v \in Worker, v # w,
             pc' = pc \/ \E l : Goto(v, l), job' = job \/ \E j : SetJob(v, j)
      PROVE  pc'[w] = "ring" /\ job'[w] = job[w]
  BY <1>1, <1>2 DEF Goto, SetJob
<1>3. CASE BeginPass \/ ReadChunk \/ ReadChunkFails \/ Checkpoint
  <2>1. pc["forward"] # "ring"
    BY <1>3 DEF BeginPass, ReadChunk, ReadChunkFails, Checkpoint
  <2>2. (\E l : Goto("forward", l)) /\ \E j : SetJob("forward", j)
    BY <1>3 DEF BeginPass, ReadChunk, ReadChunkFails, Checkpoint, Abandon
  <2> QED
    BY <1>2, <2>1, <2>2 DEF Worker, Moderating
<1>4. CASE SweepDone \/ SweepChunk \/ SweepFails \/ SweepCheckpoint
  <2>1. pc["sweep"] # "ring"
    BY <1>4 DEF SweepDone, SweepChunk, SweepFails, SweepCheckpoint
  <2>2. (\E l : Goto("sweep", l)) /\ (job' = job \/ \E j : SetJob("sweep", j))
    BY <1>4 DEF SweepDone, SweepChunk, SweepFails, SweepCheckpoint, Abandon
  <2> QED
    BY <1>2, <2>1, <2>2 DEF Worker, Moderating
<1>5. CASE Backfill
  <2>1. (\E l : Goto("backfill", l)) /\ (job' = job \/ \E j : SetJob("backfill", j))
    BY <1>5 DEF Backfill, BackfillDone, BackfillChunk, BackfillFails, BackfillCheckpoint
  <2> QED
    BY <1>2, <2>1 DEF Worker, Moderating
<1>6. CASE Maintain
  <2>1. (\E l : Goto("maintenance", l)) /\ job' = job
    BY <1>6 DEF Maintain, PurgeBlacklist, ApplyRetention, PruneRing, MaintainFails, AfterPurge,
                maintained
  <2> QED
    BY <1>2, <2>1 DEF Worker, Moderating
<1>7. CASE Tick \/ Provider \/ UNCHANGED vars \/ \E n \in Num : Enrich(n)
  BY <1>7 DEF Tick, Provider, Enrich, local, vars
<1>8. ASSUME NEW v \in Moderating, Moderate(v) PROVE pc'[w] = "ring" /\ job'[w] = job[w]
  <2>1. v # w
    BY <1>8
  <2> QED
    BY <1>1, <1>8, <2>1, ModerationEffects
<1> QED
  BY <1>3, <1>4, <1>5, <1>6, <1>7, <1>8 DEF Next, Forward, Sweep, Moderating

\* Nothing undoes a stop or a failure, and an expired spot stays expired.
LEMMA HistoryKept ==
  ASSUME TypeOK, [Next]_vars, restarts' = 0, dbFaults' = 0
  PROVE  /\ restarts = 0 /\ dbFaults = 0 /\ ~Restart
         /\ \A t \in Num : Expired(t) => Expired(t)'
<1>1. restarts \in Nat /\ dbFaults \in Nat /\ now \in Nat /\ RetentionDays \in Nat
  BY SyncAssumption DEF TypeOK
<1>2. ~Restart
  BY <1>1 DEF Restart
<1>3. restarts' = restarts
  <2>1. CASE Forward
    BY <2>1 DEF Forward, BeginPass, ReadChunk, ReadChunkFails, Checkpoint, Moderate, context
  <2>2. CASE Backfill
    BY <2>2 DEF Backfill, BackfillDone, BackfillChunk, BackfillFails, BackfillCheckpoint, context
  <2>3. CASE Sweep
    BY <2>3 DEF Sweep, SweepDone, SweepChunk, SweepFails, SweepCheckpoint, Moderate, context
  <2>4. CASE Maintain
    BY <2>4 DEF Maintain, PurgeBlacklist, ApplyRetention, PruneRing, MaintainFails, maintained
  <2>5. CASE Tick \/ Provider \/ UNCHANGED vars \/ \E n \in Num : Enrich(n)
    BY <2>5 DEF Tick, Provider, Enrich, context, vars
  <2> QED
    BY <1>2, <2>1, <2>2, <2>3, <2>4, <2>5 DEF Next
<1>4. dbFaults' = dbFaults \/ dbFaults' = dbFaults + 1
  <2> USE DEF NetFault, DBFault, faults
  <2>1. CASE BeginPass \/ ReadChunk \/ ReadChunkFails \/ Checkpoint
    BY <2>1 DEF BeginPass, ReadChunk, ReadChunkFails, Checkpoint
  <2>2. CASE Backfill
    BY <2>2 DEF Backfill, BackfillDone, BackfillChunk, BackfillFails, BackfillCheckpoint
  <2>3. CASE SweepDone \/ SweepChunk \/ SweepFails \/ SweepCheckpoint
    BY <2>3 DEF SweepDone, SweepChunk, SweepFails, SweepCheckpoint
  <2>4. CASE Maintain
    BY <2>4 DEF Maintain, PurgeBlacklist, ApplyRetention, PruneRing, MaintainFails
  <2>5. CASE Tick \/ Provider \/ Restart \/ UNCHANGED vars \/ \E n \in Num : Enrich(n)
    BY <2>5 DEF Tick, Provider, Restart, Enrich, vars
  <2>6. ASSUME NEW w \in Moderating, Moderate(w)
        PROVE  dbFaults' = dbFaults \/ dbFaults' = dbFaults + 1
    <3>1. ASSUME NEW c \in job[w].cmds,
                 Judge(w, c) \/ LookupOwner(w, c) \/ LookupFails(w, c) \/ TargetReadFails(w, c)
          PROVE  dbFaults' = dbFaults \/ dbFaults' = dbFaults + 1
      BY <3>1 DEF Judge, LookupOwner, LookupFails, TargetReadFails
    <3>2. CASE NothingToApply(w) \/ ApplyMark(w) \/ ApplyDelete(w) \/ RecordDeleted(w) \/ ApplyFails(w)
      BY <3>2 DEF NothingToApply, ApplyMark, ApplyDelete, RecordDeleted, ApplyFails
    <3> QED
      BY <2>6, <3>1, <3>2 DEF Moderate, ApplyModeration
  <2> QED
    BY <2>1, <2>2, <2>3, <2>4, <2>5, <2>6 DEF Next, Forward, Sweep, Moderating
<1>5. group' = group /\ now' >= now
  <2>1. CASE Maintain
    BY <1>1, <2>1, GroupGrows DEF Maintain, PurgeBlacklist, ApplyRetention, PruneRing, MaintainFails,
                                  maintained
  <2> QED
    BY <2>1, MaintenanceAlone, GroupGrows
<1>6. TypeOK'
  BY TypeNext
<1>7. ASSUME NEW t \in Num, Expired(t) PROVE Expired(t)'
  <2>1. group[t].posted \in Nat /\ now' \in Nat
    BY <1>6, SpotnetAssumption DEF TypeOK, UsenetTypeOK, Article
  <2> QED
    BY <1>1, <1>5, <1>7, <2>1 DEF Expired, Posted
<1> QED
  BY <1>1, <1>2, <1>3, <1>4, <1>7

\* In every mode a step leaves what is in the ring unlisted.
LEMMA RingEffectiveNext ==
  ASSUME TypeOK, RingEffective, [Next]_vars
  PROVE  RingEffective'
<1> USE DEF RingEffective, Visible
<1>1. CASE UNCHANGED tables
  BY <1>1 DEF tables
<1>2. ASSUME NEW ids, InsertSpots(ids) \/ DeleteRows(ids) PROVE RingEffective'
  BY <1>2 DEF InsertSpots, DeleteRows
<1>3. ASSUME NEW t, PruneModeratedRing(t) PROVE RingEffective'
  BY <1>3 DEF PruneModeratedRing
<1>4. ASSUME NEW n, NEW k, SetSpotOwner(n, k) PROVE RingEffective'
  BY <1>4 DEF SetSpotOwner
<1>5. ASSUME NEW ids, NEW t, MarkModerated(ids, t) PROVE RingEffective'
  BY <1>5 DEF MarkModerated
<1> HIDE DEF RingEffective
<1>6. CASE Moderate("forward") \/ Moderate("sweep")
  <2>1. PICK w \in Moderating : Moderate(w)
    BY <1>6 DEF Moderating
  <2>2. \/ UNCHANGED tables
        \/ \E n, k : SetSpotOwner(n, k)
        \/ DeleteRows(job[w].targets) \/ MarkModerated(job[w].targets, now)
    BY <2>1, ModerationEffects
  <2> QED
    BY <1>1, <1>2, <1>4, <1>5, <2>2
<1>7. CASE ~Moderate("forward") /\ ~Moderate("sweep")
  <2>1. \/ UNCHANGED tables
        \/ \E ids : InsertSpots(ids) \/ DeleteRows(ids)
        \/ \E t : PruneModeratedRing(t)
        \/ \E n \in Num : SetSpotOwner(n, UserKey(n))
    BY <1>7, OutsideModeration
  <2> QED
    BY <1>1, <1>2, <1>3, <1>4, <2>1
<1> QED
  BY <1>6, <1>7

\* Every withdrawal stays accounted for.
LEMMA AccountedNext ==
  ASSUME TypeOK, Recorded, Dated, Accounted, [Next]_vars
  PROVE  Accounted'
<1> SUFFICES ASSUME restarts' = 0, dbFaults' = 0, NEW t \in withdrawn'
             PROVE  t \in ring' \/ Expired(t)' \/ Awaited(t)'
  BY DEF Accounted
<1>1. restarts = 0 /\ dbFaults = 0 /\ ~Restart /\ (t \in Num /\ Expired(t) => Expired(t)')
  BY HistoryKept
<1>2. ASSUME t \notin withdrawn PROVE t \in ring' \/ Awaited(t)'
  <2>1. PICK w \in Moderating : Moderate(w)
    BY <1>2, OutsideModeration DEF Moderating
  <2> QED
    BY <1>2, <2>1, ModerationEffects DEF Awaited
<1>3. ASSUME t \in withdrawn PROVE t \in ring' \/ Expired(t)' \/ Awaited(t)'
  <2>1. t \in Num
    BY <1>3 DEF TypeOK
  <2>2. CASE t \in ring
    <3>1. t \in ring' \/ Expired(t)
      BY <2>2, LeavesExpired
    <3> QED
      BY <1>1, <2>1, <3>1
  <2>3. CASE Expired(t)
    BY <1>1, <2>1, <2>3
  <2>4. CASE Awaited(t)
    <3>1. PICK w \in Moderating : pc[w] = "ring" /\ t \in job[w].targets
      BY <2>4 DEF Awaited
    <3>2. CASE Moderate(w)
      BY <1>1, <3>1, <3>2, ModerationEffects
    <3>3. CASE ~Moderate(w)
      <4>1. pc'[w] = "ring" /\ job'[w] = job[w]
        BY <1>1, <3>1, <3>3, AwaitedKept
      <4> QED
        BY <3>1, <4>1 DEF Awaited
    <3> QED
      BY <3>2, <3>3
  <2> QED
    BY <1>1, <1>3, <2>2, <2>3, <2>4 DEF Accounted
<1> QED
  BY <1>2, <1>3

\* In delete mode, too, what applyModeration took out of the listings stays out while
\* nothing stops or fails: however the forward sync, the backfill and the sweep interleave
\* with the two transactions of a deletion, and whatever retention prunes from the ring.
THEOREM DeletedComesBackOnlyInPassing == Spec /\ []NoneAhead => []DeletedStaysOut
<1> DEFINE Inv == TypeOK /\ Recorded /\ Dated /\ RingEffective /\ Accounted
<1>1. Init => RingEffective /\ Accounted
  BY DEF Init, InitialStore, RingEffective, Accounted
<1>2. Inv /\ NoneAhead /\ [Next]_vars => Inv'
  BY TypeNext, RecordedNext, DatedNext, RingEffectiveNext, AccountedNext
<1>3. Inv => DeletedStaysOut
  BY DEF RingEffective, Accounted, Awaited, DeletedStaysOut
<1> QED
  BY TypeInit, DatedInit, <1>1, <1>2, <1>3, PTL DEF Spec
=============================================================================
