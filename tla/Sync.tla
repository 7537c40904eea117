-------------------------------- MODULE Sync --------------------------------
(***************************************************************************)
(* The background workers of cmd/spottr on one newsgroup: the forward sync *)
(* (syncer.go), the backfill (backfill.go), the withdrawal sweep           *)
(* (disposesweep.go) and the maintenance pass (maintenance.go), with the   *)
(* API's lazy enrichment, over one database and one provider.  The process *)
(* may stop at any step and start again with another MODERATION_MODE.      *)
(*                                                                         *)
(* A worker's step is one database call or one NNTP command followed by a  *)
(* database call on what it returned.  Reading an overview and inserting   *)
(* its spots are one step: nothing another worker does in between changes  *)
(* what is inserted, and a stop in between equals a stop before.           *)
(***************************************************************************)
EXTENDS Moderation

CONSTANTS
  ChunkSize,        \* overviewChunkSize
  SyncLookback,     \* SYNC_LOOKBACK
  BackfillEnabled,  \* BACKFILL
  Modes,            \* the MODERATION_MODE values a start may find
  RetentionDays,    \* RETENTION_DAYS, 0 keeps everything
  InitialTime,      \* the clock at the start
  Blacklist,        \* the blacklisted spotter ids
  Upgraded,         \* the database of an earlier release is there at the start
  MaxTime,          \* bound on the clock
  MaxRestarts       \* bound: how often the process is stopped and started

ASSUME SyncAssumption ==
  /\ ChunkSize \in Nat \ {0}
  /\ SyncLookback \in Nat
  /\ BackfillEnabled \in BOOLEAN
  /\ Modes # {} /\ Modes \subseteq {"off", "mark", "delete"}
  /\ RetentionDays \in Nat
  /\ Blacklist \subseteq Spotter
  /\ Upgraded \in BOOLEAN
  /\ InitialTime \in Nat /\ MaxTime \in Nat
  /\ MaxRestarts \in Nat

VARIABLES
  cutoff,     \* applyRetention's cutoff, kept for pruning the ring
  restarts,   \* starts after the first
  syncStart   \* history: where the first sync that checkpointed started

vars == <<usenet, storeVars, mode, now, pc, job, failures, faults,
          withdrawn, cutoff, restarts, syncStart>>

local == <<pc, job, failures>>

\* What a step of a worker on its chunk leaves alone.
context == <<usenet, mode, now, withdrawn, cutoff, restarts>>

MinOf(S) == CHOOSE x \in S : \A y \in S : x <= y
MaxOf(S) == CHOOSE x \in S : \A y \in S : x >= y
AtLeast(x, lower) == IF x < lower THEN lower ELSE x
AtMost(x, upper) == IF x > upper THEN upper ELSE x

-----------------------------------------------------------------------------
(* main: every worker starts afresh.                                       *)

\* Where each goroutine is right after a start with moderation mode m.
StartPC(m) ==
  [w \in Worker |->
     CASE w = "backfill" -> IF BackfillEnabled THEN "chunk" ELSE "disabled"
       [] w = "sweep"    -> IF m = "off" THEN "disabled" ELSE "chunk"
       [] OTHER          -> "wait"]

\* An empty database, or one an earlier release filled from lo to hi while dropping
\* the withdrawals; migration 2 seeded backfill_article_num from the oldest spot.
InitialStore ==
  /\ moderated = {} /\ ring = {}
  /\ owner = [n \in Num |-> NoSpotter]
  /\ stamp = [n \in Num |-> 0]
  /\ sweepArticle = 0
  /\ IF Upgraded
     THEN \E lo, hi \in 1 .. InitialLast :
            /\ lo <= hi
            /\ spots = {n \in lo .. hi : Accepted(group[n])}
            /\ spots # {}
            /\ lastArticle = hi
            /\ backfillArticle = MinOf(spots)
            /\ syncStart = lo
     ELSE spots = {} /\ lastArticle = 0 /\ backfillArticle = 0 /\ syncStart = 0
  /\ indexed = spots

Init ==
  /\ UsenetInit
  /\ InitialStore
  /\ mode \in Modes
  /\ now = InitialTime
  /\ pc = StartPC(mode)
  /\ job = [w \in Worker |-> NoJob]
  /\ failures = 0 /\ netFaults = 0 /\ dbFaults = 0
  /\ withdrawn = {}
  /\ cutoff = 0 /\ restarts = 0

\* The process stops wherever it is; the next start may have another mode.
Restart ==
  /\ restarts < MaxRestarts
  /\ restarts' = restarts + 1
  /\ mode' \in Modes
  /\ pc' = StartPC(mode')
  /\ job' = [w \in Worker |-> NoJob]
  /\ failures' = 0
  /\ cutoff' = 0
  /\ UNCHANGED <<usenet, storeVars, now, faults, withdrawn, syncStart>>

-----------------------------------------------------------------------------
(* Forward sync: syncGroup.                                                *)

\* GROUP and GetSyncState: where the pass begins.  Nothing new: nothing happens.
BeginPass ==
  LET from == IF lastArticle = 0
              THEN AtLeast(IF last > SyncLookback THEN last - SyncLookback ELSE 0, first)
              ELSE lastArticle + 1
  IN  /\ pc["forward"] = "wait"
      /\ from <= last
      /\ Goto("forward", "chunk")
      /\ SetJob("forward", [NoJob EXCEPT !.from = from, !.bound = last])
      /\ syncStart' = IF lastArticle = 0 THEN from ELSE syncStart
      /\ UNCHANGED <<context, storeVars, failures, faults>>

\* Fault: one article short of the next chunk.
ChunkToShort == AtMost(job["forward"].from + ChunkSize - 2, job["forward"].bound)

ChunkTo == AtMost(job["forward"].from + ChunkSize - 1, job["forward"].bound)

\* The withdrawals of a batch that the forward sync keeps: verified ones, mode not off.
Disposes(batch) ==
  IF mode = "off" THEN {}
  ELSE {n \in batch : group[n].kind = "dispose" /\ ParseDispose(group[n]).verified}

\* An overview chunk arrives and its spots are inserted; a failed insert is only logged.
ReadChunk ==
  LET batch == Overview(job["forward"].from, ChunkTo)
      kept  == Disposes(batch)
  IN  /\ pc["forward"] = "chunk"
      /\ ~EmptyOverview(job["forward"].from, ChunkTo)
      /\ \/ InsertSpots({n \in batch : Accepted(group[n])}) /\ UNCHANGED faults
         \/ (\E n \in batch : Accepted(group[n])) /\ DBFault /\ UNCHANGED tables
      /\ SetJob("forward",
           [job["forward"] EXCEPT
              !.upto = ChunkTo,
              !.lastNum = IF batch = {} THEN 0 ELSE MaxOf(batch),
              !.cmds = kept])
      /\ Goto("forward", IF kept = {} THEN "checkpoint" ELSE "moderate")
      /\ UNCHANGED <<context, syncState, failures, syncStart>>

\* Overview fails: the connection is dropped and the pass ends.
ReadChunkFails ==
  /\ pc["forward"] = "chunk"
  /\ \/ EmptyOverview(job["forward"].from, ChunkTo) /\ UNCHANGED faults
     \/ NetFault
  /\ Abandon("forward")
  /\ UNCHANGED <<context, storeVars, syncStart>>

\* SetSyncState (its failure is only logged), then the next chunk or the end of the pass.
Checkpoint ==
  LET j == job["forward"]
      next == j.from + ChunkSize
  IN  /\ pc["forward"] = "checkpoint"
      /\ \/ /\ j.lastNum # 0
            /\ SetSyncState(j.lastNum)
            /\ UNCHANGED faults
         \/ j.lastNum = 0 /\ UNCHANGED <<syncState, faults>>
         \/ j.lastNum # 0 /\ DBFault /\ UNCHANGED syncState
      /\ IF next <= j.bound
         THEN /\ Goto("forward", "chunk")
              /\ SetJob("forward", [NoJob EXCEPT !.from = next, !.bound = j.bound])
         ELSE Goto("forward", "wait") /\ SetJob("forward", NoJob)
      /\ UNCHANGED <<context, tables, failures, syncStart>>

-----------------------------------------------------------------------------
(* Backfill: backfillChunk and ingest.                                     *)

\* Fault: done as soon as less than a chunk is left.
BackfillDoneEarly ==
  /\ pc["backfill"] = "chunk"
  /\ backfillArticle = 0 \/ backfillArticle <= first + ChunkSize
  /\ Goto("backfill", "done")
  /\ UNCHANGED <<context, storeVars, job, failures, faults, syncStart>>

BackfillDone ==
  /\ pc["backfill"] = "chunk"
  /\ backfillArticle = 0 \/ backfillArticle <= first
  /\ Goto("backfill", "done")
  /\ UNCHANGED <<context, storeVars, job, failures, faults, syncStart>>

BackfillFrom ==
  AtLeast(IF backfillArticle > ChunkSize THEN backfillArticle - ChunkSize ELSE 0, first)

\* One chunk below the watermark is read and ingested; withdrawals are dropped and a
\* failed insert is only logged.
BackfillChunk ==
  LET batch == Overview(BackfillFrom, backfillArticle - 1)
  IN  /\ pc["backfill"] = "chunk"
      /\ backfillArticle > first
      /\ ~EmptyOverview(BackfillFrom, backfillArticle - 1)
      /\ \/ InsertSpots({n \in batch : Accepted(group[n])}) /\ UNCHANGED faults
         \/ (\E n \in batch : Accepted(group[n])) /\ DBFault /\ UNCHANGED tables
      /\ Goto("backfill", "checkpoint")
      /\ SetJob("backfill", [NoJob EXCEPT !.from = BackfillFrom, !.bound = first])
      /\ UNCHANGED <<context, syncState, failures, syncStart>>

\* Any error of NNTP or of the checkpoint ends the worker until the next start.
BackfillFails ==
  /\ \/ pc["backfill"] = "chunk" /\ NetFault
     \/ /\ pc["backfill"] = "chunk"
        /\ backfillArticle > first
        /\ EmptyOverview(BackfillFrom, backfillArticle - 1)
        /\ UNCHANGED faults
     \/ pc["backfill"] \in {"chunk", "checkpoint"} /\ DBFault
  /\ Goto("backfill", "failed")
  /\ SetJob("backfill", NoJob)
  /\ UNCHANGED <<context, storeVars, failures, syncStart>>

\* Fault: the watermark is set one below the chunk.
BackfillCheckpointBelow ==
  LET j == job["backfill"]
  IN  /\ pc["backfill"] = "checkpoint"
      /\ SetBackfillState(AtLeast(j.from - 1, 1))
      /\ Goto("backfill", IF j.from <= j.bound THEN "done" ELSE "chunk")
      /\ SetJob("backfill", NoJob)
      /\ UNCHANGED <<context, tables, failures, faults, syncStart>>

\* Fault: no checkpoint when the range held nothing usable.
BackfillCheckpointUseful ==
  LET j == job["backfill"]
      useful == \E n \in indexed : j.from <= n /\ n < backfillArticle
  IN  /\ pc["backfill"] = "checkpoint"
      /\ IF useful THEN SetBackfillState(j.from) ELSE UNCHANGED syncState
      /\ Goto("backfill", IF useful /\ j.from <= j.bound THEN "done" ELSE "chunk")
      /\ SetJob("backfill", NoJob)
      /\ UNCHANGED <<context, tables, failures, faults, syncStart>>

BackfillCheckpoint ==
  LET j == job["backfill"]
  IN  /\ pc["backfill"] = "checkpoint"
      /\ SetBackfillState(j.from)
      /\ Goto("backfill", IF j.from <= j.bound THEN "done" ELSE "chunk")
      /\ SetJob("backfill", NoJob)
      /\ UNCHANGED <<context, tables, failures, faults, syncStart>>

-----------------------------------------------------------------------------
(* Withdrawal sweep: sweepChunk; errors are retried by sweepGroup.         *)

\* The last article the sweep is past: its checkpoint, or just below the oldest spot.
\* Without any spot there is nothing to sweep, as if it had reached the watermark.
SweepPos ==
  CASE sweepArticle # 0 -> sweepArticle
    [] sweepArticle = 0 /\ spots # {} -> MinOf(spots) - 1
    [] OTHER -> lastArticle

SweepTo == AtMost(SweepPos + ChunkSize, lastArticle)

\* Fault: one step past the watermark.
NothingToSweepLate == SweepPos > lastArticle

\* Also when nothing was synced yet: lastArticle is 0 then.
NothingToSweep == SweepPos >= lastArticle

SweepDone ==
  /\ pc["sweep"] = "chunk"
  /\ NothingToSweep
  /\ Goto("sweep", "done")
  /\ failures' = 0
  /\ UNCHANGED <<context, storeVars, job, faults, syncStart>>

SweepChunk ==
  LET batch == Overview(SweepPos + 1, SweepTo)
  IN  /\ pc["sweep"] = "chunk"
      /\ ~NothingToSweep
      /\ ~EmptyOverview(SweepPos + 1, SweepTo)
      /\ SetJob("sweep", [NoJob EXCEPT
           !.from = SweepPos + 1, !.upto = SweepTo, !.bound = lastArticle,
           !.cmds = {n \in batch : group[n].kind = "dispose"}])
      /\ Goto("sweep", "moderate")
      /\ UNCHANGED <<context, storeVars, failures, faults, syncStart>>

SweepFails ==
  /\ \/ /\ pc["sweep"] = "chunk"
        /\ ~NothingToSweep
        /\ \/ EmptyOverview(SweepPos + 1, SweepTo) /\ UNCHANGED faults
           \/ NetFault
     \/ pc["sweep"] \in {"chunk", "checkpoint"} /\ DBFault
  /\ Abandon("sweep")
  /\ UNCHANGED <<context, storeVars, syncStart>>

SweepCheckpoint ==
  LET j == job["sweep"]
  IN  /\ pc["sweep"] = "checkpoint"
      /\ SetDisposeSweepState(j.upto)
      /\ failures' = 0
      /\ Goto("sweep", IF j.upto >= j.bound THEN "done" ELSE "chunk")
      /\ SetJob("sweep", NoJob)
      /\ UNCHANGED <<context, tables, faults, syncStart>>

-----------------------------------------------------------------------------
(* Maintenance: applyBlacklist and applyRetention, in runOnce's order.     *)

maintained == <<usenet, syncState, mode, now, job, failures, withdrawn, restarts, syncStart>>

\* What runOnce goes on to after the blacklist: retention, when it is configured.
AfterPurge == Goto("maintenance", IF RetentionDays > 0 THEN "retain" ELSE "wait")

\* DeleteSpotsBySpotter over the blacklist.
PurgeBlacklist ==
  /\ pc["maintenance"] = "wait"
  /\ Blacklist # {} \/ RetentionDays > 0
  /\ DeleteRows({n \in spots : owner[n] \in Blacklist})
  /\ AfterPurge
  /\ UNCHANGED <<maintained, cutoff, faults>>

\* DeleteSpotsOlderThan, with the cutoff taken from the clock.
ApplyRetention ==
  LET limit == IF now > RetentionDays THEN now - RetentionDays ELSE 0
  IN  /\ pc["maintenance"] = "retain"
      /\ DeleteRows({n \in spots : Posted(n) < limit})
      /\ Goto("maintenance", "prune")
      /\ cutoff' = limit
      /\ UNCHANGED <<maintained, faults>>

\* Fault: pruned by the clock instead of the cutoff.
PruneRingNow ==
  /\ pc["maintenance"] = "prune"
  /\ PruneModeratedRing(now)
  /\ Goto("maintenance", "wait")
  /\ cutoff' = 0
  /\ UNCHANGED <<maintained, faults>>

\* PruneModeratedRing with that same cutoff.
PruneRing ==
  /\ pc["maintenance"] = "prune"
  /\ PruneModeratedRing(cutoff)
  /\ Goto("maintenance", "wait")
  /\ cutoff' = 0
  /\ UNCHANGED <<maintained, faults>>

\* A failing call is logged: runOnce goes on to the next part; applyRetention does not
\* prune when the deletion failed.
MaintainFails ==
  /\ DBFault
  /\ \/ pc["maintenance"] = "wait" /\ Blacklist # {} /\ AfterPurge
     \/ pc["maintenance"] \in {"retain", "prune"} /\ Goto("maintenance", "wait")
  /\ cutoff' = 0
  /\ UNCHANGED <<maintained, tables>>

-----------------------------------------------------------------------------
(* The API and the world outside.                                          *)

\* getSpot and resolveNZB: enrichSpot reads the headers and UpdateSpotEnrichment
\* stores the spotter id they carry.
Enrich(n) ==
  /\ n \in spots /\ OnServer(n)
  /\ UserKey(n) # NoSpotter
  /\ owner[n] = NoSpotter
  /\ SetSpotOwner(n, UserKey(n))
  /\ UNCHANGED <<context, syncState, local, faults, syncStart>>

Tick ==
  /\ RetentionDays > 0
  /\ now < MaxTime
  /\ now' = now + 1
  /\ UNCHANGED <<usenet, storeVars, mode, local, faults, withdrawn, cutoff, restarts, syncStart>>

Provider ==
  /\ Arrive \/ Expire
  /\ UNCHANGED <<storeVars, mode, now, local, faults, withdrawn, cutoff, restarts, syncStart>>

Moderate(w) ==
  /\ ApplyModeration(w)
  /\ UNCHANGED <<usenet, syncState, mode, now, cutoff, restarts, syncStart>>

Forward == BeginPass \/ ReadChunk \/ ReadChunkFails \/ Moderate("forward") \/ Checkpoint

Backfill == BackfillDone \/ BackfillChunk \/ BackfillFails \/ BackfillCheckpoint

Sweep == SweepDone \/ SweepChunk \/ SweepFails \/ Moderate("sweep") \/ SweepCheckpoint

Maintain == PurgeBlacklist \/ ApplyRetention \/ PruneRing \/ MaintainFails

Next ==
  \/ Forward \/ Backfill \/ Sweep \/ Maintain
  \/ \E n \in Num : Enrich(n)
  \/ Tick \/ Provider \/ Restart

Spec == Init /\ [][Next]_vars

\* Each goroutine keeps running; the ticker starts a new pass again and again.
FairSpec ==
  /\ Spec
  /\ WF_vars(Forward) /\ WF_vars(Backfill) /\ WF_vars(Sweep)

-----------------------------------------------------------------------------
(* Properties.                                                             *)

Labels == {"wait", "chunk", "moderate", "ring", "checkpoint", "done", "failed",
           "disabled", "retain", "prune"}

\* Every variable has its type; a moderated row is a row (spots.moderated is a column).
TypeOK ==
  /\ UsenetTypeOK
  /\ StoreTypeOK
  /\ mode \in {"off", "mark", "delete"}
  /\ now \in Nat
  /\ pc \in [Worker -> Labels]
  /\ job \in [Worker -> Job]
  /\ failures \in Nat
  /\ netFaults \in Nat
  /\ dbFaults \in Nat
  /\ withdrawn \subseteq Num
  /\ cutoff \in Nat
  /\ restarts \in Nat
  /\ syncStart \in Nat

\* Article c really entitles anyone to withdraw spot t: the network moderator's
\* signature, or that of the key the spot itself was posted with, at most
\* DisposeMaxAge after the spot.
Entitles(c, t) ==
  LET a == group[c] IN
  /\ a.kind = "dispose" /\ a.target = t /\ a.keyId = 2 /\ a.sigOK
  /\ \/ a.key = NoSpotter
     \/ /\ a.key = group[t].key
        /\ group[t].posted <= a.posted
        /\ a.posted <= group[t].posted + DisposeMaxAge

\* The same, and the server can still show it: the withdrawal itself, and the spot whose
\* key it has to match unless it is the moderator's.
Enforceable(c, t) ==
  /\ Entitles(c, t)
  /\ OnServer(c)
  /\ group[c].key = NoSpotter \/ OnServer(t)

\* Such an article has been posted.
Entitled(t) == \E c \in Num : c <= last /\ Entitles(c, t)

\* No spot is hidden, deleted or kept out by anyone but the moderator or its poster
\* (applyModeration, ValidateDispose), whatever workers, failures and stops do.
OnlyEntitledWithdrawals ==
  \A t \in ring \cup moderated \cup withdrawn : Entitled(t)

\* The watermarks tell the truth: every acceptable article between the lower and the
\* upper watermark that the server still has was indexed (syncGroup's and
\* backfillChunk's checkpoints), so no later pass has to look there again.
NoGap ==
  LET low == IF backfillArticle \in 1 .. syncStart THEN backfillArticle ELSE syncStart
  IN  \A n \in low .. lastArticle :
        n \in Num /\ OnServer(n) /\ Accepted(group[n]) => n \in indexed

\* Retention removes the spot at its next pass.
Expired(t) == RetentionDays > 0 /\ Posted(t) + RetentionDays < now

\* Once the sweep has reported completion, no listed spot has an enforceable
\* withdrawal between where the sync began and the watermark: what the sweep read and
\* what the live sync read leave no hole, across stops, mode changes and retries.  Not so
\* for what the backfill brings in, the spots below syncStart.
SweptMeansWithdrawn ==
  pc["sweep"] = "done" =>
    \A c \in Num :
      LET t == group[c].target
      IN  /\ syncStart <= c /\ c <= lastArticle
          /\ BackfillEnabled => syncStart <= t
          /\ t < c /\ Enforceable(c, t)
          => t \notin Visible

\* The same of every spot ("once it reaches the watermark it is done for good",
\* DisposeSweep), those the backfill brings in below what the sweep has read included.
SweptEverywhere ==
  pc["sweep"] = "done" =>
    \A c \in Num :
      LET t == group[c].target
      IN  syncStart <= c /\ c <= lastArticle /\ t < c /\ Enforceable(c, t) => t \notin Visible

\* A withdrawn spot is never listed again ("a later pass does not re-insert it").
WithdrawnStaysOut == withdrawn \cap Visible = {}

\* In delete mode, where the row goes in one transaction and the ring entry comes in
\* another (applyModeration), as in mark mode: unless the process stops or a database call
\* fails, a withdrawn spot comes back at most until its withdrawer has made that entry, or
\* for retention to remove.
DeletedStaysOut ==
  restarts = 0 /\ dbFaults = 0 =>
    \A t \in withdrawn \cap Visible :
      \/ Expired(t)
      \/ \E w \in Moderating : pc[w] = "ring" /\ t \in job[w].targets

Promise == INSTANCE Index WITH
  Purges    <- Blacklist # {} \/ RetentionDays > 0,
  offered   <- {n \in 1 .. last : Accepted(group[n])},
  revocable <- {t \in Num : Entitled(t)},
  listed    <- Visible,
  gone      <- withdrawn

\* The workers together implement the promise of Index: no order of inserts, withdrawals,
\* failures and restarts of forward sync, backfill and sweep lists, hides or revives a
\* spot otherwise.
KeepsPromise == Promise!Spec

\* A ring entry is only dropped for a spot that retention removes anyway ("dispose
\* records only need to outlive the spots they suppress", applyRetention), so pruning
\* never opens the way back for a spot still worth listing.
PrunedIsExpired == [][\A t \in ring \ ring' : Expired(t)]_vars

\* "backfill complete - full history retrieved" is only reported with the first
\* article reached.
BackfillDoneMeansReached ==
  pc["backfill"] = "done" => backfillArticle # 0 /\ backfillArticle <= first

\* The watermarks only move towards more of the group: the forward and the sweep's up,
\* the backfill's down (three workers write columns of one row).
WatermarksMonotone ==
  [][/\ lastArticle' >= lastArticle
     /\ sweepArticle' >= sweepArticle
     /\ backfillArticle' <= backfillArticle]_syncState

\* The backfill comes to an end after every start: no stretch of the group, whatever it
\* holds, is fetched for ever (backfillChunk's checkpoint).
BackfillEnds == []<>(pc["backfill"] \in {"done", "failed"})

\* Every article the server has is behind the watermark.
CaughtUp == \A n \in Num : OnServer(n) => lastArticle >= n

\* Whatever arrives and whatever fails, the forward sync catches up again (syncGroup).
ForwardCatchesUp == []<>CaughtUp

\* Once posting comes to an end, as it does in the model, every enforceable withdrawal of
\* an earlier spot the server still has takes effect for good (applyModeration, called by
\* the forward sync or by the sweep).  Not so for the spots the backfill brought in, those
\* below syncStart: the sweep may be past them.
EventuallyWithdrawn ==
  <>[](\A c \in Num :
         LET t == group[c].target
         IN  t < c /\ syncStart <= t /\ Enforceable(c, t) => t \notin Visible)
=============================================================================
