--------------------------- MODULE WatermarkProofs ---------------------------
(***************************************************************************)
(* Proofs about the watermarks of Sync: which way they move, what they say *)
(* of the group, and when the backfill may call itself done.               *)
(***************************************************************************)
EXTENDS SyncProofs

-----------------------------------------------------------------------------
(* Where each worker is with respect to its watermark.                     *)

\* A chunk has been read and its checkpoint has not been written.
InChunk == {"moderate", "ring", "checkpoint"}

\* The pass of the forward sync is above the watermark, and below the end of the group it
\* saw when it began; its checkpoint will name an article of the chunk in hand.
ForwardPlace ==
  LET j == job["forward"]
  IN  /\ pc["forward"] \in {"chunk"} \cup InChunk =>
           lastArticle < j.from /\ j.from <= j.bound /\ j.bound <= last
      /\ pc["forward"] \in InChunk =>
           /\ j.upto = ChunkTo
           /\ j.lastNum = 0 \/ (j.from <= j.lastNum /\ j.lastNum <= j.upto)

\* The chunk of the backfill lies below its watermark.
BackfillPlace ==
  LET j == job["backfill"]
  IN  pc["backfill"] = "checkpoint" =>
        1 <= j.from /\ j.from < backfillArticle /\ j.bound <= first

\* The chunk of the sweep ends at or above its watermark.
SweepPlace == pc["sweep"] \in InChunk => sweepArticle <= job["sweep"].upto

\* Each worker in its place, and the watermarks within the group.
Places ==
  /\ ForwardPlace /\ BackfillPlace /\ SweepPlace
  /\ lastArticle <= last /\ backfillArticle <= last

-----------------------------------------------------------------------------
(* What has been indexed between the watermarks.                           *)

\* The lower end of what was read.
Low == IF backfillArticle \in 1 .. syncStart THEN backfillArticle ELSE syncStart

\* Article n needs no further look: expired, not acceptable, or indexed.
Read(n) == OnServer(n) /\ Accepted(group[n]) => n \in indexed

\* Nothing from lo to hi needs one.
Gapless(lo, hi) == \A n \in Num : lo <= n /\ n <= hi => Read(n)

\* The stretch between the watermarks is gapless, and so is what the workers have read
\* beyond it.
NoGapYet ==
  /\ lastArticle = 0 => backfillArticle = 0
  /\ Gapless(Low, lastArticle)
  /\ pc["forward"] = "chunk" => Gapless(Low, job["forward"].from - 1)
  /\ pc["forward"] \in InChunk => Gapless(Low, job["forward"].upto)
  /\ pc["backfill"] = "checkpoint" => Gapless(job["backfill"].from, backfillArticle - 1)

-----------------------------------------------------------------------------
(* applyModeration, as far as the watermarks are concerned.                *)

\* A step of it stays within the chunk or gives it up, and touches no other worker.
LEMMA ModerationPlace ==
  ASSUME TypeOK, NEW w \in Moderating, Moderate(w)
  PROVE  /\ pc[w] \in {"moderate", "ring"}
         /\ \A v \in Worker \ {w} : pc'[v] = pc[v] /\ job'[v] = job[v]
         /\ \/ /\ pc'[w] \in InChunk
               /\ job'[w].from = job[w].from /\ job'[w].upto = job[w].upto
               /\ job'[w].bound = job[w].bound /\ job'[w].lastNum = job[w].lastNum
            \/ /\ w = "forward" => pc'[w] = "wait"
               /\ pc'[w] \in {"wait", "chunk", "failed"}
         /\ UNCHANGED <<usenet, syncState, syncStart>>
<1>1. /\ w \in Worker /\ pc \in [Worker -> Labels] /\ job \in [Worker -> Job] /\ job[w] \in Job
      /\ UNCHANGED <<usenet, syncState, syncStart>>
  BY DEF TypeOK, Moderate, Worker
<1> DEFINE Others == \A v \in Worker \ {w} : pc'[v] = pc[v] /\ job'[v] = job[v]
           Within == /\ pc'[w] \in InChunk
                     /\ job'[w].from = job[w].from /\ job'[w].upto = job[w].upto
                     /\ job'[w].bound = job[w].bound /\ job'[w].lastNum = job[w].lastNum
           GivenUp == /\ w = "forward" => pc'[w] = "wait"
                      /\ pc'[w] \in {"wait", "chunk", "failed"}
<1>2. ASSUME Abandon(w) PROVE Others /\ GivenUp
  BY <1>1, <1>2 DEF Abandon, Goto, SetJob
<1>3. ASSUME NEW c, NEW accept, NEW err, Settle(w, c, accept, err), pc[w] = "moderate"
      PROVE  Others /\ Within
  <2> DEFINE j == [job[w] EXCEPT !.cmds = @ \ {c},
                                 !.targets = IF accept THEN @ \cup {group[c].target} ELSE @,
                                 !.lookupErr = @ \/ err]
  <2>1. /\ j.from = job[w].from /\ j.upto = job[w].upto
        /\ j.bound = job[w].bound /\ j.lastNum = job[w].lastNum
    BY <1>1 DEF Job
  <2>2. job' = [job EXCEPT ![w] = j] /\ pc' = pc
    BY <1>3 DEF Settle, SetJob
  <2> HIDE DEF j
  <2> QED
    BY <1>1, <1>3, <2>1, <2>2 DEF InChunk
<1>4. ASSUME Return(w) PROVE Others /\ (Within \/ GivenUp)
  <2>1. CASE job[w].lookupErr
    BY <1>2, <1>4, <2>1 DEF Return
  <2>2. CASE ~job[w].lookupErr
    <3> DEFINE j == [job[w] EXCEPT !.targets = {}]
    <3>1. /\ j.from = job[w].from /\ j.upto = job[w].upto
          /\ j.bound = job[w].bound /\ j.lastNum = job[w].lastNum
      BY <1>1 DEF Job
    <3>2. job' = [job EXCEPT ![w] = j] /\ pc' = [pc EXCEPT ![w] = "checkpoint"]
      BY <1>4, <2>2 DEF Return, SetJob, Goto
    <3> HIDE DEF j
    <3> QED
      BY <1>1, <3>1, <3>2 DEF InChunk
  <2> QED
    BY <2>1, <2>2
<1> HIDE DEF Others, Within, GivenUp
<1>5. ASSUME NEW c \in job[w].cmds,
             Judge(w, c) \/ LookupOwner(w, c) \/ LookupFails(w, c) \/ TargetReadFails(w, c)
      PROVE  pc[w] = "moderate" /\ Others /\ (Within \/ GivenUp)
  <2>1. pc[w] = "moderate"
    BY <1>5 DEF Judge, LookupOwner, LookupFails, TargetReadFails, InHand
  <2>2. Abandon(w) \/ \E accept, err : Settle(w, c, accept, err)
    BY <1>5 DEF Judge, LookupOwner, LookupFails, TargetReadFails
  <2> QED
    BY <1>2, <1>3, <2>1, <2>2
<1>6. ASSUME NothingToApply(w) \/ ApplyMark(w) \/ RecordDeleted(w) \/ ApplyFails(w)
      PROVE  pc[w] \in {"moderate", "ring"} /\ Others /\ (Within \/ GivenUp)
  <2>1. pc[w] \in {"moderate", "ring"}
    BY <1>6 DEF NothingToApply, ApplyMark, RecordDeleted, ApplyFails, LoopEnded
  <2>2. Abandon(w) \/ Return(w)
    BY <1>6 DEF NothingToApply, ApplyMark, RecordDeleted, ApplyFails
  <2> QED
    BY <1>2, <1>4, <2>1, <2>2
<1>7. ASSUME ApplyDelete(w) PROVE pc[w] = "moderate" /\ Others /\ Within
  BY <1>1, <1>7 DEF ApplyDelete, LoopEnded, Goto, Others, Within, InChunk
<1>8. pc[w] \in {"moderate", "ring"} /\ Others /\ (Within \/ GivenUp)
  BY <1>5, <1>6, <1>7 DEF Moderate, ApplyModeration
<1> QED
  BY <1>1, <1>8 DEF Others, Within, GivenUp

-----------------------------------------------------------------------------
(* The places are kept.                                                    *)

\* A worker that does not move keeps its place while nobody moves its watermark back or
\* forth: the group only grows at its end and shrinks at its beginning.
LEMMA PlaceKept ==
  ASSUME TypeOK, TypeOK', Places, first' >= first, last' >= last
  PROVE  /\ /\ lastArticle' = lastArticle
            /\ pc'["forward"] = pc["forward"] /\ job'["forward"] = job["forward"]
            => ForwardPlace'
         /\ /\ backfillArticle' = backfillArticle
            /\ pc'["backfill"] = pc["backfill"] /\ job'["backfill"] = job["backfill"]
            => BackfillPlace'
         /\ /\ sweepArticle' = sweepArticle
            /\ pc'["sweep"] = pc["sweep"] /\ job'["sweep"] = job["sweep"]
            => SweepPlace'
         /\ UNCHANGED syncState => (lastArticle <= last /\ backfillArticle <= last)'
<1>1. /\ first \in Nat /\ first' \in Nat /\ last \in Nat /\ last' \in Nat
      /\ lastArticle \in Nat /\ backfillArticle \in Nat /\ sweepArticle \in Nat
      /\ \A w \in Worker : job[w] \in Job
  BY SpotnetAssumption DEF TypeOK, UsenetTypeOK, StoreTypeOK
<1>2. /\ job["forward"].bound \in Nat /\ job["backfill"].bound \in Nat
  BY <1>1, SpotnetAssumption DEF Job, Worker, Moderating
<1>3. ASSUME lastArticle' = lastArticle,
             pc'["forward"] = pc["forward"], job'["forward"] = job["forward"]
      PROVE  ForwardPlace'
  <2>1. ChunkTo' = ChunkTo
    BY <1>3 DEF ChunkTo, AtMost
  <2>2. job["forward"].bound <= last => job["forward"].bound <= last'
    BY <1>1, <1>2
  <2> QED
    BY <1>3, <2>1, <2>2 DEF Places, ForwardPlace
<1>4. ASSUME backfillArticle' = backfillArticle,
             pc'["backfill"] = pc["backfill"], job'["backfill"] = job["backfill"]
      PROVE  BackfillPlace'
  <2>1. job["backfill"].bound <= first => job["backfill"].bound <= first'
    BY <1>1, <1>2
  <2> QED
    BY <1>4, <2>1 DEF Places, BackfillPlace
<1>5. ASSUME sweepArticle' = sweepArticle,
             pc'["sweep"] = pc["sweep"], job'["sweep"] = job["sweep"]
      PROVE  SweepPlace'
  BY <1>5 DEF Places, SweepPlace
<1>6. ASSUME UNCHANGED syncState PROVE (lastArticle <= last /\ backfillArticle <= last)'
  BY <1>1, <1>6 DEF Places, syncState
<1> QED
  BY <1>3, <1>4, <1>5, <1>6

\* The forward sync's steps keep every worker's place.
LEMMA ForwardPlaces ==
  ASSUME TypeOK, TypeOK', Places, Forward
  PROVE  Places'
<1>1. /\ first \in Nat \ {0} /\ last \in Nat /\ lastArticle \in Nat /\ backfillArticle \in Nat
      /\ pc \in [Worker -> Labels] /\ job \in [Worker -> Job] /\ job["forward"] \in Job
      /\ "forward" \in Worker /\ "backfill" \in Worker /\ "sweep" \in Worker
      /\ "forward" \in Moderating /\ ChunkSize \in Nat \ {0}
  BY SpotnetAssumption, SyncAssumption
     DEF TypeOK, UsenetTypeOK, StoreTypeOK, Worker, Moderating
<1>2. /\ job["forward"].from \in Nat /\ job["forward"].upto \in Nat
      /\ job["forward"].bound \in Nat /\ job["forward"].lastNum \in Nat
  BY <1>1, SpotnetAssumption DEF Job
<1>3. ASSUME UNCHANGED usenet, NEW l, NEW j, Goto("forward", l), SetJob("forward", j),
             UNCHANGED <<backfillArticle, sweepArticle>>, ForwardPlace', lastArticle' <= last'
      PROVE  Places'
  <2>1. first' >= first /\ last' >= last
    BY <1>1, <1>3 DEF usenet
  <2>2. /\ pc'["backfill"] = pc["backfill"] /\ job'["backfill"] = job["backfill"]
        /\ pc'["sweep"] = pc["sweep"] /\ job'["sweep"] = job["sweep"]
    BY <1>1, <1>3 DEF Goto, SetJob
  <2>3. BackfillPlace' /\ SweepPlace'
    BY <1>3, <2>1, <2>2, PlaceKept
  <2> QED
    BY <1>3, <2>3 DEF Places, usenet
<1>4. CASE BeginPass
  <2> DEFINE from == IF lastArticle = 0
                     THEN AtLeast(IF last > SyncLookback THEN last - SyncLookback ELSE 0, first)
                     ELSE lastArticle + 1
             j == [NoJob EXCEPT !.from = from, !.bound = last]
  <2>1. /\ from <= last /\ Goto("forward", "chunk") /\ SetJob("forward", j)
        /\ UNCHANGED <<usenet, syncState>>
    BY <1>4 DEF BeginPass, context, storeVars
  <2>2. lastArticle < from
    BY <1>1, SyncAssumption DEF AtLeast
  <2>3. j.from = from /\ j.bound = last
    BY DEF NoJob
  <2> HIDE DEF from, j
  <2>4. pc'["forward"] = "chunk" /\ job'["forward"] = j
    BY <1>1, <2>1 DEF Goto, SetJob
  <2>5. ForwardPlace'
    BY <1>1, <2>1, <2>2, <2>3, <2>4 DEF ForwardPlace, InChunk, usenet, syncState
  <2> QED
    BY <1>3, <2>1, <2>5 DEF syncState, Places, usenet
<1>5. CASE ReadChunk
  <2> DEFINE batch == Overview(job["forward"].from, ChunkTo)
             num == IF batch = {} THEN 0 ELSE MaxOf(batch)
             j == [job["forward"] EXCEPT !.upto = ChunkTo, !.lastNum = num,
                                         !.cmds = Disposes(batch)]
             l == IF Disposes(batch) = {} THEN "checkpoint" ELSE "moderate"
  <2>1. /\ pc["forward"] = "chunk" /\ Goto("forward", l) /\ SetJob("forward", j)
        /\ UNCHANGED <<usenet, syncState>>
    BY <1>5 DEF ReadChunk, context
  <2>2. num = 0 \/ (job["forward"].from <= num /\ num <= ChunkTo)
    <3>1. SUFFICES ASSUME batch # {} PROVE num \in batch
      BY DEF Overview
    <3>2. batch \in SUBSET (0 .. NumArticles) /\ NumArticles \in Nat
      BY SpotnetAssumption DEF Overview, Num
    <3> HIDE DEF batch
    <3> QED
      BY <3>1, <3>2, MaxOfIsGreatest
  <2>3. /\ j.from = job["forward"].from /\ j.upto = ChunkTo /\ j.bound = job["forward"].bound
        /\ j.lastNum = num
    BY <1>1 DEF Job
  <2>4. l \in InChunk
    BY DEF InChunk
  <2> HIDE DEF num, batch, j, l
  <2>5. pc'["forward"] = l /\ job'["forward"] = j
    BY <1>1, <2>1 DEF Goto, SetJob
  <2>6. ChunkTo' = ChunkTo
    BY <2>3, <2>5 DEF ChunkTo
  <2>7. lastArticle < j.from /\ j.from <= j.bound /\ j.bound <= last
    BY <2>1, <2>3 DEF Places, ForwardPlace, InChunk
  <2>8. ForwardPlace'
    BY <2>1, <2>2, <2>3, <2>5, <2>6, <2>7 DEF ForwardPlace, usenet, syncState
  <2> QED
    BY <1>3, <2>1, <2>8 DEF syncState, Places, usenet
<1>6. CASE ReadChunkFails
  <2>1. /\ Goto("forward", "wait") /\ SetJob("forward", NoJob)
        /\ UNCHANGED <<usenet, syncState>>
    BY <1>6 DEF ReadChunkFails, Abandon, context, storeVars
  <2>2. ForwardPlace'
    BY <1>1, <2>1 DEF ForwardPlace, InChunk, Goto
  <2> QED
    BY <1>3, <2>1, <2>2 DEF syncState, Places, usenet
<1>7. CASE Moderate("forward")
  <2> DEFINE w == "forward"
  <2>1. /\ pc[w] \in {"moderate", "ring"}
        /\ \A v \in Worker \ {w} : pc'[v] = pc[v] /\ job'[v] = job[v]
        /\ \/ /\ pc'[w] \in InChunk
              /\ job'[w].from = job[w].from /\ job'[w].upto = job[w].upto
              /\ job'[w].bound = job[w].bound /\ job'[w].lastNum = job[w].lastNum
           \/ pc'[w] = "wait"
        /\ UNCHANGED <<usenet, syncState>>
    BY <1>1, <1>7, ModerationPlace
  <2>2. ForwardPlace'
    <3>1. CASE pc'[w] = "wait"
      BY <3>1 DEF ForwardPlace, InChunk
    <3>2. CASE pc'[w] # "wait"
      <4>1. ChunkTo' = ChunkTo
        BY <2>1, <3>2 DEF ChunkTo
      <4>2. pc[w] \in InChunk
        BY <2>1 DEF InChunk
      <4> QED
        BY <2>1, <3>2, <4>1, <4>2 DEF Places, ForwardPlace, usenet, syncState
    <3> QED
      BY <3>1, <3>2
  <2>3. BackfillPlace' /\ SweepPlace' /\ (lastArticle <= last /\ backfillArticle <= last)'
    <3>1. first' >= first /\ last' >= last
      BY <1>1, <2>1 DEF usenet
    <3> QED
      BY <1>1, <2>1, <3>1, PlaceKept DEF syncState
  <2> QED
    BY <2>2, <2>3 DEF Places
<1>8. CASE Checkpoint
  <2> DEFINE j == job["forward"]
             next == j.from + ChunkSize
             k == [NoJob EXCEPT !.from = next, !.bound = j.bound]
  <2>1. /\ pc["forward"] = "checkpoint"
        /\ lastArticle' = lastArticle \/ (j.lastNum # 0 /\ lastArticle' = j.lastNum)
        /\ UNCHANGED <<usenet, backfillArticle, sweepArticle>>
    BY <1>8 DEF Checkpoint, SetSyncState, syncState, context
  <2>2. /\ lastArticle < j.from /\ j.from <= j.bound /\ j.bound <= last
        /\ j.upto = AtMost(j.from + ChunkSize - 1, j.bound)
        /\ j.lastNum = 0 \/ (j.from <= j.lastNum /\ j.lastNum <= j.upto)
    BY <2>1 DEF Places, ForwardPlace, InChunk, ChunkTo
  <2>3. lastArticle' < next /\ lastArticle' <= last
    BY <1>1, <1>2, <2>1, <2>2 DEF AtMost
  <2>4. k.from = next /\ k.bound = j.bound
    BY DEF NoJob
  <2>5. CASE next <= j.bound
    <3>1. Goto("forward", "chunk") /\ SetJob("forward", k)
      BY <1>8, <2>5 DEF Checkpoint
    <3> HIDE DEF k, next
    <3>2. pc'["forward"] = "chunk" /\ job'["forward"] = k
      BY <1>1, <3>1 DEF Goto, SetJob
    <3>3. ForwardPlace'
      BY <2>1, <2>2, <2>3, <2>4, <2>5, <3>2 DEF ForwardPlace, InChunk, usenet
    <3> QED
      BY <1>3, <2>1, <2>3, <3>1, <3>3 DEF usenet
  <2>6. CASE ~(next <= j.bound)
    <3>1. Goto("forward", "wait") /\ SetJob("forward", NoJob)
      BY <1>8, <2>6 DEF Checkpoint
    <3>2. ForwardPlace'
      BY <1>1, <3>1 DEF ForwardPlace, InChunk, Goto
    <3> QED
      BY <1>3, <2>1, <2>3, <3>1, <3>2 DEF usenet
  <2> QED
    BY <2>5, <2>6
<1> QED
  BY <1>4, <1>5, <1>6, <1>7, <1>8 DEF Forward

\* The backfill reads below its watermark and not below the group.
LEMMA BackfillRange ==
  ASSUME TypeOK, backfillArticle > first
  PROVE  BackfillFrom \in Nat /\ first <= BackfillFrom /\ BackfillFrom < backfillArticle
BY SpotnetAssumption, SyncAssumption
   DEF BackfillFrom, AtLeast, TypeOK, UsenetTypeOK, StoreTypeOK

\* The backfill's steps keep every worker's place.
LEMMA BackfillPlaces ==
  ASSUME TypeOK, TypeOK', Places, Backfill
  PROVE  Places'
<1>1. /\ first \in Nat \ {0} /\ last \in Nat /\ lastArticle \in Nat /\ backfillArticle \in Nat
      /\ pc \in [Worker -> Labels] /\ job \in [Worker -> Job] /\ job["backfill"] \in Job
      /\ "forward" \in Worker /\ "backfill" \in Worker /\ "sweep" \in Worker
  BY SpotnetAssumption DEF TypeOK, UsenetTypeOK, StoreTypeOK, Worker, Moderating
<1>2. job["backfill"].from \in Nat
  BY <1>1, SpotnetAssumption DEF Job
<1>3. ASSUME UNCHANGED usenet, NEW l, Goto("backfill", l),
             UNCHANGED job \/ \E j : SetJob("backfill", j),
             UNCHANGED <<lastArticle, sweepArticle>>, BackfillPlace', backfillArticle' <= last'
      PROVE  Places'
  <2>1. first' >= first /\ last' >= last
    BY <1>1, <1>3 DEF usenet
  <2>2. /\ pc'["forward"] = pc["forward"] /\ job'["forward"] = job["forward"]
        /\ pc'["sweep"] = pc["sweep"] /\ job'["sweep"] = job["sweep"]
    BY <1>1, <1>3 DEF Goto, SetJob
  <2>3. ForwardPlace' /\ SweepPlace'
    BY <1>3, <2>1, <2>2, PlaceKept
  <2> QED
    BY <1>3, <2>3 DEF Places, usenet
<1>4. CASE BackfillDone \/ BackfillFails
  <2>1. PICK l \in {"done", "failed"} : Goto("backfill", l)
    BY <1>4 DEF BackfillDone, BackfillFails
  <2>2. /\ UNCHANGED <<usenet, syncState>>
        /\ UNCHANGED job \/ \E j : SetJob("backfill", j)
    BY <1>4 DEF BackfillDone, BackfillFails, context, storeVars
  <2>3. BackfillPlace'
    BY <1>1, <2>1 DEF BackfillPlace, Goto
  <2> QED
    BY <1>3, <2>1, <2>2, <2>3 DEF syncState, Places, usenet
<1>5. CASE BackfillChunk
  <2> DEFINE j == [NoJob EXCEPT !.from = BackfillFrom, !.bound = first]
  <2>1. /\ backfillArticle > first /\ Goto("backfill", "checkpoint") /\ SetJob("backfill", j)
        /\ UNCHANGED <<usenet, syncState>>
    BY <1>5 DEF BackfillChunk, context
  <2>2. BackfillFrom \in Nat /\ first <= BackfillFrom /\ BackfillFrom < backfillArticle
    BY <2>1, BackfillRange
  <2>3. j.from = BackfillFrom /\ j.bound = first
    BY DEF NoJob
  <2> HIDE DEF j
  <2>4. job'["backfill"] = j
    BY <1>1, <2>1 DEF SetJob
  <2>5. BackfillPlace'
    BY <1>1, <2>1, <2>2, <2>3, <2>4 DEF BackfillPlace, usenet, syncState
  <2> QED
    BY <1>3, <2>1, <2>5 DEF syncState, Places, usenet
<1>6. CASE BackfillCheckpoint
  <2>1. /\ pc["backfill"] = "checkpoint" /\ backfillArticle' = job["backfill"].from
        /\ UNCHANGED <<usenet, lastArticle, sweepArticle>>
        /\ SetJob("backfill", NoJob)
    BY <1>6 DEF BackfillCheckpoint, SetBackfillState, context
  <2>2. PICK l \in {"done", "chunk"} : Goto("backfill", l)
    BY <1>6 DEF BackfillCheckpoint
  <2>3. BackfillPlace'
    BY <1>1, <2>2 DEF BackfillPlace, Goto
  <2>4. backfillArticle' <= last'
    BY <1>1, <1>2, <2>1 DEF Places, BackfillPlace, usenet
  <2> QED
    BY <1>3, <2>1, <2>2, <2>3, <2>4
<1> QED
  BY <1>4, <1>5, <1>6 DEF Backfill

\* The sweep goes on where its watermark is, or above.
LEMMA SweepRange ==
  ASSUME TypeOK, ~NothingToSweep
  PROVE  /\ SweepPos \in Nat /\ SweepTo \in Nat
         /\ sweepArticle <= SweepPos /\ SweepPos < SweepTo /\ SweepTo <= lastArticle
<1>1. SweepPos \in 0 .. NumArticles
  BY SweepPosition, TypeParts
<1>2. lastArticle \in Nat /\ sweepArticle \in Nat /\ NumArticles \in Nat /\ ChunkSize \in Nat \ {0}
  BY SpotnetAssumption, SyncAssumption DEF TypeOK, StoreTypeOK
<1>3. sweepArticle <= SweepPos
  <2>1. sweepArticle # 0 => SweepPos = sweepArticle
    BY DEF SweepPos
  <2> QED
    BY <1>1, <1>2, <2>1
<1>4. SweepPos < lastArticle
  BY <1>1, <1>2 DEF NothingToSweep
<1> QED
  BY <1>1, <1>2, <1>3, <1>4 DEF SweepTo, AtMost

\* The sweep's steps keep every worker's place.
LEMMA SweepPlaces ==
  ASSUME TypeOK, TypeOK', Places, Sweep
  PROVE  Places'
<1>1. /\ first \in Nat \ {0} /\ last \in Nat /\ lastArticle \in Nat /\ sweepArticle \in Nat
      /\ pc \in [Worker -> Labels] /\ job \in [Worker -> Job] /\ job["sweep"] \in Job
      /\ "forward" \in Worker /\ "backfill" \in Worker /\ "sweep" \in Worker
      /\ "sweep" \in Moderating
  BY SpotnetAssumption DEF TypeOK, UsenetTypeOK, StoreTypeOK, Worker, Moderating
<1>2. ASSUME UNCHANGED usenet, UNCHANGED <<lastArticle, backfillArticle>>, SweepPlace',
             \A v \in Worker \ {"sweep"} : pc'[v] = pc[v] /\ job'[v] = job[v]
      PROVE  Places'
  <2>1. first' >= first /\ last' >= last
    BY <1>1, <1>2 DEF usenet
  <2>2. /\ pc'["forward"] = pc["forward"] /\ job'["forward"] = job["forward"]
        /\ pc'["backfill"] = pc["backfill"] /\ job'["backfill"] = job["backfill"]
    BY <1>1, <1>2
  <2>3. ForwardPlace' /\ BackfillPlace'
    BY <1>2, <2>1, <2>2, PlaceKept
  <2> QED
    BY <1>2, <2>3 DEF Places, usenet
<1>3. CASE SweepDone \/ SweepFails \/ SweepCheckpoint
  <2>1. \E l \in {"done", "failed", "chunk"} : Goto("sweep", l)
    BY <1>3 DEF SweepDone, SweepFails, SweepCheckpoint, Abandon
  <2>2. UNCHANGED job \/ \E j : SetJob("sweep", j)
    BY <1>3 DEF SweepDone, SweepFails, SweepCheckpoint, Abandon
  <2>3. UNCHANGED <<usenet, lastArticle, backfillArticle>>
    BY <1>3 DEF SweepDone, SweepFails, SweepCheckpoint, SetDisposeSweepState, context, storeVars,
                syncState
  <2>4. SweepPlace'
    BY <1>1, <2>1 DEF SweepPlace, Goto, InChunk
  <2>5. \A v \in Worker \ {"sweep"} : pc'[v] = pc[v] /\ job'[v] = job[v]
    BY <1>1, <2>1, <2>2 DEF Goto, SetJob
  <2> QED
    BY <1>2, <2>3, <2>4, <2>5
<1>4. CASE SweepChunk
  <2> DEFINE cmds == {n \in Overview(SweepPos + 1, SweepTo) : group[n].kind = "dispose"}
             j == [NoJob EXCEPT !.from = SweepPos + 1, !.upto = SweepTo,
                                !.bound = lastArticle, !.cmds = cmds]
  <2>1. /\ ~NothingToSweep /\ Goto("sweep", "moderate") /\ SetJob("sweep", j)
        /\ UNCHANGED <<usenet, syncState>>
    BY <1>4 DEF SweepChunk, context, storeVars
  <2>2. j.upto = SweepTo
    BY DEF NoJob
  <2> HIDE DEF j
  <2>3. /\ job'["sweep"] = j
        /\ \A v \in Worker \ {"sweep"} : pc'[v] = pc[v] /\ job'[v] = job[v]
    BY <1>1, <2>1 DEF Goto, SetJob
  <2>4. sweepArticle <= SweepTo
    BY <1>1, <2>1, SweepRange
  <2>5. SweepPlace'
    BY <2>1, <2>2, <2>3, <2>4 DEF SweepPlace, syncState
  <2> QED
    BY <1>2, <2>1, <2>3, <2>5 DEF syncState
<1>5. CASE Moderate("sweep")
  <2> DEFINE w == "sweep"
  <2>1. /\ pc[w] \in {"moderate", "ring"}
        /\ \A v \in Worker \ {w} : pc'[v] = pc[v] /\ job'[v] = job[v]
        /\ \/ pc'[w] \in InChunk /\ job'[w].upto = job[w].upto
           \/ pc'[w] \in {"wait", "chunk", "failed"}
        /\ UNCHANGED <<usenet, syncState>>
    BY <1>1, <1>5, ModerationPlace
  <2>2. SweepPlace'
    BY <2>1 DEF Places, SweepPlace, InChunk, syncState
  <2> QED
    BY <1>2, <2>1, <2>2 DEF syncState
<1> QED
  BY <1>3, <1>4, <1>5 DEF Sweep

\* Everybody else leaves the watermarks and the places alone; a restart sends every worker
\* back to the start of a chunk.
LEMMA OtherPlaces ==
  ASSUME TypeOK, TypeOK', Places,
         \/ Maintain \/ Tick \/ Provider \/ Restart \/ UNCHANGED vars
         \/ \E n \in Num : Enrich(n)
  PROVE  Places' /\ UNCHANGED syncState
<1>1. first \in Nat /\ last \in Nat
  BY SpotnetAssumption DEF TypeOK, UsenetTypeOK
<1>2. UNCHANGED syncState /\ first' >= first /\ last' >= last
  <2>1. CASE Provider
    BY <1>1, <2>1 DEF Provider, Arrive, Expire, storeVars
  <2>2. CASE ~Provider
    <3>1. UNCHANGED <<usenet, syncState>>
      BY <2>2 DEF Maintain, PurgeBlacklist, ApplyRetention, PruneRing, MaintainFails, maintained,
                  Tick, Restart, Enrich, context, storeVars, vars
    <3> QED
      BY <1>1, <3>1 DEF usenet
  <2> QED
    BY <2>1, <2>2
<1>3. CASE Restart
  <2>1. /\ pc'["forward"] = "wait"
        /\ pc'["backfill"] \in {"chunk", "disabled"} /\ pc'["sweep"] \in {"chunk", "disabled"}
    BY <1>3 DEF Restart, StartPC, Worker, Moderating
  <2>2. ForwardPlace' /\ BackfillPlace' /\ SweepPlace'
    BY <2>1 DEF ForwardPlace, BackfillPlace, SweepPlace, InChunk
  <2> QED
    BY <1>2, <2>2, PlaceKept DEF Places
<1>4. CASE ~Restart
  <2>1. job' = job
    BY <1>4 DEF Maintain, PurgeBlacklist, ApplyRetention, PruneRing, MaintainFails, maintained,
                Tick, Provider, Enrich, local, vars
  <2>2. pc' = pc \/ \E l : Goto("maintenance", l)
    BY <1>4 DEF Maintain, PurgeBlacklist, ApplyRetention, PruneRing, MaintainFails, AfterPurge,
                Tick, Provider, Enrich, local, vars
  <2>3. \A v \in {"forward", "backfill", "sweep"} : pc'[v] = pc[v]
    BY <2>2 DEF Goto, TypeOK, Worker, Moderating
  <2> QED
    BY <1>2, <2>1, <2>3, PlaceKept DEF Places, syncState
<1> QED
  BY <1>2, <1>3, <1>4

\* The places are kept by every step.
LEMMA PlacesNext ==
  ASSUME TypeOK, TypeOK', Places, [Next]_vars
  PROVE  Places'
BY ForwardPlaces, BackfillPlaces, SweepPlaces, OtherPlaces DEF Next

\* At the start nobody has a chunk in hand; an earlier release's watermarks are articles of
\* the group.
LEMMA PlacesInit == Init => Places
<1> SUFFICES ASSUME Init PROVE Places
  OBVIOUS
<1>1. /\ pc["forward"] = "wait"
      /\ pc["backfill"] \in {"chunk", "disabled"} /\ pc["sweep"] \in {"chunk", "disabled"}
  BY DEF Init, StartPC, Worker, Moderating
<1>2. ForwardPlace /\ BackfillPlace /\ SweepPlace
  BY <1>1 DEF ForwardPlace, BackfillPlace, SweepPlace, InChunk
<1>3. last = InitialLast /\ InitialLast \in Nat
  BY UsenetAssumption, SpotnetAssumption DEF Init, UsenetInit
<1>4. lastArticle <= last /\ backfillArticle <= last
  <2>1. CASE Upgraded
    <3>1. PICK lo, hi \in 1 .. InitialLast :
                 /\ spots = {n \in lo .. hi : Accepted(group[n])} /\ spots # {}
                 /\ lastArticle = hi /\ backfillArticle = MinOf(spots)
      BY <2>1 DEF Init, InitialStore
    <3>2. spots \in SUBSET Nat /\ spots \subseteq 1 .. InitialLast
      BY <1>3, <3>1
    <3>3. MinOf(spots) \in spots
      BY <3>1, <3>2, MinOfIsLeast
    <3> QED
      BY <1>3, <3>1, <3>2, <3>3
  <2>2. CASE ~Upgraded
    BY <1>3, <2>2 DEF Init, InitialStore
  <2> QED
    BY <2>1, <2>2
<1> QED
  BY <1>2, <1>4 DEF Places

-----------------------------------------------------------------------------
(* Which way the watermarks move.                                          *)

\* Only the three checkpoints write the row, each of them its own column.
LEMMA OnlyCheckpoints ==
  ASSUME TypeOK, TypeOK', Places, [Next]_vars
  PROVE  \/ UNCHANGED syncState
         \/ Checkpoint /\ UNCHANGED <<backfillArticle, sweepArticle>>
         \/ BackfillCheckpoint /\ UNCHANGED <<lastArticle, sweepArticle>>
         \/ SweepCheckpoint /\ UNCHANGED <<lastArticle, backfillArticle>>
<1>1. CASE Forward /\ ~Checkpoint
  BY <1>1 DEF Forward, BeginPass, ReadChunk, ReadChunkFails, Moderate, storeVars
<1>2. CASE Checkpoint
  BY <1>2 DEF Checkpoint, SetSyncState, syncState
<1>3. CASE Backfill
  BY <1>3 DEF Backfill, BackfillDone, BackfillChunk, BackfillFails, BackfillCheckpoint,
              SetBackfillState, storeVars
<1>4. CASE Sweep
  BY <1>4 DEF Sweep, SweepDone, SweepChunk, SweepFails, SweepCheckpoint, Moderate,
              SetDisposeSweepState, storeVars
<1> QED
  BY <1>1, <1>2, <1>3, <1>4, OtherPlaces DEF Next

\* The forward watermark and the sweep's never move back and the backfill's never moves up,
\* whoever else writes the row meanwhile, across failed passes and restarts: no article once
\* behind a watermark is fetched again, and none is skipped by a checkpoint that goes back.
THEOREM MarksMonotone == Spec => WatermarksMonotone
<1> DEFINE Forth == /\ lastArticle' >= lastArticle
                    /\ sweepArticle' >= sweepArticle
                    /\ backfillArticle' <= backfillArticle
<1>1. TypeOK /\ Places /\ [Next]_vars => (TypeOK /\ Places)'
  BY TypeNext, PlacesNext
<1>2. ASSUME TypeOK, TypeOK', Places, [Next]_vars PROVE Forth
  <2>1. /\ lastArticle \in Nat /\ sweepArticle \in Nat /\ backfillArticle \in Nat
        /\ job["forward"] \in Job /\ job["backfill"] \in Job /\ job["sweep"] \in Job
    BY <1>2, SpotnetAssumption DEF TypeOK, StoreTypeOK, Worker, Moderating
  <2>2. /\ job["forward"].lastNum \in Nat /\ job["forward"].from \in Nat
        /\ job["backfill"].from \in Nat /\ job["sweep"].upto \in Nat
    BY <2>1, SpotnetAssumption DEF Job
  <2>3. CASE UNCHANGED syncState
    BY <2>1, <2>3 DEF syncState
  <2>4. CASE Checkpoint /\ UNCHANGED <<backfillArticle, sweepArticle>>
    <3>1. /\ pc["forward"] = "checkpoint"
          /\ \/ lastArticle' = lastArticle
             \/ job["forward"].lastNum # 0 /\ lastArticle' = job["forward"].lastNum
      BY <2>4 DEF Checkpoint, SetSyncState, syncState
    <3>2. /\ lastArticle < job["forward"].from
          /\ job["forward"].lastNum = 0 \/ job["forward"].from <= job["forward"].lastNum
      BY <1>2, <3>1 DEF Places, ForwardPlace, InChunk
    <3> QED
      BY <2>1, <2>2, <2>4, <3>1, <3>2
  <2>5. CASE BackfillCheckpoint /\ UNCHANGED <<lastArticle, sweepArticle>>
    BY <1>2, <2>1, <2>2, <2>5 DEF BackfillCheckpoint, SetBackfillState, Places, BackfillPlace
  <2>6. CASE SweepCheckpoint /\ UNCHANGED <<lastArticle, backfillArticle>>
    BY <1>2, <2>1, <2>2, <2>6 DEF SweepCheckpoint, SetDisposeSweepState, Places, SweepPlace, InChunk
  <2> QED
    BY <1>2, <2>3, <2>4, <2>5, <2>6, OnlyCheckpoints
<1>3. TypeOK /\ Places /\ [Next]_vars => [Forth]_syncState
  BY <1>2, TypeNext
<1> QED
  BY TypeInit, PlacesInit, <1>1, <1>3, PTL DEF Spec, WatermarksMonotone

-----------------------------------------------------------------------------
(* When the backfill may call itself done.                                 *)

Reached ==
  /\ backfillArticle >= 1
  /\ pc["backfill"] = "done" => backfillArticle <= first

\* Nobody but the backfill moves it or its watermark, except a restart, after which it is
\* not done.
LEMMA BackfillAlone ==
  ASSUME TypeOK, TypeOK', Places, [Next]_vars, ~Backfill
  PROVE  /\ backfillArticle' = backfillArticle
         /\ \/ pc'["backfill"] = pc["backfill"] /\ job'["backfill"] = job["backfill"]
            \/ Restart /\ pc'["backfill"] \in {"chunk", "disabled"}
<1>1. pc \in [Worker -> Labels] /\ job \in [Worker -> Job] /\ "backfill" \in Worker
  BY DEF TypeOK, Worker
<1>2. backfillArticle' = backfillArticle
  BY OnlyCheckpoints DEF Backfill, syncState
<1>3. CASE Forward \/ Sweep
  <2>1. ASSUME NEW w \in Moderating, Moderate(w)
        PROVE  pc'["backfill"] = pc["backfill"] /\ job'["backfill"] = job["backfill"]
    BY <1>1, <2>1, ModerationPlace DEF Moderating
  <2>2. CASE BeginPass \/ ReadChunk \/ ReadChunkFails \/ Checkpoint
    <3>1. (\E l : Goto("forward", l)) /\ (\E j : SetJob("forward", j))
      BY <2>2 DEF BeginPass, ReadChunk, ReadChunkFails, Checkpoint, Abandon
    <3> QED
      BY <1>1, <1>2, <3>1 DEF Goto, SetJob
  <2>3. CASE SweepDone \/ SweepChunk \/ SweepFails \/ SweepCheckpoint
    <3>1. (\E l : Goto("sweep", l)) /\ (UNCHANGED job \/ \E j : SetJob("sweep", j))
      BY <2>3 DEF SweepDone, SweepChunk, SweepFails, SweepCheckpoint, Abandon
    <3> QED
      BY <1>1, <1>2, <3>1 DEF Goto, SetJob
  <2> QED
    BY <1>2, <1>3, <2>1, <2>2, <2>3 DEF Forward, Sweep, Moderating
<1>4. CASE Restart
  BY <1>2, <1>4 DEF Restart, StartPC, Worker
<1>5. CASE Maintain \/ Tick \/ Provider \/ UNCHANGED vars \/ \E n \in Num : Enrich(n)
  <2>1. job' = job
    BY <1>5 DEF Maintain, PurgeBlacklist, ApplyRetention, PruneRing, MaintainFails, maintained,
                Tick, Provider, Enrich, local, vars
  <2>2. pc' = pc \/ \E l : Goto("maintenance", l)
    BY <1>5 DEF Maintain, PurgeBlacklist, ApplyRetention, PruneRing, MaintainFails, AfterPurge,
                Tick, Provider, Enrich, local, vars
  <2> QED
    BY <1>1, <1>2, <2>1, <2>2 DEF Goto
<1> QED
  BY <1>3, <1>4, <1>5 DEF Next

\* Over the database of an earlier release, whose backfill watermark migration 2 seeded,
\* the backfill reports completion only with its watermark at or below the first article of
\* the group, and stays right while the group expires.  (Over a fresh database it is not
\* so: the watermark is 0 there and the backfill stops at once.)
THEOREM DoneMeansReached ==
  ASSUME Upgraded
  PROVE  Spec => []BackfillDoneMeansReached
<1>1. Init => Reached
  <2> SUFFICES ASSUME Init PROVE Reached
    OBVIOUS
  <2>1. PICK lo, hi \in 1 .. InitialLast :
               /\ spots = {n \in lo .. hi : Accepted(group[n])} /\ spots # {}
               /\ backfillArticle = MinOf(spots)
    BY DEF Init, InitialStore
  <2>2. InitialLast \in Nat
    BY UsenetAssumption, SpotnetAssumption
  <2>3. spots \in SUBSET Nat /\ \A n \in spots : n >= 1
    BY <2>1, <2>2
  <2>4. MinOf(spots) \in spots
    BY <2>1, <2>3, MinOfIsLeast
  <2>5. pc["backfill"] # "done"
    BY DEF Init, StartPC, Worker
  <2> QED
    BY <2>1, <2>3, <2>4, <2>5 DEF Reached
<1>2. ASSUME TypeOK, TypeOK', Places, Reached, [Next]_vars PROVE Reached'
  <2>1. /\ first \in Nat \ {0} /\ first' \in Nat /\ backfillArticle \in Nat
        /\ pc \in [Worker -> Labels] /\ job["backfill"] \in Job /\ "backfill" \in Worker
    BY <1>2, SpotnetAssumption DEF TypeOK, UsenetTypeOK, StoreTypeOK, Worker
  <2>2. job["backfill"].from \in Nat /\ job["backfill"].bound \in Nat
    BY <2>1, SpotnetAssumption DEF Job
  <2>3. first' >= first
    BY <1>2, GroupGrows
  <2>4. CASE ~Backfill
    BY <2>1, <2>3, <2>4, <1>2, BackfillAlone DEF Reached
  <2>5. CASE BackfillDone
    BY <1>2, <2>1, <2>3, <2>5 DEF BackfillDone, Reached, storeVars, syncState
  <2>6. CASE BackfillChunk \/ BackfillFails
    <3>1. pc'["backfill"] # "done" /\ backfillArticle' = backfillArticle
      BY <2>1, <2>6 DEF BackfillChunk, BackfillFails, Goto, storeVars, syncState
    <3> QED
      BY <1>2, <3>1 DEF Reached
  <2>7. CASE BackfillCheckpoint
    <3>1. /\ pc["backfill"] = "checkpoint" /\ backfillArticle' = job["backfill"].from
          /\ pc'["backfill"] = "done" => job["backfill"].from <= job["backfill"].bound
      BY <2>1, <2>7 DEF BackfillCheckpoint, SetBackfillState, Goto
    <3>2. 1 <= job["backfill"].from /\ job["backfill"].bound <= first
      BY <1>2, <3>1 DEF Places, BackfillPlace
    <3> QED
      BY <2>1, <2>2, <2>3, <3>1, <3>2 DEF Reached
  <2> QED
    BY <2>4, <2>5, <2>6, <2>7 DEF Backfill
<1>3. TypeOK /\ Places /\ Reached /\ [Next]_vars => (TypeOK /\ Places /\ Reached)'
  BY <1>2, TypeNext, PlacesNext
<1>4. TypeOK /\ Reached => BackfillDoneMeansReached
  BY DEF Reached, BackfillDoneMeansReached, TypeOK, StoreTypeOK
<1> QED
  BY TypeInit, PlacesInit, <1>1, <1>3, <1>4, PTL DEF Spec

-----------------------------------------------------------------------------
(* No gap between the watermarks.                                          *)

\* What has been read stays read: an article of the group only ever disappears.
LEMMA ReadKept ==
  ASSUME TypeOK, TypeOK', Recorded, [Next]_vars
  PROVE  \A n \in Num : n <= last /\ Read(n) => Read(n)'
<1>1. group' = group /\ first' >= first /\ last' >= last /\ indexed \subseteq indexed'
  BY GroupGrows, RecordedNext
<1>2. first \in Nat /\ first' \in Nat /\ last \in Nat /\ last' \in Nat /\ Num \subseteq Nat
  BY SpotnetAssumption DEF TypeOK, UsenetTypeOK, Num
<1>3. ASSUME NEW n \in Num, n <= last, OnServer(n)' PROVE OnServer(n)
  BY <1>1, <1>2, <1>3 DEF OnServer
<1> QED
  BY <1>1, <1>3 DEF Read

\* An overview that was inserted leaves nothing unread in its range.
LEMMA InsertedIsRead ==
  ASSUME TypeOK, Recorded, NEW from, NEW to, UNCHANGED usenet,
         InsertSpots({n \in Overview(from, to) : Accepted(group[n])})
  PROVE  \A n \in Num : from <= n /\ n <= to => Read(n)'
<1>1. ASSUME NEW n \in Num, from <= n, n <= to, OnServer(n)', Accepted(group'[n])
      PROVE  n \in indexed'
  <2>1. n \in Overview(from, to) /\ Accepted(group[n])
    BY <1>1 DEF Overview, OnServer, usenet
  <2>2. n \in spots \cup ring \/ n \in indexed'
    BY <2>1 DEF InsertSpots
  <2> QED
    BY <2>2 DEF Recorded, InsertSpots
<1> QED
  BY <1>1 DEF Read

\* The parts of NoGapYet that a step leaves alone.
LEMMA GapKept ==
  ASSUME TypeOK, TypeOK', Places, Recorded, NoGapYet, [Next]_vars,
         UNCHANGED <<lastArticle, backfillArticle, syncStart>>
  PROVE  /\ (lastArticle = 0 => backfillArticle = 0)'
         /\ Gapless(Low, lastArticle)'
         /\ pc["forward"] = "chunk" /\ job'["forward"] = job["forward"] =>
              Gapless(Low, job["forward"].from - 1)'
         /\ pc["forward"] \in InChunk /\ job'["forward"].upto = job["forward"].upto =>
              Gapless(Low, job["forward"].upto)'
         /\ pc["backfill"] = "checkpoint" /\ job'["backfill"] = job["backfill"] =>
              Gapless(job["backfill"].from, backfillArticle - 1)'
<1>1. /\ lastArticle \in Nat /\ backfillArticle \in Nat /\ last \in Nat /\ Num \subseteq Nat
      /\ job["forward"] \in Job /\ ChunkSize \in Nat \ {0}
  BY SpotnetAssumption, SyncAssumption
     DEF TypeOK, UsenetTypeOK, StoreTypeOK, Num, Worker, Moderating
<1>2. /\ job["forward"].from \in Nat /\ job["forward"].bound \in Nat /\ job["forward"].upto \in Nat
  BY <1>1, SpotnetAssumption DEF Job
<1>3. Low' = Low
  BY DEF Low
<1>4. \A n \in Num : n <= last /\ Read(n) => Read(n)'
  BY ReadKept
<1>5. Gapless(Low, lastArticle)'
  <2>1. \A n \in Num : Low <= n /\ n <= lastArticle => Read(n) /\ n <= last
    BY <1>1 DEF NoGapYet, Gapless, Places
  <2> QED
    BY <1>3, <1>4, <2>1 DEF Gapless
<1>6. ASSUME pc["forward"] = "chunk", job'["forward"] = job["forward"]
      PROVE  Gapless(Low, job["forward"].from - 1)'
  <2>1. \A n \in Num : Low <= n /\ n <= job["forward"].from - 1 => Read(n) /\ n <= last
    BY <1>1, <1>2, <1>6 DEF NoGapYet, Gapless, Places, ForwardPlace
  <2> QED
    BY <1>3, <1>4, <1>6, <2>1 DEF Gapless
<1>7. ASSUME pc["forward"] \in InChunk, job'["forward"].upto = job["forward"].upto
      PROVE  Gapless(Low, job["forward"].upto)'
  <2>1. job["forward"].upto <= last
    BY <1>1, <1>2, <1>7 DEF Places, ForwardPlace, ChunkTo, AtMost
  <2>2. \A n \in Num : Low <= n /\ n <= job["forward"].upto => Read(n) /\ n <= last
    BY <1>1, <1>2, <1>7, <2>1 DEF NoGapYet, Gapless
  <2> QED
    BY <1>3, <1>4, <1>7, <2>2 DEF Gapless
<1>8. ASSUME pc["backfill"] = "checkpoint", job'["backfill"] = job["backfill"]
      PROVE  Gapless(job["backfill"].from, backfillArticle - 1)'
  <2>1. \A n \in Num : job["backfill"].from <= n /\ n <= backfillArticle - 1
                         => Read(n) /\ n <= last
    <3>1. Gapless(job["backfill"].from, backfillArticle - 1) /\ backfillArticle <= last
      BY <1>8 DEF NoGapYet, Places
    <3>2. ASSUME NEW n \in Num, job["backfill"].from <= n, n <= backfillArticle - 1
          PROVE  Read(n)
      BY <3>1, <3>2 DEF Gapless
    <3>3. ASSUME NEW n \in Nat, n <= backfillArticle - 1 PROVE n <= last
      BY <1>1, <3>1, <3>3
    <3> QED
      BY <1>1, <3>2, <3>3
  <2> QED
    BY <1>4, <1>8, <2>1 DEF Gapless
<1> QED
  BY <1>5, <1>6, <1>7, <1>8 DEF NoGapYet

\* The forward sync leaves no gap: its checkpoint names an article of a chunk all of which
\* was inserted, and it goes on right behind that chunk.
LEMMA ForwardNoGap ==
  ASSUME MaxDBFaults = 0, TypeOK, TypeOK', Places, Recorded, NoGapYet, Forward
  PROVE  NoGapYet'
<1>1. /\ first \in Nat \ {0} /\ last \in Nat /\ lastArticle \in Nat /\ backfillArticle \in Nat
      /\ syncStart \in Nat /\ (\A n \in Num : n \in Nat /\ n >= 1) /\ ChunkSize \in Nat \ {0}
      /\ pc \in [Worker -> Labels] /\ job \in [Worker -> Job] /\ job["forward"] \in Job
      /\ "forward" \in Worker /\ "backfill" \in Worker /\ "forward" \in Moderating
  <2>1. \A n \in Num : n \in Nat /\ n >= 1
    BY SpotnetAssumption DEF Num
  <2> QED
    BY <2>1, SpotnetAssumption, SyncAssumption
       DEF TypeOK, UsenetTypeOK, StoreTypeOK, Worker, Moderating
<1>2. /\ job["forward"].from \in Nat /\ job["forward"].upto \in Nat
      /\ job["forward"].bound \in Nat /\ job["forward"].lastNum \in Nat
  BY <1>1, SpotnetAssumption DEF Job
<1>3. ~DBFault
  BY DEF DBFault, TypeOK
<1>4. \A n \in Num : n <= last /\ Read(n) => Read(n)'
  BY ReadKept DEF Next
<1>5. Low \in Nat
  BY <1>1 DEF Low
<1>6. ASSUME NEW l, NEW j, Goto("forward", l), SetJob("forward", j)
      PROVE  /\ pc'["forward"] = l /\ job'["forward"] = j
             /\ pc'["backfill"] = pc["backfill"] /\ job'["backfill"] = job["backfill"]
  BY <1>1, <1>6 DEF Goto, SetJob
<1>7. CASE BeginPass
  <2> DEFINE from == IF lastArticle = 0
                     THEN AtLeast(IF last > SyncLookback THEN last - SyncLookback ELSE 0, first)
                     ELSE lastArticle + 1
             j == [NoJob EXCEPT !.from = from, !.bound = last]
  <2>1. /\ Goto("forward", "chunk") /\ SetJob("forward", j) /\ UNCHANGED syncState
        /\ syncStart' = IF lastArticle = 0 THEN from ELSE syncStart
    BY <1>7 DEF BeginPass, storeVars
  <2>2. j.from = from
    BY DEF NoJob
  <2>3. from \in Nat /\ (lastArticle # 0 => from - 1 = lastArticle)
    BY <1>1, SyncAssumption DEF AtLeast
  <2> HIDE DEF from, j
  <2>4. /\ pc'["forward"] = "chunk" /\ job'["forward"].from = from
        /\ pc'["backfill"] = pc["backfill"] /\ job'["backfill"] = job["backfill"]
    BY <1>6, <2>1, <2>2
  <2>5. CASE lastArticle # 0
    BY <1>7, <2>1, <2>3, <2>4, <2>5, GapKept
       DEF NoGapYet, InChunk, Next, Forward, syncState
  <2>6. CASE lastArticle = 0
    <3>1. backfillArticle = 0 /\ pc["backfill"] # "checkpoint"
      <4>1. job["backfill"].from \in Nat
        BY <1>1, SpotnetAssumption DEF Job
      <4> QED
        BY <2>6, <4>1 DEF NoGapYet, Places, BackfillPlace
    <3>2. Low' = from
      BY <2>1, <2>6, <3>1 DEF Low, syncState
    <3>3. Gapless(Low, lastArticle)'
      BY <1>1, <2>1, <2>6 DEF Gapless, syncState
    <3>4. Gapless(Low, job["forward"].from - 1)'
      BY <1>1, <2>3, <2>4, <3>2 DEF Gapless
    <3> QED
      BY <2>1, <2>4, <2>6, <3>1, <3>3, <3>4 DEF NoGapYet, InChunk, syncState
  <2> QED
    BY <2>5, <2>6
<1>8. CASE ReadChunk
  <2> DEFINE batch == Overview(job["forward"].from, ChunkTo)
             num == IF batch = {} THEN 0 ELSE MaxOf(batch)
             j == [job["forward"] EXCEPT !.upto = ChunkTo, !.lastNum = num,
                                         !.cmds = Disposes(batch)]
             l == IF Disposes(batch) = {} THEN "checkpoint" ELSE "moderate"
  <2>1. /\ pc["forward"] = "chunk" /\ Goto("forward", l) /\ SetJob("forward", j)
        /\ UNCHANGED <<usenet, syncState, syncStart>>
        /\ InsertSpots({n \in batch : Accepted(group[n])})
    BY <1>3, <1>8 DEF ReadChunk, context
  <2>2. \A n \in Num : job["forward"].from <= n /\ n <= ChunkTo => Read(n)'
    BY <2>1, InsertedIsRead
  <2>3. j.upto = ChunkTo /\ l # "chunk"
    BY <1>1 DEF Job
  <2> HIDE DEF num, batch, j, l
  <2>4. /\ pc'["forward"] # "chunk" /\ job'["forward"].upto = ChunkTo
        /\ pc'["backfill"] = pc["backfill"] /\ job'["backfill"] = job["backfill"]
    BY <1>6, <2>1, <2>3
  <2>5. \A n \in Num : Low <= n /\ n < job["forward"].from => Read(n)'
    <3>1. \A n \in Num : Low <= n /\ n < job["forward"].from => Read(n) /\ n <= last
      BY <1>1, <1>2, <2>1 DEF NoGapYet, Gapless, Places, ForwardPlace
    <3> QED
      BY <1>4, <3>1
  <2>6. Low' = Low
    BY <2>1 DEF Low, syncState
  <2>7. Gapless(Low, job["forward"].upto)'
    BY <1>1, <1>2, <2>2, <2>4, <2>5, <2>6 DEF Gapless
  <2> QED
    BY <1>8, <2>1, <2>4, <2>7, GapKept DEF NoGapYet, Next, Forward, syncState
<1>9. CASE ReadChunkFails
  <2>1. /\ pc'["forward"] = "wait"
        /\ pc'["backfill"] = pc["backfill"] /\ job'["backfill"] = job["backfill"]
        /\ UNCHANGED <<syncState, syncStart>>
    BY <1>6, <1>9 DEF ReadChunkFails, Abandon, storeVars
  <2> QED
    BY <1>9, <2>1, GapKept DEF NoGapYet, InChunk, Next, Forward, syncState
<1>10. CASE Moderate("forward")
  <2>1. /\ pc["forward"] \in {"moderate", "ring"}
        /\ pc'["backfill"] = pc["backfill"] /\ job'["backfill"] = job["backfill"]
        /\ \/ pc'["forward"] \in InChunk /\ job'["forward"].upto = job["forward"].upto
           \/ pc'["forward"] = "wait"
        /\ UNCHANGED <<syncState, syncStart>>
    BY <1>1, <1>10, ModerationPlace
  <2> QED
    BY <1>10, <2>1, GapKept DEF NoGapYet, InChunk, Next, Forward, syncState
<1>11. CASE Checkpoint
  <2> DEFINE j == job["forward"]
             next == j.from + ChunkSize
             k == [NoJob EXCEPT !.from = next, !.bound = j.bound]
  <2>1. /\ pc["forward"] = "checkpoint"
        /\ lastArticle' = lastArticle \/ (j.lastNum # 0 /\ lastArticle' = j.lastNum)
        /\ UNCHANGED <<usenet, backfillArticle, sweepArticle, syncStart>>
    BY <1>11 DEF Checkpoint, SetSyncState, syncState, context
  <2>2. /\ lastArticle < j.from /\ j.from <= j.bound /\ j.bound <= last
        /\ j.upto = AtMost(j.from + ChunkSize - 1, j.bound)
        /\ j.lastNum = 0 \/ (j.from <= j.lastNum /\ j.lastNum <= j.upto)
    BY <2>1 DEF Places, ForwardPlace, InChunk, ChunkTo
  <2>3. j.upto <= last /\ lastArticle' <= j.upto /\ (next <= j.bound => next - 1 = j.upto)
    BY <1>1, <1>2, <2>1, <2>2 DEF AtMost
  <2>4. \A n \in Num : Low <= n /\ n <= j.upto => Read(n)'
    <3>1. \A n \in Num : Low <= n /\ n <= j.upto => Read(n) /\ n <= last
      BY <1>1, <1>2, <2>1, <2>3 DEF NoGapYet, Gapless, InChunk
    <3> QED
      BY <1>4, <3>1
  <2>5. Low' = Low /\ lastArticle' \in Nat
    BY <1>1, <1>2, <2>1 DEF Low
  <2>6. Gapless(Low, lastArticle)'
    BY <1>1, <1>2, <2>3, <2>4, <2>5 DEF Gapless
  <2>7. (lastArticle = 0 => backfillArticle = 0)'
    BY <2>1 DEF NoGapYet
  <2>8. pc'["backfill"] = "checkpoint" /\ job'["backfill"] = job["backfill"]
        /\ pc["backfill"] = "checkpoint" => Gapless(job["backfill"].from, backfillArticle - 1)'
    <3>1. ASSUME pc["backfill"] = "checkpoint", job'["backfill"] = job["backfill"]
          PROVE  Gapless(job["backfill"].from, backfillArticle - 1)'
      <4>1. \A n \in Num : job["backfill"].from <= n /\ n <= backfillArticle - 1
                             => Read(n) /\ n <= last
        BY <1>1, <3>1 DEF NoGapYet, Gapless, Places
      <4> QED
        BY <1>4, <2>1, <3>1, <4>1 DEF Gapless
    <3> QED
      BY <3>1
  <2>9. CASE next <= j.bound
    <3>1. Goto("forward", "chunk") /\ SetJob("forward", k) /\ k.from = next
      BY <1>11, <2>9 DEF Checkpoint, NoJob
    <3> HIDE DEF k
    <3>2. /\ pc'["forward"] = "chunk" /\ job'["forward"].from = next
          /\ pc'["backfill"] = pc["backfill"] /\ job'["backfill"] = job["backfill"]
      BY <1>6, <3>1
    <3>3. Gapless(Low, job["forward"].from - 1)'
      BY <2>3, <2>4, <2>5, <2>9, <3>2 DEF Gapless
    <3> QED
      BY <2>6, <2>7, <2>8, <3>2, <3>3 DEF NoGapYet, InChunk
  <2>10. CASE ~(next <= j.bound)
    <3>1. /\ pc'["forward"] = "wait"
          /\ pc'["backfill"] = pc["backfill"] /\ job'["backfill"] = job["backfill"]
      BY <1>6, <1>11, <2>10 DEF Checkpoint
    <3> QED
      BY <2>6, <2>7, <2>8, <3>1 DEF NoGapYet, InChunk
  <2> QED
    BY <2>9, <2>10
<1> QED
  BY <1>7, <1>8, <1>9, <1>10, <1>11 DEF Forward

\* The backfill leaves no gap: its checkpoint moves the watermark down over a chunk all of
\* which was inserted.
LEMMA BackfillNoGap ==
  ASSUME MaxDBFaults = 0, TypeOK, TypeOK', Places, Recorded, NoGapYet, Backfill
  PROVE  NoGapYet'
<1>1. /\ first \in Nat \ {0} /\ last \in Nat /\ lastArticle \in Nat /\ backfillArticle \in Nat
      /\ syncStart \in Nat /\ (\A n \in Num : n \in Nat /\ n >= 1) /\ ChunkSize \in Nat \ {0}
      /\ pc \in [Worker -> Labels] /\ job \in [Worker -> Job]
      /\ job["forward"] \in Job /\ job["backfill"] \in Job
      /\ "forward" \in Worker /\ "backfill" \in Worker
  <2>1. \A n \in Num : n \in Nat /\ n >= 1
    BY SpotnetAssumption DEF Num
  <2> QED
    BY <2>1, SpotnetAssumption, SyncAssumption
       DEF TypeOK, UsenetTypeOK, StoreTypeOK, Worker, Moderating
<1>2. /\ job["forward"].from \in Nat /\ job["forward"].upto \in Nat
      /\ job["forward"].bound \in Nat /\ job["backfill"].from \in Nat
  BY <1>1, SpotnetAssumption DEF Job
<1>3. ~DBFault
  BY DEF DBFault, TypeOK
<1>4. \A n \in Num : n <= last /\ Read(n) => Read(n)'
  BY ReadKept DEF Next
<1>5. ASSUME NEW l, Goto("backfill", l), UNCHANGED job \/ \E j : SetJob("backfill", j)
      PROVE  /\ pc'["backfill"] = l
             /\ pc'["forward"] = pc["forward"] /\ job'["forward"] = job["forward"]
  BY <1>1, <1>5 DEF Goto, SetJob
<1>6. CASE BackfillDone \/ BackfillFails
  <2>1. PICK l \in {"done", "failed"} : Goto("backfill", l)
    BY <1>6 DEF BackfillDone, BackfillFails
  <2>2. /\ UNCHANGED <<syncState, syncStart>>
        /\ UNCHANGED job \/ \E j : SetJob("backfill", j)
    BY <1>6 DEF BackfillDone, BackfillFails, storeVars
  <2>3. /\ pc'["backfill"] # "checkpoint"
        /\ pc'["forward"] = pc["forward"] /\ job'["forward"] = job["forward"]
    BY <1>5, <2>1, <2>2
  <2> QED
    BY <2>2, <2>3, GapKept DEF NoGapYet, Next, syncState
<1>7. CASE BackfillChunk
  <2> DEFINE j == [NoJob EXCEPT !.from = BackfillFrom, !.bound = first]
  <2>1. /\ Goto("backfill", "checkpoint") /\ SetJob("backfill", j)
        /\ UNCHANGED <<usenet, syncState, syncStart>>
        /\ InsertSpots({n \in Overview(BackfillFrom, backfillArticle - 1) : Accepted(group[n])})
    BY <1>3, <1>7 DEF BackfillChunk, context
  <2>2. \A n \in Num : BackfillFrom <= n /\ n <= backfillArticle - 1 => Read(n)'
    BY <2>1, InsertedIsRead
  <2>3. j.from = BackfillFrom
    BY DEF NoJob
  <2> HIDE DEF j
  <2>4. /\ job'["backfill"] = j
        /\ pc'["forward"] = pc["forward"] /\ job'["forward"] = job["forward"]
    BY <1>1, <2>1 DEF Goto, SetJob
  <2>5. Gapless(job["backfill"].from, backfillArticle - 1)'
    BY <2>1, <2>2, <2>3, <2>4 DEF Gapless, syncState
  <2> QED
    BY <2>1, <2>4, <2>5, GapKept DEF NoGapYet, Next, syncState
<1>8. CASE BackfillCheckpoint
  <2>1. /\ pc["backfill"] = "checkpoint" /\ backfillArticle' = job["backfill"].from
        /\ UNCHANGED <<usenet, lastArticle, sweepArticle, syncStart>>
        /\ SetJob("backfill", NoJob)
    BY <1>8 DEF BackfillCheckpoint, SetBackfillState, context
  <2>2. PICK l \in {"done", "chunk"} : Goto("backfill", l)
    BY <1>8 DEF BackfillCheckpoint
  <2>3. /\ pc'["backfill"] # "checkpoint"
        /\ pc'["forward"] = pc["forward"] /\ job'["forward"] = job["forward"]
    BY <1>5, <2>1, <2>2
  <2>4. 1 <= job["backfill"].from /\ job["backfill"].from < backfillArticle
    BY <2>1 DEF Places, BackfillPlace
  <2>5. \A n \in Num : Low' <= n => Low <= n \/ (job["backfill"].from <= n /\ n <= backfillArticle - 1)
    BY <1>1, <1>2, <2>1, <2>4 DEF Low
  <2>6. ASSUME NEW hi \in Nat, hi <= last, Gapless(Low, hi)
        PROVE  \A n \in Num : Low' <= n /\ n <= hi => Read(n)'
    <3>1. Gapless(job["backfill"].from, backfillArticle - 1)
      BY <2>1 DEF NoGapYet
    <3>2. \A n \in Num : Low' <= n /\ n <= hi => Read(n) /\ n <= last
      BY <1>1, <2>5, <2>6, <3>1 DEF Gapless
    <3> QED
      BY <1>4, <3>2
  <2>7. Gapless(Low, lastArticle)'
    BY <1>1, <2>1, <2>6 DEF NoGapYet, Gapless, Places
  <2>8. (lastArticle = 0 => backfillArticle = 0)'
    BY <1>1, <1>2, <2>1, <2>4 DEF NoGapYet
  <2>9. ASSUME pc["forward"] = "chunk" PROVE Gapless(Low, job["forward"].from - 1)'
    <3> DEFINE hi == job["forward"].from - 1
    <3>1. hi \in Nat /\ hi <= last /\ Gapless(Low, hi)
      BY <1>1, <1>2, <2>9 DEF NoGapYet, Places, ForwardPlace
    <3>2. \A n \in Num : Low' <= n /\ n <= hi => Read(n)'
      BY <2>6, <3>1
    <3> QED
      BY <2>3, <3>2 DEF Gapless
  <2>10. ASSUME pc["forward"] \in InChunk PROVE Gapless(Low, job["forward"].upto)'
    <3> DEFINE hi == job["forward"].upto
    <3>1. hi \in Nat /\ hi <= last /\ Gapless(Low, hi)
      BY <1>1, <1>2, <2>10 DEF NoGapYet, Places, ForwardPlace, ChunkTo, AtMost
    <3>2. \A n \in Num : Low' <= n /\ n <= hi => Read(n)'
      BY <2>6, <3>1
    <3> QED
      BY <2>3, <3>2 DEF Gapless
  <2> QED
    BY <2>3, <2>7, <2>8, <2>9, <2>10 DEF NoGapYet
<1> QED
  BY <1>6, <1>7, <1>8 DEF Backfill

\* Nobody else touches what they have read.
LEMMA OtherNoGap ==
  ASSUME TypeOK, TypeOK', Places, Recorded, NoGapYet, [Next]_vars, ~Forward, ~Backfill
  PROVE  NoGapYet'
<1>1. pc \in [Worker -> Labels] /\ job \in [Worker -> Job] /\ "sweep" \in Moderating
  BY DEF TypeOK, Moderating
<1>2. UNCHANGED <<lastArticle, backfillArticle>>
  BY OnlyCheckpoints DEF Forward, Backfill, syncState
<1>3. CASE Sweep
  <2>1. syncStart' = syncStart
    BY <1>3 DEF Sweep, SweepDone, SweepChunk, SweepFails, SweepCheckpoint, Moderate
  <2>2. \A v \in {"forward", "backfill"} : pc'[v] = pc[v] /\ job'[v] = job[v]
    <3>1. CASE Moderate("sweep")
      BY <1>1, <3>1, ModerationPlace DEF Worker, Moderating
    <3>2. CASE SweepDone \/ SweepChunk \/ SweepFails \/ SweepCheckpoint
      <4>1. (\E l : Goto("sweep", l)) /\ (UNCHANGED job \/ \E j : SetJob("sweep", j))
        BY <3>2 DEF SweepDone, SweepChunk, SweepFails, SweepCheckpoint, Abandon
      <4> QED
        BY <1>1, <4>1 DEF Goto, SetJob, Worker, Moderating
    <3> QED
      BY <1>3, <3>1, <3>2 DEF Sweep
  <2> QED
    BY <1>2, <2>1, <2>2, GapKept DEF NoGapYet
<1>4. CASE Restart
  <2>1. /\ pc'["forward"] = "wait" /\ pc'["backfill"] \in {"chunk", "disabled"}
        /\ syncStart' = syncStart
    BY <1>4 DEF Restart, StartPC, Worker, Moderating
  <2> QED
    BY <1>2, <2>1, GapKept DEF NoGapYet, InChunk
<1>5. CASE Maintain \/ Tick \/ Provider \/ UNCHANGED vars \/ \E n \in Num : Enrich(n)
  <2>1. job' = job /\ syncStart' = syncStart
    BY <1>5 DEF Maintain, PurgeBlacklist, ApplyRetention, PruneRing, MaintainFails, maintained,
                Tick, Provider, Enrich, local, vars
  <2>2. pc' = pc \/ \E l : Goto("maintenance", l)
    BY <1>5 DEF Maintain, PurgeBlacklist, ApplyRetention, PruneRing, MaintainFails, AfterPurge,
                Tick, Provider, Enrich, local, vars
  <2>3. \A v \in {"forward", "backfill"} : pc'[v] = pc[v]
    BY <1>1, <2>2 DEF Goto, Worker, Moderating
  <2> QED
    BY <1>2, <2>1, <2>3, GapKept DEF NoGapYet
<1> QED
  BY <1>3, <1>4, <1>5 DEF Next

\* What an earlier release indexed had no gap.
LEMMA NoGapInit == Init => Recorded /\ NoGapYet
<1> SUFFICES ASSUME Init PROVE Recorded /\ NoGapYet
  OBVIOUS
<1>1. Recorded
  BY DEF Init, InitialStore, Recorded, NoJob, Worker
<1>2. /\ pc["forward"] = "wait" /\ pc["backfill"] \in {"chunk", "disabled"}
      /\ indexed = spots
  BY DEF Init, InitialStore, StartPC, Worker, Moderating
<1>3. Num \subseteq Nat /\ \A n \in Num : n >= 1
  BY SpotnetAssumption DEF Num
<1>4. CASE Upgraded
  <2>1. PICK lo, hi \in 1 .. InitialLast :
               /\ spots = {n \in lo .. hi : Accepted(group[n])} /\ spots # {}
               /\ lastArticle = hi /\ backfillArticle = MinOf(spots) /\ syncStart = lo
    BY <1>4 DEF Init, InitialStore
  <2>2. InitialLast \in Nat
    BY UsenetAssumption, SpotnetAssumption
  <2>3. spots \in SUBSET Nat /\ \A n \in spots : n >= lo
    BY <2>1, <2>2
  <2>4. backfillArticle \in Nat /\ backfillArticle >= lo
    BY <2>1, <2>3, MinOfIsLeast
  <2>5. Low = lo
    BY <2>1, <2>2, <2>4 DEF Low
  <2>6. Gapless(Low, lastArticle)
    BY <1>2, <1>3, <2>1, <2>2, <2>5 DEF Gapless, Read
  <2>7. lastArticle # 0
    BY <2>1, <2>2
  <2> QED
    BY <1>1, <1>2, <2>6, <2>7 DEF NoGapYet, InChunk
<1>5. CASE ~Upgraded
  <2>1. lastArticle = 0 /\ backfillArticle = 0
    BY <1>5 DEF Init, InitialStore
  <2>2. Gapless(Low, lastArticle)
    BY <1>3, <2>1 DEF Gapless
  <2> QED
    BY <1>1, <1>2, <2>1, <2>2 DEF NoGapYet, InChunk
<1> QED
  BY <1>4, <1>5

\* As long as no database call fails, nothing acceptable between the watermarks is missed,
\* with any number of NNTP failures, restarts and arrivals, whatever the chunk size: a pass
\* that ends early, a chunk read twice or a backfill meeting the forward sync leaves no gap.
\* (A failing insert does: it is logged and the checkpoint is written all the same.)
THEOREM NothingMissed ==
  ASSUME MaxDBFaults = 0
  PROVE  Spec => []NoGap
<1>1. ASSUME TypeOK, TypeOK', Places, Recorded, NoGapYet, [Next]_vars PROVE NoGapYet'
  BY <1>1, ForwardNoGap, BackfillNoGap, OtherNoGap
<1>2. TypeOK /\ Places /\ Recorded /\ NoGapYet /\ [Next]_vars
        => (TypeOK /\ Places /\ Recorded /\ NoGapYet)'
  BY <1>1, TypeNext, PlacesNext, RecordedNext
<1>3. TypeOK /\ NoGapYet => NoGap
  <2> SUFFICES ASSUME TypeOK, NoGapYet, NEW n \in Low .. lastArticle, n \in Num,
                      OnServer(n), Accepted(group[n])
               PROVE  n \in indexed
    BY DEF NoGap, Low
  <2>1. Low \in Nat /\ lastArticle \in Nat
    BY SpotnetAssumption DEF Low, TypeOK, StoreTypeOK
  <2>2. Low <= n /\ n <= lastArticle
    BY <2>1
  <2> QED
    BY <2>2 DEF NoGapYet, Gapless, Read
<1> QED
  BY TypeInit, PlacesInit, NoGapInit, <1>2, <1>3, PTL DEF Spec

-----------------------------------------------------------------------------
(* No hole between the sweep and the live sync.                            *)
(*                                                                         *)
(* SweptMeansWithdrawn speaks of the moment the sweep is done.  To get     *)
(* there it has to be known all along, of every chunk in hand, how far its *)
(* withdrawals have been carried through, and of every stretch behind the  *)
(* workers that its withdrawals have taken effect.                         *)

\* Withdrawal c ought to take effect on a spot that was there before it, and that is not
\* the backfill's.
Due(c) ==
  /\ group[c].target < c /\ Enforceable(c, group[c].target)
  /\ BackfillEnabled => syncStart <= group[c].target

\* It has, or need not.
Honoured(c) == Due(c) => group[c].target \notin Visible

\* Worker w has yet to consider withdrawal c, or has queued its target.
Pending(w, c) ==
  /\ pc[w] = "moderate"
  /\ c \in job[w].cmds \/ group[c].target \in job[w].targets

\* Every withdrawal of the chunk in hand is honoured or still with w, or there is an
\* error on record, which keeps w from its checkpoint.
Handled(w) ==
  /\ pc[w] \in InChunk =>
       \A c \in Num : job[w].from <= c /\ c <= job[w].upto =>
         Honoured(c) \/ Pending(w, c) \/ job[w].lookupErr
  /\ pc[w] \in {"chunk", "checkpoint"} => ~job[w].lookupErr

\* What the pass of the forward sync has left behind above its watermark.
ForwardPast ==
  mode # "off" /\ pc["forward"] \in {"chunk"} \cup InChunk =>
    \A c \in Num : syncStart <= c /\ lastArticle < c /\ c < job["forward"].from => Honoured(c)

\* The sweep only covers what lies below the watermark it saw; the rest was the live
\* sync's.
SweepPast ==
  /\ pc["sweep"] \in InChunk =>
       \A c \in Num :
         /\ syncStart <= c /\ c <= lastArticle
         /\ c < job["sweep"].from \/ job["sweep"].bound < c
         => Honoured(c)
  /\ pc["sweep"] = "done" =>
       \A c \in Num : syncStart <= c /\ c <= lastArticle => Honoured(c)
  /\ \A c \in Num : syncStart <= c /\ c <= sweepArticle => Honoured(c)

\* The sweep runs only in a process that moderates, below the forward watermark.
SweepRoom ==
  /\ mode = "off" => pc["sweep"] = "disabled"
  /\ sweepArticle <= lastArticle
  /\ pc["sweep"] \in InChunk =>
       job["sweep"].upto <= job["sweep"].bound /\ job["sweep"].bound <= lastArticle

NoHole ==
  /\ SweepRoom
  /\ mode # "off" => Handled("forward")
  /\ Handled("sweep")
  /\ ForwardPast /\ SweepPast

\* What is left to the backfill lies below where the sync began: an earlier release's
\* watermark is its oldest row, and the first sync, which settles where it begins, comes
\* before any other.
BackfillBelow ==
  /\ ~BackfillEnabled => pc["backfill"] = "disabled"
  /\ lastArticle = 0 => backfillArticle = 0
  /\ \A n \in Num : syncStart <= n /\ n < backfillArticle => ~Accepted(group[n])

\* Where the sync began is settled with its first checkpoint.
LEMMA StartSettled ==
  ASSUME [Next]_vars
  PROVE  syncStart' = syncStart \/ (BeginPass /\ lastArticle = 0)
<1>1. CASE Forward
  BY <1>1 DEF Forward, BeginPass, ReadChunk, ReadChunkFails, Checkpoint, Moderate
<1>2. CASE Backfill
  BY <1>2 DEF Backfill, BackfillDone, BackfillChunk, BackfillFails, BackfillCheckpoint
<1>3. CASE Sweep
  BY <1>3 DEF Sweep, SweepDone, SweepChunk, SweepFails, SweepCheckpoint, Moderate
<1>4. CASE Maintain
  BY <1>4 DEF Maintain, PurgeBlacklist, ApplyRetention, PruneRing, MaintainFails, maintained
<1>5. CASE Tick \/ Provider \/ Restart \/ UNCHANGED vars \/ \E n \in Num : Enrich(n)
  BY <1>5 DEF Tick, Provider, Restart, Enrich, vars
<1> QED
  BY <1>1, <1>2, <1>3, <1>4, <1>5 DEF Next

\* The backfill stays below.
LEMMA BackfillBelowNext ==
  ASSUME TypeOK, TypeOK', Places, BackfillBelow, [Next]_vars
  PROVE  BackfillBelow'
<1>1. /\ group' = group /\ Num \subseteq Nat
      /\ backfillArticle \in Nat /\ backfillArticle' \in Nat
  <2>1. group' = group
    BY GroupGrows
  <2>2. backfillArticle \in Nat
    BY SpotnetAssumption DEF TypeOK, StoreTypeOK
  <2>3. backfillArticle' \in Nat
    BY SpotnetAssumption DEF TypeOK, StoreTypeOK
  <2>4. Num \subseteq Nat
    BY SpotnetAssumption DEF Num
  <2> QED
    BY <2>1, <2>2, <2>3, <2>4
<1>2. backfillArticle' <= backfillArticle /\ (lastArticle' = 0 => lastArticle = 0)
  <2>1. CASE BackfillCheckpoint /\ UNCHANGED <<lastArticle, sweepArticle>>
    <3>1. job["backfill"].from < backfillArticle /\ backfillArticle' = job["backfill"].from
      BY <2>1 DEF BackfillCheckpoint, SetBackfillState, Places, BackfillPlace
    <3> QED
      BY <1>1, <2>1, <3>1
  <2>2. CASE Checkpoint /\ UNCHANGED <<backfillArticle, sweepArticle>>
    <3>1. lastArticle' # 0 \/ lastArticle' = lastArticle
      BY <2>2 DEF Checkpoint, SetSyncState, syncState
    <3> QED
      BY <1>1, <2>2, <3>1
  <2> QED
    BY <1>1, <2>1, <2>2, OnlyCheckpoints DEF syncState
<1>3. ~BackfillEnabled => pc'["backfill"] = "disabled"
  <2> SUFFICES ASSUME ~BackfillEnabled PROVE pc'["backfill"] = "disabled"
    OBVIOUS
  <2>1. pc["backfill"] = "disabled"
    BY DEF BackfillBelow
  <2>2. ~Backfill
    BY <2>1 DEF Backfill, BackfillDone, BackfillChunk, BackfillFails, BackfillCheckpoint
  <2>3. CASE Restart
    BY <2>3 DEF Restart, StartPC, Worker
  <2>4. CASE ~Restart
    BY <2>1, <2>2, <2>4, BackfillAlone
  <2> QED
    BY <2>3, <2>4
<1>4. lastArticle' = 0 => backfillArticle' = 0
  BY <1>1, <1>2 DEF BackfillBelow
<1>5. \A n \in Num : syncStart' <= n /\ n < backfillArticle' => ~Accepted(group'[n])
  <2>1. CASE syncStart' = syncStart
    <3>1. \A n \in Num : n < backfillArticle' => n < backfillArticle
      BY <1>1, <1>2
    <3> QED
      BY <1>1, <2>1, <3>1 DEF BackfillBelow
  <2>2. CASE lastArticle = 0
    <3>1. \A n \in Num : ~(n < backfillArticle')
      BY <1>1, <1>2, <2>2 DEF BackfillBelow
    <3> QED
      BY <3>1
  <2> QED
    BY <2>1, <2>2, StartSettled
<1>6. \A n \in Num : Accepted(group'[n]) <=> Accepted(group[n])'
  BY DEF Accepted
<1> QED
  BY <1>3, <1>4, <1>5, <1>6 DEF BackfillBelow

LEMMA BackfillBelowInit == Init => BackfillBelow
<1> SUFFICES ASSUME Init PROVE BackfillBelow
  OBVIOUS
<1>1. ~BackfillEnabled => pc["backfill"] = "disabled"
  BY DEF Init, StartPC, Worker
<1>2. CASE ~Upgraded
  <2>1. backfillArticle = 0 /\ \A n \in Num : ~(n < 0)
    BY <1>2, SpotnetAssumption DEF Init, InitialStore, Num
  <2> QED
    BY <1>1, <2>1 DEF BackfillBelow
<1>3. CASE Upgraded
  <2>1. PICK lo, hi \in 1 .. InitialLast :
               /\ lo <= hi /\ spots = {n \in lo .. hi : Accepted(group[n])} /\ spots # {}
               /\ lastArticle = hi /\ backfillArticle = MinOf(spots) /\ syncStart = lo
    BY <1>3 DEF Init, InitialStore
  <2>2. InitialLast \in Nat /\ Num \subseteq Nat
    BY UsenetAssumption, SpotnetAssumption DEF Num
  <2>3. spots \in SUBSET Nat
    BY <2>1, <2>2
  <2>4. MinOf(spots) \in spots /\ \A t \in spots : MinOf(spots) <= t
    BY <2>1, <2>3, MinOfIsLeast
  <2>5. lo \in Nat /\ hi \in Nat /\ hi >= 1 /\ backfillArticle \in lo .. hi /\ backfillArticle \in Nat
    BY <2>1, <2>2, <2>4
  <2>6. ASSUME NEW n \in Num, syncStart <= n, n < backfillArticle PROVE ~Accepted(group[n])
    <3>1. n \in lo .. hi /\ ~(backfillArticle <= n)
      BY <2>1, <2>2, <2>5, <2>6
    <3> QED
      BY <2>1, <2>4, <3>1
  <2> QED
    BY <1>1, <2>1, <2>5, <2>6 DEF BackfillBelow
<1> QED
  BY <1>2, <1>3

\* Rows appear in the listings only by the forward sync's insert, from the start of its
\* chunk on, or by the backfill's, below where the sync began.
LEMMA OnlyReadLists ==
  ASSUME TypeOK, [Next]_vars, BackfillBelow
  PROVE  \A n \in Visible' :
           \/ n \in Visible
           \/ ReadChunk /\ job["forward"].from <= n
           \/ BackfillEnabled /\ ~(syncStart <= n)
<1> USE DEF Visible
<1>1. CASE ReadChunk
  <2> DEFINE batch == Overview(job["forward"].from, ChunkTo)
             ids == {n \in batch : Accepted(group[n])}
  <2>1. InsertSpots(ids) \/ UNCHANGED tables
    BY <1>1 DEF ReadChunk
  <2>2. \A n \in ids : job["forward"].from <= n
    BY DEF Overview
  <2> HIDE DEF ids
  <2>3. \A n \in Visible' : n \in Visible \/ n \in ids
    BY <2>1 DEF InsertSpots, tables
  <2> QED
    BY <1>1, <2>2, <2>3
<1>2. ASSUME (UNCHANGED <<spots, moderated>>) \/ (\E ids : DeleteRows(ids))
             \/ (\E ids, t : MarkModerated(ids, t))
      PROVE  Visible' \subseteq Visible
  BY <1>2 DEF DeleteRows, MarkModerated
<1>3. ASSUME NEW w, Moderate(w) PROVE Visible' \subseteq Visible
  <2>1. CASE \E c \in job[w].cmds : Judge(w, c) \/ LookupFails(w, c) \/ TargetReadFails(w, c)
    BY <1>2, <2>1 DEF Judge, LookupFails, TargetReadFails, tables
  <2>2. CASE \E c \in job[w].cmds : LookupOwner(w, c)
    BY <1>2, <2>2 DEF LookupOwner, SetSpotOwner, tables
  <2>3. CASE NothingToApply(w) \/ ApplyMark(w) \/ ApplyDelete(w) \/ RecordDeleted(w) \/ ApplyFails(w)
    BY <1>2, <2>3 DEF NothingToApply, ApplyMark, ApplyDelete, RecordDeleted, ApplyFails,
                      DeleteSpotsByMessageID, tables
  <2> QED
    BY <1>3, <2>1, <2>2, <2>3 DEF Moderate, ApplyModeration
<1>4. ASSUME Forward, ~ReadChunk PROVE Visible' \subseteq Visible
  BY <1>2, <1>3, <1>4 DEF Forward, BeginPass, ReadChunkFails, Checkpoint, storeVars, tables
<1>5. CASE Backfill
  <2>1. CASE ~BackfillChunk
    BY <1>2, <1>5, <2>1 DEF Backfill, BackfillDone, BackfillFails, BackfillCheckpoint, storeVars,
                            tables
  <2>2. CASE BackfillChunk
    <3> DEFINE batch == Overview(BackfillFrom, backfillArticle - 1)
               ids == {n \in batch : Accepted(group[n])}
    <3>1. (InsertSpots(ids) \/ UNCHANGED tables) /\ pc["backfill"] = "chunk"
      BY <2>2 DEF BackfillChunk
    <3>2. \A n \in ids : n \in Num /\ n <= backfillArticle - 1 /\ Accepted(group[n])
      BY DEF Overview
    <3> HIDE DEF ids
    <3>3. backfillArticle \in Nat /\ Num \subseteq Nat
      BY SpotnetAssumption DEF TypeOK, StoreTypeOK, Num
    <3>4. \A n \in Num : n <= backfillArticle - 1 => n < backfillArticle
      BY <3>3
    <3>5. \A n \in ids : BackfillEnabled /\ ~(syncStart <= n)
      BY <3>1, <3>2, <3>4 DEF BackfillBelow
    <3>6. \A n \in Visible' : n \in Visible \/ n \in ids
      BY <3>1 DEF InsertSpots, tables
    <3> QED
      BY <3>5, <3>6
  <2> QED
    BY <2>1, <2>2
<1>6. ASSUME Sweep PROVE Visible' \subseteq Visible
  BY <1>2, <1>3, <1>6 DEF Sweep, SweepDone, SweepChunk, SweepFails, SweepCheckpoint,
                          storeVars, tables
<1>7. ASSUME Maintain PROVE Visible' \subseteq Visible
  BY <1>2, <1>7 DEF Maintain, PurgeBlacklist, ApplyRetention, PruneRing, MaintainFails,
                    PruneModeratedRing, tables
<1>8. ASSUME Tick \/ Provider \/ Restart \/ UNCHANGED vars \/ \E n \in Num : Enrich(n)
      PROVE  Visible' \subseteq Visible
  BY <1>2, <1>8 DEF Tick, Provider, Restart, vars, Enrich, SetSpotOwner, storeVars, tables
<1> QED
  BY <1>1, <1>4, <1>5, <1>6, <1>7, <1>8 DEF Next

\* What has been honoured stays honoured, up to where the forward sync is reading.
LEMMA HonouredKept ==
  ASSUME TypeOK, TypeOK', [Next]_vars, BackfillBelow, syncStart' = syncStart
  PROVE  \A c \in Num :
           /\ c <= last /\ Honoured(c)
           /\ pc["forward"] = "chunk" => c <= job["forward"].from
           => Honoured(c)'
<1>1. group' = group /\ first' >= first /\ last' >= last
  BY GroupGrows
<1>2. first \in Nat /\ first' \in Nat /\ last \in Nat /\ last' \in Nat /\ Num \subseteq Nat
  BY SpotnetAssumption DEF TypeOK, UsenetTypeOK, Num
<1>3. ASSUME NEW n \in Num, n <= last, OnServer(n)' PROVE OnServer(n)
  BY <1>1, <1>2, <1>3 DEF OnServer
<1> SUFFICES ASSUME NEW c \in Num, c <= last, Honoured(c),
                    pc["forward"] = "chunk" => c <= job["forward"].from,
                    Due(c)', group[c].target \in Visible'
             PROVE  FALSE
  BY <1>1 DEF Honoured
<1>4. PICK t \in Num : t = group[c].target
  BY DEF TypeOK, UsenetTypeOK, Article
<1>5. t < c /\ t <= last /\ t \in Visible' /\ (BackfillEnabled => syncStart <= t)
  <2>1. t < c /\ t \in Visible' /\ (BackfillEnabled => syncStart <= t)
    BY <1>1, <1>4 DEF Due
  <2> QED
    BY <1>2, <2>1
<1>6. t \notin Visible
  <2>1. Entitles(c, t) /\ OnServer(c)' /\ (group[c].key = NoSpotter \/ OnServer(t)')
    BY <1>1, <1>4 DEF Due, Enforceable, Entitles
  <2>2. OnServer(c) /\ (OnServer(t)' => OnServer(t))
    BY <1>3, <1>5, <2>1
  <2> QED
    BY <1>4, <1>5, <2>1, <2>2 DEF Enforceable, Due, Honoured
<1>7. job["forward"].from \in Nat
  BY SpotnetAssumption DEF TypeOK, Job, Worker, Moderating
<1>8. ReadChunk /\ job["forward"].from <= t
  BY <1>5, <1>6, OnlyReadLists
<1>9. c <= job["forward"].from
  BY <1>8 DEF ReadChunk
<1> QED
  BY <1>2, <1>5, <1>7, <1>8, <1>9

\* ValidateDispose, given the true owner, accepts what is due.
LEMMA ValidateComplete ==
  ASSUME TypeOK, NEW c \in Num, Due(c), NEW k,
         group[c].key # NoSpotter => k = group[group[c].target].key
  PROVE  LET cmd == ParseDispose(group[c])
         IN  /\ cmd.verified /\ cmd.target = group[c].target
             /\ cmd.moderator <=> group[c].key = NoSpotter
             /\ cmd.moderator \/ WithinDisposeWindow(cmd, Posted(cmd.target))
             /\ ValidateDispose(cmd, k, Posted(cmd.target))
<1> DEFINE a == group[c]
           t == group[c].target
           cmd == ParseDispose(a)
<1>1. a \in Article /\ t \in Num
  BY DEF TypeOK, UsenetTypeOK, Article
<1>2. a.posted \in Nat /\ group[t].posted \in Nat /\ DisposeMaxAge \in Nat
  BY <1>1, SpotnetAssumption DEF TypeOK, UsenetTypeOK, Article
<1>3. /\ a.keyId = 2 /\ a.sigOK
      /\ \/ a.key = NoSpotter
         \/ /\ a.key = group[t].key
            /\ group[t].posted <= a.posted /\ a.posted <= group[t].posted + DisposeMaxAge
  BY DEF Due, Enforceable, Entitles
<1>4. /\ cmd.verified /\ cmd.target = t /\ cmd.stamp = a.posted /\ cmd.spotter = a.key
      /\ cmd.moderator <=> a.key = NoSpotter
  BY <1>1, <1>3 DEF ParseDispose, Article
<1>5. ASSUME a.key # NoSpotter PROVE WithinDisposeWindow(cmd, Posted(t))
  BY <1>2, <1>3, <1>4, <1>5 DEF WithinDisposeWindow, Posted
<1> HIDE DEF cmd
<1>6. ValidateDispose(cmd, k, Posted(t))
  BY <1>3, <1>4, <1>5 DEF ValidateDispose
<1> QED
  BY <1>4, <1>5, <1>6 DEF cmd

\* The loop of applyModeration passes over a withdrawal that is due only with its target
\* queued or out of sight, or with an error on record.
LEMMA ConsideredRightly ==
  ASSUME TypeOK, Sourced, NEW w \in Moderating, NEW c \in job[w].cmds, Due(c),
         NEW accept \in BOOLEAN, NEW err \in BOOLEAN,
         LET cmd == ParseDispose(group[c])
             t == cmd.target
             key == IF OnServer(t) THEN UserKey(t) ELSE NoSpotter
         IN  \/ /\ NeedsLookup(w, cmd) => job[w].lookupErr
                /\ accept = (Eligible(w, cmd) /\ ValidateDispose(cmd, owner[t], Posted(t)))
             \/ accept = ValidateDispose(cmd, key, Posted(t))
             \/ err
  PROVE  \/ group[c].target \notin Visible
         \/ group[c].target \in job[w].targets
         \/ accept \/ err \/ job[w].lookupErr
<1> DEFINE cmd == ParseDispose(group[c])
           t == group[c].target
           key == IF OnServer(t) THEN UserKey(t) ELSE NoSpotter
<1>1. c \in Num /\ t \in Num
  <2>1. job[w] \in Job
    BY DEF TypeOK, Worker
  <2> QED
    BY <2>1 DEF TypeOK, UsenetTypeOK, Job, Article
<1>2. cmd.verified /\ cmd.target = t
  BY <1>1, ValidateComplete
<1>3. cmd.moderator <=> group[c].key = NoSpotter
  BY <1>1, ValidateComplete
<1>4. cmd.moderator \/ WithinDisposeWindow(cmd, Posted(t))
  BY <1>1, <1>2, ValidateComplete
<1>5. ASSUME NEW k, group[c].key # NoSpotter => k = group[t].key
      PROVE  ValidateDispose(cmd, k, Posted(t))
  BY <1>1, <1>2, <1>5, ValidateComplete
<1>6. \/ /\ NeedsLookup(w, cmd) => job[w].lookupErr
         /\ accept = (Eligible(w, cmd) /\ ValidateDispose(cmd, owner[t], Posted(t)))
      \/ accept = ValidateDispose(cmd, key, Posted(t))
      \/ err
  BY <1>2
<1>7. group[c].key # NoSpotter => key = group[t].key
  BY DEF Due, Enforceable, UserKey
<1> HIDE DEF cmd, key
<1>8. CASE accept = ValidateDispose(cmd, key, Posted(t))
  BY <1>5, <1>7, <1>8
<1>9. CASE /\ NeedsLookup(w, cmd) => job[w].lookupErr
           /\ accept = (Eligible(w, cmd) /\ ValidateDispose(cmd, owner[t], Posted(t)))
  <2>1. SUFFICES ASSUME t \in Visible, t \notin job[w].targets, ~job[w].lookupErr PROVE accept
    OBVIOUS
  <2>2. Eligible(w, cmd)
    BY <1>2, <2>1 DEF Eligible, Visible
  <2>3. group[c].key # NoSpotter => owner[t] # NoSpotter
    BY <1>2, <1>3, <1>4, <1>9, <2>1, <2>2 DEF NeedsLookup
  <2>4. group[c].key # NoSpotter => owner[t] = group[t].key
    BY <1>1, <2>3 DEF Sourced, OwnersTrue
  <2> QED
    BY <1>5, <1>9, <2>2, <2>4
<1> QED
  BY <1>6, <1>8, <1>9

\* The articles of a worker's chunk are within the group, and behind the forward sync's
\* reading.
LEMMA ChunkPlace ==
  ASSUME TypeOK, Places, SweepRoom, NEW w \in Moderating, pc[w] \in InChunk
  PROVE  \A c \in Num : c <= job[w].upto =>
           c <= last /\ (pc["forward"] = "chunk" => c <= job["forward"].from)
<1>1. /\ lastArticle \in Nat /\ last \in Nat /\ Num \subseteq Nat /\ ChunkSize \in Nat \ {0}
      /\ job["forward"] \in Job /\ job["sweep"] \in Job
  BY SpotnetAssumption, SyncAssumption
     DEF TypeOK, UsenetTypeOK, StoreTypeOK, Num, Worker, Moderating
<1>2. /\ job["forward"].from \in Nat /\ job["forward"].upto \in Nat /\ job["forward"].bound \in Nat
      /\ job["sweep"].upto \in Nat /\ job["sweep"].bound \in Nat
  BY <1>1, SpotnetAssumption DEF Job
<1>3. CASE w = "forward"
  <2>1. pc["forward"] # "chunk" /\ job[w].upto = ChunkTo /\ job[w].bound <= last
    BY <1>3 DEF Places, ForwardPlace, InChunk
  <2>2. job["forward"].upto <= job["forward"].bound
    BY <1>1, <1>2, <1>3, <2>1 DEF ChunkTo, AtMost
  <2>3. \A c \in Num : c <= job["forward"].upto => c <= last
    BY <1>1, <1>2, <1>3, <2>1, <2>2
  <2> QED
    BY <1>3, <2>1, <2>3
<1>4. CASE w = "sweep"
  <2>1. /\ job[w].upto <= job[w].bound /\ job[w].bound <= lastArticle /\ lastArticle <= last
        /\ pc["forward"] = "chunk" => lastArticle < job["forward"].from
    BY <1>4 DEF SweepRoom, Places, ForwardPlace
  <2> QED
    BY <1>1, <1>2, <1>4, <2>1
<1> QED
  BY <1>3, <1>4 DEF Moderating

\* applyModeration carries the chunk through: it reaches the checkpoint only with every
\* withdrawal of the chunk in effect that is due.
LEMMA ModerationHandles ==
  ASSUME TypeOK, TypeOK', Places, Sourced, SweepRoom, BackfillBelow,
         [Next]_vars, NEW w \in Moderating, Moderate(w), Handled(w)
  PROVE  Handled(w)'
<1> DEFINE j == job[w]
           t(c) == group[c].target
<1>1. /\ w \in Worker /\ pc \in [Worker -> Labels] /\ job \in [Worker -> Job] /\ j \in Job
      /\ group' = group
  BY DEF TypeOK, Worker, Moderate, usenet
<1>2. pc[w] \in InChunk
  BY ModerationPlace DEF InChunk
<1>3. \A c \in Num : j.from <= c /\ c <= j.upto => Honoured(c) \/ Pending(w, c) \/ j.lookupErr
  BY <1>2 DEF Handled
<1>4. \A c \in Num : c <= j.upto /\ Honoured(c) => Honoured(c)'
  <2>1. syncStart' = syncStart
    BY DEF Moderate
  <2> QED
    BY <1>2, <2>1, ChunkPlace, HonouredKept
<1>5. ASSUME Abandon(w) PROVE Handled(w)'
  <2>1. pc'[w] \in {"wait", "chunk", "failed"} /\ ~job'[w].lookupErr
    BY <1>1, <1>5 DEF Abandon, Goto, SetJob, NoJob
  <2> QED
    BY <2>1 DEF Handled, InChunk
<1>6. ASSUME NEW c \in j.cmds, NEW accept \in BOOLEAN, NEW err \in BOOLEAN,
             Settle(w, c, accept, err), pc[w] = "moderate",
             Due(c) => t(c) \notin Visible \/ t(c) \in j.targets \/ accept \/ err \/ j.lookupErr
      PROVE  Handled(w)'
  <2> DEFINE k == [j EXCEPT !.cmds = @ \ {c},
                            !.targets = IF accept THEN @ \cup {t(c)} ELSE @,
                            !.lookupErr = @ \/ err]
  <2>1. /\ k.from = j.from /\ k.upto = j.upto /\ k.cmds = j.cmds \ {c}
        /\ j.targets \subseteq k.targets /\ (accept => t(c) \in k.targets)
        /\ k.lookupErr = (j.lookupErr \/ err)
    BY <1>1 DEF Job
  <2>2. job' = [job EXCEPT ![w] = k] /\ pc' = pc
    BY <1>6 DEF Settle, SetJob
  <2> HIDE DEF k
  <2>3. job'[w] = k /\ pc'[w] = "moderate"
    BY <1>1, <1>6, <2>2
  <2>4. ASSUME NEW d \in Num, j.from <= d, d <= j.upto
        PROVE  Honoured(d) \/ d \in k.cmds \/ t(d) \in k.targets \/ k.lookupErr
    BY <1>3, <1>6, <2>1, <2>4 DEF Pending, Honoured
  <2>5. \A d \in Num : job'[w].from <= d /\ d <= job'[w].upto =>
          Honoured(d)' \/ d \in job'[w].cmds \/ group'[d].target \in job'[w].targets
          \/ job'[w].lookupErr
    BY <1>1, <1>4, <2>1, <2>3, <2>4
  <2> QED
    BY <2>3, <2>5 DEF Handled, Pending
<1>7. ASSUME Return(w),
             \A c \in Num : j.from <= c /\ c <= j.upto => Honoured(c)' \/ j.lookupErr
      PROVE  Handled(w)'
  <2>1. CASE j.lookupErr
    BY <1>5, <1>7, <2>1 DEF Return
  <2>2. CASE ~j.lookupErr
    <3> DEFINE k == [j EXCEPT !.targets = {}]
    <3>1. k.from = j.from /\ k.upto = j.upto /\ k.lookupErr = j.lookupErr
      BY <1>1 DEF Job
    <3>2. job' = [job EXCEPT ![w] = k] /\ pc' = [pc EXCEPT ![w] = "checkpoint"]
      BY <1>7, <2>2 DEF Return, SetJob, Goto
    <3> HIDE DEF k
    <3>3. job'[w] = k /\ pc'[w] = "checkpoint"
      BY <1>1, <3>2
    <3> QED
      BY <1>7, <2>2, <3>1, <3>3 DEF Handled
  <2> QED
    BY <2>1, <2>2
<1>8. ASSUME NEW c \in j.cmds,
             Judge(w, c) \/ LookupOwner(w, c) \/ LookupFails(w, c) \/ TargetReadFails(w, c)
      PROVE  Handled(w)'
  <2> DEFINE cmd == ParseDispose(group[c])
             key == IF OnServer(cmd.target) THEN UserKey(cmd.target) ELSE NoSpotter
  <2>1. pc[w] = "moderate"
    BY <1>8 DEF Judge, LookupOwner, LookupFails, TargetReadFails, InHand
  <2>2. CASE Judge(w, c)
    <3> DEFINE ok == /\ Eligible(w, cmd)
                     /\ ValidateDispose(cmd, owner[cmd.target], Posted(cmd.target))
    <3>1. ok \in BOOLEAN /\ Settle(w, c, ok, FALSE) /\ (NeedsLookup(w, cmd) => j.lookupErr)
      BY <2>2 DEF Judge
    <3>2. Due(c) => t(c) \notin Visible \/ t(c) \in j.targets \/ ok \/ FALSE \/ j.lookupErr
      BY <3>1, ConsideredRightly
    <3> QED
      BY <1>6, <2>1, <3>1, <3>2
  <2>3. CASE LookupOwner(w, c)
    <3> DEFINE ok == ValidateDispose(cmd, key, Posted(cmd.target))
    <3>1. ok \in BOOLEAN /\ Settle(w, c, ok, FALSE)
      BY <2>3 DEF LookupOwner, ValidateDispose
    <3>2. Due(c) => t(c) \notin Visible \/ t(c) \in j.targets \/ ok \/ FALSE \/ j.lookupErr
      BY <3>1, ConsideredRightly
    <3> QED
      BY <1>6, <2>1, <3>1, <3>2
  <2>4. CASE LookupFails(w, c)
    <3>1. Settle(w, c, FALSE, TRUE)
      BY <2>4 DEF LookupFails
    <3> QED
      BY <1>6, <2>1, <3>1
  <2>5. CASE TargetReadFails(w, c)
    BY <1>5, <2>5 DEF TargetReadFails
  <2> QED
    BY <1>8, <2>2, <2>3, <2>4, <2>5
<1>9. CASE NothingToApply(w)
  <2>1. Return(w) /\ j.cmds = {} /\ j.targets = {}
    BY <1>9 DEF NothingToApply, LoopEnded
  <2>2. \A c \in Num : j.from <= c /\ c <= j.upto => Honoured(c)' \/ j.lookupErr
    BY <1>3, <1>4, <2>1 DEF Pending
  <2> QED
    BY <1>7, <2>1, <2>2
<1>10. ASSUME j.cmds = {}, pc[w] = "moderate", j.targets \cap Visible' = {}
       PROVE  \A c \in Num : j.from <= c /\ c <= j.upto => Honoured(c)' \/ j.lookupErr
  BY <1>1, <1>3, <1>4, <1>10 DEF Pending, Honoured
<1>11. CASE ApplyMark(w)
  <2>1. Return(w) /\ j.cmds = {} /\ pc[w] = "moderate" /\ MarkModerated(j.targets, now)
    BY <1>11 DEF ApplyMark, LoopEnded
  <2>2. j.targets \cap Visible' = {}
    BY <2>1 DEF MarkModerated, Visible
  <2> QED
    BY <1>7, <1>10, <2>1, <2>2
<1>12. CASE ApplyDelete(w)
  <2>1. /\ j.cmds = {} /\ pc[w] = "moderate" /\ DeleteRows(j.targets) /\ job' = job
        /\ pc'[w] = "ring"
    BY <1>1, <1>12 DEF ApplyDelete, LoopEnded, DeleteSpotsByMessageID, Goto
  <2>2. j.targets \cap Visible' = {}
    BY <2>1 DEF DeleteRows, Visible
  <2>3. \A c \in Num : j.from <= c /\ c <= j.upto => Honoured(c)' \/ j.lookupErr
    BY <1>10, <2>1, <2>2
  <2> QED
    BY <2>1, <2>3 DEF Handled
<1>13. CASE RecordDeleted(w)
  <2>1. Return(w) /\ pc[w] = "ring"
    BY <1>13 DEF RecordDeleted
  <2>2. \A c \in Num : j.from <= c /\ c <= j.upto => Honoured(c)' \/ j.lookupErr
    BY <1>3, <1>4, <2>1 DEF Pending
  <2> QED
    BY <1>7, <2>1, <2>2
<1>14. CASE ApplyFails(w)
  BY <1>5, <1>14 DEF ApplyFails
<1> QED
  BY <1>8, <1>9, <1>11, <1>12, <1>13, <1>14 DEF Moderate, ApplyModeration

-----------------------------------------------------------------------------
(* Each worker's steps keep NoHole.                                        *)

\* What a step leaves alone stays as it is: a chunk in hand, and the stretches behind the
\* workers.
LEMMA HoleKept ==
  ASSUME TypeOK, TypeOK', Places, BackfillBelow, NoHole, [Next]_vars
  PROVE  /\ \A c \in Num : c <= lastArticle /\ Honoured(c) => Honoured(c)'
         /\ \A w \in Moderating :
              pc'[w] = pc[w] /\ job'[w] = job[w] /\ Handled(w) => Handled(w)'
         /\ /\ pc'["forward"] \in {"chunk"} \cup InChunk =>
                 /\ pc["forward"] \in {"chunk"} \cup InChunk
                 /\ job'["forward"].from = job["forward"].from
            /\ UNCHANGED <<mode, syncStart, lastArticle>>
            => ForwardPast'
         /\ /\ pc'["sweep"] \in InChunk =>
                 /\ pc["sweep"] \in InChunk
                 /\ job'["sweep"].from = job["sweep"].from
                 /\ job'["sweep"].bound = job["sweep"].bound
            /\ pc'["sweep"] = "done" => pc["sweep"] = "done"
            /\ UNCHANGED <<syncStart, lastArticle, sweepArticle>>
            => SweepPast'
<1>1. /\ lastArticle \in Nat /\ sweepArticle \in Nat /\ last \in Nat /\ Num \subseteq Nat
      /\ job["forward"] \in Job /\ group' = group
  <2>1. group' = group
    BY GroupGrows
  <2> QED
    BY <2>1, SpotnetAssumption DEF TypeOK, UsenetTypeOK, StoreTypeOK, Num, Worker, Moderating
<1>2. job["forward"].from \in Nat /\ job["forward"].bound \in Nat
  BY <1>1, SpotnetAssumption DEF Job
<1>3. /\ syncStart' = syncStart =>
           \A c \in Num :
             c <= last /\ Honoured(c) /\ (pc["forward"] = "chunk" => c <= job["forward"].from)
             => Honoured(c)'
      /\ lastArticle <= last
      /\ pc["forward"] \in {"chunk"} \cup InChunk =>
           lastArticle < job["forward"].from /\ job["forward"].from <= last
      /\ sweepArticle <= lastArticle
  <2>1. /\ lastArticle <= last /\ sweepArticle <= lastArticle
        /\ pc["forward"] \in {"chunk"} \cup InChunk =>
             /\ lastArticle < job["forward"].from
             /\ job["forward"].from <= job["forward"].bound /\ job["forward"].bound <= last
    BY DEF Places, ForwardPlace, NoHole, SweepRoom
  <2> QED
    BY <1>1, <1>2, <2>1, HonouredKept DEF NoHole
<1>4. \A c \in Num : c <= lastArticle /\ Honoured(c) => Honoured(c)'
  <2>1. ASSUME NEW c \in Num, c <= lastArticle
        PROVE  c <= last /\ (pc["forward"] = "chunk" => c <= job["forward"].from)
    BY <1>1, <1>2, <1>3, <2>1
  <2>2. lastArticle = 0 => \A c \in Num : ~(c <= lastArticle)
    BY SpotnetAssumption DEF Num
  <2> QED
    BY <1>3, <2>1, <2>2, StartSettled
<1>5. ASSUME NEW w \in Moderating, pc'[w] = pc[w], job'[w] = job[w], Handled(w)
      PROVE  Handled(w)'
  <2>1. ASSUME NEW c \in Num, pc[w] \in InChunk, c <= job[w].upto, Honoured(c) PROVE Honoured(c)'
    <3>1. SweepRoom
      BY DEF NoHole
    <3>2. CASE syncStart' = syncStart
      <4>1. c <= last /\ (pc["forward"] = "chunk" => c <= job["forward"].from)
        BY <2>1, <3>1, ChunkPlace
      <4> QED
        BY <1>3, <2>1, <3>2, <4>1
    <3>3. CASE BeginPass
      <4>1. w = "sweep"
        BY <2>1, <3>3 DEF BeginPass, InChunk, Moderating
      <4>2. job["sweep"].upto \in Nat /\ job["sweep"].bound \in Nat
        BY SpotnetAssumption DEF TypeOK, Job, Worker, Moderating
      <4>3. c <= lastArticle
        BY <1>1, <2>1, <3>1, <4>1, <4>2 DEF SweepRoom
      <4> QED
        BY <1>4, <2>1, <4>3
    <3> QED
      BY <3>2, <3>3, StartSettled
  <2>2. \A c \in Num : Pending(w, c) => Pending(w, c)'
    BY <1>1, <1>5 DEF Pending
  <2> QED
    BY <1>5, <2>1, <2>2 DEF Handled
<1>6. ASSUME pc'["forward"] \in {"chunk"} \cup InChunk =>
               /\ pc["forward"] \in {"chunk"} \cup InChunk
               /\ job'["forward"].from = job["forward"].from,
             UNCHANGED <<mode, syncStart, lastArticle>>
      PROVE  ForwardPast'
  <2>1. SUFFICES ASSUME mode # "off", pc'["forward"] \in {"chunk"} \cup InChunk, NEW c \in Num,
                        syncStart <= c, lastArticle < c, c < job["forward"].from
                 PROVE  Honoured(c)'
    BY <1>6 DEF ForwardPast
  <2>2. Honoured(c)
    BY <1>6, <2>1 DEF NoHole, ForwardPast
  <2>3. c <= last /\ c <= job["forward"].from
    BY <1>1, <1>2, <1>3, <1>6, <2>1
  <2> QED
    BY <1>3, <1>6, <2>2, <2>3
<1>7. ASSUME pc'["sweep"] \in InChunk =>
               /\ pc["sweep"] \in InChunk
               /\ job'["sweep"].from = job["sweep"].from
               /\ job'["sweep"].bound = job["sweep"].bound,
             pc'["sweep"] = "done" => pc["sweep"] = "done",
             UNCHANGED <<syncStart, lastArticle, sweepArticle>>
      PROVE  SweepPast'
  <2>1. \A c \in Num : c <= sweepArticle => c <= lastArticle
    BY <1>1, <1>3
  <2> QED
    BY <1>4, <1>7, <2>1 DEF NoHole, SweepPast
<1> QED
  BY <1>4, <1>5, <1>6, <1>7

\* An article that is due is among the withdrawals an overview of its range gives.
LEMMA DueIsRead ==
  ASSUME TypeOK, NEW from, NEW to, NEW c \in Num, from <= c, c <= to, Due(c)
  PROVE  /\ c \in Overview(from, to) /\ group[c].kind = "dispose"
         /\ ParseDispose(group[c]).verified
<1>1. OnServer(c) /\ group[c].kind = "dispose"
  BY DEF Due, Enforceable, Entitles
<1>2. ParseDispose(group[c]).verified
  BY ValidateComplete
<1> QED
  BY <1>1, <1>2 DEF Overview

\* The forward sync leaves the other workers' locals and their watermarks alone.
LEMMA ForwardAlone ==
  ASSUME TypeOK, Forward
  PROVE  /\ \A v \in {"sweep", "backfill"} : pc'[v] = pc[v] /\ job'[v] = job[v]
         /\ UNCHANGED <<mode, sweepArticle, usenet>>
<1>1. pc \in [Worker -> Labels] /\ job \in [Worker -> Job] /\ "forward" \in Moderating
  BY DEF TypeOK, Moderating
<1>2. CASE Moderate("forward")
  BY <1>1, <1>2, ModerationPlace DEF Worker, Moderating, Moderate, syncState
<1>3. CASE BeginPass \/ ReadChunk \/ ReadChunkFails \/ Checkpoint
  <2>1. (\E l : Goto("forward", l)) /\ (\E j : SetJob("forward", j))
    BY <1>3 DEF BeginPass, ReadChunk, ReadChunkFails, Checkpoint, Abandon
  <2>2. UNCHANGED <<mode, sweepArticle, usenet>>
    BY <1>3 DEF BeginPass, ReadChunk, ReadChunkFails, Checkpoint, SetSyncState, context,
                storeVars, syncState
  <2> QED
    BY <1>1, <2>1, <2>2 DEF Goto, SetJob, Worker, Moderating
<1> QED
  BY <1>2, <1>3 DEF Forward

\* A pass of the forward sync that reaches its checkpoint has honoured what it read, so
\* raising the watermark leaves no hole above what the sweep saw.
LEMMA ForwardNoHole ==
  ASSUME TypeOK, TypeOK', Places, Sourced, BackfillBelow, NoHole, Forward
  PROVE  NoHole'
<1>1. /\ lastArticle \in Nat /\ sweepArticle \in Nat /\ last \in Nat /\ Num \subseteq Nat
      /\ pc \in [Worker -> Labels] /\ job \in [Worker -> Job] /\ job["forward"] \in Job
      /\ job["sweep"] \in Job /\ "forward" \in Worker /\ "forward" \in Moderating
      /\ "sweep" \in Moderating /\ ChunkSize \in Nat \ {0} /\ \A c \in Num : c >= 1
  BY SpotnetAssumption, SyncAssumption
     DEF TypeOK, UsenetTypeOK, StoreTypeOK, Num, Worker, Moderating
<1>2. /\ job["forward"].from \in Nat /\ job["forward"].upto \in Nat
      /\ job["forward"].bound \in Nat /\ job["forward"].lastNum \in Nat
      /\ job["sweep"].bound \in Nat /\ job["sweep"].from \in Nat
  BY <1>1, SpotnetAssumption DEF Job
<1>3. /\ \A v \in {"sweep", "backfill"} : pc'[v] = pc[v] /\ job'[v] = job[v]
      /\ UNCHANGED <<mode, sweepArticle, usenet>>
  BY ForwardAlone
<1>4. [Next]_vars
  BY DEF Next
<1>5. SweepRoom /\ Handled("sweep")
      /\ ForwardPast /\ SweepPast /\ (mode # "off" => Handled("forward"))
  BY DEF NoHole
<1>6. Handled("sweep")'
  BY <1>1, <1>3, <1>4, <1>5, HoleKept
<1>7. ASSUME lastArticle' = lastArticle, mode # "off" => Handled("forward")',
             ForwardPast', SweepPast'
      PROVE  NoHole'
  BY <1>3, <1>5, <1>6, <1>7 DEF NoHole, SweepRoom
<1>8. ASSUME UNCHANGED <<lastArticle, syncStart>> PROVE SweepPast'
  BY <1>3, <1>4, <1>8, HoleKept
<1>9. ASSUME UNCHANGED <<lastArticle, syncStart>>,
             pc'["forward"] \in {"chunk"} \cup InChunk =>
               /\ pc["forward"] \in {"chunk"} \cup InChunk
               /\ job'["forward"].from = job["forward"].from
      PROVE  ForwardPast'
  BY <1>3, <1>4, <1>9, HoleKept
<1>10. CASE BeginPass
  <2> DEFINE from == IF lastArticle = 0
                     THEN AtLeast(IF last > SyncLookback THEN last - SyncLookback ELSE 0, first)
                     ELSE lastArticle + 1
             j == [NoJob EXCEPT !.from = from, !.bound = last]
  <2>1. /\ Goto("forward", "chunk") /\ SetJob("forward", j) /\ lastArticle' = lastArticle
        /\ syncStart' = IF lastArticle = 0 THEN from ELSE syncStart
    BY <1>10 DEF BeginPass, storeVars, syncState
  <2>2. j.from = from /\ ~j.lookupErr
    BY DEF NoJob
  <2>3. lastArticle # 0 => from = lastArticle + 1
    OBVIOUS
  <2>4. lastArticle = 0 => from \in Nat
    BY <1>1, SyncAssumption, SpotnetAssumption DEF AtLeast, TypeOK, UsenetTypeOK
  <2> HIDE DEF from, j
  <2>5. pc'["forward"] = "chunk" /\ job'["forward"] = j
    BY <1>1, <2>1 DEF Goto, SetJob
  <2>6. Handled("forward")'
    BY <2>2, <2>5 DEF Handled, InChunk
  <2>7. ASSUME NEW c \in Num, syncStart' <= c, lastArticle < c, c < from PROVE FALSE
    BY <1>1, <2>1, <2>3, <2>4, <2>7
  <2>8. ForwardPast'
    BY <2>1, <2>2, <2>5, <2>7 DEF ForwardPast
  <2>9. SweepPast'
    <3>1. CASE lastArticle # 0
      BY <1>8, <2>1, <3>1
    <3>2. CASE lastArticle = 0
      <4>1. \A c \in Num : ~(c <= lastArticle') /\ ~(c <= sweepArticle')
        BY <1>1, <1>3, <1>5, <2>1, <3>2 DEF SweepRoom
      <4> QED
        BY <4>1 DEF SweepPast
    <3> QED
      BY <3>1, <3>2
  <2> QED
    BY <1>7, <2>1, <2>6, <2>8, <2>9
<1>11. CASE ReadChunk
  <2> DEFINE batch == Overview(job["forward"].from, ChunkTo)
             num == IF batch = {} THEN 0 ELSE MaxOf(batch)
             j == [job["forward"] EXCEPT !.upto = ChunkTo, !.lastNum = num,
                                         !.cmds = Disposes(batch)]
             l == IF Disposes(batch) = {} THEN "checkpoint" ELSE "moderate"
  <2>1. /\ pc["forward"] = "chunk" /\ Goto("forward", l) /\ SetJob("forward", j)
        /\ UNCHANGED <<syncState, syncStart>>
    BY <1>11 DEF ReadChunk
  <2>2. /\ j.from = job["forward"].from /\ j.upto = ChunkTo /\ j.cmds = Disposes(batch)
        /\ j.lookupErr = job["forward"].lookupErr
    BY <1>1 DEF Job
  <2>3. ASSUME mode # "off", NEW c \in Num, job["forward"].from <= c, c <= ChunkTo, Due(c)
        PROVE  c \in Disposes(batch)
    BY <2>3, DueIsRead DEF Disposes
  <2> HIDE DEF num, batch, j
  <2>4. pc'["forward"] = l /\ job'["forward"] = j
    BY <1>1, <2>1 DEF Goto, SetJob
  <2>5. ASSUME mode # "off" PROVE Handled("forward")'
    <3>1. ~j.lookupErr
      BY <1>5, <2>1, <2>2, <2>5 DEF Handled
    <3>2. ASSUME NEW c \in Num, j.from <= c, c <= j.upto
          PROVE  Honoured(c)' \/ (l = "moderate" /\ c \in j.cmds)
      <4>1. CASE ~Due(c)
        <5>1. Due(c)' <=> Due(c)
          BY <1>3, <2>1 DEF Due, Enforceable, Entitles, OnServer, usenet
        <5> QED
          BY <4>1, <5>1 DEF Honoured
      <4>2. CASE Due(c)
        BY <2>2, <2>3, <2>5, <3>2, <4>2
      <4> QED
        BY <4>1, <4>2
    <3> QED
      BY <2>4, <3>1, <3>2 DEF Handled, Pending
  <2>6. ForwardPast' /\ SweepPast'
    BY <1>8, <1>9, <2>1, <2>2, <2>4 DEF syncState
  <2> QED
    BY <1>7, <2>1, <2>5, <2>6 DEF syncState
<1>12. CASE ReadChunkFails
  <2>1. /\ pc'["forward"] = "wait" /\ UNCHANGED <<lastArticle, syncStart>>
    BY <1>1, <1>12 DEF ReadChunkFails, Abandon, Goto, storeVars, syncState
  <2>2. Handled("forward")' /\ ForwardPast' /\ SweepPast'
    BY <1>8, <1>9, <2>1 DEF Handled, InChunk
  <2> QED
    BY <1>7, <2>1, <2>2
<1>13. CASE Moderate("forward")
  <2>1. /\ pc["forward"] \in InChunk /\ UNCHANGED <<lastArticle, syncStart>>
        /\ \/ job'["forward"].from = job["forward"].from
           \/ pc'["forward"] = "wait"
    BY <1>1, <1>13, ModerationPlace DEF InChunk, syncState
  <2>2. mode # "off" => Handled("forward")'
    BY <1>1, <1>4, <1>5, <1>13, ModerationHandles
  <2>3. ForwardPast' /\ SweepPast'
    BY <1>8, <1>9, <2>1 DEF InChunk
  <2> QED
    BY <1>7, <2>1, <2>2, <2>3
<1>14. CASE Checkpoint
  <2> DEFINE j == job["forward"]
             next == j.from + ChunkSize
             k == [NoJob EXCEPT !.from = next, !.bound = j.bound]
  <2>1. /\ pc["forward"] = "checkpoint" /\ syncStart' = syncStart
        /\ lastArticle' = lastArticle \/ (j.lastNum # 0 /\ lastArticle' = j.lastNum)
    BY <1>14 DEF Checkpoint, SetSyncState, syncState
  <2>2. /\ lastArticle < j.from /\ j.from <= j.bound /\ j.bound <= last
        /\ j.upto = AtMost(j.from + ChunkSize - 1, j.bound)
        /\ j.lastNum = 0 \/ (j.from <= j.lastNum /\ j.lastNum <= j.upto)
    BY <2>1 DEF Places, ForwardPlace, InChunk, ChunkTo
  <2>3. /\ lastArticle <= lastArticle' /\ (lastArticle' <= j.upto \/ lastArticle' = lastArticle)
        /\ lastArticle' \in Nat /\ j.upto <= last /\ (next <= j.bound => next = j.upto + 1)
    BY <1>1, <1>2, <2>1, <2>2 DEF AtMost
  <2>4. ASSUME mode # "off", NEW c \in Num, syncStart <= c, lastArticle < c, c <= j.upto
        PROVE  Honoured(c)'
    <3>1. Honoured(c)
      <4>1. CASE c < j.from
        BY <1>5, <2>1, <2>4, <4>1 DEF ForwardPast, InChunk
      <4>2. CASE j.from <= c
        BY <1>5, <2>1, <2>4, <4>2 DEF Handled, Pending, InChunk
      <4> QED
        BY <1>1, <1>2, <4>1, <4>2
    <3>2. c <= last
      BY <1>1, <1>2, <2>3, <2>4
    <3> QED
      BY <1>4, <1>5, <2>1, <3>1, <3>2, HonouredKept
  <2>5. SweepRoom'
    <3>1. \A x \in Nat : x <= lastArticle => x <= lastArticle'
      BY <1>1, <2>3
    <3> QED
      BY <1>1, <1>2, <1>3, <1>5, <3>1 DEF SweepRoom
  <2>6. SweepPast'
    <3>1. ASSUME NEW c \in Num, mode # "off", syncStart <= c, c <= lastArticle',
                 c <= lastArticle => Honoured(c)
          PROVE  Honoured(c)'
      <4>1. CASE c <= lastArticle
        BY <1>4, <3>1, <4>1, HoleKept
      <4>2. CASE ~(c <= lastArticle)
        <5>1. lastArticle < c /\ c <= j.upto
          BY <1>1, <1>2, <2>3, <3>1, <4>2
        <5> QED
          BY <2>4, <3>1, <5>1
      <4> QED
        BY <4>1, <4>2
    <3>2. ASSUME NEW c \in Num, syncStart <= c, c <= sweepArticle PROVE Honoured(c)'
      <4>1. c <= lastArticle
        BY <1>1, <1>5, <3>2 DEF SweepRoom
      <4> QED
        BY <1>4, <1>5, <3>2, <4>1, HoleKept DEF SweepPast
    <3>3. pc["sweep"] \in {"done"} \cup InChunk => mode # "off"
      BY <1>5 DEF SweepRoom, InChunk
    <3> QED
      BY <1>3, <1>5, <2>1, <3>1, <3>2, <3>3 DEF SweepPast
  <2>7. (mode # "off" => Handled("forward")') /\ ForwardPast'
    <3>1. CASE next <= j.bound
      <4>1. Goto("forward", "chunk") /\ SetJob("forward", k)
        BY <1>14, <3>1 DEF Checkpoint
      <4>2. k.from = next /\ ~k.lookupErr
        BY DEF NoJob
      <4> HIDE DEF k, next
      <4>3. pc'["forward"] = "chunk" /\ job'["forward"] = k
        BY <1>1, <4>1 DEF Goto, SetJob
      <4>4. \A c \in Num : lastArticle' < c /\ c < next => lastArticle < c /\ c <= j.upto
        BY <1>1, <1>2, <2>3, <3>1
      <4> QED
        BY <1>3, <2>1, <2>4, <4>2, <4>3, <4>4 DEF Handled, ForwardPast, InChunk
    <3>2. CASE ~(next <= j.bound)
      <4>1. pc'["forward"] = "wait"
        BY <1>1, <1>14, <3>2 DEF Checkpoint, Goto
      <4> QED
        BY <4>1 DEF Handled, ForwardPast, InChunk
    <3> QED
      BY <3>1, <3>2
  <2> QED
    BY <1>3, <1>5, <1>6, <2>5, <2>6, <2>7 DEF NoHole
<1> QED
  BY <1>10, <1>11, <1>12, <1>13, <1>14 DEF Forward

\* The sweep leaves the forward sync's locals and its watermark alone.
LEMMA SweepAlone ==
  ASSUME TypeOK, Sweep
  PROVE  /\ \A v \in {"forward", "backfill"} : pc'[v] = pc[v] /\ job'[v] = job[v]
         /\ UNCHANGED <<mode, lastArticle, syncStart, usenet>>
<1>1. pc \in [Worker -> Labels] /\ job \in [Worker -> Job] /\ "sweep" \in Moderating
  BY DEF TypeOK, Moderating
<1>2. CASE Moderate("sweep")
  BY <1>1, <1>2, ModerationPlace DEF Worker, Moderating, Moderate, syncState
<1>3. CASE SweepDone \/ SweepChunk \/ SweepFails \/ SweepCheckpoint
  <2>1. (\E l : Goto("sweep", l)) /\ (UNCHANGED job \/ \E j : SetJob("sweep", j))
    BY <1>3 DEF SweepDone, SweepChunk, SweepFails, SweepCheckpoint, Abandon
  <2>2. UNCHANGED <<mode, lastArticle, syncStart, usenet>>
    BY <1>3 DEF SweepDone, SweepChunk, SweepFails, SweepCheckpoint, SetDisposeSweepState,
                context, storeVars, syncState
  <2> QED
    BY <1>1, <2>1, <2>2 DEF Goto, SetJob, Worker, Moderating
<1> QED
  BY <1>2, <1>3 DEF Sweep

\* Nothing is left to do below the sweep's position: either its watermark says so, or the
\* oldest row is above it, and with it every spot that could be withdrawn.
LEMMA BelowPosition ==
  ASSUME TypeOK, NoHole
  PROVE  \A c \in Num : syncStart <= c /\ c <= lastArticle /\ c <= SweepPos => Honoured(c)
<1>1. spots \in SUBSET Nat /\ Num \subseteq Nat
  BY SpotnetAssumption DEF TypeOK, StoreTypeOK, Num
<1>2. CASE sweepArticle # 0
  BY <1>2 DEF SweepPos, NoHole, SweepPast
<1>3. CASE spots = {}
  BY <1>3 DEF Honoured, Visible
<1>4. CASE sweepArticle = 0 /\ spots # {}
  <2>1. MinOf(spots) \in Nat /\ \A t \in spots : MinOf(spots) <= t
    BY <1>1, <1>4, MinOfIsLeast
  <2>2. SweepPos = MinOf(spots) - 1
    BY <1>4 DEF SweepPos
  <2>3. ASSUME NEW c \in Num, c <= SweepPos, NEW t \in spots, t < c PROVE FALSE
    BY <1>1, <2>1, <2>2, <2>3
  <2> QED
    BY <2>3 DEF Honoured, Due, Visible
<1> QED
  BY <1>2, <1>3, <1>4

\* The sweep writes its watermark, and calls itself done, only over what is honoured.
LEMMA SweepNoHole ==
  ASSUME TypeOK, TypeOK', Places, Sourced, BackfillBelow, NoHole, Sweep
  PROVE  NoHole'
<1>1. /\ lastArticle \in Nat /\ sweepArticle \in Nat /\ Num \subseteq Nat
      /\ pc \in [Worker -> Labels] /\ job \in [Worker -> Job] /\ job["sweep"] \in Job
      /\ "sweep" \in Worker /\ "forward" \in Moderating /\ "sweep" \in Moderating
      /\ ChunkSize \in Nat \ {0}
  BY SpotnetAssumption, SyncAssumption
     DEF TypeOK, UsenetTypeOK, StoreTypeOK, Num, Worker, Moderating
<1>2. /\ job["sweep"].from \in Nat /\ job["sweep"].upto \in Nat /\ job["sweep"].bound \in Nat
  BY <1>1, SpotnetAssumption DEF Job
<1>3. /\ \A v \in {"forward", "backfill"} : pc'[v] = pc[v] /\ job'[v] = job[v]
      /\ UNCHANGED <<mode, lastArticle, syncStart, usenet>>
  BY SweepAlone
<1>4. [Next]_vars
  BY DEF Next
<1>5. SweepRoom /\ Handled("sweep") /\ SweepPast
  BY DEF NoHole
<1>6. (mode # "off" => Handled("forward")') /\ ForwardPast'
  BY <1>1, <1>3, <1>4, HoleKept DEF NoHole
<1>7. mode # "off"
  <2>1. pc["sweep"] # "disabled"
    BY <1>1, ModerationPlace DEF Sweep, SweepDone, SweepChunk, SweepFails, SweepCheckpoint
  <2> QED
    BY <1>5, <2>1 DEF SweepRoom
<1>8. \A c \in Num : c <= lastArticle /\ Honoured(c) => Honoured(c)'
  BY <1>4, HoleKept
<1>9. ASSUME Handled("sweep")', SweepPast', sweepArticle' <= lastArticle,
             pc'["sweep"] \in InChunk =>
               job'["sweep"].upto <= job'["sweep"].bound /\ job'["sweep"].bound <= lastArticle
      PROVE  NoHole'
  BY <1>3, <1>5, <1>6, <1>7, <1>9 DEF NoHole, SweepRoom
<1>10. ASSUME sweepArticle' = sweepArticle PROVE sweepArticle' <= lastArticle
  BY <1>5, <1>10 DEF SweepRoom
<1>11. ASSUME NEW c \in Num, syncStart <= c, c <= sweepArticle PROVE Honoured(c)'
  <2>1. c <= lastArticle
    BY <1>1, <1>5, <1>11 DEF SweepRoom
  <2> QED
    BY <1>5, <1>8, <1>11, <2>1 DEF SweepPast
<1>12. CASE SweepDone
  <2>1. pc'["sweep"] = "done" /\ sweepArticle' = sweepArticle /\ SweepPos >= lastArticle
    BY <1>1, <1>12 DEF SweepDone, NothingToSweep, Goto, storeVars, syncState
  <2>2. SweepPos \in Nat
    BY SweepPosition, TypeParts, SpotnetAssumption
  <2>3. \A c \in Num : c <= lastArticle => c <= SweepPos
    BY <1>1, <2>1, <2>2
  <2>4. \A c \in Num : syncStart <= c /\ c <= lastArticle => Honoured(c)'
    BY <1>8, <2>3, BelowPosition
  <2>5. SweepPast'
    BY <1>3, <1>11, <2>1, <2>4 DEF SweepPast, InChunk
  <2> QED
    BY <1>9, <1>10, <2>1, <2>5 DEF Handled, InChunk
<1>13. CASE SweepChunk
  <2> DEFINE batch == Overview(SweepPos + 1, SweepTo)
             j == [NoJob EXCEPT !.from = SweepPos + 1, !.upto = SweepTo, !.bound = lastArticle,
                                !.cmds = {n \in batch : group[n].kind = "dispose"}]
  <2>1. /\ Goto("sweep", "moderate") /\ SetJob("sweep", j) /\ sweepArticle' = sweepArticle
        /\ ~(SweepPos >= lastArticle)
    BY <1>13 DEF SweepChunk, NothingToSweep, storeVars, syncState
  <2>2. /\ j.from = SweepPos + 1 /\ j.upto = SweepTo /\ j.bound = lastArticle
        /\ j.cmds = {n \in batch : group[n].kind = "dispose"}
    BY DEF NoJob
  <2>3. SweepPos \in Nat
    BY SweepPosition, TypeParts, SpotnetAssumption
  <2>4. SweepTo <= lastArticle
    BY <1>1, <2>3 DEF SweepTo, AtMost
  <2>5. ASSUME NEW c \in Num, SweepPos + 1 <= c, c <= SweepTo PROVE Honoured(c)' \/ c \in j.cmds
    <3>1. Due(c)' <=> Due(c)
      BY <1>3 DEF Due, Enforceable, Entitles, OnServer, usenet
    <3>2. Due(c) => c \in j.cmds
      BY <2>2, <2>5, DueIsRead
    <3> QED
      BY <3>1, <3>2 DEF Honoured
  <2> HIDE DEF j, batch
  <2>6. pc'["sweep"] = "moderate" /\ job'["sweep"] = j
    BY <1>1, <2>1 DEF Goto, SetJob
  <2>7. Handled("sweep")'
    BY <2>2, <2>5, <2>6 DEF Handled, Pending
  <2>8. \A c \in Num : c < SweepPos + 1 => c <= SweepPos
    BY <1>1, <2>3
  <2>9. \A c \in Num : c <= lastArticle => ~(lastArticle < c)
    BY <1>1
  <2>10. SweepPast'
    BY <1>3, <1>8, <1>11, <2>1, <2>2, <2>6, <2>8, <2>9, BelowPosition DEF SweepPast
  <2> QED
    BY <1>1, <1>9, <1>10, <2>1, <2>2, <2>4, <2>6, <2>7, <2>10
<1>14. CASE SweepFails
  <2>1. /\ pc'["sweep"] \in {"chunk", "failed"} /\ job'["sweep"] = NoJob
        /\ sweepArticle' = sweepArticle
    BY <1>1, <1>14 DEF SweepFails, Abandon, Goto, SetJob, storeVars, syncState
  <2>2. Handled("sweep")'
    BY <2>1 DEF Handled, InChunk, NoJob
  <2>3. SweepPast'
    BY <1>3, <1>11, <2>1 DEF SweepPast, InChunk
  <2> QED
    BY <1>9, <1>10, <2>1, <2>2, <2>3 DEF InChunk
<1>15. CASE Moderate("sweep")
  <2>1. /\ pc["sweep"] \in InChunk /\ sweepArticle' = sweepArticle
        /\ \/ /\ job'["sweep"].from = job["sweep"].from
              /\ job'["sweep"].upto = job["sweep"].upto
              /\ job'["sweep"].bound = job["sweep"].bound
              /\ pc'["sweep"] \in InChunk
           \/ pc'["sweep"] \in {"wait", "chunk", "failed"}
    BY <1>1, <1>15, ModerationPlace DEF InChunk, syncState
  <2>2. Handled("sweep")'
    BY <1>1, <1>4, <1>5, <1>15, ModerationHandles
  <2>3. SweepPast'
    BY <1>3, <1>4, <2>1, HoleKept DEF InChunk
  <2> QED
    BY <1>5, <1>9, <1>10, <2>1, <2>2, <2>3 DEF SweepRoom, InChunk
<1>16. CASE SweepCheckpoint
  <2> DEFINE j == job["sweep"]
  <2>1. /\ pc["sweep"] = "checkpoint" /\ sweepArticle' = j.upto /\ job'["sweep"] = NoJob
        /\ pc'["sweep"] = IF j.upto >= j.bound THEN "done" ELSE "chunk"
    BY <1>1, <1>16 DEF SweepCheckpoint, SetDisposeSweepState, Goto, SetJob
  <2>2. j.upto <= j.bound /\ j.bound <= lastArticle /\ j.upto <= lastArticle
    BY <1>1, <1>2, <1>5, <2>1 DEF SweepRoom, InChunk
  <2>3. ASSUME NEW c \in Num, syncStart <= c, c <= lastArticle, c <= j.upto \/ j.bound < c
        PROVE  Honoured(c)'
    <3>1. CASE c < j.from \/ j.bound < c
      BY <1>5, <1>8, <2>1, <2>3, <3>1 DEF SweepPast, InChunk
    <3>2. CASE j.from <= c /\ c <= j.upto
      BY <1>5, <1>8, <2>1, <2>3, <3>2 DEF Handled, Pending, InChunk
    <3> QED
      BY <1>1, <1>2, <2>3, <3>1, <3>2
  <2>4. \A c \in Num : c <= j.upto => c <= lastArticle
    BY <1>1, <1>2, <2>2
  <2>5. j.upto >= j.bound => \A c \in Num : c <= j.upto \/ j.bound < c
    BY <1>1, <1>2
  <2>6. SweepPast'
    BY <1>3, <2>1, <2>3, <2>4, <2>5 DEF SweepPast, InChunk
  <2>7. Handled("sweep")'
    BY <2>1 DEF Handled, InChunk, NoJob
  <2> QED
    BY <1>9, <2>1, <2>2, <2>6, <2>7 DEF InChunk
<1> QED
  BY <1>12, <1>13, <1>14, <1>15, <1>16 DEF Sweep

\* Nobody else moves what they rely on; after a restart the sweep is not done.
LEMMA OtherNoHole ==
  ASSUME TypeOK, TypeOK', Places, BackfillBelow, NoHole, [Next]_vars, ~Forward, ~Sweep
  PROVE  NoHole'
<1>1. /\ pc \in [Worker -> Labels] /\ job \in [Worker -> Job]
      /\ "forward" \in Moderating /\ "sweep" \in Moderating
      /\ \A w \in Moderating : w \in Worker
  BY DEF TypeOK, Worker, Moderating
<1>2. UNCHANGED <<lastArticle, sweepArticle>>
  BY OnlyCheckpoints DEF Forward, Sweep, syncState
<1>3. ASSUME UNCHANGED <<mode, syncStart>>,
             \A v \in Moderating : pc'[v] = pc[v] /\ job'[v] = job[v]
      PROVE  NoHole'
  <2>1. /\ mode # "off" => Handled("forward")'
        /\ Handled("sweep")' /\ ForwardPast' /\ SweepPast'
    BY <1>1, <1>2, <1>3, HoleKept DEF NoHole
  <2>2. SweepRoom'
    BY <1>1, <1>2, <1>3 DEF NoHole, SweepRoom
  <2> QED
    BY <1>3, <2>1, <2>2 DEF NoHole
<1>4. CASE Restart
  <2>1. /\ pc'["forward"] = "wait"
        /\ pc'["sweep"] = (IF mode' = "off" THEN "disabled" ELSE "chunk")
        /\ job'["forward"] = NoJob /\ job'["sweep"] = NoJob /\ syncStart' = syncStart
    BY <1>4 DEF Restart, StartPC, Worker, Moderating
  <2>2. Handled("forward")' /\ Handled("sweep")'
    BY <2>1 DEF Handled, InChunk, NoJob
  <2>3. ForwardPast'
    BY <2>1 DEF ForwardPast, InChunk
  <2>4. SweepPast'
    BY <1>2, <2>1, HoleKept DEF InChunk
  <2>5. SweepRoom'
    BY <1>2, <2>1 DEF NoHole, SweepRoom, InChunk
  <2> QED
    BY <2>1, <2>2, <2>3, <2>4, <2>5 DEF NoHole
<1>5. CASE Maintain \/ Tick \/ Provider \/ UNCHANGED vars \/ \E n \in Num : Enrich(n)
  <2>1. UNCHANGED <<job, mode, syncStart>>
    BY <1>5 DEF Maintain, PurgeBlacklist, ApplyRetention, PruneRing, MaintainFails, maintained,
                Tick, Provider, Enrich, local, context, vars
  <2>2. pc' = pc \/ \E l : Goto("maintenance", l)
    BY <1>5 DEF Maintain, PurgeBlacklist, ApplyRetention, PruneRing, MaintainFails, AfterPurge,
                Tick, Provider, Enrich, local, vars
  <2> QED
    BY <1>1, <1>3, <2>1, <2>2 DEF Goto, Moderating
<1>6. CASE Backfill
  <2>1. UNCHANGED <<mode, syncStart>>
    BY <1>6 DEF Backfill, BackfillDone, BackfillChunk, BackfillFails, BackfillCheckpoint, context
  <2>2. (\E l : Goto("backfill", l)) /\ (job' = job \/ \E j : SetJob("backfill", j))
    BY <1>6 DEF Backfill, BackfillDone, BackfillChunk, BackfillFails, BackfillCheckpoint
  <2> QED
    BY <1>1, <1>3, <2>1, <2>2 DEF Goto, SetJob, Moderating
<1> QED
  BY <1>4, <1>5, <1>6 DEF Next

\* Whatever the modes of the starts before, and however often a pass fails, an article is
\* read twice or the process stops: when the sweep reports completion, every withdrawal
\* from the start of the sync to the watermark that the server can still show has taken
\* effect, whether the sweep read it or the live sync did.  Retention, the blacklist,
\* failing database calls and a backfill at work meanwhile included; only the spots the
\* backfill itself brings in, below where the sync began, are not.
THEOREM SweepLeavesNoHole == Spec => []SweptMeansWithdrawn
<1>1. Init => NoHole
  <2> SUFFICES ASSUME Init PROVE NoHole
    OBVIOUS
  <2>1. /\ pc["forward"] = "wait"
        /\ pc["sweep"] = (IF mode = "off" THEN "disabled" ELSE "chunk")
        /\ job["forward"] = NoJob /\ job["sweep"] = NoJob /\ sweepArticle = 0
    BY DEF Init, InitialStore, StartPC, Worker, Moderating
  <2>2. lastArticle \in Nat /\ \A c \in Num : ~(c <= 0)
    BY TypeInit, SpotnetAssumption DEF TypeOK, StoreTypeOK, Num
  <2> QED
    BY <2>1, <2>2 DEF NoHole, SweepRoom, Handled, ForwardPast, SweepPast, InChunk, NoJob
<1> DEFINE Inv == TypeOK /\ Places /\ Sourced /\ BackfillBelow /\ NoHole
<1>2. ASSUME Inv, TypeOK', [Next]_vars PROVE NoHole'
  BY <1>2, ForwardNoHole, SweepNoHole, OtherNoHole
<1>3. Inv /\ [Next]_vars => Inv'
  BY <1>2, TypeNext, PlacesNext, SourcedNext, BackfillBelowNext
<1>4. NoHole => SweptMeansWithdrawn
  BY DEF NoHole, SweepPast, Honoured, Due, SweptMeansWithdrawn
<1> QED
  BY TypeInit, PlacesInit, SourcedInit, BackfillBelowInit, <1>1, <1>3, <1>4, PTL DEF Spec
=============================================================================
