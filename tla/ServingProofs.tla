---------------------------- MODULE ServingProofs ----------------------------
(***************************************************************************)
(* Proofs about Serving, for every set of requests and spots, every size   *)
(* of the caches and of a round, and any number of failures.               *)
(***************************************************************************)
EXTENDS Serving, FiniteSetTheorems, TLAPS

-----------------------------------------------------------------------------
(* Types.                                                                  *)

ReqPc == {"idle", "enrich", "lookup", "fetch", "answer"}
Req == [pc : ReqPc, op : Operation, spot : Spot, content : Content]

PassPc == {"idle", "blobs", "rows", "measure", "evict"}
PassState == [pc : PassPc, table : Table, cutoff : Int, overtaken : BOOLEAN]

RowsOK == rows \subseteq Spot /\ enriched \subseteq Spot

BlobsOK ==
  /\ blobs \in [Table -> SUBSET Blob]
  /\ \A t \in Table : \A a, b \in blobs[t] : a.spot = b.spot => a = b

ReqOK == req \in [Request -> Req]

PassOK == maint \in PassState /\ fresh \subseteq Table \X Spot

ClockOK == now \in 0 .. MaxTime /\ faults \in 0 .. MaxFaults

\* The type invariant, by the variables that change together.
LEMMA TypeParts == TypeOK <=> RowsOK /\ BlobsOK /\ ReqOK /\ PassOK /\ ClockOK
BY DEF TypeOK, RowsOK, BlobsOK, ReqOK, PassOK, ClockOK, Req, ReqPc, PassPc, PassState

\* The same of the next state.
LEMMA TypePartsPrime == TypeOK' <=> RowsOK' /\ BlobsOK' /\ ReqOK' /\ PassOK' /\ ClockOK'
BY DEF TypeOK, RowsOK, BlobsOK, ReqOK, PassOK, ClockOK, Req, ReqPc, PassPc, PassState

\* Steps that leave a group of variables alone keep its type.
LEMMA TypesKept ==
  /\ RowsOK /\ UNCHANGED <<rows, enriched>> => RowsOK'
  /\ BlobsOK /\ UNCHANGED blobs => BlobsOK'
  /\ ReqOK /\ UNCHANGED req => ReqOK'
  /\ PassOK /\ UNCHANGED <<maint, fresh>> => PassOK'
  /\ ClockOK /\ UNCHANGED now /\ (NoFault \/ Fault) => ClockOK'
<1>1. ClockOK /\ UNCHANGED now /\ (NoFault \/ Fault) => ClockOK'
  BY ServingAssumption DEF ClockOK, NoFault, Fault
<1> QED
  BY <1>1 DEF RowsOK, BlobsOK, ReqOK, PassOK

\* An idle request and a pass that does not run have their types.
LEMMA IdleTypes == Idle \in Req /\ NoPass \in PassState
BY ServingAssumption DEF Idle, Req, ReqPc, Operation, Content, NoPass, PassState, PassPc, Table

\* A request goes on.
LEMMA GotoType ==
  ASSUME ReqOK, NEW r \in Request, NEW pc \in ReqPc, Goto(r, pc)
  PROVE  ReqOK'
<1>1. [req[r] EXCEPT !.pc = pc] \in Req
  BY DEF ReqOK, Req
<1> QED
  BY <1>1, IdleTypes DEF Goto, ReqOK

\* A request gets its content.
LEMMA GotType ==
  ASSUME ReqOK, NEW r \in Request, NEW content \in Content,
         req' = [req EXCEPT ![r].content = content, ![r].pc = "answer"]
  PROVE  ReqOK' /\ req'[r] = [req[r] EXCEPT !.content = content, !.pc = "answer"]
<1>1. [req[r] EXCEPT !.content = content, !.pc = "answer"] \in Req
  BY DEF ReqOK, Req, ReqPc
<1>2. req' = [req EXCEPT ![r] = [req[r] EXCEPT !.content = content, !.pc = "answer"]]
  BY DEF ReqOK
<1> QED
  BY <1>1, <1>2 DEF ReqOK

\* INSERT OR REPLACE keeps one blob per spot.
LEMMA StoreType ==
  ASSUME BlobsOK, NEW t \in Table, NEW blob \in Blob, StoreBlob(t, blob)
  PROVE  BlobsOK'
BY DEF BlobsOK, StoreBlob, Cached

\* Deleting blobs of a table keeps the types.
LEMMA ShrinkType ==
  ASSUME BlobsOK, NEW t \in Table, NEW S \in SUBSET blobs[t], blobs' = [blobs EXCEPT ![t] = S]
  PROVE  BlobsOK'
BY DEF BlobsOK

\* The pass goes on or ends.
LEMMA PassType ==
  ASSUME PassOK
  PROVE  /\ \A pc \in PassPc : Pass(pc) => PassOK'
         /\ EndPass => PassOK'
         /\ AfterRetention => PassOK'
         /\ NextRound => PassOK'
<1> USE DEF PassOK
<1>1. ASSUME NEW pc \in PassPc, Pass(pc) PROVE PassOK'
  BY <1>1 DEF Pass, PassState
<1>2. EndPass => PassOK'
  BY IdleTypes DEF EndPass
<1>3. StartEvict => PassOK'
  BY IdleTypes DEF StartEvict, PassState, PassPc
<1>4. AfterRetention => PassOK'
  BY <1>2, <1>3 DEF AfterRetention
<1>5. NextRound => PassOK'
  BY DEF NextRound, PassState, PassPc
<1> QED
  BY <1>1, <1>2, <1>4, <1>5

\* Whatever is stored or answered.
LEMMA FetchTypes ==
  ASSUME TypeOK, NEW r \in Request, FetchAndCache(r)
  PROVE  TypeOK'
<1>1. RowsOK /\ BlobsOK /\ ReqOK /\ PassOK /\ ClockOK
  BY TypeParts
<1> DEFINE t == TableOf(req[r].op)
           s == req[r].spot
           got(content) == req' = [req EXCEPT ![r].content = content, ![r].pc = "answer"]
           store(content) ==
             StoreBlob(t, [spot |-> s, content |-> content, at |-> now]) /\ Note(t, s)
<1>2. t \in Table /\ s \in Spot /\ now \in 0 .. MaxTime
  BY <1>1 DEF ReqOK, Req, TableOf, Table, ClockOK
<1>3. ASSUME NEW content \in Content, store(content) PROVE BlobsOK' /\ fresh' \subseteq Table \X Spot
  <2>1. [spot |-> s, content |-> content, at |-> now] \in Blob
    BY <1>2 DEF Blob
  <2>2. BlobsOK'
    BY <1>1, <1>2, <1>3, <2>1, StoreType
  <2>3. fresh' \subseteq Table \X Spot
    BY <1>1, <1>2, <1>3 DEF Note, PassOK
  <2> QED
    BY <2>2, <2>3
<1>4. /\ \/ \E content \in Content : store(content)
         \/ UNCHANGED <<blobs, fresh>>
      /\ (\E content \in Content : got(content)) \/ Goto(r, "idle")
      /\ NoFault \/ Fault
      /\ UNCHANGED <<rows, enriched, maint, now>>
  BY DEF FetchAndCache, Content
<1>5. ReqOK'
  <2>1. "idle" \in ReqPc
    BY DEF ReqPc
  <2> QED
    BY <1>1, <1>4, <2>1, GotoType, GotType
<1> HIDE DEF store, t, s
<1>6. BlobsOK' /\ fresh' \subseteq Table \X Spot
  BY <1>1, <1>3, <1>4 DEF BlobsOK, PassOK
<1>7. PassOK'
  BY <1>1, <1>4, <1>6 DEF PassOK
<1> QED
  BY <1>1, <1>4, <1>5, <1>6, <1>7, TypesKept, TypePartsPrime

\* The steps of a request keep the types.
LEMMA ServeTypes ==
  ASSUME TypeOK, NEW r \in Request, Serve(r)
  PROVE  TypeOK'
<1>1. RowsOK /\ BlobsOK /\ ReqOK /\ PassOK /\ ClockOK
  BY TypeParts
<1>2. {"idle", "lookup", "enrich", "fetch"} \subseteq ReqPc
  BY DEF ReqPc
<1>3. CASE ReadRow(r)
  <2>1. PICK op \in Operation, s \in Spot, pc \in {"lookup", "enrich"} :
               req' = [req EXCEPT ![r] = [Idle EXCEPT !.pc = pc, !.op = op, !.spot = s]]
    BY <1>3 DEF ReadRow
  <2>2. [Idle EXCEPT !.pc = pc, !.op = op, !.spot = s] \in Req
    BY <1>2, IdleTypes DEF Req
  <2>3. ReqOK'
    BY <1>1, <2>1, <2>2 DEF ReqOK
  <2>4. UNCHANGED <<rows, enriched, blobs, maint, now, faults, fresh>>
    BY <1>3 DEF ReadRow
  <2> QED
    BY <1>1, <2>3, <2>4, TypesKept, TypePartsPrime, SMTT(60) DEF NoFault
<1>4. CASE EnrichSpot(r)
  <2>1. \E pc \in {"idle", "lookup"} : Goto(r, pc)
    BY <1>4 DEF EnrichSpot
  <2>2. ReqOK'
    BY <1>1, <1>2, <2>1, GotoType
  <2>3. RowsOK'
    BY <1>1, <1>4 DEF EnrichSpot, UpdateSpotEnrichment, RowsOK
  <2>4. UNCHANGED <<blobs, maint, now, fresh>> /\ (NoFault \/ Fault)
    BY <1>4 DEF EnrichSpot
  <2> QED
    BY <1>1, <2>2, <2>3, <2>4, TypesKept, TypePartsPrime
<1>5. CASE Lookup(r)
  <2> DEFINE hit == Cached(TableOf(req[r].op), req[r].spot)
  <2>1. \A b \in hit : b.content \in Content
    <3>1. TableOf(req[r].op) \in Table
      BY DEF TableOf, Table
    <3> QED
      BY <1>1, <3>1 DEF Cached, BlobsOK, Blob
  <2>2. \/ \E b \in hit : req' = [req EXCEPT ![r].content = b.content, ![r].pc = "answer"]
        \/ Goto(r, "fetch")
    BY <1>5 DEF Lookup
  <2> HIDE DEF hit
  <2>3. ReqOK'
    BY <1>1, <1>2, <2>1, <2>2, GotoType, GotType
  <2>4. UNCHANGED <<rows, enriched, blobs, maint, now, fresh>> /\ (NoFault \/ Fault)
    BY <1>5 DEF Lookup
  <2> QED
    BY <1>1, <2>3, <2>4, TypesKept, TypePartsPrime
<1>6. CASE SendContent(r)
  <2>1. ReqOK'
    BY <1>1, <1>2, <1>6, GotoType DEF SendContent
  <2> QED
    BY <1>1, <1>6, <2>1, TypesKept, TypePartsPrime DEF SendContent, NoFault
<1> QED
  BY <1>3, <1>4, <1>5, <1>6, FetchTypes DEF Serve

\* The maintenance pass keeps the types.
LEMMA MaintainTypes ==
  ASSUME TypeOK, Maintain
  PROVE  TypeOK'
<1>1. RowsOK /\ BlobsOK /\ ReqOK /\ PassOK /\ ClockOK
  BY TypeParts
<1>2. {"idle", "blobs", "rows", "measure", "evict"} \subseteq PassPc /\ {"images", "nzbs"} = Table
  BY DEF PassPc, Table
<1>3. CASE StartPass
  <2>1. ASSUME maint' = [NoPass EXCEPT !.pc = "blobs", !.cutoff = now - Retention],
               UNCHANGED fresh
        PROVE  PassOK'
    <3>1. now - Retention \in Int
      BY <1>1, ServingAssumption DEF ClockOK
    <3> QED
      BY <1>1, <1>2, <2>1, <3>1, IdleTypes DEF PassOK, PassState
  <2>2. PassOK'
    BY <1>1, <1>3, <2>1, PassType DEF StartPass
  <2> QED
    BY <1>1, <1>3, <2>2, TypesKept, TypePartsPrime DEF StartPass, NoFault
<1>4. CASE RetainBlobs
  <2>1. \/ UNCHANGED blobs
        \/ \E gone : blobs' = [blobs EXCEPT !["nzbs"] = {b \in blobs["nzbs"] : b.spot \notin gone}]
    BY <1>4 DEF RetainBlobs
  <2>2. BlobsOK'
    BY <1>1, <1>2, <2>1, ShrinkType, TypesKept
  <2>3. PassOK'
    BY <1>1, <1>2, <1>4, PassType DEF RetainBlobs
  <2>4. UNCHANGED <<rows, enriched, req, now>> /\ (NoFault \/ Fault)
    BY <1>4 DEF RetainBlobs
  <2> QED
    BY <1>1, <2>2, <2>3, <2>4, TypesKept, TypePartsPrime
<1>5. CASE RetainRows
  <2>1. UNCHANGED <<rows, enriched>> \/ \E gone : rows' = rows \ gone /\ enriched' = enriched \ gone
    BY <1>5 DEF RetainRows
  <2>2. RowsOK'
    BY <1>1, <2>1 DEF RowsOK
  <2>3. AfterRetention \/ NextRound
    BY <1>5 DEF RetainRows
  <2>4. PassOK'
    BY <1>1, <2>3, PassType
  <2>5. UNCHANGED <<blobs, req, now>> /\ (NoFault \/ Fault)
    BY <1>5 DEF RetainRows
  <2> QED
    BY <1>1, <2>2, <2>4, <2>5, TypesKept, TypePartsPrime
<1>6. CASE Measure
  <2>1. PassOK'
    BY <1>1, <1>2, <1>6, PassType DEF Measure
  <2>2. UNCHANGED <<rows, enriched, blobs, req, now>> /\ (NoFault \/ Fault)
    BY <1>6 DEF Measure
  <2> QED
    BY <1>1, <2>1, <2>2, TypesKept, TypePartsPrime
<1>7. CASE EvictRound
  <2> DEFINE t == maint.table
  <2>1. t \in Table
    BY <1>1 DEF PassOK, PassState
  <2>2. UNCHANGED blobs \/ \E gone : blobs' = [blobs EXCEPT ![t] = blobs[t] \ gone]
    BY <1>7 DEF EvictRound, EvictFrom
  <2>3. BlobsOK'
    BY <1>1, <2>1, <2>2, ShrinkType, TypesKept
  <2>4. \/ Pass("measure") \/ EndPass
        \/ maint' = [maint EXCEPT !.table = "nzbs"] /\ UNCHANGED fresh
    BY <1>7 DEF EvictRound
  <2>5. PassOK'
    <3>1. [maint EXCEPT !.table = "nzbs"] \in PassState
      BY <1>1, <1>2 DEF PassOK, PassState
    <3> QED
      BY <1>1, <1>2, <2>4, <3>1, PassType DEF PassOK
  <2>6. UNCHANGED <<rows, enriched, req, now>> /\ (NoFault \/ Fault)
    BY <1>7 DEF EvictRound
  <2> QED
    BY <1>1, <2>3, <2>5, <2>6, TypesKept, TypePartsPrime
<1> QED
  BY <1>3, <1>4, <1>5, <1>6, <1>7 DEF Maintain

\* The server starts well-typed.
LEMMA TypeInit == Init => TypeOK
<1> SUFFICES ASSUME Init PROVE TypeOK
  OBVIOUS
<1>1. RowsOK /\ BlobsOK
  BY DEF Init, RowsOK, BlobsOK
<1>2. ReqOK /\ PassOK
  BY IdleTypes DEF Init, ReqOK, PassOK
<1>3. ClockOK
  BY ServingAssumption DEF Init, ClockOK
<1> QED
  BY <1>1, <1>2, <1>3, TypeParts

\* Every step keeps the types.
LEMMA TypeNext ==
  ASSUME TypeOK, [Next]_vars
  PROVE  TypeOK'
<1>1. RowsOK /\ BlobsOK /\ ReqOK /\ PassOK /\ ClockOK
  BY TypeParts
<1>2. CASE OthersDelete
  <2>1. RowsOK'
    BY <1>1, <1>2 DEF OthersDelete, RowsOK
  <2>2. PassOK'
    BY <1>1, <1>2 DEF OthersDelete, PassOK, PassState
  <2> QED
    BY <1>1, <1>2, <2>1, <2>2, TypesKept, TypePartsPrime DEF OthersDelete, NoFault
<1>3. CASE Tick
  <2>1. ClockOK'
    BY <1>1, <1>3, ServingAssumption DEF Tick, ClockOK
  <2> QED
    BY <1>1, <1>3, <2>1, TypesKept, TypePartsPrime DEF Tick
<1>4. CASE UNCHANGED vars
  BY <1>1, <1>4, TypesKept, TypePartsPrime DEF vars, NoFault
<1> QED
  BY <1>2, <1>3, <1>4, ServeTypes, MaintainTypes DEF Next

\* Types, and with them that CacheNZB and CacheImage never leave two blobs for one spot,
\* whatever requests store and whatever the retention and the eviction delete meanwhile.
THEOREM TypeCorrect == Spec => []TypeOK
BY TypeInit, TypeNext, PTL DEF Spec

-----------------------------------------------------------------------------
(* What a step of a request may do.                                        *)

\* Where a request goes, what it has in hand and what it stored.
LEMMA FetchEffects ==
  ASSUME TypeOK, NEW r \in Request, FetchAndCache(r)
  PROVE  \E content \in Content :
           /\ content = "whole" \/ DecodesCut(req[r].op, req[r].spot)
           /\ \/ req' = [req EXCEPT ![r] = [req[r] EXCEPT !.content = content, !.pc = "answer"]]
              \/ req' = [req EXCEPT ![r] = Idle]
           /\ \/ UNCHANGED <<blobs, fresh>>
              \/ /\ StoreBlob(TableOf(req[r].op),
                              [spot |-> req[r].spot, content |-> content, at |-> now])
                 /\ Note(TableOf(req[r].op), req[r].spot)
           /\ At(r, "fetch")
           /\ UNCHANGED <<rows, enriched, maint, now>>
<1>1. req \in [Request -> Req]
  BY DEF TypeOK, Req, ReqPc
<1>2. ASSUME NEW content, req' = [req EXCEPT ![r].content = content, ![r].pc = "answer"]
      PROVE  req' = [req EXCEPT ![r] = [req[r] EXCEPT !.content = content, !.pc = "answer"]]
  BY <1>1, <1>2
<1>3. Goto(r, "idle") => req' = [req EXCEPT ![r] = Idle]
  BY DEF Goto
<1> QED
  BY <1>2, <1>3 DEF FetchAndCache, Content

\* A request that does not fetch stores nothing and leaves the pass alone.
LEMMA ServeEffects ==
  ASSUME TypeOK, NEW r \in Request, Serve(r), ~FetchAndCache(r)
  PROVE  /\ UNCHANGED <<rows, blobs, maint, now, fresh>>
         /\ \A q \in Request \ {r} : req'[q] = req[q]
BY DEF Serve, ReadRow, EnrichSpot, Lookup, SendContent, Goto, TypeOK

\* Requests, withdrawals and the clock do not move the maintenance pass.
LEMMA OnlyThePassMoves ==
  ASSUME TypeOK, [Next]_vars, maint'.pc # maint.pc
  PROVE  Maintain
<1>1. maint \in PassState
  BY DEF TypeOK, PassState, PassPc
<1>2. ASSUME NEW r \in Request, Serve(r) PROVE UNCHANGED maint
  BY <1>2, FetchEffects, ServeEffects
<1>3. OthersDelete \/ Tick \/ UNCHANGED vars => maint'.pc = maint.pc
  BY <1>1 DEF OthersDelete, Tick, vars, PassState
<1> QED
  BY <1>2, <1>3 DEF Next

\* Only requests store blobs: whatever else happens, the cached NZBs only become fewer.
LEMMA PassShrinks ==
  ASSUME TypeOK, Maintain \/ OthersDelete \/ Tick \/ UNCHANGED vars
  PROVE  blobs'["nzbs"] \subseteq blobs["nzbs"]
<1>1. blobs \in [Table -> SUBSET Blob] /\ "nzbs" \in Table
  BY DEF TypeOK, Table
<1>2. CASE RetainBlobs
  BY <1>1, <1>2 DEF RetainBlobs
<1>3. CASE EvictRound
  BY <1>1, <1>3 DEF EvictRound
<1>4. CASE StartPass \/ RetainRows \/ Measure \/ OthersDelete \/ Tick \/ UNCHANGED vars
  BY <1>4 DEF StartPass, RetainRows, Measure, OthersDelete, Tick, vars
<1> QED
  BY <1>2, <1>3, <1>4 DEF Maintain

-----------------------------------------------------------------------------
(* Whole NZBs.                                                             *)

\* Every step keeps them whole: only FetchAndCache stores, and only what decoded.
LEMMA WholeNext ==
  ASSUME TypeOK, WholeNzbs, [Next]_vars
  PROVE  WholeNzbs'
<1>1. /\ req \in [Request -> Req] /\ blobs \in [Table -> SUBSET Blob]
      /\ "nzbs" \in Table /\ "images" \in Table
  BY DEF TypeOK, Req, ReqPc, Table
<1> DEFINE CacheWhole == \A b \in blobs["nzbs"] : b.spot \notin Plain => b.content = "whole"
           ReqWhole(q) == /\ q.pc = "answer" /\ q.op # "image" /\ q.spot \notin Plain
                          => q.content = "whole"
<1>2. CacheWhole /\ \A r \in Request : ReqWhole(req[r])
  BY DEF WholeNzbs, At
<1>3. ASSUME CacheWhole', \A r \in Request : ReqWhole(req'[r]) PROVE WholeNzbs'
  BY <1>3 DEF WholeNzbs, At
<1>4. Idle.pc = "idle"
  BY DEF Idle
<1>5. ASSUME NEW r \in Request, FetchAndCache(r) PROVE WholeNzbs'
  <2>1. PICK content \in Content :
           /\ content = "whole" \/ DecodesCut(req[r].op, req[r].spot)
           /\ \/ req' = [req EXCEPT ![r] = [req[r] EXCEPT !.content = content, !.pc = "answer"]]
              \/ req' = [req EXCEPT ![r] = Idle]
           /\ \/ UNCHANGED <<blobs, fresh>>
              \/ StoreBlob(TableOf(req[r].op),
                           [spot |-> req[r].spot, content |-> content, at |-> now])
    BY <1>5, FetchEffects
  <2>2. req[r].op # "image" /\ req[r].spot \notin Plain => content = "whole"
    BY <2>1 DEF DecodesCut
  <2>3. CacheWhole'
    <3>1. CASE UNCHANGED blobs
      BY <1>2, <3>1
    <3>2. CASE StoreBlob(TableOf(req[r].op),
                         [spot |-> req[r].spot, content |-> content, at |-> now])
      <4>1. CASE req[r].op = "image"
        BY <1>1, <1>2, <3>2, <4>1 DEF StoreBlob, TableOf
      <4>2. CASE req[r].op # "image"
        BY <1>1, <1>2, <2>2, <3>2, <4>2 DEF StoreBlob, TableOf
      <4> QED
        BY <4>1, <4>2
    <3> QED
      BY <2>1, <3>1, <3>2
  <2>4. \A q \in Request : ReqWhole(req'[q])
    <3>1. req[r] \in Req
      BY <1>1
    <3>2. ReqWhole([req[r] EXCEPT !.content = content, !.pc = "answer"])
      BY <2>2, <3>1 DEF Req
    <3> QED
      BY <1>1, <1>2, <1>4, <2>1, <3>2
  <2> QED
    BY <1>3, <2>3, <2>4
<1>6. ASSUME NEW r \in Request, Serve(r), ~FetchAndCache(r) PROVE WholeNzbs'
  <2>1. UNCHANGED blobs /\ \A q \in Request \ {r} : req'[q] = req[q]
    BY <1>6, ServeEffects
  <2>2. ReqWhole(req'[r])
    <3>1. req[r] \in Req
      BY <1>1
    <3>2. ASSUME NEW pc, pc # "answer", Goto(r, pc) PROVE ReqWhole(req'[r])
      BY <1>1, <1>4, <3>1, <3>2 DEF Goto, Req
    <3>3. CASE ReadRow(r)
      <4>1. req'[r].pc # "answer"
        BY <1>1, <3>3 DEF ReadRow, Idle
      <4> QED
        BY <4>1
    <3>4. CASE EnrichSpot(r) \/ SendContent(r)
      BY <3>2, <3>4 DEF EnrichSpot, SendContent
    <3>5. CASE Lookup(r)
      <4>1. CASE Goto(r, "fetch")
        BY <3>2, <4>1
      <4>2. ASSUME NEW b \in Cached(TableOf(req[r].op), req[r].spot),
                   req' = [req EXCEPT ![r].content = b.content, ![r].pc = "answer"]
            PROVE  ReqWhole(req'[r])
        <5>1. /\ req'[r].content = b.content /\ req'[r].op = req[r].op
              /\ req'[r].spot = req[r].spot
          BY <1>1, <3>1, <4>2 DEF Req
        <5>2. req[r].op # "image" => b \in blobs["nzbs"] /\ b.spot = req[r].spot
          BY <4>2 DEF Cached, TableOf
        <5> QED
          BY <1>2, <5>1, <5>2
      <4> QED
        BY <3>5, <4>1, <4>2 DEF Lookup
    <3> QED
      BY <1>6, <3>3, <3>4, <3>5 DEF Serve
  <2> QED
    BY <1>2, <1>3, <2>1, <2>2
<1>7. CASE Maintain \/ OthersDelete \/ Tick \/ UNCHANGED vars
  <2>1. UNCHANGED req
    BY <1>7 DEF Maintain, StartPass, RetainBlobs, RetainRows, Measure, EvictRound,
                OthersDelete, Tick, vars
  <2>2. blobs'["nzbs"] \subseteq blobs["nzbs"]
    BY <1>7, PassShrinks
  <2>3. CacheWhole'
    BY <1>2, <2>2
  <2> QED
    BY <1>2, <1>3, <2>1, <2>3
<1> QED
  BY <1>5, <1>6, <1>7 DEF Next

\* An NZB that was posted deflated is cached, downloaded and handed to SABnzbd whole or not
\* at all, for any number of requests, connections that end in the middle of a body and
\* failing calls: the cache is never poisoned with a part that a later request would serve.
THEOREM NzbsAreWhole == Spec => []WholeNzbs
<1>1. Init => WholeNzbs
  BY DEF Init, WholeNzbs, At, Idle, Table
<1>2. TypeOK /\ WholeNzbs /\ [Next]_vars => (TypeOK /\ WholeNzbs)'
  BY TypeNext, WholeNext
<1> QED
  BY TypeInit, <1>1, <1>2, PTL DEF Spec

-----------------------------------------------------------------------------
(* The eviction.                                                           *)

\* Once EvictCacheTo has gone on to the NZBs, the images are those stored since it began.
ImagesFresh ==
  maint.table = "nzbs" =>
    /\ maint.pc \in {"measure", "evict"}
    /\ \A b \in blobs["images"] : <<"images", b.spot>> \in fresh

\* Every step keeps it so: a request that stores an image notes it, and a new eviction
\* begins with the images again.
LEMMA ImagesNext ==
  ASSUME TypeOK, ImagesFresh, [Next]_vars
  PROVE  ImagesFresh'
<1>1. /\ maint \in PassState /\ blobs \in [Table -> SUBSET Blob]
      /\ "nzbs" \in Table /\ "images" \in Table
  BY DEF TypeOK, PassState, PassPc, Table
<1>2. ASSUME maint' = NoPass \/ maint'.table = "images" PROVE ImagesFresh'
  BY <1>2 DEF ImagesFresh, NoPass
<1>3. ASSUME UNCHANGED <<blobs, fresh>>, maint'.table = maint.table, maint'.pc = maint.pc
      PROVE  ImagesFresh'
  BY <1>3 DEF ImagesFresh
<1>4. AfterRetention \/ EndPass => ImagesFresh'
  BY <1>2 DEF AfterRetention, StartEvict, EndPass, NoPass
<1>5. ASSUME NEW r \in Request, Serve(r) PROVE ImagesFresh'
  <2>1. CASE FetchAndCache(r)
    <3>1. PICK content \in Content :
             /\ \/ UNCHANGED <<blobs, fresh>>
                \/ /\ StoreBlob(TableOf(req[r].op),
                                [spot |-> req[r].spot, content |-> content, at |-> now])
                   /\ Note(TableOf(req[r].op), req[r].spot)
             /\ UNCHANGED maint
      BY <2>1, FetchEffects
    <3>2. CASE UNCHANGED <<blobs, fresh>>
      BY <1>3, <3>1, <3>2
    <3>3. CASE /\ StoreBlob(TableOf(req[r].op),
                            [spot |-> req[r].spot, content |-> content, at |-> now])
               /\ Note(TableOf(req[r].op), req[r].spot)
      <4> SUFFICES ASSUME maint.table = "nzbs" PROVE ImagesFresh'
        BY <3>1 DEF ImagesFresh
      <4>1. fresh' = fresh \cup {<<TableOf(req[r].op), req[r].spot>>}
        BY <3>3 DEF Note, ImagesFresh
      <4>2. CASE TableOf(req[r].op) = "images"
        BY <1>1, <3>1, <3>3, <4>1, <4>2 DEF StoreBlob, ImagesFresh
      <4>3. CASE TableOf(req[r].op) = "nzbs"
        BY <1>1, <3>1, <3>3, <4>1, <4>3 DEF StoreBlob, ImagesFresh
      <4> QED
        BY <4>2, <4>3 DEF TableOf
    <3> QED
      BY <3>1, <3>2, <3>3
  <2>2. CASE ~FetchAndCache(r)
    BY <1>3, <1>5, <2>2, ServeEffects
  <2> QED
    BY <2>1, <2>2
<1>6. CASE StartPass
  BY <1>2, <1>4, <1>6 DEF StartPass, NoPass
<1>7. CASE RetainBlobs
  <2>1. maint.table = "images"
    BY <1>1, <1>7 DEF RetainBlobs, ImagesFresh, PassState, Table
  <2>2. Pass("rows") => maint'.table = "images"
    BY <1>1, <2>1 DEF Pass, PassState
  <2> QED
    BY <1>2, <1>4, <1>7, <2>2 DEF RetainBlobs
<1>8. CASE RetainRows
  <2>1. maint.table = "images"
    BY <1>1, <1>8 DEF RetainRows, ImagesFresh, PassState, Table
  <2>2. NextRound => maint'.table = "images"
    BY <1>1, <2>1 DEF NextRound, PassState
  <2> QED
    BY <1>2, <1>4, <1>8, <2>2 DEF RetainRows
<1>9. CASE Measure
  <2>1. Pass("evict") => ImagesFresh'
    BY <1>1, <1>9 DEF Measure, Pass, ImagesFresh, PassState
  <2> QED
    BY <1>4, <1>9, <2>1 DEF Measure
<1>10. CASE EvictRound
  <2>1. ASSUME NEW gone, Pass("measure"),
               blobs' = [blobs EXCEPT ![maint.table] = blobs[maint.table] \ gone]
        PROVE  ImagesFresh'
    BY <1>1, <2>1 DEF Pass, ImagesFresh, PassState
  <2>2. ASSUME maint' = [maint EXCEPT !.table = "nzbs"], UNCHANGED <<fresh, blobs>>,
               maint.table = "images", blobs[maint.table] = {}, maint.pc = "evict"
        PROVE  ImagesFresh'
    BY <1>1, <2>2 DEF ImagesFresh, PassState
  <2> QED
    BY <1>4, <1>10, <2>1, <2>2 DEF EvictRound, EvictFrom
<1>11. CASE OthersDelete
  <2>1. maint'.table = maint.table /\ maint'.pc = maint.pc
    BY <1>1, <1>11 DEF OthersDelete, PassState
  <2> QED
    BY <1>3, <1>11, <2>1 DEF OthersDelete
<1>12. CASE Tick \/ UNCHANGED vars
  BY <1>3, <1>12 DEF Tick, vars
<1> QED
  BY <1>5, <1>6, <1>7, <1>8, <1>9, <1>10, <1>11, <1>12 DEF Next, Maintain

\* One blob per spot: no more blobs than spots, and no more images than stored images when
\* each was stored since the eviction began.
LEMMA BlobsBounded ==
  ASSUME TypeOK
  PROVE  /\ \A t \in Table : Cardinality(blobs[t]) \in Nat
         /\ Cardinality(fresh) \in Nat
         /\ (\A b \in blobs["images"] : <<"images", b.spot>> \in fresh)
              => Cardinality(blobs["images"]) <= Cardinality(fresh)
<1>1. /\ blobs \in [Table -> SUBSET Blob] /\ IsFiniteSet(Spot) /\ "images" \in Table
      /\ \A t \in Table : \A a, b \in blobs[t] : a.spot = b.spot => a = b
  BY ServingAssumption DEF TypeOK, Table
<1>2. IsFiniteSet(fresh)
  <2>1. IsFiniteSet(Table)
    <3>1. IsFiniteSet({} \cup {"images"})
      BY FS_EmptySet, FS_AddElement
    <3>2. IsFiniteSet(({} \cup {"images"}) \cup {"nzbs"})
      BY <3>1, FS_AddElement
    <3>3. Table = ({} \cup {"images"}) \cup {"nzbs"}
      BY DEF Table
    <3> QED
      BY <3>2, <3>3
  <2>2. IsFiniteSet(Table \X Spot)
    BY <1>1, <2>1, FS_Product
  <2>3. fresh \in SUBSET (Table \X Spot)
    BY DEF TypeOK
  <2> QED
    BY <2>2, <2>3, FS_Subset
<1>3. ASSUME NEW t \in Table PROVE IsFiniteSet(blobs[t])
  <2> DEFINE f == [b \in blobs[t] |-> b.spot]
  <2>1. f \in Injection(blobs[t], Spot)
    BY <1>1 DEF Injection, IsInjective, Blob
  <2> HIDE DEF f
  <2> QED
    BY <1>1, <2>1, FS_Injection
<1>4. ASSUME \A b \in blobs["images"] : <<"images", b.spot>> \in fresh
      PROVE  Cardinality(blobs["images"]) <= Cardinality(fresh)
  <2> DEFINE g == [b \in blobs["images"] |-> <<"images", b.spot>>]
  <2>1. g \in [blobs["images"] -> fresh]
    BY <1>4
  <2>2. ASSUME NEW a \in blobs["images"], NEW b \in blobs["images"], g[a] = g[b] PROVE a = b
    <3>1. a.spot = b.spot
      BY <2>2
    <3> QED
      BY <1>1, <3>1
  <2>3. DOMAIN g = blobs["images"]
    OBVIOUS
  <2> HIDE DEF g
  <2>4. g \in Injection(blobs["images"], fresh)
    BY <2>1, <2>2, <2>3 DEF Injection, IsInjective
  <2> QED
    BY <1>2, <2>4, FS_Injection
<1> QED
  BY <1>2, <1>3, <1>4, FS_CardinalityType

\* No NZB is evicted while an image remains that was there when the eviction began,
\* whatever requests store between its rounds and however many rounds there are.
THEOREM ImagesGoFirst == Spec => ImagesFirst
<1>1. Init => ImagesFresh
  BY DEF Init, ImagesFresh, NoPass
<1>2. TypeOK /\ ImagesFresh /\ [Next]_vars => (TypeOK /\ ImagesFresh)'
  BY TypeNext, ImagesNext
<1>3. ASSUME TypeOK, ImagesFresh, [Next]_vars, maint.pc = "evict", maint'.pc = "measure",
             blobs'["nzbs"] # blobs["nzbs"]
      PROVE  \A b \in blobs["images"] : <<"images", b.spot>> \in fresh
  <2>1. /\ maint \in PassState /\ blobs \in [Table -> SUBSET Blob]
        /\ "nzbs" \in Table /\ "images" \in Table
    BY <1>3 DEF TypeOK, PassState, PassPc, Table
  <2>2. EvictRound
    BY <1>3, OnlyThePassMoves DEF Maintain, StartPass, RetainBlobs, RetainRows, Measure
  <2>3. maint.table # "images"
    <3> SUFFICES ASSUME maint.table = "images" PROVE blobs'["nzbs"] = blobs["nzbs"]
      BY <1>3
    <3> QED
      BY <2>1, <2>2 DEF EvictRound, EvictFrom
  <2> QED
    BY <1>3, <2>1, <2>3 DEF ImagesFresh, PassState, Table
<1>4. TypeOK /\ ImagesFresh /\ [Next]_vars
        => [maint.pc = "evict" /\ maint'.pc = "measure" /\ blobs'["nzbs"] # blobs["nzbs"]
              => \A b \in blobs["images"] : <<"images", b.spot>> \in fresh]_vars
  BY <1>3
<1> QED
  BY TypeInit, <1>1, <1>2, <1>4, PTL DEF Spec, ImagesFirst

\* When EvictCacheTo returns without an error the caches fit into CACHE_MAX_BYTES, but for
\* what requests stored since it began: the last round leaves no NZB at all and only such
\* images, and there is at most one blob for each of them.
THEOREM EvictionMakesRoom == Spec => EvictionSuffices
<1>1. Init => ImagesFresh
  BY DEF Init, ImagesFresh, NoPass
<1>2. TypeOK /\ ImagesFresh /\ [Next]_vars => (TypeOK /\ ImagesFresh)'
  BY TypeNext, ImagesNext
<1>3. ASSUME TypeOK, ImagesFresh, [Next]_vars, maint.pc \in {"measure", "evict"},
             maint'.pc = "idle", UNCHANGED faults
      PROVE  CacheBytes <= CacheMax + Cardinality(fresh)
  <2>1. /\ maint \in PassState /\ faults \in Nat
        /\ "nzbs" \in Table /\ "images" \in Table
    BY <1>3, ServingAssumption DEF TypeOK, PassState, PassPc, Table
  <2>2. /\ Cardinality(blobs["images"]) \in Nat /\ Cardinality(blobs["nzbs"]) \in Nat
        /\ Cardinality(fresh) \in Nat /\ CacheMax \in Nat
    BY <1>3, <2>1, BlobsBounded, ServingAssumption
  <2>3. Measure \/ EvictRound
    BY <1>3, OnlyThePassMoves DEF Maintain, StartPass, RetainBlobs, RetainRows
  <2>4. ~Fault
    BY <1>3, <2>1 DEF Fault
  <2>5. CASE Measure
    <3>1. CacheBytes <= CacheMax
      BY <1>3, <2>1, <2>4, <2>5 DEF Measure, Pass, PassState
    <3> QED
      BY <2>2, <3>1 DEF CacheBytes
  <2>6. CASE EvictRound
    <3>1. maint.table # "images" /\ blobs[maint.table] = {}
      BY <1>3, <2>1, <2>4, <2>6 DEF EvictRound, EvictFrom, Pass, PassState
    <3>2. maint.table = "nzbs"
      BY <2>1, <3>1 DEF PassState, Table
    <3>3. Cardinality(blobs["nzbs"]) = 0
      BY <3>1, <3>2, FS_EmptySet
    <3>4. Cardinality(blobs["images"]) <= Cardinality(fresh)
      BY <1>3, <3>2, BlobsBounded DEF ImagesFresh
    <3> QED
      BY <2>2, <3>3, <3>4 DEF CacheBytes
  <2> QED
    BY <2>3, <2>5, <2>6
<1>4. TypeOK /\ ImagesFresh /\ [Next]_vars
        => [maint.pc \in {"measure", "evict"} /\ maint'.pc = "idle" /\ UNCHANGED faults
              => CacheBytes <= CacheMax + Cardinality(fresh)]_vars
  BY <1>3
<1> QED
  BY TypeInit, <1>1, <1>2, <1>4, PTL DEF Spec, EvictionSuffices

-----------------------------------------------------------------------------
(* The retention.  Its first statement walks the rows with an nzb_id, the  *)
(* second all rows; each takes the first Chunk of its own list.            *)

\* Two statements that walk a list and a part of it in one order agree: what the first
\* Chunk of the list have of the part is among the first Chunk of the part.
LEMMA HeadsAgree ==
  ASSUME NEW A \in SUBSET Spot, NEW B \in SUBSET A,
         NEW T \in Heads(A, Chunk, Newer), NEW U \in Heads(B, Chunk, Newer),
         NEW s \in T, s \in B
  PROVE  s \in U
<1> SUFFICES ASSUME s \notin U PROVE FALSE
  OBVIOUS
<1>1. /\ IsFiniteSet(A) /\ IsFiniteSet(B)
      /\ Chunk \in Nat /\ Cardinality(A) \in Nat /\ Cardinality(B) \in Nat
  <2>1. IsFiniteSet(A)
    BY ServingAssumption, FS_Subset
  <2>2. IsFiniteSet(B)
    BY <2>1, FS_Subset
  <2> QED
    BY <2>1, <2>2, ServingAssumption, FS_CardinalityType
<1>2. /\ T \in SUBSET A /\ U \in SUBSET B
      /\ Cardinality(T) = IF Chunk < Cardinality(A) THEN Chunk ELSE Cardinality(A)
      /\ Cardinality(U) = IF Chunk < Cardinality(B) THEN Chunk ELSE Cardinality(B)
      /\ \A a \in T, b \in A \ T : ~Newer(b, a)
      /\ \A a \in U, b \in B \ U : ~Newer(b, a)
  BY DEF Heads
<1>3. IsFiniteSet(T) /\ IsFiniteSet(U)
  BY <1>1, <1>2, FS_Subset
<1>4. Cardinality(U) # Cardinality(B)
  BY <1>1, <1>2, FS_Subset
<1>5. Cardinality(U) = Chunk /\ Cardinality(T) <= Chunk
  BY <1>1, <1>2, <1>4
<1>6. ASSUME NEW a \in U PROVE a \in T
  <2>1. a \in Spot /\ s \in Spot /\ a # s
    BY <1>2
  <2>2. Newer(a, s) \/ Newer(s, a)
    <3>1. a \in Nat /\ s \in Nat /\ Posted[a] \in Nat /\ Posted[s] \in Nat
      BY <2>1, ServingAssumption
    <3>2. Posted[a] > Posted[s] \/ Posted[s] > Posted[a] \/ Posted[a] = Posted[s]
      BY <3>1
    <3>3. a < s \/ s < a
      BY <2>1, <3>1
    <3> QED
      BY <3>2, <3>3 DEF Newer
  <2>3. ~Newer(s, a)
    BY <1>2
  <2> QED
    BY <1>2, <2>2, <2>3
<1>7. U \cup {s} \in SUBSET T
  BY <1>6
<1>8. Cardinality(U \cup {s}) = Cardinality(U) + 1
  BY <1>3, FS_AddElement
<1>9. Cardinality(U \cup {s}) <= Cardinality(T)
  BY <1>3, <1>7, FS_Subset
<1>10. Cardinality(T) \in Nat
  BY <1>3, FS_CardinalityType
<1> QED
  BY <1>1, <1>5, <1>8, <1>9, <1>10

\* A spot that has a row has an nzb_id in it.
Listed(s) == s \in rows => NzbKnown(s)

\* As long as no call fails, an NZB that is cached or about to be belongs to a row whose
\* nzb_id the first statement sees, or to none.
NzbsListed ==
  faults = 0 =>
    /\ \A b \in blobs["nzbs"] : Listed(b.spot)
    /\ \A r \in Request :
         req[r].pc \in {"lookup", "fetch"} /\ req[r].op # "image" => Listed(req[r].spot)

\* Between its two statements, a round has left no NZB of the rows it will delete but those
\* stored since, unless rows were deleted in between.
RoundClears ==
  maint.pc = "rows" /\ faults = 0 /\ ~maint.overtaken =>
    \A T \in Heads(Aged, Chunk, Newer) : \A s \in T :
      Cached("nzbs", s) # {} => <<"nzbs", s>> \in fresh

\* Every step keeps it: UpdateSpotEnrichment comes before the NZB is fetched, and rows
\* lose their nzb_id only with themselves.
LEMMA ListedNext ==
  ASSUME TypeOK, NzbsListed, [Next]_vars
  PROVE  NzbsListed'
<1>1. /\ req \in [Request -> Req] /\ blobs \in [Table -> SUBSET Blob] /\ faults \in Nat
      /\ "nzbs" \in Table /\ "images" \in Table
  BY ServingAssumption DEF TypeOK, Req, ReqPc, Table
<1>2. ~Fault /\ faults' = 0 => faults = 0
  <2>1. [Next]_vars => NoFault \/ Fault
    BY DEF Next, Serve, ReadRow, EnrichSpot, Lookup, FetchAndCache, SendContent, Maintain,
           StartPass, RetainBlobs, RetainRows, Measure, EvictRound, OthersDelete, Tick, vars,
           NoFault
  <2> QED
    BY <2>1 DEF NoFault
<1>3. Fault => faults' # 0
  BY <1>1 DEF Fault
<1> SUFFICES ASSUME faults' = 0, faults = 0, ~Fault PROVE NzbsListed'
  BY <1>2, <1>3 DEF NzbsListed
<1> DEFINE Waits(q) == q.pc \in {"lookup", "fetch"} /\ q.op # "image"
           After(s) == s \in rows' => s \in enriched' \cap HasNzb
<1>4. /\ \A b \in blobs["nzbs"] : Listed(b.spot)
      /\ \A r \in Request : Waits(req[r]) => Listed(req[r].spot)
  BY DEF NzbsListed
<1>5. ASSUME \A b \in blobs'["nzbs"] : After(b.spot),
             \A r \in Request : Waits(req'[r]) => After(req'[r].spot)
      PROVE  NzbsListed'
  BY <1>5 DEF NzbsListed, Listed, NzbKnown
<1>6. ASSUME NEW s, Listed(s), UNCHANGED <<rows, enriched>> PROVE After(s)
  BY <1>6 DEF Listed, NzbKnown
<1>7. ASSUME NEW s, NEW gone, Listed(s), rows' = rows \ gone, enriched' = enriched \ gone
      PROVE  After(s)
  BY <1>7 DEF Listed, NzbKnown
<1>8. ~Waits(Idle)
  BY DEF Idle
<1>9. ASSUME NEW r \in Request, FetchAndCache(r) PROVE NzbsListed'
  <2>1. PICK content \in Content :
           /\ \/ req' = [req EXCEPT ![r] = [req[r] EXCEPT !.content = content, !.pc = "answer"]]
              \/ req' = [req EXCEPT ![r] = Idle]
           /\ \/ UNCHANGED blobs
              \/ StoreBlob(TableOf(req[r].op),
                           [spot |-> req[r].spot, content |-> content, at |-> now])
           /\ At(r, "fetch")
           /\ UNCHANGED <<rows, enriched>>
    BY <1>9, FetchEffects
  <2>2. \A b \in blobs'["nzbs"] : Listed(b.spot)
    <3>1. CASE UNCHANGED blobs
      BY <1>4, <3>1
    <3>2. CASE StoreBlob(TableOf(req[r].op),
                         [spot |-> req[r].spot, content |-> content, at |-> now])
      <4>1. CASE req[r].op = "image"
        BY <1>1, <1>4, <3>2, <4>1 DEF StoreBlob, TableOf
      <4>2. CASE req[r].op # "image"
        <5>1. Listed(req[r].spot)
          BY <1>4, <2>1, <4>2 DEF At
        <5> QED
          BY <1>1, <1>4, <3>2, <4>2, <5>1 DEF StoreBlob, TableOf
      <4> QED
        BY <4>1, <4>2
    <3> QED
      BY <2>1, <3>1, <3>2
  <2>3. ASSUME NEW q \in Request, Waits(req'[q]) PROVE Listed(req'[q].spot)
    <3>1. q # r
      BY <1>1, <1>8, <2>1, <2>3 DEF Req
    <3>2. req'[q] = req[q]
      BY <1>1, <2>1, <3>1
    <3> QED
      BY <1>4, <2>3, <3>2
  <2> QED
    BY <1>5, <1>6, <2>1, <2>2, <2>3
<1>10. ASSUME NEW r \in Request, Serve(r), ~FetchAndCache(r) PROVE NzbsListed'
  <2>1. UNCHANGED <<rows, blobs>> /\ \A q \in Request \ {r} : req'[q] = req[q]
    BY <1>10, ServeEffects
  <2>2. enriched \subseteq enriched'
    BY <1>10 DEF Serve, ReadRow, EnrichSpot, Lookup, SendContent, UpdateSpotEnrichment
  <2>3. ASSUME NEW s, Listed(s) PROVE After(s)
    BY <2>1, <2>2, <2>3 DEF Listed, NzbKnown
  <2>4. ASSUME Waits(req'[r]) PROVE After(req'[r].spot)
    <3>1. CASE ReadRow(r)
      <4>1. PICK op \in Operation, s \in Spot, pc \in {"lookup", "enrich"} :
              /\ op = "image" \/ (op = "nzb" /\ NzbKnown(s)) \/ pc = "enrich"
              /\ req' = [req EXCEPT ![r] = [Idle EXCEPT !.pc = pc, !.op = op, !.spot = s]]
        BY <3>1, ZenonT(60) DEF ReadRow
      <4>2. req'[r].pc = pc /\ req'[r].op = op /\ req'[r].spot = s
        BY <1>1, <4>1 DEF Idle
      <4>3. Listed(req'[r].spot)
        BY <2>4, <4>1, <4>2 DEF Listed
      <4> QED
        BY <2>3, <4>3
    <3>2. CASE EnrichSpot(r)
      <4>1. /\ UpdateSpotEnrichment(req[r].spot)
            /\ Goto(r, IF req[r].op # "spot" /\ req[r].spot \in HasNzb THEN "lookup" ELSE "idle")
        BY <3>2 DEF EnrichSpot
      <4>2. req[r].spot \in HasNzb /\ req'[r].spot = req[r].spot
        BY <1>1, <1>8, <2>4, <4>1 DEF Goto, Req
      <4> QED
        BY <2>1, <4>1, <4>2 DEF UpdateSpotEnrichment, Listed, NzbKnown
    <3>3. CASE Lookup(r)
      <4>1. At(r, "lookup") /\ req'[r].op = req[r].op /\ req'[r].spot = req[r].spot
        BY <1>1, <3>3, ZenonT(60) DEF Lookup, Goto, Req
      <4>2. Waits(req[r])
        BY <2>4, <4>1 DEF At
      <4> QED
        BY <1>4, <2>3, <4>1, <4>2
    <3>4. CASE SendContent(r)
      BY <1>1, <1>8, <2>4, <3>4 DEF SendContent, Goto
    <3> QED
      BY <1>10, <3>1, <3>2, <3>3, <3>4 DEF Serve
  <2> QED
    BY <1>4, <1>5, <2>1, <2>3, <2>4
<1>11. CASE Maintain \/ OthersDelete \/ Tick \/ UNCHANGED vars
  <2>1. UNCHANGED req
    BY <1>11 DEF Maintain, StartPass, RetainBlobs, RetainRows, Measure, EvictRound,
                 OthersDelete, Tick, vars
  <2>2. blobs'["nzbs"] \subseteq blobs["nzbs"]
    BY <1>11, PassShrinks
  <2>3. \/ UNCHANGED <<rows, enriched>>
        \/ \E gone : rows' = rows \ gone /\ enriched' = enriched \ gone
    BY <1>11 DEF Maintain, StartPass, RetainBlobs, RetainRows, Measure, EvictRound,
                 OthersDelete, Tick, vars
  <2> QED
    BY <1>4, <1>5, <1>6, <1>7, <2>1, <2>2, <2>3
<1> QED
  BY <1>9, <1>10, <1>11 DEF Next

\* Every step keeps it: the first statement brings it about by HeadsAgree, and a request
\* that stores an NZB notes it.
LEMMA ClearsNext ==
  ASSUME TypeOK, NzbsListed, RoundClears, [Next]_vars
  PROVE  RoundClears'
<1>1. /\ maint \in PassState /\ blobs \in [Table -> SUBSET Blob] /\ faults \in Nat
      /\ "nzbs" \in Table /\ "images" \in Table /\ rows \subseteq Spot
  BY ServingAssumption DEF TypeOK, PassState, PassPc, Table
<1> SUFFICES ASSUME maint'.pc = "rows", faults' = 0, ~maint'.overtaken,
                    NEW T \in Heads(Aged', Chunk, Newer), NEW s \in T, Cached("nzbs", s)' # {}
             PROVE  <<"nzbs", s>> \in fresh'
  BY DEF RoundClears
<1>2. CASE RetainBlobs
  <2>1. ~Fault
    BY <1>1 DEF Fault
  <2>2. PICK gone \in Heads(Aged \cap enriched \cap HasNzb, Chunk, Newer) :
               blobs' = [blobs EXCEPT !["nzbs"] = {b \in @ : b.spot \notin gone}]
    BY <1>2, <2>1 DEF RetainBlobs
  <2>3. UNCHANGED <<rows, faults>> /\ maint'.cutoff = maint.cutoff
    BY <1>1, <1>2, <2>1 DEF RetainBlobs, NoFault, Pass, PassState
  <2>4. Aged' = Aged /\ Aged \in SUBSET Spot
    BY <1>1, <2>3 DEF Aged
  <2>5. T \in Heads(Aged, Chunk, Newer)
    BY <2>4
  <2>6. PICK b \in blobs["nzbs"] : b.spot = s /\ s \notin gone
    BY <1>1, <2>2 DEF Cached
  <2>7. s \in Aged
    BY <2>5 DEF Heads
  <2>8. s \in enriched \cap HasNzb
    BY <2>3, <2>6, <2>7 DEF NzbsListed, Listed, NzbKnown, Aged
  <2>9. s \in gone
    BY <2>2, <2>4, <2>5, <2>7, <2>8, HeadsAgree
  <2> QED
    BY <2>6, <2>9
<1>3. CASE ~RetainBlobs
  <2>1. ~Maintain
    <3>1. AfterRetention \/ EndPass \/ NextRound => maint'.pc # "rows"
      <4>1. EndPass \/ StartEvict => maint'.pc # "rows"
        BY DEF EndPass, StartEvict, NoPass
      <4>2. NextRound => maint'.pc # "rows"
        BY <1>1 DEF NextRound, PassState
      <4> QED
        BY <4>1, <4>2 DEF AfterRetention
    <3>2. Pass("measure") \/ Pass("evict") => maint'.pc # "rows"
      BY <1>1 DEF Pass, PassState
    <3>3. ~StartPass
      BY <3>1 DEF StartPass, NoPass
    <3>4. ~RetainRows
      BY <3>1 DEF RetainRows
    <3>5. ~Measure
      BY <3>1, <3>2 DEF Measure
    <3>6. ~EvictRound
      <4>1. maint.pc = "evict" => [maint EXCEPT !.table = "nzbs"].pc # "rows"
        BY <1>1 DEF PassState
      <4> QED
        BY <3>1, <3>2, <4>1 DEF EvictRound
    <3> QED
      BY <1>3, <3>3, <3>4, <3>5, <3>6 DEF Maintain
  <2>2. maint.pc = "rows" /\ UNCHANGED maint
    <3>1. maint.pc = "rows"
      BY <2>1, OnlyThePassMoves
    <3>2. ASSUME OthersDelete PROVE FALSE
      BY <1>1, <3>1, <3>2 DEF OthersDelete, PassState
    <3>3. ASSUME NEW r \in Request, Serve(r) PROVE UNCHANGED maint
      BY <3>3, FetchEffects, ServeEffects
    <3> QED
      BY <2>1, <3>1, <3>2, <3>3 DEF Next, Tick, vars
  <2>3. UNCHANGED rows /\ (UNCHANGED <<blobs, fresh>> \/ \E r \in Request : FetchAndCache(r))
    <3>1. ~OthersDelete
      BY <1>1, <2>2 DEF OthersDelete, PassState
    <3>2. ASSUME NEW r \in Request, Serve(r)
          PROVE  UNCHANGED rows /\ (UNCHANGED <<blobs, fresh>> \/ FetchAndCache(r))
      BY <3>2, FetchEffects, ServeEffects
    <3> QED
      BY <2>1, <3>1, <3>2 DEF Next, Tick, vars
  <2>4. faults = 0
    <3>1. NoFault \/ Fault
      BY DEF Next, Serve, ReadRow, EnrichSpot, Lookup, FetchAndCache, SendContent, Maintain,
             StartPass, RetainBlobs, RetainRows, Measure, EvictRound, OthersDelete, Tick, vars,
             NoFault
    <3> QED
      BY <1>1, <3>1 DEF NoFault, Fault
  <2>5. Aged' = Aged
    BY <2>2, <2>3 DEF Aged
  <2>6. Cached("nzbs", s) # {} => <<"nzbs", s>> \in fresh
    BY <2>2, <2>4, <2>5 DEF RoundClears
  <2>7. CASE UNCHANGED <<blobs, fresh>>
    BY <2>6, <2>7 DEF Cached
  <2>8. ASSUME NEW r \in Request, FetchAndCache(r), ~UNCHANGED <<blobs, fresh>>
        PROVE  <<"nzbs", s>> \in fresh'
    <3>1. PICK content \in Content :
             /\ StoreBlob(TableOf(req[r].op),
                          [spot |-> req[r].spot, content |-> content, at |-> now])
             /\ Note(TableOf(req[r].op), req[r].spot)
      BY <2>8, FetchEffects
    <3>2. fresh' = fresh \cup {<<TableOf(req[r].op), req[r].spot>>}
      BY <2>2, <3>1 DEF Note
    <3>3. CASE TableOf(req[r].op) = "nzbs"
      <4>1. s = req[r].spot \/ Cached("nzbs", s) # {}
        BY <1>1, <3>1, <3>3 DEF StoreBlob, Cached
      <4> QED
        BY <2>6, <3>2, <3>3, <4>1
    <3>4. CASE TableOf(req[r].op) = "images"
      <4>1. Cached("nzbs", s) # {}
        BY <1>1, <3>1, <3>4 DEF StoreBlob, Cached
      <4> QED
        BY <2>6, <3>2, <4>1
    <3> QED
      BY <3>3, <3>4 DEF TableOf
  <2> QED
    BY <2>3, <2>7, <2>8
<1> QED
  BY <1>2, <1>3

\* The retention removes a spot together with its cached NZB, for any number of rows and any
\* size of a round, although the two statements of a round look for their rows separately:
\* without a withdrawal in between and without a failing call, an NZB that outlives its row
\* was stored by a request after the pass began.
THEOREM RetentionIsClean == Spec => RetentionTakesNzbs
<1> DEFINE Inv == TypeOK /\ NzbsListed /\ RoundClears
<1>1. Init => NzbsListed /\ RoundClears
  BY DEF Init, NzbsListed, RoundClears, NoPass, Idle, Table
<1>2. Inv /\ [Next]_vars => Inv'
  BY TypeNext, ListedNext, ClearsNext
<1>3. ASSUME Inv, [Next]_vars, maint.pc = "rows", maint'.pc # "rows", faults' = 0,
             ~maint.overtaken, NEW s \in rows \ rows', Cached("nzbs", s) # {}
      PROVE  <<"nzbs", s>> \in fresh
  <2>1. Maintain
    BY <1>3, OnlyThePassMoves
  <2>2. RetainRows
    BY <1>3, <2>1 DEF Maintain, StartPass, RetainBlobs, Measure, EvictRound
  <2>3. faults = 0 /\ ~Fault
    <3>1. faults \in Nat
      BY <1>3, ServingAssumption DEF TypeOK
    <3> QED
      BY <1>3, <2>2, <3>1 DEF RetainRows, NoFault, Fault
  <2>4. PICK gone \in Heads(Aged, Chunk, Newer) : rows' = rows \ gone
    BY <2>2, <2>3 DEF RetainRows
  <2>5. s \in gone
    BY <1>3, <2>4
  <2> QED
    BY <1>3, <2>3, <2>4, <2>5 DEF RoundClears
<1>4. Inv /\ [Next]_vars
        => [maint.pc = "rows" /\ maint'.pc # "rows" /\ faults' = 0 /\ ~maint.overtaken
              => \A s \in rows \ rows' : Cached("nzbs", s) # {} => <<"nzbs", s>> \in fresh]_vars
  BY <1>3
<1> QED
  BY TypeInit, <1>1, <1>2, <1>4, PTL DEF Spec, RetentionTakesNzbs
=============================================================================
