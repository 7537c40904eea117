------------------------------- MODULE Serving -------------------------------
(***************************************************************************)
(* The spot API of internal/api/router.go: details, NZB, hand-over to      *)
(* SABnzbd and image, on the rows and the two blob caches that the         *)
(* maintenance pass trims and other workers delete from at the same time.  *)
(* One step is one database call, with the exchange with the news server   *)
(* that leads to it, or the answer.  A spot is its row id; every blob      *)
(* counts one byte.                                                        *)
(***************************************************************************)
EXTENDS Integers, FiniteSets

CONSTANTS
  Request,     \* the requests that run at once
  Spot,        \* the rows at the start, numbered
  Posted,      \* the day each was posted
  Hidden,      \* the 18+ spots of a server without ALLOW_ADULT
  HasNzb,      \* the spots whose article names an NZB
  HasImage,    \* those whose article names an image posted to Usenet
  Plain,       \* the spots whose NZB was posted as plain XML and not deflated
  Retention,   \* RETENTION_DAYS
  Chunk,       \* rows one round of the retention deletes (5000)
  CacheMax,    \* CACHE_MAX_BYTES
  Batch,       \* blobs one round of the eviction deletes (200)
  FirstDay,    \* the day the server starts
  MaxTime,     \* bound: the last day
  MaxFaults    \* bound: exchanges and database calls that go wrong

ASSUME ServingAssumption ==
  /\ Spot \subseteq Nat /\ IsFiniteSet(Spot) /\ Spot # {} /\ Posted \in [Spot -> Nat]
  /\ Retention \in Nat /\ CacheMax \in Nat /\ MaxFaults \in Nat
  /\ FirstDay \in Nat /\ MaxTime \in Nat /\ FirstDay <= MaxTime
  /\ Chunk \in Nat \ {0} /\ Batch \in Nat \ {0}

Table == {"images", "nzbs"}

\* getSpot; downloadNZB and sendToSAB, which share resolveNZB; getImage.
Operation == {"spot", "nzb", "image"}

\* What a blob holds: all that was posted, or what came before the connection ended.
Content == {"whole", "cut"}
Blob == [spot : Spot, content : Content, at : 0 .. MaxTime]

VARIABLES
  rows,        \* the spots that still have a row
  enriched,    \* the spots whose row got the nzb_id and image_url of the article
  blobs,       \* the two cache tables
  req,         \* the requests, with what each has read so far
  maint,       \* the maintenance pass, with its cutoff and the table it evicts from
  now,         \* the day
  faults,      \* what has gone wrong so far
  fresh        \* history: the blobs stored since the pass began

vars == <<rows, enriched, blobs, req, maint, now, faults, fresh>>

Idle == [pc |-> "idle", op |-> "spot", spot |-> CHOOSE s \in Spot : TRUE, content |-> "whole"]

\* No maintenance pass.  `overtaken' is history: others deleted a row between the two
\* statements of a round of the retention.
NoPass == [pc |-> "idle", table |-> "images", cutoff |-> 0, overtaken |-> FALSE]

TypeOK ==
  /\ rows \subseteq Spot /\ enriched \subseteq Spot
  /\ blobs \in [Table -> SUBSET Blob]
  /\ \A t \in Table : \A a, b \in blobs[t] : a.spot = b.spot => a = b
  /\ req \in [Request ->
       [pc : {"idle", "enrich", "lookup", "fetch", "answer"}, op : Operation,
        spot : Spot, content : Content]]
  /\ maint \in [pc : {"idle", "blobs", "rows", "measure", "evict"}, table : Table,
                cutoff : Int, overtaken : BOOLEAN]
  /\ now \in 0 .. MaxTime /\ faults \in 0 .. MaxFaults
  /\ fresh \subseteq Table \X Spot

Init ==
  /\ rows = Spot
  /\ enriched \in SUBSET Spot
  /\ blobs = [t \in Table |-> {}]
  /\ req = [r \in Request |-> Idle]
  /\ maint = NoPass
  /\ now = FirstDay /\ faults = 0
  /\ fresh = {}

Fault == faults < MaxFaults /\ faults' = faults + 1
NoFault == UNCHANGED faults

-----------------------------------------------------------------------------
(* Requests.                                                               *)

At(r, pc) == req[r].pc = pc

\* The request goes on, or ends with an answer that carries no content.
Goto(r, pc) == req' = [req EXCEPT ![r] = IF pc = "idle" THEN Idle ELSE [@ EXCEPT !.pc = pc]]

TableOf(op) == IF op = "image" THEN "images" ELSE "nzbs"
Cached(t, s) == {b \in blobs[t] : b.spot = s}

\* GetSpotByID and hiddenAdult.
Found(s) == s \in rows \ Hidden

\* The row of s has an nzb_id, or an image_url that names articles.
NzbKnown(s) == s \in enriched \cap HasNzb
ImageKnown(s) == s \in enriched \cap HasImage

\* A request begins with the row (getSpot, resolveNZB, getImage): without one, or on an
\* error, there is nothing more to do.  An image needs the URL an earlier enrichment stored; the others enrich as
\* long as the row has no nzb_id.
ReadRow(r) ==
  /\ At(r, "idle")
  /\ \E op \in Operation, s \in Spot :
       LET begin(pc) == req' = [req EXCEPT ![r] = [Idle EXCEPT !.pc = pc, !.op = op, !.spot = s]]
       IN  /\ Found(s)
           /\ \/ op = "image" /\ ImageKnown(s) /\ begin("lookup")
              \/ op = "nzb" /\ NzbKnown(s) /\ begin("lookup")
              \/ op # "image" /\ ~NzbKnown(s) /\ begin("enrich")
  /\ UNCHANGED <<rows, enriched, blobs, maint, now, faults, fresh>>

\* UpdateSpotEnrichment: a row that is gone is not updated.
UpdateSpotEnrichment(s) == enriched' = enriched \cup ({s} \cap rows)

\* enrichSpot (HEAD, and the body of older articles), then UpdateSpotEnrichment.  When the
\* first fails getSpot answers all the same and resolveNZB gives up.  An error of
\* the second is ignored: resolveNZB goes on if it knows an nzb_id.
EnrichSpot(r) ==
  LET s == req[r].spot
      next == IF req[r].op # "spot" /\ s \in HasNzb THEN "lookup" ELSE "idle"
  IN  /\ At(r, "enrich")
      /\ \/ NoFault /\ UpdateSpotEnrichment(s) /\ Goto(r, next)
         \/ Fault /\ UNCHANGED enriched /\ Goto(r, next)
         \/ Fault /\ UNCHANGED enriched /\ Goto(r, "idle")
      /\ UNCHANGED <<rows, blobs, maint, now, fresh>>

\* GetCachedNZB and GetCachedImage: a failing call counts as a miss.
Lookup(r) ==
  LET hit == Cached(TableOf(req[r].op), req[r].spot)
  IN  /\ At(r, "lookup")
      /\ \/ /\ NoFault
            /\ \E b \in hit :
                 req' = [req EXCEPT ![r].content = b.content, ![r].pc = "answer"]
         \/ NoFault /\ hit = {} /\ Goto(r, "fetch")
         \/ Fault /\ Goto(r, "fetch")
      /\ UNCHANGED <<rows, enriched, blobs, maint, now, fresh>>

\* Fault: what was inflated before the stream broke off is good enough.
DecodesLenient(op, s) == TRUE

\* A body that was cut off still decodes: DecodeNZBBodyLimit refuses a deflate stream that
\* breaks off but returns plain XML as it is, DecodeImageBody cannot tell.
DecodesCut(op, s) == op = "image" \/ s \in Plain

\* A blob stored while a pass runs is fresh to it.
Note(t, s) == fresh' = IF maint.pc = "idle" THEN {} ELSE fresh \cup {<<t, s>>}

\* Fault: a second row for a blob that is there already.
StoreTwice(t, blob) == blobs' = [blobs EXCEPT ![t] = @ \cup {blob}]

\* CacheNZB and CacheImage: INSERT OR REPLACE, outside lockWrites.
StoreBlob(t, blob) == blobs' = [blobs EXCEPT ![t] = (@ \ Cached(t, blob.spot)) \cup {blob}]

\* fetchNZBSegment and fetchImageSegments: readDot returns a body that ends with the
\* connection as if it were complete.  Any error ends the request (502).  The content is
\* stored, an error of that being ignored, and answered.
FetchAndCache(r) ==
  LET t == TableOf(req[r].op)
      s == req[r].spot
      got(content) == req' = [req EXCEPT ![r].content = content, ![r].pc = "answer"]
      store(content) ==
        StoreBlob(t, [spot |-> s, content |-> content, at |-> now]) /\ Note(t, s)
  IN  /\ At(r, "fetch")
      /\ \/ NoFault /\ got("whole") /\ store("whole")
         \/ Fault /\ got("whole") /\ UNCHANGED <<blobs, fresh>>
         \/ /\ Fault /\ DecodesCut(req[r].op, s) /\ got("cut")
            /\ store("cut") \/ UNCHANGED <<blobs, fresh>>
         \/ Fault /\ Goto(r, "idle") /\ UNCHANGED <<blobs, fresh>>
      /\ UNCHANGED <<rows, enriched, maint, now>>

\* downloadNZB and getImage write the content, sendToSAB uploads it (or answers 502).
SendContent(r) ==
  /\ At(r, "answer")
  /\ Goto(r, "idle")
  /\ UNCHANGED <<rows, enriched, blobs, maint, now, faults, fresh>>

Serve(r) ==
  ReadRow(r) \/ EnrichSpot(r) \/ Lookup(r) \/ FetchAndCache(r) \/ SendContent(r)

-----------------------------------------------------------------------------
(* The maintenance pass: applyRetention and evictCache of one goroutine.   *)

\* The first n elements of S in the order of `precedes' (any, among equals).
Heads(S, n, precedes(_, _)) ==
  {T \in SUBSET S :
     /\ Cardinality(T) = IF n < Cardinality(S) THEN n ELSE Cardinality(S)
     /\ \A a \in T, b \in S \ T : ~precedes(b, a)}

\* The order of the index on posted_at that both statements of a round walk.
Newer(a, b) == Posted[a] > Posted[b] \/ (Posted[a] = Posted[b] /\ a < b)
Older(a, b) == a.at < b.at

Pass(pc) == maint' = [maint EXCEPT !.pc = pc] /\ UNCHANGED fresh
EndPass == maint' = NoPass /\ fresh' = {}

\* EvictCacheTo begins.
StartEvict == maint' = [NoPass EXCEPT !.pc = "measure"] /\ fresh' = {}

\* evictCache follows the retention, whether that succeeded or not.
AfterRetention == IF CacheMax > 0 THEN StartEvict ELSE EndPass

\* runOnce reaches applyRetention; without RETENTION_DAYS it goes on to evictCache.
StartPass ==
  /\ maint.pc = "idle"
  /\ IF Retention > 0
       THEN maint' = [NoPass EXCEPT !.pc = "blobs", !.cutoff = now - Retention] /\ UNCHANGED fresh
       ELSE AfterRetention
  /\ UNCHANGED <<rows, enriched, blobs, req, now, faults>>

Aged == {s \in rows : Posted[s] < maint.cutoff}

\* Fault: the two statements of a round walk the rows in opposite order.
RetainBlobsOldest ==
  /\ maint.pc = "blobs"
  /\ \/ /\ NoFault
        /\ \E gone \in Heads(Aged \cap enriched \cap HasNzb, Chunk, LAMBDA a, b : Newer(b, a)) :
             blobs' = [blobs EXCEPT !["nzbs"] = {b \in @ : b.spot \notin gone}]
        /\ Pass("rows")
     \/ Fault /\ AfterRetention /\ UNCHANGED blobs
  /\ UNCHANGED <<rows, enriched, req, now>>

\* DeleteSpotsOlderThan, first statement of a round: the NZBs of the next rows.
RetainBlobs ==
  /\ maint.pc = "blobs"
  /\ \/ /\ NoFault
        /\ \E gone \in Heads(Aged \cap enriched \cap HasNzb, Chunk, Newer) :
             blobs' = [blobs EXCEPT !["nzbs"] = {b \in @ : b.spot \notin gone}]
        /\ Pass("rows")
     \/ Fault /\ AfterRetention /\ UNCHANGED blobs
  /\ UNCHANGED <<rows, enriched, req, now>>

NextRound == maint' = [maint EXCEPT !.pc = "blobs", !.overtaken = FALSE] /\ UNCHANGED fresh

\* Second statement: the rows themselves; a full round is followed by another.
RetainRows ==
  /\ maint.pc = "rows"
  /\ \/ /\ NoFault
        /\ \E gone \in Heads(Aged, Chunk, Newer) :
             /\ rows' = rows \ gone
             /\ enriched' = enriched \ gone
             /\ IF Cardinality(gone) = Chunk THEN NextRound ELSE AfterRetention
     \/ Fault /\ AfterRetention /\ UNCHANGED <<rows, enriched>>
  /\ UNCHANGED <<blobs, req, now>>

\* CacheBytes.  Its two queries are one step here: blobs only come in while the pass is
\* here, so their sum is one the caches had in between.
CacheBytes == Cardinality(blobs["images"]) + Cardinality(blobs["nzbs"])

Measure ==
  /\ maint.pc = "measure"
  /\ \/ NoFault /\ CacheBytes > CacheMax /\ Pass("evict")
     \/ NoFault /\ CacheBytes <= CacheMax /\ EndPass
     \/ Fault /\ EndPass
  /\ UNCHANGED <<rows, enriched, blobs, req, now>>

\* Fault: the NZBs go first and the images stay.
TablesSwapped(t) == IF t = "images" THEN "nzbs" ELSE "images"

\* The table a round of the eviction deletes from.
EvictFrom(t) == t

\* Fault: the loop ends with the images.
EvictRoundImages ==
  LET t == EvictFrom(maint.table)
  IN  /\ maint.pc = "evict"
      /\ \/ /\ NoFault /\ blobs[t] # {}
            /\ \E gone \in Heads(blobs[t], Batch, Older) : blobs' = [blobs EXCEPT ![t] = @ \ gone]
            /\ Pass("measure")
         \/ NoFault /\ blobs[t] = {} /\ UNCHANGED blobs /\ EndPass
      /\ UNCHANGED <<rows, enriched, req, now>>

\* EvictCacheTo, one round: the oldest blobs of the table; when it is empty the next one.
EvictRound ==
  LET t == EvictFrom(maint.table)
  IN  /\ maint.pc = "evict"
      /\ \/ /\ NoFault /\ blobs[t] # {}
            /\ \E gone \in Heads(blobs[t], Batch, Older) : blobs' = [blobs EXCEPT ![t] = @ \ gone]
            /\ Pass("measure")
         \/ /\ NoFault /\ blobs[t] = {} /\ UNCHANGED blobs
            /\ IF maint.table = "images"
                 THEN maint' = [maint EXCEPT !.table = "nzbs"] /\ UNCHANGED fresh
                 ELSE EndPass
         \/ Fault /\ UNCHANGED blobs /\ EndPass
      /\ UNCHANGED <<rows, enriched, req, now>>

Maintain == StartPass \/ RetainBlobs \/ RetainRows \/ Measure \/ EvictRound

-----------------------------------------------------------------------------
\* A withdrawal in delete mode or the blacklist deletes rows, and no blobs.
OthersDelete ==
  /\ \E s \in rows : rows' = rows \ {s} /\ enriched' = enriched \ {s}
  /\ maint' = [maint EXCEPT !.overtaken = maint.pc = "rows"]
  /\ UNCHANGED <<blobs, req, now, faults, fresh>>

Tick ==
  /\ now < MaxTime
  /\ now' = now + 1
  /\ UNCHANGED <<rows, enriched, blobs, req, maint, faults, fresh>>

Next == (\E r \in Request : Serve(r)) \/ Maintain \/ OthersDelete \/ Tick

Spec == Init /\ [][Next]_vars

-----------------------------------------------------------------------------
(* Properties.                                                             *)

\* A deflated NZB is cached, downloaded and handed to SABnzbd whole or not at all, although
\* readDot takes a connection that ends for the end of the body (DecodeNZBBodyLimit).
WholeNzbs ==
  /\ \A b \in blobs["nzbs"] : b.spot \notin Plain => b.content = "whole"
  /\ \A r \in Request :
       At(r, "answer") /\ req[r].op # "image" /\ req[r].spot \notin Plain
         => req[r].content = "whole"

\* The retention removes a spot together with its cached NZB: one that stays behind was
\* stored since the pass began, unless a withdrawal deleted a row between the two statements
\* of the round (then they no longer mean the same rows) or an exchange or call failed.
RetentionTakesNzbs ==
  [][ maint.pc = "rows" /\ maint'.pc # "rows" /\ faults' = 0 /\ ~maint.overtaken
        => \A s \in rows \ rows' : Cached("nzbs", s) # {} => <<"nzbs", s>> \in fresh ]_vars

\* When EvictCacheTo returns without an error the caches fit, but for what requests have
\* stored since it began.
EvictionSuffices ==
  [][ maint.pc \in {"measure", "evict"} /\ maint'.pc = "idle" /\ UNCHANGED faults
        => CacheBytes <= CacheMax + Cardinality(fresh) ]_vars

\* No NZB is evicted while an image remains that was there when the eviction began.
ImagesFirst ==
  [][ maint.pc = "evict" /\ maint'.pc = "measure" /\ blobs'["nzbs"] # blobs["nzbs"]
        => \A b \in blobs["images"] : <<"images", b.spot>> \in fresh ]_vars
=============================================================================
