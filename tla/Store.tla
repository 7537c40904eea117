-------------------------------- MODULE Store --------------------------------
(***************************************************************************)
(* The tables of the SQLite database that the background workers share     *)
(* (internal/db): spots, moderated_ring and the one sync_state row of the  *)
(* group.  Every operator below is one database call, hence one atomic     *)
(* step; what two calls of the same worker do is never atomic.             *)
(***************************************************************************)
EXTENDS Spotnet

VARIABLES
  spots,            \* message-ids with a row in spots
  moderated,        \* those whose row has moderated = 1
  owner,            \* spots.spotter_id, NoSpotter while unknown
  ring,             \* message-ids in moderated_ring
  stamp,            \* moderated_ring.stamp (0 when not in the ring)
  lastArticle,      \* sync_state.last_article_num
  backfillArticle,  \* sync_state.backfill_article_num
  sweepArticle,     \* sync_state.dispose_sweep_article_num
  indexed           \* history: every message-id that ever had a row

tables == <<spots, moderated, owner, ring, stamp, indexed>>
syncState == <<lastArticle, backfillArticle, sweepArticle>>
storeVars == <<tables, syncState>>

StoreTypeOK ==
  /\ spots \subseteq Num
  /\ moderated \subseteq spots
  /\ owner \in [Num -> Key]
  /\ ring \subseteq Num
  /\ stamp \in [Num -> Nat]
  /\ lastArticle \in 0 .. NumArticles
  /\ backfillArticle \in 0 .. NumArticles
  /\ sweepArticle \in 0 .. NumArticles
  /\ indexed \subseteq Num

\* What the listings show: SearchSpots always asks for moderated = 0.
Visible == spots \ moderated

\* Fault: INSERT OR REPLACE, which resets the flag of a row already there.
InsertSpotsReplacing(ids) ==
  /\ spots' = spots \cup ids
  /\ moderated' = moderated \ ids
  /\ owner' = [n \in Num |-> IF n \in ids THEN NoSpotter ELSE owner[n]]
  /\ indexed' = indexed \cup ids
  /\ UNCHANGED <<ring, stamp>>

\* INSERT OR IGNORE ... WHERE NOT EXISTS (moderated_ring): rows already there, and
\* ids in the ring, are left alone; a new row has an unknown owner.
InsertSpots(ids) ==
  LET new == (ids \ spots) \ ring
  IN  /\ spots' = spots \cup new
      /\ owner' = [n \in Num |-> IF n \in new THEN NoSpotter ELSE owner[n]]
      /\ indexed' = indexed \cup new
      /\ UNCHANGED <<moderated, ring, stamp>>

\* Fault: an entry only for what still has a row.
MarkModeratedRows(ids, t) ==
  /\ ring' = ring \cup (ids \cap spots)
  /\ stamp' = [n \in Num |-> IF n \in (ids \cap spots) \ ring THEN t ELSE stamp[n]]
  /\ moderated' = moderated \cup (ids \cap spots)
  /\ UNCHANGED <<spots, owner, indexed>>

\* One transaction: the ring entry (kept if there) and the flag on the row, if any.
MarkModerated(ids, t) ==
  /\ ring' = ring \cup ids
  /\ stamp' = [n \in Num |-> IF n \in ids \ ring THEN t ELSE stamp[n]]
  /\ moderated' = moderated \cup (ids \cap spots)
  /\ UNCHANGED <<spots, owner, indexed>>

\* The rows go, and with them the owner and the flag; the ring is not touched.
DeleteRows(ids) ==
  /\ spots' = spots \ ids
  /\ moderated' = moderated \ ids
  /\ owner' = [n \in Num |-> IF n \in ids THEN NoSpotter ELSE owner[n]]
  /\ UNCHANGED <<ring, stamp, indexed>>

DeleteSpotsByMessageID(ids) == DeleteRows(ids)

\* UPDATE spots SET spotter_id: nothing happens when the row has gone.
SetSpotOwner(n, spotter) ==
  /\ owner' = [owner EXCEPT ![n] = IF n \in spots THEN spotter ELSE @]
  /\ UNCHANGED <<spots, moderated, ring, stamp, indexed>>

\* DELETE FROM moderated_ring WHERE stamp < cutoff.
PruneModeratedRing(cutoff) ==
  LET old == {n \in ring : stamp[n] < cutoff}
  IN  /\ ring' = ring \ old
      /\ stamp' = [n \in Num |-> IF n \in old THEN 0 ELSE stamp[n]]
      /\ UNCHANGED <<spots, moderated, owner, indexed>>

SetSyncState(n) ==
  lastArticle' = n /\ UNCHANGED <<backfillArticle, sweepArticle>>

\* Fault: the upsert replaces the row and with it the other watermarks.
SetBackfillStateReplacing(n) ==
  backfillArticle' = n /\ lastArticle' = 0 /\ sweepArticle' = 0

SetBackfillState(n) ==
  backfillArticle' = n /\ UNCHANGED <<lastArticle, sweepArticle>>

\* A plain UPDATE: the row exists, because the sweep only runs once lastArticle > 0.
SetDisposeSweepState(n) ==
  sweepArticle' = n /\ UNCHANGED <<lastArticle, backfillArticle>>
=============================================================================
