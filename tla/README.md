# Spottr in TLA+

A formal model of Spottr: the workers that keep its spot index, the NNTP connection pool
they share with the API, the spot API with its blob caches, login and rate limiting, and the
database over its life: upgrades, kinds, listings, Newznab searches, the API key.
The modules are checked with TLC on small instances; all safety properties are also
proved with TLAPS for every value of the constants. `PROJECT.json` maps each
definition to the lines it models and lists runs, mutants, findings, hazards and theorems.

    tlc -workers 2 -config SyncMark.cfg MCSync      # one run
    tlapm SyncProofs.tla                            # one set of proofs

## 1. The system

| Part | State | Operations | Correct when |
|---|---|---|---|
| Forward sync (`sync/syncer.go`) | `sync_state.last_article_num` | every interval: GROUP, then per chunk overview, insert, moderation, checkpoint | nothing acceptable below the watermark is missing; every article is reached |
| Backfill (`sync/backfill.go`) | `backfill_article_num` | chunk by chunk downwards; ends on completion or on the first error | no hole between the two watermarks; "complete" is true and comes |
| Withdrawal sweep (`sync/disposesweep.go`) | `dispose_sweep_article_num`, failures in a row | chunk by chunk upwards from the oldest spot, once; retries, gives up after ten | afterwards no listed spot has a withdrawal that should have hidden it |
| `applyModeration` (`sync/moderation.go`) | locals of a chunk | per withdrawal: target, owner lookup, validation; then mark, or delete and record | only the moderator or the poster in time withdraws; withdrawn spots stay out |
| Maintenance (`sync/maintenance.go`) | cutoff of the pass | refresh lists, blacklist purge, retention, ring pruning, cache eviction | ring entries outlive the spots they suppress; caches fit; NZBs go with their rows |
| Database (`db/*.go`) | `spots`, `moderated_ring`, `sync_state`, `nzbs`, `images`, settings, FTS | one call, one transaction; bulk writers take `writeMu`, requests and the deleting of withdrawn spots do not | three writers of one `sync_state` row keep each other's columns |
| NNTP pool (`nntp/pool.go`) | semaphore, idle list, leases | Get, Release, MarkBroken, Reap, Close | ceiling, one owner per connection, no reuse of a desynchronised one, no starvation |
| NNTP client (`nntp/client.go`) | one connection | GROUP, OVER, HEAD, BODY, AUTHINFO, QUIT | errors are told apart from ends |
| Spot API (`api/router.go`) | rows and caches of the database | details with lazy enrichment, NZB, image, hand-over to SABnzbd | nothing broken off is cached as an NZB; caches tolerate rows and blobs vanishing |
| Sessions and lockout (`auth/session.go`) | tokens, failure counters, locks | Create, Valid, Delete, Locked, RecordFailure, RecordSuccess, cleanup | no failure forgotten, no lock lifted early or kept for ever |
| Rate limiter (`api/middleware.go`) | token bucket per address | allow, cleanup | burst plus rate is never exceeded |
| Search, kinds, paging, Newznab (`db/kind.go`, `db/fts.go`, `api/router.go`) | none of their own | queries | paging visits everything once; filters agree with kinds; 18+ spots only where asked for and allowed |
| Schema and migrations (`db/schema.go`, `db/migrations.go`) | `user_version`, rows, watermarks | each once, in order, in a transaction of its own | rows of any release end up as if parsed now, none is lost |
| API key (`api/apikey.go`) | `app_settings` | resolved at every start | the same for every start without `API_KEY` |
| Spotter lists (`sync/maintenance.go`) | `spotter_lists` | replaced at every refresh | a bad feed leaves the list alone |
| Signatures, parsing, SABnzbd client, headers, metrics, configuration, web interface | none | conversions and I/O | - |

How they interact: `main` starts the four workers as goroutines on one database and one pool;
each reads and writes in several calls, and between two calls of one anything the others do
can happen. HTTP handlers run concurrently with them, lease connections from the same pool,
enrich rows lazily and fill the caches that maintenance empties. A stop may fall between any
two calls. Nothing but the database survives it.

What is hard here: the order of calls of workers that share rows and watermarks; stops and
failing calls in the middle of a chunk that is read again later; a moderation mode that
changes between starts; chunk arithmetic at both ends of the group; limits (connections,
cache size, failures, tokens) maintained by several critical sections; answers from upstream
that end early. The list, line by line, is `hazards` in `PROJECT.json`.

## 2. The modules

    Spotnet ---+
    Store -----+-- Moderation -- Sync -- MCSync
    Usenet ----+             Index ---+- SyncProofs -- WatermarkProofs, PromiseProofs
    Pool ------------------------------- PoolProofs
    Clients -- RateLimiter, Sessions -- Access -- MCAccess, AccessProofs
    Serving ---------------------------- MCServing, ServingProofs
    Kinds -- Migrations -- Catalogue --- MCCatalogue
      +-- KindsProofs -------+---------- CatalogueProofs

**Spotnet** (articles and withdrawal rules, `spotnet/moderation.go`, the verdict of
`ParseFromOverview`): an article is a record of what the workers tell apart (kind, key, whether
signatures hold, whether its id is well formed, day, target). RSA and hashcash are verdicts.

**Store** (`db/db.go`, `db/maintenance.go`): the rows (`indexed`, `moderated`, `owner`), the
ring, and the three watermarks. Each operator is one database call, atomic as its transaction
or statement is; it states the effect and leaves the caller's control to the caller.

**Usenet** (external, from how `nntp/client.go` is used): a numbered group that grows at the
top and loses its oldest articles, whose overviews leave out missing numbers and may refuse an
empty range, and whose HEAD answers, is gone, or fails.

**Moderation**: `applyModeration` as its two callers run it. `cmds` are the withdrawals of the
chunk still to consider, `targets` what is queued, `lookupErr` the error that is returned after
the rest has been applied. In delete mode the deletion and the ring entry are two steps, as in
the code.

**Sync**: the four workers, the enrichment of a row by the API, the provider, time, and
`Restart`, which stops the process at any step and starts it with any mode of `Modes`. One
action per call of the code; reading an overview and inserting from it are one step because
the inserted rows depend on nothing another worker writes.

**Index**: the abstract specification of what the workers promise of the listings: the group
offers spots (`Post`), offered ones that were not withdrawn are listed (`Publish`), an entitled
withdrawal takes a spot away for good (`Withdraw`), and retention or the blacklist remove
spots where they are configured (`Purge`). It knows no chunks, watermarks, queues, failures or
restarts. `Sync!Promise` instantiates it with `listed <- Visible`, `gone <- withdrawn`,
`offered` the acceptable articles of the group so far and `revocable` the spots with an
entitled withdrawal; `KeepsPromise` says that Sync implements it, most of its steps being
stuttering steps of Index.

**Pool**: `pool.go` by channel operation, critical section and blocking call. `sem` counts the
filled slots of the channel, `idle` is the list, `held` the connection a caller has in hand,
`closing` what Reap or Close took off the list and has not closed yet, `dirty` (history) the
connections on which a command failed.

**Clients, RateLimiter, Sessions, Access**: `resolveClientIP`, the bucket map, the session
store, and the way of a request through them. Every operator of RateLimiter and Sessions is
one critical section; `Access` puts them in the order of `middleware` and `authLogin`. Times
are kept as ages and as ticks left, so time needs no bound. A request costs `Cost` units and a
tick adds `Rate`, so `Rate/Cost` stands for any rational rate.

**Serving**: `getSpot`, `resolveNZB` (for downloads and SABnzbd alike) and `getImage` as
"row, enrichment, cache, fetch, answer", next to `DeleteSpotsOlderThan` statement by statement
and `EvictCacheTo` round by round, with rows vanishing by withdrawal at any time. A fetch
is joined with the database call that follows it: upstream shares no state with the other
steps. A blob is whole or cut; every blob counts one byte.

**Kinds**: `KindOf` and `kindCaseSQL` as two lists of rules, one over all codes of a spot and
one column by column as the SQL is; `parseSubCats`, which decides on the columns; and the
requests: `includeAdult`, `listSpots`, `newznabFilter`, `newznabCatID`, and the WHERE clause of
`SearchSpots` on one row. One code stands for each list of codes the rules tell apart.

**Migrations**: `user_version`, rows and watermarks, one operator per migration, each atomic
with its version number as its transaction is. `OldDatabase(v, lo, hi)` is what release v
left behind when it had read articles lo to hi, as the comments of the migrations describe it:
withdrawals indexed as spots, dates of indexing, raw text, audiobooks flagged 18+, no kinds.

**Catalogue**: a database from its first start under this release on. The process starts
(with any `ALLOW_ADULT` and with or without `API_KEY`), migrates, resolves the key, runs, and
may stop at any step, between two migrations too. Running, the forward sync and the backfill
fill it an article a step (Sync has them in detail), and a client walks through a listing by
`before=next_before`; its cursor outlives a restart. `origin`, `knownKey`, `seen`, `steady` and
`edges` are history.

History variables (`withdrawn`, `syncStart`, `dirty`, `credit`, `streak`, `late`, `fresh`,
`maint.overtaken`, and those of Catalogue) are written and never read by actions. Definitions introduced by "Fault:"
are the mutated forms used to show that a property can fail; no specification uses them.

## 3. The runs

| Run | Instance | What it shows |
|---|---|---|
| `sync_mark` | fresh database, modes off/mark, 2 NNTP failures, 2 restarts | types, `NoGap`, `SweptMeansWithdrawn`, `WithdrawnStaysOut` |
| `sync_delete` | modes off/delete, strict signatures, retention, blacklist, empty ranges refused, one NNTP and one database failure, a restart | `OnlyEntitledWithdrawals`, `SweptMeansWithdrawn` also with deletion, `DeletedStaysOut`, `PrunedIsExpired` |
| `sync_upgrade` | database of an earlier release, backfill on, one failure, one restart | the refinement `KeepsPromise`; `NoGap`, `SweptMeansWithdrawn`, `BackfillDoneMeansReached`, `WatermarksMonotone` with a third writer; under fairness `BackfillEnds`, `ForwardCatchesUp`, `EventuallyWithdrawn` |
| `pool` | three callers, two connections | `Ceiling`, `UpstreamBound`, `Exclusive`, `NoDirtyReuse`, `Served`, no deadlock |
| `access` | two requests, a client and a proxy, two failures to a lockout of two ticks, a burst that is no multiple of the cost | `WithinRate`, `FailuresKept`, `FewLateGuesses`, `NothingLiftedEarly`, `LockExpires`, no deadlock |
| `serving` | two requests, two spots (one with an image, one with a plain-XML NZB), chunk, batch and limit 1, one failure | `WholeNzbs`, `RetentionTakesNzbs`, `EvictionSuffices`, `ImagesFirst`, no deadlock |
| `catalogue` | three groups of five articles, a new database and those of releases 0 to 11, three starts | `RowsAsIfParsedNow`, `NothingStranded`, `AdultOnlyOnItsTab`, `FoundWhereAdvertised`, `PagesCoverListing`, `KeyStable` |
| five violation runs | | see section 5 |

Bounds, and why they are enough. The groups of MCSync have five articles and chunks of two, so
a group has full and partial chunks, a spot and its withdrawal fall in one chunk and in
different ones, and the first and last chunks are clamped. They hold withdrawals by the
poster, a stranger, the moderator and forgers, a repeated one, one that is late, one numbered
before its spot, junk and missing numbers. `sync_delete` has one group more, in which the sweep
deletes a spot whose chunk the forward sync has to read again: there the spot is back for a
moment, and `DeletedStaysOut` is not true by luck. `InitialLast` lets articles arrive during the run,
`ExpireTo` lets the oldest disappear. One or two failures and restarts suffice to fall between
any two steps, and twice into the same loop. Days go from 0 to `MaxTime`, with ages of 1 and 2:
in time, at the limit and late. `MaxFailures = 2` lets the sweep give up. Three callers on two
connections is the least with both waiting and sharing; the third connection name lets a
replaced one differ from both. In `access` every limit is the least that has an inside and an
outside; `MaxBuckets = 0` makes the map full with one bucket. In `serving` chunk and batch are
1 so that each loop has several rounds, the limit 1 makes eviction empty one table and go on
with the other, and the spots age on the second day. Requests are interchangeable (symmetry).
In `catalogue` the groups hold, between them, old and new erotic spots, an audiobook, books,
comics, series, pictures, a game and an application, unreadable dates below, between and above
the rows migration 4 keeps, a spot as fresh as its row, a withdrawal, raw titles, and several
spots of one second; pages of two split such seconds. Three starts are the least with a run
under `API_KEY`, or a stopped upgrade, between two without. `InitialLast` leaves articles for
the forward sync.

CHECK_DEADLOCK is FALSE in the MCSync configurations, where the workers wait for articles that
the bounded provider no longer posts, and in `catalogue`, where a stopped process may stay down.

Fairness. `Sync!FairSpec`: weak fairness of forward sync, backfill and sweep each - goroutines
that Go schedules, on commands with deadlines; failures and restarts are bounded, so
it says what happens once they stop. Nothing is assumed of maintenance, enrichment or the
provider. `Pool!FairSpec`: callers finish what they do with a lease and dials end; `Acquire` is
strongly fair because blocked senders of a Go channel are served in order. That dials end is
an assumption about the network: `tls.Dial` and the read of the greeting have no deadline.
`Access!FairSpec`: time passes, and nothing else. The other specifications assume nothing.
`ForwardCatchesUp` asks for catching up again and again, however often articles arrive;
`EventuallyWithdrawn` leaves out the spots that the backfill brought in (section 5).

Every property has a mutant: a plausible bug in a mapped definition under which TLC refutes
the property in the same run.

## 4. What is proved

For every value of the constants that the named assumptions allow (any group, number of
articles, chunk size, failures, restarts, callers, connections, clients, rates, spots, pages).
Each theorem is about a property some run checks; each inductive invariant below was checked
with TLC before it was proved.

**Sync: types and withdrawals** (`SyncProofs`)

- `TypeCorrect`: `Spec => []TypeOK`. The work is the chunk arithmetic: that bounds
  computed from watermarks another worker moved are still article numbers.
- `EntitledOnly`: `Spec => []OnlyEntitledWithdrawals`. Not inductive as it stands:
  what enters the ring was queued earlier on the word of a withdrawal read earlier and of an
  owner stored by someone else. `Sourced` adds that stored owners are the keys the spots were
  posted with, that the withdrawals in hand were posted, and that queued targets are entitled.
- `MarkedStaysOut`: without delete mode and retention, `Spec => []WithdrawnStaysOut`,
  because everything withdrawn is in the ring, and a row whose id is in the ring is moderated.
  Both hypotheses are needed: in delete mode the property fails (`delete_crash`), and
  retention prunes the ring.
- `PrunesOnlyExpired`: `Spec /\ []NoneAhead => PrunedIsExpired`, where `NoneAhead` says that no
  row is dated after the clock. `Dated` says that a ring entry is no older than its spot, so an
  entry past the retention belongs to a spot past it; `Recorded`, that what is queued or in the
  ring once had a row. `plausibleSpotTime` in `spotnet/parser.go` keeps articles dated ahead
  from becoming rows, but for the clock skew it tolerates: the entry of a spot dated ahead
  could be pruned that much before its spot expires.
- `DeletedComesBackOnlyInPassing`: `Spec /\ []NoneAhead => []DeletedStaysOut`, in every mode. Delete
  mode removes the row and enters the ring in two transactions, and any other worker may read
  the spot's chunk again in between. `Accounted` says that, as long as the process has not
  stopped and no database call has failed, every withdrawal is in the ring, expired, or in the
  hands of the worker about to enter it; `RingEffective`, that what is in the ring is never
  listed, even when the row came back before the entry. The two conditions are those of
  `delete_crash`.

**Sync: watermarks** (`WatermarkProofs`)

- `MarksMonotone`: `Spec => WatermarksMonotone`. `Places` says where a worker is with respect to
  the watermark it will write: the forward sync above it, the backfill below it, the sweep at
  or above it, whatever the other writers of the row did since it was read.
- `DoneMeansReached`: `Spec => []BackfillDoneMeansReached` for a database of an earlier release
  (`Upgraded`). `Reached` follows the bound the backfill took from GROUP. The hypothesis is needed: on a
  fresh database the property fails (`backfill_fresh`).
- `NothingMissed`: `Spec => []NoGap` as long as no database call fails (`MaxDBFaults = 0`), for
  any number of NNTP failures and restarts. `NoGapYet` extends "everything between the
  watermarks was read" to what the forward sync and the backfill have read beyond them. The
  hypothesis is needed: a failed insert is passed over (`insert_lost`).
- `SweepLeavesNoHole`: `Spec => []SweptMeansWithdrawn`, for any modes of the starts, retention,
  blacklist, failures, and with the backfill at work. `NoHole` follows a withdrawal all the way:
  those of a chunk in hand are honoured, still with the worker, or held back by an error that
  keeps it from its checkpoint (`Handled`); those the forward sync has passed above its
  watermark, and those outside the stretch the sweep is working on, are honoured
  (`ForwardPast`, `SweepPast`). `ValidateComplete` is the converse of what `EntitledOnly` needs:
  what is entitled is accepted. What is honoured stays so because the forward sync inserts rows
  only above its watermark, and the backfill only below where the sync began
  (`BackfillBelow`: its watermark starts at the oldest row, and what lies between is not
  acceptable). Those rows are the ones the property leaves out; with them it is false
  (`SweptEverywhere` in `backfill_unswept`).

**Sync implements Index** (`PromiseProofs`)

- `SyncImplementsIndex`: without delete mode and retention, `Spec => KeepsPromise`. The
  invariant `Faithful` puts `EntitledOnly` and `MarkedStaysOut` together with "rows are offered
  articles"; then an insert is a `Publish`, marking is a `Withdraw`, the blacklist a `Purge`, a
  new article a `Post`, and everything else, restarts included, a stutter. The hypotheses are those
  of `MarkedStaysOut`, for the same reason: after `delete_crash` a gone spot is listed again.

**Pool** (`PoolProofs`): `TypeCorrect`, `PoolCeiling`, `PoolUpstreamBound`, `PoolExclusive`,
`PoolNoDirtyReuse`. The invariant
`PoolInv` says that the semaphore counts exactly the callers between acquire and release
(`Tokens`) and where a caller has a connection (`Hands`). The ceiling rests on one step:
a caller that found the list empty holds a token itself, so the others in hand are fewer
than `MaxConns`. The bound on what the provider sees adds `OneBatch`: before shutdown what is
being closed was once idle as a whole, because Reap runs only after its last batch is closed.

**Access** (`AccessProofs`): `TypeCorrect` and

- `RateKept`. `WithinRate` speaks of a bucket that
  is never dropped; `Metered` says that it equals the limiter's refilled bucket, or is full
  when the limiter has none. Dropping preserves that because a bucket idle for `IdleTicks` has
  filled up: the assumption `Rate * IdleTicks >= Burst` (five minutes at the configured rate
  fill the burst), which the defaults (5 per second, 30) meet with room and a configuration
  like 0.05 per second and 30 would not.
- `LockoutCounts` (`FailuresKept`) and `LateGuessesAreFew` (`FewLateGuesses`). `Guessed` bounds
  the guesses a lockout has admitted together with those it may still admit, the requests that
  passed the check before it began; the request whose failure began it is in neither.
- `OnlyTimeOrOwner` (`NothingLiftedEarly`), from the types alone.

**Serving** (`ServingProofs`): every property of the run.

- `TypeCorrect` contains that a cache never has two blobs of one spot.
- `NzbsAreWhole`: what is cached and what a request has in hand are whole together; neither
  half is inductive without the other, since each feeds the other.
- `ImagesGoFirst` and `EvictionMakesRoom`. `ImagesFresh`: once the eviction has gone on to the NZBs,
  the images are those stored since it began. At its end there are no NZBs, and no
  more images than were stored meanwhile, because a spot has one blob (an injection).
- `RetentionIsClean` (`RetentionTakesNzbs`). The lemma `HeadsAgree` says why two statements that
  each take the first `Chunk` rows of their own list agree: the rows with an NZB among the first
  `Chunk` of all rows are among the first `Chunk` of those with an NZB, in the order both walk.
  `NzbsListed` says that without failures every NZB belongs to a row that has its `nzb_id`;
  `RoundClears` is what holds between the two statements.

**Kinds and Catalogue** (`KindsProofs`, `CatalogueProofs`): every property of the run.

- `SameKind`: the SQL of the migrations and `KindOf` agree on the columns the parser fills, whatever
  the codes.
- All others follow from one invariant `IInv`: what version v has made of each row (`Rows`),
  that every spot of the first start has a row, is stranded or lies where a worker will read
  (`Reach`), where the cursor of a walk is (`Paging`), and which key is stored (`Keys`).
  `UpgradeIsReparse`, `AdultStaysApart` and `SearchFindsItsResults` use `Rows` and `SameKind`;
  `UpgradeLosesNothing` is `Reach`; `PagesCover` is `Paging`; `KeyNeverReplaced` is `Keys`.

Checked by TLC only: the liveness properties `BackfillEnds`, `ForwardCatchesUp`,
`EventuallyWithdrawn`, `Served` and `LockExpires` (fairness is out of the prover's reach).

## 5. Findings

Each is a violation run with a finding in `PROJECT.json` that quotes the lines.

- `backfill_fresh`: nothing seeds the backfill watermark on a database created by this
  release, so `BACKFILL=true` reports completion without reading anything.
- `insert_lost`: a failed `InsertSpots` is logged and the checkpoint moves past its chunk.
- `backfill_unswept`: the sweep begins at the oldest spot of its first chunk; what the
  backfill adds below keeps its withdrawals unapplied for good (`SweptEverywhere`).
- `delete_crash`: a stop between deletion and ring entry lets the chunk that is read again
  insert the withdrawn spot anew.
- `poisoned_head`: an answer to HEAD other than 221 and 430 holds the forward sync on one
  chunk for ever.

Observations the models record without a run of their own:

- `readDot` takes the end of the connection for the end of a body. Deflated NZBs are protected
  by the inflater (`WholeNzbs`); an image or an NZB in plain XML that is cut off is cached and
  served until it is evicted.
- `DeleteSpotsOlderThan` selects twice per round, and withdrawals in delete mode do not take
  the write lock: one in between shifts the second selection, and the NZB of a removed row may
  stay. So may one stored after its row went, or after `UpdateSpotEnrichment` failed. Rows
  removed by withdrawal or blacklist always leave their blobs. Only the size limit removes
  them (`RetentionTakesNzbs` states exactly what is left).
- `GetSpotByID` does not look at `moderated`: a marked spot is unlisted but reachable by id.
- `RecordSuccess` deletes the whole entry, and with it a lock that began meanwhile.
- With more than 50000 buckets the limiter lets new addresses through unmetered.
- Reap closes connections after taking them off the list, each with a QUIT round trip; until
  then upstream may see more than `NNTP_MAX_CONNS`, which `README.md:67` calls a hard ceiling:
  up to twice as many (`UpstreamBound`), and more only when `Close` overlaps at shutdown.
- A withdrawal that the live sync passed in off mode and that has expired upstream when the
  sweep comes to it is never applied; `Enforceable` asks that the server can still show it.
- Before the first checkpoint the sweep has "nothing indexed to sweep" and is done
  (`disposesweep.go:90`), even when a first pass has inserted rows and failed. If so many articles
  arrive before the next pass that the `SYNC_LOOKBACK` window has moved on, withdrawals below
  its new start wait for the next start of the process: `SweptMeansWithdrawn` begins at
  `syncStart`.
- A withdrawal with a lower number than its spot is never applied; the first failing command
  ends the backfill until the next start.
- `listSpots` pages by `posted_at < before`: spots of the same second as the last one of a
  page are skipped (`PagesCoverListing` states that nothing else is). The other cursor, OFFSET,
  is clamped to its maximum, from where every page is the same.
- Migration 4 says that "everything deleted here is re-inserted by the re-walk"
  (`migrations.go:83`). The re-walk starts at the oldest row that is left, and the backfill
  below the oldest row there was before: misdated rows older than every row kept are in
  neither (`Stranded` in `NothingStranded`).
- Pictures (an Image spot without kind) carry the Newznab category 2000 and are found under no
  category. A `cat=` list of unknown categories only searches everything but 18+.
- `KindOf` is said to let an erotic genre always win (`kind.go:50`); it does so over other
  genres, formats and sources, but a type code (`z0`, `z1`, `z2`, `z4`) wins over it.
- `refreshSpotterLists` keeps the list when a feed has no entries ("Never let an empty or
  unparseable response wipe a good list", `maintenance.go:158`); entries whose id attribute is
  blank count as entries there and are dropped by `ReplaceSpotterList` after it has deleted the
  list.
- `load()` in `web/src/routes/+page.svelte` does not order its answers: a slow answer to an
  earlier filter replaces that of a later one.

## 6. Not modelled

- Signatures (RSA and hashcash arithmetic), text decoding and XML: data, whose verdicts are
  inputs of the models.
- The SABnzbd client, metrics, headers and CSP, configuration: I/O and formatting without
  state of their own.
- The web interface: a client of the API; what matters of it is the walk in Catalogue.
- Full-text search (the sanitising of queries, the filters by text and tag), the filters by
  poster, size and subcategory code, the orders other than by date, OFFSET.
- The refresh of the spotter lists: Sync has the blacklist as a constant.
- The shutdown of the HTTP server; dot-stuffing and line handling of the NNTP client.

## 7. Plan

Done, in this order: Sync with its parts (the most important behaviour), Pool, Access,
Serving, the abstract Index and its refinement, Kinds, Migrations and Catalogue; the proofs of
section 4. Left: the spotter lists as a variable of Sync, refreshed between two purges.
