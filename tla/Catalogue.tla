------------------------------ MODULE Catalogue ------------------------------
(***************************************************************************)
(* The life of a database under this release: opened and migrated, with    *)
(* the API key resolved (cmd/spottr/main.go), then filled by the workers   *)
(* while clients list it page by page and search it through Newznab        *)
(* (internal/api/router.go).  The process may stop at any step, in the     *)
(* middle of the upgrade too, and start again with other settings; a       *)
(* client's cursor outlives that.                                          *)
(*                                                                         *)
(* The workers are reduced to the two watermarks and one article a step;   *)
(* Sync has them in detail.                                                *)
(***************************************************************************)
EXTENDS Migrations, FiniteSets

CONSTANTS
  SyncLookback,  \* SYNC_LOOKBACK
  PageSize,      \* the limit a client asks for, after clampPaging
  KindSets,      \* the kind= filters to consider
  CatSets,       \* the cat= lists of Newznab searches to consider
  EnvKey,        \* the value API_KEY may have
  NoKey,         \* no API_KEY, or none stored
  InitialLast,   \* bound: where the sync of an earlier release may have stopped
  MaxStarts      \* bound on the starts, and so on the keys ever made

ASSUME CatalogueAssumption ==
  /\ SyncLookback \in Nat
  /\ PageSize \in Nat \ {0}
  /\ KindSets \subseteq SUBSET (Kind \ {KindNone})
  /\ \A cats \in CatSets : cats \subseteq 1000 .. 8999
  /\ InitialLast \subseteq Num
  /\ MaxStarts \in Nat \ {0}
  /\ {EnvKey, NoKey} \cap 1 .. MaxStarts = {} /\ EnvKey # NoKey

VARIABLES
  pc,          \* "down", "migrating" or "running"
  starts,      \* starts so far
  allowAdult,  \* ALLOW_ADULT of the running process
  envKey,      \* API_KEY of the running process
  apiKey,      \* the key it serves with
  storedKey,   \* app_settings: the key stored
  minted,      \* keys generated so far
  knownKey,    \* history: the key the last run without API_KEY served with
  origin,      \* history: the version and the articles found at the first start
  walk,        \* a client's walk through a listing: "idle", "walking" or "ended"
  kinds,       \* its kind= filter
  before,      \* its cursor, next_before of the last page
  page,        \* the last page it got
  seen,        \* history: what earlier pages showed
  steady,      \* history: the spots listed from its first page on
  edges        \* history: the dates of each page's last spot

process == <<pc, starts, allowAdult, envKey, apiKey>>
keys == <<storedKey, minted, knownKey>>
client == <<walk, kinds, before, page, seen, steady, edges>>
vars == <<library, database, process, keys, origin, client>>

Key == 1 .. MaxStarts \cup {EnvKey, NoKey}

-----------------------------------------------------------------------------
(* Start and stop.                                                         *)

Init ==
  /\ library \in Libraries
  /\ \/ NewDatabase
     \/ \E v \in 0 .. Latest, lo \in Num, hi \in InitialLast :
          /\ lo <= hi
          /\ \A n \in 1 .. hi : library[n].posted <= OldTime
          /\ OldDatabase(v, lo, hi)
  /\ origin = [version |-> version, held |-> Held]
  /\ pc = "down" /\ starts = 0
  /\ allowAdult = FALSE /\ envKey = NoKey /\ apiKey = NoKey
  /\ storedKey = NoKey /\ minted = 0 /\ knownKey = NoKey
  /\ walk = "idle" /\ kinds = {} /\ before = 0
  /\ page = {} /\ seen = {} /\ steady = {} /\ edges = {}

\* config.Load and db.Open up to the first migration.
Start ==
  /\ pc = "down"
  /\ starts < MaxStarts
  /\ starts' = starts + 1
  /\ allowAdult' \in BOOLEAN
  /\ envKey' \in {EnvKey, NoKey}
  /\ pc' = "migrating"
  /\ UNCHANGED <<library, database, apiKey, keys, origin, client>>

Migrate ==
  /\ pc = "migrating"
  /\ ApplyMigration
  /\ UNCHANGED <<process, keys, origin, client>>

\* Fault: a generated key is not written down.
ResolveAPIKeyUnsaved ==
  /\ pc = "migrating" /\ version = Latest
  /\ minted' = IF envKey = NoKey THEN minted + 1 ELSE minted
  /\ apiKey' = IF envKey = NoKey THEN minted + 1 ELSE envKey
  /\ knownKey' = IF envKey = NoKey THEN minted + 1 ELSE knownKey
  /\ pc' = "running"
  /\ UNCHANGED <<library, database, starts, allowAdult, envKey, storedKey, origin, client>>

\* API_KEY as it is; or the stored key; or a new one, stored before it is served.
ResolveAPIKey ==
  LET fresh == envKey = NoKey /\ storedKey = NoKey
  IN  /\ pc = "migrating" /\ version = Latest
      /\ minted' = IF fresh THEN minted + 1 ELSE minted
      /\ storedKey' = IF fresh THEN minted + 1 ELSE storedKey
      /\ apiKey' = IF envKey = NoKey THEN storedKey' ELSE envKey
      /\ knownKey' = IF envKey = NoKey THEN apiKey' ELSE knownKey
      /\ pc' = "running"
      /\ UNCHANGED <<library, database, starts, allowAdult, envKey, origin, client>>

\* The process ends: stopped, killed, or by an error of migrate or ResolveAPIKey, whose
\* transaction is rolled back.
Stop ==
  /\ pc # "down"
  /\ pc' = "down"
  /\ allowAdult' = FALSE /\ envKey' = NoKey /\ apiKey' = NoKey
  /\ UNCHANGED <<library, database, starts, keys, origin, client>>

-----------------------------------------------------------------------------
(* The workers.                                                            *)

\* Article n is read: a spot gets a row unless it has one.
Ingest(n) ==
  rows' = [m \in Held \cup {k \in {n} : ~library[k].control} |->
             IF m \in Held THEN rows[m] ELSE ParsedRow(library[m])]

ForwardFrom ==
  IF lastArticle = 0
  THEN IF NumArticles > SyncLookback THEN NumArticles - SyncLookback ELSE 1
  ELSE lastArticle + 1

Forward ==
  /\ pc = "running"
  /\ ForwardFrom <= NumArticles
  /\ Ingest(ForwardFrom)
  /\ lastArticle' = ForwardFrom
  /\ UNCHANGED <<library, version, backfillArticle, sweepArticle, process, keys, origin, client>>

\* Fault: the first article does not end it.
BackfillEndless ==
  LET n == backfillArticle - 1
  IN  /\ pc = "running"
      /\ IF n \in Num THEN Ingest(n) ELSE UNCHANGED rows
      /\ backfillArticle' = n
      /\ UNCHANGED <<library, version, lastArticle, sweepArticle, process, keys, origin, client>>

Backfill ==
  /\ pc = "running"
  /\ backfillArticle > 1
  /\ Ingest(backfillArticle - 1)
  /\ backfillArticle' = backfillArticle - 1
  /\ UNCHANGED <<library, version, lastArticle, sweepArticle, process, keys, origin, client>>

-----------------------------------------------------------------------------
(* A client walks through GET /v1/spots with before=next_before.           *)

\* Fault: the spots of the cursor's own second are listed again.
ListedAgain(p, cursor) ==
  {n \in Held : Matches(rows[n], p) /\ (cursor # 0 => rows[n].posted <= cursor)}

\* The rows a request matches, those posted before the cursor.
Listed(p, cursor) ==
  {n \in Held : Matches(rows[n], p) /\ (cursor # 0 => rows[n].posted < cursor)}

\* ORDER BY posted_at DESC LIMIT PageSize: the newest ones, equal dates in any order.
NewestOf(S) ==
  {P \in SUBSET S :
     /\ Cardinality(P) = IF Cardinality(S) < PageSize THEN Cardinality(S) ELSE PageSize
     /\ \A x \in P, y \in S \ P : rows[x].posted >= rows[y].posted}

\* The date of a page's last spot.
NextBefore(P) ==
  CHOOSE t \in {rows[n].posted : n \in P} : \A n \in P : t <= rows[n].posted

StartWalk ==
  /\ pc = "running" /\ walk = "idle"
  /\ walk' = "walking"
  /\ kinds' \in KindSets
  /\ steady' = Listed(ListSpots(kinds', allowAdult), 0)
  /\ UNCHANGED <<library, database, process, keys, origin, before, page, seen, edges>>

\* listSpots: one page; without a spot it has no next_before and the walk ends.
ReadPage ==
  LET p == ListSpots(kinds, allowAdult)
  IN  /\ pc = "running" /\ walk = "walking"
      /\ \E P \in NewestOf(Listed(p, before)) :
           /\ page' = P
           /\ before' = IF P = {} THEN before ELSE NextBefore(P)
           /\ edges' = edges \cup {NextBefore(P) : n \in P}
           /\ walk' = IF P = {} THEN "ended" ELSE "walking"
      /\ seen' = seen \cup page
      /\ steady' = steady \cap Listed(p, 0)
      /\ UNCHANGED <<library, database, process, keys, origin, kinds>>

Next ==
  \/ Start \/ Migrate \/ ResolveAPIKey \/ Stop
  \/ Forward \/ Backfill
  \/ StartWalk \/ ReadPage

Spec == Init /\ [][Next]_vars

-----------------------------------------------------------------------------
(* Properties.                                                             *)

\* Every variable has its type.
TypeOK ==
  /\ library \in [Num -> Article]
  /\ version \in 0 .. Latest
  /\ Held \subseteq Num /\ \A n \in Held : rows[n] \in Row
  /\ {lastArticle, backfillArticle, sweepArticle} \subseteq 0 .. NumArticles
  /\ pc \in {"down", "migrating", "running"}
  /\ starts \in 0 .. MaxStarts
  /\ allowAdult \in BOOLEAN
  /\ {envKey, apiKey, storedKey, knownKey} \subseteq Key
  /\ minted \in 0 .. MaxStarts
  /\ walk \in {"idle", "walking", "ended"}
  /\ kinds \subseteq Kind
  /\ before \in 0 .. Now
  /\ {page, seen, steady} \subseteq SUBSET Num
  /\ edges \subseteq 0 .. Now

\* Whichever release wrote it and wherever the upgrade was interrupted, every row of a
\* running server is the one this release would store for its article: no withdrawal, no
\* date of indexing, no raw text, and the kind and 18+ flag of the migrations' SQL are
\* those of the parser's KindOf (migrations, ParseFromOverview).
RowsAsIfParsedNow ==
  pc = "running" =>
    \A n \in Held :
      /\ ~library[n].control
      /\ [rows[n] EXCEPT !.created = Now] = ParsedRow(library[n])

\* Migration 4 keeps no row at or below n, so nothing it deletes there is read again.
Stranded(n) ==
  /\ origin.version < 4
  /\ \A m \in origin.held :
       m <= n => library[m].control \/ library[m].badDate \/ library[m].posted = OldTime

\* No spot an earlier release had indexed is out of reach: it has a row, or a worker is
\* still to read it ("everything deleted here is re-inserted by the re-walk", migration
\* 4), except those older than every row that migration kept.
NothingStranded ==
  \A n \in origin.held :
    \/ library[n].control \/ Stranded(n)
    \/ n \in Held
    \/ n > lastArticle \/ n < backfillArticle

\* A type code says erotic, or there is none and a genre does.
Erotic(a) ==
  /\ a.category = CatImage
  /\ \/ "z3" \in a.codes
     \/ "d23" \in a.codes /\ a.codes \cap {"z0", "z1", "z2", "z3", "z4"} = {}

\* "Every other listing and search leaves them out, also with ALLOW_ADULT on"
\* (includeAdult, newznabFilter): an erotic spot is found by the request for 18+ alone, on
\* a server that allows it, and that request finds nothing else; its page, image and NZB
\* are refused on any other server (hiddenAdult).  For rows of every earlier release.
AdultOnlyOnItsTab ==
  pc = "running" =>
    \A n \in Held :
      /\ HiddenAdult(rows[n], allowAdult) <=> Erotic(library[n]) /\ ~allowAdult
      /\ \A ks \in KindSets :
           Matches(rows[n], ListSpots(ks, allowAdult)) /\ (Erotic(library[n]) \/ ks = {KindErotic})
             => Erotic(library[n]) /\ ks = {KindErotic} /\ allowAdult
      /\ \A cats \in CatSets :
           Matches(rows[n], NewznabSearch(cats, allowAdult)) /\ Erotic(library[n])
             => allowAdult /\ 6 \in {c \div 1000 : c \in cats} /\ UNION {CatKinds(c) : c \in cats} = {}

\* A spot is found under the Newznab category its own result carries (newznabCatID and
\* newznabFilter are two tables), except pictures, which are called 2000 and found under
\* nothing, and 18+ spots on a server that hides them.
FoundWhereAdvertised ==
  pc = "running" =>
    \A n \in Held :
      \/ Matches(rows[n], NewznabSearch({NewznabCatID(rows[n])}, allowAdult))
      \/ rows[n].category = CatImage /\ rows[n].kind = KindNone
      \/ Erotic(library[n]) /\ ~allowAdult

\* A client that follows next_before to the end has been shown nothing twice and
\* everything that was listed all along, however many spots came in meanwhile and however
\* often the server restarted; except spots of the very second a page ended in.
PagesCoverListing ==
  /\ page \cap seen = {}
  /\ walk = "ended" => \A n \in steady : n \in seen \cup page \/ rows[n].posted \in edges

\* The key the indexers were given is never replaced: every run without API_KEY serves
\* with the key of the first one ("Rotation is an explicit act, never a side effect of a
\* restart", ResolveAPIKey), also when runs with API_KEY or failed starts come between.
KeyStable == [][knownKey # NoKey => knownKey' = knownKey]_keys
=============================================================================
