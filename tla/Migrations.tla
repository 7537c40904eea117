----------------------------- MODULE Migrations -----------------------------
(***************************************************************************)
(* The upgrade of a database (internal/db/migrations.go): PRAGMA           *)
(* user_version, the rows of spots and the row of sync_state, and one      *)
(* operator per migration.  A migration and its version number are one     *)
(* transaction, so each operator is one atomic step.                       *)
(*                                                                         *)
(* Indexes and triggers are left out: they change no result.  A unit of    *)
(* time is longer than the minute that migration 4 allows between posting  *)
(* and indexing.                                                           *)
(***************************************************************************)
EXTENDS Kinds, Functions

CONSTANTS
  NumArticles,  \* bound: article numbers are 1..NumArticles
  Libraries,    \* the group contents to consider, a subset of [Num -> Article]
  OldTime,      \* when an earlier release filled the database
  Now           \* when this release runs

ASSUME MigrationsAssumption ==
  /\ NumArticles \in Nat \ {0}
  /\ OldTime \in Nat \ {0}
  /\ Now \in Nat /\ OldTime < Now

Num == 1 .. NumArticles

(***************************************************************************)
(* An article of the group: a spot or a control message (a withdrawal);    *)
(* `badDate' says that its Date header has the form earlier releases could *)
(* not read, `eightBit' that its title is not UTF-8.                       *)
(***************************************************************************)
Article == [category : Category, codes : SUBSET Code, control : BOOLEAN,
            posted : 1 .. Now, badDate : BOOLEAN, eightBit : BOOLEAN]

ASSUME LibrariesAssumption == Libraries \subseteq [Num -> Article]

SubCats == [a : SUBSET Code, b : SUBSET Code, d : SUBSET Code]

\* A row of spots; `title' is what it holds: readable text, bytes, or a withdrawal.
Row == [category : Category, sub : SubCats, title : {"text", "bytes", "control"},
        posted : 1 .. Now, created : 1 .. Now, isAdult : BOOLEAN, kind : Kind]

VARIABLES
  library,          \* the article each number holds (fixed)
  version,          \* PRAGMA user_version
  rows,             \* spots: a function from the article numbers that have a row
  lastArticle,      \* sync_state.last_article_num
  backfillArticle,  \* sync_state.backfill_article_num
  sweepArticle      \* sync_state.dispose_sweep_article_num

watermarks == <<lastArticle, backfillArticle, sweepArticle>>
database == <<version, rows, watermarks>>

Latest == 11

Held == DOMAIN rows

\* SELECT MIN(article_num), or 0
OldestRow == IF Held = {} THEN 0 ELSE CHOOSE n \in Held : \A m \in Held : n <= m

-----------------------------------------------------------------------------
(* What earlier releases left behind.                                      *)

\* The 18+ flag as release v set it: first on z3 in any category (migration 9 says so),
\* then in Image only, then by kind (migration 11).
OldAdult(v, a) ==
  /\ v >= 1
  /\ IF v = Latest
     THEN KindOf(a.category, ParseSubCats(a.codes)) = KindErotic
     ELSE "z3" \in a.codes /\ (v >= 9 => a.category = CatImage)

\* The kind as release v set it: none, then from the type code only, then as now.
OldKind(v, a) ==
  IF v = Latest \/ (v >= 5 /\ a.codes \cap {"z0", "z1", "z2", "z3", "z4"} # {})
  THEN KindOf(a.category, ParseSubCats(a.codes))
  ELSE KindNone

\* The row release v stored for article a: dated at index time when it could not read the
\* date (migration 4), with the title's bytes as they came (migration 6).
OldRow(v, a) ==
  [category |-> a.category,
   sub      |-> ParseSubCats(a.codes),
   title    |-> IF a.control THEN "control" ELSE IF a.eightBit /\ v < 6 THEN "bytes" ELSE "text",
   posted   |-> IF a.badDate /\ v < 4 THEN OldTime ELSE a.posted,
   created  |-> OldTime,
   isAdult  |-> OldAdult(v, a),
   kind     |-> OldKind(v, a)]

\* The database of release v that holds the group from lo to hi; withdrawals were indexed
\* like spots up to migration 3.
OldDatabase(v, lo, hi) ==
  /\ version = v
  /\ rows = [n \in {m \in lo .. hi : library[m].control => v < 3} |-> OldRow(v, library[n])]
  /\ lastArticle = hi
  /\ backfillArticle = IF v < 2 THEN 0 ELSE lo
  /\ sweepArticle = IF v < 7 THEN 0 ELSE hi

\* A database file that did not exist before.
NewDatabase ==
  /\ version = 0
  /\ rows = << >>
  /\ lastArticle = 0 /\ backfillArticle = 0 /\ sweepArticle = 0

\* The row this release stores for article a (ParseFromOverview and InsertSpots).
ParsedRow(a) ==
  LET sub == ParseSubCats(a.codes)
      kind == KindOf(a.category, sub)
  IN  [category |-> a.category, sub |-> sub, title |-> "text",
       posted |-> a.posted, created |-> Now,
       isAdult |-> kind = KindErotic, kind |-> kind]

-----------------------------------------------------------------------------
(* The migrations.                                                         *)

Delete(S) == rows' = Restrict(rows, Held \ S)

AddAdultFlag ==
  /\ rows' = [n \in Held |-> [rows[n] EXCEPT !.isAdult = @ \/ "z3" \in rows[n].sub.d]]
  /\ UNCHANGED watermarks

SeedBackfill ==
  /\ backfillArticle' = IF backfillArticle = 0 THEN OldestRow ELSE backfillArticle
  /\ UNCHANGED <<rows, lastArticle, sweepArticle>>

DropControlMessages ==
  /\ Delete({n \in Held : rows[n].title = "control"})
  /\ UNCHANGED watermarks

\* Fault: the watermark stays where it was.
DropMisdatedOnly ==
  /\ Delete({n \in Held : rows[n].posted = rows[n].created})
  /\ UNCHANGED watermarks

\* Rows dated at index time go, and the forward watermark to the oldest row kept.
ReingestMisdated ==
  /\ Delete({n \in Held : rows[n].posted = rows[n].created})
  /\ lastArticle' = OldestRow'
  /\ UNCHANGED <<backfillArticle, sweepArticle>>

FillKind ==
  /\ rows' = [n \in Held |->
       IF rows[n].category = CatImage
       THEN [rows[n] EXCEPT !.kind = KindCaseSQL(rows[n].category, rows[n].sub)]
       ELSE rows[n]]
  /\ UNCHANGED watermarks

RedecodeEightBitText ==
  /\ rows' = [n \in Held |->
       IF rows[n].title = "bytes" THEN [rows[n] EXCEPT !.title = "text"] ELSE rows[n]]
  /\ UNCHANGED watermarks

\* Migrations 7 and 8: the sweep's column, then its return to the start.
RestartSweep ==
  /\ sweepArticle' = 0
  /\ UNCHANGED <<rows, lastArticle, backfillArticle>>

AudiobooksAreNotAdult ==
  /\ rows' = [n \in Held |-> [rows[n] EXCEPT !.isAdult = @ /\ rows[n].category = CatImage]]
  /\ UNCHANGED watermarks

AddIndexOnly == UNCHANGED <<rows, watermarks>>

DeriveKindAndAdult ==
  /\ rows' = [n \in Held |->
       LET kind == KindCaseSQL(rows[n].category, rows[n].sub)
       IN  IF rows[n].category = CatImage
           THEN [rows[n] EXCEPT !.kind = kind, !.isAdult = (kind = KindErotic)]
           ELSE rows[n]]
  /\ UNCHANGED watermarks

\* The statements of migration v.
Migration(v) ==
  \/ v = 1 /\ AddAdultFlag
  \/ v = 2 /\ SeedBackfill
  \/ v = 3 /\ DropControlMessages
  \/ v = 4 /\ ReingestMisdated
  \/ v = 5 /\ FillKind
  \/ v = 6 /\ RedecodeEightBitText
  \/ v \in {7, 8} /\ RestartSweep
  \/ v = 9 /\ AudiobooksAreNotAdult
  \/ v = 10 /\ AddIndexOnly
  \/ v = 11 /\ DeriveKindAndAdult

\* applyMigration: the next one and its number, in one transaction.
ApplyMigration ==
  /\ version < Latest
  /\ Migration(version + 1)
  /\ version' = version + 1
  /\ UNCHANGED library
=============================================================================
