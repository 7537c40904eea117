--------------------------- MODULE CatalogueProofs ---------------------------
(***************************************************************************)
(* Proofs about Catalogue, for every newsgroup, every database an earlier  *)
(* release may have left, and any number of starts.                        *)
(***************************************************************************)
EXTENDS Catalogue, KindsProofs, WellFoundedInduction, FiniteSetTheorems, TLAPS

-----------------------------------------------------------------------------
(* The inductive invariant.                                                *)

\* What release `version' has left of article n, whose row started in any earlier one.
RowOK(n) ==
  LET a == library[n]
      r == rows[n]
  IN  /\ r.category = a.category /\ r.sub = ParseSubCats(a.codes)
      /\ r.title = "control" <=> a.control
      /\ a.control => version < 3
      /\ r.title = "bytes" => version < 6
      /\ \/ r.posted = a.posted
         \/ version < 4 /\ a.badDate /\ r.posted = r.created
      /\ a.category # CatImage => r.kind = KindNone /\ (version >= 9 => r.isAdult = FALSE)
      /\ version = Latest =>
           /\ r.kind = KindOf(a.category, ParseSubCats(a.codes))
           /\ (r.isAdult <=> r.kind = KindErotic)

\* A running process has migrated, and every row is what the versions so far make of it.
Rows ==
  /\ pc = "running" => version = Latest
  /\ \A n \in Held : RowOK(n)

\* Up to migration 4 every spot found at the first start keeps its row; from then on the
\* spots that are not stranded have one or lie where a worker will still read.
Reach ==
  /\ origin.version \in 0 .. version /\ origin.held \subseteq Num
  /\ version < 4 =>
       /\ \A n \in origin.held : library[n].control \/ n \in Held
       /\ \A n \in Held : rows[n].created = OldTime
  /\ version >= 4 =>
       \A n \in origin.held :
         \/ library[n].control \/ Stranded(n)
         \/ n \in Held
         \/ lastArticle > 0 /\ n > lastArticle
         \/ n < backfillArticle

\* A walk starts on an upgraded database; its cursor has passed what it has shown, and of
\* the spots that were listed all along it has passed those shown or on an edge.
Paging ==
  /\ walk = "idle" => before = 0 /\ page = {} /\ seen = {} /\ steady = {} /\ edges = {}
  /\ walk # "idle" => version = Latest
  /\ page \cup seen \cup steady \subseteq Held
  /\ \A n \in page \cup seen : before # 0 /\ rows[n].posted >= before
  /\ \A n \in steady :
       \/ before = 0 \/ rows[n].posted < before
       \/ n \in seen \cup page \/ rows[n].posted \in edges
  /\ page \cap seen = {}
  /\ walk = "ended" => \A n \in steady : n \in seen \cup page \/ rows[n].posted \in edges

\* A start makes at most one key, and the key served without API_KEY is the stored one.
Keys ==
  /\ minted <= starts
  /\ pc = "migrating" => minted < starts
  /\ storedKey \in 1 .. MaxStarts \cup {NoKey}
  /\ knownKey # NoKey => storedKey = knownKey

\* The inductive invariant.
IInv == TypeOK /\ Rows /\ Reach /\ Paging /\ Keys

-----------------------------------------------------------------------------
(* Rows.                                                                   *)

\* The fields of an article, and what the parser makes of its codes.
LEMMA ArticleParts ==
  ASSUME NEW a \in Article
  PROVE  /\ a.category \in Category /\ a.codes \in SUBSET Code /\ a.control \in BOOLEAN
         /\ a.posted \in 1 .. Now /\ a.badDate \in BOOLEAN /\ a.eightBit \in BOOLEAN
         /\ ParseSubCats(a.codes) \in SubCats
         /\ KindOf(a.category, ParseSubCats(a.codes)) \in Kind
<1>1. /\ a.category \in Category /\ a.codes \in SUBSET Code /\ a.control \in BOOLEAN
      /\ a.posted \in 1 .. Now /\ a.badDate \in BOOLEAN /\ a.eightBit \in BOOLEAN
  BY DEF Article
<1>2. ParseSubCats(a.codes) \in SubCats
  BY <1>1 DEF ParseSubCats, SubCats
<1> QED
  BY <1>1, <1>2, KindOfFacts

\* The fields of a row.
LEMMA RowParts ==
  ASSUME NEW r \in Row
  PROVE  /\ r.category \in Category /\ r.sub \in SubCats
         /\ r.title \in {"text", "bytes", "control"}
         /\ r.posted \in 1 .. Now /\ r.created \in 1 .. Now
         /\ r.isAdult \in BOOLEAN /\ r.kind \in Kind
BY DEF Row

\* The row this release stores.
LEMMA ParsedRowFacts ==
  ASSUME NEW a \in Article
  PROVE  LET r == ParsedRow(a)
         IN  /\ r \in Row
             /\ r.category = a.category /\ r.sub = ParseSubCats(a.codes) /\ r.title = "text"
             /\ r.posted = a.posted /\ r.created = Now
             /\ r.kind = KindOf(a.category, ParseSubCats(a.codes))
             /\ (r.isAdult <=> r.kind = KindErotic)
<1>1. Now \in 1 .. Now
  BY MigrationsAssumption
<1> QED
  BY <1>1, ArticleParts DEF ParsedRow, Row

\* The row release v stored.
LEMMA OldRowFacts ==
  ASSUME NEW a \in Article, NEW v \in 0 .. Latest
  PROVE  LET r == OldRow(v, a)
         IN  /\ r \in Row
             /\ r.category = a.category /\ r.sub = ParseSubCats(a.codes)
             /\ r.title = "control" <=> a.control
             /\ r.title = "bytes" => v < 6
             /\ r.created = OldTime
             /\ \/ r.posted = a.posted
                \/ v < 4 /\ a.badDate /\ r.posted = r.created
             /\ a.category # CatImage => r.kind = KindNone /\ (v >= 9 => r.isAdult = FALSE)
             /\ v = Latest =>
                  /\ r.kind = KindOf(a.category, ParseSubCats(a.codes))
                  /\ (r.isAdult <=> r.kind = KindErotic)
<1> DEFINE r == OldRow(v, a)
           kind == KindOf(a.category, ParseSubCats(a.codes))
<1>1. OldTime \in 1 .. Now
  BY MigrationsAssumption
<1>2. OldAdult(v, a) \in BOOLEAN /\ OldKind(v, a) \in Kind
  BY ArticleParts DEF OldAdult, OldKind, Kind, KindNone, KindErotic
<1>3. /\ r.category = a.category /\ r.sub = ParseSubCats(a.codes)
      /\ r.title = IF a.control THEN "control" ELSE IF a.eightBit /\ v < 6 THEN "bytes" ELSE "text"
      /\ r.posted = IF a.badDate /\ v < 4 THEN OldTime ELSE a.posted
      /\ r.created = OldTime /\ r.isAdult = OldAdult(v, a) /\ r.kind = OldKind(v, a)
  BY DEF OldRow
<1>4. r \in Row
  BY <1>1, <1>2, ArticleParts DEF OldRow, Row
<1>5. a.category # CatImage => OldKind(v, a) = KindNone /\ (v >= 9 => OldAdult(v, a) = FALSE)
  <2> SUFFICES ASSUME a.category # CatImage
               PROVE  OldKind(v, a) = KindNone /\ (v >= 9 => OldAdult(v, a) = FALSE)
    OBVIOUS
  <2>1. kind = KindNone /\ kind # KindErotic
    BY KindOfFacts DEF KindNone, KindErotic
  <2> HIDE DEF kind
  <2> QED
    BY <2>1 DEF OldKind, OldAdult, kind
<1>6. v = Latest => OldKind(v, a) = kind /\ (OldAdult(v, a) <=> kind = KindErotic)
  BY DEF OldKind, OldAdult, Latest
<1> HIDE DEF r, kind
<1>7. /\ r.title = "control" <=> a.control
      /\ r.title = "bytes" => v < 6
      /\ \/ r.posted = a.posted
         \/ v < 4 /\ a.badDate /\ r.posted = r.created
  BY <1>3, ArticleParts
<1> QED
  BY <1>3, <1>4, <1>5, <1>6, <1>7 DEF r, kind

-----------------------------------------------------------------------------
(* The oldest row.                                                         *)

\* A non-empty set of numbers has a least one.
LEMMA LeastNumber ==
  ASSUME NEW S \in SUBSET Nat, S # {}
  PROVE  \E x \in S : \A y \in S : x <= y
<1> DEFINE R == OpToRel(<, Nat)
<1>1. IsWellFoundedOn(R, Nat)
  BY NatLessThanWellFounded
<1>2. PICK x \in S : \A y \in S : ~ (<<y, x>> \in R)
  <2> HIDE DEF R
  <2> QED
    BY <1>1, WFMin
<1>3. ASSUME NEW y \in S PROVE x <= y
  <2>1. <<y, x>> \in Nat \X Nat /\ ~ (<<y, x>> \in R)
    BY <1>2
  <2>2. ~ (y < x)
    BY <2>1 DEF OpToRel
  <2> QED
    BY <2>2
<1> QED
  BY <1>2, <1>3

\* MIN(article_num), or 0 without rows.
LEMMA OldestRowIs ==
  ASSUME Held \subseteq Num
  PROVE  /\ OldestRow \in 0 .. NumArticles
         /\ Held # {} => OldestRow \in Held /\ \A m \in Held : OldestRow <= m
<1>1. CASE Held = {}
  BY <1>1, MigrationsAssumption DEF OldestRow
<1>2. CASE Held # {}
  <2>1. Held \in SUBSET Nat
    BY DEF Num
  <2>2. \E n \in Held : \A m \in Held : n <= m
    BY <1>2, <2>1, LeastNumber
  <2>3. OldestRow \in Held /\ \A m \in Held : OldestRow <= m
    BY <1>2, <2>2 DEF OldestRow
  <2> QED
    BY <2>3, MigrationsAssumption DEF Num
<1> QED
  BY <1>1, <1>2

\* The same after a step.
LEMMA OldestRowIsPrime ==
  ASSUME Held' \subseteq Num
  PROVE  /\ OldestRow' \in 0 .. NumArticles
         /\ Held' # {} => OldestRow' \in Held' /\ \A m \in Held' : OldestRow' <= m
<1>1. CASE Held' = {}
  BY <1>1, MigrationsAssumption DEF OldestRow
<1>2. CASE Held' # {}
  <2>1. Held' \in SUBSET Nat
    BY DEF Num
  <2>2. \E n \in Held' : \A m \in Held' : n <= m
    BY <1>2, <2>1, LeastNumber
  <2>3. OldestRow' \in Held' /\ \A m \in Held' : OldestRow' <= m
    BY <1>2, <2>2 DEF OldestRow
  <2> QED
    BY <2>3, MigrationsAssumption DEF Num
<1> QED
  BY <1>1, <1>2

-----------------------------------------------------------------------------
(* The migrations.                                                         *)

\* What TypeOK says of the database.
LEMMA DatabaseParts ==
  ASSUME TypeOK
  PROVE  /\ version \in 0 .. 11
         /\ \A n \in Num : library[n] \in Article
         /\ Held \subseteq Num /\ \A n \in Held : rows[n] \in Row
         /\ lastArticle \in 0 .. NumArticles /\ backfillArticle \in 0 .. NumArticles
         /\ sweepArticle \in 0 .. NumArticles
BY DEF TypeOK, Latest

\* Whatever a migration does to a row, the row is still one of its article.
LEMMA MigrationRows ==
  ASSUME TypeOK, Rows, ApplyMigration
  PROVE  /\ Held' \subseteq Held
         /\ \A n \in Held' :
              rows'[n] \in Row /\ RowOK(n)' /\ rows'[n].created = rows[n].created
<1>1. /\ version \in 0 .. 11 /\ version < 11 /\ version' = version + 1
      /\ library' = library /\ Migration(version + 1)
      /\ \A n \in Held : library[n] \in Article /\ rows[n] \in Row /\ RowOK(n)
  BY DatabaseParts DEF ApplyMigration, Rows, Latest
<1>2. CASE version = 0
  <2>1. AddAdultFlag
    BY <1>1, <1>2 DEF Migration
  <2>2. Held' = Held
    BY <2>1 DEF AddAdultFlag, Held
  <2>3. ASSUME NEW n \in Held
        PROVE  rows'[n] \in Row /\ RowOK(n)' /\ rows'[n].created = rows[n].created
    <3> DEFINE x == rows[n].isAdult \/ "z3" \in rows[n].sub.d
    <3>1. rows'[n] = [rows[n] EXCEPT !.isAdult = x] /\ x \in BOOLEAN /\ rows[n] \in Row
      BY <1>1, <2>1, <2>3 DEF AddAdultFlag
    <3> HIDE DEF x
    <3>2. /\ rows'[n] \in Row
          /\ rows'[n].category = rows[n].category /\ rows'[n].sub = rows[n].sub
          /\ rows'[n].title = rows[n].title /\ rows'[n].posted = rows[n].posted
          /\ rows'[n].created = rows[n].created /\ rows'[n].kind = rows[n].kind
      BY <3>1 DEF Row
    <3> QED
      BY <1>1, <1>2, <2>3, <3>2 DEF RowOK, Latest
  <2> QED
    BY <2>2, <2>3
<1>3. CASE version \in {1, 6, 7, 9}
  <2>1. rows' = rows
    BY <1>1, <1>3 DEF Migration, SeedBackfill, RestartSweep, AddIndexOnly
  <2>2. Held' = Held
    BY <2>1 DEF Held
  <2>3. ASSUME NEW n \in Held PROVE RowOK(n)'
    BY <1>1, <1>3, <2>1, <2>3 DEF RowOK, Latest
  <2> QED
    BY <1>1, <2>1, <2>2, <2>3
<1>4. CASE version = 2
  <2> DEFINE kept == Held \ {n \in Held : rows[n].title = "control"}
  <2>1. rows' = [n \in kept |-> rows[n]]
    BY <1>1, <1>4 DEF Migration, DropControlMessages, Delete, Restrict
  <2>2. Held' = kept
    BY <2>1 DEF Held
  <2>3. ASSUME NEW n \in kept PROVE rows'[n] = rows[n] /\ RowOK(n)'
    BY <1>1, <1>4, <2>1, <2>3 DEF RowOK, Latest
  <2> QED
    BY <1>1, <2>2, <2>3
<1>5. CASE version = 3
  <2> DEFINE kept == Held \ {n \in Held : rows[n].posted = rows[n].created}
  <2>1. rows' = [n \in kept |-> rows[n]]
    BY <1>1, <1>5 DEF Migration, ReingestMisdated, Delete, Restrict
  <2>2. Held' = kept
    BY <2>1 DEF Held
  <2>3. ASSUME NEW n \in kept PROVE rows'[n] = rows[n] /\ RowOK(n)'
    BY <1>1, <1>5, <2>1, <2>3 DEF RowOK, Latest
  <2> QED
    BY <1>1, <2>2, <2>3
<1>6. CASE version = 4
  <2>1. FillKind
    BY <1>1, <1>6 DEF Migration
  <2>2. Held' = Held
    BY <2>1 DEF FillKind, Held
  <2>3. ASSUME NEW n \in Held
        PROVE  rows'[n] \in Row /\ RowOK(n)' /\ rows'[n].created = rows[n].created
    <3> DEFINE k == KindCaseSQL(rows[n].category, rows[n].sub)
    <3>1. rows'[n] = IF rows[n].category = CatImage THEN [rows[n] EXCEPT !.kind = k] ELSE rows[n]
      BY <2>1, <2>3 DEF FillKind
    <3>2. k \in Kind
      BY <1>1, <2>3, SameKind, KindOfFacts DEF RowOK
    <3> HIDE DEF k
    <3>3. /\ rows'[n] \in Row
          /\ rows'[n].category = rows[n].category /\ rows'[n].sub = rows[n].sub
          /\ rows'[n].title = rows[n].title /\ rows'[n].posted = rows[n].posted
          /\ rows'[n].created = rows[n].created /\ rows'[n].isAdult = rows[n].isAdult
          /\ rows[n].category # CatImage => rows'[n] = rows[n]
      BY <1>1, <2>3, <3>1, <3>2 DEF Row
    <3> QED
      BY <1>1, <1>6, <2>3, <3>3 DEF RowOK, Latest
  <2> QED
    BY <2>2, <2>3
<1>7. CASE version = 5
  <2>1. RedecodeEightBitText
    BY <1>1, <1>7 DEF Migration
  <2>2. Held' = Held
    BY <2>1 DEF RedecodeEightBitText, Held
  <2>3. ASSUME NEW n \in Held
        PROVE  rows'[n] \in Row /\ RowOK(n)' /\ rows'[n].created = rows[n].created
    <3>1. rows'[n] = IF rows[n].title = "bytes" THEN [rows[n] EXCEPT !.title = "text"] ELSE rows[n]
      BY <2>1, <2>3 DEF RedecodeEightBitText
    <3>2. /\ rows'[n] \in Row
          /\ rows'[n].category = rows[n].category /\ rows'[n].sub = rows[n].sub
          /\ rows'[n].posted = rows[n].posted /\ rows'[n].created = rows[n].created
          /\ rows'[n].kind = rows[n].kind /\ rows'[n].isAdult = rows[n].isAdult
          /\ rows'[n].title = IF rows[n].title = "bytes" THEN "text" ELSE rows[n].title
      BY <1>1, <2>3, <3>1 DEF Row
    <3> QED
      BY <1>1, <1>7, <2>3, <3>2 DEF RowOK, Latest
  <2> QED
    BY <2>2, <2>3
<1>8. CASE version = 8
  <2>1. AudiobooksAreNotAdult
    BY <1>1, <1>8 DEF Migration
  <2>2. Held' = Held
    BY <2>1 DEF AudiobooksAreNotAdult, Held
  <2>3. ASSUME NEW n \in Held
        PROVE  rows'[n] \in Row /\ RowOK(n)' /\ rows'[n].created = rows[n].created
    <3> DEFINE x == rows[n].isAdult /\ rows[n].category = CatImage
    <3>1. rows'[n] = [rows[n] EXCEPT !.isAdult = x] /\ x \in BOOLEAN /\ rows[n] \in Row
      BY <1>1, <2>1, <2>3 DEF AudiobooksAreNotAdult
    <3>2. rows[n].category # CatImage => x = FALSE
      OBVIOUS
    <3> HIDE DEF x
    <3>3. /\ rows'[n] \in Row /\ rows'[n].isAdult = x
          /\ rows'[n].category = rows[n].category /\ rows'[n].sub = rows[n].sub
          /\ rows'[n].title = rows[n].title /\ rows'[n].posted = rows[n].posted
          /\ rows'[n].created = rows[n].created /\ rows'[n].kind = rows[n].kind
      BY <3>1 DEF Row
    <3> QED
      BY <1>1, <1>8, <2>3, <3>2, <3>3 DEF RowOK, Latest
  <2> QED
    BY <2>2, <2>3
<1>9. CASE version = 10
  <2>1. DeriveKindAndAdult
    BY <1>1, <1>9 DEF Migration
  <2>2. Held' = Held
    BY <2>1 DEF DeriveKindAndAdult, Held
  <2>3. ASSUME NEW n \in Held
        PROVE  rows'[n] \in Row /\ RowOK(n)' /\ rows'[n].created = rows[n].created
    <3> DEFINE k == KindCaseSQL(rows[n].category, rows[n].sub)
               x == k = KindErotic
    <3>1. /\ rows'[n] = IF rows[n].category = CatImage
                        THEN [rows[n] EXCEPT !.kind = k, !.isAdult = x] ELSE rows[n]
          /\ x \in BOOLEAN
      BY <2>1, <2>3 DEF DeriveKindAndAdult
    <3>2. /\ k = KindOf(library[n].category, ParseSubCats(library[n].codes))
          /\ k \in Kind /\ (x <=> k = KindErotic)
          /\ library[n].category # CatImage => k = KindNone /\ k # KindErotic
      BY <1>1, <2>3, SameKind, KindOfFacts DEF RowOK, KindNone, KindErotic
    <3> HIDE DEF k, x
    <3>3. /\ rows'[n] \in Row
          /\ rows'[n].category = rows[n].category /\ rows'[n].sub = rows[n].sub
          /\ rows'[n].title = rows[n].title /\ rows'[n].posted = rows[n].posted
          /\ rows'[n].created = rows[n].created
          /\ rows[n].category = CatImage => rows'[n].kind = k /\ rows'[n].isAdult = x
          /\ rows[n].category # CatImage => rows'[n] = rows[n]
      BY <1>1, <2>3, <3>1, <3>2, ZenonT(60) DEF Row
    <3> QED
      BY <1>1, <1>9, <2>3, <3>2, <3>3 DEF RowOK, Latest
  <2> QED
    BY <2>2, <2>3
<1> QED
  BY <1>1, <1>2, <1>3, <1>4, <1>5, <1>6, <1>7, <1>8, <1>9

-----------------------------------------------------------------------------
(* The workers and the pages.                                              *)

\* Reading an article adds its row and touches no other.
LEMMA IngestRows ==
  ASSUME TypeOK, Rows, version = Latest, version' = version, library' = library,
         NEW n \in Num, Ingest(n)
  PROVE  /\ Held \subseteq Held' /\ Held' \subseteq Num
         /\ ~library[n].control => n \in Held'
         /\ \A m \in Held : rows'[m] = rows[m]
         /\ \A m \in Held' : rows'[m] \in Row /\ RowOK(m)'
<1> DEFINE new == {k \in {n} : ~library[k].control}
<1>1. /\ Held' = Held \cup new
      /\ \A m \in Held \cup new :
           rows'[m] = IF m \in Held THEN rows[m] ELSE ParsedRow(library[m])
  BY DEF Ingest, Held
<1>2. /\ Held \subseteq Num /\ library[n] \in Article
      /\ \A m \in Held : rows[m] \in Row /\ RowOK(m)
  BY DatabaseParts DEF Rows
<1>3. ASSUME NEW m \in Held'
      PROVE  rows'[m] \in Row /\ RowOK(m)'
  <2>1. CASE m \in Held
    <3>1. rows'[m] = rows[m]
      BY <1>1, <2>1
    <3> QED
      BY <1>2, <2>1, <3>1 DEF RowOK
  <2>2. CASE m \notin Held
    <3>1. m = n /\ ~library[n].control /\ rows'[n] = ParsedRow(library[n])
      BY <1>1, <1>3, <2>2
    <3>2. /\ rows'[n] \in Row
          /\ rows'[n].category = library[n].category
          /\ rows'[n].sub = ParseSubCats(library[n].codes)
          /\ rows'[n].title = "text" /\ rows'[n].posted = library[n].posted
          /\ rows'[n].kind = KindOf(library[n].category, ParseSubCats(library[n].codes))
          /\ (rows'[n].isAdult <=> rows'[n].kind = KindErotic)
      BY <1>2, <3>1, ParsedRowFacts
    <3>3. library[n].category # CatImage =>
            /\ KindOf(library[n].category, ParseSubCats(library[n].codes)) = KindNone
            /\ KindNone # KindErotic
      BY KindOfFacts DEF KindNone, KindErotic
    <3>4. rows'[n].isAdult \in BOOLEAN
      BY <3>2, RowParts
    <3> QED
      BY <3>1, <3>2, <3>3, <3>4 DEF RowOK
  <2> QED
    BY <2>1, <2>2
<1> QED
  BY <1>1, <1>2, <1>3

\* Where the forward sync goes on.
LEMMA ForwardFromIs ==
  ASSUME TypeOK, ForwardFrom <= NumArticles
  PROVE  /\ ForwardFrom \in Num /\ ForwardFrom > lastArticle
         /\ lastArticle > 0 => ForwardFrom = lastArticle + 1
BY DatabaseParts, MigrationsAssumption, CatalogueAssumption DEF ForwardFrom, Num

\* A page holds the newest of what is listed, and is empty only if nothing is.
LEMMA PageFacts ==
  ASSUME TypeOK, NEW p, NEW cursor, NEW P \in NewestOf(Listed(p, cursor))
  PROVE  /\ P \subseteq Listed(p, cursor) /\ P \subseteq Held
         /\ P = {} => Listed(p, cursor) = {}
         /\ \A x \in P, y \in Listed(p, cursor) \ P : rows[x].posted >= rows[y].posted
         /\ P # {} => /\ NextBefore(P) \in 1 .. Now
                      /\ \E n \in P : NextBefore(P) = rows[n].posted
                      /\ \A n \in P : NextBefore(P) <= rows[n].posted
<1> DEFINE S == Listed(p, cursor)
<1>1. /\ P \subseteq S
      /\ Cardinality(P) = IF Cardinality(S) < PageSize THEN Cardinality(S) ELSE PageSize
      /\ \A x \in P, y \in S \ P : rows[x].posted >= rows[y].posted
  BY DEF NewestOf
<1>2. S \subseteq Held /\ Held \subseteq Num /\ \A n \in Held : rows[n].posted \in 1 .. Now
  BY DatabaseParts, RowParts DEF Listed
<1> HIDE DEF S
<1>3. IsFiniteSet(S)
  <2>1. IsFiniteSet(1 .. NumArticles)
    BY MigrationsAssumption, FS_Interval
  <2> QED
    BY <1>2, <2>1, FS_Subset DEF Num
<1>4. P = {} => S = {}
  <2>1. Cardinality(S) \in Nat /\ (Cardinality(S) = 0 <=> S = {})
    BY <1>3, FS_CardinalityType, FS_EmptySet
  <2>2. P = {} => Cardinality(P) = 0
    BY FS_EmptySet
  <2> QED
    BY <1>1, <2>1, <2>2, CatalogueAssumption
<1>5. ASSUME P # {}
      PROVE  /\ NextBefore(P) \in {rows[n].posted : n \in P}
             /\ \A n \in P : NextBefore(P) <= rows[n].posted
  <2> DEFINE D == {rows[n].posted : n \in P}
  <2>1. D \in SUBSET Nat /\ D # {}
    BY <1>1, <1>2, <1>5
  <2>2. \E t \in D : \A u \in D : t <= u
    <3> HIDE DEF D
    <3> QED
      BY <2>1, LeastNumber
  <2>3. \E t \in D : \A n \in P : t <= rows[n].posted
    BY <2>2
  <2> QED
    BY <2>3 DEF NextBefore
<1> QED
  BY <1>1, <1>2, <1>4, <1>5 DEF S

-----------------------------------------------------------------------------
(* The invariant holds at first.                                           *)

\* The database of any earlier release, and a new one, satisfy the invariant.
LEMMA InitInv ==
  ASSUME Init
  PROVE  IInv
<1>1. library \in [Num -> Article]
  BY LibrariesAssumption DEF Init
<1>2. /\ origin = [version |-> version, held |-> Held]
      /\ pc = "down" /\ starts = 0
      /\ allowAdult = FALSE /\ envKey = NoKey /\ apiKey = NoKey
      /\ storedKey = NoKey /\ minted = 0 /\ knownKey = NoKey
      /\ walk = "idle" /\ kinds = {} /\ before = 0
      /\ page = {} /\ seen = {} /\ steady = {} /\ edges = {}
  BY DEF Init
<1>3. /\ version \in 0 .. 11 /\ Held \subseteq Num
      /\ {lastArticle, backfillArticle, sweepArticle} \subseteq 0 .. NumArticles
      /\ \A n \in Held : rows[n] \in Row /\ RowOK(n) /\ rows[n].created = OldTime
  <2>1. CASE NewDatabase
    <3>1. Held = {}
      BY <2>1 DEF NewDatabase, Held
    <3> QED
      BY <2>1, <3>1, MigrationsAssumption DEF NewDatabase
  <2>2. ASSUME NEW v \in 0 .. Latest, NEW lo \in Num, NEW hi \in InitialLast, lo <= hi,
               OldDatabase(v, lo, hi)
        PROVE  /\ version \in 0 .. 11 /\ Held \subseteq Num
               /\ {lastArticle, backfillArticle, sweepArticle} \subseteq 0 .. NumArticles
               /\ \A n \in Held : rows[n] \in Row /\ RowOK(n) /\ rows[n].created = OldTime
    <3>1. hi \in Num
      BY <2>2, CatalogueAssumption
    <3>2. /\ version = v
          /\ Held = {m \in lo .. hi : library[m].control => v < 3}
          /\ \A n \in Held : rows[n] = OldRow(v, library[n])
      BY <2>2 DEF OldDatabase, Held
    <3>3. Held \subseteq Num
      BY <3>1, <3>2, MigrationsAssumption DEF Num
    <3>4. {lastArticle, backfillArticle, sweepArticle} \subseteq 0 .. NumArticles
      BY <2>2, <3>1, MigrationsAssumption DEF OldDatabase, Num
    <3>5. ASSUME NEW n \in Held
          PROVE  rows[n] \in Row /\ RowOK(n) /\ rows[n].created = OldTime
      <4>1. library[n] \in Article /\ (library[n].control => v < 3)
        BY <1>1, <3>2, <3>3, <3>5
      <4>2. rows[n] = OldRow(v, library[n])
        BY <3>2, <3>5
      <4>3. LET a == library[n]
                r == OldRow(v, a)
            IN  /\ r \in Row
                /\ r.category = a.category /\ r.sub = ParseSubCats(a.codes)
                /\ r.title = "control" <=> a.control
                /\ r.title = "bytes" => v < 6
                /\ r.created = OldTime
                /\ \/ r.posted = a.posted
                   \/ v < 4 /\ a.badDate /\ r.posted = r.created
                /\ a.category # CatImage => r.kind = KindNone /\ (v >= 9 => r.isAdult = FALSE)
                /\ v = Latest =>
                     /\ r.kind = KindOf(a.category, ParseSubCats(a.codes))
                     /\ (r.isAdult <=> r.kind = KindErotic)
        BY <4>1, OldRowFacts, Zenon
      <4> QED
        BY <3>2, <4>1, <4>2, <4>3 DEF RowOK
    <3> QED
      BY <2>2, <3>2, <3>3, <3>4, <3>5 DEF Latest
  <2> QED
    BY <2>1, <2>2 DEF Init
<1>4. TypeOK
  <2>1. version \in 0 .. Latest /\ before \in 0 .. Now /\ {page, seen, steady} \subseteq SUBSET Num
    BY <1>2, <1>3, MigrationsAssumption DEF Latest
  <2>2. starts \in 0 .. MaxStarts /\ minted \in 0 .. MaxStarts
        /\ {envKey, apiKey, storedKey, knownKey} \subseteq Key
    BY <1>2, CatalogueAssumption DEF Key
  <2> QED
    BY <1>1, <1>2, <1>3, <2>1, <2>2 DEF TypeOK
<1>5. Rows
  BY <1>2, <1>3 DEF Rows
<1>6. Reach
  BY <1>2, <1>3 DEF Reach
<1>7. Paging /\ Keys
  BY <1>2, MigrationsAssumption, CatalogueAssumption DEF Paging, Keys
<1> QED
  BY <1>4, <1>5, <1>6, <1>7 DEF IInv

-----------------------------------------------------------------------------
(* Every step keeps it.                                                    *)

\* What depends on the rows, the versions and the walk alone.
LEMMA SameRows ==
  ASSUME IInv, UNCHANGED <<library, database, origin>>
  PROVE  /\ Held' = Held /\ \A n \in Held : RowOK(n)'
         /\ Reach'
         /\ UNCHANGED client => Paging'
<1>1. Held' = Held /\ rows' = rows /\ version' = version /\ library' = library
      /\ watermarks' = watermarks /\ origin' = origin
  BY DEF database, Held
<1>2. \A n \in Held : RowOK(n)'
  BY <1>1 DEF IInv, Rows, RowOK
<1>3. Reach'
  <2>1. lastArticle' = lastArticle /\ backfillArticle' = backfillArticle
    BY <1>1 DEF watermarks
  <2>2. \A n : Stranded(n)' <=> Stranded(n)
    BY <1>1 DEF Stranded
  <2> QED
    BY <1>1, <2>1, <2>2 DEF IInv, Reach
<1>4. UNCHANGED client => Paging'
  BY <1>1 DEF IInv, Paging, client
<1> QED
  BY <1>1, <1>2, <1>3, <1>4

\* A start changes nothing a migration could depend on.
LEMMA StartInv ==
  ASSUME IInv, Start
  PROVE  IInv'
<1>1. TypeOK'
  BY CatalogueAssumption
  DEF IInv, TypeOK, Start, database, watermarks, Held, keys, client, Key
<1>2. Rows'
  BY SameRows DEF Start, Rows
<1>3. Reach' /\ Paging'
  BY SameRows DEF Start
<1>4. Keys'
  BY CatalogueAssumption DEF IInv, Keys, TypeOK, Start, keys
<1> QED
  BY <1>1, <1>2, <1>3, <1>4 DEF IInv

\* A stop at any step leaves a database the next start can go on with.
LEMMA StopInv ==
  ASSUME IInv, Stop
  PROVE  IInv'
<1>1. TypeOK'
  BY DEF IInv, TypeOK, Stop, database, watermarks, Held, keys, client, Key
<1>2. Rows'
  BY SameRows DEF Stop, Rows
<1>3. Reach' /\ Paging'
  BY SameRows DEF Stop
<1>4. Keys'
  BY DEF IInv, Keys, Stop, keys
<1> QED
  BY <1>1, <1>2, <1>3, <1>4 DEF IInv

\* resolveAPIKey stores a key only where there is none.
LEMMA ResolveAPIKeyInv ==
  ASSUME IInv, ResolveAPIKey
  PROVE  IInv'
<1>1. /\ minted \in 0 .. MaxStarts /\ starts \in 0 .. MaxStarts /\ minted < starts
      /\ storedKey \in 1 .. MaxStarts \cup {NoKey} /\ envKey \in Key
  BY DEF IInv, TypeOK, Keys, ResolveAPIKey
<1>2. minted + 1 \in 1 .. MaxStarts
  BY <1>1, CatalogueAssumption
<1>3. /\ minted' \in {minted, minted + 1} /\ minted' <= starts
      /\ storedKey' \in 1 .. MaxStarts \cup {NoKey}
      /\ apiKey' \in {storedKey', envKey}
      /\ knownKey' \in {knownKey, storedKey'}
  BY <1>1, <1>2 DEF ResolveAPIKey
<1>4. TypeOK'
  <2>1. {envKey', apiKey', storedKey', knownKey'} \subseteq Key
    BY <1>1, <1>3 DEF IInv, TypeOK, ResolveAPIKey, Key
  <2>2. minted' \in 0 .. MaxStarts
    BY <1>1, <1>2, <1>3
  <2> QED
    BY <2>1, <2>2 DEF IInv, TypeOK, ResolveAPIKey, database, watermarks, Held, client
<1>5. Rows'
  BY SameRows DEF ResolveAPIKey, Rows, database
<1>6. Reach' /\ Paging'
  BY SameRows DEF ResolveAPIKey
<1>7. Keys'
  <2>1. knownKey' # NoKey => storedKey' = knownKey'
    BY DEF IInv, Keys, ResolveAPIKey
  <2> QED
    BY <1>1, <1>3, <2>1 DEF Keys, ResolveAPIKey
<1> QED
  BY <1>4, <1>5, <1>6, <1>7 DEF IInv

\* Which rows a migration keeps and where it leaves the watermarks.
LEMMA MigrationMarks ==
  ASSUME TypeOK, ApplyMigration
  PROVE  /\ version \notin {2, 3} => Held' = Held
         /\ version = 2 => Held' = {n \in Held : rows[n].title # "control"}
         /\ version = 3 => Held' = {n \in Held : rows[n].posted # rows[n].created}
         /\ lastArticle' = IF version = 3 THEN OldestRow' ELSE lastArticle
         /\ backfillArticle' \in {backfillArticle} \cup {OldestRow : x \in {version} \cap {1}}
         /\ sweepArticle' \in {sweepArticle, 0}
<1>1. version \in 0 .. 11 /\ version < 11 /\ Migration(version + 1)
  BY DatabaseParts DEF ApplyMigration, Latest
<1>2. CASE version \in {0, 4, 5, 8, 10}
  <2>1. watermarks' = watermarks /\ Held' = Held
    <3>1. CASE version = 0
      BY <1>1, <3>1 DEF Migration, AddAdultFlag, Held
    <3>2. CASE version = 4
      BY <1>1, <3>2 DEF Migration, FillKind, Held
    <3>3. CASE version = 5
      BY <1>1, <3>3 DEF Migration, RedecodeEightBitText, Held
    <3>4. CASE version = 8
      BY <1>1, <3>4 DEF Migration, AudiobooksAreNotAdult, Held
    <3>5. CASE version = 10
      <4>1. DeriveKindAndAdult
        BY <1>1, <3>5 DEF Migration
      <4> QED
        BY <4>1 DEF DeriveKindAndAdult, Held
    <3> QED
      BY <1>2, <3>1, <3>2, <3>3, <3>4, <3>5
  <2> QED
    BY <1>2, <2>1 DEF watermarks
<1>3. CASE version = 1
  BY <1>1, <1>3 DEF Migration, SeedBackfill, Held
<1>4. CASE version = 2
  BY <1>1, <1>4 DEF Migration, DropControlMessages, Delete, Restrict, Held, watermarks
<1>5. CASE version = 3
  BY <1>1, <1>5 DEF Migration, ReingestMisdated, Delete, Restrict, Held
<1>6. CASE version \in {6, 7}
  BY <1>1, <1>6 DEF Migration, RestartSweep, Held
<1>7. CASE version = 9
  BY <1>1, <1>7 DEF Migration, AddIndexOnly, Held, watermarks
<1> QED
  BY <1>1, <1>2, <1>3, <1>4, <1>5, <1>6, <1>7

\* Migration 4 deletes rows and moves the watermarks back below them.
LEMMA MigrateReach ==
  ASSUME IInv, Migrate
  PROVE  Reach'
<1>1. /\ TypeOK /\ Rows /\ Reach /\ ApplyMigration
      /\ version \in 0 .. 11 /\ version' = version + 1
      /\ library' = library /\ origin' = origin
      /\ Held \subseteq Num /\ lastArticle \in 0 .. NumArticles
      /\ backfillArticle \in 0 .. NumArticles
      /\ \A n \in Held : RowOK(n)
      /\ origin.version \in 0 .. version /\ origin.held \subseteq Num
  BY DatabaseParts DEF IInv, Migrate, ApplyMigration, Rows, Reach
<1>2. Held' \subseteq Held /\ \A n \in Held' : rows'[n].created = rows[n].created
  BY <1>1, MigrationRows
<1>3. \A n : Stranded(n)' <=> Stranded(n)
  BY <1>1 DEF Stranded
<1>4. origin'.version \in 0 .. version' /\ origin'.held \subseteq Num
  BY <1>1
<1>5. CASE version < 3
  <2>1. ASSUME NEW n \in origin.held, ~library[n].control
        PROVE  n \in Held'
    <3>1. n \in Held
      BY <1>1, <1>5, <2>1 DEF Reach
    <3>2. rows[n].title # "control"
      BY <1>1, <2>1, <3>1 DEF RowOK
    <3> QED
      BY <1>1, <1>5, <3>1, <3>2, MigrationMarks
  <2>2. \A n \in Held' : rows'[n].created = OldTime
    BY <1>1, <1>2, <1>5 DEF Reach
  <2> QED
    BY <1>1, <1>4, <1>5, <2>1, <2>2 DEF Reach
<1>6. CASE version = 3
  <2>1. Held' = {n \in Held : rows[n].posted # rows[n].created} /\ lastArticle' = OldestRow'
    BY <1>1, <1>6, MigrationMarks
  <2>2. ASSUME NEW n \in origin.held, ~library[n].control, ~Stranded(n)
        PROVE  n \in Held' \/ (lastArticle' > 0 /\ n > lastArticle')
    <3>1. PICK m \in origin.held :
            /\ m <= n /\ ~library[m].control
            /\ ~library[m].badDate /\ library[m].posted # OldTime
      BY <1>1, <1>6, <2>2 DEF Stranded
    <3>2. m \in Held /\ rows[m].created = OldTime
      BY <1>1, <1>6, <3>1 DEF Reach
    <3>3. rows[m].posted = library[m].posted
      BY <1>1, <3>1, <3>2 DEF RowOK
    <3>4. m \in Held'
      BY <2>1, <3>1, <3>2, <3>3
    <3>5. OldestRow' \in Held' /\ OldestRow' <= m
      BY <1>1, <1>2, <3>4, OldestRowIsPrime
    <3>6. OldestRow' > 0 /\ OldestRow' \in Nat /\ m \in Nat /\ n \in Nat
      BY <1>1, <1>2, <3>5 DEF Num
    <3> QED
      BY <2>1, <3>1, <3>5, <3>6
  <2> QED
    BY <1>1, <1>3, <1>4, <1>6, <2>2 DEF Reach
<1>7. CASE version > 3
  <2>1. Held' = Held /\ lastArticle' = lastArticle /\ backfillArticle' = backfillArticle
    BY <1>1, <1>7, MigrationMarks
  <2> QED
    BY <1>1, <1>3, <1>4, <1>7, <2>1 DEF Reach
<1> QED
  BY <1>1, <1>5, <1>6, <1>7

\* Each migration takes the rows from its version to the next.
LEMMA MigrateInv ==
  ASSUME IInv, Migrate
  PROVE  IInv'
<1>1. /\ TypeOK /\ Rows /\ ApplyMigration /\ version \in 0 .. 11 /\ version < 11
      /\ version' = version + 1 /\ library' = library
      /\ pc = "migrating" /\ process' = process /\ keys' = keys /\ client' = client
      /\ Held \subseteq Num /\ lastArticle \in 0 .. NumArticles
      /\ backfillArticle \in 0 .. NumArticles /\ sweepArticle \in 0 .. NumArticles
  BY DatabaseParts DEF IInv, Migrate, ApplyMigration, Latest
<1>2. Held' \subseteq Held /\ \A n \in Held' : rows'[n] \in Row /\ RowOK(n)'
  BY <1>1, MigrationRows
<1>3. TypeOK'
  <2>1. {lastArticle', backfillArticle', sweepArticle'} \subseteq 0 .. NumArticles
    <3>1. OldestRow \in 0 .. NumArticles /\ OldestRow' \in 0 .. NumArticles
      BY <1>1, <1>2, OldestRowIs, OldestRowIsPrime
    <3> QED
      BY <1>1, <3>1, MigrationMarks, MigrationsAssumption
  <2> QED
    BY <1>1, <1>2, <2>1 DEF TypeOK, process, keys, client, Latest
<1>4. Rows'
  BY <1>1, <1>2 DEF Rows, process
<1>5. Paging'
  <2>1. walk = "idle"
    BY <1>1 DEF IInv, Paging, TypeOK, Latest
  <2> QED
    BY <1>1, <2>1 DEF IInv, Paging, client
<1>6. Keys'
  BY <1>1 DEF IInv, Keys, keys, process
<1> QED
  BY <1>3, <1>4, <1>5, <1>6, MigrateReach DEF IInv

\* What a worker's step leaves alone.
LEMMA WorkerInv ==
  ASSUME IInv, version = Latest, NEW n \in Num, Ingest(n),
         UNCHANGED <<library, version, sweepArticle, process, keys, origin, client>>,
         lastArticle' \in 0 .. NumArticles, backfillArticle' \in 0 .. NumArticles
  PROVE  /\ TypeOK' /\ Rows' /\ Paging' /\ Keys'
<1>1. /\ Held \subseteq Held' /\ Held' \subseteq Num
      /\ \A m \in Held : rows'[m] = rows[m]
      /\ \A m \in Held' : rows'[m] \in Row /\ RowOK(m)'
  BY IngestRows DEF IInv
<1>2. TypeOK'
  BY <1>1 DEF IInv, TypeOK, process, keys, client
<1>3. Rows'
  BY <1>1 DEF Rows
<1>4. Paging'
  <2>1. /\ walk' = walk /\ before' = before /\ page' = page /\ seen' = seen
        /\ steady' = steady /\ edges' = edges
    BY DEF client
  <2> QED
    BY <1>1, <2>1 DEF IInv, Paging
<1>5. Keys'
  BY DEF IInv, Keys, keys, process
<1> QED
  BY <1>2, <1>3, <1>4, <1>5

\* The forward sync adds a row at the top.
LEMMA ForwardInv ==
  ASSUME IInv, Forward
  PROVE  IInv'
<1> DEFINE n == ForwardFrom
<1>1. /\ TypeOK /\ Rows /\ version = Latest /\ Ingest(n) /\ lastArticle' = n
      /\ UNCHANGED <<library, version, backfillArticle, sweepArticle, process, keys, origin, client>>
      /\ lastArticle \in 0 .. NumArticles /\ backfillArticle \in 0 .. NumArticles
  BY DatabaseParts DEF IInv, Forward, Rows
<1>2. n \in Num /\ n > lastArticle /\ (lastArticle > 0 => n = lastArticle + 1)
  BY <1>1, ForwardFromIs DEF Forward
<1> HIDE DEF n
<1>3. TypeOK' /\ Rows' /\ Paging' /\ Keys'
  <2>1. n \in 0 .. NumArticles
    BY <1>2 DEF Num
  <2> QED
    BY <1>1, <1>2, <2>1, WorkerInv
<1>4. Reach'
  <2>1. Held \subseteq Held' /\ (~library[n].control => n \in Held')
    BY <1>1, <1>2, IngestRows
  <2>2. \A m : Stranded(m)' <=> Stranded(m)
    BY <1>1 DEF Stranded
  <2>3. ASSUME NEW m \in origin.held, ~library[m].control, ~Stranded(m)
        PROVE  m \in Held' \/ (lastArticle' > 0 /\ m > lastArticle') \/ m < backfillArticle'
    <3>1. m \in Num
      BY <2>3 DEF IInv, Reach
    <3>2. m \in Held \/ (lastArticle > 0 /\ m > lastArticle) \/ m < backfillArticle
      BY <1>1, <2>3 DEF IInv, Reach, Latest
    <3>3. CASE lastArticle > 0 /\ m > lastArticle
      <4>1. m = n \/ m > n
        BY <1>1, <1>2, <3>1, <3>3 DEF Num
      <4> QED
        BY <1>1, <1>2, <2>1, <2>3, <4>1 DEF Num
    <3> QED
      BY <1>1, <2>1, <3>2, <3>3
  <2> QED
    BY <1>1, <2>2, <2>3 DEF IInv, Reach, Latest
<1> QED
  BY <1>3, <1>4 DEF IInv

\* The backfill adds a row at the bottom.
LEMMA BackfillInv ==
  ASSUME IInv, Backfill
  PROVE  IInv'
<1> DEFINE n == backfillArticle - 1
<1>1. /\ TypeOK /\ Rows /\ version = Latest /\ Ingest(n) /\ backfillArticle' = n
      /\ UNCHANGED <<library, version, lastArticle, sweepArticle, process, keys, origin, client>>
      /\ lastArticle \in 0 .. NumArticles /\ backfillArticle \in 0 .. NumArticles
      /\ backfillArticle > 1
  BY DatabaseParts DEF IInv, Backfill, Rows
<1>2. n \in Num /\ n \in 0 .. NumArticles /\ n = backfillArticle - 1
  BY <1>1, MigrationsAssumption DEF Num
<1> HIDE DEF n
<1>3. TypeOK' /\ Rows' /\ Paging' /\ Keys'
  BY <1>1, <1>2, WorkerInv
<1>4. Reach'
  <2>1. Held \subseteq Held' /\ (~library[n].control => n \in Held')
    BY <1>1, <1>2, IngestRows
  <2>2. \A m : Stranded(m)' <=> Stranded(m)
    BY <1>1 DEF Stranded
  <2>3. ASSUME NEW m \in origin.held, ~library[m].control, ~Stranded(m)
        PROVE  m \in Held' \/ (lastArticle' > 0 /\ m > lastArticle') \/ m < backfillArticle'
    <3>1. m \in Num
      BY <2>3 DEF IInv, Reach
    <3>2. m \in Held \/ (lastArticle > 0 /\ m > lastArticle) \/ m < backfillArticle
      BY <1>1, <2>3 DEF IInv, Reach, Latest
    <3>3. m < backfillArticle => m = n \/ m < n
      BY <1>1, <1>2, <3>1 DEF Num
    <3> QED
      BY <1>1, <2>1, <2>3, <3>2, <3>3
  <2> QED
    BY <1>1, <2>2, <2>3 DEF IInv, Reach, Latest
<1> QED
  BY <1>3, <1>4 DEF IInv

\* A walk begins with the first page.
LEMMA StartWalkInv ==
  ASSUME IInv, StartWalk
  PROVE  IInv'
<1>1. /\ TypeOK /\ Paging /\ version = Latest /\ walk = "idle" /\ walk' = "walking"
      /\ UNCHANGED <<library, database, process, keys, origin, before, page, seen, edges>>
  BY DEF IInv, StartWalk, Rows
<1>2. /\ rows' = rows /\ Held' = Held /\ version' = version
  BY <1>1 DEF database, Held
<1>3. steady' \subseteq Held /\ kinds' \subseteq Kind
  <2>1. steady' \subseteq Held
    BY DEF StartWalk, Listed
  <2>2. kinds' \in KindSets
    BY DEF StartWalk
  <2> QED
    BY <2>1, <2>2, CatalogueAssumption
<1>4. TypeOK'
  BY <1>1, <1>2, <1>3 DEF TypeOK, database, watermarks, process, keys
<1>5. Rows' /\ Reach'
  BY <1>1, SameRows DEF IInv, Rows, database, process
<1>6. Paging'
  BY <1>1, <1>2, <1>3 DEF Paging
<1>7. Keys'
  BY <1>1 DEF IInv, Keys, keys, process
<1> QED
  BY <1>4, <1>5, <1>6, <1>7 DEF IInv

\* A page lies below the cursor, so above nothing that was shown; what it leaves out is
\* older than all of it, or of the second it ends in.
LEMMA ReadPagePaging ==
  ASSUME IInv, ReadPage
  PROVE  Paging'
<1> DEFINE p == ListSpots(kinds, allowAdult)
<1> HIDE DEF p
<1>1. /\ TypeOK /\ version = Latest /\ walk = "walking" /\ before \in 0 .. Now
      /\ rows' = rows /\ Held' = Held /\ version' = version
      /\ seen' = seen \cup page /\ steady' = steady \cap Listed(p, 0)
      /\ \A n \in Held : rows[n].posted \in 1 .. Now
  BY DatabaseParts, RowParts DEF IInv, Paging, ReadPage, Held, database, TypeOK, p
<1>2. /\ page \cup seen \cup steady \subseteq Held
      /\ \A n \in page \cup seen : before # 0 /\ rows[n].posted >= before
      /\ \A n \in steady :
           \/ before = 0 \/ rows[n].posted < before
           \/ n \in seen \cup page \/ rows[n].posted \in edges
      /\ page \cap seen = {}
  BY DEF IInv, Paging
<1>3. PICK P \in NewestOf(Listed(p, before)) :
        /\ page' = P
        /\ before' = IF P = {} THEN before ELSE NextBefore(P)
        /\ edges' = edges \cup {NextBefore(P) : n \in P}
        /\ walk' = IF P = {} THEN "ended" ELSE "walking"
  BY DEF ReadPage, p
<1>4. /\ P \subseteq Listed(p, before) /\ P \subseteq Held
      /\ P = {} => Listed(p, before) = {}
      /\ \A x \in P, y \in Listed(p, before) \ P : rows[x].posted >= rows[y].posted
      /\ P # {} => /\ NextBefore(P) \in 1 .. Now
                   /\ \E n \in P : NextBefore(P) = rows[n].posted
                   /\ \A n \in P : NextBefore(P) <= rows[n].posted
  BY <1>1, PageFacts
<1>5. \A n \in Listed(p, 0) : n \in Listed(p, before) \/ (before # 0 /\ rows[n].posted >= before)
  BY <1>1 DEF Listed
<1>6. \A n \in P : before # 0 => rows[n].posted < before
  BY <1>4 DEF Listed
<1>7. \A n \in steady' :
        n \in Listed(p, before) \/ n \in seen' \/ rows[n].posted \in edges
  BY <1>1, <1>2, <1>5, MigrationsAssumption
<1>8. page' \cap seen' = {}
  BY <1>1, <1>2, <1>3, <1>4, <1>6, MigrationsAssumption
<1>9. CASE P = {}
  <2>1. \A n \in steady' : n \in seen' \/ rows[n].posted \in edges'
    BY <1>3, <1>4, <1>7, <1>9
  <2> QED
    BY <1>1, <1>2, <1>3, <1>8, <1>9, <2>1 DEF Paging
<1>10. CASE P # {}
  <2>1. before' = NextBefore(P) /\ before' \in 1 .. Now /\ before' \in edges' /\ edges \subseteq edges'
    BY <1>3, <1>4, <1>10
  <2>2. ASSUME NEW n \in page' \cup seen' PROVE rows[n].posted >= before'
    <3>1. CASE n \in P
      BY <1>1, <1>4, <2>1, <3>1
    <3>2. CASE n \in page \cup seen
      <4>1. before # 0 /\ rows[n].posted >= before /\ rows[n].posted \in 1 .. Now
        BY <1>1, <1>2, <3>2
      <4>2. before' < before
        <5>1. PICK m \in P : before' = rows[m].posted
          BY <1>4, <1>10, <2>1
        <5> QED
          BY <1>6, <4>1, <5>1
      <4> QED
        BY <1>1, <2>1, <4>1, <4>2, MigrationsAssumption
    <3> QED
      BY <1>1, <1>3, <2>2, <3>1, <3>2
  <2>3. ASSUME NEW n \in steady'
        PROVE  rows[n].posted < before' \/ n \in seen' \cup page' \/ rows[n].posted \in edges'
    <3>1. CASE n \in Listed(p, before) \ P
      <4>1. rows[n].posted <= before' /\ rows[n].posted \in 1 .. Now
        BY <1>1, <1>2, <1>4, <2>1, <2>3, <3>1
      <4> QED
        BY <2>1, <4>1, MigrationsAssumption
    <3> QED
      BY <1>3, <1>7, <2>1, <2>3, <3>1
  <2>4. page' \cup seen' \cup steady' \subseteq Held'
    BY <1>1, <1>2, <1>3, <1>4
  <2>5. walk' = "walking"
    BY <1>3, <1>10
  <2> QED
    BY <1>1, <1>8, <2>1, <2>2, <2>3, <2>4, <2>5, MigrationsAssumption DEF Paging
<1> QED
  BY <1>9, <1>10

\* The next page holds the newest spots below the cursor.
LEMMA ReadPageInv ==
  ASSUME IInv, ReadPage
  PROVE  IInv'
<1> DEFINE p == ListSpots(kinds, allowAdult)
<1> HIDE DEF p
<1>1. /\ TypeOK /\ seen' = seen \cup page /\ steady' = steady \cap Listed(p, 0)
      /\ UNCHANGED <<library, database, process, keys, origin, kinds>>
  BY DEF IInv, ReadPage, p
<1>2. PICK P \in NewestOf(Listed(p, before)) :
        /\ page' = P
        /\ before' = IF P = {} THEN before ELSE NextBefore(P)
        /\ edges' = edges \cup {NextBefore(P) : n \in P}
        /\ walk' = IF P = {} THEN "ended" ELSE "walking"
  BY DEF ReadPage, p
<1>3. P \subseteq Held /\ (P # {} => NextBefore(P) \in 1 .. Now)
  BY <1>1, PageFacts
<1>4. TypeOK'
  <2>1. before' \in 0 .. Now /\ edges' \subseteq 0 .. Now
    <3>1. before \in 0 .. Now /\ edges \subseteq 0 .. Now
      BY <1>1 DEF TypeOK
    <3>2. \A t \in 1 .. Now : t \in 0 .. Now
      BY MigrationsAssumption
    <3> QED
      BY <1>2, <1>3, <3>1, <3>2
  <2>2. {page', seen', steady'} \subseteq SUBSET Num
    BY <1>1, <1>2, <1>3 DEF TypeOK
  <2> QED
    BY <1>1, <1>2, <2>1, <2>2 DEF TypeOK, database, watermarks, Held, process, keys
<1>5. Rows' /\ Reach'
  BY <1>1, SameRows DEF IInv, Rows, database, process
<1>6. Keys'
  BY <1>1 DEF IInv, Keys, keys, process
<1> QED
  BY <1>4, <1>5, <1>6, ReadPagePaging DEF IInv

\* Every step keeps the invariant.
LEMMA NextInv ==
  ASSUME IInv, [Next]_vars
  PROVE  IInv'
<1>1. CASE UNCHANGED vars
  <2>1. UNCHANGED <<library, database, process, keys, origin, client>>
    BY <1>1 DEF vars
  <2>2. TypeOK'
    BY <2>1 DEF IInv, TypeOK, database, watermarks, Held, process, keys, client
  <2>3. Rows' /\ Reach' /\ Paging'
    BY <2>1, SameRows DEF IInv, Rows, database, process
  <2>4. Keys'
    BY <2>1 DEF IInv, Keys, keys, process
  <2> QED
    BY <2>2, <2>3, <2>4 DEF IInv
<1> QED
  BY <1>1, StartInv, MigrateInv, ResolveAPIKeyInv, StopInv, ForwardInv, BackfillInv,
     StartWalkInv, ReadPageInv DEF Next

\* Hence it always holds.
LEMMA Inductive == Spec => []IInv
<1>1. Init => IInv
  BY InitInv
<1>2. IInv /\ [Next]_vars => IInv'
  BY NextInv
<1> QED
  BY <1>1, <1>2, PTL DEF Spec

-----------------------------------------------------------------------------
(* What follows.                                                           *)

\* On a running server a row says what KindOf says of its article.
LEMMA RunningRow ==
  ASSUME IInv, pc = "running", NEW n \in Held
  PROVE  /\ library[n] \in Article /\ rows[n] \in Row /\ RowOK(n) /\ version = 11
         /\ rows[n].kind = KindOf(library[n].category, ParseSubCats(library[n].codes))
         /\ rows[n].isAdult <=> rows[n].kind = KindErotic
         /\ rows[n].isAdult <=> Erotic(library[n])
<1>1. library[n] \in Article /\ rows[n] \in Row /\ RowOK(n) /\ version = 11
  BY DatabaseParts DEF IInv, Rows, Latest
<1>2. /\ rows[n].kind = KindOf(library[n].category, ParseSubCats(library[n].codes))
      /\ rows[n].isAdult <=> rows[n].kind = KindErotic
  BY <1>1 DEF RowOK, Latest
<1>3. rows[n].kind = KindErotic <=> Erotic(library[n])
  BY <1>2, KindOfFacts DEF Erotic
<1> QED
  BY <1>1, <1>2, <1>3

\* The state of the catalogue always has its type: no migration, start, page or worker
\* step leaves a row, a watermark, a cursor or a key outside what the code stores.
THEOREM TypeCorrect == Spec => []TypeOK
<1>1. IInv => TypeOK
  BY DEF IInv
<1> QED
  BY <1>1, Inductive, PTL

\* Whatever release wrote the database, wherever its upgrade was interrupted, a running
\* server's rows are those this release would store for the same articles.
THEOREM UpgradeIsReparse == Spec => []RowsAsIfParsedNow
<1>1. IInv => RowsAsIfParsedNow
  <2> SUFFICES ASSUME IInv, pc = "running", NEW n \in Held
               PROVE  /\ ~library[n].control
                      /\ [rows[n] EXCEPT !.created = Now] = ParsedRow(library[n])
    BY DEF RowsAsIfParsedNow
  <2> DEFINE a == library[n]
             r == rows[n]
             kind == KindOf(a.category, ParseSubCats(a.codes))
  <2>1. /\ a \in Article /\ r \in Row /\ RowOK(n) /\ version = 11
        /\ r.kind = kind /\ (r.isAdult <=> r.kind = KindErotic)
    BY RunningRow
  <2>2. /\ ~a.control /\ r.category = a.category /\ r.sub = ParseSubCats(a.codes)
        /\ r.title # "control" /\ r.title # "bytes" /\ r.posted = a.posted
    BY <2>1 DEF RowOK
  <2>3. r.title = "text" /\ r.isAdult \in BOOLEAN
    BY <2>1, <2>2, RowParts
  <2>4. r.isAdult = (kind = KindErotic)
    BY <2>1, <2>3
  <2>5. ParsedRow(a) = [category |-> a.category, sub |-> ParseSubCats(a.codes),
                        title |-> "text", posted |-> a.posted, created |-> Now,
                        isAdult |-> (kind = KindErotic), kind |-> kind]
    BY DEF ParsedRow
  <2> HIDE DEF a, r, kind
  <2>6. [r EXCEPT !.created = Now] =
          [category |-> a.category, sub |-> ParseSubCats(a.codes),
           title |-> "text", posted |-> a.posted, created |-> Now,
           isAdult |-> (kind = KindErotic), kind |-> kind]
    <3> DEFINE adult == kind = KindErotic
    <3> HIDE DEF adult
    <3>1. r.isAdult = adult
      BY <2>4 DEF adult
    <3>2. [r EXCEPT !.created = Now] =
            [category |-> a.category, sub |-> ParseSubCats(a.codes),
             title |-> "text", posted |-> a.posted, created |-> Now,
             isAdult |-> adult, kind |-> kind]
      BY <2>1, <2>2, <2>3, <3>1 DEF Row
    <3> QED
      BY <3>2 DEF adult
  <2> QED
    BY <2>2, <2>5, <2>6 DEF a, r
<1> QED
  BY <1>1, Inductive, PTL

\* Migration 4's re-walk reaches every spot an earlier release had indexed, except those
\* older than every row it kept: at any time such a spot has its row or lies ahead of a
\* worker.
THEOREM UpgradeLosesNothing == Spec => []NothingStranded
<1>1. IInv => NothingStranded
  <2>1. ASSUME IInv PROVE version < 4 \/ version >= 4
    BY <2>1, DatabaseParts DEF IInv
  <2> QED
    BY <2>1 DEF IInv, Reach, NothingStranded
<1> QED
  BY <1>1, Inductive, PTL

\* No listing, search or page shows an erotic spot except the request for 18+ alone on a
\* server that allows it, and that request shows nothing else.
THEOREM AdultStaysApart == Spec => []AdultOnlyOnItsTab
<1>1. IInv => AdultOnlyOnItsTab
  <2> SUFFICES ASSUME IInv, pc = "running", NEW n \in Held
               PROVE  /\ HiddenAdult(rows[n], allowAdult) <=> Erotic(library[n]) /\ ~allowAdult
                      /\ \A ks \in KindSets :
                           Matches(rows[n], ListSpots(ks, allowAdult))
                               /\ (Erotic(library[n]) \/ ks = {KindErotic})
                             => Erotic(library[n]) /\ ks = {KindErotic} /\ allowAdult
                      /\ \A cats \in CatSets :
                           Matches(rows[n], NewznabSearch(cats, allowAdult)) /\ Erotic(library[n])
                             => /\ allowAdult /\ 6 \in {c \div 1000 : c \in cats}
                                /\ UNION {CatKinds(c) : c \in cats} = {}
    BY DEF AdultOnlyOnItsTab
  <2> DEFINE r == rows[n]
             erotic == Erotic(library[n])
  <2>1. (r.isAdult <=> r.kind = KindErotic) /\ (r.isAdult <=> erotic)
    BY RunningRow
  <2>2. erotic => r.category = CatImage
    BY RunningRow DEF Erotic, RowOK
  <2> HIDE DEF r, erotic
  <2>3. HiddenAdult(r, allowAdult) <=> erotic /\ ~allowAdult
    BY <2>1 DEF HiddenAdult
  <2>4. ASSUME NEW ks \in KindSets, Matches(r, ListSpots(ks, allowAdult)),
               erotic \/ ks = {KindErotic}
        PROVE  erotic /\ ks = {KindErotic} /\ allowAdult
    <3> DEFINE p == ListSpots(ks, allowAdult)
    <3>1. /\ p.kinds = ks /\ (p.adultOnly <=> allowAdult /\ ks = {KindErotic})
          /\ (p.allowAdult <=> allowAdult /\ ks = {KindErotic})
      BY DEF ListSpots, SearchParams, IncludeAdult
    <3> HIDE DEF p
    <3>2. /\ p.kinds # {} => r.kind \in p.kinds
          /\ p.adultOnly => r.isAdult
          /\ ~p.adultOnly /\ ~p.allowAdult => ~r.isAdult
      BY <2>4 DEF Matches, p
    <3> QED
      BY <2>1, <2>4, <3>1, <3>2
  <2>5. ASSUME NEW cats \in CatSets, Matches(r, NewznabSearch(cats, allowAdult)), erotic
        PROVE  /\ allowAdult /\ 6 \in {c \div 1000 : c \in cats}
               /\ UNION {CatKinds(c) : c \in cats} = {}
    <3> DEFINE p == NewznabSearch(cats, allowAdult)
               anyOf == UNION {CatKinds(c) : c \in cats}
               alone == anyOf = {} /\ \E c \in cats : c \div 1000 = 6
    <3>1. CASE ~alone
      <4>1. p = SearchParams(anyOf, {}, FALSE, FALSE)
        BY <3>1, ZenonT(60) DEF NewznabSearch
      <4>2. p.adultOnly = FALSE /\ p.allowAdult = FALSE
        BY <4>1 DEF SearchParams
      <4> QED
        BY <2>1, <2>5, <4>2 DEF Matches
    <3>2. CASE alone /\ ~allowAdult
      <4>1. p = SearchParams({Nothing}, {}, FALSE, FALSE)
        BY <3>2, ZenonT(60) DEF NewznabSearch
      <4>2. p.adultOnly = FALSE /\ p.allowAdult = FALSE
        BY <4>1 DEF SearchParams
      <4> QED
        BY <2>1, <2>5, <4>2 DEF Matches
    <3>3. CASE alone /\ allowAdult
      BY <3>3
    <3> QED
      BY <3>1, <3>2, <3>3
  <2> QED
    BY <2>3, <2>4, <2>5 DEF r, erotic
<1> QED
  BY <1>1, Inductive, PTL

\* The two Newznab tables agree on every row of a running server, pictures and hidden 18+
\* spots excepted.
THEOREM SearchFindsItsResults == Spec => []FoundWhereAdvertised
<1>1. IInv => FoundWhereAdvertised
  <2> SUFFICES ASSUME IInv, pc = "running", NEW n \in Held,
                      ~ (rows[n].category = CatImage /\ rows[n].kind = KindNone),
                      ~ (Erotic(library[n]) /\ ~allowAdult)
               PROVE  Matches(rows[n], NewznabSearch({NewznabCatID(rows[n])}, allowAdult))
    BY DEF FoundWhereAdvertised
  <2> DEFINE r == rows[n]
  <2>1. /\ r \in Row /\ (r.isAdult <=> r.kind = KindErotic) /\ (r.isAdult <=> Erotic(library[n]))
        /\ r.category # CatImage => r.kind = KindNone
    BY RunningRow, KindOfFacts DEF RowOK
  <2>2. r.category \in Category /\ r.kind \in Kind /\ allowAdult \in BOOLEAN
    BY <2>1, RowParts DEF IInv, TypeOK
  <2> HIDE DEF r
  <2>3. Matches(r, NewznabSearch({NewznabCatID(r)}, allowAdult))
    BY <2>1, <2>2, FoundUnderItsCategory DEF r
  <2> QED
    BY <2>3 DEF r
<1> QED
  BY <1>1, Inductive, PTL

\* A client that follows next_before sees every steadily listed spot once, for every page
\* size and any number of spots coming in meanwhile, except at a second a page ended in.
THEOREM PagesCover == Spec => []PagesCoverListing
<1>1. IInv => PagesCoverListing
  BY DEF IInv, Paging, PagesCoverListing
<1> QED
  BY <1>1, Inductive, PTL

\* No start, failed or not, with API_KEY or without, replaces the key the indexers know.
THEOREM KeyNeverReplaced == Spec => KeyStable
<1>1. IInv /\ [Next]_vars => [knownKey # NoKey => knownKey' = knownKey]_keys
  <2> SUFFICES ASSUME IInv, [Next]_vars, keys' # keys
               PROVE  knownKey # NoKey => knownKey' = knownKey
    BY DEF keys
  <2>1. ResolveAPIKey
    BY DEF Next, vars, Start, Migrate, Stop, Forward, Backfill, StartWalk, ReadPage
  <2> QED
    BY <2>1 DEF ResolveAPIKey, IInv, Keys
<1> QED
  BY <1>1, Inductive, PTL DEF Spec, KeyStable
=============================================================================
