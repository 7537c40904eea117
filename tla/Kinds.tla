-------------------------------- MODULE Kinds --------------------------------
(***************************************************************************)
(* What a spot is and which requests ask for it: KindOf and its SQL twin   *)
(* (internal/db/kind.go), the columns the parser files subcategory codes   *)
(* under, the filters of the list and of the Newznab search                *)
(* (internal/api/router.go) and the WHERE clause they become               *)
(* (SearchSpots in internal/db/db.go).                                     *)
(*                                                                         *)
(* One code stands for each list of codes KindOf tells apart: d23 for the  *)
(* erotic genres, a5 for the book formats, a12 for pictures.  A Newznab    *)
(* category is its number, so a prefix is its thousands.                   *)
(***************************************************************************)
EXTENDS Integers

CatImage == 0
CatAudio == 1
CatGame == 2
CatApp == 3
Category == CatImage .. CatApp

KindNone == 0
KindMovie == 1
KindSeries == 2
KindBook == 3
KindComic == 4
KindErotic == 5
Kind == KindNone .. KindErotic

Code == {"a5", "a12", "b4", "d11", "d23", "d31", "z0", "z1", "z2", "z3", "z4"}

\* The columns sub_cat_a, sub_cat_b and sub_cat_d: a type code goes with the genres.
ParseSubCats(codes) ==
  [a |-> codes \cap {"a5", "a12"},
   b |-> codes \cap {"b4"},
   d |-> codes \cap {"d11", "d23", "d31", "z0", "z1", "z2", "z3", "z4"}]

\* The value of the first rule <<condition, value>> that applies: a switch, an SQL CASE.
FirstMatch(rules) ==
  LET first == CHOOSE i \in DOMAIN rules : rules[i][1] /\ \A j \in 1 .. i - 1 : ~rules[j][1]
  IN  rules[first][2]

\* KindOf looks at the codes of all three columns together.
KindOf(category, sub) ==
  LET codes == sub.a \cup sub.b \cup sub.d
      Has(c) == c \in codes
  IN  FirstMatch(<<
        <<category # CatImage,       KindNone>>,
        <<Has("z3"),                 KindErotic>>,
        <<Has("z2") /\ Has("d31"),   KindComic>>,
        <<Has("z2"),                 KindBook>>,
        <<Has("z1"),                 KindSeries>>,
        <<Has("z0"),                 KindMovie>>,
        <<Has("z4"),                 KindNone>>,
        <<Has("d23"),                KindErotic>>,
        <<Has("b4") \/ Has("d11"),   KindSeries>>,
        <<Has("a5") /\ Has("d31"),   KindComic>>,
        <<Has("a5"),                 KindBook>>,
        <<Has("a12"),                KindNone>>,
        <<TRUE,                      KindMovie>> >>)

\* Fault: the release of migration 5, which did not look at genres.
KindCaseSQLWithoutGenres(category, sub) ==
  IF category = CatImage /\ sub.d \cap {"z0", "z1", "z2", "z3", "z4"} = {} /\ "d23" \in sub.d
  THEN KindMovie
  ELSE KindOf(category, sub)

\* kindCaseSQL: each code is looked for in its own column.
KindCaseSQL(category, sub) ==
  FirstMatch(<<
    <<category # CatImage,                     KindNone>>,
    <<"z3" \in sub.d,                          KindErotic>>,
    <<"z2" \in sub.d /\ "d31" \in sub.d,       KindComic>>,
    <<"z2" \in sub.d,                          KindBook>>,
    <<"z1" \in sub.d,                          KindSeries>>,
    <<"z0" \in sub.d,                          KindMovie>>,
    <<"z4" \in sub.d,                          KindNone>>,
    <<"d23" \in sub.d,                         KindErotic>>,
    <<"b4" \in sub.b \/ "d11" \in sub.d,       KindSeries>>,
    <<"a5" \in sub.a /\ "d31" \in sub.d,       KindComic>>,
    <<"a5" \in sub.a,                          KindBook>>,
    <<"a12" \in sub.a,                         KindNone>>,
    <<TRUE,                                    KindMovie>> >>)

-----------------------------------------------------------------------------
(* Requests.                                                               *)

AnyKind == -1
Nothing == [category |-> -1, kind |-> AnyKind]
Image(kind) == [category |-> CatImage, kind |-> kind]
Any(category) == [category |-> category, kind |-> AnyKind]

\* Fault: PC games only under 4xxx.
CatKindsGames(c) ==
  FirstMatch(<<
    <<c = 7030,          {Image(KindComic)}>>,
    <<c = 7020,          {Image(KindBook)}>>,
    <<c \div 1000 = 7,   {Image(KindBook), Image(KindComic)}>>,
    <<c \div 1000 = 2,   {Image(KindMovie)}>>,
    <<c \div 1000 = 5,   {Image(KindSeries)}>>,
    <<c \div 1000 = 3,   {Any(CatAudio)}>>,
    <<c \div 1000 = 1,   {Any(CatGame)}>>,
    <<c \div 1000 = 4,   {Any(CatGame)}>>,
    <<TRUE,              {}>> >>)

\* The (category, kind) pairs one Newznab category asks for; 6xxx and unknown ones none.
CatKinds(c) ==
  FirstMatch(<<
    <<c = 7030,          {Image(KindComic)}>>,
    <<c = 7020,          {Image(KindBook)}>>,
    <<c \div 1000 = 7,   {Image(KindBook), Image(KindComic)}>>,
    <<c \div 1000 = 2,   {Image(KindMovie)}>>,
    <<c \div 1000 = 5,   {Image(KindSeries)}>>,
    <<c \div 1000 = 3,   {Any(CatAudio)}>>,
    <<c \div 1000 = 1,   {Any(CatGame)}>>,
    <<c \div 1000 = 4,   {Any(CatGame), Any(CatApp)}>>,
    <<TRUE,              {}>> >>)

\* A request as SearchSpots takes it; empty sets do not narrow it.
SearchParams(anyOf, kinds, allowAdult, adultOnly) ==
  [anyOf |-> anyOf, kinds |-> kinds, allowAdult |-> allowAdult, adultOnly |-> adultOnly]

\* newznabSearch with cat= the given categories: 18+ only when nothing else is asked for.
NewznabSearch(cats, serverAllows) ==
  LET anyOf == UNION {CatKinds(c) : c \in cats}
      adultAlone == anyOf = {} /\ \E c \in cats : c \div 1000 = 6
  IN  CASE adultAlone /\ serverAllows  -> SearchParams({Image(KindErotic)}, {}, TRUE, TRUE)
        [] adultAlone /\ ~serverAllows -> SearchParams({Nothing}, {}, FALSE, FALSE)
        [] OTHER                       -> SearchParams(anyOf, {}, FALSE, FALSE)

\* Fault: kind=erotic next to other kinds lifts the filter too.
IncludeAdultAmongOthers(serverAllows, kinds) == serverAllows /\ KindErotic \in kinds

\* includeAdult: the 18+ filter and nothing else.
IncludeAdult(serverAllows, kinds) == serverAllows /\ kinds = {KindErotic}

\* hiddenAdult: refused by id too.
HiddenAdult(row, serverAllows) == row.isAdult /\ ~serverAllows

\* listSpots with kind= the given kinds.
ListSpots(kinds, serverAllows) ==
  LET adult == IncludeAdult(serverAllows, kinds)
  IN  SearchParams({}, kinds, adult, adult)

\* The WHERE clause of SearchSpots on one row.
Matches(row, p) ==
  /\ p.anyOf # {} => \E ck \in p.anyOf :
       row.category = ck.category /\ ck.kind \in {AnyKind, row.kind}
  /\ p.kinds # {} => row.kind \in p.kinds
  /\ p.adultOnly => row.isAdult
  /\ ~p.adultOnly /\ ~p.allowAdult => ~row.isAdult

\* newznabCatID: the category a search result says it belongs to.
NewznabCatID(row) ==
  FirstMatch(<<
    <<row.category = CatAudio,     3000>>,
    <<row.category = CatGame,      1000>>,
    <<row.category = CatApp,       4000>>,
    <<row.kind = KindSeries,       5000>>,
    <<row.kind = KindBook,         7020>>,
    <<row.kind = KindComic,        7030>>,
    <<row.kind = KindErotic,       6000>>,
    <<TRUE,                        2000>> >>)
=============================================================================
