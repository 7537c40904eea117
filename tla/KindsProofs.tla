----------------------------- MODULE KindsProofs -----------------------------
(***************************************************************************)
(* What the tables of Kinds compute: the kind the parser gives a spot, the *)
(* one the migrations' SQL gives it, and the Newznab category a result is  *)
(* found under.                                                            *)
(***************************************************************************)
EXTENDS Kinds, TLAPS

\* A switch or an SQL CASE takes the first rule that applies.
LEMMA FirstMatchIs ==
  ASSUME NEW n \in Nat, NEW rules, DOMAIN rules = 1 .. n,
         NEW i \in 1 .. n, rules[i][1], \A j \in 1 .. i - 1 : ~rules[j][1]
  PROVE  FirstMatch(rules) = rules[i][2]
<1> DEFINE P(k) == rules[k][1] /\ \A j \in 1 .. k - 1 : ~rules[j][1]
<1>1. P(i)
  OBVIOUS
<1>2. ASSUME NEW k \in 1 .. n, P(k) PROVE k = i
  <2>1. ~ (k < i) /\ ~ (i < k)
    BY <1>2
  <2> QED BY <2>1
<1>3. (CHOOSE k \in DOMAIN rules : P(k)) = i
  BY <1>1, <1>2
<1> QED BY <1>3 DEF FirstMatch

\* On the columns the parser fills, the SQL of the migrations and KindOf agree: a code is
\* in the one column kindCaseSQL looks in, or in none.
THEOREM SameKind ==
  ASSUME NEW category, NEW codes
  PROVE  KindCaseSQL(category, ParseSubCats(codes)) = KindOf(category, ParseSubCats(codes))
<1> DEFINE sub == ParseSubCats(codes)
<1> DEFINE all == sub.a \cup sub.b \cup sub.d
<1>1. /\ ("z0" \in all) = ("z0" \in sub.d)
      /\ ("z1" \in all) = ("z1" \in sub.d)
      /\ ("z2" \in all) = ("z2" \in sub.d)
      /\ ("z3" \in all) = ("z3" \in sub.d)
      /\ ("z4" \in all) = ("z4" \in sub.d)
      /\ ("d11" \in all) = ("d11" \in sub.d)
      /\ ("d23" \in all) = ("d23" \in sub.d)
      /\ ("d31" \in all) = ("d31" \in sub.d)
      /\ ("b4" \in all) = ("b4" \in sub.b)
      /\ ("a5" \in all) = ("a5" \in sub.a)
      /\ ("a12" \in all) = ("a12" \in sub.a)
  BY DEF ParseSubCats
<1> SUFFICES KindCaseSQL(category, sub) = KindOf(category, sub)
  OBVIOUS
<1> HIDE DEF sub
<1> QED
  BY <1>1, ZenonT(60) DEF KindOf, KindCaseSQL

\* The rules of KindOf, one after the other.
LEMMA KindOfCases ==
  ASSUME NEW category, NEW codes
  PROVE  KindOf(category, ParseSubCats(codes)) =
           IF category # CatImage THEN KindNone
           ELSE IF "z3" \in codes THEN KindErotic
           ELSE IF "z2" \in codes THEN (IF "d31" \in codes THEN KindComic ELSE KindBook)
           ELSE IF "z1" \in codes THEN KindSeries
           ELSE IF "z0" \in codes THEN KindMovie
           ELSE IF "z4" \in codes THEN KindNone
           ELSE IF "d23" \in codes THEN KindErotic
           ELSE IF "b4" \in codes \/ "d11" \in codes THEN KindSeries
           ELSE IF "a5" \in codes THEN (IF "d31" \in codes THEN KindComic ELSE KindBook)
           ELSE IF "a12" \in codes THEN KindNone
           ELSE KindMovie
<1> DEFINE sub == ParseSubCats(codes)
           all == sub.a \cup sub.b \cup sub.d
           r == << <<category # CatImage, KindNone>>,
                   <<"z3" \in all, KindErotic>>,
                   <<"z2" \in all /\ "d31" \in all, KindComic>>,
                   <<"z2" \in all, KindBook>>,
                   <<"z1" \in all, KindSeries>>,
                   <<"z0" \in all, KindMovie>>,
                   <<"z4" \in all, KindNone>>,
                   <<"d23" \in all, KindErotic>>,
                   <<"b4" \in all \/ "d11" \in all, KindSeries>>,
                   <<"a5" \in all /\ "d31" \in all, KindComic>>,
                   <<"a5" \in all, KindBook>>,
                   <<"a12" \in all, KindNone>>,
                   <<TRUE, KindMovie>> >>
           First(i) == r[i][1] /\ \A j \in 1 .. i - 1 : ~r[j][1]
<1>1. \A c \in Code : c \in all <=> c \in codes
  BY DEF ParseSubCats, Code
<1>2. KindOf(category, sub) = FirstMatch(r)
  BY DEF KindOf
<1> HIDE DEF sub, all
<1>3. DOMAIN r = 1 .. 13 /\ 13 \in Nat
  OBVIOUS
<1>4. /\ r[1][1] <=> category # CatImage
      /\ r[2][1] <=> "z3" \in codes
      /\ r[3][1] <=> "z2" \in codes /\ "d31" \in codes
      /\ r[4][1] <=> "z2" \in codes
      /\ r[5][1] <=> "z1" \in codes
      /\ r[6][1] <=> "z0" \in codes
      /\ r[7][1] <=> "z4" \in codes
      /\ r[8][1] <=> "d23" \in codes
      /\ r[9][1] <=> "b4" \in codes \/ "d11" \in codes
      /\ r[10][1] <=> "a5" \in codes /\ "d31" \in codes
      /\ r[11][1] <=> "a5" \in codes
      /\ r[12][1] <=> "a12" \in codes
      /\ r[13][1]
  BY <1>1 DEF Code
<1>5. /\ r[1][2] = KindNone /\ r[2][2] = KindErotic /\ r[3][2] = KindComic
      /\ r[4][2] = KindBook /\ r[5][2] = KindSeries /\ r[6][2] = KindMovie
      /\ r[7][2] = KindNone /\ r[8][2] = KindErotic /\ r[9][2] = KindSeries
      /\ r[10][2] = KindComic /\ r[11][2] = KindBook /\ r[12][2] = KindNone
      /\ r[13][2] = KindMovie
  OBVIOUS
<1> HIDE DEF r
<1>6. \A i \in 1 .. 13 : First(i) => FirstMatch(r) = r[i][2]
  BY <1>3, FirstMatchIs, Zenon
<1>7. \E i \in 1 .. 13 : First(i)
  BY <1>4
<1>8. PICK i \in 1 .. 13 : First(i) /\ KindOf(category, sub) = r[i][2]
  BY <1>2, <1>6, <1>7
<1> HIDE DEF First
<1>9. \/ i = 1 \/ i = 2 \/ i = 3 \/ i = 4 \/ i = 5 \/ i = 6 \/ i = 7
      \/ i = 8 \/ i = 9 \/ i = 10 \/ i = 11 \/ i = 12 \/ i = 13
  BY <1>8
<1> QED
  BY <1>4, <1>5, <1>8, <1>9 DEF First, sub

\* A kind is one of the table's, only images have one, and it is erotic when a type code
\* says so, or there is no type code and a genre does.
LEMMA KindOfFacts ==
  ASSUME NEW category, NEW codes
  PROVE  LET kind == KindOf(category, ParseSubCats(codes))
         IN  /\ kind \in Kind
             /\ category # CatImage => kind = KindNone
             /\ kind = KindErotic <=>
                  /\ category = CatImage
                  /\ \/ "z3" \in codes
                     \/ "d23" \in codes /\ codes \cap {"z0", "z1", "z2", "z3", "z4"} = {}
<1> DEFINE kind == KindOf(category, ParseSubCats(codes))
<1>1. codes \cap {"z0", "z1", "z2", "z3", "z4"} = {} <=>
        "z0" \notin codes /\ "z1" \notin codes /\ "z2" \notin codes /\ "z3" \notin codes
          /\ "z4" \notin codes
  OBVIOUS
<1> QED
  BY <1>1, KindOfCases
  DEF Kind, KindNone, KindMovie, KindSeries, KindBook, KindComic, KindErotic

\* What each category a result may carry asks for.
LEMMA CatKindsOf ==
  /\ CatKinds(1000) = {Any(CatGame)}
  /\ CatKinds(2000) = {Image(KindMovie)}
  /\ CatKinds(3000) = {Any(CatAudio)}
  /\ CatKinds(4000) = {Any(CatGame), Any(CatApp)}
  /\ CatKinds(5000) = {Image(KindSeries)}
  /\ CatKinds(6000) = {}
  /\ CatKinds(7020) = {Image(KindBook)}
  /\ CatKinds(7030) = {Image(KindComic)}
<1>1. ASSUME NEW c
      PROVE  /\ c = 7030 => CatKinds(c) = {Image(KindComic)}
             /\ c # 7030 /\ c = 7020 => CatKinds(c) = {Image(KindBook)}
             /\ c # 7030 /\ c # 7020 /\ c \div 1000 # 7 =>
                  /\ c \div 1000 = 2 => CatKinds(c) = {Image(KindMovie)}
                  /\ c \div 1000 # 2 =>
                       /\ c \div 1000 = 5 => CatKinds(c) = {Image(KindSeries)}
                       /\ c \div 1000 # 5 =>
                            /\ c \div 1000 = 3 => CatKinds(c) = {Any(CatAudio)}
                            /\ c \div 1000 # 3 =>
                                 /\ c \div 1000 = 1 => CatKinds(c) = {Any(CatGame)}
                                 /\ c \div 1000 # 1 =>
                                      /\ c \div 1000 = 4 =>
                                           CatKinds(c) = {Any(CatGame), Any(CatApp)}
                                      /\ c \div 1000 # 4 => CatKinds(c) = {}
  <2> DEFINE p1 == c = 7030        v1 == {Image(KindComic)}
             p2 == c = 7020        v2 == {Image(KindBook)}
             p3 == c \div 1000 = 7 v3 == {Image(KindBook), Image(KindComic)}
             p4 == c \div 1000 = 2 v4 == {Image(KindMovie)}
             p5 == c \div 1000 = 5 v5 == {Image(KindSeries)}
             p6 == c \div 1000 = 3 v6 == {Any(CatAudio)}
             p7 == c \div 1000 = 1 v7 == {Any(CatGame)}
             p8 == c \div 1000 = 4 v8 == {Any(CatGame), Any(CatApp)}
             v9 == {}
  <2>1. /\ p1 \in BOOLEAN /\ p2 \in BOOLEAN /\ p3 \in BOOLEAN /\ p4 \in BOOLEAN
        /\ p5 \in BOOLEAN /\ p6 \in BOOLEAN /\ p7 \in BOOLEAN /\ p8 \in BOOLEAN
    OBVIOUS
  <2> DEFINE r == << <<p1, v1>>, <<p2, v2>>, <<p3, v3>>, <<p4, v4>>, <<p5, v5>>,
                     <<p6, v6>>, <<p7, v7>>, <<p8, v8>>, <<TRUE, v9>> >>
             First(i) == r[i][1] /\ \A j \in 1 .. i - 1 : ~r[j][1]
  <2>2. CatKinds(c) = FirstMatch(r)
    BY DEF CatKinds
  <2> HIDE DEF p1, p2, p3, p4, p5, p6, p7, p8, v1, v2, v3, v4, v5, v6, v7, v8, v9
  <2>3. DOMAIN r = 1 .. 9 /\ 9 \in Nat
    OBVIOUS
  <2>4. /\ (r[1][1] <=> p1) /\ (r[2][1] <=> p2) /\ (r[3][1] <=> p3)
        /\ (r[4][1] <=> p4) /\ (r[5][1] <=> p5) /\ (r[6][1] <=> p6)
        /\ (r[7][1] <=> p7) /\ (r[8][1] <=> p8) /\ r[9][1]
    BY <2>1
  <2>5. /\ r[1][2] = v1 /\ r[2][2] = v2 /\ r[3][2] = v3
        /\ r[4][2] = v4 /\ r[5][2] = v5 /\ r[6][2] = v6
        /\ r[7][2] = v7 /\ r[8][2] = v8 /\ r[9][2] = v9
    OBVIOUS
  <2> HIDE DEF r
  <2>6. \A i \in 1 .. 9 : First(i) => FirstMatch(r) = r[i][2]
    BY <2>3, FirstMatchIs, Zenon
  <2>7. \E i \in 1 .. 9 : First(i)
    BY <2>1, <2>4
  <2>8. PICK i \in 1 .. 9 : First(i) /\ CatKinds(c) = r[i][2]
    BY <2>2, <2>6, <2>7
  <2>9. i = 1 \/ i = 2 \/ i = 3 \/ i = 4 \/ i = 5 \/ i = 6 \/ i = 7 \/ i = 8 \/ i = 9
    BY <2>8
  <2>10. /\ p1 => CatKinds(c) = v1
         /\ ~p1 /\ p2 => CatKinds(c) = v2
         /\ ~p1 /\ ~p2 /\ ~p3 =>
              /\ p4 => CatKinds(c) = v4
              /\ ~p4 => /\ p5 => CatKinds(c) = v5
                        /\ ~p5 => /\ p6 => CatKinds(c) = v6
                                  /\ ~p6 => /\ p7 => CatKinds(c) = v7
                                            /\ ~p7 => /\ p8 => CatKinds(c) = v8
                                                      /\ ~p8 => CatKinds(c) = v9
    BY <2>1, <2>4, <2>5, <2>8, <2>9
  <2> QED
    BY <2>10, SMTT(60) DEF p1, p2, p3, p4, p5, p6, p7, p8, v1, v2, v4, v5, v6, v7, v8, v9
<1>2. /\ 1000 \div 1000 = 1 /\ 2000 \div 1000 = 2 /\ 3000 \div 1000 = 3 /\ 4000 \div 1000 = 4
      /\ 5000 \div 1000 = 5 /\ 6000 \div 1000 = 6
  OBVIOUS
<1>3. CatKinds(1000) = {Any(CatGame)}
  BY <1>1, <1>2
<1>4. CatKinds(2000) = {Image(KindMovie)}
  BY <1>1, <1>2
<1>5. CatKinds(3000) = {Any(CatAudio)}
  BY <1>1, <1>2
<1>6. CatKinds(4000) = {Any(CatGame), Any(CatApp)}
  BY <1>1, <1>2
<1>7. CatKinds(5000) = {Image(KindSeries)}
  BY <1>1, <1>2
<1>8. CatKinds(6000) = {}
  BY <1>1, <1>2
<1>9. CatKinds(7020) = {Image(KindBook)} /\ CatKinds(7030) = {Image(KindComic)}
  BY <1>1
<1> QED
  BY <1>3, <1>4, <1>5, <1>6, <1>7, <1>8, <1>9

\* The category newznabCatID names for a row.
LEMMA NewznabCatIDCases ==
  ASSUME NEW row
  PROVE  NewznabCatID(row) =
           IF row.category = CatAudio THEN 3000
           ELSE IF row.category = CatGame THEN 1000
           ELSE IF row.category = CatApp THEN 4000
           ELSE IF row.kind = KindSeries THEN 5000
           ELSE IF row.kind = KindBook THEN 7020
           ELSE IF row.kind = KindComic THEN 7030
           ELSE IF row.kind = KindErotic THEN 6000
           ELSE 2000
<1> DEFINE p1 == row.category = CatAudio  p2 == row.category = CatGame
           p3 == row.category = CatApp    p4 == row.kind = KindSeries
           p5 == row.kind = KindBook      p6 == row.kind = KindComic
           p7 == row.kind = KindErotic
<1> DEFINE r == << <<p1, 3000>>, <<p2, 1000>>, <<p3, 4000>>, <<p4, 5000>>, <<p5, 7020>>,
                   <<p6, 7030>>, <<p7, 6000>>, <<TRUE, 2000>> >>
           First(i) == r[i][1] /\ \A j \in 1 .. i - 1 : ~r[j][1]
<1>1. NewznabCatID(row) = FirstMatch(r)
  BY DEF NewznabCatID
<1>2. /\ p1 \in BOOLEAN /\ p2 \in BOOLEAN /\ p3 \in BOOLEAN /\ p4 \in BOOLEAN
      /\ p5 \in BOOLEAN /\ p6 \in BOOLEAN /\ p7 \in BOOLEAN
  OBVIOUS
<1> HIDE DEF p1, p2, p3, p4, p5, p6, p7
<1>3. DOMAIN r = 1 .. 8 /\ 8 \in Nat
  OBVIOUS
<1>4. /\ (r[1][1] <=> p1) /\ (r[2][1] <=> p2) /\ (r[3][1] <=> p3) /\ (r[4][1] <=> p4)
      /\ (r[5][1] <=> p5) /\ (r[6][1] <=> p6) /\ (r[7][1] <=> p7) /\ r[8][1]
  BY <1>2
<1>5. /\ r[1][2] = 3000 /\ r[2][2] = 1000 /\ r[3][2] = 4000 /\ r[4][2] = 5000
      /\ r[5][2] = 7020 /\ r[6][2] = 7030 /\ r[7][2] = 6000 /\ r[8][2] = 2000
  OBVIOUS
<1> HIDE DEF r
<1>6. \A i \in 1 .. 8 : First(i) => FirstMatch(r) = r[i][2]
  BY <1>3, FirstMatchIs, Zenon
<1>7. \E i \in 1 .. 8 : First(i)
  BY <1>2, <1>4, SMTT(60)
<1>8. PICK i \in 1 .. 8 : First(i) /\ NewznabCatID(row) = r[i][2]
  BY <1>1, <1>6, <1>7
<1>9. i = 1 \/ i = 2 \/ i = 3 \/ i = 4 \/ i = 5 \/ i = 6 \/ i = 7 \/ i = 8
  BY <1>8
<1>10. NewznabCatID(row) =
         IF p1 THEN 3000 ELSE IF p2 THEN 1000 ELSE IF p3 THEN 4000 ELSE IF p4 THEN 5000
         ELSE IF p5 THEN 7020 ELSE IF p6 THEN 7030 ELSE IF p7 THEN 6000 ELSE 2000
  BY <1>2, <1>4, <1>5, <1>8, <1>9
<1> QED
  BY <1>10, SMTT(60) DEF p1, p2, p3, p4, p5, p6, p7

\* A row is found by a Newznab search for the category its result carries, except a
\* picture, and an 18+ row on a server that hides them.
LEMMA FoundUnderItsCategory ==
  ASSUME NEW row, NEW allow \in BOOLEAN,
         row.category \in Category, row.kind \in Kind,
         row.category # CatImage => row.kind = KindNone,
         row.isAdult <=> row.kind = KindErotic,
         ~ (row.category = CatImage /\ row.kind = KindNone),
         ~ (row.isAdult /\ ~allow)
  PROVE  Matches(row, NewznabSearch({NewznabCatID(row)}, allow))
<1> DEFINE c == NewznabCatID(row)
           anyOf == UNION {CatKinds(d) : d \in {c}}
           p == NewznabSearch({c}, allow)
<1>1. anyOf = CatKinds(c)
  OBVIOUS
<1>2. CASE row.kind = KindErotic
  <2>1. row.category = CatImage /\ allow /\ c = 6000
    BY <1>2, NewznabCatIDCases
    DEF Kind, KindErotic, KindNone, KindSeries, KindBook, KindComic, CatImage, CatAudio, CatGame, CatApp
  <2>2. anyOf = {} /\ \E d \in {c} : d \div 1000 = 6
    BY <1>1, <2>1, CatKindsOf
  <2>3. p = SearchParams({Image(KindErotic)}, {}, TRUE, TRUE)
    BY <2>1, <2>2 DEF NewznabSearch
  <2>4. p.anyOf = {Image(KindErotic)} /\ p.kinds = {} /\ p.adultOnly
    BY <2>3 DEF SearchParams
  <2>5. Image(KindErotic).category = CatImage /\ Image(KindErotic).kind = KindErotic
    BY DEF Image
  <2> HIDE DEF p
  <2>6. Matches(row, p)
    BY <1>2, <2>1, <2>4, <2>5 DEF Matches
  <2> QED
    BY <2>6 DEF p
<1>3. CASE row.kind # KindErotic
  <2>1. \E ck \in CatKinds(c) : row.category = ck.category /\ ck.kind \in {AnyKind, row.kind}
    <3>1. CASE row.category = CatAudio
      <4>1. c = 3000
        BY <3>1, NewznabCatIDCases
      <4>2. Any(CatAudio) \in CatKinds(c)
        BY <4>1, CatKindsOf
      <4> QED
        BY <3>1, <4>2 DEF Any
    <3>2. CASE row.category = CatGame
      <4>1. c = 1000
        BY <3>2, NewznabCatIDCases DEF CatGame, CatAudio
      <4>2. Any(CatGame) \in CatKinds(c)
        BY <4>1, CatKindsOf
      <4> QED
        BY <3>2, <4>2 DEF Any
    <3>3. CASE row.category = CatApp
      <4>1. c = 4000
        BY <3>3, NewznabCatIDCases DEF CatApp, CatGame, CatAudio
      <4>2. Any(CatApp) \in CatKinds(c)
        BY <4>1, CatKindsOf
      <4> QED
        BY <3>3, <4>2 DEF Any
    <3>4. CASE row.category = CatImage
      <4>1. /\ row.kind = KindSeries => c = 5000
            /\ row.kind = KindBook => c = 7020
            /\ row.kind = KindComic => c = 7030
            /\ row.kind = KindMovie => c = 2000
        <5>1. /\ row.category # CatAudio /\ row.category # CatGame /\ row.category # CatApp
          BY <3>4 DEF CatImage, CatApp, CatGame, CatAudio
        <5>2. c = IF row.kind = KindSeries THEN 5000
                  ELSE IF row.kind = KindBook THEN 7020
                  ELSE IF row.kind = KindComic THEN 7030
                  ELSE IF row.kind = KindErotic THEN 6000
                  ELSE 2000
          BY <5>1, NewznabCatIDCases
        <5> HIDE DEF c
        <5> QED
          BY <5>2 DEF KindMovie, KindSeries, KindBook, KindComic, KindErotic
      <4>2. row.kind \in {KindMovie, KindSeries, KindBook, KindComic}
        BY <1>3, <3>4
        DEF Kind, KindNone, KindMovie, KindSeries, KindBook, KindComic, KindErotic
      <4> HIDE DEF c
      <4>3. Image(row.kind) \in CatKinds(c)
        BY <4>1, <4>2, CatKindsOf
      <4> QED
        BY <3>4, <4>3 DEF Image
    <3> QED
      BY <3>1, <3>2, <3>3, <3>4 DEF Category, CatImage, CatApp, CatGame, CatAudio
  <2>2. anyOf # {} /\ p = SearchParams(anyOf, {}, FALSE, FALSE)
    BY <1>1, <2>1, ZenonT(60) DEF NewznabSearch
  <2>3. p.anyOf = CatKinds(c) /\ p.kinds = {} /\ p.adultOnly = FALSE
    BY <1>1, <2>2 DEF SearchParams
  <2> HIDE DEF p, c
  <2>4. Matches(row, p)
    BY <1>3, <2>1, <2>3 DEF Matches
  <2> QED
    BY <2>4 DEF p, c
<1> QED
  BY <1>2, <1>3
=============================================================================
