----------------------------- MODULE MCCatalogue -----------------------------
(***************************************************************************)
(* Small newsgroups and requests for model checking Catalogue.             *)
(***************************************************************************)
EXTENDS Catalogue

Art(category, codes, posted) ==
  [category |-> category, codes |-> codes, control |-> FALSE, posted |-> posted,
   badDate |-> FALSE, eightBit |-> FALSE]
BadDate(a) == [a EXCEPT !.badDate = TRUE]
EightBit(a) == [a EXCEPT !.eightBit = TRUE]
Control(posted) == [Art(CatImage, {}, posted) EXCEPT !.control = TRUE]

\* Old and new erotic spots, an audiobook, books, pictures, apps; unreadable dates at
\* either end, spots of one second, a fresh one, a withdrawal.
MCLibraries == {
  << Art(CatImage, {"z0"}, 1), BadDate(Art(CatImage, {"d23"}, 2)), Art(CatAudio, {"z3"}, 3),
     EightBit(Art(CatImage, {"z3", "a5"}, 3)), Art(CatImage, {"a5", "d31"}, 4) >>,
  << BadDate(EightBit(Art(CatImage, {"b4"}, 2))), Art(CatImage, {"d23", "b4"}, 1), Control(2),
     Art(CatImage, {"z2"}, 2), Art(CatApp, {}, 4) >>,
  << Control(1), BadDate(Art(CatImage, {"z4"}, 2)), Art(CatImage, {"a12"}, 2),
     Art(CatGame, {"z1"}, 3), Art(CatImage, {"d11"}, 4) >>
}

MCKindSets == { {}, {KindMovie}, {KindErotic}, {KindSeries, KindErotic} }
MCCatSets == { {}, {2000}, {5040}, {6000}, {7000}, {6000, 8000}, {6010, 5000}, {8000} }
=============================================================================
