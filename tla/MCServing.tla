------------------------------ MODULE MCServing ------------------------------
(***************************************************************************)
(* A few spots for model checking Serving.                                 *)
(***************************************************************************)
EXTENDS Serving, TLC

\* All spots of one day, which the retention reaches a day after the server started.
MCPosted == [s \in Spot |-> 0]

\* Requests are interchangeable.
MCSymmetry == Permutations(Request)
=============================================================================
