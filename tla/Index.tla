-------------------------------- MODULE Index --------------------------------
(***************************************************************************)
(* What the background workers promise of the listings, whatever their     *)
(* chunks, watermarks, retries and restarts: a spot is listed only if the  *)
(* group has offered it and it was not withdrawn before; it leaves the     *)
(* listings only for a withdrawal by someone entitled, or by retention and *)
(* blacklist where these are configured; and a withdrawn one never         *)
(* returns.  Sync implements this specification.                           *)
(***************************************************************************)

CONSTANT
  Purges     \* retention or the blacklist may remove spots

VARIABLES
  offered,   \* acceptable spots posted so far
  revocable, \* spots for which an entitled withdrawal was posted so far
  listed,    \* spots the listings show
  gone       \* spots withdrawn

vars == <<offered, revocable, listed, gone>>

Init ==
  /\ listed \subseteq offered
  /\ gone = {}

\* The group grows.
Post ==
  /\ offered \subseteq offered'
  /\ revocable \subseteq revocable'
  /\ UNCHANGED <<listed, gone>>

Publish ==
  /\ listed \subseteq listed'
  /\ listed' \ listed \subseteq offered \ gone
  /\ UNCHANGED <<offered, revocable, gone>>

Withdraw ==
  /\ gone \subseteq gone'
  /\ gone' \subseteq gone \cup revocable
  /\ listed' = listed \ gone'
  /\ UNCHANGED <<offered, revocable>>

Purge ==
  /\ Purges
  /\ listed' \subseteq listed
  /\ UNCHANGED <<offered, revocable, gone>>

Next == Post \/ Publish \/ Withdraw \/ Purge

Spec == Init /\ [][Next]_vars
=============================================================================
