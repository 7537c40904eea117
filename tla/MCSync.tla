------------------------------- MODULE MCSync -------------------------------
(***************************************************************************)
(* Small newsgroups for model checking Sync.                               *)
(***************************************************************************)
EXTENDS Sync

CONSTANTS alice, bob

Spot(key, day) ==
  [kind |-> "spot", posted |-> day, key |-> key, sigOK |-> TRUE, validId |-> TRUE,
   target |-> 1, keyId |-> 1]
BadId(key, day) == [Spot(key, day) EXCEPT !.validId = FALSE]
Unsigned(key, day) == [Spot(key, day) EXCEPT !.sigOK = FALSE]

\* A withdrawal of spot t signed with `key' (NoSpotter: the moderator key).
Dispose(t, key, day) ==
  [kind |-> "dispose", posted |-> day, key |-> key, sigOK |-> TRUE, validId |-> TRUE,
   target |-> t, keyId |-> 2]
Forged(t, key, day) == [Dispose(t, key, day) EXCEPT !.sigOK = FALSE]
OldKey(t, day) == [Dispose(t, NoSpotter, day) EXCEPT !.keyId = 1]

Other == [Spot(NoSpotter, 0) EXCEPT !.kind = "other"]
None == [Spot(NoSpotter, 0) EXCEPT !.kind = "none"]

MCSpotter == {alice, bob}
MCBlacklist == {bob}

\* Withdrawals by owner, stranger, moderator and forgers; a repeated one; one that
\* comes too late; one numbered before its spot; junk and missing numbers.
MixedGroups == {
  << Spot(alice, 0), Dispose(1, bob, 1), Dispose(1, alice, 2), Spot(bob, 1), Dispose(4, NoSpotter, 2) >>,
  << Spot(alice, 0), Spot(bob, 1), Dispose(1, alice, 2), Dispose(2, bob, 1), Dispose(1, alice, 1) >>,
  << Dispose(2, alice, 1), Spot(alice, 1), None, Forged(2, NoSpotter, 1), Dispose(2, alice, 2) >>,
  << Spot(NoSpotter, 0), OldKey(1, 0), Dispose(1, NoSpotter, 2), BadId(bob, 0), Unsigned(bob, 1) >>,
  << Other, Spot(alice, 0), Dispose(2, alice, 1), None, Dispose(2, NoSpotter, 2) >>
}

\* The withdrawal of a spot numbered after it, which the sweep finds while the forward
\* sync is still to read the spot's chunk again.
DeleteGroups == MixedGroups \cup {
  << Spot(alice, 0), Dispose(3, NoSpotter, 1), Spot(bob, 1), Dispose(1, alice, 1), Other >>
}
=============================================================================
