------------------------------- MODULE Spotnet -------------------------------
(***************************************************************************)
(* What a Spotnet article says, and which withdrawals may be honoured      *)
(* (internal/spotnet/moderation.go and the article filter that the forward *)
(* sync and the backfill share).                                           *)
(*                                                                         *)
(* Signatures, hashcash and title wording are abstracted to the verdicts   *)
(* the checks give: an article carries the key it names and whether its    *)
(* signature verifies.  A spot's message-id is its article number.         *)
(***************************************************************************)
EXTENDS Naturals

CONSTANTS
  Spotter,          \* spotter ids (fingerprints of poster keys)
  NoSpotter,        \* the empty spotter id ""
  NumArticles,      \* bound: article numbers are 1..NumArticles
  DisposeMaxAge,    \* spotnet.disposeMaxAge, in model days
  MaxPosted,        \* bound: Date headers are 0..MaxPosted
  VerifySignatures  \* the VERIFY_SIGNATURES setting

ASSUME SpotnetAssumption ==
  /\ NoSpotter \notin Spotter
  /\ NumArticles \in Nat \ {0}
  /\ DisposeMaxAge \in Nat
  /\ MaxPosted \in Nat
  /\ VerifySignatures \in BOOLEAN

Num == 1 .. NumArticles

Key == Spotter \cup {NoSpotter}

(***************************************************************************)
(* An overview line together with the headers HEAD would return.  `key' is *)
(* the X-User-Key of a spot, or the key a withdrawal carries inline        *)
(* (NoSpotter: none, or one that does not parse); `sigOK' is the verdict   *)
(* on the header signature; `target' and `keyId' matter for withdrawals.   *)
(* Kind "other" is any article ParseFromOverview refuses, "none" a number  *)
(* no article has (cancelled, or never used by this server).               *)
(***************************************************************************)
Article ==
  [kind : {"spot", "dispose", "other", "none"}, posted : 0 .. MaxPosted,
   key : Key, sigOK : BOOLEAN, validId : BOOLEAN, target : Num, keyId : {1, 2}]

\* The filter of the forward sync and of Backfill.ingest: a Spotnet article that
\* is no control message, whose signature is good in strict mode and whose
\* message-id is well-formed.
Accepted(a) ==
  /\ a.kind = "spot"
  /\ VerifySignatures => a.sigOK
  /\ a.validId

\* ParseDispose on an article LooksLikeModerationCommand recognises.  Only key id 2
\* can verify: without an inline key as the moderator, with one as that spotter.
ParseDispose(a) ==
  LET honoured == a.keyId = 2 /\ a.sigOK
  IN  [target    |-> a.target,
       stamp     |-> a.posted,
       verified  |-> honoured,
       moderator |-> honoured /\ a.key = NoSpotter,
       spotter   |-> IF honoured THEN a.key ELSE NoSpotter]

\* Fault: no upper limit on the age of the spot.
WithinDisposeWindowOpen(cmd, posted) == cmd.stamp >= posted

\* WithinDisposeWindow: not before the spot, and at most DisposeMaxAge after it.
WithinDisposeWindow(cmd, posted) ==
  /\ cmd.stamp >= posted
  /\ cmd.stamp - posted <= DisposeMaxAge

\* ValidateDispose: the moderator always; otherwise the spot's own spotter, in time.
ValidateDispose(cmd, spotOwner, posted) ==
  \/ cmd.verified /\ cmd.moderator
  \/ /\ cmd.verified
     /\ cmd.spotter # NoSpotter
     /\ spotOwner = cmd.spotter
     /\ WithinDisposeWindow(cmd, posted)
=============================================================================
