----------------------------- MODULE Moderation -----------------------------
(***************************************************************************)
(* applyModeration (internal/sync/moderation.go): the forward sync and the *)
(* withdrawal sweep run it on the withdrawals of a chunk, at the same time *)
(* and on the same database.  One step per withdrawal considered, one per  *)
(* database call that applies the result, so everything the other workers  *)
(* do can fall between.                                                    *)
(***************************************************************************)
EXTENDS Store, Usenet

CONSTANTS
  MaxNetFaults,  \* bound: NNTP commands that fail for a transport reason
  MaxDBFaults,   \* bound: database calls that fail
  Unreadable,    \* spots whose HEAD the server always refuses, not with 430
  MaxFailures    \* consecutive failed chunks after which the sweep gives up (10 in the code)

ASSUME ModerationAssumption ==
  /\ MaxNetFaults \in Nat
  /\ MaxDBFaults \in Nat
  /\ Unreadable \subseteq Num
  /\ MaxFailures \in Nat \ {0}

VARIABLES
  mode,       \* MODERATION_MODE of the running process: "off", "mark" or "delete"
  now,        \* the clock, in model days
  pc,         \* where each worker is
  job,        \* each worker's local variables for the chunk in hand
  failures,   \* sweepGroup's consecutive failures
  netFaults,  \* NNTP failures so far
  dbFaults,   \* database failures so far
  withdrawn   \* history: every spot a withdrawal took out of the listings

faults == <<netFaults, dbFaults>>

Moderating == {"forward", "sweep"}
Worker == Moderating \cup {"backfill", "maintenance"}

(***************************************************************************)
(* The locals: the chunk from..upto, the value read at its start that ends *)
(* the loop (bound), the number of the last article received, the          *)
(* withdrawals still to consider, the targets queued, and lookupErr.       *)
(***************************************************************************)
Job == [from : 0 .. NumArticles, upto : 0 .. NumArticles, bound : 0 .. NumArticles,
        lastNum : 0 .. NumArticles,
        cmds : SUBSET Num, targets : SUBSET Num, lookupErr : BOOLEAN]

NoJob == [from |-> 0, upto |-> 0, bound |-> 0, lastNum |-> 0,
          cmds |-> {}, targets |-> {}, lookupErr |-> FALSE]

Goto(w, label) == pc' = [pc EXCEPT ![w] = label]
SetJob(w, j) == job' = [job EXCEPT ![w] = j]

NetFault == netFaults < MaxNetFaults /\ netFaults' = netFaults + 1 /\ UNCHANGED dbFaults
DBFault == dbFaults < MaxDBFaults /\ dbFaults' = dbFaults + 1 /\ UNCHANGED netFaults

-----------------------------------------------------------------------------
\* Fault: a failed pass ends the forward sync, as it does the backfill.
AbandonForGood(w) == Goto(w, "failed") /\ SetJob(w, NoJob) /\ UNCHANGED failures

\* Fault: an error in the forward sync does not stop before the checkpoint.
AbandonAfterCheckpoint(w) ==
  /\ UNCHANGED failures
  /\ IF w = "forward"
     THEN /\ SetJob(w, [job[w] EXCEPT !.cmds = {}, !.targets = {}, !.lookupErr = FALSE])
          /\ Goto(w, "checkpoint")
     ELSE SetJob(w, NoJob) /\ Goto(w, "chunk")

\* The caller's reaction to an error: syncGroup ends its pass without a checkpoint;
\* sweepGroup retries the chunk until MaxFailures in a row.
Abandon(w) ==
  /\ SetJob(w, NoJob)
  /\ IF w = "forward"
     THEN Goto(w, "wait") /\ UNCHANGED failures
     ELSE /\ failures' = failures + 1
          /\ Goto(w, IF failures + 1 >= MaxFailures THEN "failed" ELSE "chunk")

\* The loop is past withdrawal c; its target is queued when `accept' holds.
Settle(w, c, accept, err) ==
  /\ SetJob(w, [job[w] EXCEPT
                  !.cmds = @ \ {c},
                  !.targets = IF accept THEN @ \cup {group[c].target} ELSE @,
                  !.lookupErr = @ \/ err])
  /\ UNCHANGED <<pc, failures>>

\* The withdrawal in hand: the lowest-numbered one left.
InHand(w, c) ==
  /\ pc[w] = "moderate"
  /\ c \in job[w].cmds
  /\ \A d \in job[w].cmds : c <= d

\* Verified, not queued yet, and DisposeTarget finds a row not moderated.
Eligible(w, cmd) ==
  /\ cmd.verified
  /\ cmd.target \notin job[w].targets
  /\ cmd.target \in spots
  /\ cmd.target \notin moderated

Posted(n) == group[n].posted

\* A personal withdrawal inside the window whose target has no owner on record.
NeedsLookup(w, cmd) ==
  /\ Eligible(w, cmd)
  /\ ~cmd.moderator
  /\ WithinDisposeWindow(cmd, Posted(cmd.target))
  /\ owner[cmd.target] = NoSpotter

\* No lookup: skipped, rejected, or queued on what the row says.  An unknown owner
\* after a failed lookup in this batch is not looked up again.
Judge(w, c) ==
  LET cmd == ParseDispose(group[c])
      accept == /\ Eligible(w, cmd)
                /\ ValidateDispose(cmd, owner[cmd.target], Posted(cmd.target))
  IN  /\ InHand(w, c)
      /\ NeedsLookup(w, cmd) => job[w].lookupErr
      /\ Settle(w, c, accept, FALSE)
      /\ UNCHANGED <<tables, faults, withdrawn>>

\* lookupOwner succeeds: HEAD gives the key (stored, then judged), no key, or 430.
LookupOwner(w, c) ==
  LET cmd == ParseDispose(group[c])
      t == cmd.target
      key == IF OnServer(t) THEN UserKey(t) ELSE NoSpotter
  IN  /\ InHand(w, c)
      /\ NeedsLookup(w, cmd) /\ ~job[w].lookupErr
      /\ t \notin Unreadable
      /\ IF key = NoSpotter THEN UNCHANGED tables ELSE SetSpotOwner(t, key)
      /\ Settle(w, c, ValidateDispose(cmd, key, Posted(t)), FALSE)
      /\ UNCHANGED <<faults, withdrawn>>

\* HEAD fails (in transport, or with any answer but 221 and 430, or too large a
\* header), or SetSpotOwner fails: the withdrawal is passed over and
\* the error is kept for the caller; the loop goes on without further lookups.
LookupFails(w, c) ==
  LET cmd == ParseDispose(group[c])
      t == cmd.target
  IN  /\ InHand(w, c)
      /\ NeedsLookup(w, cmd) /\ ~job[w].lookupErr
      /\ \/ NetFault
         \/ t \in Unreadable /\ UNCHANGED faults
         \/ t \notin Unreadable /\ OnServer(t) /\ UserKey(t) # NoSpotter /\ DBFault
      /\ Settle(w, c, FALSE, TRUE)
      /\ UNCHANGED <<tables, withdrawn>>

\* DisposeTarget fails: return at once, with nothing applied.
TargetReadFails(w, c) ==
  /\ InHand(w, c)
  /\ ParseDispose(group[c]).verified
  /\ group[c].target \notin job[w].targets
  /\ DBFault
  /\ Abandon(w)
  /\ UNCHANGED <<tables, withdrawn>>

-----------------------------------------------------------------------------
\* Fault: return st, nil.
ReturnIgnoringLookup(w) ==
  /\ Goto(w, "checkpoint")
  /\ SetJob(w, [job[w] EXCEPT !.targets = {}, !.lookupErr = FALSE])
  /\ UNCHANGED failures

\* return st, lookupErr
Return(w) ==
  IF job[w].lookupErr
  THEN Abandon(w)
  ELSE /\ Goto(w, "checkpoint")
       /\ SetJob(w, [job[w] EXCEPT !.targets = {}])
       /\ UNCHANGED failures

LoopEnded(w) == pc[w] = "moderate" /\ job[w].cmds = {}

NothingToApply(w) ==
  /\ LoopEnded(w)
  /\ job[w].targets = {}
  /\ Return(w)
  /\ UNCHANGED <<tables, faults, withdrawn>>

\* MODERATION_MODE=mark: one transaction flags the rows and fills the ring.
ApplyMark(w) ==
  /\ LoopEnded(w)
  /\ job[w].targets # {} /\ mode = "mark"
  /\ MarkModerated(job[w].targets, now)
  /\ withdrawn' = withdrawn \cup job[w].targets
  /\ Return(w)
  /\ UNCHANGED faults

\* MODERATION_MODE=delete: the rows first ...
ApplyDelete(w) ==
  /\ LoopEnded(w)
  /\ job[w].targets # {} /\ mode = "delete"
  /\ DeleteSpotsByMessageID(job[w].targets)
  /\ withdrawn' = withdrawn \cup job[w].targets
  /\ Goto(w, "ring")
  /\ UNCHANGED <<job, failures, faults>>

\* ... then, in a transaction of its own, the ring.
RecordDeleted(w) ==
  /\ pc[w] = "ring"
  /\ MarkModerated(job[w].targets, now)
  /\ Return(w)
  /\ UNCHANGED <<faults, withdrawn>>

\* Either call fails: the error goes to the caller in place of lookupErr.
ApplyFails(w) ==
  /\ \/ LoopEnded(w) /\ job[w].targets # {}
     \/ pc[w] = "ring"
  /\ DBFault
  /\ Abandon(w)
  /\ UNCHANGED <<tables, withdrawn>>

ApplyModeration(w) ==
  \/ \E c \in job[w].cmds :
       \/ Judge(w, c)
       \/ LookupOwner(w, c)
       \/ LookupFails(w, c)
       \/ TargetReadFails(w, c)
  \/ NothingToApply(w)
  \/ ApplyMark(w)
  \/ ApplyDelete(w)
  \/ RecordDeleted(w)
  \/ ApplyFails(w)
=============================================================================
